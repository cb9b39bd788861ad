\* Four jobs compete for two slots; calls of schedule_task do not overlap.
SPECIFICATION PSpec
CONSTANTS
  a = a
  b = b
  c = c
  d = d
  main = main
  none = none
  Main = main
  NoJob = none
  MAX_TASKS = 2
  TICK_INTERVAL = 1
  BYTE = 3
  Jobs <- FourJobs
  Schedulers <- TwoJobs
  SleepTimes = {2}
  Overlap = FALSE
INVARIANTS
  TypeOK
  ContextIntegrity
  ExecutingTaskIsCurrent
  AcceptedHosted
  Inv
PROPERTIES
  KeepsPromise
  LiveJobsRun
  ScheduleReturns
