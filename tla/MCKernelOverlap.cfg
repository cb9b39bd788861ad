\* Two calls of schedule_task may be in progress at once.
SPECIFICATION PSpec
CONSTANTS
  a = a
  b = b
  c = c
  d = d
  main = main
  none = none
  Main = main
  NoJob = none
  MAX_TASKS = 3
  TICK_INTERVAL = 1
  BYTE = 3
  Jobs <- FourJobs
  Schedulers <- ThreeJobs
  SleepTimes = {1}
  Overlap = TRUE
INVARIANT
  AcceptedHosted
