\* One job alone, with the real interval and int: sleep(10) again and again.
SPECIFICATION SSpec
CONSTANTS
  a = a
  main = main
  none = none
  Main = main
  NoJob = none
  MAX_TASKS = 1
  TICK_INTERVAL = 10
  TICK_BOUND = 60
  BYTE = 256
  Jobs <- OneJob
  Schedulers <- NoJobs
  SleepTimes = {10}
  Overlap = FALSE
INVARIANT
  SleepWithinTick
