\* Two jobs that sleep, yield and exit, one of which schedules; a clock of four
\* binary digits; the real slots, interval and faces where NFCtask() starts.
SPECIFICATION MCSpec
CONSTANTS
  a = a
  b = b
  main = main
  none = none
  Main = main
  NoJob = none
  MAX_TASKS = 2
  TICK_INTERVAL = 2
  TICK_BOUND = 12
  BYTE = 4
  Jobs <- TwoJobs
  Schedulers <- Scheduler
  SleepTimes = {1, 4, 5}
  Overlap = FALSE
  CLOCK_BYTE = 2
  CLOCK_WIDTH = 4
  SLOTS = 3
  INTERVAL = 10
  NUM_PORTS = 6
  LIGHTING = 5
  PRINTING = 2
  POLLS = 2
  TOLERATED = 1
  CONNECTED <- FewOrAll
  FAULTS = 2
INVARIANTS
  TimeIsTrue
  NoShortSleep
  UncutSleepWithinTick
  StagesInOrder
