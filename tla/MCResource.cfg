SPECIFICATION FairSpec
CONSTANTS
  a = a
  b = b
  c = c
  Main = main
  Nothing = nothing
  MAX_TASKS = 3
  Jobs <- ThreeJobs
  Resources = {1, 2}
  ROUNDS <- Rounds
INVARIANTS
  MutualExclusion
  LockedIffHeld
PROPERTY
  AllFinish
