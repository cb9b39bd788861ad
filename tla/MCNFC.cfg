\* Two faces in contact; up to three of the tasks at a time.
SPECIFICATION MCSpec
CONSTANTS
  A = A
  B = B
  interactive = interactive
  initNFC = initNFC
  neighbour = neighbour
  restarted = restarted
  Faces <- BothFaces
  Tasks <- TheTasks
  FaceOf <- TheFaces
  Duties <- TheDuties
  Budgets <- TheBudgets
  Attempts <- TheAttempts
  None = None
  CHANGES = 3
  FAILURES = 1
CHECK_DEADLOCK FALSE
INVARIANTS
  TypeOK
  OwnReply
  NoPhantomCall
PROPERTIES
  SendHonest
  ReceiveHonest
  CallsReturn
  LostOnlyUnread
