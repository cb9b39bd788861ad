\* Two faces, eight leds each, three tasks; or two, and a transaction that fails.
SPECIFICATION Spec
CONSTANTS
  N = N
  E = E
  leds = leds
  nfc = nfc
  scanner = scanner
  Ports <- TwoPorts
  NORTH = N
  NULLPORT = NULLPORT
  PACKS = 2
  Tasks <- ThreeTasks
  Program <- ThePrograms
  Settings <- TheSettings
  Free = Free
INVARIANTS
  TypeOK
  RightFace
  BusAlone
  ModesAsSet
  OutputsAsAsked
