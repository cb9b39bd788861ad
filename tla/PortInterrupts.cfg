\* Is every face that calls noticed?
SPECIFICATION FairSpec
CONSTANTS
  Ports = {n, e}
  CHANGES = 3
  FAILURES = 0
PROPERTY
  CallNoticed
