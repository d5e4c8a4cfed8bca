\* Violation: a tick inside the halt of a program that is killed.
CONSTANTS
  NTERM = 2
  MAX_PCB = 4
  KillPids = {2, 3}
  MaxDepth = 2
SPECIFICATION Spec
INVARIANTS
  OwnImage
CHECK_DEADLOCK FALSE
