\* Liveness: two terminals, one slot for programs.
CONSTANTS
  NTERM = 2
  MAX_PCB = 3
  KillPids = {1, 2}
  MaxDepth = 2
SPECIFICATION LiveSpec
PROPERTIES
  EveryTerminalRuns
  HaltCompletes
  CtrlCDelivered
