\* Two terminals, two slots for programs: a program may start a program.
\* Programs and the shell of terminal 1 may be killed.
CONSTANTS
  NTERM = 2
  MAX_PCB = 4
  KillPids = {1, 2, 3}
  MaxDepth = 2
SPECIFICATION UndisturbedSpec
INVARIANTS
  TypeOK
  Installed
  BaseForShells
  SwitchTargetSaved
  NoSlotLeak
  PendingIsSaved
  ChainsDisjoint
  ParentWaits
  IInv
PROPERTIES
  ImplementsSessions
