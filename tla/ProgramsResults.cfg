CONSTANTS
  NTERM = 2
  Procs <- MCProcs
  None = None
  RATE = 2
  MAX_FD = 4
  Directory <- MCDirectory
  Uses <- MCUses
  LineLengths = {1}
  READ_SIZE = 2
  FREQ = 1
  Selections = {1, 2, 3, 4, 5, 6, 8, 9}
SPECIFICATION ProgramsSpec
INVARIANT OwnResult
