SPECIFICATION Spec
CONSTANTS
  Codes <- MCCodes
  USER_ESP = 12
  MAX_FRAMES = 4
INVARIANTS HandlersReturn SigtestVerdict
PROPERTIES Resumes FaultEnds
