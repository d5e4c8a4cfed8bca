CONSTANTS
  DIGITS = 2
  BLOCK_SIZE = 3
  BUFSIZE = 4
  CURRENT_YEAR = 2023
  Unanswered = Unanswered
  Calls <- MCCalls
SPECIFICATION LibrarySpec
INVARIANTS
  BytesPlaced
  StringsHold
  NumbersReadBack
  FilesReadWhole
  GrepPrintsMatches
  ClockSixHoursBack
CHECK_DEADLOCK FALSE
