\* Keys at any time.
CONSTANTS
  NTERM = 1
  BUF_SIZE = 4
  HISTORY = 1
  Space = sp
  Tab = tab
  Enter = enter
  Nul = nul
  la = la
  lc = lc
  sp = sp
  Chars = {lc, sp}
  Completes = {lc}
  ArgAt <- NoArgument
  Words <- AllWords
  Keys = {"char", "enter", "backspace", "tab", "up"}
  TypeAhead = TRUE
SPECIFICATION LiveSpec
INVARIANTS
  BufferInv
  RoomForEnter
  CopyEndsAtNul
PROPERTIES
  EnterEndsRead
