\* Violation: Backspace after Enter, before the program runs.
CONSTANTS
  NTERM = 1
  BUF_SIZE = 4
  HISTORY = 1
  Space = sp
  Tab = tab
  Enter = enter
  Nul = nul
  la = la
  lc = lc
  sp = sp
  Chars = {la, sp}
  Completes = {}
  ArgAt <- NoCompletion
  Words <- NoWords
  Keys = {"char", "enter", "backspace"}
  TypeAhead = TRUE
SPECIFICATION Spec
PROPERTIES
  EndsWithEnter
