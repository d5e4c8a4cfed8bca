\* Two terminals, a history of one line each.
CONSTANTS
  NTERM = 2
  BUF_SIZE = 4
  HISTORY = 1
  Space = la
  Tab = tab
  Enter = enter
  Nul = nul
  la = la
  lc = lc
  sp = la
  Chars = {la}
  Completes = {}
  ArgAt <- NoCompletion
  Words <- NoWords
  Keys = {"char", "enter", "backspace", "up", "down", "alt", "clear"}
  TypeAhead = FALSE
SPECIFICATION Spec
PROPERTIES
  ImplementsLineEdit
