\* One terminal, all keys, completion, a history of one line.
CONSTANTS
  NTERM = 1
  BUF_SIZE = 6
  HISTORY = 1
  Space = sp
  Tab = tab
  Enter = enter
  Nul = nul
  la = la
  lc = lc
  sp = sp
  Chars = {lc, sp}
  Completes = {lc}
  ArgAt <- Completion
  Words <- AllWords
  Keys = {"char", "enter", "backspace", "tab", "up", "down", "clear"}
  TypeAhead = FALSE
SPECIFICATION Spec
INVARIANTS
  PoliteInv
  ScreenShowsLine
  CompletionFindsSpace
PROPERTIES
  ImplementsLineEdit
