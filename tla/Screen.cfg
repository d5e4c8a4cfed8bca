SPECIFICATION Spec
CONSTANTS
  Terms <- MCTerms
  NUM_ROWS = 2
  NUM_COLS = 2
  Strings <- MCStrings
  Banner <- MCBanner
  Moves <- MCMoves
  Fish <- MCFish
INVARIANT CursorsOnScreen
PROPERTY ImplementsViews
