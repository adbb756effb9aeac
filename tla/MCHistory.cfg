\* Rows that repeat, a full scrollback, visits of the alternate screen, resizes.
SPECIFICATION Spec
CONSTANTS
  Letters = {x, y}
  AltLetters = {x, y, z}
  SCROLLBACK = 4
  MAX_HISTORY_LINES = 2
  AltRows = 4
  MaxLineRows = 2
  MaxScrolled = 2
  MaxSteps = 6
INVARIANTS TypeOK HistoryIsTold
PROPERTIES AltScrollsEnter OnlyRepeatsMissed
SYMMETRY Symmetry
CHECK_DEADLOCK FALSE
