\* One lost link, two rows, a history that overflows.
SPECIFICATION FairSpec
CONSTANTS
  Texts = {Blank, a}
  Blank = Blank
  MaxRows = 2
  MAX_HISTORY_LINES = 2
  MaxLines = 3
  MaxInFlight = 1
  MaxAsked = 1
  MaxDrops = 1
INVARIANTS TypeOK DeltasFit HistoryFits
PROPERTIES ScreenConverges
CHECK_DEADLOCK FALSE
