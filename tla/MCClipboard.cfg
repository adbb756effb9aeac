\* Copies by both users, one of them too long, and two mishaps.
SPECIFICATION FairSpec
CONSTANTS
  Texts = {a, b, c}
  TooLong = {c}
  NoText = NoText
  MaxDeeds = 4
  MaxMishaps = 2
INVARIANTS TypeOK CopyIsKnown
PROPERTIES EchoNeedsRace EchoesEnd
CHECK_DEADLOCK FALSE
