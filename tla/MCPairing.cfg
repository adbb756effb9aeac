\* Two phones, two pairings, and two of: a cancelled pairing, a failed write of
\* the keychain, a restart, a mark that lapses.
SPECIFICATION Spec
CONSTANTS
  Phones = {q1, q2}
  MaxRooms = 2
  MaxPairs = 2
  MaxMishaps = 2
  None = None
INVARIANTS TypeOK EndsFit ClaimsAreRecorded
SYMMETRY Symmetry
CHECK_DEADLOCK FALSE
