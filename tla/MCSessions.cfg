\* Two producers for one slot and two launches of one launcher.
SPECIFICATION Spec
CONSTANTS
  Conns = {c1, c2}
  Launchers = {zsh}
  Unknown = Unknown
  Manual = Manual
  Requests = {r1, r2}
  NoReq = NoReq
  NoConn = NoConn
  MAX_SESSIONS = 1
  Busy = {}
  MaxRestarts = 0
SYMMETRY Symmetry
INVARIANTS TypeOK SlotsAreOwned PhoneAgrees AnswersAreRight
CHECK_DEADLOCK FALSE
