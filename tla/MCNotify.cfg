\* One command, one session with two watchers, a pairing and a restart.
SPECIFICATION FairSpec
CONSTANTS
  Commands = {c1}
  Sessions = {s1}
  Watchers = {w1, w2}
  MaxPairings = 2
  MaxRestarts = 1
  MaxHits = 1
INVARIANTS TypeOK PushesAreMeant PhoneKnowsWatchers
PROPERTIES CommandsGoOn
CHECK_DEADLOCK FALSE
