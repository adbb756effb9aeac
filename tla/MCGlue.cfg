\* Two connections of the phone, two missed heartbeats, one outage.
SPECIFICATION Spec
CONSTANTS
  MaxSockets = 2
  MaxMisses = 2
  MaxOutages = 1
INVARIANTS TypeOK NewestIsReached AnswersMatch CandidatesAreUsed
PROPERTIES MissesAreTimely NobodyOvertakes
CHECK_DEADLOCK FALSE
