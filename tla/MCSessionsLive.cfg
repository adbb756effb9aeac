\* One session with screens and a kill, one launch, a restart of the phone; the
\* tasks of the runtime go on.
SPECIFICATION FairSpec
CONSTANTS
  Conns = {c1}
  Launchers = {zsh}
  Unknown = Unknown
  Manual = Manual
  Requests = {r1}
  NoReq = NoReq
  NoConn = NoConn
  MAX_SESSIONS = 1
  Busy = {c1}
  MaxRestarts = 1
PROPERTIES SaidInOrder EndIsAnnounced LaunchIsAnswered
CHECK_DEADLOCK FALSE
