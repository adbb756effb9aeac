CONSTANTS
    SupIds = {1, 2}
    Windows = {w1}
    Viewports = {v1}
    Callbacks = {c1}
    MaxSupervisions = 2
    OwnSize = OwnSize
    Drainer = Drainer
    UserFrame = UserFrame
    NotOpen = NotOpen
    Closed = Closed
    None = None
    NoEntry = NoEntry
    NoFrame = NoFrame
SPECIFICATION FairSpec
INVARIANT TypeOK
INVARIANT ToldOnlyRemoved
PROPERTY RemovedForGood
PROPERTY EndIsReported
