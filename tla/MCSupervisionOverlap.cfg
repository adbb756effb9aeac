CONSTANTS
    SupIds = {1, 2, 3}
    Windows = {w1}
    Viewports = {v1}
    Callbacks = {c1}
    MaxSupervisions = 2
    OwnSize = OwnSize
    Drainer = Drainer
    UserFrame = UserFrame
    NotOpen = NotOpen
    Closed = Closed
    None = None
    NoEntry = NoEntry
    NoFrame = NoFrame
SPECIFICATION Spec
INVARIANT AtMostOneActive
