SPECIFICATION FairSpec
CONSTANTS
    h1 = h1
    h2 = h2
    n1 = n1
    n2 = n2
    n3 = n3
    NoAction = NoAction
    Actions = {h1, h2, n1, n2, n3}
    High = {h1, h2}
    Clicks = {h1, n1}
    Peerless = {n3}
    Malformed = {n2}
    HighCap = 1
    QueueCap = 2
    Attempts = 2
    CounterMod = 2
INVARIANTS
    TypeOK
    OnePlace
    LateCallBound
    CallsBounded
PROPERTIES
    IsDispatcher
    AcceptedIsServed
    CancelledReturns
CHECK_DEADLOCK FALSE
