SPECIFICATION Spec
CONSTANTS
    h1 = h1
    h2 = h2
    n1 = n1
    n2 = n2
    n3 = n3
    NoAction = NoAction
    Actions = {h1, h2, n1, n2}
    High = {h1, h2}
    Clicks = {h1, n1}
    Peerless = {}
    Malformed = {}
    HighCap = 1
    QueueCap = 1
    Attempts = 2
    CounterMod = 1
PROPERTY
    HighFirst
CHECK_DEADLOCK FALSE
