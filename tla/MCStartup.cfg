SPECIFICATION FairSpec
CHECK_DEADLOCK FALSE
CONSTANTS
    old = old
    new = new
    Processes = {old, new}
    N = 5
    Needs <- Files
    ConnectAttempts = 6
    ConnectBackoff = 2
    Second = 1
    MaxSleep = 10
    WordSize = 32
INVARIANTS
    TypeOK
    OneAhead
    ReadyIsMigrated
    WaitsUntilOverflow
PROPERTY
    AllGetReady
