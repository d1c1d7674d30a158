SPECIFICATION Spec
CONSTANTS
    none = none
    game = game
    friend = friend
    None = none
    Game = game
    Messages <- MessagesPass
    Containing <- Parts
    Typed <- Labels
    Short <- FloatShort
    Threshold = 29
    CacheLife = 1
    MaxLatency = 1
    QueueCap = 1
    MaxRules = 1
    EventsCap = 1
INVARIANTS
    TypeOK
    StartIsHeard
    UnchangedIsPressed
    HealsWounds
PROPERTIES
    CaptureStops
    CaptureStarts
