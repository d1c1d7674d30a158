SPECIFICATION Spec
CONSTANTS
    none = none
    NoScreen = none
    Screens <- ScreensWorkers
    Workers = {"heal", "dungeon"}
    Configs <- OnOff
    RuleLabels <- NoRules
    Threshold = 40
    MinPotions = 5
    EventsCap = 1
    HighCap = 1
    QueueCap = 1
INVARIANTS
    TypeOK
    CaughtUp
PROPERTIES
    OffStops
