SPECIFICATION Spec
CONSTANTS
    none = none
    NoScreen = none
    Screens <- ScreensVisible
    Workers = {"hunt"}
    Configs <- OnOff
    RuleLabels <- NoRules
    Threshold = 40
    MinPotions = 5
    EventsCap = 1
    HighCap = 1
    QueueCap = 2
PROPERTIES
    WorkersSeeButton
