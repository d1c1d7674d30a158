SPECIFICATION FairSpec
CONSTANTS
    none = none
    NoScreen = none
    Screens <- ScreensFallback
    Workers = {"hunt", "combat", "potion"}
    Configs <- HuntOrFight
    RuleLabels <- Learned
    Threshold = 40
    MinPotions = 5
    EventsCap = 1
    HighCap = 1
    QueueCap = 1
PROPERTIES
    FallbackHunts
    FallbackFights
