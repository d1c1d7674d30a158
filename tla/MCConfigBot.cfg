SPECIFICATION Spec
CONSTANTS
    ana = ana
    bia = bia
    NoRow = NoRow
    Chats <- Both
    Allowed = {ana}
    Fields = {"capture_enabled"}
    Numbers = {0}
    QRCap = 2
    MaxTokens = 4
INVARIANTS
    TypeOK
    MenuIsStored
    NewestIsShown
    ErrorIsTold
PROPERTIES
    QRReachesUser
    Responsive
