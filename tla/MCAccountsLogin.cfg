SPECIFICATION FairSpec
CONSTANTS
    a1 = a1
    a2 = a2
    Accounts = {a1}
    Lives = 2
    NoAccount = NoAccount
    EnvCreds = TRUE
    Faults = {}
PROPERTY
    LoginIsServed
