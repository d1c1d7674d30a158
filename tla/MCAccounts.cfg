SPECIFICATION FairSpec
CONSTANTS
    a1 = a1
    a2 = a2
    Accounts = {a1}
    Lives = 3
    NoAccount = NoAccount
    EnvCreds = FALSE
    Faults = {"disk", "db", "slow", "rpc", "revoke", "crash", "qr"}
INVARIANTS
    TypeOK
    OneRunnerPerAccount
PROPERTIES
    IsAccountService
    RunnerSettles
    StartedIsServed
    RestartServes
