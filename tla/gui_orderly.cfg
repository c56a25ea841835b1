SPECIFICATION FairSpec
CONSTANTS
    w1 = w1
    w2 = w2
    Workers = {w1, w2}
    None = None
    RetryLimit = 5
    MaxPending = 1
    Faults = {"prepare", "regAdd", "spawn"}
INVARIANTS
    TypeOK
    ProxyRecoverable
PROPERTIES
    CoreKeepsSupervisor
    DisconnectCompletes
    CloseCompletes
    DeadCoreNoticed
