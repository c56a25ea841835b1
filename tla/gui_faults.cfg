SPECIFICATION Spec
CONSTANTS
    w1 = w1
    w2 = w2
    Workers = {w1, w2}
    None = None
    RetryLimit = 5
    MaxPending = 1
    Faults = {"prepare", "regQuery", "regAdd", "regRestore", "spawn", "tryWait", "closeTimeout", "crash"}
SYMMETRY WorkerSymmetry
INVARIANTS
    IInv
    ProxyOffWhileTunnelled
    SupervisorStoppable
    ActiveStateHasDriver
    IdleStateHasNoSupervisor
