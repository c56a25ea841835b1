SPECIFICATION SystemFairSpec
CONSTANTS
    c1 = c1
    c2 = c2
    Conns = {c1, c2}
    None = None
    Broken = Broken
    Here = c1
    ClientSent <- FromClient
    ServerSent <- FromServer
    Capacity = 1
    Faults = {"device", "io", "vanish", "exit"}
    InitialDns = {"static", "unset"}
    RouteFaults = {"query", "command", "cleanup", "kill", "power"}
INVARIANTS
    SystemTypeOK
    OneClient
    NetworkRestored
    NoRoutingLoop
    RoutesRemoved
    FullTunnel
CHECK_DEADLOCK FALSE
PROPERTIES
    ServerReleases
    TrafficEndsNoSession
    NotStranded
