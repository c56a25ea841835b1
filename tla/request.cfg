SPECIFICATION Spec
CONSTANTS
    LenModulus = 8
    Hosts <- MCHosts
    Ports <- MCPorts
    FirstData <- MCFirstData
INVARIANTS
    TargetAsNamed
    FirstDataKept
    GoodRequestDialled
CHECK_DEADLOCK FALSE
