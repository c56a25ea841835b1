SPECIFICATION RouteSpec
CONSTANTS
    InitialDns = {"dhcp"}
    RouteFaults = {}
INVARIANT DnsRestored
