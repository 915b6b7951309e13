CONSTANTS
    Resolvable <- MCResolvable
    Hosts <- MCHosts
    Seps <- MCSeps
    Ports <- MCPorts
SPECIFICATION MCSpec
INVARIANTS
    AddrAsSpecified
\* Both addresses are parsed once, at start-up.
CHECK_DEADLOCK FALSE
