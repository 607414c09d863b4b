SPECIFICATION Spec
CONSTANTS
    BadPort = BadPort
    Hosts <- MCHosts
    Ports <- MCPorts
    Lengths <- MCLengths
    SizeModulus <- MCSizeModulus
    MaxData = 2
    CharIsSigned = TRUE
\* The connection was freed, or left to the client.
CHECK_DEADLOCK FALSE
INVARIANTS
    SocksDataRemoved
