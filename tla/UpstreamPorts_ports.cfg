\* Ports 10..12 reserved, their neighbours used by others, three handlers.
SPECIFICATION PortsSpec
CONSTANTS
    Threads = {t1, t2, t3}
    Base = 10
    Count = 3
    RelayPort = 20
    OtherPorts = {9, 13}
    Intercepted = {443}
    DohIps = {resolver}
    Addresses = {resolver, site}
SYMMETRY ThreadSymmetry
INVARIANT PortInv
INVARIANT OwnTrafficPasses
INVARIANT PortsRest
