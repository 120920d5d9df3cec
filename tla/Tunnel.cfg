\* TCP connections one after the other, one UDP or DNS flow, against Stop.
SPECIFICATION FairSpec
CONSTANTS
    Conns = {c1}
    Flows = {f1}
    Hosts = {strict, hidden, walled}
    NoSni = {}
    Rejects = {strict, walled}
    Blocked = {hidden, walled}
    Whitelists = {{}, {hidden}}
    MaxData = 2
CHECK_DEADLOCK FALSE
INVARIANT TunnelInv
INVARIANT WholeOnlyAfterCut
PROPERTY StopDrains
PROPERTY UdpTornDown
