\* More queries than workers, a live connection, and stop at any time.
SPECIFICATION FairSpec
CONSTANTS
    Flows = {f1}
    Servers = {s1}
    Queries = {q1, q2}
    DnsWorkers = 1
    BlockQuic = TRUE
    QueueMax = 1
    NoServer = NoServer
CHECK_DEADLOCK FALSE
INVARIANT NoPlaintextDns
PROPERTY DnsSettles
PROPERTY StopCompletes
