\* Source ports used by connection after connection to two servers, with
\* everything that can wait in the driver at once.
SPECIFICATION Spec
CONSTANTS
    Flows = {f1, f2}
    Servers = {s1, s2}
    Queries = {}
    DnsWorkers = 1
    BlockQuic = FALSE
    QueueMax = 2
    NoServer = NoServer
SYMMETRY FlowSymmetry
CHECK_DEADLOCK FALSE
INVARIANT TypeInv
INVARIANT RelayServesItsClient
INVARIANT ReplyFromRightServer
INVARIANT AbortedFlowForgotten
