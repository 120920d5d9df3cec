\* Connections one after the other to servers of every kind, three pieces of
\* reply; what is learned about a host stays.
SPECIFICATION FairSpec
CONSTANTS
    Conns = {c1}
    Hosts = {plain, strict, hidden, walled, nameless, listed, shaky}
    Excluded = {listed}
    NoSni = {nameless}
    Rejects = {strict, walled, nameless}
    Blocked = {hidden, walled, listed}
    Flaky = {shaky}
    MaxData = 3
CHECK_DEADLOCK FALSE
INVARIANT TypeOK
INVARIANT Faithful
INVARIANT WholeOnlyAfterCut
INVARIANT CutIsRetried
PROPERTY EndsClean
PROPERTY HandlerEnds
