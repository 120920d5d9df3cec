\* One connection of every kind beside one whose server cannot be reached.
SPECIFICATION FairSpec
CONSTANTS
    name = name
    listed = listed
    number = number
    Conns = {c1, c2}
    Refused = {c2}
    Hosts = {name, listed, number}
    Literal = {number}
    Excluded = {listed}
    Requests <- MCRequests
    UseDoh = TRUE
    Endpoints = 1
    SoftErrors = TRUE
    MaxUp = 3
    MaxDown = 2
CHECK_DEADLOCK FALSE
INVARIANT ProxyInv
INVARIANT HelloCut
INVARIANT Faithful
PROPERTY HandlersEnd
