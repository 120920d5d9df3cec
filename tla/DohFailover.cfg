\* Three endpoints and three concurrent callers, reachability changing freely.
SPECIFICATION Spec
CONSTANTS
    Callers = {c1, c2, c3}
    NumEndpoints = 3
INVARIANT FailoverInv
INVARIANT ErrorMeansAllRefused
PROPERTY FailuresCease
