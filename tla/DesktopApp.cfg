\* Presses of START on every platform, each as soon as it is possible; commands may
\* time out, the process may be killed, the user may quit in the middle.
SPECIFICATION FairSpec
CONSTANTS
    MaxStarts = 3
    Platforms = {"darwin", "linux", "win32", "other"}
    Faults = {"timeout", "crash", "haste"}
CHECK_DEADLOCK FALSE
INVARIANT AppInv
INVARIANT NoDeadPort
INVARIANT PriorKept
PROPERTY Settles
