\* A few presses on either app; without a profile nothing is left to happen
\* after the last of them.
SPECIFICATION Spec
CONSTANTS
    MaxSessions = 2
    MaxPresses = 3
    MaxTaps = 2
    MaxJobs = 1
    MaxProfiles = 3
CHECK_DEADLOCK FALSE
INVARIANT MobileInv
INVARIANT LastPressWins
PROPERTY StopReleases
