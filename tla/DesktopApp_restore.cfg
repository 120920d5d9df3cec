\* A user of GNOME with a proxy of their own.
SPECIFICATION Spec
CONSTANTS
    MaxStarts = 1
    Platforms = {"linux"}
    Faults = {}
CHECK_DEADLOCK FALSE
INVARIANT PriorRestored
