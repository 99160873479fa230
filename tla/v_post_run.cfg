\* A local destination.
CONSTANTS
    Prefixes = {0}
    MaxClock = 0
    N = 1
    Kind <- MCKind
    Procs = {p1}
    NoProc = NoProc
    Keep <- MCKeep
    Grace = 1
    Policies = {"continue"}
    ClockSteps = FALSE
    MaxFaults = 1
SPECIFICATION Spec
INVARIANTS
    PostRunAlways
