\* An ssh destination.
CONSTANTS
    Prefixes = {0}
    MaxClock = 2
    N = 1
    Kind <- MCKind
    Procs = {p1}
    NoProc = NoProc
    Keep <- MCKeep
    Grace = 1
    Policies = {"continue"}
    ClockSteps = FALSE
    MaxFaults = 1
SPECIFICATION DistinctSpec
INVARIANTS
    DamagedPurged
