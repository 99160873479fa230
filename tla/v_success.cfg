\* A local destination, and a name_prefix that is changed between runs.
CONSTANTS
    Prefixes = {0, 1}
    MaxClock = 0
    N = 1
    Kind <- MCKind
    Procs = {p1}
    NoProc = NoProc
    Keep <- MCKeep
    Grace = 1
    Policies = {"continue"}
    ClockSteps = FALSE
    MaxFaults = 0
SPECIFICATION Spec
INVARIANTS
    SuccessMeansStored
