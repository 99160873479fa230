\* Two overlapping invocations over two local destinations.
CONSTANTS
    Prefixes = {0}
    MaxClock = 1
    N = 2
    Kind <- MCKind
    Procs = {p1, p2}
    NoProc = NoProc
    Keep <- MCKeep
    Grace = 1
    Policies = {"continue", "abort"}
    ClockSteps = FALSE
    MaxFaults = 1
SPECIFICATION Spec
SYMMETRY MCSymmetry
INVARIANTS
    TypeOK
    StoreInProgress
    ReportTruthful
    SuccessMeansPurged
