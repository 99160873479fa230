\* `list` beside one run or purge at a time, over a local and an ssh destination.
CONSTANTS
    Prefixes = {0}
    MaxClock = 1
    N = 2
    Kind <- MCKind
    Procs = {p1}
    NoProc = NoProc
    Keep <- MCKeep
    Grace = 1
    Policies = {"continue"}
    ClockSteps = FALSE
    MaxFaults = 1
SPECIFICATION ListSpec
INVARIANTS
    ScanIsListing
    NothingOmitted
    ListErrorExplained
