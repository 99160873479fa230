\* A local and an ssh destination, with a clock that may be set back and remote
\* commands that outlive their ssh.
CONSTANTS
    Prefixes = {0}
    MaxClock = 1
    N = 2
    Kind <- MCKind
    Procs = {p1}
    NoProc = NoProc
    Keep <- MCKeep
    Grace = 1
    Policies = {"continue", "abort"}
    ClockSteps = TRUE
    MaxFaults = 3
SPECIFICATION DistinctSpec
INVARIANTS
    IntactIfDistinct
    ReportIfDistinct
PROPERTIES
    DegradedUntouched
    StoreIfDistinct
