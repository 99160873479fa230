\* One invocation after the other over one local destination that keeps two
\* generations: four instants and two faults, of which setting the clock back is one.
CONSTANTS
    Prefixes = {0}
    MaxClock = 3
    N = 1
    Kind <- MCKind
    Procs = {p1}
    NoProc = NoProc
    Keep <- MCKeepTwo
    Grace = 1
    Policies = {"continue"}
    ClockSteps = TRUE
    MaxFaults = 2
SPECIFICATION Spec
INVARIANTS
    NewestIntact
    PurgeConverges
