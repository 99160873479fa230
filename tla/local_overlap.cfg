\* Two overlapping invocations over one local destination that keeps one
\* generation, and a clock with room for three.
CONSTANTS
    Prefixes = {0}
    MaxClock = 2
    N = 1
    Kind <- MCKind
    Procs = {p1, p2}
    NoProc = NoProc
    Keep <- MCKeep
    Grace = 1
    Policies = {"continue"}
    ClockSteps = FALSE
    MaxFaults = 1
SPECIFICATION Spec
PROPERTIES
    PartialProtected
    RefinesStore
