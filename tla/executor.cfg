SPECIFICATION FairSpec
CONSTANTS
    MaxRuns = 2
    Prepare = TRUE
    Timeout = TRUE
    Wrapped = TRUE
    Installed = TRUE
INVARIANTS TypeOK CompleteAndQuiet NoChildLeft
PROPERTY RunEnds
CHECK_DEADLOCK FALSE
