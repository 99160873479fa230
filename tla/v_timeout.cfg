SPECIFICATION FairSpec
CONSTANTS
    MaxRuns = 1
    Prepare = TRUE
    Timeout = TRUE
    Wrapped = TRUE
    Installed = TRUE
PROPERTY TimeoutEndsRun
CHECK_DEADLOCK FALSE
