SPECIFICATION Spec
CONSTANTS
    MaxRuns = 1
    Prepare = TRUE
    Timeout = TRUE
    Wrapped = TRUE
    Installed = FALSE
INVARIANT MissingIsPrecondition
CHECK_DEADLOCK FALSE
