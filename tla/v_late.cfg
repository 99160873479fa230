SPECIFICATION Spec
CONSTANTS
    Ids = {x1}
    Retries = 1
INVARIANT RetrySafe
