\* One ssh destination, two ids, with failed and lost commands and late ones.
CONSTANTS
    Ids = {x1, x2}
    Retries = 1
SPECIFICATION FairSpec
INVARIANTS
    SuccessMeansWhole
    NoHalfCommit
PROPERTIES
    PriorSafe
    StoreReturns
