\* Up to four directories of four ids over three hours, keep 2, a grace period of two hours.
CONSTANTS
    PurgeIds = {0, 1, 2, 3}
    MaxNow = 3
    MaxListed = 4
    PurgeKeep = 2
    PurgeGrace = 2
SPECIFICATION Spec
INVARIANTS
    PlanMatchesCode
    PurgeSettles
