\* Two overlapping checks and a run, over every configuration of [replication].
CONSTANTS
    Checks = {c1, c2}
    Lags = {1, 2}
    MaxLags = {0, 1}
SYMMETRY MCSymmetry
SPECIFICATION Spec
INVARIANTS
    HooksHarmless
    FalseAlarm
PROPERTIES
    GateExact
    CheckPredictsRun
