\* One check.
CONSTANTS
    Checks = {c1}
    Lags = {1, 2}
    MaxLags = {0, 1}
SYMMETRY MCSymmetry
SPECIFICATION Spec
INVARIANT CheckFindsBroken
