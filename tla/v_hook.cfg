\* A run and its hooks.
CONSTANTS
    Checks = {c1}
    Lags = {1, 2}
    MaxLags = {0, 1}
SYMMETRY MCSymmetry
SPECIFICATION Spec
INVARIANT OnlyPreBackupAborts
