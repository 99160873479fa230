\* A good file, changed in up to two places.
CONSTANT MaxEdits = 2
SPECIFICATION Spec
INVARIANTS
    StartedFits
    NoneDropped
CHECK_DEADLOCK FALSE
