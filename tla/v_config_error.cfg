\* A good file, changed in up to two places.
CONSTANT MaxEdits = 2
SPECIFICATION Spec
INVARIANT ConfigErrorCode
CHECK_DEADLOCK FALSE
