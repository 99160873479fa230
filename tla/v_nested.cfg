SPECIFICATION Spec
CONSTANTS
    Ids = {x1}
    Retries = 2
PROPERTY PriorUntouched
