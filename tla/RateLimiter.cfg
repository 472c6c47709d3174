CONSTANTS
    Keys = {a, b}
    Limit = 2
    Window = 2
    MaxTime = 5
    NoKey = none
    MaxGranted = 4
SPECIFICATION Spec
INVARIANTS TypeOK AtMostLimit RefusedIsFull
