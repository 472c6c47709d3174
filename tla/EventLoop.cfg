CONSTANTS
    Calls = {c1, c2, c3}
    Timeouts = {1, 2}
    Durations = {0, 1, 2}
    HandlerLimit = 1
    MaxTime = 4
SPECIFICATION Spec
SYMMETRY Symmetry
INVARIANTS TypeOK LostOnlyToHandlers LatenessIsBounded
