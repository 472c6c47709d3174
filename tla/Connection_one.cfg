CONSTANT MaxSessions = 3
SPECIFICATION Spec
INVARIANT OneResponseInProgress
