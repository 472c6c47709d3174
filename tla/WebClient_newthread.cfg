CONSTANTS
    MaxMessages = 2
    MaxSockets = 1
    MaxCancels = 0
SPECIFICATION Spec
INVARIANT FreshThread
