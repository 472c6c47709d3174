CONSTANTS
    MaxMessages = 3
    MaxSockets = 2
    MaxCancels = 1
SPECIFICATION FairSpec
INVARIANTS TypeOK ShownWhereAsked ContinuesTheLast
PROPERTIES BusyOnlyAtTheEnd CancelHitsItsAnswer StreamingEnds
