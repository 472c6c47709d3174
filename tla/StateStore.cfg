CONSTANTS
    NumResponses = 2
    MaxMessages = 3
    ToolUsers = {1}
    MaxFailures = 1
    MaxCrashes = 2
SPECIFICATION Spec
INVARIANTS TypeOK ToldIsDurable MemoryIsDatabase PositionsInOrder InsertsFindTheirReferences ChildExtendsParent
PROPERTY KeepsHistory
