CONSTANTS
    MaxSteps = 4
    MaxToolCalls = 3
SPECIFICATION FairSpec
INVARIANTS TypeOK ToldIsStored RowsClosed RolesAlternate ResultsAreSubmitted GivesUp
PROPERTIES NoStepAfterCancel StreamContract Terminates ClientIsAnswered
