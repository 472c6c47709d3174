CONSTANTS
    MaxSteps = 2
    MaxToolCalls = 1
SPECIFICATION Spec
PROPERTY FinishedStaysFinished
