CONSTANT MaxSessions = 3
SPECIFICATION FairSpec
INVARIANTS TypeOK RunningIsActive NothingRunsAfterClose
PROPERTY CloseReturns
