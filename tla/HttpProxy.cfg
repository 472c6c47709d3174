CONSTANTS
    Kinds = {"content", "thinking", "both", "text", "multi", "separated", "garbage", "scalar", "comment", "done"}
    MaxEvents = 2
SPECIFICATION FairProxySpec
INVARIANTS ProxyTypeOK YieldsTheAnswer NothingHeldBack OutcomeIsTrue
PROPERTIES StopsAtCancel RequestEnds
