----------------------------- MODULE AgentLoopMC -----------------------------
(* The response session on small limits, its properties and its contract.   *)
EXTENDS AgentLoop

Stream == INSTANCE ResponseStream WITH wire <- events

(* The events of a session follow the stream contract: agent_loop.py sends  *)
(* them in the order of README.md's event table on every path.              *)
StreamContract == Stream!Spec
=============================================================================
