----------------------------- MODULE EventLoopMC -----------------------------
(* A few calls; a unit of time is some ten seconds. *)
EXTENDS EventLoop, TLC

Symmetry == Permutations(Calls)
===============================================================================
