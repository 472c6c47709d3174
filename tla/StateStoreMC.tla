----------------------------- MODULE StateStoreMC -----------------------------
(* The store with a few responses, one crash and one write that raises. *)
EXTENDS StateStore
===============================================================================
