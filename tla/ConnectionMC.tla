----------------------------- MODULE ConnectionMC -----------------------------
(* One connection with a few responses. *)
EXTENDS Connection
===============================================================================
