----------------------------- MODULE WebClientMC -----------------------------
(* A user with a few messages, clicks and connections. *)
EXTENDS WebClient
===============================================================================
