----------------------------- MODULE HttpProxyMC -----------------------------
(* Requests, streamed or not, against short answers of the backend. *)
EXTENDS HttpProxy
===============================================================================
