---------------------------- MODULE RateLimiterMC ----------------------------
(* The limiter with a few addresses over a short stretch of time. *)
EXTENDS RateLimiter
===============================================================================
