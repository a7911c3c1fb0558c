---------------------------- MODULE MCRateLimiter ----------------------------
(* RateLimiter for TLC: three goroutines making two calls each against an  *)
(* interval of two ticks, the clock free to run for a few ticks, so calls  *)
(* arrive both together and after the interval has passed.                 *)
EXTENDS RateLimiter

CONSTANTS c1, c2, c3
MCCallers == {c1, c2, c3}
=============================================================================
