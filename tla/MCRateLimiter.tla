---------------------------- MODULE MCRateLimiter ----------------------------
(* Instances of RateLimiter for TLC. *)
EXTENDS RateLimiter

\* Limits that refill without overflow, that overflow, and the degenerate 0.
SmallLimits == {0, 1, MaxInt}
=============================================================================
