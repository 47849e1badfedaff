-------------------------------- MODULE MCCache --------------------------------
(* An instance of Cache for TLC. *)
EXTENDS Cache

\* 0 is "never" to MapCache and refused by RedisCache; the other one comes while
\* the clock runs, so that it is ahead, now, and over.
NeverAndSoon == {0, 1}
===============================================================================
