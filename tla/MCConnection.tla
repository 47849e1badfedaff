----------------------------- MODULE MCConnection -----------------------------
(* Instances of Connection for TLC: the chains a cfg chooses from. *)
EXTENDS Connection, TLC

NoChain == <<>>

\* example/http/simple.go: Use(Logger), and ValidationMiddleware on a route.
LoggerChain     == <<"logger">>
ValidationChain == <<"validation">>

\* example/metrics/cmd/main.go: Use(Logger), Use(metrics.Middleware).
MetricsChain == <<"logger", "metrics">>

\* example/middleware/cors.go with a rate limiter.
GateChain == <<"cors", "ratelimit">>

\* example/cache/map/main.go: CacheMiddleware around a route.
CacheChain == <<"cache">>

\* One connection is like another: no definition singles one out.
Symmetry == Permutations(Conns)
=============================================================================
