SPECIFICATION Spec
CONSTANTS
  Conns = {c1, c2}
  Network = "NET"
  ServerChain <- NoChain
  RouteChain <- CacheChain
  ErrorHandlers = {"custom"}
  MayHijack = FALSE
  MaxOps = 2
INVARIANTS CachedWhole ErrorUnmixed BodyIntact
PROPERTY EveryConnectionEnds
