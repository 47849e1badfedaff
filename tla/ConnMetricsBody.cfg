SPECIFICATION Spec
CONSTANTS
  Conns = {c1}
  Network = "NETPOLL"
  ServerChain <- MetricsChain
  RouteChain <- NoChain
  ErrorHandlers = {"default"}
  MayHijack = FALSE
  MaxOps = 1
INVARIANTS BodyIntact
