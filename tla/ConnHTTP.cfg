SPECIFICATION Spec
CONSTANTS
  Conns = {c1, c2}
  Network = "HTTP"
  ServerChain <- MetricsChain
  RouteChain <- ValidationChain
  ErrorHandlers = {"default", "none"}
  MayHijack = TRUE
  MaxOps = 2
SYMMETRY Symmetry
INVARIANTS ErrorReachesPeer GaugeExact CountedOnce
