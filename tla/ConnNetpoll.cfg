SPECIFICATION Spec
CONSTANTS
  Conns = {c1, c2}
  Network = "NETPOLL"
  ServerChain <- GateChain
  RouteChain <- NoChain
  ErrorHandlers = {"default", "none"}
  MayHijack = TRUE
  MaxOps = 2
SYMMETRY Symmetry
INVARIANTS TypeOK WellFormed BodyIntact FirstStatusWins ErrorReachesPeer ErrorHandledOnce HijackedNoBody
