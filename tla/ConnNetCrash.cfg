SPECIFICATION Spec
CONSTANTS
  Conns = {c1, c2}
  Network = "NET"
  ServerChain <- LoggerChain
  RouteChain <- NoChain
  ErrorHandlers = {"default"}
  MayHijack = FALSE
  MaxOps = 1
INVARIANTS ServerStaysUp
