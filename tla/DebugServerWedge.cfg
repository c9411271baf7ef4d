SPECIFICATION Spec
CONSTANTS
  h3 = h3
  h2 = h2
  h1 = h1
  Handles = {h1, h2, h3}
  INVALID_SOCKET = INVALID_SOCKET
  MainOps = {"StartServer"}
  ClientOps = {"close"}
  Ports = {7777}
  MaxConns = 2
  MaxItems = 0
  MaxInFlight = 0
  QueueCap = 1
  PingInit = 0
  PongReset = 0
  PingEvery = 1
INVARIANT FreeOrServing
CHECK_DEADLOCK FALSE
