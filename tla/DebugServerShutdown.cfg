SPECIFICATION Spec
CONSTANTS
  h2 = h2
  h1 = h1
  Handles = {h1, h2}
  INVALID_SOCKET = INVALID_SOCKET
  MainOps = {"StartServer", "Dettach", "StoprServer", "Delete"}
  ClientOps = {"send", "pong", "close", "reset"}
  Ports = {7777}
  MaxConns = 1
  MaxItems = 1
  MaxInFlight = 1
  QueueCap = 1
  PingInit = 1
  PongReset = 0
  PingEvery = 2
INVARIANT ShutdownAlone
PROPERTY EndedClientReleased
CHECK_DEADLOCK FALSE
