SPECIFICATION Spec
CONSTANTS
  h3 = h3
  h2 = h2
  h1 = h1
  Handles = {h1, h2, h3}
  INVALID_SOCKET = INVALID_SOCKET
  MainOps = {"StartServer", "Recv"}
  ClientOps = {"send", "close", "reset"}
  Ports = {7777}
  MaxConns = 2
  MaxItems = 2
  MaxInFlight = 2
  QueueCap = 2
  PingInit = 0
  PongReset = 0
  PingEvery = 1
SYMMETRY HandleSymmetry
INVARIANTS TypeOK SocketsOwned CommandsInOrder
PROPERTY IsCommandChannel
CHECK_DEADLOCK FALSE
