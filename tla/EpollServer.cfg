SPECIFICATION Spec
CONSTANTS
  f1 = f1
  f2 = f2
  c1 = c1
  c2 = c2
  Fds = {f1, f2}
  Clients = {c1, c2}
  listenfd = listenfd
  NONE = NONE
  NUL = NUL
  JUNK = JUNK
  Zeros <- MCZeros
  MAX_BUFFER_SIZE = 2
  EPOLLEVENTS = 3
  MaxBytes = 3
  MaxInFlight = 2
INVARIANTS NoStaleEvent NoLeftovers EchoedInOrder
PROPERTY InputConsumed
CHECK_DEADLOCK FALSE
