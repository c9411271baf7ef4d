SPECIFICATION Spec
CONSTANT MaxContexts = 4
INVARIANTS OnlyDeleteLoses OnlyUninitCrashes
PROPERTY ConnectReturns
CHECK_DEADLOCK FALSE
