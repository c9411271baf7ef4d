SPECIFICATION Spec
CONSTANTS
  Targets = {f, g, m}
  NoTarget = none
  Addrs = {1, 2, 3, 4}
  MaxLen = 4
  MaxDepth = 2
  Values = {1, 2, 3}
  MaxSize = 5
  MaxCount = 5
INVARIANTS
  StructuresTypeOK OwnedOnce SortedAtEnd ListKept
PROPERTIES
  IteratorsKept IsMulticast EndsOrSticks
CHECK_DEADLOCK FALSE
