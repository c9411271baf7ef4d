SPECIFICATION Spec
CONSTANTS
  Period <- SmallPeriod
  Limit = 3
  MaxStall = 5
INVARIANTS NeverEarly KeepsPace
PROPERTIES NothingAfterExit AppExits
