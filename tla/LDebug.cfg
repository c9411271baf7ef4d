SPECIFICATION LuaSpec
CONSTANTS
  Positions <- SmallPositions
  Functions <- SmallFunctions
  API <- Api
  MaxBreaks = 3
  MaxCount = 4
  MaxDepth = 3
INVARIANTS TablesConsistent HookedIffEnabled
