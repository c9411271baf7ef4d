SPECIFICATION ConsoleSpec
CONSTANTS
  Lines <- UserLines
  MaxLines = 3
  MaxStops = 2
INVARIANTS OneLineAtATime 
PROPERTY StopEnds
CHECK_DEADLOCK FALSE
