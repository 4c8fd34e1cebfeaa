SPECIFICATION Spec
CONSTANTS
  MaxConsecutive = 3
  WindowSize = 5
  MaxWindow = 4
  MaxResults = 9
INVARIANTS
  CircuitTellsHistory
CHECK_DEADLOCK TRUE
