SPECIFICATION Spec
CONSTANTS
  r1 = r1  r2 = r2  b1 = b1
  Tools <- ThreeTools
  Name <- NameOf
  GroupTools = {r1, r2, b1}
  Foreign = {"bash"}
  Sessions <- ThreeSessions
INVARIANTS
  RowsAreFresh
  NothingVanishes
  GroupsFollowTheHost
CHECK_DEADLOCK FALSE
