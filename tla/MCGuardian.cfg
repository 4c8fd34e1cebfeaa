SPECIFICATION FairSpec
CONSTANTS
  Ids = {g1, g2}
  Boot = Boot
  NoId = NoId
PROPERTIES
  CleanCloseIsEarned
  CallsEnd
CHECK_DEADLOCK FALSE
