SPECIFICATION FairSpec
CONSTANTS
  c1 = c1  c2 = c2  a1 = a1  w1 = w1  w2 = w2  h1 = h1  x1 = x1
  CallId <- TwoCalls
  Action = {a1}
  Write = {w1, w2}
  Host = {}
  NetAll = NetAll
  ExtTool = {x1}
  Policies <- NarrowAndShut
  Requests <- Edits
  Snapshots <- Shifting
  NoRoot = NoRoot
  NoEntry = NoEntry
  MaxGeneration = 1
  MaxConsecutive = 1
  WindowSize = 1
  MaxWindow = 1
INVARIANTS
  RememberedIsLive
PROPERTIES
  ReplaysOnceReviewed
  EndedCallsReturn
CHECK_DEADLOCK FALSE
