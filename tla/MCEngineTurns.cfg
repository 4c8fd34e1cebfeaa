SPECIFICATION Spec
CONSTANTS
  c1 = c1  c2 = c2  a1 = a1  w1 = w1  w2 = w2  h1 = h1  x1 = x1
  CallId <- TwoCalls
  Action = {a1}
  Write = {w1}
  Host = {h1}
  NetAll = NetAll
  ExtTool = {x1}
  Policies <- Narrow
  Requests <- PlainAndAmend
  Snapshots <- Steady
  NoRoot = NoRoot
  NoEntry = NoEntry
  MaxGeneration = 2
  MaxConsecutive = 1
  WindowSize = 1
  MaxWindow = 1
SYMMETRY Symm
INVARIANTS
  DeadAttemptsStopped
  AuthorityReviewed
  RunsReviewed
  DenialsBounded
PROPERTIES
  ToldAttemptsEnd
  ImplementsContract
CHECK_DEADLOCK FALSE
