SPECIFICATION FairSpec
CONSTANTS
  boxed = boxed  bare = bare  r1 = r1  r2 = r2
  MaxNestedTurnDepth = 2
  Roots = {r1, r2}
  NoBase = NoBase  NoSnapshot = NoSnapshot  NoEnvelope = NoEnvelope
  Procs = {0, 1, 2}  NoProc = NoProc
  Configs = {boxed, bare}  NoConfig = NoConfig
  BaseOf <- BasesOfEach
  Unmediated = {boxed}
  NoRecord = NoRecord  NoMode = NoMode
  Delegated = {r1}
  Scenarios <- DeepOrFailing
INVARIANTS
  LevelsInStep
  PublishedIsTrue
PROPERTIES
  ClosedScopeStaysClosed
  SupersededNeverPublishes
  HandlersEnd
CHECK_DEADLOCK FALSE
