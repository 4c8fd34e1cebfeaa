SPECIFICATION Spec
CONSTANTS
  boxed = boxed  bare = bare  r1 = r1  r2 = r2
  MaxNestedTurnDepth = 2
  Roots = {r1, r2}
  NoBase = NoBase  NoSnapshot = NoSnapshot  NoEnvelope = NoEnvelope
  Procs = {0, 1, 2}  NoProc = NoProc
  Configs = {boxed, bare}  NoConfig = NoConfig
  BaseOf <- BasesOfEach
  Unmediated = {boxed}
  NoRecord = NoRecord  NoMode = NoMode
  Delegated = {r1}
  Scenarios <- ColdShutdown
INVARIANTS
  ShutdownTearsDown
CHECK_DEADLOCK FALSE
