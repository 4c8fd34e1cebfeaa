SPECIFICATION Spec
CONSTANTS
  MaxSegmentWords = 12
  MaxSubstitutionBodies = 2
  MaxSubstitutionNesting = 1
  MaxWrapperDepth = 2
  InsideCwd = {"x", "ctl", "secret"}
  ControlWords = {"ctl"}
  DeniedWords = {"secret"}
  MemoCapacity = 1
  MaxGeneration = 3
  Requests <- AllCalls
  OtherLine <- AnotherLine
INVARIANTS
  NoVisibleRemovalAllowed
  CompositionNeverLightens
  AllowOverridesNothing
  ReadingIsCurrent
