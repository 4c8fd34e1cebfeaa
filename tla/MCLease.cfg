SPECIFICATION FairSpec
CONSTANTS
  Readers = {r1, r2, r3}
  Writers = {m1, m2}
INVARIANTS
  WritersAlone
  HeadsWaitForConflicts
PROPERTIES
  NobodyOvertakes
  WaitersServed
