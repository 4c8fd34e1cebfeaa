SPECIFICATION FairSpec
CONSTANTS
  MaxRaw = 2  MaxRecent = 1
  MaxPairs = 1  MaxSize = 3
  NoTrunk = NoTrunk  NoCursor = NoCursor  NoLease = NoLease  NoReply = NoReply
  Reviews = {1, 2}  Keys = {"main", "other"}
  Replies <- AllReplies
  Sizes = {1, 4}
  Histories <- ThreeHistories
INVARIANTS
  NothingSkipped
  TrunkHeldByOne
  VerdictsAreEarned
PROPERTIES
  ReviewsStopAndEnd
CHECK_DEADLOCK FALSE
