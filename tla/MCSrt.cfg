SPECIFICATION FairSpec
CONSTANTS
  e1 = e1  e2 = e2  a1 = a1  r1 = r1  w1 = w1  p1 = p1  p2 = p2
  Client <- Clients
  Kind <- Kinds
  PolicyOf <- PolicyOfEach
  Policies = {p1, p2}
  Busy <- Stages
  NoOwner = NoOwner
  NoPolicy = NoPolicy
INVARIANTS
  PoliciesNeverLeak
PROPERTIES
  FaultsPersist
  QueueMovesOn
