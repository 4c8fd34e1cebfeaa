SPECIFICATION FairSpec
CONSTANTS
  Labels <- MCLabels
  Addresses <- MCAddresses
  Ports = {80, 443}
  NoPort = NoPort
  Names <- MCNames
  Paths <- MCPaths
  Targets <- MCTargets
  OuterPolicies <- MCOuterPolicies
  Delegations <- MCAllDelegations
  NoCeiling = NoCeiling
  NoPolicy = NoPolicy
  MaxLevels = 4
  Budget <- MCBudget
  AskIds = {a1}
  Conns = {c1}
  Public <- MCPublic
  Loopback <- MCLoopback
  Answers <- MCAnswers
  Grants <- MCGrants
  MaxTickets = 2
INVARIANTS
  TicketCountExact
  DialledIsAllowed
  EnvelopesHold
PROPERTIES
  GrantsBelongToTheRunning
  RequestsEnd
