------------------------------- MODULE Delegation -------------------------------
(***************************************************************************)
(* The envelope of a delegated subagent (delegation.ts,                    *)
(* delegation-policy.ts) and the chain of turns it governs: the stack of   *)
(* levels that agent_start opens and agent_end closes in a sandboxed mode  *)
(* (register.ts:546-680). The call of a subagent passes its gate first     *)
(* (1458-1470); its agent starts later, and the gate is not asked again. A *)
(* path is the sequence of its components; a level is the sandbox policy   *)
(* of its turn with its ceiling.                                           *)
(***************************************************************************)
EXTENDS NetworkPatterns, FiniteSets

CONSTANTS
  Paths,
  Names,          \* the hosts told apart
  OuterPolicies,  \* what a config may give the outermost turn
  Delegations,    \* what config.delegation may say
  NoCeiling,      \* the outermost turn has none
  NoPolicy,       \* a sentinel: the scope could not be resolved
  MaxLevels,      \* bound: turns open at once
  Budget          \* bounds, by configuration: turns open at once, calls of
                  \* one turn whose agents have yet to start, executions

Settings == {"yes", "no", "unset"}

(* What a sandbox policy says of paths and of the network; `whole` and     *)
(* the two choices are allowAll, allowPrivate and allowLocalBinding.       *)
Policies ==
  [writes : SUBSET Seq(Labels), allowed : SUBSET Patterns, denied : SUBSET Patterns,
   whole : BOOLEAN, private : Settings, binding : Settings, fake : SUBSET Addresses]

Envelopes ==
  [roots : SUBSET Seq(Labels), hosts : SUBSET Patterns, redelegate : BOOLEAN, depth : Nat]

ASSUME DelegationAssumption ==
  /\ MaxLevels \in Nat
  /\ Budget \in [Delegations -> [levels : 1..MaxLevels, calls : Nat, executions : Nat]]
  /\ Paths \subseteq Seq(Labels) /\ Names \subseteq Hosts
  /\ OuterPolicies \subseteq Policies /\ NoPolicy \notin Policies /\ NoCeiling \notin Envelopes
  /\ Delegations \subseteq [enabled : BOOLEAN, roots : SUBSET Seq(Labels), hosts : SUBSET Patterns,
                             redelegate : BOOLEAN, maxDepth : Nat]

VARIABLES
  delegation,  \* config.delegation of the session
  levels,      \* the turns open, outermost first
  admitted     \* the calls of subagents let through, by the turn they were
               \* made in, whose agents have not started

levelVars == <<delegation, levels, admitted>>

IsPathWithin(path, root) == IsPrefix(root, path)
IsWriteCovered(path, roots) == \E root \in roots : IsPathWithin(path, root)

(* Of two roots the inner one is shared, if one is inside the other.       *)
IntersectWriteRoots(parentRoots, requested) ==
  {root \in parentRoots : IsWriteCovered(root, requested)}
    \cup {root \in requested : IsWriteCovered(root, parentRoots)}

(* intersectSandboxPolicy: allow lists shrink, deny lists are inherited;   *)
(* a finite destination list excludes whole-network and local authority.   *)
IntersectPolicy(base, roots, hosts) ==
  [base EXCEPT
     !.writes = IntersectWriteRoots(@, roots),
     !.allowed = IF base.whole THEN hosts ELSE IntersectPatterns(@, hosts),
     !.whole = FALSE,
     !.binding = "no"]

(* resolveChildEnvelope: an empty list inherits the parent's.              *)
RequestedRoots(base) ==
  IF delegation.roots = {} THEN base.writes ELSE delegation.roots
RequestedHosts(base) ==
  IF delegation.hosts = {} THEN base.allowed ELSE delegation.hosts

DepthLeft(ceiling) ==
  IF ceiling = NoCeiling THEN delegation.maxDepth ELSE ceiling.depth

(* The child's level under a parent's base policy and ceiling. With        *)
(* delegation disabled it still gets the parent's finite lists. History:   *)
(* `broad` is whether the parent had the whole network, `from` how many    *)
(* turns were open when the call was let through.                          *)
ChildLevel(base, ceiling, from) ==
  LET on == delegation.enabled
      once == IntersectPolicy(base, IF on THEN RequestedRoots(base) ELSE base.writes,
                                    IF on THEN RequestedHosts(base) ELSE base.allowed)
      envelope ==
        [roots |-> IF on THEN once.writes ELSE base.writes,
         hosts |-> IF on THEN once.allowed ELSE base.allowed,
         redelegate |-> delegation.redelegate,
         depth |-> IF on THEN Max({0, DepthLeft(ceiling) - 1}) ELSE delegation.maxDepth]
  IN [policy |-> IF on THEN IntersectPolicy(once, envelope.roots, envelope.hosts) ELSE once,
      ceiling |-> envelope, broad |-> base.whole, from |-> from]

Outermost(p) == [policy |-> p, ceiling |-> NoCeiling, broad |-> FALSE, from |-> 0]
Sentinel(from) == [policy |-> NoPolicy, ceiling |-> NoCeiling, broad |-> FALSE, from |-> from]
-------------------------------------------------------------------------------
Top == levels[Len(levels)]

AllowsReDelegate ==
  \A i \in DOMAIN levels : levels[i].ceiling # NoCeiling => levels[i].ceiling.redelegate

RemainingDepth ==
  IF Top.ceiling # NoCeiling THEN Top.ceiling.depth
  ELSE delegation.maxDepth - (Len(levels) - 1)

SpawnAtZero == ~delegation.enabled \/ (AllowsReDelegate /\ RemainingDepth >= 0)  \* mutant

(* checkDelegateSpawn, when delegation is enabled.                         *)
MaySpawn == ~delegation.enabled \/ (AllowsReDelegate /\ RemainingDepth > 0)

LevelsInit ==
  /\ delegation \in Delegations
  /\ levels \in {<<Outermost(p)>> : p \in OuterPolicies}
  /\ admitted = [depth \in 1..MaxLevels |-> 0]

(* A call of a subagent passes the gate: no tool is prepared under a       *)
(* sentinel.                                                               *)
Admit ==
  /\ Top.policy # NoPolicy /\ MaySpawn /\ admitted[Len(levels)] < Budget[delegation].calls
  /\ admitted' = [admitted EXCEPT ![Len(levels)] = @ + 1]
  /\ UNCHANGED <<delegation, levels>>

(* The agent of a call let through among `from` turns starts, under        *)
(* whatever turn is on top now. networkAll: the Engine's turn was granted  *)
(* the whole network; resolved: the configured roots could be              *)
(* materialized.                                                           *)
Spawn(from, networkAll, resolved) ==
  /\ from <= Len(levels) /\ admitted[from] > 0
  /\ Len(levels) < Budget[delegation].levels
  /\ admitted' = [admitted EXCEPT ![from] = @ - 1]
  /\ IF Top.policy = NoPolicy \/ (delegation.enabled /\ ~resolved)
     THEN levels' = Append(levels, Sentinel(from))
     ELSE LET base == [Top.policy EXCEPT !.whole = @ \/ networkAll]
          IN levels' = Append(levels, ChildLevel(base, Top.ceiling, from))
  /\ UNCHANGED delegation

(* The agent on top ends, and with it what it was still calling.           *)
Return ==
  /\ Len(levels) > 1
  /\ levels' = Front(levels)
  /\ admitted' = [admitted EXCEPT ![Len(levels)] = 0]
  /\ UNCHANGED delegation
-------------------------------------------------------------------------------
Nested(i) == i > 1 /\ levels[i].policy # NoPolicy

(* A child may write and reach exactly what its parent may and its config  *)
(* asks for: nothing wider, and nothing lost between overlapping roots,    *)
(* wildcards and ports; a parent granted the whole network bounds only     *)
(* what it may write (delegation.ts:134-160, network-domain-pattern.ts:    *)
(* 136-166).                                                               *)
LevelsNarrowExactly ==
  \A i \in DOMAIN levels : Nested(i) =>
    LET parent == levels[i - 1].policy
        child == levels[i].policy
        asks == delegation.enabled
    IN /\ \A path \in Paths :
            IsWriteCovered(path, child.writes) <=>
              /\ IsWriteCovered(path, parent.writes)
              /\ asks /\ delegation.roots # {} => IsWriteCovered(path, delegation.roots)
       /\ \A host \in Names, port \in Ports :
            SomeMatches(child.allowed, host, port) <=>
              /\ SomeMatches(parent.allowed, host, port)
                   \/ (levels[i].broad /\ asks /\ delegation.hosts # {})
              /\ asks /\ delegation.hosts # {} => SomeMatches(delegation.hosts, host, port)

(* However late an agent starts after its call, under whatever turn and    *)
(* scope, every call let through is one of a turn with depth left, and     *)
(* where envelopes forbid to delegate again of the outermost turn; so a    *)
(* chain outgrows the depth configured only by agents that started under a *)
(* turn opened since their call (delegation-policy.ts:48-85,               *)
(* register.ts:1458-1470, 2213-2231).                                      *)
Late == {i \in DOMAIN levels : i > 1 /\ levels[i].from # i - 1}

DepthHonoured ==
  delegation.enabled =>
    /\ \A i \in DOMAIN levels : i > 1 =>
         /\ levels[i].from <= delegation.maxDepth
         /\ delegation.redelegate \/ levels[i].from = 1
    /\ \A depth \in DOMAIN admitted : admitted[depth] > 0 =>
         /\ depth <= delegation.maxDepth
         /\ delegation.redelegate \/ depth = 1
    /\ Len(levels) - 1 <= delegation.maxDepth + Cardinality(Late)

(* A chain of delegations is as wide as its envelopes say, and as long but *)
(* for agents that start late.  "Max nested subagent levels below the      *)
(* outer turn" (config.ts:79) is less than that: of two calls of one turn  *)
(* let through before either agent starts, the second may start under the  *)
(* first.                                                                  *)
EnvelopesHold == LevelsNarrowExactly /\ DepthHonoured
===============================================================================
