------------------------- MODULE MediatedNetworkProofs -------------------------
(***************************************************************************)
(* For every policy, delegation and host, and any number of turns, asks    *)
(* and connections: a chain of delegations is as wide as its envelopes     *)
(* say and outgrows them only by late starters, what the guard dials       *)
(* belongs to the execution that runs and is allowed to it, and the        *)
(* guard's count is that of its tickets.                                   *)
(***************************************************************************)
EXTENDS MediatedNetwork, FiniteSetTheorems, SequenceTheorems, TLAPS

-------------------------------------------------------------------------------
(* Prefixes order the sequences they share.                                *)
LEMMA PrefixMeans ==
  ASSUME NEW S, NEW s \in Seq(S), NEW t \in Seq(S)
  PROVE  IsPrefix(s, t) <=> Len(s) <= Len(t) /\ \A i \in 1..Len(s) : s[i] = t[i]
  <1>1. CASE Len(s) <= Len(t)
    <2>1. /\ SubSeq(s, 1, Len(s)) = [i \in 1..Len(s) |-> s[i]]
          /\ SubSeq(t, 1, Len(s)) = [i \in 1..Len(s) |-> t[i]]
      BY <1>1
    <2> QED BY <1>1, <2>1 DEF IsPrefix
  <1> QED BY <1>1 DEF IsPrefix

LEMMA PrefixReflexive ==
  ASSUME NEW S, NEW s \in Seq(S)
  PROVE  IsPrefix(s, s)
  BY DEF IsPrefix

LEMMA PrefixTransitive ==
  ASSUME NEW S, NEW r \in Seq(S), NEW s \in Seq(S), NEW t \in Seq(S),
         IsPrefix(r, s), IsPrefix(s, t)
  PROVE  IsPrefix(r, t)
  <1>1. Len(r) <= Len(s) /\ Len(s) <= Len(t)
    BY DEF IsPrefix
  <1>2. \A i \in 1..Len(r) : r[i] = s[i] /\ s[i] = t[i]
    <2>1. /\ \A i \in 1..Len(r) : r[i] = s[i]
          /\ \A i \in 1..Len(s) : s[i] = t[i]
      BY PrefixMeans
    <2> QED BY <1>1, <2>1
  <1> QED BY <1>1, <1>2, PrefixMeans

LEMMA PrefixesCompare ==
  ASSUME NEW S, NEW r \in Seq(S), NEW s \in Seq(S), NEW t \in Seq(S),
         IsPrefix(r, t), IsPrefix(s, t)
  PROVE  IsPrefix(r, s) \/ IsPrefix(s, r)
  <1>1. /\ Len(r) \in Nat /\ Len(s) \in Nat
        /\ \A i \in 1..Len(r) : r[i] = t[i]
        /\ \A i \in 1..Len(s) : s[i] = t[i]
    BY PrefixMeans
  <1>2. CASE Len(r) <= Len(s)
    BY <1>1, <1>2, PrefixMeans
  <1>3. CASE Len(s) <= Len(r)
    BY <1>1, <1>3, PrefixMeans
  <1> QED BY <1>1, <1>2, <1>3

LEMMA PrefixesShrink ==
  ASSUME NEW S, NEW s \in Seq(S), NEW t \in Seq(S), IsPrefix(s, t), IsPrefix(t, s)
  PROVE  s = t
  <1>1. Len(s) = Len(t) /\ \A i \in 1..Len(s) : s[i] = t[i]
    BY PrefixMeans
  <1> QED BY <1>1

-------------------------------------------------------------------------------
(* The roots two envelopes share cover what both cover.                    *)
LEMMA SharedRootsExact ==
  ASSUME NEW parentRoots \in SUBSET Seq(Labels), NEW requested \in SUBSET Seq(Labels),
         NEW path \in Seq(Labels)
  PROVE  IsWriteCovered(path, IntersectWriteRoots(parentRoots, requested))
           <=> IsWriteCovered(path, parentRoots) /\ IsWriteCovered(path, requested)
  <1>1. ASSUME NEW p \in parentRoots, NEW r \in requested, IsPrefix(p, path), IsPrefix(r, path)
        PROVE  IsWriteCovered(path, IntersectWriteRoots(parentRoots, requested))
    <2>1. IsPrefix(p, r) \/ IsPrefix(r, p)
      BY <1>1, PrefixesCompare
    <2> QED BY <1>1, <2>1 DEF IsWriteCovered, IsPathWithin, IntersectWriteRoots
  <1>2. ASSUME NEW root \in IntersectWriteRoots(parentRoots, requested), IsPrefix(root, path)
        PROVE  IsWriteCovered(path, parentRoots) /\ IsWriteCovered(path, requested)
    <2>1. CASE root \in parentRoots /\ IsWriteCovered(root, requested)
      <3>1. PICK r \in requested : IsPrefix(r, root)
        BY <2>1 DEF IsWriteCovered, IsPathWithin
      <3>2. IsPrefix(r, path)
        BY <1>2, <2>1, <3>1, PrefixTransitive
      <3> QED BY <1>2, <2>1, <3>2 DEF IsWriteCovered, IsPathWithin
    <2>2. CASE root \in requested /\ IsWriteCovered(root, parentRoots)
      <3>1. PICK p \in parentRoots : IsPrefix(p, root)
        BY <2>2 DEF IsWriteCovered, IsPathWithin
      <3>2. IsPrefix(p, path)
        BY <1>2, <2>2, <3>1, PrefixTransitive
      <3> QED BY <1>2, <2>2, <3>2 DEF IsWriteCovered, IsPathWithin
    <2> QED BY <1>2, <2>1, <2>2 DEF IntersectWriteRoots
  <1> QED BY <1>1, <1>2 DEF IsWriteCovered, IsPathWithin

LEMMA SharedRootsType ==
  ASSUME NEW parentRoots \in SUBSET Seq(Labels), NEW requested \in SUBSET Seq(Labels)
  PROVE  IntersectWriteRoots(parentRoots, requested) \in SUBSET Seq(Labels)
  BY DEF IntersectWriteRoots

-------------------------------------------------------------------------------
(* A pattern that another one covers matches less.                         *)
LEMMA CoveredMatchesLess ==
  ASSUME NEW p \in Patterns, NEW r \in Patterns, NEW host \in Hosts, NEW port \in Ports,
         HostCovers(p, r), Matches(r, host, port), p.port \in {NoPort, port}
  PROVE  Matches(p, host, port)
  <1>1. /\ p.kind \in Kinds /\ r.kind \in Kinds /\ p.host \in Hosts /\ r.host \in Hosts
    BY DEF Patterns
  <1>2. CASE p.kind = "any"
    BY <1>2 DEF Matches
  <1>3. CASE p.kind = "exact"
    <2>1. r.kind = "exact" /\ r.host = p.host
      BY <1>3 DEF HostCovers
    <2> QED BY <1>3, <2>1 DEF Matches
  <1>4. CASE p.kind = "wildcard"
    <2>1. CASE r.kind = "exact"
      <3>1. Below(p.host, r.host)
        BY <1>4, <2>1 DEF HostCovers
      <3>2. host = r.host
        BY <2>1 DEF Matches
      <3> QED BY <1>4, <3>1, <3>2 DEF Matches
    <2>2. CASE r.kind = "wildcard"
      <3>1. IsPrefix(p.host, r.host)
        BY <1>4, <2>2 DEF HostCovers
      <3>2. ~IsIP(host) /\ IsPrefix(r.host, host) /\ r.host # host
        BY <2>2 DEF Matches, Below, IsStrictPrefix
      <3>3. IsPrefix(p.host, host)
        BY <1>1, <3>1, <3>2, PrefixTransitive DEF Hosts
      <3>4. p.host # host
        BY <1>1, <3>1, <3>2, PrefixesShrink DEF Hosts
      <3> QED BY <1>4, <3>2, <3>3, <3>4 DEF Matches, Below, IsStrictPrefix
    <2>3. r.kind # "any"
      BY <1>4 DEF HostCovers
    <2> QED BY <1>1, <2>1, <2>2, <2>3 DEF Kinds
  <1> QED BY <1>1, <1>2, <1>3, <1>4 DEF Kinds

(* Of two patterns that match one host, one covers the other.              *)
LEMMA CoversItself ==
  ASSUME NEW p \in Patterns
  PROVE  HostCovers(p, p)
  <1>1. p.kind \in Kinds /\ p.host \in Seq(Labels)
    BY DEF Patterns, Hosts
  <1>2. IsPrefix(p.host, p.host)
    BY <1>1, PrefixReflexive
  <1> QED BY <1>1, <1>2 DEF HostCovers, Kinds

LEMMA OneCovers ==
  ASSUME NEW p \in Patterns, NEW q \in Patterns, NEW host \in Hosts, NEW port \in Ports,
         Matches(p, host, port), Matches(q, host, port)
  PROVE  HostCovers(p, q) \/ HostCovers(q, p)
  <1>1. /\ p.kind \in Kinds /\ q.kind \in Kinds
        /\ p.host \in Seq(Labels) /\ q.host \in Seq(Labels) /\ host \in Seq(Labels)
    BY DEF Patterns, Hosts
  <1>2. CASE "any" \in {p.kind, q.kind}
    BY <1>2 DEF HostCovers
  <1>3. CASE p.kind = "exact" /\ q.kind = "exact"
    BY <1>3 DEF HostCovers, Matches
  <1>4. CASE p.kind = "exact" /\ q.kind = "wildcard"
    BY <1>4 DEF HostCovers, Matches
  <1>5. CASE p.kind = "wildcard" /\ q.kind = "exact"
    BY <1>5 DEF HostCovers, Matches
  <1>6. CASE p.kind = "wildcard" /\ q.kind = "wildcard"
    <2>1. IsPrefix(p.host, host) /\ IsPrefix(q.host, host)
      BY <1>6 DEF Matches, Below, IsStrictPrefix
    <2>2. IsPrefix(p.host, q.host) \/ IsPrefix(q.host, p.host)
      BY <1>1, <2>1, PrefixesCompare
    <2> QED BY <1>6, <2>2 DEF HostCovers
  <1> QED BY <1>1, <1>2, <1>3, <1>4, <1>5, <1>6 DEF Kinds

LEMMA MetType ==
  ASSUME NEW p \in Patterns, NEW q \in Patterns
  PROVE  Met(p, q) \in SUBSET Patterns
  BY DEF Met, Patterns, NarrowerPort

(* Where two patterns meet, both match, and only there.                    *)
LEMMA MetExact ==
  ASSUME NEW p \in Patterns, NEW q \in Patterns, NEW host \in Hosts, NEW port \in Ports
  PROVE  SomeMatches(Met(p, q), host, port) <=> Matches(p, host, port) /\ Matches(q, host, port)
  <1> DEFINE at == NarrowerPort(p, q)
             narrower == {r \in {p, q} : HostCovers(p, r) /\ HostCovers(q, r)}
             met == {[r EXCEPT !.port = NarrowerPort(p, q)] : r \in narrower}
  <1>1. /\ NoPort \notin Ports
        /\ p.port \in Ports \cup {NoPort} /\ q.port \in Ports \cup {NoPort}
    BY HostAssumption DEF Patterns
  <1>2. ASSUME NEW r \in Patterns
        PROVE  /\ [r EXCEPT !.port = at] \in Patterns
               /\ [r EXCEPT !.port = at].port = at
               /\ [r EXCEPT !.port = at].kind = r.kind
               /\ [r EXCEPT !.port = at].host = r.host
    BY <1>1 DEF Patterns, NarrowerPort
  <1>3. ASSUME NEW r \in narrower, PortsAgree(p, q), Matches([r EXCEPT !.port = at], host, port)
        PROVE  Matches(p, host, port) /\ Matches(q, host, port)
    <2>1. at \in {NoPort, port}
      BY <1>2, <1>3 DEF Matches
    <2>2. p.port \in {NoPort, port} /\ q.port \in {NoPort, port}
      BY <1>1, <1>3, <2>1 DEF NarrowerPort, PortsAgree
    <2>3. Matches(r, host, port)
      BY <1>2, <1>3, <2>2 DEF Matches
    <2> QED BY <1>3, <2>2, <2>3, CoveredMatchesLess
  <1>4. ASSUME Matches(p, host, port), Matches(q, host, port)
        PROVE  PortsAgree(p, q) /\ \E r \in narrower : Matches([r EXCEPT !.port = at], host, port)
    <2>1. p.port \in {NoPort, port} /\ q.port \in {NoPort, port}
      BY <1>4 DEF Matches
    <2>2. PortsAgree(p, q) /\ at \in {NoPort, port}
      BY <2>1 DEF PortsAgree, NarrowerPort
    <2>3. PICK r \in narrower : Matches(r, host, port)
      BY <1>4, OneCovers, CoversItself
    <2>4. Matches([r EXCEPT !.port = at], host, port)
      BY <1>2, <2>2, <2>3 DEF Matches
    <2> QED BY <2>2, <2>4
  <1>5. Met(p, q) = IF PortsAgree(p, q) THEN met ELSE {}
    BY DEF Met
  <1>6. Met(p, q) = IF PortsAgree(p, q) THEN {[r EXCEPT !.port = at] : r \in narrower} ELSE {}
    BY <1>5
  <1> HIDE DEF at, narrower, met
  <1>7. SomeMatches(Met(p, q), host, port)
        <=> PortsAgree(p, q) /\ \E r \in narrower : Matches([r EXCEPT !.port = at], host, port)
    <2>1. CASE PortsAgree(p, q)
      <3>1. Met(p, q) = {[r EXCEPT !.port = at] : r \in narrower}
        BY <1>6, <2>1
      <3> QED BY <2>1, <3>1 DEF SomeMatches
    <2>2. CASE ~PortsAgree(p, q)
      BY <1>6, <2>2 DEF SomeMatches
    <2> QED BY <2>1, <2>2
  <1> QED BY <1>3, <1>4, <1>7

LEMMA IntersectPatternsType ==
  ASSUME NEW P \in SUBSET Patterns, NEW Q \in SUBSET Patterns
  PROVE  IntersectPatterns(P, Q) \in SUBSET Patterns
  BY MetType DEF IntersectPatterns

(* The intersection of two allow lists matches what both match.            *)
LEMMA IntersectPatternsExact ==
  ASSUME NEW P \in SUBSET Patterns, NEW Q \in SUBSET Patterns,
         NEW host \in Hosts, NEW port \in Ports
  PROVE  SomeMatches(IntersectPatterns(P, Q), host, port)
           <=> SomeMatches(P, host, port) /\ SomeMatches(Q, host, port)
  <1>1. \A r : r \in IntersectPatterns(P, Q) <=> \E p \in P, q \in Q : r \in Met(p, q)
    BY DEF IntersectPatterns
  <1>2. \A p \in P, q \in Q :
          (\E r \in Met(p, q) : Matches(r, host, port))
            <=> Matches(p, host, port) /\ Matches(q, host, port)
    BY MetExact DEF SomeMatches
  <1> QED BY <1>1, <1>2 DEF SomeMatches

-------------------------------------------------------------------------------
Narrowed(policy, base, roots, hosts) ==
  /\ policy \in Policies
  /\ policy.writes = IntersectWriteRoots(base.writes, roots)
  /\ policy.allowed = IF base.whole THEN hosts ELSE IntersectPatterns(base.allowed, hosts)
  /\ ~policy.whole /\ policy.denied = base.denied

LEMMA IntersectPolicyMeans ==
  ASSUME NEW base \in Policies, NEW roots \in SUBSET Seq(Labels), NEW hosts \in SUBSET Patterns
  PROVE  Narrowed(IntersectPolicy(base, roots, hosts), base, roots, hosts)
  <1>1. /\ base.writes \in SUBSET Seq(Labels) /\ base.allowed \in SUBSET Patterns
        /\ base.whole \in BOOLEAN
    BY DEF Policies
  <1>2. IntersectWriteRoots(base.writes, roots) \in SUBSET Seq(Labels)
    BY <1>1, SharedRootsType
  <1>3. IntersectPatterns(base.allowed, hosts) \in SUBSET Patterns
    BY <1>1, IntersectPatternsType
  <1>4. (IF base.whole THEN hosts ELSE IntersectPatterns(base.allowed, hosts)) \in SUBSET Patterns
    BY <1>1, <1>3
  <1> QED BY <1>1, <1>2, <1>4 DEF IntersectPolicy, Narrowed, Policies, Settings

Level ==
  [policy : Policies \cup {NoPolicy}, ceiling : Envelopes \cup {NoCeiling}, broad : BOOLEAN,
   from : Nat]

(* What a child may write and reach, of what its parent may and its config *)
(* asks for.                                                               *)
WritesExactly(config, child, parent) ==
  \A path \in Paths :
    IsWriteCovered(path, child.writes) <=>
      /\ IsWriteCovered(path, parent.writes)
      /\ config.enabled /\ config.roots # {} => IsWriteCovered(path, config.roots)

ReachesExactly(config, child, parent, broad) ==
  \A host \in Names, port \in Ports :
    SomeMatches(child.allowed, host, port) <=>
      /\ \/ SomeMatches(parent.allowed, host, port)
         \/ broad /\ config.enabled /\ config.hosts # {}
      /\ config.enabled /\ config.hosts # {} => SomeMatches(config.hosts, host, port)

LEMMA MaxWithZero ==
  ASSUME NEW n \in Int
  PROVE  /\ Max({0, n}) \in Nat
         /\ Max({0, n}) = IF n >= 0 THEN n ELSE 0
  <1>1. \E x \in {0, n} : \A y \in {0, n} : x >= y
    BY SMT
  <1>2. /\ Max({0, n}) \in {0, n} /\ \A y \in {0, n} : Max({0, n}) >= y
    BY <1>1 DEF Max
  <1> QED BY <1>2

Facts(level, base, ceiling) ==
  /\ level \in Level /\ level.policy \in Policies /\ level.ceiling \in Envelopes
  /\ level.broad = base.whole /\ level.policy.denied = base.denied
  /\ WritesExactly(delegation, level.policy, base) /\ ReachesExactly(delegation, level.policy, base, base.whole)
  /\ level.ceiling.redelegate = delegation.redelegate
  /\ delegation.enabled => level.ceiling.depth = Max({0, DepthLeft(ceiling) - 1})

LEMMA ChildNarrows ==
  ASSUME NEW base \in Policies, NEW ceiling \in Envelopes \cup {NoCeiling},
         NEW from \in Nat, delegation \in Delegations
  PROVE  Facts(ChildLevel(base, ceiling, from), base, ceiling) /\ ChildLevel(base, ceiling, from).from = from
  <1> DEFINE roots == IF delegation.enabled THEN RequestedRoots(base) ELSE base.writes
             hosts == IF delegation.enabled THEN RequestedHosts(base) ELSE base.allowed
             once == IntersectPolicy(base, roots, hosts)
             envelope ==
               [roots |-> IF delegation.enabled THEN once.writes ELSE base.writes,
                hosts |-> IF delegation.enabled THEN once.allowed ELSE base.allowed,
                redelegate |-> delegation.redelegate,
                depth |-> IF delegation.enabled THEN Max({0, DepthLeft(ceiling) - 1})
                          ELSE delegation.maxDepth]
             twice == IntersectPolicy(once, envelope.roots, envelope.hosts)
             policy == IF delegation.enabled THEN twice ELSE once
             child == [policy |-> policy, ceiling |-> envelope, broad |-> base.whole,
                       from |-> from]
  <1>1. ChildLevel(base, ceiling, from) = child
    BY DEF ChildLevel
  <1>2. /\ delegation.enabled \in BOOLEAN /\ delegation.redelegate \in BOOLEAN
        /\ delegation.roots \in SUBSET Seq(Labels) /\ delegation.hosts \in SUBSET Patterns
        /\ delegation.maxDepth \in Nat
        /\ base.writes \in SUBSET Seq(Labels) /\ base.allowed \in SUBSET Patterns
        /\ base.whole \in BOOLEAN
    BY DelegationAssumption DEF Policies
  <1>3. roots \in SUBSET Seq(Labels) /\ hosts \in SUBSET Patterns
    BY <1>2 DEF RequestedRoots, RequestedHosts
  <1>4. DepthLeft(ceiling) \in Nat
    BY <1>2 DEF DepthLeft, Envelopes
  <1>5. Max({0, DepthLeft(ceiling) - 1}) \in Nat
    BY <1>4, MaxWithZero
  <1>6. Narrowed(once, base, roots, hosts)
    <2> HIDE DEF roots, hosts
    <2> QED BY <1>3, IntersectPolicyMeans
  <1>7. once.writes \in SUBSET Seq(Labels) /\ once.allowed \in SUBSET Patterns
    BY <1>6 DEF Narrowed, Policies
  <1>8. /\ envelope \in Envelopes
        /\ delegation.enabled => envelope.roots = once.writes /\ envelope.hosts = once.allowed
    <2> HIDE DEF once
    <2> QED BY <1>2, <1>5, <1>7 DEF Envelopes
  <1>9. delegation.enabled => Narrowed(twice, once, once.writes, once.allowed)
    <2>1. once \in Policies
      BY <1>6 DEF Narrowed
    <2> HIDE DEF once, envelope
    <2> QED BY <1>7, <1>8, <2>1, IntersectPolicyMeans
  <1> HIDE DEF once, envelope, twice, roots, hosts
  <1>10. policy \in Policies /\ policy.denied = base.denied
    BY <1>2, <1>6, <1>9 DEF Narrowed
  <1>11. WritesExactly(delegation, policy, base)
    <2> SUFFICES ASSUME NEW path \in Paths
                 PROVE  IsWriteCovered(path, policy.writes) <=>
                          /\ IsWriteCovered(path, base.writes)
                          /\ delegation.enabled /\ delegation.roots # {}
                               => IsWriteCovered(path, delegation.roots)
      BY DEF WritesExactly
    <2>1. path \in Seq(Labels)
      BY DelegationAssumption
    <2>2. IsWriteCovered(path, once.writes) <=>
            IsWriteCovered(path, base.writes) /\ IsWriteCovered(path, roots)
      BY <1>2, <1>3, <1>6, <2>1, SharedRootsExact DEF Narrowed
    <2>3. delegation.enabled =>
            (IsWriteCovered(path, twice.writes) <=> IsWriteCovered(path, once.writes))
      BY <1>7, <1>9, <2>1, SharedRootsExact DEF Narrowed
    <2>4. roots = IF delegation.enabled /\ delegation.roots # {} THEN delegation.roots
                  ELSE base.writes
      BY <1>2 DEF roots, RequestedRoots
    <2> QED BY <1>2, <2>2, <2>3, <2>4
  <1>12. ReachesExactly(delegation, policy, base, base.whole)
    <2> SUFFICES ASSUME NEW host \in Names, NEW port \in Ports
                 PROVE  SomeMatches(policy.allowed, host, port) <=>
                          /\ \/ SomeMatches(base.allowed, host, port)
                             \/ base.whole /\ delegation.enabled /\ delegation.hosts # {}
                          /\ delegation.enabled /\ delegation.hosts # {}
                               => SomeMatches(delegation.hosts, host, port)
      BY DEF ReachesExactly
    <2>1. host \in Hosts
      BY DelegationAssumption
    <2>2. SomeMatches(once.allowed, host, port) <=>
            /\ base.whole \/ SomeMatches(base.allowed, host, port)
            /\ SomeMatches(hosts, host, port)
      BY <1>2, <1>3, <1>6, <2>1, IntersectPatternsExact DEF Narrowed
    <2>3. delegation.enabled =>
            (SomeMatches(twice.allowed, host, port) <=> SomeMatches(once.allowed, host, port))
      <3>1. ~once.whole
        BY <1>6 DEF Narrowed
      <3> QED BY <1>7, <1>9, <2>1, <3>1, IntersectPatternsExact DEF Narrowed
    <2>4. hosts = IF delegation.enabled /\ delegation.hosts # {} THEN delegation.hosts
                  ELSE base.allowed
      BY <1>2 DEF hosts, RequestedHosts
    <2> QED BY <1>2, <2>2, <2>3, <2>4
  <1>13. /\ envelope.redelegate = delegation.redelegate
         /\ delegation.enabled => envelope.depth = Max({0, DepthLeft(ceiling) - 1})
    BY <1>2 DEF envelope
  <1> HIDE DEF policy
  <1>14. child \in Level
    BY <1>2, <1>8, <1>10 DEF Level
  <1> QED BY <1>1, <1>8, <1>10, <1>11, <1>12, <1>13, <1>14 DEF Facts

-------------------------------------------------------------------------------
(* A sentinel is followed by sentinels only, every level with a policy     *)
(* denies what the outermost denies, an envelope counts the depth that is  *)
(* left of what is configured, and every call was let through where depth  *)
(* was left.                                                               *)
MayCall(config, depth) == depth <= config.maxDepth /\ (config.redelegate \/ depth = 1)

LevelFits(config, chain, i) ==
  LET level == chain[i]
  IN /\ i = 1 => level.policy # NoPolicy /\ level.ceiling = NoCeiling
     /\ level.policy = NoPolicy =>
          /\ level.ceiling = NoCeiling
          /\ \A j \in i..Len(chain) : chain[j].policy = NoPolicy
     /\ level.policy # NoPolicy => level.policy.denied = chain[1].policy.denied
     /\ i > 1 /\ level.policy # NoPolicy =>
          /\ level.ceiling # NoCeiling /\ level.ceiling.redelegate = config.redelegate
          /\ config.enabled => level.ceiling.depth = Max({0, config.maxDepth - (i - 1)})
          /\ WritesExactly(config, level.policy, chain[i - 1].policy)
          /\ ReachesExactly(config, level.policy, chain[i - 1].policy, level.broad)
     /\ i > 1 /\ config.enabled => MayCall(config, level.from)

Fits(config, chain) ==
  /\ config \in Delegations /\ chain \in Seq(Level) /\ chain # <<>>
  /\ \A i \in 1..Len(chain) : LevelFits(config, chain, i)

CallsFit(config, calls) ==
  /\ calls \in [1..MaxLevels -> Nat]
  /\ \A depth \in 1..MaxLevels : config.enabled /\ calls[depth] > 0 => MayCall(config, depth)

(* The chain of turns fits the session's configuration, and so do the      *)
(* calls whose agents are to start.                                        *)
ChainFits == Fits(delegation, levels) /\ CallsFit(delegation, admitted)

LEMMA FitsElsewhere ==
  ASSUME NEW config, NEW s, NEW t, NEW i \in Nat \ {0}, LevelFits(config, s, i),
         t[1] = s[1], t[i] = s[i], i > 1 => t[i - 1] = s[i - 1],
         s[i].policy = NoPolicy => \A j \in i..Len(t) : t[j].policy = NoPolicy
  PROVE  LevelFits(config, t, i)
  BY DEF LevelFits

LEMMA TopFits ==
  ASSUME ChainFits
  PROVE  /\ Len(levels) \in Nat \ {0} /\ Top = levels[Len(levels)] /\ Top \in Level
         /\ levels \in Seq(Level) /\ delegation \in Delegations
         /\ \A i \in 1..Len(levels) : levels[i] \in Level /\ LevelFits(delegation, levels, i)
         /\ LevelFits(delegation, levels, Len(levels))
         /\ admitted \in [1..MaxLevels -> Nat]
  <1>1. /\ levels \in Seq(Level) /\ levels # <<>> /\ delegation \in Delegations
        /\ \A i \in 1..Len(levels) : LevelFits(delegation, levels, i)
        /\ admitted \in [1..MaxLevels -> Nat]
    BY DEF ChainFits, Fits, CallsFit
  <1>2. /\ Len(levels) \in Nat \ {0} /\ Len(levels) \in 1..Len(levels)
        /\ \A i \in 1..Len(levels) : levels[i] \in Level
    BY <1>1
  <1> QED BY <1>1, <1>2 DEF Top

LEMMA InitFits ==
  ASSUME LevelsInit
  PROVE  ChainFits
  <1>1. PICK p \in OuterPolicies : levels = <<Outermost(p)>>
    BY DEF LevelsInit
  <1>2. /\ delegation \in Delegations /\ p \in Policies /\ p # NoPolicy
        /\ delegation.maxDepth \in Nat
    BY DelegationAssumption DEF LevelsInit
  <1>3. /\ Outermost(p) \in Level
        /\ Outermost(p).policy = p /\ Outermost(p).ceiling = NoCeiling
    BY <1>2 DEF Level, Outermost
  <1>4. /\ levels \in Seq(Level) /\ levels # <<>> /\ Len(levels) = 1
        /\ levels[1].policy = p /\ levels[1].ceiling = NoCeiling
    BY <1>1, <1>3
  <1>5. LevelFits(delegation, levels, 1)
    BY <1>2, <1>4 DEF LevelFits
  <1>6. \A i \in 1..Len(levels) : i = 1
    BY <1>4
  <1>7. CallsFit(delegation, admitted)
    BY DEF LevelsInit, CallsFit
  <1> QED BY <1>2, <1>4, <1>5, <1>6, <1>7 DEF ChainFits, Fits

LEMMA CallsChange ==
  ASSUME NEW calls \in [1..MaxLevels -> Nat], NEW k, NEW v,
         k \in 1..MaxLevels => v \in Nat
  PROVE  LET changed == [calls EXCEPT ![k] = v]
         IN /\ changed \in [1..MaxLevels -> Nat]
            /\ \A depth \in 1..MaxLevels : changed[depth] = IF depth = k THEN v ELSE calls[depth]
  OBVIOUS

LEMMA ReturnFits ==
  ASSUME ChainFits, Return
  PROVE  ChainFits'
  <1> DEFINE n == Len(levels) - 1
             front == SubSeq(levels, 1, n)
  <1>1. /\ levels \in Seq(Level) /\ Len(levels) \in Nat \ {0} /\ Len(levels) > 1
        /\ delegation \in Delegations
        /\ \A i \in 1..Len(levels) : levels[i] \in Level /\ LevelFits(delegation, levels, i)
    BY TopFits DEF Return
  <1>2. delegation' = delegation /\ levels' = front
    BY DEF Return, Front
  <1>3. /\ n \in Nat \ {0} /\ n < Len(levels) /\ front \in Seq(Level)
        /\ Len(front) = n /\ \A i \in 1..n : front[i] = levels[i]
    BY <1>1
  <1> HIDE DEF front
  <1>4. ASSUME NEW i \in 1..n
        PROVE  LevelFits(delegation, front, i)
    <2>1. LevelFits(delegation, levels, i) /\ i \in Nat \ {0} /\ i \in 1..Len(levels)
      BY <1>1, <1>3
    <2>2. levels[i].policy = NoPolicy => \A j \in i..Len(levels) : levels[j].policy = NoPolicy
      BY <2>1 DEF LevelFits
    <2>3. /\ front[1] = levels[1] /\ front[i] = levels[i]
          /\ i > 1 => front[i - 1] = levels[i - 1]
          /\ \A j \in i..Len(front) : j \in i..Len(levels) /\ front[j] = levels[j]
      BY <1>1, <1>3
    <2> QED BY <2>1, <2>2, <2>3, FitsElsewhere
  <1>5. Fits(delegation, front)
    BY <1>1, <1>3, <1>4 DEF Fits
  <1>6. CallsFit(delegation, [admitted EXCEPT ![Len(levels)] = 0])
    BY CallsChange DEF ChainFits, CallsFit
  <1> QED BY <1>2, <1>5, <1>6 DEF ChainFits, Return

(* The gate lets a call through where depth is left.                       *)
LEMMA RoomBelow ==
  ASSUME ChainFits, MaySpawn, delegation.enabled, Top.policy # NoPolicy
  PROVE  MayCall(delegation, Len(levels))
  <1> DEFINE n == Len(levels)
  <1>1. /\ n \in Nat \ {0} /\ Top \in Level /\ Top = levels[n]
        /\ LevelFits(delegation, levels, n) /\ delegation \in Delegations
    BY TopFits
  <1>2. delegation.redelegate \in BOOLEAN /\ delegation.maxDepth \in Nat
    BY <1>1, DelegationAssumption
  <1>3. AllowsReDelegate /\ RemainingDepth > 0
    BY DEF MaySpawn
  <1>4. CASE n = 1
    <2>1. Top.ceiling = NoCeiling
      BY <1>1, <1>4 DEF LevelFits
    <2>2. delegation.maxDepth - (n - 1) > 0
      BY <1>3, <2>1 DEF RemainingDepth
    <2> QED BY <1>2, <1>4, <2>2 DEF MayCall
  <1>5. CASE n > 1
    <2>1. /\ Top.ceiling # NoCeiling /\ Top.ceiling.redelegate = delegation.redelegate
          /\ Top.ceiling.depth = Max({0, delegation.maxDepth - (n - 1)})
      BY <1>1, <1>5 DEF LevelFits
    <2>2. Max({0, delegation.maxDepth - (n - 1)}) > 0
      BY <1>3, <2>1 DEF RemainingDepth
    <2>3. delegation.maxDepth - (n - 1) > 0
      BY <1>1, <1>2, <2>2, MaxWithZero
    <2>4. n \in DOMAIN levels
      BY TopFits
    <2>5. levels[n].ceiling # NoCeiling => levels[n].ceiling.redelegate
      BY <1>3, <2>4 DEF AllowsReDelegate
    <2>6. delegation.redelegate
      BY <1>1, <2>1, <2>5
    <2>7. n <= delegation.maxDepth
      <3>1. n \in Int /\ delegation.maxDepth - (n - 1) > 0
        BY <1>1, <2>3
      <3> HIDE DEF n
      <3> QED BY <3>1, <1>2
    <2> QED BY <2>6, <2>7 DEF MayCall
  <1>6. n = 1 \/ n > 1
    <2>1. n \in Nat \ {0}
      BY <1>1
    <2> HIDE DEF n
    <2> QED BY <2>1
  <1> QED BY <1>4, <1>5, <1>6

LEMMA AdmitFits ==
  ASSUME ChainFits, Admit
  PROVE  ChainFits'
  <1> DEFINE n == Len(levels)
             calls == [admitted EXCEPT ![n] = @ + 1]
  <1>1. /\ admitted \in [1..MaxLevels -> Nat] /\ n \in Nat
        /\ Fits(delegation, levels) /\ CallsFit(delegation, admitted)
    BY TopFits DEF ChainFits
  <1>2. /\ MaySpawn /\ Top.policy # NoPolicy
        /\ admitted' = calls /\ delegation' = delegation /\ levels' = levels
    BY DEF Admit
  <1>3. /\ calls \in [1..MaxLevels -> Nat]
        /\ \A depth \in 1..MaxLevels : depth # n => calls[depth] = admitted[depth]
    <2> HIDE DEF n
    <2>1. n \in 1..MaxLevels => admitted[n] + 1 \in Nat
      BY <1>1
    <2> QED BY <1>1, <2>1, CallsChange
  <1>4. delegation.enabled => MayCall(delegation, n)
    BY <1>2, RoomBelow
  <1> HIDE DEF n, calls
  <1>5. CallsFit(delegation, calls)
    BY <1>1, <1>3, <1>4 DEF CallsFit
  <1> QED BY <1>1, <1>2, <1>5 DEF ChainFits

(* A child counts one level less than the turn it starts under.            *)
LEMMA DepthBelow ==
  ASSUME ChainFits, delegation.enabled, Top.policy # NoPolicy
  PROVE  Max({0, DepthLeft(Top.ceiling) - 1}) = Max({0, delegation.maxDepth - Len(levels)})
  <1> DEFINE n == Len(levels)
             m == delegation.maxDepth
  <1>1. /\ n \in Nat \ {0} /\ Top = levels[n] /\ LevelFits(delegation, levels, n)
        /\ m \in Nat
    BY TopFits, DelegationAssumption
  <1>2. CASE n = 1
    <2>1. DepthLeft(Top.ceiling) = m
      BY <1>1, <1>2 DEF LevelFits, DepthLeft
    <2> QED BY <1>2, <2>1
  <1>3. CASE n > 1
    <2>1. DepthLeft(Top.ceiling) = Max({0, m - (n - 1)})
      BY <1>1, <1>3 DEF LevelFits, DepthLeft
    <2>2. Max({0, m - (n - 1)}) = IF m - (n - 1) >= 0 THEN m - (n - 1) ELSE 0
      BY <1>1, MaxWithZero
    <2>3. Max({0, m - n}) = IF m - n >= 0 THEN m - n ELSE 0
      BY <1>1, MaxWithZero
    <2>4. DepthLeft(Top.ceiling) \in Nat
      BY <1>1, <2>1, <2>2
    <2>5. Max({0, DepthLeft(Top.ceiling) - 1})
            = IF DepthLeft(Top.ceiling) - 1 >= 0 THEN DepthLeft(Top.ceiling) - 1 ELSE 0
      BY <2>4, MaxWithZero
    <2>6. Max({0, DepthLeft(Top.ceiling) - 1}) = Max({0, m - n})
      <3>1. n \in Int /\ m \in Int
        BY <1>1
      <3> HIDE DEF n, m
      <3> QED BY <3>1, <2>1, <2>2, <2>3, <2>5
    <2> QED BY <2>6
  <1>4. n = 1 \/ n > 1
    <2>1. n \in Nat \ {0}
      BY <1>1
    <2> HIDE DEF n
    <2> QED BY <2>1
  <1> QED BY <1>2, <1>3, <1>4

(* The level a child gets: a sentinel below a sentinel or an envelope that *)
(* could not be resolved, and one step deeper otherwise.                   *)
LEMMA SpawnFits ==
  ASSUME ChainFits, NEW from \in 1..MaxLevels, NEW networkAll \in BOOLEAN,
         NEW resolved \in BOOLEAN, Spawn(from, networkAll, resolved)
  PROVE  ChainFits'
  <1> DEFINE n == Len(levels)
             base == [Top.policy EXCEPT !.whole = @ \/ networkAll]
             fails == Top.policy = NoPolicy \/ (delegation.enabled /\ ~resolved)
             new == IF fails THEN Sentinel(from) ELSE ChildLevel(base, Top.ceiling, from)
             longer == Append(levels, new)
  <1>1. /\ n \in Nat \ {0} /\ Top \in Level /\ Top = levels[n]
        /\ LevelFits(delegation, levels, n)
        /\ levels \in Seq(Level) /\ delegation \in Delegations
        /\ \A i \in 1..n : levels[i] \in Level /\ LevelFits(delegation, levels, i)
    BY TopFits
  <1>2. /\ admitted[from] > 0 /\ admitted' = [admitted EXCEPT ![from] = @ - 1]
        /\ delegation' = delegation /\ levels' = longer /\ from \in Nat
    BY DelegationAssumption DEF Spawn
  <1>3. /\ delegation.enabled \in BOOLEAN /\ delegation.redelegate \in BOOLEAN
        /\ delegation.maxDepth \in Nat
    BY <1>1, DelegationAssumption
  <1>4. ASSUME ~fails
        PROVE  /\ Facts(new, base, Top.ceiling) /\ new.from = from
               /\ base.writes = Top.policy.writes /\ base.allowed = Top.policy.allowed
               /\ base.denied = Top.policy.denied
    <2>1. Top.policy \in Policies /\ Top.ceiling \in Envelopes \cup {NoCeiling}
      BY <1>1, <1>4 DEF Level
    <2>2. /\ base \in Policies
          /\ base.writes = Top.policy.writes /\ base.allowed = Top.policy.allowed
          /\ base.denied = Top.policy.denied
      BY <2>1 DEF Policies
    <2> HIDE DEF base
    <2> QED BY <1>1, <1>2, <1>4, <2>1, <2>2, ChildNarrows
  <1>5. /\ fails => new = Sentinel(from)
        /\ Sentinel(from) \in Level /\ Sentinel(from).policy = NoPolicy
        /\ Sentinel(from).ceiling = NoCeiling /\ Sentinel(from).from = from
    BY <1>2 DEF Sentinel, Level
  <1>6. new \in Level /\ new.from = from
    BY <1>4, <1>5 DEF Facts
  <1>7. Top.policy = NoPolicy => new.policy = NoPolicy
    BY <1>5
  <1> HIDE DEF new
  <1>8. /\ longer \in Seq(Level) /\ Len(longer) = n + 1 /\ longer # <<>>
        /\ \A i \in 1..n : longer[i] = levels[i]
        /\ longer[n + 1] = new
    BY <1>1, <1>6
  <1> HIDE DEF longer
  <1>9. ASSUME NEW i \in 1..n
        PROVE  LevelFits(delegation, longer, i)
    <2>1. LevelFits(delegation, levels, i) /\ i \in Nat \ {0}
      BY <1>1
    <2>2. levels[i].policy = NoPolicy => \A j \in i..n : levels[j].policy = NoPolicy
      BY <2>1 DEF LevelFits
    <2>3. levels[i].policy = NoPolicy => \A j \in i..Len(longer) : longer[j].policy = NoPolicy
      BY <1>1, <1>7, <1>8, <2>2
    <2>4. /\ longer[1] = levels[1] /\ longer[i] = levels[i]
          /\ i > 1 => longer[i - 1] = levels[i - 1]
      BY <1>1, <1>8
    <2> QED BY <2>1, <2>3, <2>4, FitsElsewhere
  <1>10. delegation.enabled => MayCall(delegation, longer[n + 1].from)
    BY <1>2, <1>6, <1>8 DEF ChainFits, CallsFit
  <1>11. LevelFits(delegation, longer, n + 1)
    <2>1. CASE fails
      <3>1. longer[n + 1].policy = NoPolicy /\ longer[n + 1].ceiling = NoCeiling
        BY <1>5, <1>8, <2>1
      <3>2. \A j \in (n + 1)..Len(longer) : j = n + 1
        BY <1>1, <1>8
      <3> HIDE DEF n
      <3> QED BY <1>1, <1>3, <1>8, <1>10, <3>1, <3>2 DEF LevelFits
    <2>2. CASE ~fails
      <3>1. Facts(new, base, Top.ceiling) /\ new.policy # NoPolicy /\ new.ceiling # NoCeiling
        BY <1>4, <2>2, DelegationAssumption DEF Facts
      <3>2. new.policy.denied = levels[1].policy.denied
        <4>1. levels[n].policy.denied = levels[1].policy.denied
          BY <1>1, <2>2 DEF LevelFits
        <4> QED BY <1>1, <1>4, <2>2, <4>1 DEF Facts
      <3>3. /\ WritesExactly(delegation, new.policy, levels[n].policy)
            /\ ReachesExactly(delegation, new.policy, levels[n].policy, new.broad)
        <4>1. /\ WritesExactly(delegation, new.policy, base)
              /\ ReachesExactly(delegation, new.policy, base, new.broad)
              /\ base.writes = levels[n].policy.writes /\ base.allowed = levels[n].policy.allowed
          BY <1>1, <1>4, <2>2 DEF Facts
        <4> HIDE DEF base
        <4> QED BY <4>1 DEF WritesExactly, ReachesExactly
      <3>4. /\ new.ceiling.redelegate = delegation.redelegate
            /\ delegation.enabled => new.ceiling.depth = Max({0, delegation.maxDepth - n})
        BY <2>2, <3>1, DepthBelow DEF Facts
      <3>5. /\ longer[n + 1] = new /\ longer[n] = levels[n] /\ longer[1] = levels[1]
            /\ (n + 1) - 1 = n /\ n + 1 > 1 /\ n + 1 # 1
        BY <1>1, <1>8
      <3> HIDE DEF n, base, fails
      <3> QED BY <1>1, <1>3, <1>10, <3>1, <3>2, <3>3, <3>4, <3>5 DEF LevelFits
    <2> QED BY <2>1, <2>2
  <1>12. \A i \in 1..Len(longer) : i \in 1..n \/ i = n + 1
    BY <1>1, <1>8
  <1>13. Fits(delegation, longer)
    BY <1>1, <1>8, <1>9, <1>11, <1>12 DEF Fits
  <1>14. CallsFit(delegation, [admitted EXCEPT ![from] = @ - 1])
    BY <1>2 DEF ChainFits, CallsFit
  <1> QED BY <1>2, <1>13, <1>14 DEF ChainFits

(* Whoever outgrows the depth configured started late.                     *)
LEMMA OutgrownByTheLate ==
  ASSUME ChainFits, delegation.enabled
  PROVE  Len(levels) - 1 <= delegation.maxDepth + Cardinality(Late)
  <1> DEFINE n == Len(levels)
             m == delegation.maxDepth
  <1>1. /\ n \in Nat \ {0} /\ m \in Nat /\ DOMAIN levels = 1..n
        /\ \A i \in 1..n : LevelFits(delegation, levels, i)
    BY TopFits, DelegationAssumption
  <1>2. IsFiniteSet(1..n) /\ Late \subseteq 1..n
    BY <1>1, FS_Interval DEF Late
  <1>3. IsFiniteSet(Late) /\ Cardinality(Late) \in Nat
    BY <1>2, FS_Subset, FS_CardinalityType
  <1>4. CASE n - 1 <= m
    BY <1>1, <1>3, <1>4
  <1>5. CASE n - 1 > m
    <2>1. ASSUME NEW i \in (m + 2)..n PROVE i \in Late
      <3>1. i \in 1..n /\ i > 1 /\ i - 1 > m
        BY <1>1
      <3>2. levels[i].from <= m
        BY <1>1, <3>1 DEF LevelFits, MayCall
      <3> QED BY <1>1, <3>1, <3>2 DEF Late
    <2>2. Cardinality((m + 2)..n) = n - (m + 2) + 1
      BY <1>1, <1>5, FS_Interval
    <2>3. Cardinality((m + 2)..n) <= Cardinality(Late)
      BY <1>3, <2>1, FS_Subset
    <2> QED BY <1>1, <1>3, <2>2, <2>3
  <1> QED BY <1>1, <1>4, <1>5

(* A chain that fits is as wide and as long as its envelopes say.          *)
LEMMA FittingHolds ==
  ASSUME ChainFits
  PROVE  EnvelopesHold
  <1>1. /\ Len(levels) \in Nat \ {0} /\ delegation \in Delegations
        /\ DOMAIN levels = 1..Len(levels)
        /\ \A i \in 1..Len(levels) : LevelFits(delegation, levels, i)
    BY TopFits
  <1>2. ASSUME NEW i \in DOMAIN levels, Nested(i)
        PROVE  /\ WritesExactly(delegation, levels[i].policy, levels[i - 1].policy)
               /\ ReachesExactly(delegation, levels[i].policy, levels[i - 1].policy, levels[i].broad)
    BY <1>1, <1>2 DEF LevelFits, Nested
  <1>3. LevelsNarrowExactly
    BY <1>2 DEF LevelsNarrowExactly, WritesExactly, ReachesExactly
  <1>4. DepthHonoured
    <2> SUFFICES ASSUME delegation.enabled PROVE DepthHonoured
      BY DEF DepthHonoured
    <2>1. \A i \in DOMAIN levels : i > 1 => MayCall(delegation, levels[i].from)
      BY <1>1 DEF LevelFits
    <2>2. \A depth \in DOMAIN admitted : admitted[depth] > 0 => MayCall(delegation, depth)
      BY DEF ChainFits, CallsFit
    <2> QED BY <2>1, <2>2, OutgrownByTheLate DEF DepthHonoured, MayCall
  <1> QED BY <1>3, <1>4 DEF EnvelopesHold

-------------------------------------------------------------------------------
(* What was submitted and what runs: a policy that denies all that the     *)
(* turns above it deny.                                                    *)
Submission == [policy : Policies, chain : Seq(Level)]
Execution ==
  [id : Nat, policy : Policies, chain : Seq(Level), ceiling : Envelopes \cup {NoCeiling},
   aborted : BOOLEAN]
Denies(action) ==
  \A i \in 1..Len(action.chain) : action.chain[i].policy.denied = action.policy.denied

RunFits ==
  /\ begun \in Nat
  /\ submitted # <<>> => submitted[1] \in Submission /\ Denies(submitted[1])
  /\ Running => Latest \in Execution /\ Latest.id = begun /\ Denies(Latest)

(* What the run may reach, and what is asked, granted and dialled for it.  *)
MayReach(policy, target, addresses) ==
  /\ addresses # <<>>
  /\ \A i \in 1..Len(addresses) : AddressAllowed(policy, target, addresses[i])
  /\ ~SomeMatches(policy.denied, target[1], target[2])

Holds(run, id) == run # <<>> /\ run[1].id = id

AskFits(run, ask) ==
  Holds(run, ask.exec) =>
    LET target == ask.key.target
        policy == run[1].policy
    IN /\ ask.key = LookupKey(policy, target)
       /\ ~SomeMatches(policy.denied, target[1], target[2])
       /\ ask.stage = "resolving" => ~IsIP(target[1])
       /\ ask.stage = "reviewing" => target[1] = Localhost \/ MayReach(policy, target, ask.addresses)

GrantFits(run, id, target, addresses) ==
  Holds(run, id) /\ MayReach(run[1].policy, target, addresses)

Keys == [target : Targets, fake : SUBSET Addresses, local : BOOLEAN, exact : BOOLEAN]
Asked == [stage : {"resolving", "reviewing"}, exec : Nat, key : Keys, addresses : Seq(Addresses)]
Ticket == [addresses : Seq(Addresses), exec : Nat, expired : BOOLEAN]
Dialled == [stage : {"dialling", "relaying"}, target : Targets, exec : Nat, left : Seq(Addresses)]

AsksFit ==
  /\ asks \in [AskIds -> Asked \cup {Rest}]
  /\ \A a \in AskIds : asks[a] # Rest => asks[a].exec <= begun /\ AskFits(execution, asks[a])

TicketsFit ==
  /\ tickets \in [Targets -> Seq(Ticket)]
  /\ \A t \in Targets : \A i \in 1..Len(tickets[t]) :
       GrantFits(execution, tickets[t][i].exec, t, tickets[t][i].addresses)

ConnsFit ==
  /\ conns \in [Conns -> Dialled \cup {Rest}]
  /\ \A c \in Conns : conns[c] # Rest =>
       GrantFits(execution, conns[c].exec, conns[c].target, conns[c].left)

Inv == ChainFits /\ RunFits /\ AsksFit /\ TicketsFit /\ ConnsFit

-------------------------------------------------------------------------------
(* An execution told to stop keeps what it was allowed.                    *)
Stopped(run) == [run EXCEPT !.aborted = TRUE]

LEMMA StoppedSame ==
  ASSUME NEW run \in Execution
  PROVE  /\ Stopped(run) \in Execution /\ Stopped(run).id = run.id
         /\ Stopped(run).policy = run.policy /\ Stopped(run).chain = run.chain
  BY DEF Stopped, Execution

LEMMA AbortFits ==
  ASSUME Inv, Running, AbortExecution, begun' = begun, guardVars' = guardVars
  PROVE  /\ Running' /\ Latest' \in Execution /\ Latest'.id = begun' /\ Denies(Latest')
         /\ AsksFit' /\ TicketsFit' /\ ConnsFit'
  <1>1. /\ Latest \in Execution /\ Latest.id = begun /\ Denies(Latest)
        /\ Latest = execution[1] /\ execution # <<>>
    BY DEF Inv, RunFits, Running, Latest
  <1>2. /\ execution' # <<>> /\ execution'[1] = Stopped(Latest) /\ Latest' = Stopped(Latest)
        /\ Running'
    BY DEF AbortExecution, Stopped, Latest, Running
  <1>3. /\ Latest' \in Execution /\ Latest'.id = Latest.id /\ Latest'.policy = Latest.policy
        /\ Latest'.chain = Latest.chain
    BY <1>1, <1>2, StoppedSame
  <1>4. Denies(Latest')
    BY <1>1, <1>3 DEF Denies
  <1>5. ASSUME NEW ask
        PROVE  AskFits(execution', ask) <=> AskFits(execution, ask)
    BY <1>1, <1>2, <1>3 DEF AskFits, Holds
  <1>6. ASSUME NEW id, NEW target, NEW addresses
        PROVE  GrantFits(execution', id, target, addresses) <=> GrantFits(execution, id, target, addresses)
    BY <1>1, <1>2, <1>3 DEF GrantFits, Holds
  <1>7. AsksFit'
    <2>1. asks \in [AskIds -> Asked \cup {Rest}]
      BY DEF Inv, AsksFit
    <2>2. /\ asks' \in [AskIds -> Asked \cup {Rest}]
          /\ \A a \in AskIds : asks'[a] # Rest => asks'[a] = asks[a]
      BY <2>1 DEF AbortExecution
    <2> QED BY <1>5, <2>2 DEF Inv, AsksFit
  <1>8. TicketsFit' /\ ConnsFit'
    BY <1>6 DEF Inv, TicketsFit, ConnsFit, guardVars
  <1> QED BY <1>1, <1>2, <1>3, <1>4, <1>7, <1>8

(* A guard that was reset fits whatever runs next.                         *)
LEMMA ResetFits ==
  ASSUME ResetExecution
  PROVE  /\ TicketsFit' /\ ConnsFit'
         /\ \A t \in Targets : tickets'[t] = <<>>
  <1>1. /\ tickets' \in [Targets -> Seq(Ticket)] /\ conns' \in [Conns -> Dialled \cup {Rest}]
        /\ \A t \in Targets : tickets'[t] = <<>> /\ Len(tickets'[t]) = 0
        /\ \A c \in Conns : conns'[c] = Rest
    BY DEF ResetExecution
  <1> QED BY <1>1 DEF TicketsFit, ConnsFit

(* The addresses a lookup or a literal yields are allowed to the run.      *)
LEMMA KeyType ==
  ASSUME NEW policy \in Policies, NEW target \in Targets
  PROVE  LookupKey(policy, target) \in Keys
  BY DEF LookupKey, Keys, LocalAuthority, IsExactLocalAllowed, Policies

LEMMA TargetParts ==
  ASSUME NEW target \in Targets
  PROVE  target[1] \in Names /\ target[2] \in Ports /\ target = <<target[1], target[2]>>
  BY NetworkAssumption

LEMMA AnswersReach ==
  ASSUME NEW policy \in Policies, NEW target \in Targets, NEW answers \in Seq(Addresses),
         ~IsIP(target[1]), ~SomeMatches(policy.denied, target[1], target[2]),
         AnswersAdmitted(LookupKey(policy, target), answers)
  PROVE  target[1] = Localhost \/ MayReach(policy, target, answers)
  <1> SUFFICES ASSUME target[1] # Localhost
               PROVE  MayReach(policy, target, answers)
    OBVIOUS
  <1> DEFINE key == LookupKey(policy, target)
  <1>1. key.target = target /\ key.fake = policy.fake /\ key.local = LocalAuthority(policy)
    BY DEF LookupKey
  <1>2. answers # <<>> /\ \A i \in 1..Len(answers) : Admits(key, answers[i])
    BY DEF AnswersAdmitted
  <1> HIDE DEF key
  <1>3. \A i \in 1..Len(answers) : AddressAllowed(policy, target, answers[i])
    BY <1>1, <1>2 DEF Admits, AddressAllowed
  <1> QED BY <1>2, <1>3 DEF MayReach

LEMMA LiteralReaches ==
  ASSUME NEW policy \in Policies, NEW target \in Targets,
         IsIP(target[1]), ~SomeMatches(policy.denied, target[1], target[2]),
         LiteralAdmitted(LookupKey(policy, target))
  PROVE  MayReach(policy, target, <<target[1]>>)
  <1>1. AddressAllowed(policy, target, target[1])
    BY DEF LiteralAdmitted, LookupKey, AddressAllowed
  <1>2. <<target[1]>> # <<>> /\ \A i \in 1..Len(<<target[1]>>) : <<target[1]>>[i] = target[1]
    OBVIOUS
  <1> QED BY <1>1, <1>2 DEF MayReach

-------------------------------------------------------------------------------
LEMMA SubmitFits ==
  ASSUME Inv, NEW networkAll \in BOOLEAN, NEW granted \in Grants, Submit(networkAll, granted)
  PROVE  Inv'
  <1> DEFINE policy == [Top.policy EXCEPT !.whole = @ \/ networkAll, !.allowed = @ \cup granted]
  <1>1. /\ submitted' = <<[policy |-> policy, chain |-> levels]>>
        /\ ~Running /\ Top.policy # NoPolicy
        /\ UNCHANGED <<levelVars, begun, execution, askVars, guardVars>>
    BY DEF Submit
  <1>2. /\ Len(levels) \in Nat \ {0} /\ Top = levels[Len(levels)] /\ Top \in Level
        /\ levels \in Seq(Level)
        /\ \A i \in 1..Len(levels) : LevelFits(delegation, levels, i)
    BY TopFits DEF Inv
  <1>3. Top.policy \in Policies
    BY <1>1, <1>2 DEF Level
  <1>4. granted \in SUBSET Patterns
    BY NetworkAssumption
  <1>5. policy \in Policies /\ policy.denied = Top.policy.denied
    <2>1. Top.policy.allowed \cup granted \in SUBSET Patterns
      BY <1>3, <1>4 DEF Policies
    <2> QED BY <1>3, <2>1 DEF Policies
  <1>6. ASSUME NEW i \in 1..Len(levels)
        PROVE  levels[i].policy.denied = Top.policy.denied
    <2>1. levels[i].policy = NoPolicy => \A j \in i..Len(levels) : levels[j].policy = NoPolicy
      BY <1>2 DEF LevelFits
    <2>2. levels[i].policy # NoPolicy
      BY <1>1, <1>2, <2>1
    <2>3. Len(levels) \in 1..Len(levels)
      BY <1>2
    <2>4. /\ levels[i].policy.denied = levels[1].policy.denied
          /\ Top.policy.denied = levels[1].policy.denied
      BY <1>1, <1>2, <2>2, <2>3 DEF LevelFits
    <2> QED BY <2>4
  <1> HIDE DEF policy
  <1>7. submitted'[1] \in Submission /\ Denies(submitted'[1])
    BY <1>1, <1>2, <1>5, <1>6 DEF Submission, Denies
  <1>8. RunFits'
    BY <1>1, <1>7 DEF Inv, RunFits, Running
  <1>9. ChainFits' /\ AsksFit' /\ TicketsFit' /\ ConnsFit'
    BY <1>1 DEF Inv, ChainFits, AsksFit, TicketsFit, ConnsFit, levelVars, askVars, guardVars
  <1> QED BY <1>8, <1>9 DEF Inv

(* Whatever is still asked was asked for an earlier execution.             *)
LEMMA BeginFits ==
  ASSUME Inv, Begin
  PROVE  Inv'
  <1>1. /\ begun \in Nat /\ submitted[1] \in Submission /\ Denies(submitted[1])
        /\ begun' = begun + 1 /\ submitted' = <<>> /\ ResetExecution
        /\ execution' = <<[id |-> begun', policy |-> submitted[1].policy,
                           chain |-> submitted[1].chain, ceiling |-> Top.ceiling,
                           aborted |-> FALSE]>>
        /\ UNCHANGED <<levelVars, askVars>>
    BY DEF Begin, Inv, RunFits
  <1>2. Top.ceiling \in Envelopes \cup {NoCeiling}
    BY TopFits DEF Inv, Level
  <1>3. /\ Latest' \in Execution /\ Latest'.id = begun' /\ execution'[1].id = begun'
        /\ Latest'.policy = submitted[1].policy /\ Latest'.chain = submitted[1].chain
    BY <1>1, <1>2 DEF Execution, Submission, Latest
  <1>4. RunFits'
    <2>1. Denies(Latest')
      BY <1>1, <1>3 DEF Denies
    <2> QED BY <1>1, <1>3, <2>1 DEF RunFits, Running
  <1>5. AsksFit'
    <2>1. asks \in [AskIds -> Asked \cup {Rest}] /\ \A a \in AskIds : asks[a] # Rest => asks[a].exec <= begun
      BY DEF Inv, AsksFit
    <2>2. ASSUME NEW a \in AskIds, asks[a] # Rest
          PROVE  asks[a].exec <= begun' /\ AskFits(execution', asks[a])
      <3>1. asks[a].exec \in Nat /\ asks[a].exec <= begun
        BY <2>1, <2>2 DEF Asked
      <3>2. asks[a].exec # begun' /\ asks[a].exec <= begun'
        BY <1>1, <3>1
      <3>3. ~Holds(execution', asks[a].exec)
        BY <1>3, <3>2 DEF Holds
      <3> QED BY <3>2, <3>3 DEF AskFits
    <2> QED BY <1>1, <2>1, <2>2 DEF AsksFit, askVars
  <1>6. ChainFits' /\ TicketsFit' /\ ConnsFit'
    BY <1>1, ResetFits DEF Inv, ChainFits, levelVars
  <1> QED BY <1>4, <1>5, <1>6 DEF Inv

LEMMA EndFits ==
  ASSUME Inv, End
  PROVE  Inv'
  <1>1. /\ execution' = <<>> /\ ResetExecution
        /\ UNCHANGED <<levelVars, submitted, begun, askVars>>
    BY DEF End
  <1>2. RunFits' /\ AsksFit'
    BY <1>1 DEF Inv, RunFits, Running, AsksFit, AskFits, Holds, askVars
  <1>3. ChainFits' /\ TicketsFit' /\ ConnsFit'
    BY <1>1, ResetFits DEF Inv, ChainFits, levelVars
  <1> QED BY <1>2, <1>3 DEF Inv

LEMMA TurnsFit ==
  ASSUME Inv, Abort \/ AdmitCall \/ SpawnChild \/ ReturnChild
  PROVE  Inv'
  <1>1. CASE Abort
    <2>1. /\ Running /\ AbortExecution
          /\ UNCHANGED <<levelVars, submitted, begun, lookups, guardVars>>
      BY <1>1 DEF Abort
    <2>2. /\ Running' /\ Latest' \in Execution /\ Latest'.id = begun' /\ Denies(Latest')
          /\ AsksFit' /\ TicketsFit' /\ ConnsFit'
      BY <2>1, AbortFits
    <2> QED BY <2>1, <2>2 DEF Inv, ChainFits, RunFits, levelVars
  <1>2. CASE SpawnChild
    <2>1. /\ \E from \in 1..MaxLevels, networkAll, resolved \in BOOLEAN :
               Spawn(from, networkAll, resolved)
          /\ UNCHANGED <<submitted, begun, execution, askVars, guardVars>>
      BY <1>2 DEF SpawnChild
    <2>2. ChainFits'
      BY <2>1, SpawnFits DEF Inv
    <2> QED BY <2>1, <2>2
         DEF Inv, RunFits, Running, Latest, AsksFit, TicketsFit, ConnsFit, askVars, guardVars
  <1>3. CASE ReturnChild
    <2>1. /\ Return /\ submitted' \in {<<>>, submitted}
          /\ (Running /\ AbortExecution) \/ UNCHANGED <<execution, asks>>
          /\ UNCHANGED <<begun, lookups, guardVars>>
      BY <1>3 DEF ReturnChild
    <2>2. ChainFits'
      BY <2>1, ReturnFits DEF Inv
    <2>3. /\ Running' => Latest' \in Execution /\ Latest'.id = begun' /\ Denies(Latest')
          /\ AsksFit' /\ TicketsFit' /\ ConnsFit'
      <3>1. CASE Running /\ AbortExecution
        BY <2>1, <3>1, AbortFits
      <3>2. CASE UNCHANGED <<execution, asks>>
        BY <2>1, <3>2 DEF Inv, RunFits, Running, Latest, AsksFit, TicketsFit, ConnsFit, guardVars
      <3> QED BY <2>1, <3>1, <3>2
    <2> QED BY <2>1, <2>2, <2>3 DEF Inv, RunFits
  <1>4. CASE AdmitCall
    <2>1. Admit /\ UNCHANGED <<submitted, begun, execution, askVars, guardVars>>
      BY <1>4 DEF AdmitCall
    <2>2. ChainFits'
      BY <2>1, AdmitFits DEF Inv
    <2> QED BY <2>1, <2>2
         DEF Inv, RunFits, Running, Latest, AsksFit, TicketsFit, ConnsFit, askVars, guardVars
  <1> QED BY <1>1, <1>2, <1>3, <1>4

-------------------------------------------------------------------------------
(* Steps that move one ask leave the run and the guard alone.              *)
LEMMA AskMoves ==
  ASSUME Inv, UNCHANGED <<levelVars, submitted, begun, execution>>
  PROVE  /\ ChainFits' /\ RunFits'
         /\ UNCHANGED tickets => TicketsFit'
         /\ UNCHANGED conns => ConnsFit'
         /\ UNCHANGED asks => AsksFit'
  BY DEF Inv, ChainFits, RunFits, Running, Latest, TicketsFit, ConnsFit, AsksFit, levelVars

LEMMA AskFitsIn ==
  ASSUME Inv, NEW a \in AskIds, NEW target \in Targets, Ask(a, target)
  PROVE  Inv'
  <1> DEFINE key == LookupKey(Latest.policy, target)
  <1>1. /\ Running /\ begun \in Nat /\ Latest \in Execution /\ Latest.id = begun
        /\ Latest = execution[1] /\ execution # <<>>
        /\ asks \in [AskIds -> Asked \cup {Rest}]
        /\ UNCHANGED <<levelVars, submitted, begun, execution, guardVars>>
        /\ ~SomeMatches(Latest.policy.denied, target[1], target[2])
    BY DEF Ask, Inv, RunFits, AsksFit, Running, Latest
  <1>2. Latest.policy \in Policies
    BY <1>1 DEF Execution
  <1>3. key \in Keys /\ key.target = target
    BY <1>2, KeyType DEF LookupKey
  <1>4. \/ IsIP(target[1]) /\ LiteralAdmitted(key) /\ Asking(a, "reviewing", key, <<target[1]>>)
        \/ ~IsIP(target[1]) /\ Asking(a, "resolving", key, <<>>)
        \/ UNCHANGED asks
    BY DEF Ask, PendingKey
  <1>5. ASSUME NEW stage \in {"resolving", "reviewing"}, NEW addresses \in Seq(Addresses),
               Asking(a, stage, key, addresses),
               stage = "resolving" => ~IsIP(target[1]),
               stage = "reviewing" => MayReach(Latest.policy, target, addresses)
        PROVE  AsksFit'
    <2> DEFINE ask == [stage |-> stage, exec |-> Latest.id, key |-> key, addresses |-> addresses]
    <2>1. /\ ask \in Asked /\ ask.exec = Latest.id /\ ask.key = key /\ ask.stage = stage
          /\ ask.addresses = addresses
      BY <1>1, <1>3 DEF Asked
    <2>2. asks' = [asks EXCEPT ![a] = ask]
      BY <1>5 DEF Asking
    <2> HIDE DEF ask
    <2>3. AskFits(execution, ask) /\ ask.exec <= begun
      <3> HIDE DEF key
      <3>1. key = LookupKey(execution[1].policy, target)
        BY <1>1 DEF key
      <3> QED BY <1>1, <1>3, <1>5, <2>1, <3>1 DEF AskFits
    <2>4. /\ asks' \in [AskIds -> Asked \cup {Rest}] /\ asks'[a] = ask
          /\ \A b \in AskIds : b # a => asks'[b] = asks[b]
      BY <1>1, <2>1, <2>2
    <2> QED BY <1>1, <2>3, <2>4 DEF Inv, AsksFit
  <1>6. AsksFit'
    <2>1. CASE IsIP(target[1]) /\ LiteralAdmitted(key) /\ Asking(a, "reviewing", key, <<target[1]>>)
      <3>1. <<target[1]>> \in Seq(Addresses)
        BY <2>1 DEF IsIP
      <3>2. MayReach(Latest.policy, target, <<target[1]>>)
        BY <1>1, <1>2, <2>1, LiteralReaches
      <3> HIDE DEF key
      <3> QED BY <1>5, <2>1, <3>1, <3>2
    <2>2. CASE ~IsIP(target[1]) /\ Asking(a, "resolving", key, <<>>)
      <3>1. <<>> \in Seq(Addresses)
        OBVIOUS
      <3> HIDE DEF key
      <3> QED BY <1>5, <2>2, <3>1
    <2>3. CASE UNCHANGED asks
      BY <1>1, <2>3, AskMoves
    <2> QED BY <1>4, <2>1, <2>2, <2>3
  <1> QED BY <1>1, <1>6, AskMoves DEF Inv, guardVars

LEMMA LookupFits ==
  ASSUME Inv, NEW key, NEW answers \in Seq(Addresses), LookupSettles(key, answers)
  PROVE  Inv'
  <1>1. /\ UNCHANGED <<levelVars, submitted, begun, execution, guardVars>>
        /\ asks \in [AskIds -> Asked \cup {Rest}]
        /\ asks' = [a \in AskIds |->
             IF asks[a].stage = "resolving" /\ asks[a].key = key
             THEN IF AnswersAdmitted(key, answers)
                  THEN [asks[a] EXCEPT !.stage = "reviewing", !.addresses = answers]
                  ELSE Rest
             ELSE asks[a]]
    BY DEF LookupSettles, Inv, AsksFit
  <1>2. ASSUME NEW a \in AskIds
        PROVE  /\ asks'[a] \in Asked \cup {Rest}
               /\ asks'[a] # Rest => asks'[a].exec <= begun' /\ AskFits(execution', asks'[a])
    <2> DEFINE ask == asks[a]
               heard == [ask EXCEPT !.stage = "reviewing", !.addresses = answers]
    <2>1. ask \in Asked \cup {Rest} /\ (ask # Rest => ask.exec <= begun /\ AskFits(execution, ask))
      BY DEF Inv, AsksFit
    <2>2. CASE asks'[a] = ask
      BY <1>1, <2>1, <2>2
    <2>3. CASE asks'[a] = Rest
      BY <2>3
    <2>4. CASE /\ ask.stage = "resolving" /\ ask.key = key /\ AnswersAdmitted(key, answers)
               /\ asks'[a] = heard
      <3>1. ask \in Asked /\ ask # Rest
        BY <2>1, <2>4 DEF Rest
      <3>2. /\ heard \in Asked /\ heard.stage = "reviewing" /\ heard.addresses = answers
            /\ heard.key = ask.key /\ heard.exec = ask.exec
        BY <3>1 DEF Asked
      <3> HIDE DEF ask, heard
      <3>3. ASSUME Holds(execution, ask.exec)
            PROVE  AskFits(execution, heard)
        <4> DEFINE target == ask.key.target
                   policy == execution[1].policy
        <4>1. /\ ask.key = LookupKey(policy, target) /\ ~IsIP(target[1])
              /\ ~SomeMatches(policy.denied, target[1], target[2])
          BY <2>1, <2>4, <3>1, <3>3 DEF AskFits
        <4>2. target \in Targets
          BY <3>1 DEF Asked, Keys
        <4>3. policy \in Policies
          BY <3>3 DEF Holds, Inv, RunFits, Running, Latest, Execution
        <4>4. target[1] = Localhost \/ MayReach(policy, target, answers)
          BY <2>4, <4>1, <4>2, <4>3, AnswersReach
        <4> QED BY <3>2, <4>1, <4>4 DEF AskFits
      <3>4. AskFits(execution, heard)
        BY <3>2, <3>3 DEF AskFits
      <3> QED BY <1>1, <2>1, <2>4, <3>1, <3>2, <3>4
    <2> QED BY <1>1, <2>2, <2>3, <2>4
  <1>3. AsksFit'
    BY <1>1, <1>2 DEF AsksFit
  <1> QED BY <1>1, <1>3, AskMoves DEF Inv, guardVars

LEMMA ReviewFits ==
  ASSUME Inv, NEW a \in AskIds, NEW allowed \in BOOLEAN, ReviewEnds(a, allowed)
  PROVE  Inv'
  <1> DEFINE ask == asks[a]
             target == ask.key.target
  <1>1. /\ ask.stage = "reviewing" /\ asks' = [asks EXCEPT ![a] = Rest]
        /\ UNCHANGED <<levelVars, submitted, begun, execution, lookups, conns>>
        /\ \/ MayGrant(ask) /\ target[1] # Localhost /\ Issue(ask)
           \/ UNCHANGED tickets
    BY DEF ReviewEnds
  <1>2. /\ asks \in [AskIds -> Asked \cup {Rest}] /\ tickets \in [Targets -> Seq(Ticket)]
        /\ ask # Rest => AskFits(execution, ask)
    BY DEF Inv, AsksFit, TicketsFit
  <1>3. ask # Rest /\ ask \in Asked
    BY <1>1, <1>2 DEF Rest
  <1>4. AsksFit'
    <2>1. /\ asks' \in [AskIds -> Asked \cup {Rest}]
          /\ \A b \in AskIds : asks'[b] # Rest => asks'[b] = asks[b]
      BY <1>1, <1>2
    <2> QED BY <1>1, <2>1 DEF Inv, AsksFit
  <1>5. TicketsFit'
    <2>1. CASE MayGrant(ask) /\ target[1] # Localhost /\ Issue(ask)
      <3> DEFINE ticket == [addresses |-> ask.addresses, exec |-> ask.exec, expired |-> FALSE]
      <3>1. /\ target \in Targets /\ ask.exec \in Nat /\ ask.addresses \in Seq(Addresses)
        BY <1>3 DEF Asked, Keys
      <3>2. ticket \in Ticket
        BY <3>1 DEF Ticket
      <3>3. Holds(execution, ask.exec)
        BY <2>1 DEF MayGrant, IsLatest, Running, Latest, Holds
      <3>4. MayReach(execution[1].policy, target, ask.addresses)
        BY <1>1, <1>2, <1>3, <2>1, <3>3 DEF AskFits
      <3>5. GrantFits(execution, ticket.exec, target, ticket.addresses)
        BY <3>3, <3>4 DEF GrantFits
      <3>6. tickets' = [tickets EXCEPT ![target] = Append(tickets[target], ticket)]
        BY <2>1 DEF Issue
      <3> HIDE DEF ask, target, ticket
      <3>7. /\ Append(tickets[target], ticket) \in Seq(Ticket)
            /\ \A i \in 1..Len(Append(tickets[target], ticket)) :
                 \/ Append(tickets[target], ticket)[i] = ticket
                 \/ i \in 1..Len(tickets[target])
                      /\ Append(tickets[target], ticket)[i] = tickets[target][i]
        BY <1>2, <3>1, <3>2
      <3>8. /\ tickets' \in [Targets -> Seq(Ticket)]
            /\ tickets'[target] = Append(tickets[target], ticket)
            /\ \A t \in Targets : t # target => tickets'[t] = tickets[t]
        BY <1>2, <3>1, <3>6, <3>7
      <3>9. ASSUME NEW t \in Targets, NEW i \in 1..Len(tickets'[t])
            PROVE  GrantFits(execution', tickets'[t][i].exec, t, tickets'[t][i].addresses)
        <4>1. CASE t # target
          BY <1>1, <3>8, <4>1 DEF Inv, TicketsFit
        <4>2. CASE t = target
          <5>1. \/ tickets'[t][i] = ticket
                \/ i \in 1..Len(tickets[t]) /\ tickets'[t][i] = tickets[t][i]
            BY <3>7, <3>8, <4>2
          <5> QED BY <1>1, <3>5, <4>2, <5>1 DEF Inv, TicketsFit
        <4> QED BY <4>1, <4>2
      <3> QED BY <3>8, <3>9 DEF TicketsFit
    <2>2. CASE UNCHANGED tickets
      BY <1>1, <2>2, AskMoves
    <2> QED BY <1>1, <2>1, <2>2
  <1> QED BY <1>1, <1>4, <1>5, AskMoves DEF Inv

LEMMA ExpiryFits ==
  ASSUME Inv, NEW t \in Targets, TicketExpires(t)
  PROVE  Inv' /\ \A u \in Targets : Len(tickets'[u]) = Len(tickets[u])
  <1>1. PICK k \in DOMAIN tickets[t] :
          /\ tickets' = [tickets EXCEPT ![t][k].expired = TRUE]
          /\ UNCHANGED <<levelVars, submitted, begun, execution, askVars, ticketCount, conns>>
    BY DEF TicketExpires
  <1>2. tickets \in [Targets -> Seq(Ticket)]
    BY DEF Inv, TicketsFit
  <1>3. tickets[t] \in Seq(Ticket) /\ k \in 1..Len(tickets[t]) /\ tickets[t][k] \in Ticket
    BY <1>1, <1>2
  <1> DEFINE ticket == [tickets[t][k] EXCEPT !.expired = TRUE]
             queue == [tickets[t] EXCEPT ![k] = ticket]
  <1>4. /\ ticket \in Ticket /\ ticket.exec = tickets[t][k].exec
        /\ ticket.addresses = tickets[t][k].addresses
    BY <1>3 DEF Ticket
  <1>5. tickets' = [tickets EXCEPT ![t] = queue]
    BY <1>1
  <1> HIDE DEF ticket
  <1>6. /\ queue \in Seq(Ticket) /\ Len(queue) = Len(tickets[t])
        /\ \A i \in 1..Len(queue) : queue[i] = IF i = k THEN ticket ELSE tickets[t][i]
    BY <1>3, <1>4
  <1> HIDE DEF queue
  <1>7. /\ tickets' \in [Targets -> Seq(Ticket)] /\ tickets'[t] = queue
        /\ \A u \in Targets : u # t => tickets'[u] = tickets[u]
    BY <1>2, <1>5, <1>6
  <1>8. ASSUME NEW u \in Targets
        PROVE  /\ Len(tickets'[u]) = Len(tickets[u])
               /\ \A i \in 1..Len(tickets'[u]) :
                    /\ tickets'[u][i].exec = tickets[u][i].exec
                    /\ tickets'[u][i].addresses = tickets[u][i].addresses
    BY <1>4, <1>6, <1>7
  <1>9. TicketsFit'
    BY <1>1, <1>7, <1>8 DEF Inv, TicketsFit
  <1> QED BY <1>1, <1>8, <1>9, AskMoves DEF Inv, askVars

LEMMA SpentBound ==
  ASSUME NEW queue \in Seq(Ticket)
  PROVE  Spent(queue) \in 0..Len(queue)
  <1>1. /\ Len(queue) \in Nat /\ DOMAIN queue = 1..Len(queue)
        /\ IsFiniteSet(1..Len(queue)) /\ Cardinality(1..Len(queue)) = Len(queue)
    <2>1. Len(queue) \in Nat /\ DOMAIN queue = 1..Len(queue)
      OBVIOUS
    <2>2. /\ IsFiniteSet(1..Len(queue))
          /\ Cardinality(1..Len(queue)) = IF 1 > Len(queue) THEN 0 ELSE Len(queue) - 1 + 1
      BY <2>1, FS_Interval
    <2> QED BY <2>1, <2>2
  <1> DEFINE old == {i \in DOMAIN queue : queue[i].expired}
  <1>2. old \in SUBSET (1..Len(queue))
    BY <1>1
  <1>3. IsFiniteSet(old) /\ Cardinality(old) <= Len(queue)
    BY <1>1, <1>2, FS_Subset
  <1>4. Cardinality(old) \in Nat
    BY <1>3, FS_CardinalityType
  <1> HIDE DEF old
  <1>5. Cardinality(old) \in 0..Len(queue)
    BY <1>1, <1>3, <1>4
  <1> QED BY <1>5 DEF Spent, old

LEMMA ConnectFits ==
  ASSUME Inv, NEW c \in Conns, NEW t \in Targets, Connect(c, t)
  PROVE  Inv' /\ \A u \in Targets : Len(tickets'[u]) <= Len(tickets[u])
  <1> DEFINE queue == tickets[t]
             spent == Spent(queue)
             rest == SubSeq(queue, spent + 2, Len(queue))
  <1>1. /\ tickets' = [tickets EXCEPT ![t] = rest]
        /\ UNCHANGED <<levelVars, submitted, begun, execution, askVars>>
        /\ conns' = IF spent = Len(queue) THEN conns
                    ELSE [conns EXCEPT ![c] =
                      [stage |-> "dialling", target |-> t, exec |-> queue[spent + 1].exec,
                       left |-> queue[spent + 1].addresses]]
    BY DEF Connect
  <1>2. /\ tickets \in [Targets -> Seq(Ticket)] /\ queue \in Seq(Ticket) /\ Len(queue) \in Nat
        /\ conns \in [Conns -> Dialled \cup {Rest}]
        /\ \A i \in 1..Len(queue) : queue[i] \in Ticket /\ GrantFits(execution, queue[i].exec, t, queue[i].addresses)
    BY DEF Inv, TicketsFit, ConnsFit
  <1>3. spent \in 0..Len(queue)
    BY <1>2, SpentBound
  <1> HIDE DEF spent
  <1>4. /\ rest \in Seq(Ticket) /\ Len(rest) \in Nat /\ Len(rest) <= Len(queue)
        /\ \A i \in 1..Len(rest) : i + (spent + 1) \in 1..Len(queue) /\ rest[i] = queue[i + (spent + 1)]
    BY <1>2, <1>3
  <1> HIDE DEF rest
  <1>5. /\ tickets' \in [Targets -> Seq(Ticket)] /\ tickets'[t] = rest
        /\ \A u \in Targets : u # t => tickets'[u] = tickets[u]
    BY <1>1, <1>2, <1>4
  <1>6. ASSUME NEW u \in Targets
        PROVE  Len(tickets'[u]) <= Len(tickets[u])
    <2>1. Len(tickets[u]) \in Nat
      BY <1>2
    <2> QED BY <1>4, <1>5, <2>1
  <1>7. TicketsFit'
    <2>1. ASSUME NEW u \in Targets, NEW i \in 1..Len(tickets'[u])
          PROVE  GrantFits(execution', tickets'[u][i].exec, u, tickets'[u][i].addresses)
      <3>1. CASE u = t
        <4>1. i + (spent + 1) \in 1..Len(queue) /\ tickets'[u][i] = queue[i + (spent + 1)]
          BY <1>4, <1>5, <2>1, <3>1
        <4> QED BY <1>1, <1>2, <3>1, <4>1
      <3>2. CASE u # t
        BY <1>1, <1>5, <3>2 DEF Inv, TicketsFit
      <3> QED BY <3>1, <3>2
    <2> QED BY <1>5, <2>1 DEF TicketsFit
  <1>8. ConnsFit'
    <2>1. CASE spent = Len(queue)
      BY <1>1, <2>1, AskMoves
    <2>2. CASE spent # Len(queue)
      <3> DEFINE conn == [stage |-> "dialling", target |-> t, exec |-> queue[spent + 1].exec,
                          left |-> queue[spent + 1].addresses]
      <3>1. spent + 1 \in 1..Len(queue)
        BY <1>2, <1>3, <2>2
      <3>2. queue[spent + 1] \in Ticket
        BY <1>2, <3>1
      <3>3. /\ conn \in Dialled
            /\ GrantFits(execution, conn.exec, conn.target, conn.left)
        BY <1>2, <3>1, <3>2 DEF Dialled, Ticket
      <3>4. conns' = [conns EXCEPT ![c] = conn]
        BY <1>1, <2>2
      <3> HIDE DEF conn
      <3>5. /\ conns' \in [Conns -> Dialled \cup {Rest}] /\ conns'[c] = conn
            /\ \A d \in Conns : d # c => conns'[d] = conns[d]
        BY <1>2, <3>3, <3>4
      <3> QED BY <1>1, <3>3, <3>5 DEF Inv, ConnsFit
    <2> QED BY <2>1, <2>2
  <1> QED BY <1>1, <1>6, <1>7, <1>8, AskMoves DEF Inv, askVars

LEMMA TailMeans ==
  ASSUME NEW S, NEW s \in Seq(S), s # <<>>, Len(s) # 1
  PROVE  /\ Tail(s) \in Seq(S) /\ Tail(s) # <<>>
         /\ \A i \in 1..Len(Tail(s)) : i + 1 \in 1..Len(s) /\ Tail(s)[i] = s[i + 1]
  <1>1. Len(s) \in Nat /\ Len(s) > 1
    <2>1. Len(s) \in Nat \ {0}
      BY EmptySeq
    <2>2. \A n \in Nat \ {0} : n # 1 => n \in Nat /\ n > 1
      OBVIOUS
    <2> QED BY <2>1, <2>2, Zenon
  <1>2. /\ Tail(s) \in Seq(S) /\ Len(Tail(s)) = Len(s) - 1
        /\ \A i \in 1..(Len(s) - 1) : Tail(s)[i] = s[i + 1]
    BY HeadTailProperties
  <1>3. Tail(s) # <<>>
    <2>1. Len(Tail(s)) # 0
      BY <1>1, <1>2
    <2> QED BY <2>1, EmptySeq
  <1> QED BY <1>1, <1>2, <1>3

(* A connection moves on with fewer candidates, or goes.                   *)
LEMMA DialFits ==
  ASSUME Inv, NEW c \in Conns,
         DialSucceeds(c) \/ Closes(c) \/ \E timedOut \in BOOLEAN : DialFails(c, timedOut)
  PROVE  Inv' /\ tickets' = tickets
  <1> DEFINE conn == conns[c]
  <1>1. UNCHANGED <<levelVars, submitted, begun, execution, askVars, tickets, ticketCount>>
    BY DEF DialSucceeds, Closes, DialFails, OnConns
  <1>2. /\ conns \in [Conns -> Dialled \cup {Rest}]
        /\ conn # Rest => GrantFits(execution, conn.exec, conn.target, conn.left)
    BY DEF Inv, ConnsFit
  <1>3. PICK new : /\ conns' = [conns EXCEPT ![c] = new]
                   /\ \/ new = Rest
                      \/ conn # Rest /\ new = [conn EXCEPT !.stage = "relaying"]
                      \/ conn # Rest /\ Len(conn.left) # 1 /\ new = [conn EXCEPT !.left = Tail(conn.left)]
    <2>1. CASE DialSucceeds(c)
      <3>1. conns' = [conns EXCEPT ![c] = [conn EXCEPT !.stage = "relaying"]] /\ conn # Rest
        BY <2>1 DEF DialSucceeds, Rest
      <3> QED BY <3>1
    <2>2. CASE Closes(c)
      BY <2>2 DEF Closes
    <2>3. CASE \E timedOut \in BOOLEAN : DialFails(c, timedOut)
      <3>1. PICK timedOut \in BOOLEAN : DialFails(c, timedOut)
        BY <2>3
      <3> DEFINE next == IF timedOut \/ Len(conn.left) = 1 THEN Rest
                         ELSE [conn EXCEPT !.left = Tail(conn.left)]
      <3>2. conn # Rest /\ conns' = [conns EXCEPT ![c] = next]
        <4>1. conn # Rest
          BY <3>1 DEF DialFails, Rest
        <4>2. conns' = [conns EXCEPT ![c] = next]
          BY <3>1 DEF DialFails
        <4> QED BY <4>1, <4>2
      <3>3. \/ next = Rest
            \/ Len(conn.left) # 1 /\ next = [conn EXCEPT !.left = Tail(conn.left)]
        OBVIOUS
      <3> HIDE DEF next, conn
      <3> QED BY <3>2, <3>3
    <2> QED BY <2>1, <2>2, <2>3
  <1>4. new \in Dialled \cup {Rest} /\ (new # Rest => GrantFits(execution, new.exec, new.target, new.left))
    <2>1. CASE new = Rest
      BY <2>1
    <2>2. CASE conn # Rest /\ new = [conn EXCEPT !.stage = "relaying"]
      <3>1. conn \in Dialled
        BY <1>2, <2>2
      <3>2. new \in Dialled /\ new.exec = conn.exec /\ new.target = conn.target /\ new.left = conn.left
        BY <2>2, <3>1 DEF Dialled
      <3> QED BY <1>2, <2>2, <3>2
    <2>3. CASE conn # Rest /\ Len(conn.left) # 1 /\ new = [conn EXCEPT !.left = Tail(conn.left)]
      <3>1. conn \in Dialled /\ conn.left \in Seq(Addresses)
        BY <1>2, <2>3 DEF Dialled
      <3>2. GrantFits(execution, conn.exec, conn.target, conn.left)
        BY <1>2, <2>3
      <3>3. conn.left # <<>> /\ Len(conn.left) \in Nat
        BY <3>1, <3>2 DEF GrantFits, MayReach
      <3>4. /\ Tail(conn.left) \in Seq(Addresses) /\ Tail(conn.left) # <<>>
            /\ \A i \in 1..Len(Tail(conn.left)) :
                 i + 1 \in 1..Len(conn.left) /\ Tail(conn.left)[i] = conn.left[i + 1]
        BY <2>3, <3>1, <3>3, TailMeans
      <3>5. /\ new \in Dialled /\ new.exec = conn.exec /\ new.target = conn.target
            /\ new.left = Tail(conn.left)
        BY <2>3, <3>1, <3>4 DEF Dialled
      <3> HIDE DEF conn
      <3> QED BY <3>2, <3>4, <3>5 DEF GrantFits, MayReach
    <2> QED BY <1>3, <2>1, <2>2, <2>3
  <1>5. /\ conns' \in [Conns -> Dialled \cup {Rest}] /\ conns'[c] = new
        /\ \A d \in Conns : d # c => conns'[d] = conns[d]
    BY <1>2, <1>3, <1>4
  <1>6. ConnsFit'
    BY <1>1, <1>4, <1>5 DEF Inv, ConnsFit
  <1> QED BY <1>1, <1>6, AskMoves DEF Inv, askVars

-------------------------------------------------------------------------------
LEMMA InitHolds ==
  ASSUME Init
  PROVE  Inv
  <1>1. ChainFits
    BY InitFits DEF Init
  <1>2. /\ submitted = <<>> /\ begun = 0 /\ execution = <<>>
        /\ asks \in [AskIds -> Asked \cup {Rest}] /\ \A a \in AskIds : asks[a] = Rest
        /\ tickets \in [Targets -> Seq(Ticket)] /\ \A t \in Targets : Len(tickets[t]) = 0
        /\ conns \in [Conns -> Dialled \cup {Rest}] /\ \A c \in Conns : conns[c] = Rest
    BY DEF Init
  <1> QED BY <1>1, <1>2 DEF Inv, RunFits, Running, AsksFit, TicketsFit, ConnsFit

LEMMA NextHolds ==
  ASSUME Inv, [Next]_vars
  PROVE  Inv'
  <1>1. CASE UNCHANGED vars
    BY <1>1, AskMoves DEF Inv, vars, levelVars, askVars, guardVars
  <1>2. CASE \E networkAll \in BOOLEAN, granted \in Grants : Submit(networkAll, granted)
    BY <1>2, SubmitFits
  <1>3. CASE Begin
    BY <1>3, BeginFits
  <1>4. CASE End
    BY <1>4, EndFits
  <1>5. CASE Abort \/ AdmitCall \/ SpawnChild \/ ReturnChild
    BY <1>5, TurnsFit
  <1>6. CASE \E a \in AskIds, t \in Targets : Ask(a, t)
    BY <1>6, AskFitsIn
  <1>7. CASE ResolverAnswers
    <2>1. PICK key \in lookups, answers \in Answers : LookupSettles(key, answers)
      BY <1>7 DEF ResolverAnswers
    <2>2. answers \in Seq(Addresses)
      BY NetworkAssumption
    <2> QED BY <2>1, <2>2, LookupFits
  <1>8. CASE \E key \in lookups : LookupTimesOut(key)
    <2>1. PICK key \in lookups : LookupSettles(key, <<>>)
      BY <1>8 DEF LookupTimesOut
    <2>2. <<>> \in Seq(Addresses)
      OBVIOUS
    <2> QED BY <2>1, <2>2, LookupFits
  <1>9. CASE \E a \in AskIds, allowed \in BOOLEAN : ReviewEnds(a, allowed)
    BY <1>9, ReviewFits
  <1>10. CASE \E t \in Targets : TicketExpires(t)
    BY <1>10, ExpiryFits
  <1>11. CASE \E c \in Conns, t \in Targets : Connect(c, t)
    BY <1>11, ConnectFits
  <1>12. CASE \E c \in Conns : \/ DialSucceeds(c) \/ Closes(c)
                               \/ \E timedOut \in BOOLEAN : DialFails(c, timedOut)
    BY <1>12, DialFits
  <1> QED BY <1>1, <1>2, <1>3, <1>4, <1>5, <1>6, <1>7, <1>8, <1>9, <1>10, <1>11, <1>12 DEF Next

(* Only a review that ends issues a ticket.                                *)
GrantsInTime ==
  \A t \in Targets : Len(tickets'[t]) > Len(tickets[t]) => Running /\ ~Latest.aborted

LEMMA NextGrantsInTime ==
  ASSUME Inv, [Next]_vars
  PROVE  GrantsInTime
  <1>1. \A t \in Targets : Len(tickets[t]) \in Nat
    BY DEF Inv, TicketsFit
  <1>2. \A t \in Targets : Len(tickets'[t]) \in Nat
    BY NextHolds DEF Inv, TicketsFit
  <1>3. ASSUME \A t \in Targets : Len(tickets'[t]) <= Len(tickets[t])
        PROVE  GrantsInTime
    BY <1>1, <1>2, <1>3 DEF GrantsInTime
  <1>4. CASE tickets' = tickets
    BY <1>1, <1>3, <1>4
  <1>5. CASE ResetExecution
    <2>1. \A t \in Targets : Len(tickets'[t]) = 0
      BY <1>5, ResetFits
    <2> QED BY <1>1, <1>3, <2>1
  <1>6. CASE \E t \in Targets : TicketExpires(t)
    BY <1>1, <1>3, <1>6, ExpiryFits
  <1>7. CASE \E c \in Conns, t \in Targets : Connect(c, t)
    BY <1>3, <1>7, ConnectFits
  <1>8. CASE \E a \in AskIds, allowed \in BOOLEAN : ReviewEnds(a, allowed)
    <2>1. tickets' = tickets \/ (Running /\ ~Latest.aborted)
      BY <1>8 DEF ReviewEnds, MayGrant, IsLatest
    <2> QED BY <1>4, <2>1 DEF GrantsInTime
  <1>9. CASE Abort \/ AdmitCall \/ SpawnChild \/ ReturnChild
    BY <1>4, <1>9 DEF Abort, AdmitCall, SpawnChild, ReturnChild, guardVars
  <1>10. CASE UNCHANGED vars
    BY <1>4, <1>10 DEF vars, guardVars
  <1>11. CASE Begin \/ End
    BY <1>5, <1>11 DEF Begin, End
  <1>12. CASE \/ \E networkAll \in BOOLEAN, granted \in Grants : Submit(networkAll, granted)
              \/ \E a \in AskIds, t \in Targets : Ask(a, t)
    BY <1>4, <1>12 DEF Submit, Ask, guardVars
  <1>13. CASE ResolverAnswers \/ \E key \in lookups : LookupTimesOut(key)
    BY <1>4, <1>13 DEF ResolverAnswers, LookupTimesOut, LookupSettles, guardVars
  <1>14. CASE \E c \in Conns : \/ DialSucceeds(c) \/ Closes(c)
                               \/ \E timedOut \in BOOLEAN : DialFails(c, timedOut)
    BY <1>4, <1>14, DialFits
  <1> QED BY <1>6, <1>7, <1>8, <1>9, <1>10, <1>11, <1>12, <1>13, <1>14 DEF Next

LEMMA FittingDialsAllowed ==
  ASSUME Inv
  PROVE  DialledIsAllowed
  <1> SUFFICES ASSUME NEW c \in Conns, Reaching(c)
               PROVE  LET target == conns[c].target
                      IN /\ AddressAllowed(Latest.policy, target, conns[c].left[1])
                         /\ \A i \in DOMAIN Latest.chain :
                              ~SomeMatches(Latest.chain[i].policy.denied, target[1], target[2])
    BY DEF DialledIsAllowed
  <1>1. conns[c] \in Dialled /\ GrantFits(execution, conns[c].exec, conns[c].target, conns[c].left)
    BY DEF Inv, ConnsFit, Reaching
  <1>2. Running /\ Latest \in Execution /\ Denies(Latest) /\ Latest = execution[1]
    BY <1>1 DEF Inv, RunFits, GrantFits, Holds, Running, Latest
  <1>3. MayReach(Latest.policy, conns[c].target, conns[c].left)
    BY <1>1, <1>2 DEF GrantFits
  <1>4. 1 \in 1..Len(conns[c].left)
    <2>1. Len(conns[c].left) \in Nat \ {0}
      BY <1>1, <1>3, EmptySeq DEF Dialled, MayReach
    <2> QED BY <2>1
  <1>5. DOMAIN Latest.chain = 1..Len(Latest.chain)
    BY <1>2 DEF Execution
  <1> QED BY <1>2, <1>3, <1>4, <1>5 DEF MayReach, Denies

LEMMA FittingOutlivesNothing ==
  ASSUME Inv
  PROVE  NothingOutlivesItsExecution
  <1>1. ASSUME NEW t \in Targets, NEW i \in DOMAIN tickets[t]
        PROVE  IsLatest(tickets[t][i].exec)
    <2>1. i \in 1..Len(tickets[t])
      BY DEF Inv, TicketsFit
    <2> QED BY <2>1 DEF Inv, TicketsFit, GrantFits, Holds, IsLatest, Running, Latest
  <1>2. ASSUME NEW c \in Conns, Reaching(c)
        PROVE  IsLatest(conns[c].exec)
    BY <1>2 DEF Inv, ConnsFit, Reaching, GrantFits, Holds, IsLatest, Running, Latest
  <1> QED BY <1>1, <1>2 DEF NothingOutlivesItsExecution

-------------------------------------------------------------------------------
(* The tickets held are finitely many places, one more after an issue and  *)
(* as many less after a consume as it takes from one queue.                *)
Counted == IsFiniteSet(TicketsHeld) /\ TicketCountExact

LEMMA InitCounted ==
  ASSUME Init
  PROVE  Counted
  <1>1. TicketsHeld = {} /\ ticketCount = 0
    <2>1. \A t \in Targets : DOMAIN tickets[t] = {}
      BY DEF Init
    <2> QED BY <2>1 DEF TicketsHeld, Init
  <1>2. 0 <= MaxTickets
    BY NetworkAssumption
  <1> QED BY <1>1, <1>2, FS_EmptySet DEF Counted, TicketCountExact

LEMMA SamePlacesCounted ==
  ASSUME Counted, UNCHANGED ticketCount,
         \A t \in Targets : DOMAIN tickets'[t] = DOMAIN tickets[t]
  PROVE  Counted'
  <1>1. TicketsHeld' = TicketsHeld
    BY DEF TicketsHeld
  <1> QED BY <1>1 DEF Counted, TicketCountExact

LEMMA ResetCounted ==
  ASSUME ResetExecution
  PROVE  Counted'
  <1>1. TicketsHeld' = {} /\ ticketCount' = 0
    <2>1. \A t \in Targets : DOMAIN tickets'[t] = {}
      BY DEF ResetExecution
    <2> QED BY <2>1 DEF TicketsHeld, ResetExecution
  <1>2. 0 <= MaxTickets
    BY NetworkAssumption
  <1> QED BY <1>1, <1>2, FS_EmptySet DEF Counted, TicketCountExact

LEMMA IssueCounted ==
  ASSUME Counted, tickets \in [Targets -> Seq(Ticket)], NEW t \in Targets, NEW ticket \in Ticket,
         tickets' = [tickets EXCEPT ![t] = Append(tickets[t], ticket)],
         ticketCount' = ticketCount + 1, ticketCount < MaxTickets
  PROVE  Counted'
  <1> DEFINE n == Len(tickets[t])
             place == <<t, n + 1>>
  <1>1. /\ n \in Nat /\ DOMAIN tickets[t] = 1..n /\ DOMAIN tickets'[t] = 1..(n + 1)
        /\ \A u \in Targets : u # t => tickets'[u] = tickets[u]
    <2>1. tickets[t] \in Seq(Ticket)
      OBVIOUS
    <2>2. n \in Nat /\ DOMAIN tickets[t] = 1..n /\ DOMAIN Append(tickets[t], ticket) = 1..(n + 1)
      BY <2>1
    <2> QED BY <2>2
  <1> HIDE DEF n
  <1>2. 1..(n + 1) = (1..n) \cup {n + 1} /\ n + 1 \notin 1..n
    BY <1>1
  <1>3. TicketsHeld' = TicketsHeld \cup {place}
    <2>1. ASSUME NEW x, x \in TicketsHeld' PROVE x \in TicketsHeld \cup {place}
      <3>1. PICK u \in Targets : x \in {u} \X DOMAIN tickets'[u]
        BY <2>1 DEF TicketsHeld
      <3>2. x \in {u} \X DOMAIN tickets[u] \/ x = place
        BY <3>1, <1>1, <1>2
      <3> QED BY <3>2 DEF TicketsHeld
    <2>2. ASSUME NEW x, x \in TicketsHeld \cup {place} PROVE x \in TicketsHeld'
      <3>1. CASE x = place
        <4>1. x \in {t} \X DOMAIN tickets'[t]
          BY <3>1, <1>1, <1>2
        <4> QED BY <4>1 DEF TicketsHeld
      <3>2. CASE x \in TicketsHeld
        <4>1. PICK u \in Targets : x \in {u} \X DOMAIN tickets[u]
          BY <3>2 DEF TicketsHeld
        <4>2. x \in {u} \X DOMAIN tickets'[u]
          BY <4>1, <1>1, <1>2
        <4> QED BY <4>2 DEF TicketsHeld
      <3> QED BY <2>2, <3>1, <3>2
    <2> QED BY <2>1, <2>2
  <1>4. place \notin TicketsHeld
    <2> SUFFICES ASSUME place \in TicketsHeld PROVE FALSE
      OBVIOUS
    <2>1. PICK u \in Targets : place \in {u} \X DOMAIN tickets[u]
      BY DEF TicketsHeld
    <2> QED BY <2>1, <1>1, <1>2
  <1> HIDE DEF place
  <1>5. /\ IsFiniteSet(TicketsHeld') /\ Cardinality(TicketsHeld') = Cardinality(TicketsHeld) + 1
    BY <1>3, <1>4, FS_AddElement DEF Counted
  <1>6. Cardinality(TicketsHeld) \in Nat
    BY FS_CardinalityType DEF Counted
  <1> QED BY <1>5, <1>6, NetworkAssumption DEF Counted, TicketCountExact

LEMMA ShortenedCounted ==
  ASSUME Counted, tickets \in [Targets -> Seq(Ticket)], NEW t \in Targets,
         NEW rest \in Seq(Ticket), Len(rest) <= Len(tickets[t]),
         tickets' = [tickets EXCEPT ![t] = rest],
         ticketCount' = ticketCount - (Len(tickets[t]) - Len(rest))
  PROVE  Counted'
  <1> DEFINE n == Len(tickets[t])
             m == Len(rest)
             gone == {t} \X ((m + 1)..n)
  <1>1. /\ n \in Nat /\ m \in Nat /\ DOMAIN tickets[t] = 1..n /\ DOMAIN tickets'[t] = 1..m
        /\ m <= n /\ ticketCount' = ticketCount - (n - m)
        /\ \A u \in Targets : u # t => tickets'[u] = tickets[u]
    <2>1. tickets[t] \in Seq(Ticket)
      OBVIOUS
    <2> QED BY <2>1
  <1> HIDE DEF n, m
  <1>2. /\ \A i \in 1..n : i \in 1..m <=> i \notin (m + 1)..n
        /\ 1..m \subseteq 1..n /\ (m + 1)..n \subseteq 1..n
    BY <1>1
  <1>3. TicketsHeld' = TicketsHeld \ gone
    <2>1. ASSUME NEW x, x \in TicketsHeld' PROVE x \in TicketsHeld \ gone
      <3>1. PICK u \in Targets : x \in {u} \X DOMAIN tickets'[u]
        BY <2>1 DEF TicketsHeld
      <3>2. x \in {u} \X DOMAIN tickets[u] /\ x \notin gone
        <4>1. CASE u = t
          BY <4>1, <3>1, <1>1, <1>2
        <4>2. CASE u # t
          BY <4>2, <3>1, <1>1
        <4> QED BY <4>1, <4>2
      <3> QED BY <3>2 DEF TicketsHeld
    <2>2. ASSUME NEW x, x \in TicketsHeld, x \notin gone PROVE x \in TicketsHeld'
      <3>1. PICK u \in Targets : x \in {u} \X DOMAIN tickets[u]
        BY <2>2 DEF TicketsHeld
      <3>2. x \in {u} \X DOMAIN tickets'[u]
        BY <2>2, <3>1, <1>1, <1>2
      <3> QED BY <3>2 DEF TicketsHeld
    <2> QED BY <2>1, <2>2
  <1>4. TicketsHeld \cap gone = gone
    <2>1. ASSUME NEW x, x \in gone PROVE x \in TicketsHeld
      <3>1. x \in {t} \X DOMAIN tickets[t]
        BY <2>1, <1>1, <1>2
      <3> QED BY <3>1 DEF TicketsHeld
    <2> QED BY <2>1
  <1>5. Cardinality(gone) = n - m
    <2>1. /\ IsFiniteSet((m + 1)..n)
          /\ Cardinality((m + 1)..n) = IF m + 1 > n THEN 0 ELSE n - (m + 1) + 1
      BY <1>1, FS_Interval
    <2>2. Cardinality((m + 1)..n) = n - m
      BY <2>1, <1>1
    <2>3. IsFiniteSet({t}) /\ Cardinality({t}) = 1
      BY FS_Singleton
    <2>4. Cardinality(gone) = Cardinality({t}) * Cardinality((m + 1)..n)
      BY <2>1, <2>3, FS_Product
    <2> HIDE DEF gone
    <2> QED BY <2>2, <2>3, <2>4, <1>1
  <1> HIDE DEF gone
  <1>6. /\ IsFiniteSet(TicketsHeld')
        /\ Cardinality(TicketsHeld') = Cardinality(TicketsHeld) - (n - m)
    <2>1. IsFiniteSet(TicketsHeld)
      BY DEF Counted
    <2> DEFINE left == TicketsHeld \ gone
               taken == TicketsHeld \cap gone
    <2>2. IsFiniteSet(left) /\ Cardinality(left) = Cardinality(TicketsHeld) - Cardinality(taken)
      BY <2>1, FS_Difference
    <2>3. taken = gone /\ TicketsHeld' = left
      BY <1>3, <1>4
    <2>4. Cardinality(taken) = n - m
      BY <2>3, <1>5
    <2> HIDE DEF left, taken
    <2>5. IsFiniteSet(TicketsHeld') /\ Cardinality(TicketsHeld') = Cardinality(left)
      BY <2>2, <2>3
    <2> QED BY <2>2, <2>4, <2>5
  <1>7. Cardinality(TicketsHeld) \in Nat
    BY FS_CardinalityType DEF Counted
  <1> QED BY <1>1, <1>6, <1>7, NetworkAssumption DEF Counted, TicketCountExact

LEMMA MinOfTwo ==
  ASSUME NEW a \in Int, NEW b \in Int
  PROVE  Min({a, b}) = IF a <= b THEN a ELSE b
  <1> DEFINE least == IF a <= b THEN a ELSE b
  <1>1. least \in {a, b} /\ \A y \in {a, b} : least <= y
    OBVIOUS
  <1>2. \A x \in {a, b} : (\A y \in {a, b} : x <= y) => x = least
    OBVIOUS
  <1> HIDE DEF least
  <1>3. Min({a, b}) = least
    BY <1>1, <1>2 DEF Min
  <1> QED BY <1>3 DEF least

LEMMA ConnectCounted ==
  ASSUME Inv, Counted, NEW c \in Conns, NEW t \in Targets, Connect(c, t)
  PROVE  Counted'
  <1> DEFINE queue == tickets[t]
             spent == Spent(queue)
             rest == SubSeq(queue, spent + 2, Len(queue))
  <1>1. /\ tickets' = [tickets EXCEPT ![t] = rest] /\ queue # <<>>
        /\ ticketCount' = ticketCount - Consumed(queue)
    BY DEF Connect
  <1>2. /\ tickets \in [Targets -> Seq(Ticket)] /\ queue \in Seq(Ticket) /\ Len(queue) \in Nat
    BY DEF Inv, TicketsFit
  <1>3. spent \in 0..Len(queue)
    BY <1>2, SpentBound
  <1>4. Consumed(queue) = IF spent + 1 <= Len(queue) THEN spent + 1 ELSE Len(queue)
    BY <1>2, <1>3, MinOfTwo DEF Consumed
  <1> HIDE DEF spent
  <1>5. /\ rest \in Seq(Ticket) /\ Len(rest) \in Nat /\ Len(rest) <= Len(queue)
        /\ Len(rest) = IF spent + 1 <= Len(queue) THEN Len(queue) - (spent + 1) ELSE 0
    BY <1>2, <1>3
  <1> HIDE DEF rest
  <1>6. Consumed(queue) = Len(queue) - Len(rest)
    BY <1>2, <1>3, <1>4, <1>5
  <1> QED BY <1>1, <1>2, <1>5, <1>6, ShortenedCounted

LEMMA NextCounted ==
  ASSUME Inv, Counted, [Next]_vars
  PROVE  Counted'
  <1>1. CASE UNCHANGED <<tickets, ticketCount>>
    BY <1>1, SamePlacesCounted
  <1>2. CASE Begin \/ End
    BY <1>2, ResetCounted DEF Begin, End
  <1>3. ASSUME NEW a \in AskIds, NEW allowed \in BOOLEAN, ReviewEnds(a, allowed)
        PROVE  Counted'
    <2> DEFINE ask == asks[a]
    <2>1. \/ Issue(ask) /\ ticketCount < MaxTickets
          \/ UNCHANGED <<tickets, ticketCount>>
      BY <1>3 DEF ReviewEnds
    <2>2. CASE Issue(ask) /\ ticketCount < MaxTickets
      <3> DEFINE ticket == [addresses |-> ask.addresses, exec |-> ask.exec, expired |-> FALSE]
      <3>1. ask.stage = "reviewing" /\ ask \in Asked \cup {Rest}
        BY <1>3 DEF ReviewEnds, Inv, AsksFit
      <3>2. ask \in Asked
        BY <3>1 DEF Rest
      <3>3. ask.key.target \in Targets /\ ticket \in Ticket
        BY <3>2 DEF Asked, Keys, Ticket
      <3>4. /\ tickets' = [tickets EXCEPT ![ask.key.target] = Append(tickets[ask.key.target], ticket)]
            /\ ticketCount' = ticketCount + 1
        BY <2>2 DEF Issue
      <3>5. tickets \in [Targets -> Seq(Ticket)]
        BY DEF Inv, TicketsFit
      <3> HIDE DEF ticket
      <3> QED BY <2>2, <3>3, <3>4, <3>5, IssueCounted
    <2> QED BY <1>1, <2>1, <2>2
  <1>4. ASSUME NEW t \in Targets, TicketExpires(t) PROVE Counted'
    <2>1. UNCHANGED ticketCount /\ \A u \in Targets : Len(tickets'[u]) = Len(tickets[u])
      BY <1>4, ExpiryFits DEF TicketExpires
    <2>2. /\ tickets \in [Targets -> Seq(Ticket)] /\ tickets' \in [Targets -> Seq(Ticket)]
      BY <1>4, ExpiryFits DEF Inv, TicketsFit
    <2>3. \A u \in Targets : DOMAIN tickets'[u] = DOMAIN tickets[u]
      BY <2>1, <2>2
    <2> QED BY <2>1, <2>3, SamePlacesCounted
  <1>5. ASSUME NEW c \in Conns, NEW t \in Targets, Connect(c, t) PROVE Counted'
    BY <1>5, ConnectCounted
  <1>6. CASE UNCHANGED vars
    BY <1>1, <1>6 DEF vars
  <1>7. CASE \/ \E networkAll \in BOOLEAN, granted \in Grants : Submit(networkAll, granted)
             \/ Abort \/ AdmitCall \/ SpawnChild \/ ReturnChild \/ ResolverAnswers
             \/ \E a \in AskIds, t \in Targets : Ask(a, t)
             \/ \E key \in lookups : LookupTimesOut(key)
    BY <1>1, <1>7 DEF Submit, Abort, AdmitCall, SpawnChild, ReturnChild, ResolverAnswers, Ask, LookupTimesOut,
                      LookupSettles, guardVars
  <1>8. CASE \E c \in Conns : \/ DialSucceeds(c) \/ Closes(c)
                              \/ \E timedOut \in BOOLEAN : DialFails(c, timedOut)
    BY <1>1, <1>8 DEF DialSucceeds, Closes, DialFails, OnConns
  <1> QED BY <1>2, <1>3, <1>4, <1>5, <1>6, <1>7, <1>8 DEF Next

-------------------------------------------------------------------------------
(* However turns open, fail to resolve and close, a child writes and       *)
(* reaches exactly what its parent may and its config asks for; a call     *)
(* passes the gate only where depth is left, and a chain outgrows the      *)
(* configured depth by no more than the agents that started under a turn   *)
(* opened since their call (delegation.ts:134-160, delegation-policy.ts:   *)
(* 51-85).                                                                 *)
THEOREM EnvelopesAlwaysHold == Spec => []EnvelopesHold
  <1>1. Inv => EnvelopesHold
    BY FittingHolds DEF Inv
  <1> QED BY <1>1, InitHolds, NextHolds, PTL DEF Spec

(* Whatever the guard dials is allowed to the command and denied by no     *)
(* turn down to it, though lookups are shared with other executions        *)
(* (network-boundary.ts:176-202, 268-297).                                 *)
THEOREM DialledIsAlwaysAllowed == Spec => []DialledIsAllowed
  <1>1. Inv => DialledIsAllowed
    BY FittingDialsAllowed
  <1> QED BY <1>1, InitHolds, NextHolds, PTL DEF Spec

(* The count that caps the guard is the number of tickets it holds, for    *)
(* any number of targets, asks and connections (connect-guard.ts:335-394). *)
THEOREM CountAlwaysExact == Spec => []TicketCountExact
  <1>1. Counted => TicketCountExact
    BY DEF Counted
  <1>2. Init => Inv /\ Counted
    BY InitHolds, InitCounted
  <1>3. Inv /\ Counted /\ [Next]_vars => Inv' /\ Counted'
    BY NextHolds, NextCounted
  <1> QED BY <1>1, <1>2, <1>3, PTL DEF Spec

(* Tickets and relays end with their execution, and none is issued for one *)
(* that was told to stop (connect-guard.ts:353-362, srt-enforcer.ts:       *)
(* 257-265).                                                               *)
THEOREM GrantsAlwaysBelong == Spec => GrantsBelongToTheRunning
  <1>1. Inv => NothingOutlivesItsExecution
    BY FittingOutlivesNothing
  <1>2. Inv /\ [Next]_vars => [GrantsInTime]_vars
    BY NextGrantsInTime
  <1>3. [GrantsInTime]_vars =>
          [\A t \in Targets :
             Len(tickets'[t]) > Len(tickets[t]) => Running /\ ~Latest.aborted]_vars
    BY DEF GrantsInTime
  <1>4. Spec => []NothingOutlivesItsExecution
    BY <1>1, InitHolds, NextHolds, PTL DEF Spec
  <1>5. Spec => NoGrantAfterAbort
    BY <1>2, <1>3, InitHolds, NextHolds, PTL DEF Spec, NoGrantAfterAbort
  <1> QED BY <1>4, <1>5, PTL DEF GrantsBelongToTheRunning
===============================================================================
