---------------------------- MODULE NetworkPatterns ----------------------------
(***************************************************************************)
(* The language of network patterns (network-domain-pattern.ts): "*",      *)
(* "*.suffix" and an exact host, each with an optional port. A host is the *)
(* sequence of its labels, the top-level one first, so a dotted suffix is  *)
(* a strict prefix; an address is a host that isIP recognizes.             *)
(***************************************************************************)
EXTENDS SequencesExt

CONSTANTS
  Labels,
  Addresses,  \* the hosts that are IP literals
  Ports,
  NoPort      \* a pattern that gives no port

ASSUME HostAssumption ==
  /\ Addresses \subseteq Seq(Labels) \ {<<>>}
  /\ NoPort \notin Ports

Hosts == Seq(Labels) \ {<<>>}
Kinds == {"any", "wildcard", "exact"}
Patterns == [kind : Kinds, host : Hosts, port : Ports \cup {NoPort}]

IsIP(host) == host \in Addresses

Below(suffix, host) == ~IsIP(host) /\ IsStrictPrefix(suffix, host)

(* matchesNetworkDomainPattern.                                            *)
Matches(pattern, host, port) ==
  /\ pattern.port \in {NoPort, port}
  /\ CASE pattern.kind = "any" -> TRUE
       [] pattern.kind = "exact" -> host = pattern.host
       [] pattern.kind = "wildcard" -> Below(pattern.host, host)

(* networkHostCovers.                                                      *)
HostCovers(parent, child) ==
  CASE parent.kind = "any" -> TRUE
    [] parent.kind = "exact" -> child.kind = "exact" /\ child.host = parent.host
    [] parent.kind = "wildcard" ->
         \/ child.kind = "exact" /\ Below(parent.host, child.host)
         \/ child.kind = "wildcard" /\ IsPrefix(parent.host, child.host)

(* isNetworkPatternCoveredBy.                                              *)
PatternCovers(parent, child) ==
  parent.port \in {NoPort, child.port} /\ HostCovers(parent, child)

PortsAgree(p, q) == p.port = q.port \/ NoPort \in {p.port, q.port}
NarrowerPort(p, q) == IF p.port = NoPort THEN q.port ELSE p.port

MetNarrowly(p, q) ==  \* mutant: a request that is wider than the parent meets nothing
  IF PortsAgree(p, q) /\ HostCovers(p, q)
  THEN {[q EXCEPT !.port = NarrowerPort(p, q)]} ELSE {}

(* Two patterns meet in the narrower one, or not at all.                   *)
Met(p, q) ==
  LET narrower == {r \in {p, q} : HostCovers(p, r) /\ HostCovers(q, r)}
  IN IF PortsAgree(p, q)
     THEN {[r EXCEPT !.port = NarrowerPort(p, q)] : r \in narrower}
     ELSE {}

(* intersectNetworkPatterns.                                               *)
IntersectPatterns(parent, requested) ==
  UNION {Met(p, q) : p \in parent, q \in requested}

SomeMatches(patterns, host, port) == \E p \in patterns : Matches(p, host, port)

(* isExactLocalNetworkAllowed.                                             *)
Localhost == <<"localhost">>
IsExactLocalAllowed(patterns, host, port) ==
  /\ host = Localhost \/ IsIP(host)
  /\ \E p \in patterns : p.kind = "exact" /\ Matches(p, host, port)
===============================================================================
