------------------------------- MODULE MCNetwork -------------------------------
(* A public site with a subdomain, localhost and a raw private address.    *)
EXTENDS MediatedNetwork

site == <<"com", "site">>
api == <<"com", "site", "api">>
away == <<"org">>
world == <<"9.9.9.9">>
inner == <<"10.0.0.1">>
tun == <<"198.18.0.1">>
self == <<"127.0.0.1">>

AnyHost(port) == [port |-> port, kind |-> "any", host |-> <<"*">>]
Exact(host) == [port |-> NoPort, kind |-> "exact", host |-> host]
Wild(host) == [port |-> NoPort, kind |-> "wildcard", host |-> host]

MCLabels == {"*", "com", "org", "site", "api", "localhost", "9.9.9.9", "10.0.0.1", "198.18.0.1", "127.0.0.1"}
MCAddresses == {world, inner, tun, self}
MCPublic == {world}
MCLoopback == {self}
MCNames == {site, api, away, inner, self, Localhost}
MCTargets == {<<api, 443>>, <<inner, 443>>}
MCPaths == {<<"com">>, <<"org">>, <<"com", "site">>, <<"com", "api">>, <<"org", "site">>, <<"org", "site", "api">>}
MCAnswers == {<<world, tun>>, <<world, inner>>}
MCGrants == {{Exact(inner)}}

MCOuterPolicies ==
  {[writes |-> {<<"com">>, <<"org", "site">>}, allowed |-> {Wild(<<"com">>), Exact(away)},
    denied |-> {Exact(self)}, whole |-> FALSE, private |-> "unset", binding |-> "unset", fake |-> {tun}]}
On == [enabled |-> TRUE, roots |-> {<<"com", "site">>, <<"org">>},
       hosts |-> {Wild(site), AnyHost(443)}, redelegate |-> TRUE, maxDepth |-> 2]
MCDelegations ==
  {[On EXCEPT !.maxDepth = 1], [On EXCEPT !.redelegate = FALSE, !.hosts = {}], [On EXCEPT !.enabled = FALSE]}

(* The chain by itself, a level deeper and with two calls at a time.       *)
Deep == [On EXCEPT !.roots = {<<"com", "api">>, <<"org">>}]
MCChains ==
  {Deep, [Deep EXCEPT !.maxDepth = 1], [Deep EXCEPT !.redelegate = FALSE, !.hosts = {}],
   [Deep EXCEPT !.enabled = FALSE]}

MCAllDelegations == MCDelegations \cup MCChains
MCBudget ==
  [d \in MCAllDelegations |->
    IF d \in MCChains THEN [levels |-> 4, calls |-> 2, executions |-> 0]
    ELSE [levels |-> 3, calls |-> 1, executions |-> 2]]
===============================================================================
