----------------------------- MODULE MediatedNetwork -----------------------------
(***************************************************************************)
(* How a sandboxed command reaches the network: the sandbox asks for each  *)
(* destination (srt-enforcer.ts:244-282), the authorizer applies deny list *)
(* and ceiling, has the name resolved and the Engine review it (register.  *)
(* ts:1320-1397, network-boundary.ts), and the connect guard dials only    *)
(* what a one-shot ticket allows (connect-guard.ts). A lookup outlives     *)
(* the ask, the ask outlives the execution, and both are answered late.    *)
(***************************************************************************)
EXTENDS Delegation

CONSTANTS
  AskIds, Conns,
  Targets,           \* what commands ask for: hosts with ports
  Public, Loopback,  \* of the addresses
  Answers,           \* what a resolver may say: sequences of addresses
  Grants,            \* hosts the Engine may have granted the turn: sets of patterns
  MaxTickets         \* MAX_TICKETS (256)

ASSUME NetworkAssumption ==
  /\ Targets \subseteq Names \X Ports /\ MaxTickets \in Nat \ {0}
  /\ Public \subseteq Addresses /\ Loopback \subseteq Addresses /\ Public \cap Loopback = {}
  /\ Answers \subseteq Seq(Addresses) /\ Grants \subseteq SUBSET Patterns

VARIABLES
  submitted,   \* an action the Engine has yet to execute: <<>> or <<[policy, chain]>>
  begun,       \* executions begun
  execution,   \* networkExecution: <<>> or the one that runs, with authorizer and signal
  asks,        \* askNetwork calls in flight
  lookups,     \* NetworkBoundary.pending
  tickets,     \* SandboxConnectGuard.tickets, per target
  ticketCount,
  conns        \* connections to the guard, with the one upstream of each

vars == <<levelVars, submitted, begun, execution, asks, lookups, tickets, ticketCount, conns>>
askVars == <<asks, lookups>>
guardVars == <<tickets, ticketCount, conns>>

Rest == [stage |-> "rest"]
Running == execution # <<>>
Latest == execution[1]
IsLatest(id) == Running /\ Latest.id = id

(* effectiveNetworkAuthority.                                              *)
LocalAuthority(policy) ==
  \E choice \in {policy.private, policy.binding} :
    choice = "yes" \/ (choice = "unset" /\ policy.whole)

(* The fingerprint of a lookup: what is asked, and all that decides which  *)
(* answers are good enough.                                                *)
LookupKey(policy, target) ==
  [target |-> target, fake |-> policy.fake, local |-> LocalAuthority(policy),
   exact |-> IsExactLocalAllowed(policy.allowed, target[1], target[2])]

LookupByTarget(policy, target) ==  \* mutant: coalesced by destination alone
  IF \E key \in lookups : key.target = target
  THEN CHOOSE key \in lookups : key.target = target
  ELSE LookupKey(policy, target)

PendingKey(policy, target) == LookupKey(policy, target)

(* resolveHostname: one unsafe answer condemns them all. A raw literal is  *)
(* never excused as a fake address.                                        *)
Admits(key, address) ==
  \/ key.local
  \/ IF key.exact /\ key.target[1] = Localhost THEN address \in Loopback
     ELSE address \in Public \/ address \in key.fake

AnswersAdmitted(key, answers) ==
  answers # <<>> /\ \A i \in DOMAIN answers : Admits(key, answers[i])

LiteralAdmitted(key) == key.local \/ key.exact \/ key.target[1] \in Public
-------------------------------------------------------------------------------
Init ==
  /\ LevelsInit
  /\ submitted = <<>> /\ begun = 0 /\ execution = <<>>
  /\ asks = [a \in AskIds |-> Rest] /\ lookups = {}
  /\ tickets = [t \in Targets |-> <<>>] /\ ticketCount = 0
  /\ conns = [c \in Conns |-> Rest]

(* A command is submitted in the turn on top; its lease adds what the      *)
(* Engine granted that turn. No controlled tool runs under a sentinel.     *)
(* Bound: one command at a time.                                           *)
Submit(networkAll, granted) ==
  /\ submitted = <<>> /\ ~Running /\ begun < Budget[delegation].executions /\ Top.policy # NoPolicy
  /\ submitted' = <<[policy |-> [Top.policy EXCEPT !.whole = @ \/ networkAll,
                                                   !.allowed = @ \cup granted],
                     chain |-> levels]>>
  /\ UNCHANGED <<levelVars, begun, execution, askVars, guardVars>>

ResetKeepsSockets ==  \* mutant: only the tickets are dropped
  tickets' = [t \in Targets |-> <<>>] /\ ticketCount' = 0 /\ UNCHANGED conns

(* resetExecution.                                                         *)
ResetExecution ==
  /\ tickets' = [t \in Targets |-> <<>>] /\ ticketCount' = 0
  /\ conns' = [c \in Conns |-> Rest]

(* The lease is granted and the action executed: the ceiling is read now,  *)
(* from the turn that is on top now.                                       *)
Begin ==
  /\ submitted # <<>> /\ ~Running
  /\ begun' = begun + 1
  /\ execution' = <<[id |-> begun', policy |-> submitted[1].policy, chain |-> submitted[1].chain,
                      ceiling |-> Top.ceiling, aborted |-> FALSE]>>
  /\ submitted' = <<>>
  /\ ResetExecution
  /\ UNCHANGED <<levelVars, askVars>>

End ==
  /\ Running
  /\ execution' = <<>>
  /\ ResetExecution
  /\ UNCHANGED <<levelVars, submitted, begun, askVars>>

(* Its signal fires: asks that wait for a name are denied at once.         *)
AbortExecution ==
  /\ execution' = <<[Latest EXCEPT !.aborted = TRUE]>>
  /\ asks' = [a \in AskIds |->
       IF asks[a].stage = "resolving" /\ IsLatest(asks[a].exec) THEN Rest ELSE asks[a]]

Abort ==
  /\ Running /\ ~Latest.aborted
  /\ AbortExecution
  /\ UNCHANGED <<levelVars, submitted, begun, lookups, guardVars>>

(* The innermost turn ends and takes what it had submitted with it.        *)
ReturnChild ==
  LET orphan(action) == Len(action.chain) = Len(levels)
  IN /\ Return
     /\ submitted' = IF submitted # <<>> /\ orphan(submitted[1]) THEN <<>> ELSE submitted
     /\ IF Running /\ orphan(Latest)
        THEN AbortExecution
        ELSE UNCHANGED <<execution, asks>>
     /\ UNCHANGED <<begun, lookups, guardVars>>

(* Bound: none is called or starts while a command runs; it would not      *)
(* disturb it.                                                             *)
AdmitCall ==
  /\ ~Running /\ Admit
  /\ UNCHANGED <<submitted, begun, execution, askVars, guardVars>>

SpawnChild ==
  /\ ~Running
  /\ \E from \in 1..MaxLevels, networkAll, resolved \in BOOLEAN : Spawn(from, networkAll, resolved)
  /\ UNCHANGED <<submitted, begun, execution, askVars, guardVars>>
-------------------------------------------------------------------------------
Asking(a, stage, key, addresses) ==
  asks' = [asks EXCEPT ![a] = [stage |-> stage, exec |-> Latest.id, key |-> key, addresses |-> addresses]]

(* An ask that is neither denied nor outside the ceiling (the others are   *)
(* answered on the spot) is resolved, or joins a lookup in flight.         *)
Ask(a, target) ==
  LET key == PendingKey(Latest.policy, target)
  IN /\ Running /\ asks[a] = Rest
     /\ ~SomeMatches(Latest.policy.denied, target[1], target[2])
     /\ Latest.ceiling # NoCeiling => SomeMatches(Latest.ceiling.hosts, target[1], target[2])
     /\ IF IsIP(target[1])
        THEN /\ LiteralAdmitted(key)
             /\ Asking(a, "reviewing", key, <<target[1]>>)
             /\ UNCHANGED lookups
        ELSE /\ lookups' = lookups \cup {key}
             /\ IF Latest.aborted THEN UNCHANGED asks ELSE Asking(a, "resolving", key, <<>>)
     /\ UNCHANGED <<levelVars, submitted, begun, execution, guardVars>>

(* Every ask that joined the lookup gets its outcome; no answers: it timed *)
(* out or failed.                                                          *)
LookupSettles(key, answers) ==
  /\ key \in lookups
  /\ lookups' = lookups \ {key}
  /\ asks' = [a \in AskIds |->
       IF asks[a].stage = "resolving" /\ asks[a].key = key
       THEN IF AnswersAdmitted(key, answers)
            THEN [asks[a] EXCEPT !.stage = "reviewing", !.addresses = answers]
            ELSE Rest
       ELSE asks[a]]
  /\ UNCHANGED <<levelVars, submitted, begun, execution, guardVars>>

ResolverAnswers == \E key \in lookups, answers \in Answers : LookupSettles(key, answers)

CallersTimeOut(key) ==  \* mutant: the timer is the first caller's, gone with its execution
  (\E a \in AskIds : asks[a].stage = "resolving" /\ asks[a].key = key /\ IsLatest(asks[a].exec))
    /\ LookupSettles(key, <<>>)

LookupTimesOut(key) == LookupSettles(key, <<>>)

MayGrantAborted(ask) == IsLatest(ask.exec)  \* mutant: the signal is not looked at again
MayGrant(ask) == IsLatest(ask.exec) /\ ~Latest.aborted

(* issue: the cap counts expired tickets too.                              *)
Issue(ask) ==
  /\ tickets' = [tickets EXCEPT ![ask.key.target] =
       Append(@, [addresses |-> ask.addresses, exec |-> ask.exec, expired |-> FALSE])]
  /\ ticketCount' = ticketCount + 1

(* The Engine's decision arrives. The sandbox dials loopback by itself, so *)
(* such an ask is allowed without a ticket.                                *)
ReviewEnds(a, allowed) ==
  LET ask == asks[a]
      bypasses == ask.key.target[1] \in Loopback \cup {Localhost}
  IN /\ ask.stage = "reviewing"
     /\ asks' = [asks EXCEPT ![a] = Rest]
     /\ IF allowed /\ MayGrant(ask) /\ ~bypasses /\ ticketCount < MaxTickets
        THEN Issue(ask)
        ELSE UNCHANGED <<tickets, ticketCount>>
     /\ UNCHANGED <<levelVars, submitted, begun, execution, lookups, conns>>
-------------------------------------------------------------------------------
(* Tickets of one target expire in the order they were issued.             *)
TicketExpires(t) ==
  \E i \in DOMAIN tickets[t] :
    /\ ~tickets[t][i].expired /\ \A j \in 1..(i - 1) : tickets[t][j].expired
    /\ tickets' = [tickets EXCEPT ![t][i].expired = TRUE]
    /\ UNCHANGED <<levelVars, submitted, begun, execution, askVars, ticketCount, conns>>

Spent(queue) == Cardinality({i \in DOMAIN queue : queue[i].expired})
CountOnlyTheUsed(queue) == IF Spent(queue) < Len(queue) THEN 1 ELSE 0  \* mutant: dropped ones stay counted
Consumed(queue) == Min({Spent(queue) + 1, Len(queue)})

(* consume: expired tickets in front are dropped with the one it takes;    *)
(* without one the client gets 403.                                        *)
Connect(c, t) ==
  LET queue == tickets[t]
      spent == Spent(queue)
  IN /\ conns[c] = Rest /\ queue # <<>>
     /\ tickets' = [tickets EXCEPT ![t] = SubSeq(@, spent + 2, Len(@))]
     /\ ticketCount' = ticketCount - Consumed(queue)
     /\ conns' = IF spent = Len(queue) THEN conns
                 ELSE [conns EXCEPT ![c] =
                   [stage |-> "dialling", target |-> t, exec |-> queue[spent + 1].exec,
                    left |-> queue[spent + 1].addresses]]
     /\ UNCHANGED <<levelVars, submitted, begun, execution, askVars>>

OnConns == UNCHANGED <<levelVars, submitted, begun, execution, askVars, tickets, ticketCount>>

DialSucceeds(c) ==
  /\ conns[c].stage = "dialling"
  /\ conns' = [conns EXCEPT ![c].stage = "relaying"]
  /\ OnConns

(* The next candidate is tried while the deadline of them all has not      *)
(* passed.                                                                 *)
DialFails(c, timedOut) ==
  /\ conns[c].stage = "dialling"
  /\ conns' = IF timedOut \/ Len(conns[c].left) = 1
              THEN [conns EXCEPT ![c] = Rest]
              ELSE [conns EXCEPT ![c].left = Tail(@)]
  /\ OnConns

(* Client or upstream goes away and takes the other with it.               *)
Closes(c) ==
  /\ conns[c] # Rest
  /\ conns' = [conns EXCEPT ![c] = Rest]
  /\ OnConns

Next ==
  \/ \E networkAll \in BOOLEAN, granted \in Grants : Submit(networkAll, granted)
  \/ Begin \/ End \/ Abort \/ AdmitCall \/ SpawnChild \/ ReturnChild
  \/ \E a \in AskIds, t \in Targets : Ask(a, t)
  \/ ResolverAnswers
  \/ \E key \in lookups : LookupTimesOut(key)
  \/ \E a \in AskIds, allowed \in BOOLEAN : ReviewEnds(a, allowed)
  \/ \E t \in Targets : TicketExpires(t)
  \/ \E c \in Conns, t \in Targets : Connect(c, t)
  \/ \E c \in Conns : DialSucceeds(c) \/ Closes(c) \/ (\E timedOut \in BOOLEAN : DialFails(c, timedOut))

Spec == Init /\ [][Next]_vars

(* Timers fire, and a review ends: the reviewer's deadline, or the abort   *)
(* of its action, answers it.                                              *)
FairSpec ==
  /\ Spec
  /\ WF_vars(\E key \in lookups : LookupTimesOut(key))
  /\ \A a \in AskIds : WF_vars(\E allowed \in BOOLEAN : ReviewEnds(a, allowed))
  /\ \A c \in Conns : WF_vars(DialFails(c, TRUE))
-------------------------------------------------------------------------------
(* The count that caps the guard is the number of tickets it holds,        *)
(* however they were issued, expired, consumed or cleared (connect-guard.  *)
(* ts:335-394).                                                            *)
TicketsHeld == UNION {{t} \X DOMAIN tickets[t] : t \in Targets}
TicketCountExact == ticketCount = Cardinality(TicketsHeld) /\ ticketCount <= MaxTickets

Reaching(c) == conns[c] # Rest

(* Tickets and relays are capabilities of one execution and end with it,   *)
(* though asks, lookups and reviews of earlier executions are answered     *)
(* during later ones (connect-guard.ts:353-362, srt-enforcer.ts:257-265).  *)
NothingOutlivesItsExecution ==
  /\ \A t \in Targets : \A i \in DOMAIN tickets[t] : IsLatest(tickets[t][i].exec)
  /\ \A c \in Conns : Reaching(c) => IsLatest(conns[c].exec)

(* No ticket is issued for an execution that was told to stop.             *)
NoGrantAfterAbort ==
  [][\A t \in Targets :
       Len(tickets'[t]) > Len(tickets[t]) => Running /\ ~Latest.aborted]_vars

(* No capability is held, used or issued outside the execution it is for,  *)
(* or for one that was told to stop (connect-guard.ts:353-362,             *)
(* srt-enforcer.ts:257-265).                                               *)
GrantsBelongToTheRunning == []NothingOutlivesItsExecution /\ NoGrantAfterAbort

(* Whatever the guard dials, no turn down to the one that submitted the    *)
(* command denies its name, and the command's own policy admits the        *)
(* address, also when the lookup was begun for another command with more   *)
(* authority (network-boundary.ts:176-202, 268-297).                       *)
AddressAllowed(policy, target, address) ==
  \/ LocalAuthority(policy) \/ address \in Public
  \/ ~IsIP(target[1]) /\ address \in policy.fake
  \/ IsExactLocalAllowed(policy.allowed, target[1], target[2]) /\ address = target[1]

DialledIsAllowed ==
  \A c \in Conns : Reaching(c) =>
    LET target == conns[c].target
    IN /\ AddressAllowed(Latest.policy, target, conns[c].left[1])
       /\ \A i \in DOMAIN Latest.chain :
            ~SomeMatches(Latest.chain[i].policy.denied, target[1], target[2])

(* Every ask is answered and every dial ends.                              *)
RequestsEnd ==
  /\ \A a \in AskIds : asks[a] # Rest ~> asks[a] = Rest
  /\ \A c \in Conns : []<>(conns[c].stage # "dialling")
===============================================================================
