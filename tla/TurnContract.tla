----------------------------- MODULE TurnContract -----------------------------
(***************************************************************************)
(* What the Engine promises its callers, without how: executors run under  *)
(* the turn that was live when they were entered, ending a turn tells all  *)
(* of them to stop, and turn-wide authority is only won by an executor     *)
(* that finished untold in the turn it widens.                             *)
(***************************************************************************)
EXTENDS Integers

CONSTANTS CallId, Grantable, MaxEpoch

VARIABLES
  epoch,    \* turns and invalidations so far
  live,     \* a turn is open in this epoch
  phase,    \* of each call: "out", "in" an executor, "won" its result
  under,    \* the epoch a call that is not out entered in
  told,     \* calls whose executor has been told to stop
  granted   \* turn-wide authority of the live turn

cvars == <<epoch, live, phase, under, told, granted>>

Inside == {c \in CallId : phase[c] = "in"}

Init == /\ epoch = 0 /\ live = FALSE
        /\ phase = [c \in CallId |-> "out"] /\ under = [c \in CallId |-> 0]
        /\ told = {} /\ granted = {}

(* A turn ends, by being closed, replaced or invalidated; a next one may open. *)
Turnover ==
  /\ \/ live' = FALSE /\ epoch' \in {epoch, epoch + 1}
     \/ live' = TRUE /\ epoch' = epoch + 1
  /\ epoch' <= MaxEpoch
  /\ told' = Inside
  /\ granted' = {}
  /\ UNCHANGED <<phase, under>>

Enter(c) == /\ live /\ phase[c] = "out"
            /\ phase' = [phase EXCEPT ![c] = "in"]
            /\ under' = [under EXCEPT ![c] = epoch]
            /\ UNCHANGED <<epoch, live, told, granted>>

Tell(c) == /\ phase[c] = "in"
           /\ told' = told \cup {c}
           /\ UNCHANGED <<epoch, live, phase, under, granted>>

Leave(c) == /\ phase[c] # "out"
            /\ phase' = [phase EXCEPT ![c] = "out"]
            /\ under' = [under EXCEPT ![c] = 0]
            /\ told' = told \ {c}
            /\ UNCHANGED <<epoch, live, granted>>

Win(c) == /\ phase[c] = "in" /\ c \notin told /\ live /\ under[c] = epoch
          /\ phase' = [phase EXCEPT ![c] = "won"]
          /\ UNCHANGED <<epoch, live, under, told, granted>>

(* A won result is turned into authority if its turn is still the live one. *)
Widen(c, caps) ==
  /\ phase[c] = "won"
  /\ granted' = IF live /\ under[c] = epoch THEN granted \cup caps ELSE granted
  /\ phase' = [phase EXCEPT ![c] = "out"]
  /\ under' = [under EXCEPT ![c] = 0]
  /\ UNCHANGED <<epoch, live, told>>

Next == \/ Turnover
        \/ \E c \in CallId :
             \/ Enter(c) \/ Tell(c) \/ Leave(c) \/ Win(c)
             \/ \E caps \in SUBSET Grantable : Widen(c, caps)

Spec == Init /\ [][Next]_cvars
-------------------------------------------------------------------------------
(* No executor works for a turn that is over without having been told, and *)
(* authority never outlives the turn that won it: what engine.ts:593-619   *)
(* and 1909-1928 promise the host, whatever order the calls come in.       *)
OnlyTheLiveTurnActs ==
  /\ \A c \in CallId : phase[c] = "in" /\ c \notin told => live /\ under[c] = epoch
  /\ granted # {} => live
-------------------------------------------------------------------------------
(* The values a step relies on, with what OnlyTheLiveTurnActs leaves open: *)
(* whoever is told is inside, and what is won is only widened by its turn. *)
ContractInv ==
  /\ live \in BOOLEAN
  /\ told \subseteq Inside
  /\ phase \in [CallId -> {"out", "in", "won"}]
  /\ DOMAIN under = CallId /\ under = [c \in CallId |-> under[c]]
  /\ OnlyTheLiveTurnActs
===============================================================================
