---------------------------- MODULE SrtManagerProofs ----------------------------
(***************************************************************************)
(* For any clients and policies: one operation at a time has the SRT       *)
(* runtime, no policy leaks from one into another, and a fault persists.   *)
(***************************************************************************)
EXTENDS SrtManager, TLAPS

(* A lease that is free has no holder, one that is taken has one at most.  *)
(* Nothing about the queue is needed: a drain of a free lease lets in one  *)
(* client, whatever the queue holds.                                       *)
AtWork == {"granted", "ending"} \cup Busy

Exclusive(places, held) ==
  /\ places \in [Client -> Places]
  /\ \A c, d \in Client : places[c] \in AtWork /\ places[d] \in AtWork => c = d
  /\ \A c \in Client : places[c] \in AtWork => held

OneHolder == active \in BOOLEAN /\ poisoned \in BOOLEAN /\ Exclusive(pc, active)

LEMMA PlacesDistinct ==
  /\ Stages = {"wiping", "init", "command", "undo-reset", "undo-failed", "undo-aborted"}
  /\ Busy = Stages /\ Busy \subseteq AtWork
  /\ Places = {"out", "queued"} \cup AtWork
  /\ {"out", "queued"} \cap AtWork = {} /\ {"granted", "ending"} \cap Busy = {}
  BY ManagerAssumption DEF Stages, Places, AtWork

(* What a drain does: it leaves a taken lease alone, and lets one client   *)
(* into a free one; whoever is at work stays there.                        *)
LEMMA DrainExclusive ==
  ASSUME NEW q, NEW held \in BOOLEAN, NEW fault, NEW places, Exclusive(places, held),
         Drain(q, held, fault, places)
  PROVE  /\ active' \in BOOLEAN /\ Exclusive(pc', active')
         /\ held => active' /\ pc' = places
         /\ ~held => \A c \in Client : pc'[c] \notin Busy \cup {"ending"}
  <1> DEFINE k == IF held THEN 0 ELSE Cardinality(UnwantedHead(q, fault))
             served == {i \in DOMAIN q : ~held /\ i = k + 1}
  <1>1. /\ active' = (held \/ served # {})
        /\ pc' = [c \in Client |->
             CASE \E i \in served : q[i] = c -> "granted"
               [] \E i \in 1..k : q[i] = c -> "out"
               [] OTHER -> places[c]]
    BY DEF Drain
  <1>2. CASE held
    <2>1. served = {} /\ 1..k = {}
      BY <1>2
    <2>2. active' = TRUE /\ \A c \in Client : pc'[c] = places[c]
      <3> HIDE DEF served, k
      <3> QED BY <1>1, <1>2, <2>1
    <2>3. pc' = places
      <3> HIDE DEF served, k
      <3> QED BY <1>1, <2>2 DEF Exclusive
    <2> QED BY <1>2, <2>2, <2>3 DEF Exclusive
  <1>3. CASE ~held
    <2>1. \A i, j \in served : i = j
      OBVIOUS
    <2> HIDE DEF served, k
    <2>2. \A c \in Client : pc'[c] \in {"granted", "out", places[c]}
      BY <1>1
    <2>3. \A c \in Client : places[c] \in Places /\ places[c] \notin AtWork
      BY <1>3 DEF Exclusive
    <2>4. \A c \in Client : pc'[c] = "granted" => \E i \in served : q[i] = c
      BY <1>1, <2>3, PlacesDistinct DEF AtWork
    <2>5. \A c, d \in Client : pc'[c] = "granted" /\ pc'[d] = "granted" => c = d
      BY <2>1, <2>4
    <2>6. pc' \in [Client -> Places]
      BY <1>1, <2>2, <2>3, PlacesDistinct DEF AtWork
    <2>7. \A c \in Client : pc'[c] \in AtWork => pc'[c] = "granted"
      BY <2>2, <2>3, PlacesDistinct
    <2>8. (\E c \in Client : pc'[c] = "granted") => active'
      BY <1>1, <2>4
    <2>9. active' \in BOOLEAN
      BY <1>1
    <2>10. Exclusive(pc', active')
      BY <2>5, <2>6, <2>7, <2>8 DEF Exclusive
    <2> QED BY <1>3, <2>7, <2>9, <2>10, PlacesDistinct DEF AtWork
  <1> QED BY <1>2, <1>3

(* Marking a fault sends waiters away and nobody else.                     *)
LEMMA RejectedExclusive ==
  ASSUME NEW places, NEW held \in BOOLEAN, Exclusive(places, held)
  PROVE  /\ Exclusive(Rejected(places), held)
         /\ \A c \in Client : places[c] \in AtWork \/ Rejected(places)[c] \in AtWork =>
              Rejected(places)[c] = places[c]
         /\ \A c \in Client : places[c] = "out" => Rejected(places)[c] = "out"
  <1> DEFINE kept == {KeepAllowed(queue)[i] : i \in DOMAIN KeepAllowed(queue)}
  <1>1. Rejected(places) = [c \in Client |-> IF places[c] = "queued" /\ c \notin kept
                                             THEN "out" ELSE places[c]]
    BY DEF Rejected
  <1> HIDE DEF kept
  <1>2. \A c \in Client : Rejected(places)[c] \in {"out", places[c]}
                          /\ (places[c] # "queued" => Rejected(places)[c] = places[c])
    BY <1>1
  <1>3. Rejected(places) \in [Client -> Places]
    BY <1>1, PlacesDistinct DEF Exclusive
  <1> QED BY <1>2, <1>3, PlacesDistinct DEF Exclusive

(* A stretch of the holder's operation: it goes where the operation says,  *)
(* and a fault turns away waiters only.                                    *)
LEMMA StretchMoves ==
  ASSUME OneHolder, NEW c \in Client, pc[c] \in AtWork,
         NEW to \in Busy \cup {"ending"}, NEW fault, Stretch(c, to, fault)
  PROVE  /\ OneHolder' /\ UNCHANGED <<active, drainingOwner, aborted>>
         /\ pc'[c] = to
         /\ \A d \in Client : d # c => pc[d] \notin AtWork /\ pc'[d] \notin AtWork
         /\ poisoned' = (fault = "mark" \/ (fault # "clear" /\ poisoned))
  <1> DEFINE places == [pc EXCEPT ![c] = to]
  <1>1. /\ poisoned' = (fault = "mark" \/ (fault # "clear" /\ poisoned))
        /\ pc' = IF fault = "mark" THEN Rejected(places) ELSE places
        /\ UNCHANGED <<active, drainingOwner, aborted>>
    BY DEF Stretch, OneHolder
  <1>2. /\ active = TRUE /\ to \in AtWork
        /\ \A d \in Client : d # c => pc[d] \notin AtWork /\ places[d] \notin AtWork
        /\ places[c] = to
    BY PlacesDistinct DEF OneHolder, Exclusive, AtWork
  <1>3. Exclusive(places, active)
    BY <1>2, PlacesDistinct DEF OneHolder, Exclusive
  <1> HIDE DEF places
  <1>4. /\ Exclusive(pc', active) /\ pc'[c] = to
        /\ \A d \in Client : d # c => pc'[d] \notin AtWork
    BY <1>1, <1>2, <1>3, RejectedExclusive
  <1> QED BY <1>1, <1>2, <1>4 DEF OneHolder

(* The steps that take no operation on: nobody starts or ends one, except  *)
(* who leaves the lease.                                                   *)
SameWork ==
  \A c \in Client : pc[c] \in Busy \cup {"ending"} \/ pc'[c] \in Busy \cup {"ending"} =>
                      pc'[c] = pc[c]

LEMMA AskMoves ==
  ASSUME OneHolder, NEW c \in Client, Acquire(c)
  PROVE  OneHolder' /\ SameWork /\ UNCHANGED <<poisoned, drainingOwner, aborted>>
  <1> DEFINE places == [pc EXCEPT ![c] = "queued"]
  <1>1. /\ pc[c] = "out" /\ Drain(Append(queue, c), active, poisoned, places)
        /\ UNCHANGED <<poisoned, drainingOwner, aborted>>
    BY DEF Acquire
  <1>2. \A d \in Client : IF d = c THEN places[d] = "queued" ELSE places[d] = pc[d]
    BY DEF OneHolder, Exclusive
  <1>3. Exclusive(places, active)
    BY <1>2, PlacesDistinct DEF OneHolder, Exclusive
  <1> HIDE DEF places
  <1>4. /\ active' \in BOOLEAN /\ Exclusive(pc', active')
        /\ active => pc' = places
        /\ ~active => \A d \in Client : pc'[d] \notin Busy \cup {"ending"}
    BY <1>1, <1>3, DrainExclusive DEF OneHolder
  <1>5. \A d \in Client : pc[d] \in Busy \cup {"ending"} => active
    BY PlacesDistinct DEF OneHolder, Exclusive, AtWork
  <1>6. ASSUME NEW d \in Client,
               pc[d] \in Busy \cup {"ending"} \/ pc'[d] \in Busy \cup {"ending"}
        PROVE  pc'[d] = pc[d]
    <2>1. pc' = places
      BY <1>4, <1>5, <1>6
    <2> QED BY <1>1, <1>2, <1>6, <2>1, PlacesDistinct DEF AtWork
  <1>7. OneHolder'
    BY <1>1, <1>4 DEF OneHolder
  <1> QED BY <1>1, <1>6, <1>7 DEF SameWork

LEMMA CancelMoves ==
  ASSUME OneHolder, NEW S \in SUBSET Client, Cancel(S)
  PROVE  /\ OneHolder' /\ SameWork /\ UNCHANGED poisoned
         /\ aborted' = aborted \cup {c \in S : Holder(c)}
         /\ \/ drainingOwner' = drainingOwner
            \/ drainingOwner' \in S /\ pc[drainingOwner'] \in Busy \cup {"ending"}
  <1> DEFINE places == [c \in Client |-> IF c \in S /\ pc[c] = "queued" THEN "out" ELSE pc[c]]
  <1>1. /\ Drain(Leaving(queue, S), active, poisoned, places) /\ UNCHANGED poisoned
        /\ aborted' = aborted \cup {c \in S : Holder(c)}
        /\ drainingOwner' = IF \E c \in S : pc[c] \in Busy \cup {"ending"}
                            THEN CHOOSE c \in S : pc[c] \in Busy \cup {"ending"}
                            ELSE drainingOwner
    BY DEF Cancel, StillHeld
  <1>2. \A c \in Client : IF c \in S /\ pc[c] = "queued" THEN places[c] = "out"
                          ELSE places[c] = pc[c]
    OBVIOUS
  <1>3. Exclusive(places, active)
    BY <1>2, PlacesDistinct DEF OneHolder, Exclusive
  <1> HIDE DEF places
  <1>4. /\ active' \in BOOLEAN /\ Exclusive(pc', active')
        /\ active => pc' = places
        /\ ~active => \A d \in Client : pc'[d] \notin Busy \cup {"ending"}
    BY <1>1, <1>3, DrainExclusive DEF OneHolder
  <1>5. \A d \in Client : pc[d] \in Busy \cup {"ending"} => active
    BY PlacesDistinct DEF OneHolder, Exclusive, AtWork
  <1>6. ASSUME NEW d \in Client,
               pc[d] \in Busy \cup {"ending"} \/ pc'[d] \in Busy \cup {"ending"}
        PROVE  pc'[d] = pc[d]
    <2>1. pc' = places
      BY <1>4, <1>5, <1>6
    <2> QED BY <1>2, <1>6, <2>1, PlacesDistinct DEF AtWork
  <1>7. OneHolder'
    BY <1>1, <1>4 DEF OneHolder
  <1> QED BY <1>1, <1>6, <1>7 DEF SameWork

(* Whoever leaves the lease is its one holder.                             *)
LEMMA LeaveMoves ==
  ASSUME OneHolder, NEW c \in Client, GiveBack(c) \/ Release(c)
  PROVE  /\ OneHolder' /\ UNCHANGED poisoned /\ aborted' = aborted \ {c}
         /\ \A d \in Client : pc[d] \notin Busy /\ pc'[d] \notin Busy \cup {"ending"}
         /\ \A d \in Client : d # c => pc[d] # "ending"
         /\ drainingOwner' \in {drainingOwner, NoOwner}
         /\ pc[c] = "ending" => drainingOwner' # c
  <1> DEFINE places == [pc EXCEPT ![c] = "out"]
  <1>1. /\ pc[c] \in {"granted", "ending"} /\ Drain(queue, FALSE, poisoned, places)
        /\ UNCHANGED poisoned /\ aborted' = aborted \ {c}
        /\ pc[c] = "granted" => drainingOwner' = drainingOwner
        /\ pc[c] = "ending" => drainingOwner' = IF drainingOwner = c THEN NoOwner
                                                 ELSE drainingOwner
    BY DEF GiveBack, Release, Return
  <1>2. /\ \A d \in Client : d # c => pc[d] \notin AtWork /\ places[d] = pc[d]
        /\ places[c] = "out"
    BY <1>1, PlacesDistinct DEF OneHolder, Exclusive, AtWork
  <1>3. Exclusive(places, FALSE)
    BY <1>2, PlacesDistinct DEF OneHolder, Exclusive
  <1> HIDE DEF places
  <1>4. /\ active' \in BOOLEAN /\ Exclusive(pc', active')
        /\ \A d \in Client : pc'[d] \notin Busy \cup {"ending"}
    BY <1>1, <1>3, DrainExclusive
  <1>5. NoOwner # c
    BY CoordinatorAssumption
  <1> QED BY <1>1, <1>2, <1>4, <1>5, PlacesDistinct DEF OneHolder, AtWork
-------------------------------------------------------------------------------
(* Whose cancelled operation drains has the lease, and its signal has      *)
(* fired: the timer that leaves a fault leaves it under that operation.    *)
Draining ==
  drainingOwner # NoOwner =>
    drainingOwner \in Client \cap aborted /\ pc[drainingOwner] \in Busy \cup {"ending"}

(* So an execution that initializes under a fault has lost its caller, and *)
(* will not go on to its child; only activations and resets wipe.          *)
FaultsAreHeard ==
  \A c \in Client : /\ pc[c] = "init" /\ Kind[c] # "activate" /\ poisoned => c \in aborted
                    /\ pc[c] = "wiping" => AllowPoisoned(c)

Inv == OneHolder /\ Draining /\ FaultsAreHeard /\ PoliciesNeverLeak

(* The body of FaultsPersist. *)
FaultPersists ==
  /\ poisoned /\ ~poisoned' =>
       \E c \in Client : Kind[c] = "activate" /\ pc[c] = "init" /\ c \notin aborted
  /\ \A c \in Client : pc[c] # "command" /\ pc'[c] = "command" => ~poisoned

(* What a stretch owes the policies and the fault, by where it goes.       *)
Legal(c, to, fault) ==
  /\ pc[c] \in AtWork /\ to \in Busy \cup {"ending"}
  /\ to = "command" => ~poisoned /\ config' = PolicyOf[c]
  /\ to = "ending" /\ ~poisoned' => config' = basePolicy'
  /\ to = "init" /\ Kind[c] # "activate" => ~poisoned'
  /\ to = "wiping" => AllowPoisoned(c)
  /\ fault = "clear" => Kind[c] = "activate" /\ pc[c] = "init" /\ c \notin aborted

LEMMA StretchKeeps ==
  ASSUME Inv, NEW c \in Client, NEW to, NEW fault, Stretch(c, to, fault), Legal(c, to, fault)
  PROVE  Inv' /\ FaultPersists
  <1>1. /\ OneHolder' /\ UNCHANGED <<drainingOwner, aborted>>
        /\ pc'[c] = to
        /\ \A d \in Client : d # c => pc[d] \notin AtWork /\ pc'[d] \notin AtWork
        /\ poisoned' = (fault = "mark" \/ (fault # "clear" /\ poisoned))
    BY StretchMoves DEF Inv, Legal
  <1>2. Draining'
    BY <1>1, PlacesDistinct DEF Inv, Draining, Legal, AtWork
  <1>3. FaultsAreHeard'
    BY <1>1, PlacesDistinct DEF Legal, FaultsAreHeard, AllowPoisoned, AtWork
  <1>4. CommandsKeepTheirPolicy'
    BY <1>1, PlacesDistinct DEF Legal, CommandsKeepTheirPolicy, AtWork
  <1>5. RuntimeLeftClean'
    BY <1>1, PlacesDistinct DEF Legal, RuntimeLeftClean, AtWork
  <1>6. poisoned /\ ~poisoned' => fault = "clear"
    BY <1>1 DEF Inv, OneHolder
  <1>7. FaultPersists
    BY <1>1, <1>6, PlacesDistinct DEF Legal, FaultPersists, AtWork
  <1> QED BY <1>1, <1>2, <1>3, <1>4, <1>5, <1>7 DEF Inv, PoliciesNeverLeak

(* Each stretch of an operation pays what it owes.                         *)
LEMMA OperationIsLegal ==
  ASSUME Inv, NEW c \in Client, Operate(c), ~LeaveLease(c)
  PROVE  \E to, fault : Stretch(c, to, fault) /\ Legal(c, to, fault)
  <1> USE PlacesDistinct
  <1>1. \A d \in Client : pc[d] \in AtWork /\ pc[c] \in AtWork => d = c
    BY DEF Inv, OneHolder, Exclusive
  <1>2. \A to, fault : Stretch(c, to, fault) =>
          (~poisoned' => fault # "mark" /\ (poisoned => fault = "clear"))
    BY DEF Stretch, Inv, OneHolder
  <1>3. pc[c] = "granted" /\ ~poisoned => config = basePolicy
    BY <1>1 DEF Inv, PoliciesNeverLeak, RuntimeLeftClean, AtWork
  <1>4. CASE StartWipe(c)
    BY <1>4 DEF StartWipe, Begin, Legal, AtWork
  <1>5. CASE StartWait(c)
    BY <1>2, <1>3, <1>5 DEF StartWait, Begin, Legal, AtWork
  <1>6. CASE StartInit(c)
    <2>1. ~poisoned'
      BY <1>6 DEF StartInit, Begin, Stretch
    <2> QED BY <1>6, <2>1 DEF StartInit, Begin, Legal, AtWork
  <1>7. CASE StartCommand(c)
    BY <1>7 DEF StartCommand, Begin, Legal, AtWork
  <1>8. CASE InitFails(c)
    BY <1>8 DEF InitFails, Continue, Legal, AtWork
  <1>9. ASSUME NEW bad \in BOOLEAN, StartRefused(c, bad)
        PROVE  \E to, fault : Stretch(c, to, fault) /\ Legal(c, to, fault)
    BY <1>2, <1>3, <1>9 DEF StartRefused, Begin, Legal, AtWork, Poisoned
  <1>10. ASSUME NEW bad \in BOOLEAN, Initialized(c, bad)
         PROVE  \E to, fault : Stretch(c, to, fault) /\ Legal(c, to, fault)
    <2>1. c \notin aborted /\ basePolicy' = PolicyOf[c] /\ config' = PolicyOf[c]
      BY <1>10 DEF Initialized, Abandoned
    <2>2. CASE Kind[c] = "activate"
      BY <1>10, <2>1, <2>2 DEF Initialized, Continue, Legal, AtWork
    <2>3. CASE Kind[c] # "activate"
      <3>1. pc[c] = "init" => ~poisoned
        BY <2>1, <2>3 DEF Inv, FaultsAreHeard
      <3>2. CASE Continue(c, "init", "command", "none")
        BY <2>1, <3>1, <3>2 DEF Continue, Legal, AtWork
      <3>3. CASE Continue(c, "init", "ending", Poisoned(bad))
        BY <2>1, <3>3 DEF Continue, Legal, AtWork, Poisoned
      <3> QED BY <1>10, <2>3, <3>2, <3>3 DEF Initialized
    <2> QED BY <2>2, <2>3
  <1>11. ASSUME NEW ok \in BOOLEAN, WipeEnds(c, ok)
         PROVE  \E to, fault : Stretch(c, to, fault) /\ Legal(c, to, fault)
    <2>1. CASE Kind[c] = "reset"
      BY <1>2, <1>11, <2>1 DEF WipeEnds, Continue, Legal, AtWork, Poisoned
    <2>2. CASE Kind[c] # "reset"
      <3> DEFINE to == CASE ~ok -> "undo-reset" [] ok /\ c \in aborted -> "undo-aborted"
                         [] OTHER -> "init"
      <3>1. to \in Busy \ {"command", "wiping"}
        OBVIOUS
      <3>2. pc[c] = "wiping" /\ Stretch(c, to, "none")
        BY <1>11, <2>2 DEF WipeEnds, Continue
      <3>3. Kind[c] = "activate"
        BY <2>2, <3>2 DEF Inv, FaultsAreHeard, AllowPoisoned
      <3> HIDE DEF to
      <3> QED BY <3>1, <3>2, <3>3 DEF Legal, AtWork
    <2> QED BY <2>1, <2>2
  <1>12. ASSUME NEW from \in Stages, NEW ok \in BOOLEAN, NEW bad \in BOOLEAN,
                UndoEnds(c, from, ok, bad)
         PROVE  \E to, fault : Stretch(c, to, fault) /\ Legal(c, to, fault)
    BY <1>2, <1>12 DEF UndoEnds, Continue, Legal, AtWork, Poisoned
  <1>13. ASSUME NEW cleaned \in BOOLEAN, NEW ok \in BOOLEAN, NEW bad \in BOOLEAN,
                CommandEnds(c, cleaned, ok, bad)
         PROVE  \E to, fault : Stretch(c, to, fault) /\ Legal(c, to, fault)
    <2>1. pc[c] = "command" => config = PolicyOf[c]
      BY DEF Inv, PoliciesNeverLeak, CommandsKeepTheirPolicy
    <2> QED BY <1>2, <1>13, <2>1 DEF CommandEnds, RestoredConfig, Continue, Legal, AtWork, Poisoned
  <1> QED BY <1>4, <1>5, <1>6, <1>7, <1>8, <1>9, <1>10, <1>11, <1>12, <1>13 DEF Operate

LEMMA StepKeeps == Inv /\ [Next]_vars => Inv' /\ FaultPersists
  <1> USE PlacesDistinct
  <1> SUFFICES ASSUME Inv, [Next]_vars PROVE Inv' /\ FaultPersists
    OBVIOUS
  <1>1. ASSUME OneHolder', SameWork, UNCHANGED <<poisoned, config>>, Draining',
               basePolicy' = basePolicy \/ \E c \in Client : pc[c] \in Busy,
               aborted \subseteq aborted'
        PROVE  Inv' /\ FaultPersists
    <2>1. FaultsAreHeard'
      BY <1>1 DEF Inv, FaultsAreHeard, SameWork, AllowPoisoned
    <2>2. CommandsKeepTheirPolicy'
      BY <1>1 DEF Inv, PoliciesNeverLeak, CommandsKeepTheirPolicy, SameWork
    <2>3. RuntimeLeftClean'
      BY <1>1 DEF Inv, PoliciesNeverLeak, RuntimeLeftClean, SameWork
    <2>4. FaultPersists
      BY <1>1 DEF FaultPersists, SameWork
    <2> QED BY <1>1, <2>1, <2>2, <2>3, <2>4 DEF Inv, PoliciesNeverLeak
  <1>2. ASSUME NEW c \in Client, Ask(c)
        PROVE  Inv' /\ FaultPersists
    <2>1. OneHolder' /\ SameWork /\ UNCHANGED <<poisoned, drainingOwner, aborted>>
      BY <1>2, AskMoves DEF Inv, Ask
    <2>2. Draining'
      BY <2>1 DEF Inv, Draining, SameWork
    <2> QED BY <1>1, <1>2, <2>1, <2>2 DEF Ask
  <1>3. ASSUME NEW S \in SUBSET Client, AbortCalls(S)
        PROVE  Inv' /\ FaultPersists
    <2>1. /\ OneHolder' /\ SameWork /\ UNCHANGED poisoned
          /\ aborted' = aborted \cup {c \in S : Holder(c)}
          /\ \/ drainingOwner' = drainingOwner
             \/ drainingOwner' \in S /\ pc[drainingOwner'] \in Busy \cup {"ending"}
      BY <1>3, CancelMoves DEF Inv, AbortCalls
    <2>2. Draining'
      <3>1. CASE drainingOwner' = drainingOwner
        BY <2>1, <3>1 DEF Inv, Draining, SameWork
      <3>2. CASE drainingOwner' \in S /\ pc[drainingOwner'] \in Busy \cup {"ending"}
        BY <2>1, <3>2 DEF Draining, SameWork, Holder
      <3> QED BY <2>1, <3>1, <3>2
    <2> QED BY <1>1, <1>3, <2>1, <2>2 DEF AbortCalls
  <1>4. ASSUME NEW c \in Client, LeaveLease(c)
        PROVE  Inv' /\ FaultPersists
    <2>1. /\ OneHolder' /\ UNCHANGED poisoned /\ aborted' = aborted \ {c}
          /\ \A d \in Client : pc[d] \notin Busy /\ pc'[d] \notin Busy \cup {"ending"}
          /\ \A d \in Client : d # c => pc[d] # "ending"
          /\ drainingOwner' \in {drainingOwner, NoOwner}
          /\ pc[c] = "ending" => drainingOwner' # c
      BY <1>4, LeaveMoves DEF Inv, LeaveLease
    <2>2. UNCHANGED <<basePolicy, config>>
      BY <1>4 DEF LeaveLease
    <2>3. Draining'
      BY <2>1 DEF Inv, Draining
    <2>4. FaultsAreHeard' /\ FaultPersists
      BY <2>1 DEF FaultsAreHeard, FaultPersists
    <2>5. PoliciesNeverLeak'
      BY <2>1, <2>2 DEF Inv, PoliciesNeverLeak, CommandsKeepTheirPolicy, RuntimeLeftClean
    <2> QED BY <2>1, <2>3, <2>4, <2>5 DEF Inv
  <1>5. ASSUME NEW c \in Client, Operate(c)
        PROVE  Inv' /\ FaultPersists
    BY <1>4, <1>5, OperationIsLegal, StretchKeeps
  <1>6. CASE DrainFault
    <2>1. /\ drainingOwner # NoOwner /\ poisoned' = TRUE /\ pc' = Rejected(pc)
          /\ UNCHANGED <<active, drainingOwner, aborted, basePolicy, config>>
      BY <1>6 DEF DrainFault, DrainTimeout
    <2>2. /\ Exclusive(pc', active)
          /\ \A c \in Client : pc[c] \in AtWork \/ pc'[c] \in AtWork => pc'[c] = pc[c]
      BY <2>1, RejectedExclusive DEF Inv, OneHolder
    <2>3. OneHolder'
      BY <2>1, <2>2 DEF Inv, OneHolder
    <2>4. \A c \in Client : pc[c] \in AtWork => c \in aborted
      BY <2>1 DEF Inv, Draining, OneHolder, Exclusive, AtWork
    <2>5. Draining' /\ FaultsAreHeard'
      BY <2>1, <2>2, <2>4 DEF Inv, Draining, FaultsAreHeard, AllowPoisoned, AtWork
    <2>6. PoliciesNeverLeak'
      BY <2>1, <2>2 DEF Inv, PoliciesNeverLeak, CommandsKeepTheirPolicy, RuntimeLeftClean, AtWork
    <2>7. FaultPersists
      BY <2>1, <2>2 DEF FaultPersists, AtWork
    <2> QED BY <2>3, <2>5, <2>6, <2>7 DEF Inv
  <1>7. CASE UNCHANGED vars
    <2>1. /\ UNCHANGED <<pc, poisoned, active, drainingOwner, aborted, basePolicy, config>>
      BY <1>7 DEF vars, lockVars
    <2>2. OneHolder' /\ Draining'
      BY <2>1 DEF Inv, OneHolder, Draining
    <2> QED BY <1>1, <2>1, <2>2 DEF SameWork
  <1> QED BY <1>2, <1>3, <1>5, <1>6, <1>7 DEF Next

LEMMA InitKeeps == Init => Inv
  <1> SUFFICES ASSUME Init PROVE Inv
    OBVIOUS
  <1>1. /\ active = FALSE /\ poisoned = FALSE /\ drainingOwner = NoOwner
        /\ basePolicy = config
        /\ pc = [c \in Client |-> "out"]
    BY DEF Init, LockInit
  <1>2. OneHolder
    BY <1>1, PlacesDistinct DEF OneHolder, Exclusive
  <1> QED BY <1>1, <1>2, PlacesDistinct
          DEF Inv, Draining, FaultsAreHeard, PoliciesNeverLeak, CommandsKeepTheirPolicy,
              RuntimeLeftClean, AtWork

LEMMA InvAlways == Spec => []Inv
  BY InitKeeps, StepKeeps, PTL DEF Spec

(* For any clients and policies, a command runs to its end under its own   *)
(* policy, and the runtime is found with the base policy or wiped unless a *)
(* fault says otherwise (srt-enforcer.ts:713-731).                         *)
THEOREM PoliciesNeverEverLeak == Spec => []PoliciesNeverLeak
  <1>1. Inv => PoliciesNeverLeak
    BY DEF Inv
  <1> QED BY <1>1, InvAlways, PTL

(* No step but the success of an activation that is still waited for       *)
(* clears a fault, and no command starts under one (srt-enforcer.ts:565).  *)
THEOREM FaultsAlwaysPersist == Spec => FaultsPersist
  <1>1. Inv /\ [Next]_vars => [FaultPersists]_vars
    BY StepKeeps
  <1>2. Spec => [][FaultPersists]_vars
    BY <1>1, InvAlways, PTL DEF Spec
  <1> QED BY <1>2 DEF FaultsPersist, FaultPersists
===============================================================================
