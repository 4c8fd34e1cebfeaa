----------------------------- MODULE EngineProofs -----------------------------
(***************************************************************************)
(* Theorems about the Permission Engine, for any number of calls, turns,   *)
(* policies and requests: its invariants, and that it implements           *)
(* TurnContract.                                                           *)
(***************************************************************************)
EXTENDS Engine, FiniteSetTheorems, TLAPS

(* The denial circuit's operations, for any thresholds.                    *)

(* The window stays within its bound whatever is pushed onto it            *)
(* (recordWindow, denial-circuit.ts:58-63).                                *)
LEMMA PushWindowType ==
  ASSUME NEW w \in Windows, NEW denied \in BOOLEAN
  PROVE  PushWindow(w, denied) \in Windows
  <1>1. PICK n \in 0..WindowSize : w \in [1..n -> BOOLEAN]
    BY DEF Windows
  <1>2. Len(w) = n
    BY <1>1, CircuitAssumption
  <1>3. CASE n < WindowSize
    <2>1. PushWindow(w, denied) \in [1..(n + 1) -> BOOLEAN]
      BY <1>1, <1>2, <1>3, CircuitAssumption DEF PushWindow
    <2> QED BY <2>1, <1>3, CircuitAssumption DEF Windows
  <1>4. CASE n = WindowSize
    <2>1. PushWindow(w, denied) \in [1..WindowSize -> BOOLEAN]
      BY <1>1, <1>2, <1>4, CircuitAssumption DEF PushWindow
    <2> QED BY <2>1, CircuitAssumption DEF Windows
  <1> QED BY <1>3, <1>4, CircuitAssumption

(* Every operation of the circuit yields a circuit. *)
LEMMA CircuitType ==
  ASSUME NEW k \in Circuit
  PROVE  FreshCircuit \in Circuit /\ RecordDenial(k) \in Circuit
           /\ RecordSuccess(k) \in Circuit
  <1>1. <<>> \in [1..0 -> BOOLEAN]
    OBVIOUS
  <1>2. <<>> \in Windows
    BY <1>1, CircuitAssumption DEF Windows
  <1>3. k.window \in Windows /\ k.run \in Nat /\ k.open \in BOOLEAN
    BY DEF Circuit
  <1>4. PushWindow(k.window, TRUE) \in Windows /\ PushWindow(k.window, FALSE) \in Windows
    BY <1>3, PushWindowType
  <1>5. FreshCircuit \in Circuit
    BY <1>2 DEF FreshCircuit, Circuit
  <1>6. RecordSuccess(k) \in Circuit
    BY <1>4 DEF RecordSuccess, Circuit
  <1>7. RecordDenial(k) \in Circuit
    <2> DEFINE w == PushWindow(k.window, TRUE)
               opened == k.open \/ Trips(w, k.run + 1)
    <2>1. opened \in BOOLEAN
      BY <1>3, Zenon DEF Trips
    <2>2. RecordDenial(k) = [window |-> w, run |-> k.run + 1, open |-> opened]
      BY Zenon DEF RecordDenial
    <2>3. w \in Windows
      BY <1>4
    <2>4. k.run + 1 \in Nat
      BY <1>3
    <2> HIDE DEF w, opened
    <2> QED BY <2>1, <2>2, <2>3, <2>4 DEF Circuit
  <1> QED BY <1>5, <1>6, <1>7

(* While the circuit is closed, the run of denials is short of its threshold. *)
ClosedIsShort(k) == ~k.open => k.run < MaxConsecutive

(* The gate is never behind the counters: a fresh circuit, a denial and a  *)
(* success all leave a closed circuit short of its threshold, and a denial *)
(* never closes an open one (denial-circuit.ts:66-85).                     *)
LEMMA ClosedStaysShort ==
  ASSUME NEW k \in Circuit
  PROVE  /\ ClosedIsShort(FreshCircuit)
         /\ ClosedIsShort(RecordDenial(k))
         /\ ClosedIsShort(RecordSuccess(k))
         /\ RecordDenial(k).run = k.run + 1
         /\ RecordSuccess(k).run = 0
         /\ k.open => RecordDenial(k).open
  <1> DEFINE w == PushWindow(k.window, TRUE)
             opened == k.open \/ Trips(w, k.run + 1)
  <1>1. RecordDenial(k) = [window |-> w, run |-> k.run + 1, open |-> opened]
    BY Zenon DEF RecordDenial
  <1>2. k.run \in Nat /\ k.run + 1 \in Nat
    BY DEF Circuit
  <1>3. k.run + 1 >= MaxConsecutive => opened
    BY Zenon DEF Trips
  <1>4. ~(k.run + 1 >= MaxConsecutive) => k.run + 1 < MaxConsecutive
    BY <1>2, CircuitAssumption
  <1>5. k.open => opened
    OBVIOUS
  <1> HIDE DEF w, opened
  <1>6. /\ RecordDenial(k).run = k.run + 1
        /\ RecordDenial(k).open = opened
    BY <1>1
  <1>7. ClosedIsShort(RecordDenial(k))
    BY <1>3, <1>4, <1>6, Zenon DEF ClosedIsShort
  <1>8. ClosedIsShort(FreshCircuit) /\ ClosedIsShort(RecordSuccess(k))
    BY CircuitAssumption DEF ClosedIsShort, FreshCircuit, RecordSuccess
  <1> QED BY <1>5, <1>6, <1>7, <1>8 DEF RecordSuccess
-------------------------------------------------------------------------------
(* Every call in flight belongs to a turn that was begun, and an active    *)
(* turn has been begun: what lets a call read its turn's snapshot.         *)
HomesBegun ==
  /\ active => generation \in Generations
  /\ \A c \in CallId : call[c].pc # "idle" => call[c].home \in Generations

Typed == TypeOK /\ HomesBegun

(* The resting record of a call id is a call. *)
LEMMA IdleType == Idle \in Call
  <1>1. (CHOOSE r \in Requests : TRUE) \in Requests
    BY EngineAssumption
  <1> QED BY <1>1, EngineAssumption DEF Idle, Call, NoLease, Lease

(* Whatever is asked, the lease a turn yields is a lease. *)
LEMMA LeaseType ==
  ASSUME TypeOK, NEW g \in Generations, NEW owner, NEW asked
  PROVE  LeaseWith(g, owner, asked) \in Lease
  <1>1. snapshot[g] \in Snapshot /\ authority[g] \subseteq Enforceable
    BY DEF TypeOK
  <1>2. snapshot[g].policy \in Policy
    BY <1>1, EngineAssumption DEF Snapshot
  <1> QED BY <1>1, <1>2 DEF LeaseWith, NoLease, Lease, Policy

(* Entering an executor and starting a review keep the calls well typed.   *)
LEMMA LaunchType ==
  ASSUME TypeOK, NEW c \in CallId, NEW lease \in Lease,
         NEW route \in {"none", "bare", "direct", "reviewed", "amend", "retry"}
  PROVE  Launch(c, route, lease) \in [CallId -> Call]
  <1>1. call \in [CallId -> Call] /\ call[c] \in Call
    BY DEF TypeOK
  <1>2. Return(c) \in [CallId -> Call]
    BY <1>1, IdleType DEF Return
  <1>3. [call[c] EXCEPT !.pc = "running", !.route = route, !.stop = "none",
                        !.lease = lease] \in Call
    BY <1>1 DEF Call
  <1> QED BY <1>1, <1>2, <1>3 DEF Launch

(* So does asking for a review. *)
LEMMA ReviewType ==
  ASSUME TypeOK, NEW c \in CallId, NEW route \in {"reviewed", "amend", "retry"}
  PROVE  Review(c, route) \in [CallId -> Call]
  <1>1. call \in [CallId -> Call] /\ call[c] \in Call
    BY DEF TypeOK
  <1>2. Return(c) \in [CallId -> Call]
    BY <1>1, IdleType DEF Return
  <1>3. [call[c] EXCEPT !.pc = "verdict", !.route = route, !.approve = TRUE,
                        !.own = Scope(c, route)] \in Call
    <2>1. Scope(c, route) \subseteq Capability
      BY <1>1 DEF Scope, Call, Capability, Enforceable
    <2> QED BY <1>1, <2>1 DEF Call
  <1>4. [call[c] EXCEPT !.pc = "review", !.route = route, !.stop = "none"] \in Call
    BY <1>1 DEF Call
  <1> QED BY <1>1, <1>2, <1>3, <1>4 DEF Review

(* What a step of one call may do to the records of the calls. *)
CallMoves(c) ==
  /\ call' \in [CallId -> Call]
  /\ \A d \in CallId : d # c => call'[d] = call[d]
  /\ call'[c].pc # "idle" => call[c].pc # "idle" /\ call'[c].home = call[c].home

(* A call that returns is idle, and no other call moves. *)
LEMMA ReturnMoves ==
  ASSUME TypeOK, NEW c \in CallId, call' = Return(c)
  PROVE  CallMoves(c)
  BY IdleType DEF TypeOK, Return, CallMoves, Idle

(* Entering an executor leaves the call in its turn, or ends it. *)
LEMMA LaunchMoves ==
  ASSUME TypeOK, NEW c \in CallId, NEW lease \in Lease, call[c].pc # "idle",
         NEW route \in {"none", "bare", "direct", "reviewed", "amend", "retry"},
         call' = Launch(c, route, lease)
  PROVE  CallMoves(c)
  <1>1. call' \in [CallId -> Call]
    BY LaunchType
  <1>2. call \in [CallId -> Call]
    BY DEF TypeOK
  <1> QED BY <1>1, <1>2 DEF Launch, Return, CallMoves, Idle, Call

(* Parking a call at another await leaves it in its turn. *)
LEMMA ParkMoves ==
  ASSUME TypeOK, NEW c \in CallId, NEW pc \in {"scope", "reconfirm"},
         call[c].pc # "idle", call' = Park(c, pc)
  PROVE  CallMoves(c)
  <1>1. call \in [CallId -> Call] /\ call[c] \in Call
    BY DEF TypeOK
  <1>2. [call[c] EXCEPT !.pc = pc] \in Call
    BY <1>1 DEF Call
  <1> QED BY <1>1, <1>2 DEF Park, CallMoves, Call

(* Asking for a review leaves the call in its turn, or ends it. *)
LEMMA ReviewMoves ==
  ASSUME TypeOK, NEW c \in CallId, call[c].pc # "idle",
         NEW route \in {"reviewed", "amend", "retry"}, call' = Review(c, route)
  PROVE  CallMoves(c)
  <1>1. call' \in [CallId -> Call]
    BY ReviewType
  <1>2. call \in [CallId -> Call]
    BY DEF TypeOK
  <1> QED BY <1>1, <1>2 DEF Review, Return, CallMoves, Idle, Call

(* Every step of a call, of its executor and of its caller's abort moves   *)
(* that call's record alone and leaves it in its turn.                     *)
LEMMA StepMoves ==
  ASSUME Typed, NEW c \in CallId, CallStep(c) \/ Executor(c) \/ Abort(c)
  PROVE  CallMoves(c)
  <1>1. /\ call \in [CallId -> Call] /\ call[c] \in Call
        /\ TypeOK
    BY DEF Typed, TypeOK
  <1>2. ASSUME call[c].pc # "idle", NEW asked
        PROVE  LeaseWith(call[c].home, call[c].req.owner, asked) \in Lease
    BY <1>1, <1>2, LeaseType DEF Typed, HomesBegun
  <1>3. ASSUME NEW ok \in BOOLEAN, PolicyAnswer(c, ok) PROVE CallMoves(c)
    <2>1. CASE call' = Return(c)
      BY <1>1, <2>1, ReturnMoves
    <2>2. CASE call' = Park(c, "scope")
      BY <1>1, <1>3, <2>2, ParkMoves DEF PolicyAnswer
    <2>3. CASE call' = Launch(c, "direct",
                 LeaseWith(call[c].home, call[c].req.owner, call[c].req.requested))
      BY <1>1, <1>2, <1>3, <2>3, LaunchMoves DEF PolicyAnswer
    <2> QED BY <1>3, <2>1, <2>2, <2>3 DEF PolicyAnswer
  <1>4. ASSUME NEW ok \in BOOLEAN, ScopeAnswer(c, ok) PROVE CallMoves(c)
    <2>1. CASE call' = Return(c)
      BY <1>1, <2>1, ReturnMoves
    <2>2. CASE call' = Review(c, "amend") \/ call' = Review(c, "reviewed")
      BY <1>1, <1>4, <2>2, ReviewMoves DEF ScopeAnswer
    <2>3. CASE call' = Launch(c, "reviewed",
                 LeaseWith(call[c].home, call[c].req.owner, call[c].req.requested))
      BY <1>1, <1>2, <1>4, <2>3, LaunchMoves DEF ScopeAnswer
    <2> QED BY <1>4, <2>1, <2>2, <2>3 DEF ScopeAnswer
  <1>5. ASSUME NEW ok \in BOOLEAN, RecheckAnswer(c, ok) PROVE CallMoves(c)
    BY <1>1, <1>5, ReturnMoves, ReviewMoves DEF RecheckAnswer
  <1>6. ASSUME NEW ok \in BOOLEAN, ReconfirmAnswer(c, ok) PROVE CallMoves(c)
    <2>1. call[c].lease \in Lease
      BY <1>1 DEF Call
    <2> QED BY <1>1, <1>6, <2>1, ReturnMoves, LaunchMoves DEF ReconfirmAnswer
  <1>7. ASSUME NEW answer \in Answers, GuardianAnswer(c, answer) PROVE CallMoves(c)
    <2>1. CASE call' = Return(c)
      BY <1>1, <2>1, ReturnMoves
    <2>2. CASE call' = [call EXCEPT ![c].pc = "verdict",
                                    ![c].approve = (answer = "approve"),
                                    ![c].own = IF answer = "approve" THEN Granted(c) ELSE {}]
      <3>1. (IF answer = "approve" THEN Granted(c) ELSE {}) \subseteq Capability
        BY <1>1 DEF Granted, Scope, Call, Capability, Enforceable
      <3>2. [call[c] EXCEPT !.pc = "verdict", !.approve = (answer = "approve"),
                            !.own = IF answer = "approve" THEN Granted(c) ELSE {}] \in Call
        BY <1>1, <3>1 DEF Call
      <3> QED BY <1>1, <1>7, <2>2, <3>2 DEF CallMoves, GuardianAnswer, Call
    <2> QED BY <1>7, <2>1, <2>2 DEF GuardianAnswer
  <1>8. CASE ActOnDenial(c)
    BY <1>1, <1>8, ReturnMoves DEF ActOnDenial
  <1>9. CASE ActOnApproval(c)
    <2>1. CASE call[c].route = "retry"
      BY <1>1, <1>9, <2>1, ParkMoves DEF ActOnApproval
    <2>2. CASE call[c].route # "retry"
      <3>1. call[c].route \in {"none", "bare", "direct", "reviewed", "amend", "retry"}
        BY <1>1 DEF Call
      <3> QED BY <1>1, <1>2, <1>9, <2>2, <3>1, LaunchMoves DEF ActOnApproval
    <2> QED BY <2>1, <2>2
  <1>10. CASE Amend(c) \/ Remember(c) \/ Conclude(c)
    BY <1>1, <1>10, ReturnMoves DEF Amend, Remember, Conclude
  <1>11. CASE Recover(c)
    <2>1. Widened(RecoveryBase(c), {call[c].req.root}) \in Lease
      BY <1>1, <1>2, <1>11, EngineAssumption
         DEF Recover, MayRetry, RecoveryBase, Widened, Lease, Request, Call, Enforceable
    <2>2. [call[c] EXCEPT !.pc = "recheck", !.result = "none", !.own = {},
             !.lease = Widened(RecoveryBase(c), {call[c].req.root})] \in Call
      BY <1>1, <2>1 DEF Call
    <2> QED BY <1>1, <1>11, <2>2 DEF Recover, CallMoves, Call
  <1>12. ASSUME NEW result \in {"completed", "native", "failed"}, Settle(c, result)
         PROVE CallMoves(c)
    <2>1. CASE call' = Return(c)
      BY <1>1, <2>1, ReturnMoves
    <2>2. CASE result # "failed" /\ call' =
                 [call EXCEPT ![c].pc = "settled", ![c].result = result,
                              ![c].lease = NoLease, ![c].pending = {}]
      <3>1. [call[c] EXCEPT !.pc = "settled", !.result = result,
                            !.lease = NoLease, !.pending = {}] \in Call
        BY <1>1, <2>2 DEF Call, NoLease, Lease
      <3> QED BY <1>1, <1>12, <2>2, <3>1 DEF CallMoves, Settle, Call
    <2> QED BY <1>12, <2>1, <2>2 DEF Settle
  <1>13. Denied(c) \in [CallId -> Call] /\ Denied(c)[c].home = call[c].home
    BY <1>1 DEF Denied, Call
  <1>14. ASSUME NEW h \in Host, InlineRequest(c, h) PROVE CallMoves(c)
    BY <1>1, <1>13, <1>14 DEF InlineRequest, MayAsk, Denied, CallMoves, Call
  <1>15. ASSUME NEW h \in Host, NEW ok \in BOOLEAN, InlineAnswer(c, h, ok)
         PROVE  CallMoves(c)
    BY <1>1, <1>13, <1>15 DEF InlineAnswer, Denied, CallMoves, Call
  <1>16. CASE InlineReject(c)
    BY <1>1, <1>13, <1>16 DEF InlineReject, MayAsk, Denied, CallMoves, Call
  <1>17. CASE Abort(c)
    BY <1>1, <1>17 DEF Abort, CallMoves, Call
  <1> QED BY <1>3, <1>4, <1>5, <1>6, <1>7, <1>8, <1>9, <1>10, <1>11, <1>12, <1>14,
             <1>15, <1>16, <1>17 DEF CallStep, Executor

(* Stopping calls changes nothing but their "stop".                        *)
LEMMA StoppedType ==
  ASSUME TypeOK, NEW cs
  PROVE  /\ Stopped(cs) \in [CallId -> Call]
         /\ \A c \in CallId : /\ Stopped(cs)[c].pc = call[c].pc
                              /\ Stopped(cs)[c].home = call[c].home
                              /\ Stopped(cs)[c].route = call[c].route
                              /\ Stopped(cs)[c].own = call[c].own
                              /\ Stopped(cs)[c].req = call[c].req
                              /\ Stopped(cs)[c].asked = call[c].asked
                              /\ Stopped(cs)[c].aborted = call[c].aborted
                              /\ call[c].stop # "none" => Stopped(cs)[c].stop = call[c].stop
                              /\ c \in cs => Stopped(cs)[c].stop # "none"
  <1>1. call \in [CallId -> Call]
    BY DEF TypeOK
  <1>2. ASSUME NEW c \in CallId PROVE [call[c] EXCEPT !.stop = "stale"] \in Call
    BY <1>1 DEF Call
  <1> QED BY <1>1, <1>2 DEF Stopped, Call

(* The turn steps and the submissions keep the state well typed. *)
LEMMA TurnTyped ==
  ASSUME Typed, Turn
  PROVE  Typed'
  <1> USE DEF Typed
  <1>1. FreshCircuit \in Circuit
    BY CircuitType DEF TypeOK
  <1>2. NoApprovals \in [Action -> Entry \cup {NoEntry}]
    BY DEF NoApprovals
  <1>3. ASSUME NEW shot \in Snapshots, BeginTurn(shot) PROVE Typed'
    <2>1. generation' \in Generations /\ shot \in Snapshot
      BY <1>3, EngineAssumption DEF BeginTurn, TypeOK, Generations
    <2>2. call' \in [CallId -> Call] /\ \A c \in CallId : /\ call'[c].pc = call[c].pc
                                                          /\ call'[c].home = call[c].home
      BY <1>3, StoppedType DEF BeginTurn, TypeOK
    <2>3. authority' \in [Generations -> SUBSET Enforceable]
      BY <1>3 DEF BeginTurn, TypeOK
    <2>4. snapshot' \in [Generations -> Snapshot]
      BY <1>3, <2>1 DEF BeginTurn, TypeOK
    <2>5. TypeOK'
      BY <1>1, <1>2, <1>3, <2>1, <2>2, <2>3, <2>4 DEF BeginTurn, TypeOK, Generations
    <2>6. HomesBegun'
      BY <1>3, <2>1, <2>2 DEF BeginTurn, HomesBegun
    <2> QED BY <2>5, <2>6
  <1>4. ASSUME NEW shot \in Snapshots, RefreshMode(shot) PROVE Typed'
    <2>1. shot \in Snapshot
      BY EngineAssumption
    <2>2. snapshot' \in [Generations -> Snapshot]
      BY <1>4, <2>1 DEF RefreshMode, TypeOK
    <2>3. approvals' \in [Action -> Entry \cup {NoEntry}]
      BY <1>2, <1>4 DEF RefreshMode, TypeOK
    <2> QED BY <1>4, <2>2, <2>3 DEF RefreshMode, TypeOK, HomesBegun
  <1>5. CASE CloseTurn
    <2>1. call' \in [CallId -> Call] /\ \A c \in CallId : /\ call'[c].pc = call[c].pc
                                                          /\ call'[c].home = call[c].home
      BY <1>5, StoppedType DEF CloseTurn, TypeOK
    <2>2. authority' \in [Generations -> SUBSET Enforceable]
      BY <1>5 DEF CloseTurn, TypeOK
    <2> QED BY <1>2, <1>5, <2>1, <2>2 DEF CloseTurn, TypeOK, HomesBegun
  <1>6. CASE Invalidate
    <2>1. call' \in [CallId -> Call] /\ \A c \in CallId : /\ call'[c].pc = call[c].pc
                                                          /\ call'[c].home = call[c].home
      BY <1>6, StoppedType DEF Invalidate, TypeOK
    <2>2. authority' \in [Generations -> SUBSET Enforceable]
      BY <1>6 DEF Invalidate, TypeOK
    <2>3. generation' \in 0..MaxGeneration
      BY <1>6, EngineAssumption DEF Invalidate, TypeOK
    <2> QED BY <1>1, <1>2, <1>6, <2>1, <2>2, <2>3 DEF Invalidate, TypeOK, HomesBegun
  <1> QED BY <1>3, <1>4, <1>5, <1>6 DEF Turn

(* A submission opens a well-typed call in the active turn. *)
LEMMA SubmitTyped ==
  ASSUME Typed, NEW c \in CallId, NEW r \in Requests,
         Submit(c, r) \/ SubmitUnrestricted(c, r)
  PROVE  Typed'
  <1> USE DEF Typed
  <1>1. /\ call \in [CallId -> Call] /\ Idle \in Call
        /\ generation \in Generations /\ generation \in 0..MaxGeneration
        /\ r \in Request
    BY IdleType, EngineAssumption DEF TypeOK, HomesBegun, Submit, SubmitUnrestricted
  <1>2. CASE Submit(c, r)
    <2>1. AskedOf(generation, r) \in SUBSET Capability
      BY <1>1 DEF AskedOf, Request
    <2>2. Opened(c, r) \in Call /\ Opened(c, r).home = generation
      BY <1>1, <2>1 DEF Opened, Call
    <2>3. call' \in [CallId -> Call] /\ call'[c].home = generation
      BY <1>1, <1>2, <2>2 DEF Submit
    <2> QED BY <1>1, <1>2, <2>3 DEF Submit, TypeOK, HomesBegun, turnVars
  <1>3. CASE SubmitUnrestricted(c, r)
    <2>1. LeaseWith(generation, r.owner, {}) \in Lease
      BY <1>1, LeaseType
    <2>2. [Idle EXCEPT !.pc = "running", !.home = generation, !.req = r, !.route = "bare",
                       !.lease = LeaseWith(generation, r.owner, {})] \in Call
      BY <1>1, <2>1 DEF Call
    <2>3. call' \in [CallId -> Call] /\ call'[c].home = generation
      BY <1>1, <1>3, <2>2 DEF SubmitUnrestricted, Call
    <2> QED BY <1>1, <1>3, <2>3 DEF SubmitUnrestricted, TypeOK, HomesBegun, turnVars
  <1> QED BY <1>2, <1>3

(* What the steps of one call do to everything but the calls. *)
LEMMA StepTyped ==
  ASSUME Typed, NEW c \in CallId, CallStep(c) \/ Executor(c) \/ Abort(c)
  PROVE  Typed'
  <1> USE DEF Typed
  <1>1. CallMoves(c)
    BY StepMoves
  <1>2. /\ call \in [CallId -> Call] /\ call[c] \in Call /\ call' \in [CallId -> Call]
        /\ circuit \in Circuit
    BY <1>1 DEF TypeOK, CallMoves
  <1>3. UNCHANGED turnVars
    BY DEF CallStep, Executor, Abort, PolicyAnswer, ScopeAnswer, RecheckAnswer,
           ReconfirmAnswer, GuardianAnswer, ActOnDenial, ActOnApproval, Amend, Remember,
           Recover, Conclude, Settle, InlineRequest, InlineAnswer, InlineReject
  <1>4. HomesBegun'
    BY <1>1, <1>3 DEF HomesBegun, CallMoves, turnVars
  <1>5. circuit' \in Circuit
    <2>1. circuit' \in {circuit, RecordDenial(circuit), RecordSuccess(circuit)}
      BY DEF CallStep, Executor, Abort, PolicyAnswer, ScopeAnswer, RecheckAnswer,
             ReconfirmAnswer, GuardianAnswer, ActOnDenial, ActOnApproval, Amend, Remember,
             Recover, Conclude, Settle, InlineRequest, InlineAnswer, InlineReject
    <2> QED BY <1>2, <2>1, CircuitType
  <1>6. authority' \in [Generations -> SUBSET Enforceable]
    <2>1. CASE Amend(c)
      BY <2>1 DEF Amend, TypeOK
    <2>2. CASE ~Amend(c)
      <3>1. authority' = authority
        BY <2>2 DEF CallStep, Executor, Abort, PolicyAnswer, ScopeAnswer, RecheckAnswer,
           ReconfirmAnswer, GuardianAnswer, ActOnDenial, ActOnApproval, Remember,
           Recover, Conclude, Settle, InlineRequest, InlineAnswer, InlineReject
      <3> QED BY <3>1 DEF TypeOK
    <2> QED BY <2>1, <2>2
  <1>7. approved' \in [Generations -> SUBSET Capability]
    <2>1. CASE ActOnApproval(c)
      <3>1. call[c].home \in Generations
        BY <2>1 DEF ActOnApproval, HomesBegun
      <3>2. Granted(c) \subseteq Capability
        BY <1>2 DEF Granted, Scope, Call, Capability, Enforceable
      <3> QED BY <2>1, <3>1, <3>2 DEF ActOnApproval, TypeOK
    <2>2. CASE ~ActOnApproval(c)
      <3>1. approved' = approved
        BY <2>2 DEF CallStep, Executor, Abort, PolicyAnswer, ScopeAnswer, RecheckAnswer,
           ReconfirmAnswer, GuardianAnswer, ActOnDenial, Amend, Remember,
           Recover, Conclude, Settle, InlineRequest, InlineAnswer, InlineReject
      <3> QED BY <3>1 DEF TypeOK
    <2> QED BY <2>1, <2>2
  <1>8. approvals' \in [Action -> Entry \cup {NoEntry}]
    <2>1. CASE Remember(c)
      <3>1. call[c].req \in Request /\ Shot(c).policy \in Policies
        BY <1>2, <2>1, EngineAssumption
           DEF Remember, HomesBegun, Call, Shot, TypeOK, Snapshot
      <3>2. [kind |-> call[c].req.plan, asked |-> call[c].asked, policy |-> Shot(c).policy,
             evidence |-> call[c].req.evidence] \in Entry
        BY <1>2, <3>1 DEF Entry, Call, Request
      <3> QED BY <2>1, <3>1, <3>2 DEF Remember, Remembered, TypeOK
    <2>2. CASE Amend(c)
      BY <2>2 DEF Amend, TypeOK, NoApprovals
    <2>3. CASE ~Remember(c) /\ ~Amend(c)
      <3>1. approvals' = approvals
        BY <2>3 DEF CallStep, Executor, Abort, PolicyAnswer, ScopeAnswer, RecheckAnswer,
           ReconfirmAnswer, GuardianAnswer, ActOnDenial, ActOnApproval,
           Recover, Conclude, Settle, InlineRequest, InlineAnswer, InlineReject
      <3> QED BY <3>1 DEF TypeOK
    <2> QED BY <2>1, <2>2, <2>3
  <1> QED BY <1>2, <1>3, <1>4, <1>5, <1>6, <1>7, <1>8 DEF TypeOK, turnVars

(* The Engine starts well typed. *)
LEMMA InitTyped == Init => Typed
  <1> SUFFICES ASSUME Init PROVE Typed
    OBVIOUS
  <1>1. FreshCircuit \in Circuit
    <2>1. <<>> \in [1..0 -> BOOLEAN]
      OBVIOUS
    <2>2. <<>> \in Windows
      BY <2>1, CircuitAssumption DEF Windows
    <2> QED BY <2>2 DEF FreshCircuit, Circuit
  <1>2. (CHOOSE shot \in Snapshots : TRUE) \in Snapshot
    BY EngineAssumption
  <1>3. snapshot \in [Generations -> Snapshot]
    BY <1>2 DEF Init
  <1>4. call \in [CallId -> Call] /\ \A c \in CallId : call[c].pc = "idle"
    BY IdleType DEF Init, Idle
  <1>5. approvals \in [Action -> Entry \cup {NoEntry}]
    BY DEF Init, NoApprovals
  <1>6. generation \in 0..MaxGeneration /\ active = FALSE
    BY EngineAssumption DEF Init
  <1>7. authority \in [Generations -> SUBSET Enforceable]
        /\ approved \in [Generations -> SUBSET Capability]
    BY DEF Init
  <1>8. circuit \in Circuit
    BY <1>1 DEF Init
  <1> QED BY <1>3, <1>4, <1>5, <1>6, <1>7, <1>8 DEF Typed, TypeOK, HomesBegun

(* Every step keeps the state well typed. *)
LEMMA NextTyped == Typed /\ [Next]_vars => Typed'
  <1> SUFFICES ASSUME Typed, [Next]_vars PROVE Typed'
    OBVIOUS
  <1>1. CASE Turn
    BY <1>1, TurnTyped
  <1>2. ASSUME NEW c \in CallId, Caller(c) \/ CallStep(c) \/ Executor(c) PROVE Typed'
    BY <1>2, SubmitTyped, StepTyped DEF Caller
  <1>3. CASE UNCHANGED vars
    BY <1>3 DEF vars, turnVars, Typed, TypeOK, HomesBegun
  <1> QED BY <1>1, <1>2, <1>3 DEF Next

(* The Engine's state keeps its shape: every parked call, remembered       *)
(* approval and turn record is one the code's types allow, through every   *)
(* interleaving of turns and calls.                                        *)
THEOREM TypeCorrect == Spec => []TypeOK
  <1>1. Typed => TypeOK
    BY DEF Typed
  <1> QED BY <1>1, InitTyped, NextTyped, PTL DEF Spec
(* The steps of calls leave the turns as they are. *)
LEMMA StepKeepsTurns ==
  ASSUME NEW c \in CallId, Caller(c) \/ CallStep(c) \/ Executor(c)
  PROVE  UNCHANGED turnVars
  BY DEF Caller, CallStep, Executor, Abort, PolicyAnswer, ScopeAnswer, RecheckAnswer,
         ReconfirmAnswer, GuardianAnswer, ActOnDenial, ActOnApproval, Amend, Remember,
         Recover, Conclude, Settle, InlineRequest, InlineAnswer, InlineReject,
         Submit, SubmitUnrestricted

-------------------------------------------------------------------------------
(* The graph of the awaits a call is parked at: whatever happens to a call *)
(* takes one of the edges below, under the guard written at it, or ends it. *)
Kept(c) == /\ call'[c].req = call[c].req /\ call'[c].asked = call[c].asked
           /\ call'[c].home = call[c].home

Goes(c, from, to, route, lease) ==
  /\ call[c].pc = from /\ call'[c].pc = to /\ Kept(c)
  /\ call'[c].route = route /\ call'[c].lease = lease
  /\ call'[c].stop = IF to \in {"running", "review"} THEN "none" ELSE call[c].stop

Unmoved(c) ==
  /\ call'[c].pc = call[c].pc /\ Kept(c)
  /\ call'[c].route = call[c].route /\ call'[c].lease = call[c].lease
  /\ call'[c].approve = call[c].approve /\ call'[c].own = call[c].own
  /\ call[c].aborted => call'[c].aborted
  /\ call[c].stop # "none" => call'[c].stop = call[c].stop
  /\ call[c].stop = "none" /\ call'[c].stop # "none" => call[c].pc \in {"running", "review"}

Waits(c) == call[c].pc # "idle" /\ Unmoved(c)

Enters(c, from, route, lease) == Goes(c, from, "running", route, lease) /\ MayStart(c)

AsksReview(c, from, route) ==
  \/ Goes(c, from, "review", route, call[c].lease) /\ ~circuit.open
  \/ /\ Goes(c, from, "verdict", route, call[c].lease)
     /\ call'[c].approve /\ call'[c].own = Scope(c, route)

GoesOn(c) ==
  LET route == call[c].route  lease == call[c].lease IN
  \/ Waits(c)
  \/ Goes(c, "policy", "scope", route, lease)
  \/ Enters(c, "policy", "direct", RecoveryBase(c)) /\ ~NeedsReview(c)
  \/ Enters(c, "scope", "reviewed", RecoveryBase(c)) /\ CacheHit(c)
  \/ AsksReview(c, "scope", "reviewed")
  \/ AsksReview(c, "scope", "amend") /\ call[c].req.owner = "amendment"
  \/ AsksReview(c, "recheck", "retry")
  \/ /\ Goes(c, "review", "verdict", route, lease) /\ ~Stopping(c)
     /\ call'[c].approve => call'[c].own = Granted(c)
  \/ Enters(c, "verdict", route, RecoveryBase(c)) /\ route # "retry" /\ call[c].approve
  \/ /\ Goes(c, "verdict", "reconfirm", route, lease) /\ route = "retry" /\ call[c].approve
     /\ call'[c].own = call[c].own
  \/ Enters(c, "reconfirm", "retry", lease)
  \/ Goes(c, "running", "settled", route, NoLease) /\ ~Stopping(c)
  \/ /\ Goes(c, "settled", "recheck", route, Widened(RecoveryBase(c), {call[c].req.root}))
     /\ MayRetry(c)

(* What the verdicts of a turn approved only grows, and an approval that   *)
(* is acted on adds what it grants to its own turn's.                      *)
VerdictsGrow(c) ==
  /\ \A g \in Generations : approved[g] \subseteq approved'[g]
  /\ call[c].pc = "verdict" /\ call'[c].pc \in {"running", "reconfirm"} =>
       Granted(c) \subseteq approved'[call[c].home]

LEMMA StepsGoOn ==
  ASSUME Typed, NEW c \in CallId, CallStep(c) \/ Executor(c) \/ Abort(c)
  PROVE  (call'[c] = Idle \/ GoesOn(c)) /\ VerdictsGrow(c)
  <1>1. /\ call \in [CallId -> Call] /\ call[c] \in Call
        /\ approved \in [Generations -> SUBSET Capability]
        /\ call[c].pc # "idle" => call[c].home \in Generations
    BY DEF Typed, TypeOK, HomesBegun
  <1>2. VerdictsGrow(c)
    <2>1. CASE ActOnApproval(c)
      BY <1>1, <2>1 DEF ActOnApproval, VerdictsGrow
    <2>2. CASE ~ActOnApproval(c)
      <3>1. approved' = approved
        BY <2>2 DEF CallStep, Executor, Abort, PolicyAnswer, ScopeAnswer, RecheckAnswer,
           ReconfirmAnswer, GuardianAnswer, ActOnDenial, Amend, Remember,
           Recover, Conclude, Settle, InlineRequest, InlineAnswer, InlineReject
      <3>2. call[c].pc = "verdict" => ActOnDenial(c) \/ Abort(c)
        BY <2>2 DEF CallStep, Executor, PolicyAnswer, ScopeAnswer, RecheckAnswer,
           ReconfirmAnswer, GuardianAnswer, Amend, Remember,
           Recover, Conclude, Settle, InlineRequest, InlineAnswer, InlineReject, MayAsk
      <3>3. call[c].pc = "verdict" => call'[c].pc \notin {"running", "reconfirm"}
        BY <1>1, <3>2 DEF ActOnDenial, Abort, Return, Idle, Call
      <3> QED BY <3>1, <3>3 DEF VerdictsGrow
    <2> QED BY <2>1, <2>2
  <1> SUFFICES call'[c] = Idle \/ GoesOn(c)
    BY <1>2
  <1>3. ASSUME call' = Return(c) PROVE call'[c] = Idle
    BY <1>1, <1>3 DEF Return
  <1>4. ASSUME NEW from, call[c].pc = from, NEW route, NEW lease, call' = Launch(c, route, lease)
        PROVE  call'[c] = Idle \/ Enters(c, from, route, lease)
    BY <1>1, <1>3, <1>4 DEF Launch, Enters, Goes, Kept, Call
  <1>5. ASSUME NEW from, call[c].pc = from, NEW route, call' = Review(c, route)
        PROVE  call'[c] = Idle \/ AsksReview(c, from, route)
    <2>1. CASE call' = [call EXCEPT ![c].pc = "verdict", ![c].route = route, ![c].approve = TRUE,
                                   ![c].own = Scope(c, route)]
      BY <1>1, <1>5, <2>1 DEF AsksReview, Goes, Kept, Call
    <2>2. CASE ~circuit.open /\
               call' = [call EXCEPT ![c].pc = "review", ![c].route = route, ![c].stop = "none"]
      BY <1>1, <1>5, <2>2 DEF AsksReview, Goes, Kept, Call
    <2> QED BY <1>3, <1>5, <2>1, <2>2 DEF Review, MayReview
  <1>6. ASSUME NEW from, call[c].pc = from, NEW pc \in {"scope", "reconfirm"}, call' = Park(c, pc)
        PROVE  Goes(c, from, pc, call[c].route, call[c].lease) /\ call'[c].own = call[c].own
    BY <1>1, <1>6 DEF Park, Goes, Kept, Call
  <1>7. ASSUME call[c].pc \in {"running", "review"}, call' = Denied(c) PROVE Waits(c)
    BY <1>1, <1>7 DEF Denied, Waits, Unmoved, Kept, Call
  <1>8. ASSUME NEW ok \in BOOLEAN, PolicyAnswer(c, ok) PROVE call'[c] = Idle \/ GoesOn(c)
    BY <1>3, <1>4, <1>6, <1>8 DEF PolicyAnswer, GoesOn, RecoveryBase
  <1>9. ASSUME NEW ok \in BOOLEAN, ScopeAnswer(c, ok) PROVE call'[c] = Idle \/ GoesOn(c)
    BY <1>3, <1>4, <1>5, <1>9 DEF ScopeAnswer, GoesOn, RecoveryBase
  <1>10. ASSUME NEW ok \in BOOLEAN, RecheckAnswer(c, ok) \/ ReconfirmAnswer(c, ok)
         PROVE  call'[c] = Idle \/ GoesOn(c)
    BY <1>3, <1>4, <1>5, <1>10 DEF RecheckAnswer, ReconfirmAnswer, GoesOn
  <1>11. ASSUME NEW answer \in Answers, GuardianAnswer(c, answer)
         PROVE  call'[c] = Idle \/ GoesOn(c)
    <2>1. CASE ~Stopping(c) /\ call' = [call EXCEPT ![c].pc = "verdict",
                         ![c].approve = (answer = "approve"),
                         ![c].own = IF answer = "approve" THEN Granted(c) ELSE {}]
      <3>1. /\ Goes(c, "review", "verdict", call[c].route, call[c].lease)
            /\ call'[c].approve => call'[c].own = Granted(c)
        BY <1>1, <1>11, <2>1 DEF GuardianAnswer, Goes, Kept, Call
      <3> QED BY <2>1, <3>1 DEF GoesOn
    <2> QED BY <1>3, <1>11, <2>1 DEF GuardianAnswer
  <1>12. CASE ActOnApproval(c)
    BY <1>3, <1>4, <1>6, <1>12 DEF ActOnApproval, GoesOn, RecoveryBase
  <1>13. CASE ActOnDenial(c) \/ Amend(c) \/ Remember(c) \/ Conclude(c)
    BY <1>3, <1>13 DEF ActOnDenial, Amend, Remember, Conclude
  <1>14. CASE Recover(c)
    <2>1. Goes(c, "settled", "recheck", call[c].route,
               Widened(RecoveryBase(c), {call[c].req.root}))
      BY <1>1, <1>14 DEF Recover, Goes, Kept, Call
    <2> QED BY <1>14, <2>1 DEF Recover, GoesOn
  <1>15. ASSUME NEW result \in {"completed", "native", "failed"}, Settle(c, result)
         PROVE  call'[c] = Idle \/ GoesOn(c)
    <2>1. CASE Wins(c) /\ call' = [call EXCEPT ![c].pc = "settled", ![c].result = result,
                                       ![c].lease = NoLease, ![c].pending = {}]
      <3>1. Goes(c, "running", "settled", call[c].route, NoLease)
        BY <1>1, <1>15, <2>1 DEF Settle, Goes, Kept, Call
      <3> QED BY <2>1, <3>1 DEF GoesOn, Wins
    <2> QED BY <1>3, <1>15, <2>1 DEF Settle
  <1>16. ASSUME NEW h \in Host, InlineRequest(c, h) PROVE GoesOn(c)
    <2>1. CASE call' = [call EXCEPT ![c].pending = @ \cup {h}]
      BY <1>1, <1>16, <2>1 DEF InlineRequest, MayAsk, Waits, Unmoved, Kept, GoesOn, Call
    <2> QED BY <1>7, <1>16, <2>1 DEF InlineRequest, MayAsk, GoesOn
  <1>17. ASSUME NEW h \in Host, NEW ok \in BOOLEAN, InlineAnswer(c, h, ok) PROVE GoesOn(c)
    BY <1>1, <1>17 DEF InlineAnswer, Denied, Waits, Unmoved, Kept, GoesOn, Call
  <1>18. CASE InlineReject(c)
    BY <1>7, <1>18 DEF InlineReject, MayAsk, GoesOn
  <1>19. CASE Abort(c)
    BY <1>1, <1>19 DEF Abort, Waits, Unmoved, Kept, GoesOn, Call
  <1> QED BY <1>8, <1>9, <1>10, <1>11, <1>12, <1>13, <1>14, <1>15, <1>16, <1>17, <1>18,
             <1>19 DEF CallStep, Executor

(* The turn's own steps move no call: they tell some, and take authority.  *)
LEMMA TurnsMoveNoCall ==
  ASSUME Typed, Turn
  PROVE  /\ \A c \in CallId : Unmoved(c)
         /\ approved' = approved
         /\ \A g \in Generations : authority'[g] \subseteq authority[g]
  <1>1. /\ call \in [CallId -> Call] /\ authority \in [Generations -> SUBSET Enforceable]
    BY DEF Typed, TypeOK
  <1>2. call' = Stopped(CloseTargets) \/ call' = call
    BY DEF Turn, BeginTurn, RefreshMode, CloseTurn, Invalidate
  <1>3. ASSUME NEW c \in CallId PROVE Unmoved(c)
    BY <1>1, <1>2 DEF Stopped, CloseTargets, AttemptsToStop, ReviewsToStop, Unmoved, Kept, Call
  <1>4. approved' = approved /\ \A g \in Generations : authority'[g] \subseteq authority[g]
    BY <1>1 DEF Turn, BeginTurn, RefreshMode, CloseTurn, Invalidate
  <1> QED BY <1>3, <1>4

(* A submission opens one call, which nobody has told anything.            *)
LEMMA SubmissionsOpen ==
  ASSUME Typed, NEW c \in CallId, NEW r \in Requests, Submit(c, r) \/ SubmitUnrestricted(c, r)
  PROVE  /\ active /\ generation \in Generations /\ call[c].pc = "idle"
         /\ \A d \in CallId : d # c => call'[d] = call[d]
         /\ UNCHANGED <<turnVars, authority, approvals, circuit, approved>>
         /\ call'[c].home = generation /\ call'[c].req = r /\ call'[c].stop = "none"
         /\ \/ /\ Submit(c, r) /\ call'[c].pc = "policy" /\ call'[c].route = "none"
               /\ call'[c].asked = AskedOf(generation, r)
            \/ /\ call'[c].pc = "running" /\ call'[c].route = "bare"
               /\ call'[c].asked = {} /\ call'[c].lease.mode = "unrestricted"
  <1>1. call \in [CallId -> Call] /\ active /\ generation \in Generations
    BY DEF Typed, TypeOK, HomesBegun, Submit, SubmitUnrestricted
  <1>2. CASE Submit(c, r)
    BY <1>1, <1>2 DEF Submit, Opened, Idle
  <1>3. CASE SubmitUnrestricted(c, r)
    BY <1>1, <1>3 DEF SubmitUnrestricted, Idle, LeaseWith, NoLease
  <1> QED BY <1>2, <1>3

(* Only an executor and a review can be told, the two places that listen.  *)
ToldWhereHeard ==
  \A c \in CallId : call[c].stop # "none" => call[c].pc \in {"running", "review"}

(* The body of ToldAttemptsEnd. *)
ToldEnds ==
  \A c \in CallId : call[c].stop # "none" =>
    call'[c] = Idle \/ (call'[c].pc = call[c].pc /\ call'[c].stop = call[c].stop)

LEMMA NextTells == Typed /\ ToldWhereHeard /\ [Next]_vars => ToldWhereHeard' /\ ToldEnds
  <1> SUFFICES ASSUME Typed, ToldWhereHeard, [Next]_vars PROVE ToldWhereHeard' /\ ToldEnds
    OBVIOUS
  <1>1. CASE Turn
    BY <1>1, TurnsMoveNoCall DEF Unmoved, ToldWhereHeard, ToldEnds
  <1>2. ASSUME NEW c \in CallId, CallStep(c) \/ Executor(c) \/ Abort(c)
        PROVE  ToldWhereHeard' /\ ToldEnds
    <2>1. \A d \in CallId : d # c => call'[d] = call[d]
      BY <1>2, StepMoves DEF CallMoves
    <2>2. CASE call'[c] = Idle
      <3>1. Idle.stop = "none"
        BY DEF Idle
      <3> QED BY <2>1, <2>2, <3>1 DEF ToldWhereHeard, ToldEnds
    <2>3. CASE GoesOn(c)
      <3>1. /\ call[c].stop # "none" =>
                 call'[c].pc = call[c].pc /\ call'[c].stop = call[c].stop
            /\ call'[c].stop # "none" => call'[c].pc \in {"running", "review"}
        <4>1. CASE Waits(c)
          BY <4>1 DEF Waits, Unmoved, ToldWhereHeard
        <4>2. CASE ~Waits(c)
          <5>1. call[c].stop = "none"
            BY <2>3, <4>2 DEF GoesOn, AsksReview, Enters, Goes, Stopping, ToldWhereHeard
          <5>2. call'[c].stop = "none"
            BY <2>3, <4>2, <5>1 DEF GoesOn, AsksReview, Enters, Goes
          <5> QED BY <5>1, <5>2
        <4> QED BY <4>1, <4>2
      <3> QED BY <2>1, <3>1 DEF ToldWhereHeard, ToldEnds
    <2> QED BY <1>2, <2>2, <2>3, StepsGoOn
  <1>3. ASSUME NEW c \in CallId, NEW r \in Requests, Submit(c, r) \/ SubmitUnrestricted(c, r)
        PROVE  ToldWhereHeard' /\ ToldEnds
    BY <1>3, SubmissionsOpen DEF ToldWhereHeard, ToldEnds
  <1>4. CASE UNCHANGED vars
    BY <1>4 DEF vars, ToldWhereHeard, ToldEnds
  <1> QED BY <1>1, <1>2, <1>3, <1>4 DEF Next, Caller

(* A told attempt never wins, whatever its executor still answers.         *)
THEOREM ToldAttemptsAlwaysEnd == Spec => ToldAttemptsEnd
  <1>1. Init => ToldWhereHeard
    BY DEF Init, ToldWhereHeard, Idle
  <1>2. Spec => [](Typed /\ ToldWhereHeard)
    BY <1>1, InitTyped, NextTyped, NextTells, PTL DEF Spec
  <1>3. Typed /\ ToldWhereHeard /\ [Next]_vars => [ToldEnds]_vars
    BY NextTells
  <1>4. Spec => [][ToldEnds]_vars
    BY <1>2, <1>3, PTL DEF Spec
  <1> QED BY <1>4 DEF ToldAttemptsEnd, ToldEnds
(* Every step leaves the executors of ended turns told.                    *)
LEMMA NextStops ==
  Typed /\ DeadAttemptsStopped /\ [Next]_vars => DeadAttemptsStopped'
  <1> SUFFICES ASSUME Typed, DeadAttemptsStopped, [Next]_vars,
                      NEW c \in CallId, call'[c].pc = "running", ~IsCurrent(c)'
               PROVE  Stopping(c)'
    BY DEF DeadAttemptsStopped
  <1>1. CASE Turn
    <2>1. Unmoved(c)
      BY <1>1, TurnsMoveNoCall
    <2>2. CASE ~IsCurrent(c)
      BY <2>1, <2>2 DEF Unmoved, DeadAttemptsStopped, Stopping
    <2>3. CASE IsCurrent(c)
      <3>1. active /\ ~\E shot \in Snapshots : RefreshMode(shot)
        BY <2>1, <2>3 DEF IsCurrent, RefreshMode, Unmoved, Kept
      <3>2. call' = Stopped(CloseTargets)
        BY <1>1, <3>1 DEF Turn, BeginTurn, CloseTurn, Invalidate
      <3> QED BY <2>1, <3>1, <3>2, StoppedType
              DEF Typed, Unmoved, CloseTargets, AttemptsToStop, Stopping
    <2> QED BY <2>2, <2>3
  <1>2. ASSUME NEW d \in CallId, CallStep(d) \/ Executor(d) \/ Abort(d)
        PROVE  Stopping(c)'
    <2>1. UNCHANGED turnVars /\ (c # d => call'[c] = call[c])
      BY <1>2, StepMoves, StepKeepsTurns DEF Caller, CallMoves
    <2>2. CASE c = d /\ Waits(c)
      BY <2>1, <2>2 DEF Waits, Unmoved, Kept, DeadAttemptsStopped, IsCurrent, Stopping, turnVars
    <2>3. CASE c = d /\ ~Waits(c)
      <3>1. call'[c] = Idle \/ GoesOn(c)
        BY <1>2, <2>3, StepsGoOn
      <3>2. IsCurrent(c) /\ Kept(c)
        BY <2>3, <3>1 DEF GoesOn, AsksReview, Enters, Goes, MayStart, Idle
      <3> QED BY <2>1, <3>2 DEF IsCurrent, Kept, turnVars
    <2> QED BY <2>1, <2>2, <2>3 DEF DeadAttemptsStopped, IsCurrent, Stopping, turnVars
  <1>3. ASSUME NEW d \in CallId, NEW r \in Requests, Submit(d, r) \/ SubmitUnrestricted(d, r)
        PROVE  Stopping(c)'
    <2>1. /\ active /\ UNCHANGED turnVars /\ call'[d].home = generation
          /\ (c # d => call'[c] = call[c])
      BY <1>3, SubmissionsOpen
    <2> QED BY <2>1 DEF DeadAttemptsStopped, IsCurrent, Stopping, turnVars
  <1>4. CASE UNCHANGED vars
    BY <1>4 DEF vars, turnVars, DeadAttemptsStopped, IsCurrent, Stopping
  <1> QED BY <1>1, <1>2, <1>3, <1>4 DEF Next, Caller

(* Whatever closes, replaces or invalidates a turn, and whenever the turn's *)
(* executors were entered, none of them runs on with an unaborted signal.   *)
THEOREM DeadAttemptsAlwaysStopped == Spec => []DeadAttemptsStopped
  <1>1. Init => DeadAttemptsStopped
    BY DEF Init, DeadAttemptsStopped, Idle
  <1> QED BY <1>1, InitTyped, NextTyped, NextStops, PTL DEF Spec
-------------------------------------------------------------------------------
(* How far a call of a turn may go on what the turn's verdicts approved.   *)
Base == UNION {p.allow : p \in Policies}

Outright(r) ==
  IF r.req.owner # "amendment" /\ r.req.plan = "allow" THEN r.req.requested ELSE {}

Reach(r, seen) == Outright(r) \cup WithHosts(Base \cup seen[r.home])

(* What a replay proposes, from the failure it recovers from on.           *)
Replaying(r) == \/ r.pc \in {"recheck", "reconfirm"}
                \/ r.pc \in {"review", "verdict"} /\ r.route = "retry"

(* What becomes of a call's request on the way to an executor, and from    *)
(* there to a replay: nothing of it outruns the turn's verdicts.           *)
ReviewTrail(r, seen) ==
  /\ r.pc # "idle" /\ r.route # "bare" => r.req.requested \subseteq r.asked \cup Reach(r, seen)
  /\ r.req.owner = "amendment" /\ r.pc # "idle" /\ r.route # "bare" =>
       r.asked = r.req.requested
  /\ r.route = "amend" => r.req.owner = "amendment"
  /\ r.route = "bare" => r.asked = {} /\ r.pc \in {"running", "settled"}
  /\ r.pc \in {"running", "settled"} \/ Replaying(r) => r.asked \subseteq seen[r.home]
  /\ r.pc = "running" /\ r.lease.mode = "sandboxed" => r.lease.allow \subseteq Reach(r, seen)
  /\ Replaying(r) => r.req.root # NoRoot /\ r.lease.allow \subseteq Reach(r, seen) \cup {r.req.root}
  /\ r.pc = "reconfirm" => r.req.root \in seen[r.home] /\ r.req.root \in r.own
  /\ r.pc = "verdict" /\ r.approve /\ r.route = "retry" => r.req.root \in r.own

Reviewed ==
  /\ AuthorityReviewed /\ RememberedIsLive
  /\ \A c \in CallId : ReviewTrail(call[c], approved)

(* The trail stays true as verdicts accumulate. *)
LEMMA TrailGrows ==
  ASSUME NEW r, NEW seen, NEW more,
         r.pc # "idle" => r.home \in Generations,
         \A g \in Generations : seen[g] \subseteq more[g], ReviewTrail(r, seen)
  PROVE  ReviewTrail(r, more) /\ (r.pc # "idle" => Reach(r, seen) \subseteq Reach(r, more))
  <1>1. CASE r.pc = "idle"
    BY <1>1 DEF ReviewTrail, Replaying
  <1>2. CASE r.pc # "idle"
    <2>1. seen[r.home] \subseteq more[r.home]
      BY <1>2
    <2>2. Reach(r, seen) \subseteq Reach(r, more)
      BY <2>1 DEF Reach, WithHosts
    <2> QED BY <1>2, <2>1, <2>2 DEF ReviewTrail
  <1> QED BY <1>1, <1>2

(* What an admitted request does not get reviewed is allowed outright, or  *)
(* the turn's lease at its submission covers it.                           *)
LEMMA AskedIsTheRest ==
  ASSUME Typed, AuthorityReviewed, NEW g \in Generations, NEW r \in Requests,
         snapshot[g].mode = "auto", ~Refused(g, r), NEW x \in r.requested,
         x \notin AskedOf(g, r)
  PROVE  \/ r.owner # "amendment" /\ r.plan = "allow"
         \/ x \in WithHosts(Base \cup approved[g])
  <1>1. r \in Request /\ snapshot[g] \in Snapshot /\ authority[g] \subseteq approved[g]
    BY EngineAssumption DEF Typed, TypeOK, AuthorityReviewed
  <1>2. snapshot[g].policy.allow \subseteq Base
    BY <1>1 DEF Snapshot, Base
  <1>3. CASE r.owner = "amendment" \/ r.plan = "action"
    BY <1>3 DEF AskedOf
  <1>4. CASE r.owner # "amendment" /\ r.plan = "capability"
    <2>1. Covered(LeaseWith(g, r.owner, {}), x)
      BY <1>4 DEF AskedOf
    <2>2. CASE r.owner = "host-admission"
      BY <2>1, <2>2 DEF LeaseWith, NoLease, Covered
    <2>3. CASE r.owner # "host-admission"
      <3> DEFINE allow == snapshot[g].policy.allow \cup authority[g] \cup ({} \cap Enforceable)
      <3>1. x \in allow \/ (x \in Host /\ NetAll \in allow)
        BY <2>1, <2>3 DEF LeaseWith, Covered
      <3>2. allow \subseteq Base \cup approved[g]
        BY <1>1, <1>2
      <3> QED BY <3>1, <3>2 DEF WithHosts
    <2> QED BY <2>2, <2>3
  <1>5. r.plan # "deny"
    BY DEF Refused
  <1> QED BY <1>1, <1>3, <1>4, <1>5 DEF Request

(* So the lease of a call whose review is done is within reach. *)
LEMMA LeaseWithinReach ==
  ASSUME Typed, AuthorityReviewed, NEW c \in CallId, call[c].pc # "idle",
         ReviewTrail(call[c], approved), call[c].route # "bare", NEW seen,
         \A g \in Generations : approved[g] \subseteq seen[g],
         call[c].asked \subseteq seen[call[c].home]
  PROVE  RecoveryBase(c).mode = "sandboxed" => RecoveryBase(c).allow \subseteq Reach(call[c], seen)
  <1> DEFINE g == call[c].home
  <1>1. /\ g \in Generations /\ snapshot[g] \in Snapshot /\ authority[g] \subseteq approved[g]
    BY DEF Typed, TypeOK, HomesBegun, AuthorityReviewed
  <1>2. snapshot[g].policy.allow \subseteq Base /\ approved[g] \subseteq seen[g]
    BY <1>1 DEF Snapshot, Base
  <1>3. call[c].req.requested \subseteq call[c].asked \cup Reach(call[c], approved)
    BY DEF ReviewTrail
  <1>4. Base \cup seen[g] \subseteq Reach(call[c], seen)
    BY DEF Reach, WithHosts
  <1>5. Reach(call[c], approved) \subseteq Reach(call[c], seen)
    BY <1>2 DEF Reach, WithHosts
  <1>6. RecoveryBase(c).mode = "sandboxed" =>
          RecoveryBase(c).allow \subseteq snapshot[g].policy.allow \cup authority[g]
                                          \cup call[c].req.requested
    BY DEF RecoveryBase, LeaseWith, NoLease
  <1> QED BY <1>1, <1>2, <1>3, <1>4, <1>5, <1>6

(* Every edge of the graph keeps the trail of its call.                    *)
LEMMA StepReviewed ==
  ASSUME Typed, Reviewed, NEW c \in CallId,
         CallStep(c) \/ Executor(c) \/ Abort(c)
  PROVE  ReviewTrail(call'[c], approved')
  <1> DEFINE o == call[c]
             n == call'[c]
             Goal == ReviewTrail(n, approved')
  <1>1. /\ n = Idle \/ GoesOn(c)
        /\ \A g \in Generations : approved[g] \subseteq approved'[g]
        /\ o.pc = "verdict" /\ n.pc \in {"running", "reconfirm"} =>
             Granted(c) \subseteq approved'[o.home]
    BY StepsGoOn DEF VerdictsGrow
  <1>2. o \in Call /\ (o.pc # "idle" => o.home \in Generations) /\ ReviewTrail(o, approved)
    BY DEF Typed, TypeOK, HomesBegun, Reviewed
  <1>3. CASE n = Idle
    <2>1. Idle.pc = "idle" /\ Idle.route = "none"
      BY DEF Idle
    <2> QED BY <1>3, <2>1 DEF ReviewTrail, Replaying
  <1> SUFFICES ASSUME GoesOn(c), o.pc # "idle" PROVE Goal
    BY <1>1, <1>3 DEF GoesOn, AsksReview, Enters, Goes, Waits
  <1>4. ReviewTrail(o, approved') /\ Reach(o, approved) \subseteq Reach(o, approved')
    BY <1>1, <1>2, TrailGrows
  <1>5. Kept(c) => Reach(n, approved') = Reach(o, approved')
    BY DEF Kept, Reach, Outright
  <1>6. ASSUME o.asked \subseteq approved'[o.home], o.route # "bare"
        PROVE  RecoveryBase(c).mode = "sandboxed" =>
                 RecoveryBase(c).allow \subseteq Reach(o, approved')
    BY <1>1, <1>2, <1>6, LeaseWithinReach DEF Reviewed
  <1>7. o.route = "bare" => o.pc \in {"running", "settled"}
    BY <1>2 DEF ReviewTrail
  <1>8. CASE Waits(c)
    BY <1>4, <1>5, <1>8 DEF Waits, Unmoved, Kept, ReviewTrail, Replaying
  <1>9. ASSUME NEW from, NEW route, Enters(c, from, route, RecoveryBase(c)),
               from \notin {"running", "settled"}, route # "bare",
               route = "amend" => o.req.owner = "amendment",
               o.asked \subseteq approved'[o.home]
        PROVE  Goal
    <2>1. RecoveryBase(c).mode = "sandboxed" =>
            RecoveryBase(c).allow \subseteq Reach(o, approved')
      BY <1>6, <1>7, <1>9 DEF Enters, Goes
    <2> QED BY <1>4, <1>5, <1>7, <1>9, <2>1 DEF Enters, Goes, Kept, ReviewTrail, Replaying
  <1>10. CASE Goes(c, "policy", "scope", o.route, o.lease)
    BY <1>4, <1>5, <1>7, <1>10 DEF Goes, Kept, ReviewTrail, Replaying
  <1>11. CASE Enters(c, "policy", "direct", RecoveryBase(c)) /\ ~NeedsReview(c)
    BY <1>4, <1>9, <1>11 DEF NeedsReview
  <1>12. CASE Enters(c, "scope", "reviewed", RecoveryBase(c)) /\ CacheHit(c)
    <2>1. /\ o.req.action \in Action /\ approvals[o.req.action] # NoEntry
          /\ approvals[o.req.action].asked = o.asked /\ o.home = generation
          /\ active /\ generation \in Generations
      BY <1>2, <1>12, EngineAssumption
         DEF CacheHit, IsCurrent, Call, Request, Typed, HomesBegun
    <2>2. o.asked \subseteq approved[generation]
      BY <2>1 DEF Reviewed, RememberedIsLive
    <2> QED BY <1>1, <1>9, <1>12, <2>1, <2>2
  <1>13. CASE \/ AsksReview(c, "scope", "reviewed")
              \/ AsksReview(c, "scope", "amend") /\ o.req.owner = "amendment"
    BY <1>4, <1>5, <1>7, <1>13 DEF AsksReview, Goes, Kept, ReviewTrail, Replaying
  <1>14. CASE AsksReview(c, "recheck", "retry")
    <2>1. o.pc = "recheck" /\ n.req = o.req
      BY <1>14 DEF AsksReview, Goes, Kept
    <2>2. o.req.root \in Write
      BY <1>2, <2>1, EngineAssumption DEF ReviewTrail, Replaying, Call, Request
    <2>3. n.pc = "verdict" => n.req.root \in n.own
      BY <1>14, <2>1, <2>2 DEF AsksReview, Goes, Scope
    <2> QED BY <1>4, <1>5, <1>7, <1>14, <2>3 DEF AsksReview, Goes, Kept, ReviewTrail, Replaying
  <1>15. CASE /\ Goes(c, "review", "verdict", o.route, o.lease)
              /\ n.approve => n.own = Granted(c)
    <2>1. n.approve /\ o.route = "retry" => n.req.root \in n.own
      <3>1. o.route = "retry" => o.req.root \in Write
        BY <1>2, <1>15, EngineAssumption DEF Goes, ReviewTrail, Replaying, Call, Request
      <3> QED BY <1>15, <3>1 DEF Goes, Kept, Granted, Scope
    <2> QED BY <1>4, <1>5, <1>7, <1>15, <2>1 DEF Goes, Kept, ReviewTrail, Replaying
  <1>16. CASE Enters(c, "verdict", o.route, RecoveryBase(c)) /\ o.route # "retry"
    <2>1. o.asked \subseteq approved'[o.home]
      BY <1>1, <1>16 DEF Enters, Goes, Granted, Scope
    <2>2. o.route = "amend" => o.req.owner = "amendment"
      BY <1>2 DEF ReviewTrail
    <2> QED BY <1>7, <1>9, <1>16, <2>1, <2>2 DEF Enters, Goes
  <1>17. CASE /\ Goes(c, "verdict", "reconfirm", o.route, o.lease) /\ o.route = "retry"
              /\ o.approve /\ n.own = o.own
    <2>1. o.req.root # NoRoot /\ o.req.root \in Write \cup {NoRoot}
      BY <1>2, <1>17, EngineAssumption DEF Goes, ReviewTrail, Replaying, Call, Request
    <2>2. o.req.root \in approved'[o.home]
      BY <1>1, <1>17, <2>1 DEF Enters, Goes, Granted, Scope
    <2>3. n.req.root \in n.own
      BY <1>2, <1>17 DEF Goes, Kept, ReviewTrail
    <2> QED BY <1>4, <1>5, <1>7, <1>17, <2>2, <2>3 DEF Goes, Kept, ReviewTrail, Replaying
  <1>18. CASE Enters(c, "reconfirm", "retry", o.lease)
    <2>1. o.req.root \in Reach(o, approved')
      BY <1>4, <1>18 DEF Enters, Goes, ReviewTrail, Reach, WithHosts
    <2> QED BY <1>4, <1>5, <1>7, <1>18, <2>1 DEF Enters, Goes, Kept, ReviewTrail, Replaying
  <1>19. CASE Goes(c, "running", "settled", o.route, NoLease)
    BY <1>4, <1>5, <1>19 DEF Goes, Kept, ReviewTrail, Replaying
  <1>20. CASE /\ Goes(c, "settled", "recheck", o.route, Widened(RecoveryBase(c), {o.req.root}))
              /\ MayRetry(c)
    <2>1. /\ o.req.root # NoRoot /\ o.route # "bare" /\ RecoveryBase(c).mode = "sandboxed"
          /\ o.asked \subseteq approved'[o.home]
      BY <1>4, <1>20 DEF MayRetry, Goes, ReviewTrail
    <2>2. RecoveryBase(c).allow \subseteq Reach(o, approved')
      BY <1>6, <2>1
    <2>3. RecoveryBase(c) \in Lease
      BY <1>2, LeaseType DEF RecoveryBase, Typed
    <2>4. n.lease.allow = RecoveryBase(c).allow \cup {o.req.root}
      BY <1>20, <2>1, <2>3 DEF Goes, Widened, Lease
    <2> QED BY <1>4, <1>5, <1>20, <2>1, <2>2, <2>4 DEF Goes, Kept, ReviewTrail, Replaying
  <1> QED BY <1>8, <1>10, <1>11, <1>12, <1>13, <1>14, <1>15, <1>16, <1>17, <1>18, <1>19, <1>20
          DEF GoesOn

(* A turn's remembered approvals follow its mode, its policy, its verdicts *)
(* and its end.                                                            *)
LEMMA TurnRemembers ==
  ASSUME Typed, RememberedIsLive, Turn
  PROVE  RememberedIsLive'
  <1>1. CASE approvals' = NoApprovals
    BY <1>1 DEF RememberedIsLive, NoApprovals
  <1>2. ASSUME NEW shot \in Snapshots, RefreshMode(shot), approvals' # NoApprovals
        PROVE  RememberedIsLive'
    <2>1. /\ approvals' = approvals /\ active' = active /\ generation' = generation
          /\ approved' = approved /\ snapshot'[generation] = shot
          /\ shot.mode = snapshot[generation].mode /\ shot.policy = snapshot[generation].policy
      BY <1>2 DEF RefreshMode, Typed, TypeOK, HomesBegun
    <2> QED BY <2>1 DEF RememberedIsLive
  <1> QED BY <1>1, <1>2 DEF Turn, BeginTurn, CloseTurn, Invalidate

LEMMA StepRemembers ==
  ASSUME Typed, Reviewed, NEW c \in CallId, CallStep(c) \/ Executor(c) \/ Abort(c)
  PROVE  RememberedIsLive'
  <1>1. UNCHANGED <<generation, active, snapshot>>
    BY StepKeepsTurns DEF Caller, turnVars
  <1>2. active => approved[generation] \subseteq approved'[generation]
    BY StepsGoOn DEF VerdictsGrow, Typed, HomesBegun
  <1>3. CASE approvals' = approvals
    BY <1>1, <1>2, <1>3 DEF Reviewed, RememberedIsLive
  <1>4. CASE approvals' = NoApprovals
    BY <1>4 DEF RememberedIsLive, NoApprovals
  <1>5. CASE Remember(c) /\ MayRemember(c)
    <2> DEFINE new == [kind |-> call[c].req.plan, asked |-> call[c].asked,
                       policy |-> Shot(c).policy, evidence |-> call[c].req.evidence]
    <2>1. /\ active /\ call[c].home = generation /\ Shot(c) = snapshot[generation]
          /\ snapshot[generation].mode = "auto"
          /\ call[c].asked \subseteq approved[generation]
      BY <1>5 DEF MayRemember, IsCurrent, Shot, Remember, Reviewed, ReviewTrail
    <2>2. \A a \in Action : approvals'[a] \in {approvals[a], new}
      BY <1>5 DEF Remember, Remembered, Typed, TypeOK
    <2>3. new.policy = snapshot[generation].policy /\ new.asked = call[c].asked
      BY <2>1
    <2> HIDE DEF new
    <2> QED BY <1>1, <1>2, <2>1, <2>2, <2>3 DEF Reviewed, RememberedIsLive
  <1>6. approvals' = approvals \/ approvals' = NoApprovals \/ (Remember(c) /\ MayRemember(c))
    <2>1. CASE Amend(c) \/ Remember(c)
      BY <2>1 DEF Amend, Remember, Remembered
    <2>2. CASE ~Amend(c) /\ ~Remember(c)
      BY <2>2 DEF CallStep, Executor, Abort, PolicyAnswer, ScopeAnswer, RecheckAnswer,
         ReconfirmAnswer, GuardianAnswer, ActOnDenial, ActOnApproval, Recover, Conclude,
         Settle, InlineRequest, InlineAnswer, InlineReject
    <2> QED BY <2>1, <2>2
  <1> QED BY <1>3, <1>4, <1>5, <1>6

(* An amendment widens its own turn by what its verdict approved.          *)
LEMMA StepAmends ==
  ASSUME Typed, Reviewed, NEW c \in CallId, CallStep(c) \/ Executor(c) \/ Abort(c)
  PROVE  AuthorityReviewed'
  <1>1. /\ \A g \in Generations : approved[g] \subseteq approved'[g]
        /\ authority \in [Generations -> SUBSET Enforceable]
    BY StepsGoOn DEF VerdictsGrow, Typed, TypeOK
  <1>2. CASE Amend(c)
    <2>1. call[c].req.requested \subseteq approved[call[c].home]
      BY <1>2 DEF Amend, Reviewed, ReviewTrail
    <2>2. authority' = [authority EXCEPT ![call[c].home] =
                          @ \cup (call[c].req.requested \cap Enforceable)]
      BY <1>2 DEF Amend, AmendedTurn
    <2> QED BY <1>1, <2>1, <2>2 DEF Reviewed, AuthorityReviewed
  <1>3. CASE ~Amend(c)
    <2>1. authority' = authority
      BY <1>3 DEF CallStep, Executor, Abort, PolicyAnswer, ScopeAnswer,
         RecheckAnswer, ReconfirmAnswer, GuardianAnswer, ActOnDenial, ActOnApproval,
         Remember, Recover, Conclude, Settle, InlineRequest, InlineAnswer, InlineReject
    <2> QED BY <1>1, <2>1 DEF Reviewed, AuthorityReviewed
  <1> QED BY <1>2, <1>3

LEMMA NextReviews == Typed /\ Reviewed /\ [Next]_vars => Reviewed'
  <1> SUFFICES ASSUME Typed, Reviewed, [Next]_vars PROVE Reviewed'
    OBVIOUS
  <1>1. \A c \in CallId : /\ call[c].pc # "idle" => call[c].home \in Generations
                          /\ ReviewTrail(call[c], approved)
    BY DEF Typed, HomesBegun, Reviewed
  <1>2. CASE Turn
    <2>1. ASSUME NEW c \in CallId PROVE ReviewTrail(call'[c], approved')
      <3>1. Unmoved(c) /\ approved' = approved
        BY <1>2, TurnsMoveNoCall
      <3> QED BY <1>1, <3>1 DEF Unmoved, Kept, ReviewTrail, Replaying, Reach, Outright
    <2>2. AuthorityReviewed'
      BY <1>2, TurnsMoveNoCall DEF Reviewed, AuthorityReviewed
    <2> QED BY <1>2, <2>1, <2>2, TurnRemembers DEF Reviewed
  <1>3. ASSUME NEW c \in CallId, CallStep(c) \/ Executor(c) \/ Abort(c)
        PROVE  Reviewed'
    <2>1. /\ ReviewTrail(call'[c], approved') /\ AuthorityReviewed' /\ RememberedIsLive'
          /\ \A d \in CallId : d # c => call'[d] = call[d]
      BY <1>3, StepReviewed, StepAmends, StepRemembers, StepMoves DEF CallMoves
    <2>2. \A g \in Generations : approved[g] \subseteq approved'[g]
      BY <1>3, StepsGoOn DEF VerdictsGrow
    <2>3. ASSUME NEW d \in CallId, d # c PROVE ReviewTrail(call[d], approved')
      BY <1>1, <2>2, TrailGrows
    <2> QED BY <2>1, <2>3 DEF Reviewed
  <1>4. ASSUME NEW c \in CallId, NEW r \in Requests, Submit(c, r) \/ SubmitUnrestricted(c, r)
        PROVE  Reviewed'
    <2>1. /\ active /\ generation \in Generations
          /\ \A d \in CallId : d # c => call'[d] = call[d]
          /\ UNCHANGED <<turnVars, authority, approvals, circuit, approved>>
          /\ call'[c].home = generation /\ call'[c].req = r
          /\ \/ /\ Submit(c, r) /\ call'[c].pc = "policy" /\ call'[c].route = "none"
                /\ call'[c].asked = AskedOf(generation, r)
             \/ /\ call'[c].pc = "running" /\ call'[c].route = "bare"
                /\ call'[c].asked = {} /\ call'[c].lease.mode = "unrestricted"
      BY <1>4, SubmissionsOpen
    <2>2. ASSUME Submit(c, r), NEW x \in r.requested, x \notin AskedOf(generation, r)
          PROVE  \/ r.owner # "amendment" /\ r.plan = "allow"
                 \/ x \in WithHosts(Base \cup approved[generation])
      BY <2>1, <2>2, AskedIsTheRest DEF Submit, Reviewed
    <2>3. Submit(c, r) => r.requested \subseteq AskedOf(generation, r) \cup Reach(call'[c], approved)
      BY <2>1, <2>2 DEF Reach, Outright
    <2>4. r.owner = "amendment" => AskedOf(generation, r) = r.requested
      BY DEF AskedOf
    <2>5. ReviewTrail(call'[c], approved)
      BY <2>1, <2>3, <2>4 DEF ReviewTrail, Replaying
    <2> QED BY <2>1, <2>5 DEF Reviewed, AuthorityReviewed, RememberedIsLive, turnVars
  <1>5. CASE UNCHANGED vars
    BY <1>5 DEF vars, turnVars, Reviewed, AuthorityReviewed, RememberedIsLive
  <1> QED BY <1>2, <1>3, <1>4, <1>5 DEF Next, Caller

(* What is shown of every reachable state: its shape, and how far verdicts *)
(* reach.                                                                  *)
Traced == Typed /\ Reviewed

LEMMA TracedAlways == Spec => []Traced
  <1>1. Init => Traced
    <2> SUFFICES ASSUME Init PROVE Traced
      OBVIOUS
    <2>1. Idle.pc = "idle" /\ Idle.route = "none"
      BY DEF Idle
    <2>2. Reviewed
      BY <2>1 DEF Init, Reviewed, AuthorityReviewed, RememberedIsLive, NoApprovals, ReviewTrail, Replaying
    <2> QED BY <2>2, InitTyped DEF Traced
  <1>2. Traced /\ [Next]_vars => Traced'
    BY NextTyped, NextReviews DEF Traced
  <1> QED BY <1>1, <1>2, PTL DEF Spec

(* For any calls, turns, policies and requests: a confined executor runs   *)
(* with what the base policies allow, verdicts of its own turn approved or *)
(* its plan allowed outright, and nothing else (engine.ts:471-501).        *)
THEOREM RunsAlwaysReviewed == Spec => []RunsReviewed
  <1>1. Traced => RunsReviewed
    <2>1. ASSUME Traced, NEW c \in CallId, call[c].pc = "running"
          PROVE  /\ call[c].asked \subseteq approved[call[c].home]
                 /\ call[c].lease.mode = "sandboxed" =>
                      call[c].lease.allow \subseteq Reach(call[c], approved)
      BY <2>1 DEF Traced, Reviewed, ReviewTrail
    <2>2. ASSUME NEW c \in CallId
          PROVE  Reach(call[c], approved) = AllowedOutright(c) \cup
                   WithHosts((UNION {p.allow : p \in Policies}) \cup approved[call[c].home])
      BY Zenon DEF Reach, Outright, AllowedOutright, Base
    <2> QED BY <2>1, <2>2, Zenon DEF RunsReviewed
  <1> QED BY <1>1, TracedAlways, PTL

(* Turn-wide authority never exceeds what verdicts of the same turn         *)
(* approved: no amendment reaches another turn than its own, whatever runs  *)
(* between its verdict and the completion that applies it.                  *)
THEOREM AuthorityAlwaysReviewed == Spec => []AuthorityReviewed
  <1>1. Traced => AuthorityReviewed
    BY DEF Traced, Reviewed
  <1> QED BY <1>1, TracedAlways, PTL

(* A remembered approval could still be given: its turn is active, under   *)
(* the policy it pins, and a verdict of that turn approved its scope       *)
(* (engine.ts:1948-1950).                                                  *)
THEOREM RememberedIsAlwaysLive == Spec => []RememberedIsLive
  <1>1. Traced => RememberedIsLive
    BY DEF Traced, Reviewed
  <1> QED BY <1>1, TracedAlways, PTL

(* The body of ReplaysOnceReviewed. *)
ReplaysOnce ==
  \A c \in CallId :
    /\ call[c].pc = "reconfirm" /\ call'[c].pc = "running" =>
         call[c].req.root \in call[c].own
    /\ call[c].route = "retry" /\ call[c].pc \in {"running", "settled"} =>
         call'[c] = Idle \/ (call'[c].route = "retry" /\ call'[c].pc \in {"running", "settled"})

(* A native action is replayed once at most, and only under a root that a  *)
(* verdict of its own, given after its failure, approved, whatever other   *)
(* calls were approved in its turn (engine.ts:1155-1173, 1228-1269).       *)
THEOREM ReplaysAlwaysOnce == Spec => ReplaysOnceReviewed
  <1>1. Traced /\ [Next]_vars => ReplaysOnce
    <2> SUFFICES ASSUME Traced, [Next]_vars, NEW c \in CallId,
                        call[c].route = "retry", call[c].pc \in {"running", "settled"}
                 PROVE  \/ call'[c] = Idle
                        \/ call'[c].route = "retry" /\ call'[c].pc \in {"running", "settled"}
      BY DEF Traced, Reviewed, ReviewTrail, ReplaysOnce
    <2>1. Typed
      BY DEF Traced
    <2>2. CASE Turn
      BY <2>1, <2>2, TurnsMoveNoCall DEF Unmoved
    <2>3. ASSUME NEW d \in CallId, CallStep(d) \/ Executor(d) \/ Abort(d), d # c
          PROVE  call'[c] = call[c]
      BY <2>1, <2>3, StepMoves DEF CallMoves
    <2>4. CASE CallStep(c) \/ Executor(c) \/ Abort(c)
      <3>1. call'[c] = Idle \/ GoesOn(c)
        BY <2>1, <2>4, StepsGoOn
      <3>2. ~MayRetry(c)
        BY DEF MayRetry
      <3> QED BY <3>1, <3>2 DEF GoesOn, AsksReview, Enters, Goes, Waits, Unmoved
    <2>5. ASSUME NEW d \in CallId, NEW r \in Requests, Submit(d, r) \/ SubmitUnrestricted(d, r)
          PROVE  call'[c] = call[c]
      BY <2>1, <2>5, SubmissionsOpen
    <2>6. CASE UNCHANGED vars
      BY <2>6 DEF vars
    <2> QED BY <2>2, <2>3, <2>4, <2>5, <2>6 DEF Next, Caller
  <1>2. Traced /\ [Next]_vars => [ReplaysOnce]_vars
    BY <1>1
  <1>3. Spec => [][ReplaysOnce]_vars
    BY <1>2, TracedAlways, PTL DEF Spec
  <1> QED BY <1>3 DEF ReplaysOnceReviewed, ReplaysOnce
-------------------------------------------------------------------------------
(* Reviews in flight may carry the run of denials over the threshold, each *)
(* by one; none starts while the circuit is open.                          *)
Metered == ClosedIsShort(circuit) /\ DenialsBounded

(* What a step of a call does to the circuit and to who may be denied.     *)
LEMMA StepMeters ==
  ASSUME Typed, NEW c \in CallId, CallStep(c) \/ Executor(c) \/ Abort(c)
  PROVE  \/ circuit' = circuit /\ Deniable' \subseteq Deniable
         \/ circuit' = circuit /\ ~circuit.open
         \/ circuit' = RecordDenial(circuit) /\ c \in Deniable /\ Deniable' \subseteq Deniable \ {c}
         \/ circuit' = RecordSuccess(circuit)
  <1>1. /\ call \in [CallId -> Call] /\ call[c] \in Call
        /\ call'[c] = Idle \/ GoesOn(c)
        /\ \A d \in CallId : d # c => call'[d] = call[d]
    BY StepMoves, StepsGoOn DEF Typed, TypeOK, CallMoves
  <1>2. ASSUME c \in Deniable' => c \in Deniable PROVE Deniable' \subseteq Deniable
    BY <1>1, <1>2 DEF Deniable
  <1>3. Idle.pc = "idle"
    BY DEF Idle
  <1>4. CASE ActOnDenial(c)
    <2>1. call'[c] = Idle
      BY <1>1, <1>4 DEF ActOnDenial, Return
    <2>2. c \in Deniable /\ c \notin Deniable'
      BY <1>3, <1>4, <2>1 DEF ActOnDenial, Deniable
    <2> QED BY <1>2, <1>4, <2>2 DEF ActOnDenial
  <1>5. ASSUME NEW answer \in Answers, GuardianAnswer(c, answer), circuit' = circuit
        PROVE  Deniable' \subseteq Deniable
    <2>1. c \in Deniable
      BY <1>5 DEF GuardianAnswer, Deniable
    <2> QED BY <1>2, <2>1
  <1>6. ASSUME NEW answer \in Answers, GuardianAnswer(c, answer)
        PROVE  circuit' = circuit \/ circuit' = RecordSuccess(circuit)
    BY <1>6 DEF GuardianAnswer
  <1>7. CASE ~ActOnDenial(c) /\ ~\E answer \in Answers : GuardianAnswer(c, answer)
    <2>1. circuit' = circuit
      BY <1>7 DEF CallStep, Executor, Abort, PolicyAnswer, ScopeAnswer, RecheckAnswer,
         ReconfirmAnswer, ActOnApproval, Amend, Remember, Recover, Conclude,
         Settle, InlineRequest, InlineAnswer, InlineReject
    <2>2. CASE call'[c] = Idle
      BY <1>2, <1>3, <2>1, <2>2 DEF Deniable
    <2>3. CASE Waits(c)
      BY <1>2, <2>1, <2>3 DEF Waits, Unmoved, Deniable
    <2>4. CASE GoesOn(c) /\ ~Waits(c) /\ circuit.open
      <3>1. c \in Deniable' => c \in Deniable
        BY <2>4 DEF GoesOn, AsksReview, Enters, Goes, Deniable
      <3> QED BY <1>2, <2>1, <3>1
    <2>5. circuit.open \in BOOLEAN
      BY DEF Typed, TypeOK, Circuit
    <2> QED BY <1>1, <2>1, <2>2, <2>3, <2>4, <2>5
  <1> QED BY <1>4, <1>5, <1>6, <1>7

LEMMA NextMeters ==
  IsFiniteSet(CallId) /\ Typed /\ Metered /\ [Next]_vars => Metered'
  <1> SUFFICES ASSUME IsFiniteSet(CallId), Typed, Metered, [Next]_vars PROVE Metered'
    OBVIOUS
  <1> DEFINE n == Cardinality(CallId)
  <1>1. /\ circuit \in Circuit /\ circuit.run \in Nat /\ circuit.open \in BOOLEAN
        /\ MaxConsecutive \in Nat \ {0}
    BY CircuitAssumption DEF Typed, TypeOK, Circuit
  <1>2. /\ IsFiniteSet(Deniable) /\ Cardinality(Deniable) \in Nat /\ n \in Nat
        /\ IsFiniteSet(Deniable') /\ Cardinality(Deniable') \in Nat
        /\ Cardinality(Deniable') <= n
    BY FS_Subset, FS_CardinalityType DEF Deniable
  <1>3. /\ ClosedIsShort(FreshCircuit) /\ ClosedIsShort(RecordDenial(circuit))
        /\ ClosedIsShort(RecordSuccess(circuit)) /\ FreshCircuit.run = 0
        /\ RecordDenial(circuit).run = circuit.run + 1 /\ RecordSuccess(circuit).run = 0
    BY <1>1, ClosedStaysShort DEF FreshCircuit
  <1>4. CASE circuit'.run = 0 /\ ClosedIsShort(circuit')
    BY <1>1, <1>2, <1>4 DEF Metered, DenialsBounded
  <1>5. CASE circuit' = circuit /\ Deniable' \subseteq Deniable
    <2>1. Cardinality(Deniable') <= Cardinality(Deniable)
      BY <1>2, <1>5, FS_Subset
    <2> QED BY <1>1, <1>2, <1>5, <2>1 DEF Metered, DenialsBounded
  <1>6. CASE circuit' = circuit /\ ~circuit.open
    BY <1>1, <1>2, <1>6 DEF Metered, DenialsBounded, ClosedIsShort
  <1>7. ASSUME NEW c \in Deniable, circuit' = RecordDenial(circuit),
               Deniable' \subseteq Deniable \ {c}
        PROVE  Metered'
    <2>1. /\ IsFiniteSet(Deniable \ {c})
          /\ Cardinality(Deniable \ {c}) = Cardinality(Deniable) - 1
      BY <1>2, FS_RemoveElement
    <2>2. Cardinality(Deniable') <= Cardinality(Deniable) - 1
      BY <1>7, <2>1, FS_Subset
    <2> QED BY <1>1, <1>2, <1>3, <1>7, <2>2 DEF Metered, DenialsBounded
  <1>8. CASE Turn
    <2>1. \A c \in CallId : Unmoved(c)
      BY <1>8, TurnsMoveNoCall
    <2>2. Deniable' \subseteq Deniable
      BY <2>1 DEF Unmoved, Deniable
    <2>3. circuit' = circuit \/ circuit' = FreshCircuit
      BY <1>8 DEF Turn, BeginTurn, RefreshMode, CloseTurn, Invalidate
    <2> QED BY <1>3, <1>4, <1>5, <2>2, <2>3
  <1>9. ASSUME NEW c \in CallId, CallStep(c) \/ Executor(c) \/ Abort(c)
        PROVE  Metered'
    BY <1>3, <1>4, <1>5, <1>6, <1>7, <1>9, StepMeters
  <1>10. ASSUME NEW c \in CallId, NEW r \in Requests, Submit(c, r) \/ SubmitUnrestricted(c, r)
         PROVE  Metered'
    <2>1. /\ circuit' = circuit /\ call'[c].pc \notin {"review", "verdict"}
          /\ \A d \in CallId : d # c => call'[d] = call[d]
      BY <1>10, SubmissionsOpen
    <2>2. Deniable' \subseteq Deniable
      BY <2>1 DEF Deniable
    <2> QED BY <1>5, <2>1, <2>2
  <1>11. CASE UNCHANGED vars
    <2>1. circuit' = circuit /\ Deniable' = Deniable
      BY <1>11 DEF vars, Deniable
    <2> QED BY <1>5, <2>1
  <1> QED BY <1>8, <1>9, <1>10, <1>11 DEF Next, Caller

(* With finitely many calls in flight, the denials a closed circuit lets   *)
(* happen stay short of its threshold by the reviews that may still deny,  *)
(* however turns are replaced under them (engine.ts:652, 1597, 1702).      *)
THEOREM DenialsAlwaysBounded ==
  ASSUME IsFiniteSet(CallId)
  PROVE  Spec => []DenialsBounded
  <1>1. Init => Metered
    <2> SUFFICES ASSUME Init PROVE Metered
      OBVIOUS
    <2>1. Deniable = {}
      <3>1. Idle.pc = "idle"
        BY DEF Idle
      <3> QED BY <3>1 DEF Init, Deniable
    <2>2. Cardinality(Deniable) = 0 /\ Cardinality(CallId) \in Nat
      BY <2>1, FS_EmptySet, FS_CardinalityType
    <2> QED BY <2>2, CircuitAssumption
            DEF Init, Metered, FreshCircuit, ClosedIsShort, DenialsBounded
  <1>2. Metered => DenialsBounded
    BY DEF Metered
  <1> QED BY <1>1, <1>2, InitTyped, NextTyped, NextMeters, PTL DEF Spec
-------------------------------------------------------------------------------
(* The Engine implements TurnContract, for any number of calls and turns.  *)

Inside == {"running", "settled"}

(* How a step of a call moves it across an executor's boundary. *)
Begins(c) == /\ call[c].pc \notin Inside /\ call'[c].pc = "running"
             /\ IsCurrent(c) /\ ~Stopping(c)'
Stays(c) == /\ call[c].pc = "running" /\ call'[c].pc = "running"
            /\ Stopping(c) => Stopping(c)'
Finishes(c) == /\ call[c].pc = "running" /\ call'[c].pc = "settled"
               /\ IsCurrent(c) /\ ~Stopping(c)
Rests(c) == call[c].pc = "settled" /\ call'[c].pc = "settled"

(* Every step of a call is one of these, or takes it out of its executor.  *)
LEMMA StepPhases ==
  ASSUME Typed, NEW c \in CallId, CallStep(c) \/ Executor(c) \/ Abort(c)
  PROVE  \/ Begins(c) \/ Stays(c) \/ Finishes(c) \/ Rests(c)
         \/ call'[c].pc \notin Inside
  <1> DEFINE Goal == \/ Begins(c) \/ Stays(c) \/ Finishes(c) \/ Rests(c)
                     \/ call'[c].pc \notin Inside
  <1> SUFFICES Goal
    OBVIOUS
  <1>1. /\ call \in [CallId -> Call] /\ call[c] \in Call
        /\ Return(c)[c].pc = "idle"
    BY DEF Typed, TypeOK, Return, Idle
  <1>2. ASSUME NEW route, NEW lease, call[c].pc \notin Inside, call' = Launch(c, route, lease)
        PROVE  Goal
    BY <1>1, <1>2 DEF Launch, MayStart, Begins, Stopping, Inside, Call
  <1>3. ASSUME NEW route, call' = Review(c, route) PROVE Goal
    BY <1>1, <1>3 DEF Review, Inside
  <1>4. ASSUME NEW pc \in {"scope", "reconfirm"}, call' = Park(c, pc) PROVE Goal
    BY <1>1, <1>4 DEF Park, Inside
  <1>5. CASE call' = Return(c)
    BY <1>1, <1>5 DEF Inside
  <1>6. ASSUME NEW ok \in BOOLEAN, PolicyAnswer(c, ok) PROVE Goal
    BY <1>2, <1>4, <1>5, <1>6 DEF PolicyAnswer, Inside
  <1>7. ASSUME NEW ok \in BOOLEAN, ScopeAnswer(c, ok) PROVE Goal
    BY <1>2, <1>3, <1>5, <1>7 DEF ScopeAnswer, Inside
  <1>8. ASSUME NEW ok \in BOOLEAN, RecheckAnswer(c, ok) \/ ReconfirmAnswer(c, ok) PROVE Goal
    BY <1>2, <1>3, <1>5, <1>8 DEF RecheckAnswer, ReconfirmAnswer, Inside
  <1>9. CASE ActOnApproval(c)
    BY <1>2, <1>4, <1>9 DEF ActOnApproval, Inside
  <1>10. ASSUME NEW answer \in Answers, GuardianAnswer(c, answer) PROVE Goal
    <2>1. CASE call' = [call EXCEPT ![c].pc = "verdict", ![c].approve = (answer = "approve"),
                          ![c].own = IF answer = "approve" THEN Granted(c) ELSE {}]
      BY <1>1, <2>1 DEF Inside
    <2> QED BY <1>5, <1>10, <2>1 DEF GuardianAnswer
  <1>11. CASE ActOnDenial(c) \/ Amend(c) \/ Remember(c) \/ Conclude(c)
    BY <1>5, <1>11 DEF ActOnDenial, Amend, Remember, Conclude
  <1>12. CASE Recover(c)
    <2>1. call'[c].pc = "recheck"
      BY <1>1, <1>12 DEF Recover, Call
    <2> QED BY <2>1 DEF Inside
  <1>13. ASSUME NEW result \in {"completed", "native", "failed"}, Settle(c, result) PROVE Goal
    <2>1. CASE Wins(c) /\ call' = [call EXCEPT ![c].pc = "settled", ![c].result = result,
                                               ![c].lease = NoLease, ![c].pending = {}]
      BY <1>1, <1>13, <2>1 DEF Settle, Finishes, Wins, Call
    <2> QED BY <1>5, <1>13, <2>1 DEF Settle
  <1>14. ASSUME NEW h \in Host, InlineRequest(c, h) PROVE Goal
    BY <1>1, <1>14 DEF InlineRequest, MayAsk, Denied, Stopping, Stays, Call
  <1>15. ASSUME NEW h \in Host, NEW ok \in BOOLEAN, InlineAnswer(c, h, ok) PROVE Goal
    BY <1>1, <1>15 DEF InlineAnswer, Denied, Stopping, Stays, Call
  <1>16. CASE InlineReject(c)
    BY <1>1, <1>16 DEF InlineReject, MayAsk, Denied, Stopping, Stays, Call
  <1>17. CASE Abort(c)
    BY <1>1, <1>17 DEF Abort, Stopping, Stays, Rests, Inside, Call
  <1> QED BY <1>6, <1>7, <1>8, <1>9, <1>10, <1>11, <1>12, <1>13, <1>14, <1>15, <1>16, <1>17
          DEF CallStep, Executor

Phases == [c \in CallId |-> PhaseOf(c)]
Unders == [c \in CallId |-> UnderOf(c)]
Told == {c \in CallId : call[c].pc = "running" /\ Stopping(c)}
GrantedNow == IF active THEN authority[generation] ELSE {}

(* A step of one call is a step of the contract, or none it can see.       *)
LEMMA StepMaps ==
  ASSUME Typed, NEW c \in CallId, CallStep(c) \/ Executor(c) \/ Abort(c)
  PROVE  [Contract!Next]_Contract!cvars
  <1>1. /\ call \in [CallId -> Call] /\ call[c] \in Call
        /\ UNCHANGED <<generation, active, snapshot>>
        /\ \A d \in CallId : d # c => call'[d] = call[d]
        /\ call'[c].pc # "idle" => call'[c].home = call[c].home
    <2>1. CallMoves(c)
      BY StepMoves
    <2>2. UNCHANGED turnVars
      BY StepKeepsTurns DEF Caller
    <2> QED BY <2>1, <2>2 DEF Typed, TypeOK, CallMoves, turnVars
  <1>2. \A d \in CallId : d # c => /\ PhaseOf(d)' = PhaseOf(d) /\ UnderOf(d)' = UnderOf(d)
                                   /\ d \in Told' <=> d \in Told
    BY <1>1 DEF PhaseOf, UnderOf, Told, Stopping
  <1>3. CASE Amend(c)
    <2>1. call'[c] = Idle /\ call[c].pc = "settled" /\ call[c].home \in Generations
      BY <1>1, <1>3 DEF Amend, Return, Typed, HomesBegun
    <2>2. PhaseOf(c) = "won" /\ PhaseOf(c)' = "out" /\ UnderOf(c) = call[c].home
            /\ UnderOf(c)' = 0
      BY <2>1 DEF PhaseOf, UnderOf, Idle
    <2>3. Told' = Told
      BY <1>2, <2>1 DEF Told, Idle
    <2>4. Phases' = [Phases EXCEPT ![c] = "out"] /\ Unders' = [Unders EXCEPT ![c] = 0]
      BY <1>2, <2>2 DEF Phases, Unders
    <2>5. GrantedNow' = IF active /\ UnderOf(c) = generation
                        THEN GrantedNow \cup (call[c].req.requested \cap Enforceable)
                        ELSE GrantedNow
      BY <1>1, <1>3, <2>1, <2>2
         DEF Amend, AmendedTurn, GrantedNow, Typed, TypeOK, HomesBegun
    <2>6. Phases[c] = "won" /\ Unders[c] = UnderOf(c)
      BY <2>2 DEF Phases, Unders
    <2>7. Contract!Widen(c, call[c].req.requested \cap Enforceable)
      BY <1>1, <2>3, <2>4, <2>5, <2>6 DEF Contract!Widen, Phases, Unders, Told, GrantedNow
    <2> QED BY <2>7 DEF Contract!Next
  <1>4. CASE ~Amend(c)
    <2>1. authority' = authority /\ GrantedNow' = GrantedNow
      BY <1>1, <1>4 DEF CallStep, Executor, Abort, PolicyAnswer, ScopeAnswer, GrantedNow,
         RecheckAnswer, ReconfirmAnswer, GuardianAnswer, ActOnDenial, ActOnApproval,
         Remember, Recover, Conclude, Settle, InlineRequest, InlineAnswer, InlineReject
    <2>2. CASE Begins(c)
      <3>1. /\ Phases[c] = "out" /\ Phases' = [Phases EXCEPT ![c] = "in"]
            /\ Unders' = [Unders EXCEPT ![c] = generation] /\ Told' = Told
        BY <1>1, <1>2, <2>2 DEF Begins, Inside, Phases, Unders, Told, PhaseOf, UnderOf, IsCurrent
      <3>2. Contract!Enter(c)
        BY <1>1, <2>1, <2>2, <3>1
           DEF Contract!Enter, Begins, IsCurrent, Phases, Unders, Told, GrantedNow
      <3> QED BY <3>2 DEF Contract!Next
    <2>3. CASE Stays(c)
      <3>1. /\ Phases[c] = "in" /\ Phases' = Phases /\ Unders' = Unders
            /\ Told' = Told \/ Told' = Told \cup {c}
        BY <1>1, <1>2, <2>3 DEF Stays, Phases, Unders, Told, PhaseOf, UnderOf
      <3>2. CASE Told' = Told \cup {c}
        BY <1>1, <2>1, <3>1, <3>2
           DEF Contract!Tell, Contract!Next, Phases, Unders, Told, GrantedNow
      <3>3. CASE Told' = Told
        BY <1>1, <2>1, <3>1, <3>3 DEF Contract!cvars, Phases, Unders, Told, GrantedNow
      <3> QED BY <3>1, <3>2, <3>3
    <2>4. CASE Finishes(c)
      <3>1. /\ Phases[c] = "in" /\ Phases' = [Phases EXCEPT ![c] = "won"] /\ Unders' = Unders
            /\ Unders[c] = generation /\ c \notin Told /\ Told' = Told
        BY <1>1, <1>2, <2>4
           DEF Finishes, Phases, Unders, Told, PhaseOf, UnderOf, IsCurrent
      <3>2. Contract!Win(c)
        BY <1>1, <2>1, <2>4, <3>1
           DEF Contract!Win, Finishes, IsCurrent, Phases, Unders, Told, GrantedNow
      <3> QED BY <3>2 DEF Contract!Next
    <2>5. CASE Rests(c) \/ (call[c].pc \notin Inside /\ call'[c].pc \notin Inside)
      <3>1. Phases' = Phases /\ Unders' = Unders /\ Told' = Told
        BY <1>1, <1>2, <2>5 DEF Rests, Inside, Phases, Unders, Told, PhaseOf, UnderOf
      <3> QED BY <1>1, <2>1, <3>1 DEF Contract!cvars, Phases, Unders, Told, GrantedNow
    <2>6. CASE call[c].pc \in Inside /\ call'[c].pc \notin Inside
      <3>1. /\ Phases[c] # "out" /\ Phases' = [Phases EXCEPT ![c] = "out"]
            /\ Unders' = [Unders EXCEPT ![c] = 0] /\ Told' = Told \ {c}
        BY <1>1, <1>2, <2>6 DEF Inside, Phases, Unders, Told, PhaseOf, UnderOf
      <3>2. Contract!Leave(c)
        BY <1>1, <2>1, <3>1 DEF Contract!Leave, Phases, Unders, Told, GrantedNow
      <3> QED BY <3>2 DEF Contract!Next
    <2> QED BY <2>2, <2>3, <2>4, <2>5, <2>6, StepPhases
  <1> QED BY <1>3, <1>4

(* Submitting a call enters an executor under yolo, else nothing is seen.  *)
LEMMA SubmitMaps ==
  ASSUME Typed, NEW c \in CallId, NEW r \in Requests,
         Submit(c, r) \/ SubmitUnrestricted(c, r)
  PROVE  [Contract!Next]_Contract!cvars
  <1>1. /\ call \in [CallId -> Call] /\ UNCHANGED turnVars /\ active
        /\ call[c].pc = "idle" /\ UNCHANGED authority
    BY StepKeepsTurns DEF Typed, TypeOK, Caller, Submit, SubmitUnrestricted
  <1>2. /\ \A d \in CallId : d # c => call'[d] = call[d]
        /\ call'[c].home = generation
        /\ call'[c].stop = "none" /\ ~call'[c].aborted
        /\ call'[c].pc = IF Submit(c, r) THEN "policy" ELSE "running"
    <2> DEFINE bare == [Idle EXCEPT !.pc = "running", !.home = generation, !.req = r,
                          !.route = "bare", !.lease = LeaseWith(generation, r.owner, {})]
    <2>1. call' = [call EXCEPT ![c] = IF Submit(c, r) THEN Opened(c, r) ELSE bare]
      BY DEF Submit, SubmitUnrestricted
    <2>2. /\ bare.pc = "running" /\ bare.home = generation
          /\ bare.stop = "none" /\ ~bare.aborted
      BY DEF Idle
    <2>3. /\ Opened(c, r).pc = "policy" /\ Opened(c, r).home = generation
          /\ Opened(c, r).stop = "none" /\ ~Opened(c, r).aborted
      BY DEF Opened, Idle
    <2> HIDE DEF bare
    <2> QED BY <1>1, <2>1, <2>2, <2>3
  <1>3. \A d \in CallId : d # c => /\ PhaseOf(d)' = PhaseOf(d) /\ UnderOf(d)' = UnderOf(d)
                                   /\ d \in Told' <=> d \in Told
    BY <1>2 DEF PhaseOf, UnderOf, Told, Stopping
  <1>4. Told' = Told /\ GrantedNow' = GrantedNow
    BY <1>1, <1>2, <1>3 DEF Told, Stopping, GrantedNow, turnVars
  <1>5. CASE Submit(c, r)
    <2>1. Phases' = Phases /\ Unders' = Unders
      BY <1>1, <1>2, <1>3, <1>5 DEF Phases, Unders, PhaseOf, UnderOf
    <2> QED BY <1>1, <1>4, <2>1 DEF Contract!cvars, Phases, Unders, Told, GrantedNow, turnVars
  <1>6. CASE ~Submit(c, r)
    <2>1. /\ Phases[c] = "out" /\ Phases' = [Phases EXCEPT ![c] = "in"]
          /\ Unders' = [Unders EXCEPT ![c] = generation]
      BY <1>1, <1>2, <1>3, <1>6 DEF Phases, Unders, PhaseOf, UnderOf
    <2>2. Contract!Enter(c)
      BY <1>1, <1>4, <2>1 DEF Contract!Enter, Phases, Unders, Told, GrantedNow, turnVars
    <2> QED BY <2>2 DEF Contract!Next
  <1> QED BY <1>5, <1>6

(* Ending a turn, or opening one, is the contract's turnover; refreshing   *)
(* its mode is not seen.                                                   *)
LEMMA TurnMaps ==
  ASSUME Typed, DeadAttemptsStopped, Turn
  PROVE  [Contract!Next]_Contract!cvars
  <1> DEFINE Closing == CloseTurn \/ Invalidate \/ \E shot \in Snapshots : BeginTurn(shot)
  <1>1. /\ TypeOK /\ call \in [CallId -> Call]
        /\ authority \in [Generations -> SUBSET Enforceable]
        /\ generation \in 0..MaxGeneration /\ active \in BOOLEAN
        /\ active => generation \in Generations
    BY DEF Typed, TypeOK, HomesBegun
  <1>2. \A c \in CallId : call'[c].pc = call[c].pc /\ call'[c].home = call[c].home
    BY <1>1, StoppedType DEF Turn, BeginTurn, CloseTurn, Invalidate, RefreshMode
  <1>3. Phases' = Phases /\ Unders' = Unders
    BY <1>2 DEF Phases, Unders, PhaseOf, UnderOf
  <1>4. CASE \E shot \in Snapshots : RefreshMode(shot)
    <2>1. UNCHANGED <<generation, active, authority, call>>
      BY <1>4 DEF RefreshMode
    <2> QED BY <1>3, <2>1 DEF Contract!cvars, Phases, Unders, Told, GrantedNow, Stopping
  <1>5. CASE Closing
    <2>1. \A c \in CallId : call[c].pc = "running" => Stopping(c)'
      <3> SUFFICES ASSUME NEW c \in CallId, call[c].pc = "running" PROVE Stopping(c)'
        OBVIOUS
      <3>1. CASE active
        <4>1. call' = Stopped(CloseTargets) /\ c \in CloseTargets
          BY <1>5, <3>1 DEF CloseTurn, Invalidate, BeginTurn, CloseTargets, AttemptsToStop
        <4> QED BY <1>1, <4>1, StoppedType DEF Stopping
      <3>2. CASE ~active
        <4>1. Stopping(c)
          BY <3>2 DEF DeadAttemptsStopped, IsCurrent
        <4>2. call' = Stopped(CloseTargets) \/ call' = call
          BY <1>5, <3>2 DEF CloseTurn, Invalidate, BeginTurn
        <4> QED BY <1>1, <4>1, <4>2, StoppedType DEF Stopping
      <3> QED BY <3>1, <3>2
    <2>2. Told' = {c \in CallId : Phases[c] = "in"}
      BY <1>2, <2>1 DEF Told, Phases, PhaseOf
    <2>3. GrantedNow' = {}
      <3>1. CASE CloseTurn \/ Invalidate
        BY <3>1 DEF CloseTurn, Invalidate, GrantedNow
      <3>2. CASE \E shot \in Snapshots : BeginTurn(shot)
        <4>1. generation' \in Generations /\ authority'[generation'] = {}
          BY <1>1, <3>2, EngineAssumption DEF BeginTurn, Generations
        <4> QED BY <4>1 DEF GrantedNow
      <3> QED BY <1>5, <3>1, <3>2
    <2>4. /\ \/ active' = FALSE /\ generation' \in {generation, generation + 1}
             \/ active' = TRUE /\ generation' = generation + 1
          /\ generation' <= MaxGeneration
      BY <1>1, <1>5, EngineAssumption DEF CloseTurn, Invalidate, BeginTurn
    <2>5. Contract!Turnover
      BY <1>3, <2>2, <2>3, <2>4
         DEF Contract!Turnover, Contract!Inside, Phases, Unders, Told, GrantedNow
    <2> QED BY <2>5 DEF Contract!Next
  <1> QED BY <1>4, <1>5 DEF Turn

(* Every step of the Engine is one of the contract, or none it can see.    *)
LEMMA NextMaps ==
  Typed /\ DeadAttemptsStopped /\ [Next]_vars => [Contract!Next]_Contract!cvars
  <1> SUFFICES ASSUME Typed, DeadAttemptsStopped, [Next]_vars
               PROVE  [Contract!Next]_Contract!cvars
    OBVIOUS
  <1>1. CASE Turn
    BY <1>1, TurnMaps
  <1>2. ASSUME NEW c \in CallId, Caller(c) \/ CallStep(c) \/ Executor(c)
        PROVE  [Contract!Next]_Contract!cvars
    BY <1>2, SubmitMaps, StepMaps DEF Caller
  <1>3. CASE UNCHANGED vars
    BY <1>3 DEF vars, Contract!cvars, PhaseOf, UnderOf, Stopping
  <1> QED BY <1>1, <1>2, <1>3 DEF Next

(* The Engine starts where the contract does. *)
LEMMA InitMaps == Init => Contract!Init
  <1> SUFFICES ASSUME Init PROVE Contract!Init
    OBVIOUS
  <1>1. \A c \in CallId : call[c].pc = "idle"
    BY DEF Init, Idle
  <1> QED BY <1>1 DEF Init, Contract!Init, PhaseOf, UnderOf

(* The Engine implements the turn contract: executors are entered, told,   *)
(* finished and rewarded only as it allows, through every interleaving.    *)
THEOREM EngineImplementsContract == Spec => ImplementsContract
  <1>1. Init => DeadAttemptsStopped
    BY DEF Init, DeadAttemptsStopped, Idle
  <1> QED BY <1>1, InitTyped, NextTyped, NextStops, InitMaps, NextMaps, PTL
          DEF Spec, ImplementsContract, Contract!Spec

(* The contract keeps what it promises, step by step.                      *)
LEMMA ContractInitial == Contract!Init => Contract!ContractInv
  <1> SUFFICES ASSUME Contract!Init PROVE Contract!ContractInv
    OBVIOUS
  <1>1. Contract!Inside = {}
    BY DEF Contract!Init, Contract!Inside
  <1> QED BY <1>1 DEF Contract!Init, Contract!ContractInv, Contract!OnlyTheLiveTurnActs

LEMMA ContractStep ==
  Contract!ContractInv /\ [Contract!Next]_Contract!cvars => Contract!ContractInv'
  <1> SUFFICES ASSUME Contract!ContractInv, [Contract!Next]_Contract!cvars
               PROVE  Contract!ContractInv'
    OBVIOUS
  <1> USE DEF Contract!ContractInv, Contract!Inside, Contract!OnlyTheLiveTurnActs
  <1>1. CASE Contract!Turnover
    BY <1>1 DEF Contract!Turnover
  <1>2. ASSUME NEW c \in CallId, Contract!Enter(c) PROVE Contract!ContractInv'
    BY <1>2 DEF Contract!Enter
  <1>3. ASSUME NEW c \in CallId, Contract!Tell(c) PROVE Contract!ContractInv'
    BY <1>3 DEF Contract!Tell
  <1>4. ASSUME NEW c \in CallId, Contract!Leave(c) PROVE Contract!ContractInv'
    BY <1>4 DEF Contract!Leave
  <1>5. ASSUME NEW c \in CallId, Contract!Win(c) PROVE Contract!ContractInv'
    BY <1>5 DEF Contract!Win
  <1>6. ASSUME NEW c \in CallId, NEW caps \in SUBSET Enforceable, Contract!Widen(c, caps)
        PROVE  Contract!ContractInv'
    BY <1>6 DEF Contract!Widen
  <1>7. CASE UNCHANGED Contract!cvars
    BY <1>7 DEF Contract!cvars
  <1> QED
    BY <1>1, <1>2, <1>3, <1>4, <1>5, <1>6, <1>7 DEF Contract!Next

(* However turns come and go, no executor works for a turn that is over    *)
(* without having been told, and authority never outlives the turn that    *)
(* won it.                                                                 *)
THEOREM ContractKept == Contract!Spec => []Contract!OnlyTheLiveTurnActs
  <1>1. Contract!ContractInv => Contract!OnlyTheLiveTurnActs
    BY DEF Contract!ContractInv
  <1> QED
    BY ContractInitial, ContractStep, <1>1, PTL DEF Contract!Spec
===============================================================================
