-------------------------------- MODULE Engine --------------------------------
(***************************************************************************)
(* The Permission Engine (pi-safety/src/engine.ts) at the granularity of   *)
(* its awaits: every action below is one stretch of code that runs without *)
(* yielding, and a call parked at an await is a value of its "pc".         *)
(*                                                                         *)
(*   policy     awaiting the hard policy's answer to the admission         *)
(*   scope      awaiting it for the scope about to be reviewed             *)
(*   review     awaiting guardian.review                                   *)
(*   verdict    the reviewer answered, runReview's promise has resolved    *)
(*   running    awaiting the executor (inside executeAttempt)              *)
(*   settled    executeAttempt's promise has resolved                      *)
(*   recheck    native recovery, awaiting the policy before its review     *)
(*   reconfirm  native recovery, awaiting the policy before the replay     *)
(*                                                                         *)
(* Turn states are indexed by their generation, as calls of a closed turn  *)
(* keep reading theirs.  Capabilities, actions and policies are members of *)
(* small sets.                                                             *)
(***************************************************************************)
EXTENDS DenialCircuit

CONSTANTS
  CallId,         \* tool-call ids
  Action,         \* call identities without the call id (the approvals' keys)
  Write, Host,    \* filesystem-write and network capabilities
  NetAll,         \* the whole-network capability
  ExtTool,        \* external-tool capabilities
  Policies,       \* base sandbox policies, [allow, deny : SUBSET Enforceable]
  Requests,       \* the invocations that may be submitted
  Snapshots,      \* the turn snapshots the host may supply
  NoRoot,         \* a request whose native failure yields no recovery root
  NoEntry,        \* no remembered approval
  MaxGeneration   \* bound on turns begun or invalidated

Enforceable == Write \cup Host \cup {NetAll}
Capability == Enforceable \cup ExtTool
Network == Host \cup {NetAll}
Generations == 1..MaxGeneration

Policy == [allow : SUBSET Enforceable, deny : SUBSET Enforceable]

Request == [action : Action, owner : {"sandbox-owned", "host-admission", "amendment"},
            plan : {"allow", "capability", "action", "deny"},
            requested : SUBSET Capability, evidence : {"low", "high"},
            root : Write \cup {NoRoot}]

(* ready: the sandbox is ready and there is a policy for it to enforce.    *)
Snapshot == [mode : {"auto", "yolo"}, policy : Policies, ready : BOOLEAN]

ASSUME EngineAssumption ==
  /\ MaxGeneration \in Nat \ {0}
  /\ Policies \subseteq Policy
  /\ Snapshots \subseteq Snapshot /\ Snapshots # {}
  /\ Requests \subseteq Request /\ Requests # {}
  /\ NoRoot \notin Write

(* CapabilityLease: an unrestricted or host-admitted lease has no policy.  *)
Lease == [mode : {"unrestricted", "host-admitted", "sandboxed"},
          allow : SUBSET Enforceable, deny : SUBSET Enforceable]

NoLease == [mode |-> "host-admitted", allow |-> {}, deny |-> {}]

VARIABLES
  generation,  \* the Engine's generation counter
  active,      \* TRUE iff the turn of the current generation is active
  snapshot,    \* each turn's snapshot
  authority,   \* each turn's turnNetworkHosts, turnNetworkAll, turnWriteRoots
  approvals,   \* the active turn's approval cache
  circuit,     \* the denial circuit
  call,        \* every call in flight
  approved     \* history: what verdicts of each turn approved

vars == <<generation, active, snapshot, authority, approvals, circuit, call, approved>>
turnVars == <<generation, active, snapshot>>

Idle == [pc |-> "idle", home |-> 0, aborted |-> FALSE, stop |-> "none",
         req |-> CHOOSE r \in Requests : TRUE, route |-> "none", asked |-> {},
         lease |-> NoLease, pending |-> {}, approve |-> FALSE, own |-> {},
         result |-> "none"]

(* lease: what the running executor is confined to, then, for a native     *)
(* recovery, the lease proposed for the replay.                            *)
(* own: history, what a verdict on this very call approved, since the call *)
(* failed natively if it did.                                              *)
Call == [pc : {"idle", "policy", "scope", "review", "verdict", "running", "settled",
               "recheck", "reconfirm"},
         home : 0..MaxGeneration, aborted : BOOLEAN, stop : {"none", "stale", "denied"},
         req : Requests, route : {"none", "bare", "direct", "reviewed", "amend", "retry"},
         asked : SUBSET Capability, lease : Lease, pending : SUBSET Host,
         approve : BOOLEAN, own : SUBSET Capability,
         result : {"none", "completed", "native"}]

(* ApprovalCacheEntry: the fingerprints it pins. *)
Entry == [kind : {"allow", "capability", "action", "deny"}, asked : SUBSET Capability,
          policy : Policies, evidence : {"low", "high"}]

NoApprovals == [a \in Action |-> NoEntry]

Init ==
  /\ generation = 0 /\ active = FALSE
  /\ snapshot = [g \in Generations |-> CHOOSE shot \in Snapshots : TRUE]
  /\ authority = [g \in Generations |-> {}]
  /\ approved = [g \in Generations |-> {}]
  /\ approvals = NoApprovals
  /\ circuit = FreshCircuit
  /\ call = [c \in CallId |-> Idle]
-------------------------------------------------------------------------------
(* Helpers of the source. *)

IsCurrent(c) == active /\ call[c].home = generation

Shot(c) == snapshot[call[c].home]  \* the snapshot of the call's turn

(* request.signal joined with the attempt's (or review's) own controller.  *)
Stopping(c) == call[c].aborted \/ call[c].stop # "none"

NetworkDenied(deny, cap) == cap \in Network /\ cap \in deny

Covered(l, cap) ==
  \/ l.mode = "unrestricted"
  \/ /\ l.mode = "sandboxed"
     /\ cap \notin l.deny
     /\ cap \in l.allow \/ (cap \in Host /\ NetAll \in l.allow /\ NetAll \notin l.deny)

LeaseWith(g, owner, asked) ==
  IF snapshot[g].mode = "yolo" THEN [NoLease EXCEPT !.mode = "unrestricted"]
  ELSE IF owner = "host-admission" THEN NoLease
  ELSE [mode |-> "sandboxed",
        allow |-> snapshot[g].policy.allow \cup authority[g] \cup (asked \cap Enforceable),
        deny |-> snapshot[g].policy.deny]

Widened(l, asked) ==
  IF l.mode = "sandboxed" THEN [l EXCEPT !.allow = @ \cup asked] ELSE l

(* The admission's scope: an amendment carries its request in the intent.  *)
Admission(r) == IF r.owner = "amendment" THEN {} ELSE r.requested

(* The synchronous refusals of executeInvocationOwned before its first     *)
(* await, for a call that is not under yolo.                               *)
Refused(g, r) ==
  \/ r.plan = "deny"
  \/ r.owner # "host-admission" /\ ~snapshot[g].ready
  \/ r.owner = "host-admission" /\ (r.requested = {} \/ r.requested \ ExtTool # {})
  \/ r.owner = "sandbox-owned" /\ r.requested \cap ExtTool # {}
  \/ NetAll \in Admission(r)
  \/ \E x \in Admission(r) : NetworkDenied(snapshot[g].policy.deny, x)

(* The refusals of the amendment branch, after the first policy answer.    *)
AmendmentRefused(g, r) ==
  \/ r.requested = {} \/ r.requested \cap ExtTool # {}
  \/ \E x \in r.requested : NetworkDenied(snapshot[g].policy.deny, x)

(* Mutant: coverage is judged by the proposed lease, which covers itself.  *)
AskedOfProposed(g, r) ==
  CASE r.owner = "amendment" \/ r.plan = "action" -> r.requested
    [] r.owner # "amendment" /\ r.plan = "capability" ->
         {x \in r.requested : ~Covered(LeaseWith(g, r.owner, r.requested), x)}
    [] OTHER -> {}

(* reviewRequested: an action review asks for everything, a capability     *)
(* review for what the turn's lease at submission does not cover.          *)
AskedOf(g, r) ==
  CASE r.owner = "amendment" \/ r.plan = "action" -> r.requested
    [] r.owner # "amendment" /\ r.plan = "capability" ->
         {x \in r.requested : ~Covered(LeaseWith(g, r.owner, {}), x)}
    [] OTHER -> {}

NeedsReview(c) ==
  call[c].req.owner = "amendment" \/ call[c].req.plan = "action" \/ call[c].asked # {}

(* The call settles: its promise resolves and its id may be used again.    *)
Return(c) == [call EXCEPT ![c] = Idle]

Park(c, pc) == [call EXCEPT ![c].pc = pc]

StartsIfNotAborted(c) == ~call[c].aborted  \* mutant: no isCurrent check
MayStart(c) == IsCurrent(c) /\ ~call[c].aborted

(* executeAttempt up to its await: registered with a fresh controller.     *)
Launch(c, route, lease) ==
  IF MayStart(c)
  THEN [call EXCEPT ![c].pc = "running", ![c].route = route, ![c].stop = "none",
                    ![c].lease = lease]
  ELSE Return(c)

ReviewsIfNotAborted(c) == ~call[c].aborted  \* mutant: open() is not asked
MayReview(c) == ~circuit.open /\ ~call[c].aborted

(* What a review of the call decides: the recovery's is about the one root. *)
Scope(c, route) == IF route = "retry" THEN {call[c].req.root} \cap Write ELSE call[c].asked

(* runReview up to its await.  It does not ask whether the turn is current. *)
Review(c, route) ==
  IF Shot(c).mode = "yolo"
  THEN [call EXCEPT ![c].pc = "verdict", ![c].route = route, ![c].approve = TRUE,
                    ![c].own = Scope(c, route)]
  ELSE IF MayReview(c)
  THEN [call EXCEPT ![c].pc = "review", ![c].route = route, ![c].stop = "none"]
  ELSE Return(c)

(* readApprovalCache answers approve. *)
CacheHit(c) ==
  LET r == call[c].req  e == approvals[r.action] IN
  /\ r.owner = "sandbox-owned" /\ Shot(c).mode = "auto"
  /\ ~circuit.open /\ IsCurrent(c) /\ e # NoEntry
  /\ e.kind = r.plan /\ e.asked = call[c].asked
  /\ e.policy = Shot(c).policy /\ e.evidence = r.evidence

(* Mutant: the entry is written without an isCurrent check. *)
RemembersAnyway(c) == call[c].req.owner = "sandbox-owned" /\ Shot(c).mode = "auto"

MayRemember(c) ==
  call[c].req.owner = "sandbox-owned" /\ Shot(c).mode = "auto" /\ IsCurrent(c)

(* writeApprovalCache; the policy is read when the entry is written.       *)
Remembered(c) ==
  IF MayRemember(c)
  THEN [approvals EXCEPT ![call[c].req.action] =
          [kind |-> call[c].req.plan, asked |-> call[c].asked, policy |-> Shot(c).policy,
           evidence |-> call[c].req.evidence]]
  ELSE approvals

(* closeState: every attempt in flight gets a terminal error and both its  *)
(* controller and every pending review's are aborted.                      *)
NoAttempts == {}  \* mutant: closeState without abortAttempts
AttemptsToStop == {c \in CallId : call[c].pc = "running"}
ReviewsToStop == {c \in CallId : call[c].pc = "review"}
Stopped(cs) ==
  [c \in CallId |-> IF c \in cs /\ call[c].stop = "none"
                    THEN [call[c] EXCEPT !.stop = "stale"] ELSE call[c]]

(* denyAttempt: the first terminal error of an attempt is kept.            *)
Denied(c) ==
  [call EXCEPT ![c].stop = IF @ = "none" THEN "denied" ELSE @]
-------------------------------------------------------------------------------
(* Turn lifecycle. *)

CloseTargets == (IF active THEN AttemptsToStop ELSE {}) \cup ReviewsToStop

(* beginTurn: close the active turn, replace the circuit, open the next.   *)
BeginTurn(shot) ==
  /\ generation < MaxGeneration
  /\ call' = IF active THEN Stopped(CloseTargets) ELSE call
  /\ generation' = generation + 1
  /\ active' = TRUE
  /\ snapshot' = [snapshot EXCEPT ![generation'] = shot]
  /\ authority' = [g \in Generations |->
       IF g = generation' \/ (active /\ g = generation) THEN {} ELSE authority[g]]
  /\ approvals' = NoApprovals
  /\ circuit' = FreshCircuit
  /\ UNCHANGED approved

(* TurnHandle.close on the active turn. *)
CloseTurn ==
  /\ active
  /\ call' = Stopped(CloseTargets)
  /\ active' = FALSE
  /\ authority' = [authority EXCEPT ![generation] = {}]
  /\ approvals' = NoApprovals
  /\ UNCHANGED <<generation, snapshot, circuit, approved>>

Invalidate ==
  /\ generation < MaxGeneration
  /\ call' = Stopped(CloseTargets)
  /\ generation' = generation + 1
  /\ active' = FALSE
  /\ authority' = IF active THEN [authority EXCEPT ![generation] = {}] ELSE authority
  /\ approvals' = NoApprovals
  /\ circuit' = FreshCircuit
  /\ UNCHANGED <<snapshot, approved>>

(* refreshTurnMode; the calls in flight are not told.                      *)
RefreshMode(shot) ==
  /\ active /\ shot # snapshot[generation]
  /\ snapshot' = [snapshot EXCEPT ![generation] = shot]
  /\ approvals' = IF \/ shot.mode # snapshot[generation].mode
                     \/ shot.policy # snapshot[generation].policy
                  THEN NoApprovals ELSE approvals
  /\ UNCHANGED <<generation, active, authority, circuit, call, approved>>
-------------------------------------------------------------------------------
(* One call, from submission to its return. *)

Abort(c) ==  \* the caller aborts request.signal
  /\ call[c].pc # "idle" /\ ~call[c].aborted
  /\ call' = [call EXCEPT ![c].aborted = TRUE]
  /\ UNCHANGED <<turnVars, authority, approvals, circuit, approved>>

Opened(c, r) ==
  [Idle EXCEPT !.pc = "policy", !.home = generation, !.req = r,
               !.asked = AskedOf(generation, r)]

(* executeInvocation through the active handle; a refusal is no step.      *)
Submit(c, r) ==
  /\ active /\ call[c].pc = "idle"
  /\ snapshot[generation].mode = "auto" /\ ~Refused(generation, r)
  /\ call' = [call EXCEPT ![c] = Opened(c, r)]
  /\ UNCHANGED <<turnVars, authority, approvals, circuit, approved>>

(* Under yolo the executor is entered at once.                             *)
SubmitUnrestricted(c, r) ==
  /\ active /\ call[c].pc = "idle" /\ snapshot[generation].mode = "yolo"
  /\ call' = [call EXCEPT ![c] =
       [Idle EXCEPT !.pc = "running", !.home = generation, !.req = r, !.route = "bare",
                    !.lease = LeaseWith(generation, r.owner, {})]]
  /\ UNCHANGED <<turnVars, authority, approvals, circuit, approved>>

PolicyAnswer(c, ok) ==
  /\ call[c].pc = "policy"
  /\ call' =
       IF ~ok \/ (call[c].req.owner = "amendment"
                    /\ AmendmentRefused(call[c].home, call[c].req)) THEN Return(c)
       ELSE IF NeedsReview(c) THEN Park(c, "scope")
       ELSE Launch(c, "direct",
                   LeaseWith(call[c].home, call[c].req.owner, call[c].req.requested))
  /\ UNCHANGED <<turnVars, authority, approvals, circuit, approved>>

(* The second policy answer, the approval cache and the start of a review  *)
(* are one stretch.                                                        *)
ScopeAnswer(c, ok) ==
  /\ call[c].pc = "scope"
  /\ call' =
       IF ~ok THEN Return(c)
       ELSE IF call[c].req.owner = "amendment" THEN Review(c, "amend")
       ELSE IF ~CacheHit(c) THEN Review(c, "reviewed")
       ELSE Launch(c, "reviewed",
                   LeaseWith(call[c].home, call[c].req.owner, call[c].req.requested))
  /\ UNCHANGED <<turnVars, authority, approvals, circuit, approved>>

Answers == {"approve", "deny", "cancelled", "failed"}  \* "failed": timed-out too

Granted(c) == Scope(c, call[c].route)

(* runReview after guardian.review settles.                                *)
GuardianAnswer(c, answer) ==
  /\ call[c].pc = "review"
  /\ LET heard == IsCurrent(c) /\ ~Stopping(c) IN
     /\ call' = IF heard /\ answer \in {"approve", "deny"}
                THEN [call EXCEPT ![c].pc = "verdict", ![c].approve = (answer = "approve"),
                                  ![c].own = IF answer = "approve" THEN Granted(c) ELSE {}]
                ELSE Return(c)
     /\ circuit' = IF heard /\ answer \in {"approve", "failed"}
                   THEN RecordSuccess(circuit) ELSE circuit
  /\ UNCHANGED <<turnVars, authority, approvals, approved>>

(* The caller of runReview resumes.  A denial is recorded on the Engine's  *)
(* circuit of this moment; an approval's grant is set and spent at once.   *)
ActOnDenial(c) ==
  /\ call[c].pc = "verdict" /\ ~call[c].approve
  /\ circuit' = RecordDenial(circuit)
  /\ call' = Return(c)
  /\ UNCHANGED <<turnVars, authority, approvals, approved>>

ActOnApproval(c) ==
  /\ call[c].pc = "verdict" /\ call[c].approve
  /\ LET g == call[c].home  r == call[c].req IN
     /\ call' = IF call[c].route = "retry" THEN Park(c, "reconfirm")
                ELSE Launch(c, call[c].route, LeaseWith(g, r.owner, r.requested))
     /\ approved' = [approved EXCEPT ![g] = @ \cup Granted(c)]
  /\ UNCHANGED <<turnVars, authority, approvals, circuit>>

(* A settled executor's result counts only if its attempt was neither told *)
(* nor aborted and its turn is still current.                              *)
WinsUnlessAborted(c) == IsCurrent(c) /\ ~call[c].aborted  \* mutant: terminalError unread
Wins(c) == IsCurrent(c) /\ ~Stopping(c)

Settle(c, result) ==
  /\ call[c].pc = "running"
  /\ call' = IF Wins(c) /\ result # "failed"
             THEN [call EXCEPT ![c].pc = "settled", ![c].result = result,
                             ![c].lease = NoLease, ![c].pending = {}]
             ELSE Return(c)
  /\ UNCHANGED <<turnVars, authority, approvals, circuit, approved>>

(* An amendment whose acknowledgement completed widens its turn and clears *)
(* the turn's approvals; that the turn is current is not asked again.      *)
ActiveTurn(c) == generation  \* mutant: the active turn, not the call's, is widened
AmendedTurn(c) == call[c].home

Amend(c) ==
  /\ call[c].pc = "settled" /\ call[c].route = "amend" /\ call[c].result = "completed"
  /\ authority' = [authority EXCEPT ![AmendedTurn(c)] =
                     @ \cup (call[c].req.requested \cap Enforceable)]
  /\ approvals' = IF IsCurrent(c) THEN NoApprovals ELSE approvals
  /\ call' = Return(c)
  /\ UNCHANGED <<turnVars, circuit, approved>>

Remember(c) ==
  /\ call[c].pc = "settled" /\ call[c].route = "reviewed" /\ call[c].result = "completed"
  /\ approvals' = Remembered(c)
  /\ call' = Return(c)
  /\ UNCHANGED <<turnVars, authority, circuit, approved>>

(* The lease a native failure is judged by: the turn's lease of now.       *)
RecoveryBase(c) == LeaseWith(call[c].home, call[c].req.owner, call[c].req.requested)

(* Mutant: a replayed attempt's failure is eligible like the first one's.  *)
RetriesAlways(c) ==
  LET base == RecoveryBase(c)  root == call[c].req.root IN
  /\ call[c].result = "native" /\ call[c].req.owner = "sandbox-owned" /\ root # NoRoot
  /\ base.mode = "sandboxed" /\ ~Covered(base, root)

MayRetry(c) ==
  LET base == RecoveryBase(c)  root == call[c].req.root IN
  /\ call[c].result = "native" /\ call[c].route \in {"direct", "reviewed"}
  /\ call[c].req.owner = "sandbox-owned" /\ root # NoRoot
  /\ base.mode = "sandboxed" /\ ~Covered(base, root)
  /\ Covered(Widened(base, {root}), root)

(* handleNativeActionFailure up to its first await. *)
Recover(c) ==
  /\ call[c].pc = "settled" /\ MayRetry(c)
  /\ call' = [call EXCEPT ![c].pc = "recheck", ![c].result = "none", ![c].own = {},
                          ![c].lease = Widened(RecoveryBase(c), {call[c].req.root})]
  /\ UNCHANGED <<turnVars, authority, approvals, circuit, approved>>

(* Every other settled result is the call's outcome. *)
Conclude(c) ==
  /\ call[c].pc = "settled" /\ ~MayRetry(c)
  /\ ~(call[c].route \in {"amend", "reviewed"} /\ call[c].result = "completed")
  /\ call' = Return(c)
  /\ UNCHANGED <<turnVars, authority, approvals, circuit, approved>>

(* Mutant: a call that a review let run is replayed on that review.        *)
RechecksOnFirstVerdict(c, ok) ==
  /\ call[c].pc = "recheck"
  /\ call' = IF ~ok \/ ~MayStart(c) THEN Return(c)
             ELSE IF call[c].route = "reviewed" THEN Park(c, "reconfirm")
             ELSE Review(c, "retry")
  /\ UNCHANGED <<turnVars, authority, approvals, circuit, approved>>

RecheckAnswer(c, ok) ==
  /\ call[c].pc = "recheck"
  /\ call' = IF ok /\ MayStart(c) THEN Review(c, "retry") ELSE Return(c)
  /\ UNCHANGED <<turnVars, authority, approvals, circuit, approved>>

ReconfirmAnswer(c, ok) ==
  /\ call[c].pc = "reconfirm"
  /\ call' = IF ok THEN Launch(c, "retry", call[c].lease) ELSE Return(c)
  /\ UNCHANGED <<turnVars, authority, approvals, circuit, approved>>
-------------------------------------------------------------------------------
(* Inline capability requests of a running executor. *)

MayAsk(c) == call[c].pc = "running" /\ IsCurrent(c) /\ ~Stopping(c)

(* authorizeInlineCapability up to its await (yolo allows without a step). *)
InlineRequest(c, h) ==
  /\ MayAsk(c) /\ Shot(c).mode = "auto"
  /\ h \notin call[c].pending
  /\ call' = IF \/ call[c].req.owner # "sandbox-owned"
                \/ NetworkDenied(call[c].lease.deny, h)
             THEN Denied(c) ELSE [call EXCEPT ![c].pending = @ \cup {h}]
  /\ UNCHANGED <<turnVars, authority, approvals, circuit, approved>>

InlineAnswer(c, h, ok) ==
  /\ call[c].pc = "running" /\ h \in call[c].pending
  /\ call' = [(IF IsCurrent(c) /\ ~Stopping(c) /\ ok /\ Covered(call[c].lease, h)
               THEN call ELSE Denied(c)) EXCEPT ![c].pending = @ \ {h}]
  /\ UNCHANGED <<turnVars, authority, approvals, circuit, approved>>

InlineReject(c) ==  \* rejectInlineCapability
  /\ MayAsk(c)
  /\ call' = Denied(c)
  /\ UNCHANGED <<turnVars, authority, approvals, circuit, approved>>
-------------------------------------------------------------------------------
Turn == \/ \E shot \in Snapshots : BeginTurn(shot) \/ RefreshMode(shot)
        \/ CloseTurn \/ Invalidate

CallStep(c) ==
  \/ \E ok \in BOOLEAN : \/ PolicyAnswer(c, ok) \/ ScopeAnswer(c, ok)
                         \/ RecheckAnswer(c, ok) \/ ReconfirmAnswer(c, ok)
  \/ \E answer \in Answers : GuardianAnswer(c, answer)
  \/ ActOnDenial(c) \/ ActOnApproval(c)
  \/ Amend(c) \/ Remember(c) \/ Recover(c) \/ Conclude(c)

Executor(c) ==
  \/ \E result \in {"completed", "native", "failed"} : Settle(c, result)
  \/ \E h \in Host, ok \in BOOLEAN : InlineRequest(c, h) \/ InlineAnswer(c, h, ok)
  \/ InlineReject(c)

Caller(c) == Abort(c) \/ \E r \in Requests : Submit(c, r) \/ SubmitUnrestricted(c, r)

Next == Turn \/ \E c \in CallId : Caller(c) \/ CallStep(c) \/ Executor(c)

Spec == Init /\ [][Next]_vars

(* The policy and the reviewer answer and promises resolve; an executor is *)
(* only known to settle once its signal is aborted.                        *)
Fairness ==
  \A c \in CallId :
    /\ WF_vars(CallStep(c))
    /\ WF_vars(Stopping(c) /\ \E result \in {"completed", "native", "failed"} : Settle(c, result))

FairSpec == Spec /\ Fairness
-------------------------------------------------------------------------------
TypeOK ==
  /\ generation \in 0..MaxGeneration
  /\ active \in BOOLEAN
  /\ snapshot \in [Generations -> Snapshot]
  /\ authority \in [Generations -> SUBSET Enforceable]
  /\ approved \in [Generations -> SUBSET Capability]
  /\ approvals \in [Action -> Entry \cup {NoEntry}]
  /\ circuit \in Circuit
  /\ call \in [CallId -> Call]

(* Closing a turn reaches every executor it started (engine.ts:593-619):   *)
(* no executor of a turn that is over runs with its signal unaborted,      *)
(* whatever closed the turn and whenever the executor was entered.         *)
DeadAttemptsStopped ==
  \A c \in CallId : call[c].pc = "running" /\ ~IsCurrent(c) => Stopping(c)

(* Turn-wide authority only comes from a verdict of the same turn: closing *)
(* and reopening turns around an amendment carries nothing over            *)
(* (engine.ts:1600-1614, 1909).                                            *)
AuthorityReviewed == \A g \in Generations : authority[g] \subseteq approved[g]

(* The whole network stands for each of its hosts. *)
WithHosts(caps) == caps \cup (IF NetAll \in caps THEN Host ELSE {})

(* What a call asked for that its plan lets run without a review. *)
AllowedOutright(c) ==
  IF call[c].req.owner # "amendment" /\ call[c].req.plan = "allow"
  THEN call[c].req.requested ELSE {}

(* What nobody reviewed never runs: the lease of a confined executor holds *)
(* only what the base policies allow, what a verdict of its own turn       *)
(* approved (the whole network standing for each host) and what its        *)
(* admission plan allowed outright; and all its review asked for was       *)
(* approved in its own turn, by its own verdict or by a remembered one     *)
(* (engine.ts:471-501, 1600-1614, 1705-1722).                              *)
RunsReviewed ==
  \A c \in CallId : call[c].pc = "running" =>
    /\ call[c].asked \subseteq approved[call[c].home]
    /\ call[c].lease.mode = "sandboxed" =>
         call[c].lease.allow \subseteq AllowedOutright(c) \cup
           WithHosts((UNION {p.allow : p \in Policies}) \cup approved[call[c].home])

(* An approval is remembered only while it could be given: in an active    *)
(* auto turn, for a scope a verdict of that turn approved, and pinned to   *)
(* the policy in force (engine.ts:124-131, 1948-1950), however closing,    *)
(* refreshing and completing executions interleave.                        *)
RememberedIsLive ==
  \A a \in Action : approvals[a] # NoEntry =>
    /\ active /\ snapshot[generation].mode = "auto"
    /\ approvals[a].policy = snapshot[generation].policy
    /\ approvals[a].asked \subseteq approved[generation]

(* The calls whose review may still end in a denial. *)
Deniable == {c \in CallId : \/ call[c].pc = "review"
                            \/ call[c].pc = "verdict" /\ ~call[c].approve}

(* The circuit is only read before a review starts, so reviews already in  *)
(* flight may carry the run of denials past the threshold, but by no more  *)
(* than the other calls in flight (engine.ts:652, 1597, 1702).             *)
DenialsBounded ==
  circuit.run + Cardinality(Deniable) < MaxConsecutive + Cardinality(CallId)

(* A told attempt cannot win: once an attempt is denied inline or made     *)
(* stale, its first terminal error is kept and its call returns without    *)
(* its completion counting for anything (engine.ts:968-975, 1073-1090).    *)
ToldAttemptsEnd ==
  [][\A c \in CallId : call[c].stop # "none" =>
       call'[c] = Idle \/ (call'[c].pc = call[c].pc /\ call'[c].stop = call[c].stop)]_vars

(* A native action is replayed once at most, and only on a verdict of its  *)
(* own, about the root and given after the failure: neither the verdict    *)
(* that let it run, nor another call's, nor a remembered one will do, and  *)
(* a replayed attempt leads to no other (engine.ts:1155-1173, 1228-1269).  *)
ReplaysOnceReviewed ==
  [][\A c \in CallId :
       /\ call[c].pc = "reconfirm" /\ call'[c].pc = "running" =>
            call[c].req.root \in call[c].own
       /\ call[c].route = "retry" /\ call[c].pc \in {"running", "settled"} =>
            call'[c] = Idle \/ (call'[c].route = "retry"
                                 /\ call'[c].pc \in {"running", "settled"})]_vars

(* Closing a turn or aborting a call ends it even when its executor only   *)
(* listens to its signal: every such call returns (engine.ts:588-619).     *)
EndedCallsReturn ==
  \A c \in CallId :
    (call[c].pc # "idle" /\ (call[c].aborted \/ ~IsCurrent(c))) ~> call[c].pc = "idle"
-------------------------------------------------------------------------------
(* The Engine implements TurnContract: which of its calls are inside an    *)
(* executor, under which turn, which of them its controllers have told,    *)
(* and what authority the live turn has been widened by.                   *)

PhaseOf(c) == CASE call[c].pc = "running" -> "in"
                [] call[c].pc = "settled" -> "won"
                [] OTHER -> "out"

UnderOf(c) == IF call[c].pc \in {"running", "settled"} THEN call[c].home ELSE 0

Contract == INSTANCE TurnContract WITH
  Grantable <- Enforceable,
  MaxEpoch <- MaxGeneration,
  epoch <- generation,
  live <- active,
  phase <- [c \in CallId |-> PhaseOf(c)],
  under <- [c \in CallId |-> UnderOf(c)],
  told <- {c \in CallId : call[c].pc = "running" /\ Stopping(c)},
  granted <- IF active THEN authority[generation] ELSE {}

(* Every behaviour of the Engine, seen through the mapping, is one the     *)
(* contract allows: entering, telling, finishing, widening and turnover    *)
(* happen as promised whichever way the awaits interleave.                 *)
ImplementsContract == Contract!Spec
===============================================================================
