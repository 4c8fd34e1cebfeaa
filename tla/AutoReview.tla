------------------------------- MODULE AutoReview -------------------------------
(***************************************************************************)
(* Guardian reviews: createPiGuardianAdapter (pi-safety/src/               *)
(* pi-guardian-adapters.ts) and PiAutoReviewer (auto-reviewer.ts), several *)
(* at once, over one evidence log and one session trunk, while the host    *)
(* appends to the log, resets it and invalidates the trunk.                *)
(*                                                                         *)
(* A step is what runs between two awaits.  A review is a process that     *)
(* reviews once.  Its deadline is an event that comes some time after the  *)
(* lease is opened; retry delays are sleeps that end.  Not modelled: what  *)
(* prompts and tool results say, identities and metrics, and the Engine,   *)
(* which stops listening to a review it aborts.                            *)
(***************************************************************************)
EXTENDS GuardianSession

CONSTANTS
  Reviews,        \* Nat: their ids name the trunks they create, too
  Keys,           \* the identities reviews are made under
  Replies,        \* what the model may answer
  Sizes,          \* what a turn may weigh in the trunk
  NoReply,
  Histories       \* bounds: entries appended to the log, resets and
                  \* invalidations, the keys that occur, and
                  \* GUARDIAN_REVIEW_MAX_ATTEMPTS and _TOOL_ROUNDS

Bounds == [messages : Nat, resets : Nat, attempts : Nat \ {0}, rounds : Nat,
           keys : SUBSET Keys]

ASSUME ReviewAssumption ==
  /\ Reviews \subseteq Nat /\ Sizes \subseteq Nat /\ Histories \subseteq Bounds
  /\ NoLease \notin LeaseOf(Reviews)
  /\ \A reply \in Replies : reply.members \in Seq(Range(reply.members))

-------------------------------------------------------------------------------
(* What a reviewer's answer is taken to say (parseAutoReviewResult in      *)
(* auto-review-request.ts), under the floor of guardian-policy.ts.         *)
(*                                                                         *)
(* A reply is the members of its outermost object, in order, a key that    *)
(* occurs twice included, and how the object is wrapped: "bare", in        *)
(* "prose" that is cut away to its outermost braces, or "broken", when no  *)
(* object can be read.  The keys are those a decision is read from, as     *)
(* JSON decodes them; the rationale is left out.                           *)

Risks == {"low", "medium", "high", "critical"}
Authorizations == {"unknown", "low", "medium", "high"}
Outcomes == {"allow", "deny"}

Absent == "absent"
Unparsed == "unparsed"

Places(members, key) == {i \in DOMAIN members : members[i].key = key}

(* Mutant: JSON.parse alone decides, the last of two members counts.       *)
Whatever(members) == TRUE

(* assertUniqueTopLevelDecisionKeys.                                       *)
Unambiguous(members) ==
  \A key \in {members[i].key : i \in DOMAIN members} : Cardinality(Places(members, key)) = 1

(* parseAssessmentPayload reads the object bare or cut out of its prose,   *)
(* after the same check on what it reads.  JSON.parse keeps the last of    *)
(* two members.                                                            *)
Readable(reply) == reply.wrap \in {"bare", "prose"} /\ Unambiguous(reply.members)

Field(reply, key) ==
  LET at == Places(reply.members, key) IN
  IF at = {} THEN Absent ELSE reply.members[CHOOSE i \in at : \A j \in at : j <= i].value

(* guardianPolicyFloorViolation.                                           *)
BelowFloor(outcome, risk, authorization) ==
  /\ outcome = "allow"
  /\ risk = "critical" \/ (risk = "high" /\ authorization \in {"unknown", "low"})

RiskOf(reply) ==
  IF Field(reply, "risk_level") # Absent THEN Field(reply, "risk_level")
  ELSE IF Field(reply, "outcome") = "allow" THEN "low" ELSE "high"

AuthorizationOf(reply) ==
  IF Field(reply, "user_authorization") = Absent THEN "unknown"
  ELSE Field(reply, "user_authorization")

WellFormed(reply) ==
  /\ Field(reply, "outcome") \in Outcomes
  /\ RiskOf(reply) \in Risks
  /\ AuthorizationOf(reply) \in Authorizations

ParseReply(reply) ==
  IF /\ Readable(reply) /\ WellFormed(reply)
     /\ ~BelowFloor(Field(reply, "outcome"), RiskOf(reply), AuthorizationOf(reply))
  THEN IF Field(reply, "outcome") = "allow" THEN "approve" ELSE "deny"
  ELSE Unparsed
-------------------------------------------------------------------------------
VARIABLES
  evidence, trunk,
  review,     \* what each review is doing
  lease,      \* the lease it holds on the trunk
  entries,    \* appended to the log so far
  left        \* what the history leaves to happen

vars == <<evidence, trunk, review, lease, entries, left>>

Verdicts == {"approve", "deny"}
Failures == {"unavailable", "timeout", "cancelled", "provider", "parse", "error"}
Outcome == {"approve", "deny", "timed-out", "cancelled", "failed", "threw"}

Resting ==
  [at |-> "idle", key |-> "none", raw |-> <<>>, epoch |-> 0, attempt |-> 0, rounds |-> 0,
   aborted |-> FALSE, expired |-> FALSE, runtime |-> "none",
   ending |-> "none", reply |-> NoReply, outcome |-> "none"]

Init ==
  /\ evidence = NewEvidence /\ trunk = NoTrunk
  /\ review = [r \in Reviews |-> Resting] /\ lease = [r \in Reviews |-> NoLease]
  /\ entries = 0 /\ left \in Histories

Opened == {"asking", "using", "sleeping", "closing"}
Live(r) == review[r].at \notin {"idle", "settled"}
-------------------------------------------------------------------------------
(* The host: input and messages are appended, a branch change resets the   *)
(* evidence, and it or a change of mode, config or cwd drops the trunk.    *)
Input ==
  /\ left.messages > 0 /\ left' = [left EXCEPT !.messages = @ - 1]
  /\ entries' = entries + 1
  /\ evidence' = AppendInput(evidence, entries')
  /\ UNCHANGED <<trunk, review, lease>>

MessageEnd ==
  /\ left.messages > 0 /\ left' = [left EXCEPT !.messages = @ - 1]
  /\ entries' = entries + 1
  /\ evidence' = AppendMessage(evidence, entries')
  /\ UNCHANGED <<trunk, review, lease>>

ResetBranch ==
  /\ left.resets > 0 /\ left' = [left EXCEPT !.resets = @ - 1]
  /\ evidence' = ResetEvidence(evidence) /\ trunk' = NoTrunk
  /\ UNCHANGED <<review, lease, entries>>

InvalidateSession ==
  /\ left.resets > 0 /\ left' = [left EXCEPT !.resets = @ - 1]
  /\ trunk' = NoTrunk
  /\ UNCHANGED <<evidence, review, lease, entries>>

(* The caller's signal: the turn ended, or the user stopped the tool.      *)
Abort(r) ==
  /\ Live(r) /\ ~review[r].aborted
  /\ review' = [review EXCEPT ![r].aborted = TRUE]
  /\ UNCHANGED <<evidence, trunk, lease, entries, left>>

Deadline(r) ==
  /\ review[r].at \in Opened /\ ~review[r].expired
  /\ review' = [review EXCEPT ![r].expired = TRUE]
  /\ UNCHANGED <<evidence, trunk, lease, entries, left>>
-------------------------------------------------------------------------------
Goes(r, v) == review' = [review EXCEPT ![r] = v]
Stays == UNCHANGED <<evidence, trunk, lease, entries, left>>

(* How the adapter reports an ending to the Engine.                        *)
OutcomeOf(ending) ==
  CASE ending \in Verdicts -> ending
    [] ending = "timeout" -> "timed-out"
    [] ending = "cancelled" -> "cancelled"
    [] OTHER -> "failed"

Settled(v, outcome) ==
  [Resting EXCEPT !.at = "settled", !.outcome = outcome, !.reply = v.reply,
                  !.runtime = v.runtime]

(* Before the lease there is nothing to undo.                              *)
Refused(v, ending) == Settled(v, OutcomeOf(ending))
Ending(v, ending) == [v EXCEPT !.at = "closing", !.ending = ending]

(* The top of the loop: the model is asked unless it is too late.          *)
Asks(v) ==
  IF v.aborted THEN Ending(v, "cancelled")
  ELSE IF v.expired THEN Ending(v, "timeout")
  ELSE [v EXCEPT !.at = "asking"]

(* Mutant: an answer counts whenever it comes.                             *)
TakesItAnyway(v, answered) == answered

(* After an await the caller's abort is looked at first, the deadline next.*)
InTime(v, answered) ==
  IF v.aborted THEN Ending(v, "cancelled")
  ELSE IF v.expired THEN Ending(v, "timeout")
  ELSE answered

(* waitBeforeRetry, or the ending when no attempt is left; no time may be  *)
(* left for the delay.                                                     *)
Retries(v, ending, retryable) ==
  IF ~retryable \/ v.attempt >= left.attempts THEN {Ending(v, ending)}
  ELSE {[v EXCEPT !.at = "sleeping"], Ending(v, "timeout")}
-------------------------------------------------------------------------------
(* createPiGuardianReviewContext, when the tool is called: the evidence is *)
(* taken then.                                                             *)
Submit(r, key) ==
  /\ review[r].at = "idle" /\ r = Cardinality({q \in Reviews : review[q].at # "idle"}) + 1
  /\ evidence' = Consulted(evidence)
  /\ Goes(r, [Resting EXCEPT !.at = "called", !.key = key, !.raw = Raw(evidence'),
                             !.epoch = evidence'.epoch])
  /\ UNCHANGED <<trunk, lease, entries, left>>

(* GuardianAdapter.review up to its first await.  A request that cannot be *)
(* built is thrown at the Engine, a missing evidence policy is a failure,  *)
(* and so is having no model to try.                                       *)
Call(r) ==
  /\ review[r].at = "called"
  /\ \/ Goes(r, Settled(review[r], "threw"))
     \/ Goes(r, Refused(review[r], "error"))
     \/ Goes(r, IF review[r].aborted THEN Refused(review[r], "cancelled")
                ELSE [review[r] EXCEPT !.at = "resolving"])
     \/ ~review[r].aborted /\ Goes(r, Refused(review[r], "unavailable"))
  /\ Stays

(* resolveGuardianModel: the configured model if Pi can authenticate it,   *)
(* or else the active one; the signal is not looked at in between.         *)
ModelResolved(r) ==
  /\ review[r].at = "resolving"
  /\ \/ Goes(r, IF review[r].aborted THEN Refused(review[r], "cancelled")
                ELSE [review[r] EXCEPT !.at = "authorizing"])
     \/ Goes(r, Refused(review[r], "unavailable"))
  /\ Stays

(* A missing key, or evidence of another directory, is no reviewer.        *)
NotAuthorized(r) ==
  /\ review[r].at = "authorizing"
  /\ \/ Goes(r, Refused(review[r], "unavailable"))
     \/ review[r].aborted /\ Goes(r, Refused(review[r], "cancelled"))
  /\ Stays

(* The tools are made and the lease is opened on the trunk as it is now.   *)
Open(r) ==
  /\ review[r].at = "authorizing" /\ ~review[r].aborted
  /\ LET t == TrunkFor(trunk, review[r].key, r) IN
     /\ \E window \in Windows(review[r].raw, From(t, review[r].raw, review[r].epoch)) :
          lease' = [lease EXCEPT ![r] = Lease(t, review[r].raw, review[r].epoch, window)]
     /\ trunk' = Held(t)
  /\ Goes(r, Asks([review[r] EXCEPT !.attempt = 1, !.runtime = "open",
                                    !.raw = <<>>, !.epoch = 0]))
  /\ UNCHANGED <<evidence, entries, left>>
-------------------------------------------------------------------------------
(* isTransientProviderFailure, of an error and its causes: any status that *)
(* is known must be retryable; only then do codes and messages count.      *)
Transient(statuses, flagged) ==
  IF statuses # {} THEN statuses = {"retryable"} ELSE flagged

(* The request fails, or stops otherwise than it may: then what is known   *)
(* of the error is its message, or the answer mixes tool calls with a stop *)
(* and is final.                                                           *)
RequestFails(r) ==
  /\ review[r].at = "asking"
  /\ \E transient \in {Transient(statuses, flagged) :
                       statuses \in SUBSET {"retryable", "other"}, flagged \in BOOLEAN} :
       \E v \in Retries(review[r], "provider", transient) : Goes(r, InTime(review[r], v))
  /\ Stays

Interrupted(r) ==
  /\ review[r].at \in {"asking", "using", "sleeping"}
  /\ review[r].aborted \/ review[r].expired
  /\ Goes(r, InTime(review[r], review[r]))
  /\ Stays

AsksForTools(r) ==
  /\ review[r].at = "asking"
  /\ Goes(r, InTime(review[r],
             IF review[r].rounds >= left.rounds THEN Ending(review[r], "provider")
             ELSE [review[r] EXCEPT !.at = "using"]))
  /\ Stays

Answers(r, reply) ==
  /\ review[r].at = "asking"
  /\ LET parsed == ParseReply(reply) IN
     IF parsed = Unparsed
     THEN \E v \in Retries(review[r], "parse", TRUE) : Goes(r, InTime(review[r], v))
     ELSE Goes(r, InTime(review[r], [Ending(review[r], parsed) EXCEPT !.reply = reply]))
  /\ Stays

(* One round of tool calls, run one after the other.                       *)
ToolsEnd(r) ==
  /\ review[r].at = "using"
  /\ \/ Goes(r, InTime(review[r], Asks([review[r] EXCEPT !.rounds = @ + 1])))
     \/ Goes(r, InTime(review[r], Ending(review[r], "provider")))
  /\ Stays

SleepEnds(r) ==
  /\ review[r].at = "sleeping"
  /\ Goes(r, InTime(review[r], Asks([review[r] EXCEPT !.attempt = @ + 1, !.rounds = 0])))
  /\ Stays
-------------------------------------------------------------------------------
(* Mutant: the turn is written down before the tools are closed.           *)
CommitsAnyway(v, clean) == v.ending \in Verdicts

MayCommit(v, clean) == v.ending \in Verdicts /\ clean

(* The finally: the tools are closed, a verdict's turn is committed, and   *)
(* the lease is released.  A close that fails is how the review ends.      *)
CloseEnds(r) ==
  /\ review[r].at = "closing"
  /\ \E clean \in BOOLEAN, size \in Sizes :
       /\ trunk' = Release(IF MayCommit(review[r], clean)
                           THEN CommitTurn(trunk, lease[r], Turn(r, size, lease[r].offers))
                           ELSE trunk, lease[r])
       /\ Goes(r, Settled([review[r] EXCEPT !.runtime = IF clean THEN "closed" ELSE "failed"],
                          IF clean THEN OutcomeOf(review[r].ending) ELSE "failed"))
  /\ lease' = [lease EXCEPT ![r] = NoLease]
  /\ UNCHANGED <<evidence, entries, left>>

Proceeds(r) == Interrupted(r) \/ SleepEnds(r) \/ CloseEnds(r)

Next ==
  \/ Input \/ MessageEnd \/ ResetBranch \/ InvalidateSession
  \/ \E r \in Reviews :
       \/ Abort(r) \/ Deadline(r)
       \/ \E key \in left.keys : Submit(r, key)
       \/ Call(r) \/ ModelResolved(r) \/ NotAuthorized(r) \/ Open(r)
       \/ RequestFails(r) \/ AsksForTools(r)
       \/ \E reply \in Replies : Answers(r, reply)
       \/ ToolsEnd(r)
       \/ Proceeds(r)

Spec == Init /\ [][Next]_vars

(* Timers fire and the loop goes on; the close of the tools is bounded by  *)
(* the worker client's own timers.  The provider, the tools and the key    *)
(* store promise nothing.                                                  *)
FairSpec == Spec /\ \A r \in Reviews : WF_vars(Deadline(r)) /\ WF_vars(Proceeds(r))
-------------------------------------------------------------------------------
(* The types of the state; of the turns in the trunk nothing is said.      *)
ReviewState ==
  [at : {"idle", "called", "resolving", "authorizing", "settled"} \cup Opened,
   key : Keys \cup {"none"}, raw : Seq(Nat), epoch : Nat, attempt : Nat, rounds : Nat,
   aborted : BOOLEAN, expired : BOOLEAN, runtime : {"none", "open", "closed", "failed"},
   ending : Verdicts \cup Failures \cup {"none"}, reply : Replies \cup {NoReply},
   outcome : Outcome \cup {"none"}]

IsTrunk(t) ==
  t \in [id : Reviews, key : Keys \cup {"none"}, active : BOOLEAN, turns : {t.turns},
         cursor : Cursor \cup {NoCursor}, spanned : SUBSET Nat]

TypeOK ==
  /\ evidence \in [transcript : Seq(Nat), fallback : Seq(Nat), epoch : Nat]
  /\ trunk = NoTrunk \/ IsTrunk(trunk)
  /\ review \in [Reviews -> ReviewState]
  /\ lease \in [Reviews -> LeaseOf(Reviews) \cup {NoLease}]
  /\ entries \in Nat /\ left \in Bounds

(* A Delta prompt leaves out only what a committed prompt of the same      *)
(* trunk was cut from: whatever was appended, dropped from the head,       *)
(* displaced or reset since, and whichever reviews failed in between, an   *)
(* entry no such prompt had before it is still to be offered.  One that    *)
(* stood before a prompt and was crowded out of its window is not offered  *)
(* again, and a turn that is trimmed takes what it offered with it, so     *)
(* "prior transcript lives in the reviewer session history"                *)
(* (auto-review-request.ts:169) claims too much (guardian-session.ts:      *)
(* 212-236, 264, guardian-transcript.ts:51-82, register.ts:207-229).       *)
Leased == {r \in Reviews : lease[r] # NoLease}

NothingSkipped == \A r \in Leased : lease[r].left \subseteq lease[r].spanned

(* At most one review writes to the trunk, and the trunk is taken exactly  *)
(* while one does: it is never left taken by a review that is over, nor    *)
(* freed by one that does not have it (guardian-session.ts:203-205,        *)
(* 273-277).                                                               *)
Writers == {r \in Leased : Owns(trunk, lease[r])}

TrunkHeldByOne ==
  trunk # NoTrunk => /\ \A r, q \in Writers : r = q
                     /\ trunk.active <=> Writers # {}

(* The tools of every review are closed when it is over, a verdict reaches *)
(* the Engine only if they closed cleanly, and the trunk remembers only    *)
(* such reviews, each once (auto-reviewer.ts:486-489, 515-522).            *)
CleanupDecides ==
  /\ \A r \in Reviews : review[r].at = "settled" =>
       /\ review[r].runtime # "open"
       /\ review[r].outcome \in Verdicts => review[r].runtime = "closed"
  /\ trunk # NoTrunk =>
       /\ \A i \in DOMAIN trunk.turns : review[trunk.turns[i].by].outcome \in Verdicts
       /\ \A i, j \in DOMAIN trunk.turns : trunk.turns[i].by = trunk.turns[j].by => i = j

(* An approval follows from everything the reply says of the decision: no  *)
(* member says otherwise, none calls the risk critical, and a high risk is *)
(* authorized by the user (auto-review-request.ts:294-319, 348-397).       *)
ApprovalIsUnambiguous ==
  \A r \in Reviews : review[r].outcome = "approve" =>
    LET said(key) == {m.value : m \in {n \in Range(review[r].reply.members) : n.key = key}} IN
    /\ said("outcome") = {"allow"} /\ "critical" \notin said("risk_level")
    /\ "high" \in said("risk_level") => said("user_authorization") \in {{"medium"}, {"high"}}

(* A verdict is one the whole reply supports and a clean end stands behind.*)
VerdictsAreEarned == CleanupDecides /\ ApprovalIsUnambiguous

(* A review that is aborted or out of time begins nothing more: it neither *)
(* asks, nor uses tools, nor waits to retry, and what it hears too late is *)
(* no verdict (auto-reviewer.ts:381-383, 406-419, 534-536).                *)
DeadReviewsStop ==
  [][\A r \in Reviews : review[r].aborted \/ review[r].expired =>
       /\ review'[r].at \in Opened \ {"closing"} => review'[r].at = review[r].at
       /\ review'[r].ending \in Verdicts => review[r].ending \in Verdicts]_vars

(* Once its lease is open a review ends, though the provider and the tools *)
(* never answer (auto-reviewer.ts:372, 382-388).                           *)
OpenedReviewsEnd == \A r \in Reviews : review[r].at \in Opened ~> review[r].at = "settled"

(* A review that cannot have a verdict any more stops, and every opened    *)
(* one ends.                                                               *)
ReviewsStopAndEnd == DeadReviewsStop /\ OpenedReviewsEnd
================================================================================
