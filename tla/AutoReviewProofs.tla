--------------------------- MODULE AutoReviewProofs ---------------------------
(***************************************************************************)
(* For any number of reviews, entries, resets and identities: the trunk    *)
(* has one writer at most, a Delta prompt leaves out nothing that was not  *)
(* offered before, a verdict is what its reply says and its tools closed,  *)
(* and a review that is aborted or out of time begins nothing more.        *)
(***************************************************************************)
EXTENDS AutoReview, SequenceTheorems, FiniteSetTheorems, TLAPS

(* What a step that only moves a review on keeps of it: whether its lease  *)
(* is open, whether it ever was, and the evidence it holds, or none.       *)
Reached == Opened \cup {"settled"}

Carries(v, w) ==
  /\ w \in ReviewState
  /\ w.at \in Opened <=> v.at \in Opened
  /\ v.at \in Reached => w.at \in Reached
  /\ (w.raw = v.raw /\ w.epoch = v.epoch) \/ (w.raw = <<>> /\ w.epoch = 0)

-------------------------------------------------------------------------------
LEMMA SettledType ==
  ASSUME NEW v \in ReviewState, NEW o \in Outcome
  PROVE  LET w == Settled(v, o) IN
         /\ w \in ReviewState /\ w.at = "settled" /\ w.raw = <<>> /\ w.epoch = 0
  <1>1. /\ v.reply \in Replies \cup {NoReply}
        /\ v.runtime \in {"none", "open", "closed", "failed"}
    BY DEF ReviewState
  <1>2. Resting \in ReviewState /\ Resting.raw = <<>> /\ Resting.epoch = 0
    <2>1. <<>> \in Seq(Nat)
      OBVIOUS
    <2> QED BY <2>1 DEF Resting, ReviewState
  <1> QED BY <1>1, <1>2 DEF Settled, ReviewState

LEMMA OutcomeType ==
  ASSUME NEW e \in Verdicts \cup Failures
  PROVE  OutcomeOf(e) \in Outcome
  BY DEF OutcomeOf, Verdicts, Failures, Outcome

LEMMA RefusedCarries ==
  ASSUME NEW v \in ReviewState, NEW e \in Verdicts \cup Failures, v.at \notin Opened
  PROVE  Carries(v, Refused(v, e))
  BY SettledType, OutcomeType DEF Refused, Carries, Reached, Opened

LEMMA EndingCarries ==
  ASSUME NEW v \in ReviewState, NEW e \in Verdicts \cup Failures, v.at \in Opened
  PROVE  Carries(v, Ending(v, e))
  BY DEF Ending, Carries, Reached, Opened, ReviewState

LEMMA AsksCarries ==
  ASSUME NEW v \in ReviewState, v.at \in Opened
  PROVE  Carries(v, Asks(v))
  <1>1. Carries(v, [v EXCEPT !.at = "asking"])
    BY DEF Carries, Reached, Opened, ReviewState
  <1>2. {"cancelled", "timeout"} \subseteq Verdicts \cup Failures
    BY DEF Failures
  <1> QED BY <1>1, <1>2, EndingCarries DEF Asks

LEMMA InTimeCarries ==
  ASSUME NEW v \in ReviewState, v.at \in Opened, NEW w, Carries(v, w)
  PROVE  Carries(v, InTime(v, w))
  <1>1. {"cancelled", "timeout"} \subseteq Verdicts \cup Failures
    BY DEF Failures
  <1> QED BY <1>1, EndingCarries DEF InTime

LEMMA CarriesTwice ==
  ASSUME NEW u, NEW v, NEW w, Carries(u, v), Carries(v, w)
  PROVE  Carries(u, w)
  BY DEF Carries

LEMMA RetriesCarry ==
  ASSUME NEW v \in ReviewState, v.at \in Opened, NEW e \in Verdicts \cup Failures,
         NEW b \in BOOLEAN, NEW w \in Retries(v, e, b)
  PROVE  Carries(v, w)
  <1>1. Carries(v, [v EXCEPT !.at = "sleeping"])
    BY DEF Carries, Reached, Opened, ReviewState
  <1>2. "timeout" \in Verdicts \cup Failures
    BY DEF Failures
  <1> QED BY <1>1, <1>2, EndingCarries DEF Retries

LEMMA CountsCarry ==
  ASSUME NEW v \in ReviewState, NEW m \in Nat, NEW n \in Nat
  PROVE  \A u \in {[v EXCEPT !.rounds = n], [v EXCEPT !.attempt = m, !.rounds = n]} :
           Carries(v, u) /\ u \in ReviewState /\ u.at = v.at
  BY DEF Carries, ReviewState

(* The steps that touch a review alone.                                    *)
QuietStep(r) ==
  \/ Abort(r) \/ Deadline(r) \/ Call(r) \/ ModelResolved(r) \/ NotAuthorized(r)
  \/ RequestFails(r) \/ AsksForTools(r) \/ (\E reply \in Replies : Answers(r, reply))
  \/ ToolsEnd(r) \/ Interrupted(r) \/ SleepEnds(r)

LEMMA QuietCarries ==
  ASSUME TypeOK, NEW r \in Reviews, QuietStep(r)
  PROVE  /\ UNCHANGED <<evidence, trunk, lease, entries, left>>
         /\ review' = [review EXCEPT ![r] = review'[r]]
         /\ Carries(review[r], review'[r])
  <1> DEFINE v == review[r]
  <1>1. v \in ReviewState /\ review \in [Reviews -> ReviewState]
    BY DEF TypeOK
  <1>2. {"cancelled", "timeout", "unavailable", "error", "provider", "parse", "approve", "deny"}
          \subseteq Verdicts \cup Failures
    BY DEF Verdicts, Failures
  <1>3. ASSUME NEW w, Goes(r, w), Carries(v, w), Stays
        PROVE  /\ UNCHANGED <<evidence, trunk, lease, entries, left>>
               /\ review' = [review EXCEPT ![r] = review'[r]]
               /\ Carries(v, review'[r])
    BY <1>1, <1>3 DEF Goes, Stays
  <1>4. CASE Abort(r)
    <2>1. Carries(v, [v EXCEPT !.aborted = TRUE])
      BY <1>1 DEF Carries, ReviewState
    <2> QED BY <1>1, <1>4, <2>1 DEF Abort
  <1>5. CASE Deadline(r)
    <2>1. Carries(v, [v EXCEPT !.expired = TRUE])
      BY <1>1 DEF Carries, ReviewState
    <2> QED BY <1>1, <1>5, <2>1 DEF Deadline
  <1>6. CASE Call(r)
    <2>1. v.at = "called" /\ v.at \notin Opened /\ Stays
      BY <1>6 DEF Call, Opened
    <2>2. Carries(v, Settled(v, "threw"))
      BY <1>1, <2>1, SettledType DEF Carries, Reached, Outcome, Opened
    <2>3. Carries(v, [v EXCEPT !.at = "resolving"])
      BY <1>1, <2>1 DEF Carries, Reached, Opened, ReviewState
    <2>4. \A e \in {"error", "cancelled", "unavailable"} : Carries(v, Refused(v, e))
      BY <1>1, <1>2, <2>1, RefusedCarries
    <2>5. \E w : Goes(r, w) /\ Carries(v, w)
      BY <1>6, <2>2, <2>3, <2>4 DEF Call
    <2> QED BY <1>3, <2>1, <2>5
  <1>7. CASE ModelResolved(r)
    <2>1. v.at = "resolving" /\ v.at \notin Opened /\ Stays
      BY <1>7 DEF ModelResolved, Opened
    <2>2. Carries(v, [v EXCEPT !.at = "authorizing"])
      BY <1>1, <2>1 DEF Carries, Reached, Opened, ReviewState
    <2>3. \A e \in {"cancelled", "unavailable"} : Carries(v, Refused(v, e))
      BY <1>1, <1>2, <2>1, RefusedCarries
    <2>4. \E w : Goes(r, w) /\ Carries(v, w)
      BY <1>7, <2>2, <2>3 DEF ModelResolved
    <2> QED BY <1>3, <2>1, <2>4
  <1>8. CASE NotAuthorized(r)
    <2>1. v.at = "authorizing" /\ v.at \notin Opened /\ Stays
      BY <1>8 DEF NotAuthorized, Opened
    <2>2. \A e \in {"cancelled", "unavailable"} : Carries(v, Refused(v, e))
      BY <1>1, <1>2, <2>1, RefusedCarries
    <2>3. \E w : Goes(r, w) /\ Carries(v, w)
      BY <1>8, <2>2 DEF NotAuthorized
    <2> QED BY <1>3, <2>1, <2>3
  <1>9. CASE RequestFails(r)
    <2>1. v.at \in Opened /\ Stays
      BY <1>9 DEF RequestFails, Opened
    <2>2. PICK transient \in BOOLEAN : \E w \in Retries(v, "provider", transient) :
            Goes(r, InTime(v, w))
      <3>1. \A statuses, flagged : flagged \in BOOLEAN => Transient(statuses, flagged) \in BOOLEAN
        BY DEF Transient
      <3> QED BY <1>9, <3>1 DEF RequestFails
    <2>3. PICK w \in Retries(v, "provider", transient) : Goes(r, InTime(v, w))
      BY <2>2
    <2>4. Carries(v, InTime(v, w))
      BY <1>1, <1>2, <2>1, RetriesCarry, InTimeCarries
    <2> QED BY <1>3, <2>1, <2>3, <2>4
  <1>10. CASE AsksForTools(r)
    <2>1. v.at \in Opened /\ Stays
      BY <1>10 DEF AsksForTools, Opened
    <2>2. Carries(v, [v EXCEPT !.at = "using"])
      BY <1>1, <2>1 DEF Carries, Reached, Opened, ReviewState
    <2>3. Carries(v, Ending(v, "provider"))
      BY <1>1, <1>2, <2>1, EndingCarries
    <2>4. PICK w : Goes(r, InTime(v, w)) /\ Carries(v, w)
      BY <1>10, <2>2, <2>3 DEF AsksForTools
    <2> QED BY <1>1, <1>3, <2>1, <2>4, InTimeCarries
  <1>11. ASSUME NEW reply \in Replies, Answers(r, reply)
         PROVE  /\ UNCHANGED <<evidence, trunk, lease, entries, left>>
                /\ review' = [review EXCEPT ![r] = review'[r]]
                /\ Carries(v, review'[r])
    <2> DEFINE parsed == ParseReply(reply)
    <2>1. v.at \in Opened /\ Stays
      BY <1>11 DEF Answers, Opened
    <2>2. parsed \in {"approve", "deny", Unparsed}
      BY DEF ParseReply
    <2>3. CASE parsed = Unparsed
      <3>1. PICK w \in Retries(v, "parse", TRUE) : Goes(r, InTime(v, w))
        BY <1>11, <2>3 DEF Answers
      <3>2. Carries(v, InTime(v, w))
        BY <1>1, <1>2, <2>1, RetriesCarry, InTimeCarries
      <3> QED BY <1>3, <2>1, <3>1, <3>2
    <2>4. CASE parsed # Unparsed
      <3> DEFINE w == [Ending(v, parsed) EXCEPT !.reply = reply]
      <3>1. Carries(v, Ending(v, parsed))
        BY <1>1, <1>2, <2>1, <2>2, <2>4, EndingCarries
      <3>2. Carries(v, w)
        BY <3>1 DEF Carries, ReviewState
      <3>3. Goes(r, InTime(v, w))
        BY <1>11, <2>4 DEF Answers
      <3> QED BY <1>1, <1>3, <2>1, <3>2, <3>3, InTimeCarries
    <2> QED BY <2>3, <2>4
  <1>12. CASE ToolsEnd(r)
    <2>1. v.at \in Opened /\ Stays
      BY <1>12 DEF ToolsEnd, Opened
    <2> DEFINE u == [v EXCEPT !.rounds = @ + 1]
    <2>2. Carries(v, u) /\ u \in ReviewState /\ u.at \in Opened
      <3>1. 0 \in Nat /\ v.attempt + 1 \in Nat /\ v.rounds + 1 \in Nat
        BY <1>1 DEF ReviewState
      <3> QED BY <1>1, <2>1, <3>1, CountsCarry
    <2>3. Carries(v, Asks(u)) /\ Carries(v, Ending(v, "provider"))
      BY <1>1, <1>2, <2>1, <2>2, AsksCarries, EndingCarries, CarriesTwice
    <2>4. PICK w : Goes(r, InTime(v, w)) /\ Carries(v, w)
      BY <1>12, <2>3 DEF ToolsEnd
    <2> QED BY <1>1, <1>3, <2>1, <2>4, InTimeCarries
  <1>13. CASE Interrupted(r)
    <2>1. v.at \in Opened /\ Stays
      BY <1>13 DEF Interrupted, Opened
    <2>2. Carries(v, v)
      BY <1>1 DEF Carries
    <2>3. Goes(r, InTime(v, v))
      BY <1>13 DEF Interrupted
    <2> QED BY <1>1, <1>3, <2>1, <2>2, <2>3, InTimeCarries
  <1>14. CASE SleepEnds(r)
    <2>1. v.at \in Opened /\ Stays
      BY <1>14 DEF SleepEnds, Opened
    <2> DEFINE u == [v EXCEPT !.attempt = @ + 1, !.rounds = 0]
    <2>2. Carries(v, u) /\ u \in ReviewState /\ u.at \in Opened
      <3>1. 0 \in Nat /\ v.attempt + 1 \in Nat /\ v.rounds + 1 \in Nat
        BY <1>1 DEF ReviewState
      <3> QED BY <1>1, <2>1, <3>1, CountsCarry
    <2>3. Carries(v, Asks(u))
      BY <1>1, <2>1, <2>2, AsksCarries, CarriesTwice
    <2>4. Goes(r, InTime(v, Asks(u)))
      BY <1>14 DEF SleepEnds
    <2> QED BY <1>1, <1>3, <2>1, <2>3, <2>4, InTimeCarries
  <1> QED
    BY <1>4, <1>5, <1>6, <1>7, <1>8, <1>9, <1>10, <1>11, <1>12, <1>13, <1>14 DEF QuietStep
-------------------------------------------------------------------------------
(* A snapshot is the log as some review read it, or as the next one would; *)
(* of two of one epoch one begins the other, and the log only goes on.     *)
Snapshot == [epoch : Nat, raw : Seq(Nat)]
Empty == [epoch |-> 0, raw |-> <<>>]

Agree(s, t) ==
  s.epoch = t.epoch => \A i \in 1..Len(s.raw) : i <= Len(t.raw) => s.raw[i] = t.raw[i]

Before(s, n) == s.epoch < n.epoch \/ (s.epoch = n.epoch /\ Len(s.raw) <= Len(n.raw))

Known(S, n) ==
  /\ n \in S /\ S \subseteq Snapshot
  /\ \A s \in S : Before(s, n)
  /\ \A s, t \in S : Agree(s, t)

(* A cursor is about the log as it is or was; and what it calls sent, of   *)
(* any log it may be used on, is in X.                                     *)
Fit(c, n) == c.epoch < n.epoch \/ (c.epoch = n.epoch /\ c.seen <= Len(n.raw))

Cover(c, S, X) ==
  \A s \in S : s.epoch = c.epoch =>
    \A i \in 1..Len(s.raw) : i <= c.seen => s.raw[i] \in X

LEMMA SnapshotType ==
  ASSUME NEW s \in Snapshot
  PROVE  s.epoch \in Nat /\ s.raw \in Seq(Nat) /\ Len(s.raw) \in Nat
  BY DEF Snapshot

LEMMA BeforeTwice ==
  ASSUME NEW s \in Snapshot, NEW n \in Snapshot, NEW m \in Snapshot, Before(s, n), Before(n, m)
  PROVE  Before(s, m)
  BY SnapshotType DEF Before

LEMMA AgreeTwice ==
  ASSUME NEW s \in Snapshot, NEW n \in Snapshot, NEW m \in Snapshot,
         Before(s, n), Before(n, m), Agree(s, n), Agree(n, m)
  PROVE  Agree(s, m) /\ Agree(m, s)
  <1>1. /\ s.epoch \in Nat /\ n.epoch \in Nat /\ m.epoch \in Nat
        /\ Len(s.raw) \in Nat /\ Len(n.raw) \in Nat /\ Len(m.raw) \in Nat
    BY SnapshotType
  <1>2. ASSUME s.epoch = m.epoch, NEW i \in 1..Len(s.raw)
        PROVE  s.raw[i] = m.raw[i] /\ i <= Len(m.raw)
    <2>1. s.epoch = n.epoch /\ Len(s.raw) <= Len(n.raw) /\ Len(n.raw) <= Len(m.raw)
      BY <1>1, <1>2 DEF Before
    <2>2. i \in 1..Len(n.raw) /\ i <= Len(n.raw) /\ i <= Len(m.raw)
      BY <1>1, <1>2, <2>1
    <2>3. s.raw[i] = n.raw[i] /\ n.raw[i] = m.raw[i]
      BY <1>2, <2>1, <2>2 DEF Agree
    <2> QED BY <2>2, <2>3
  <1> QED BY <1>1, <1>2 DEF Agree

LEMMA KnownLater ==
  ASSUME NEW S, NEW n, Known(S, n), NEW m \in Snapshot, Before(n, m), Agree(n, m),
         NEW T, T \subseteq S \cup {m, Empty}, m \in T
  PROVE  /\ Known(T, m)
         /\ \A c \in Cursor : Fit(c, n) => Fit(c, m)
         /\ \A c \in Cursor : Fit(c, n) => \A X : Cover(c, S, X) => Cover(c, T, X)
  <1>1. /\ n \in Snapshot /\ m \in Snapshot /\ S \subseteq Snapshot /\ n \in S
        /\ \A s \in S : Before(s, n)
        /\ \A s, t \in S : Agree(s, t)
    BY DEF Known
  <1>2. Empty \in Snapshot /\ Empty.epoch = 0 /\ Len(Empty.raw) = 0
    BY DEF Empty, Snapshot
  <1>3. \A s \in Snapshot : s.epoch \in Nat /\ s.raw \in Seq(Nat) /\ Len(s.raw) \in Nat
    BY DEF Snapshot
  <1>4. T \subseteq Snapshot
    BY <1>1, <1>2
  <1>5. \A s \in T : Before(s, m)
    <2>1. ASSUME NEW s \in S PROVE Before(s, m)
      BY <1>1, <2>1, BeforeTwice
    <2>2. Before(m, m) /\ Before(Empty, m)
      BY <1>1, <1>2, <1>3 DEF Before
    <2> QED BY <2>1, <2>2
  <1>6. \A s \in S : Agree(s, m) /\ Agree(m, s)
    BY <1>1, AgreeTwice
  <1>7. \A s \in Snapshot : Agree(s, Empty) /\ Agree(Empty, s)
    BY <1>2, <1>3 DEF Agree
  <1>8. Agree(m, m)
    BY DEF Agree
  <1>9. \A s, t \in T : Agree(s, t)
    BY <1>1, <1>4, <1>6, <1>7, <1>8
  <1>10. ASSUME NEW c \in Cursor, Fit(c, n)
         PROVE  Fit(c, m) /\ \A X : Cover(c, S, X) => Cover(c, T, X)
    <2>1. c.epoch \in Nat /\ c.seen \in Nat
      BY DEF Cursor
    <2>2. Fit(c, m)
      BY <1>1, <1>3, <1>10, <2>1 DEF Fit, Before
    <2>3. ASSUME NEW X, Cover(c, S, X) PROVE Cover(c, T, X)
      <3>1. ASSUME m.epoch = c.epoch, NEW i \in 1..Len(m.raw), i <= c.seen
            PROVE  m.raw[i] \in X
        <4>1. n.epoch = c.epoch /\ i \in 1..Len(n.raw)
          BY <1>1, <1>3, <1>10, <2>1, <3>1 DEF Fit, Before
        <4>2. m.raw[i] = n.raw[i]
          BY <1>1, <1>3, <3>1, <4>1 DEF Agree
        <4> QED BY <1>1, <2>3, <3>1, <4>1, <4>2 DEF Cover
      <3> QED BY <1>2, <1>3, <2>1, <2>3, <3>1 DEF Cover
    <2> QED BY <2>2, <2>3
  <1> QED BY <1>4, <1>5, <1>9, <1>10 DEF Known
-------------------------------------------------------------------------------
(* The log as the next review will read it, or, when reading will displace *)
(* the input log, the empty log of the epoch that then begins.             *)
Log == [transcript : Seq(Nat), fallback : Seq(Nat), epoch : Nat]

Displaced(ev) == ev.transcript # <<>> /\ ev.fallback # <<>>

Now(ev) ==
  IF Displaced(ev) THEN [epoch |-> ev.epoch + 1, raw |-> <<>>]
  ELSE [epoch |-> ev.epoch, raw |-> Raw(ev)]

Follows(n, m) == m \in Snapshot /\ Before(n, m) /\ Agree(n, m)

LEMMA AppendType ==
  ASSUME NEW k \in Seq(Nat), NEW e \in Nat
  PROVE  Append(k, e) \in Seq(Nat) /\ Append(k, e) # <<>>
  <1>1. Len(Append(k, e)) = Len(k) + 1 /\ Len(k) \in Nat
    OBVIOUS
  <1>2. Append(k, e) # <<>>
    BY <1>1
  <1> QED BY <1>2

LEMMA LogType ==
  ASSUME NEW ev \in Log, NEW s \in Seq(Nat), NEW n \in Nat
  PROVE  \A new \in {[ev EXCEPT !.fallback = s, !.epoch = n], [ev EXCEPT !.transcript = s, !.epoch = n]} :
           new \in Log
  BY DEF Log

LEMMA AppendedType ==
  ASSUME NEW s \in Seq(Nat), NEW e \in Nat
  PROVE  /\ Appended(s, e) \in Seq(Nat) /\ Appended(s, e) # <<>>
         /\ ~Overflows(s) => /\ Len(Appended(s, e)) = Len(s) + 1
                             /\ \A i \in 1..Len(s) : Appended(s, e)[i] = s[i]
  <1> DEFINE kept == SubSeq(s, Len(s) - MaxRaw + 2, Len(s))
  <1>1. MaxRaw \in Nat \ {0} /\ Len(s) \in Nat
    BY SessionAssumption
  <1>2. CASE Overflows(s)
    <2>1. Len(s) - MaxRaw + 2 \in Int /\ Len(s) \in Int /\ Len(s) - MaxRaw + 2 > 0
      BY <1>1, <1>2 DEF Overflows
    <2>2. \A i \in (Len(s) - MaxRaw + 2)..Len(s) : s[i] \in Nat
      BY <2>1
    <2>3. kept \in Seq(Nat)
      BY ONLY <2>1, <2>2, SubSeqProperties
    <2>4. Append(kept, e) \in Seq(Nat) /\ Append(kept, e) # <<>>
      BY <2>3, AppendType
    <2> QED BY <1>2, <2>4 DEF Appended
  <1>3. CASE ~Overflows(s)
    BY <1>1, <1>3 DEF Appended
  <1> QED BY <1>2, <1>3

LEMMA NowType ==
  ASSUME NEW ev \in Log
  PROVE  Now(ev) \in Snapshot
  BY DEF Log, Now, Raw, Snapshot

LEMMA InputFollows ==
  ASSUME NEW ev \in Log, NEW e \in Nat
  PROVE  AppendInput(ev, e) \in Log /\ Follows(Now(ev), Now(AppendInput(ev, e)))
  <1> DEFINE new == AppendInput(ev, e)
  <1>1. /\ new \in Log /\ new.transcript = ev.transcript
        /\ new.fallback = Appended(ev.fallback, e) /\ new.fallback # <<>>
        /\ new.epoch = IF Overflows(ev.fallback) THEN ev.epoch + 1 ELSE ev.epoch
    <2>1. ev.fallback \in Seq(Nat) /\ ev.epoch \in Nat
      BY DEF Log
    <2>2. Appended(ev.fallback, e) \in Seq(Nat) /\ Appended(ev.fallback, e) # <<>>
      BY <2>1, AppendedType
    <2>3. EpochAfter(ev.epoch, ev.fallback) \in Nat
      BY <2>1 DEF EpochAfter
    <2>4. new \in Log
      BY <2>2, <2>3, LogType DEF AppendInput
    <2> QED BY <2>2, <2>3, <2>4 DEF AppendInput, EpochAfter, Log
  <1>2. Now(ev) \in Snapshot /\ Now(new) \in Snapshot /\ ev.epoch \in Nat
    BY <1>1, NowType DEF Log
  <1>3. CASE ev.transcript # <<>>
    <2>1. Now(new).epoch = new.epoch + 1
      BY <1>1, <1>3 DEF Now, Displaced
    <2>2. CASE Displaced(ev)
      <3>1. Now(ev).epoch = ev.epoch + 1 /\ Now(ev).raw = <<>>
        BY <2>2 DEF Now
      <3>2. Len(Now(ev).raw) = 0 /\ Len(Now(new).raw) \in Nat
        BY <1>2, <3>1, SnapshotType
      <3> QED BY <1>1, <1>2, <2>1, <3>1, <3>2 DEF Follows, Before, Agree
    <2>3. CASE ~Displaced(ev)
      <3>1. Now(ev).epoch = ev.epoch
        BY <2>3 DEF Now
      <3> QED BY <1>1, <1>2, <2>1, <3>1 DEF Follows, Before, Agree
    <2> QED BY <2>2, <2>3
  <1>4. CASE ev.transcript = <<>>
    <2>1. /\ Now(ev).epoch = ev.epoch /\ Now(ev).raw = ev.fallback
          /\ Now(new).epoch = new.epoch /\ Now(new).raw = new.fallback
      BY <1>1, <1>4 DEF Now, Displaced, Raw
    <2>2. ev.fallback \in Seq(Nat) /\ Len(ev.fallback) \in Nat
      BY DEF Log
    <2>3. CASE Overflows(ev.fallback)
      BY <1>1, <1>2, <2>1, <2>3 DEF Follows, Before, Agree
    <2>4. CASE ~Overflows(ev.fallback)
      <3>1. /\ Len(new.fallback) = Len(ev.fallback) + 1
            /\ \A i \in 1..Len(ev.fallback) : new.fallback[i] = ev.fallback[i]
        BY <1>1, <2>2, <2>4, AppendedType
      <3> QED BY <1>1, <1>2, <2>1, <2>2, <2>4, <3>1 DEF Follows, Before, Agree
    <2> QED BY <2>3, <2>4
  <1> QED BY <1>1, <1>3, <1>4

LEMMA MessageFollows ==
  ASSUME NEW ev \in Log, NEW e \in Nat
  PROVE  AppendMessage(ev, e) \in Log /\ Follows(Now(ev), Now(AppendMessage(ev, e)))
  <1> DEFINE new == AppendMessage(ev, e)
  <1>1. /\ new \in Log /\ new.fallback = ev.fallback
        /\ new.transcript = Appended(ev.transcript, e) /\ new.transcript # <<>>
        /\ new.epoch = IF Overflows(ev.transcript) THEN ev.epoch + 1 ELSE ev.epoch
    <2>1. ev.transcript \in Seq(Nat) /\ ev.epoch \in Nat
      BY DEF Log
    <2>2. Appended(ev.transcript, e) \in Seq(Nat) /\ Appended(ev.transcript, e) # <<>>
      BY <2>1, AppendedType
    <2>3. EpochAfter(ev.epoch, ev.transcript) \in Nat
      BY <2>1 DEF EpochAfter
    <2>4. new \in Log
      BY <2>2, <2>3, LogType DEF AppendMessage
    <2> QED BY <2>2, <2>3, <2>4 DEF AppendMessage, EpochAfter, Log
  <1>2. Now(ev) \in Snapshot /\ Now(new) \in Snapshot /\ ev.epoch \in Nat
    BY <1>1, NowType DEF Log
  <1>3. CASE ev.fallback # <<>>
    <2>1. Now(new).epoch = new.epoch + 1
      BY <1>1, <1>3 DEF Now, Displaced
    <2>2. CASE Displaced(ev)
      <3>1. Now(ev).epoch = ev.epoch + 1 /\ Now(ev).raw = <<>>
        BY <2>2 DEF Now
      <3>2. Len(Now(ev).raw) = 0 /\ Len(Now(new).raw) \in Nat
        BY <1>2, <3>1, SnapshotType
      <3> QED BY <1>1, <1>2, <2>1, <3>1, <3>2 DEF Follows, Before, Agree
    <2>3. CASE ~Displaced(ev)
      <3>1. Now(ev).epoch = ev.epoch
        BY <2>3 DEF Now
      <3> QED BY <1>1, <1>2, <2>1, <3>1 DEF Follows, Before, Agree
    <2> QED BY <2>2, <2>3
  <1>4. CASE ev.fallback = <<>>
    <2>1. /\ Now(ev).epoch = ev.epoch /\ Now(ev).raw = ev.transcript
          /\ Now(new).epoch = new.epoch /\ Now(new).raw = new.transcript
      BY <1>1, <1>4 DEF Now, Displaced, Raw
    <2>2. ev.transcript \in Seq(Nat) /\ Len(ev.transcript) \in Nat
      BY DEF Log
    <2>3. CASE Overflows(ev.transcript)
      BY <1>1, <1>2, <2>1, <2>3 DEF Follows, Before, Agree
    <2>4. CASE ~Overflows(ev.transcript)
      <3>1. /\ Len(new.transcript) = Len(ev.transcript) + 1
            /\ \A i \in 1..Len(ev.transcript) : new.transcript[i] = ev.transcript[i]
        BY <1>1, <2>2, <2>4, AppendedType
      <3> QED BY <1>1, <1>2, <2>1, <2>2, <2>4, <3>1 DEF Follows, Before, Agree
    <2> QED BY <2>3, <2>4
  <1> QED BY <1>1, <1>3, <1>4

LEMMA ResetFollows ==
  ASSUME NEW ev \in Log
  PROVE  ResetEvidence(ev) \in Log /\ Follows(Now(ev), Now(ResetEvidence(ev)))
  <1> DEFINE new == ResetEvidence(ev)
  <1>1. ev.epoch \in Nat
    BY DEF Log
  <1>2. /\ new \in Log /\ new.epoch = ev.epoch + 1
        /\ new.transcript = <<>> /\ new.fallback = <<>>
    <2>1. <<>> \in Seq(Nat) /\ ev.epoch + 1 \in Nat
      BY <1>1
    <2> QED BY <2>1 DEF ResetEvidence, NewEvidence, Log
  <1>3. Now(new) = [epoch |-> ev.epoch + 1, raw |-> <<>>]
    BY <1>2 DEF Now, Displaced, Raw
  <1>4. Now(ev) \in Snapshot /\ Now(new) \in Snapshot
    BY <1>2, NowType
  <1>5. Now(ev) = Now(new) \/ Now(ev).epoch = ev.epoch
    BY <1>3 DEF Now
  <1>6. Before(Now(ev), Now(new)) /\ Agree(Now(ev), Now(new))
    BY <1>1, <1>3, <1>4, <1>5, SnapshotType DEF Before, Agree
  <1> QED BY <1>2, <1>4, <1>6 DEF Follows

LEMMA ConsultedFollows ==
  ASSUME NEW ev \in Log
  PROVE  LET new == Consulted(ev) IN
         /\ new \in Log /\ Follows(Now(ev), Now(new))
         /\ Now(new) = [epoch |-> new.epoch, raw |-> Raw(new)]
  <1> DEFINE new == Consulted(ev)
  <1>1. ev.epoch \in Nat /\ ev.transcript \in Seq(Nat)
    BY DEF Log
  <1>2. CASE Displaced(ev)
    <2>1. /\ new \in Log /\ new.epoch = ev.epoch + 1
          /\ new.transcript = ev.transcript /\ new.fallback = <<>>
      <3>1. <<>> \in Seq(Nat) /\ ev.epoch + 1 \in Nat
        BY <1>1
      <3>2. new = [ev EXCEPT !.fallback = <<>>, !.epoch = ev.epoch + 1]
        BY <1>2 DEF Consulted, Displaced
      <3> QED BY <3>1, <3>2 DEF Log
    <2>2. Now(new) = [epoch |-> ev.epoch + 1, raw |-> ev.transcript] /\ Raw(new) = ev.transcript
      BY <1>2, <2>1 DEF Now, Displaced, Raw
    <2>3. Now(ev) = [epoch |-> ev.epoch + 1, raw |-> <<>>]
      BY <1>2 DEF Now
    <2>4. Now(new) \in Snapshot
      BY <2>1, NowType
    <2> QED BY <1>1, <2>1, <2>2, <2>3, <2>4 DEF Follows, Before, Agree
  <1>3. CASE ~Displaced(ev)
    <2>1. new = ev
      BY <1>3 DEF Consulted, Displaced
    <2>2. Now(ev) = [epoch |-> ev.epoch, raw |-> Raw(ev)] /\ Now(ev) \in Snapshot
      BY <1>3, NowType DEF Now
    <2> QED BY <2>1, <2>2, SnapshotType DEF Follows, Before, Agree
  <1> QED BY <1>2, <1>3
-------------------------------------------------------------------------------
(* A prompt's two parts, and the lease they make.                          *)
LEMMA RangeParts ==
  ASSUME NEW s \in Seq(Nat), NEW n \in 0..Len(s)
  PROVE  LET old == Range(SubSeq(s, 1, n))
             new == Range(SubSeq(s, n + 1, Len(s))) IN
         /\ old = {s[i] : i \in 1..n} /\ old \subseteq Nat /\ new \subseteq Nat
         /\ \A i \in 1..Len(s) : s[i] \in old \cup new
  <1> DEFINE front == SubSeq(s, 1, n)
             back == SubSeq(s, n + 1, Len(s))
  <1>1. /\ 1 \in Int /\ n \in Int /\ n + 1 \in Int /\ Len(s) \in Int /\ n >= 0 /\ n <= Len(s)
        /\ \A i \in 1..n : s[i] \in Nat
        /\ \A i \in (n + 1)..Len(s) : s[i] \in Nat
    OBVIOUS
  <1>2. /\ front \in Seq(Nat) /\ Len(front) = (IF 1 <= n THEN n - 1 + 1 ELSE 0)
        /\ \A i \in 1..(n - 1 + 1) : front[i] = s[1 + i - 1]
    BY ONLY <1>1, SubSeqProperties
  <1>3. /\ back \in Seq(Nat)
        /\ Len(back) = (IF n + 1 <= Len(s) THEN Len(s) - (n + 1) + 1 ELSE 0)
        /\ \A i \in 1..(Len(s) - (n + 1) + 1) : back[i] = s[(n + 1) + i - 1]
    BY ONLY <1>1, SubSeqProperties
  <1>4. DOMAIN front = 1..n /\ \A i \in 1..n : front[i] = s[i]
    BY <1>1, <1>2
  <1>5. /\ DOMAIN back = 1..(Len(s) - n)
        /\ \A i \in 1..(Len(s) - n) : back[i] = s[n + i]
    BY <1>1, <1>3
  <1>6. Range(front) = {s[i] : i \in 1..n} /\ Range(front) \subseteq Nat
    BY <1>1, <1>4 DEF Range
  <1>7. Range(back) \subseteq Nat
    BY <1>1, <1>3, <1>5 DEF Range
  <1>8. ASSUME NEW i \in 1..Len(s), i > n PROVE s[i] \in Range(back)
    <2>1. i - n \in 1..(Len(s) - n) /\ n + (i - n) = i
      BY <1>1, <1>8
    <2>2. s[i] = back[i - n] /\ i - n \in DOMAIN back
      BY <1>5, <2>1
    <2> QED BY <2>2 DEF Range
  <1>9. ASSUME NEW i \in 1..Len(s), i <= n PROVE s[i] \in Range(front)
    BY <1>1, <1>6, <1>9
  <1>10. \A i \in 1..Len(s) : s[i] \in Range(front) \cup Range(back)
    <2>1. \A i \in 1..Len(s) : i > n \/ i <= n
      BY <1>1
    <2> QED BY <1>8, <1>9, <2>1
  <1> QED BY ONLY <1>6, <1>7, <1>10

LEMMA TrunkForType ==
  ASSUME NEW t, t = NoTrunk \/ IsTrunk(t), NEW key \in Keys \cup {"none"}, NEW r \in Reviews
  PROVE  IsTrunk(TrunkFor(t, key, r)) /\ IsTrunk(Held(TrunkFor(t, key, r)))
  <1>1. IsTrunk(NewTrunk(r, key))
    BY DEF IsTrunk, NewTrunk
  <1>2. IsTrunk(TrunkFor(t, key, r))
    BY <1>1 DEF TrunkFor
  <1>3. \A u : IsTrunk(u) => IsTrunk(Held(u))
    BY DEF IsTrunk, Held
  <1> QED BY <1>2, <1>3

LEMMA LeaseType ==
  ASSUME NEW t, IsTrunk(t), NEW raw \in Seq(Nat), NEW epoch \in Nat,
         NEW window \in Windows(raw, From(t, raw, epoch))
  PROVE  LET w == Lease(t, raw, epoch, window)
             from == From(t, raw, epoch) IN
         /\ w \in LeaseOf(Reviews)
         /\ w.trunk = t.id /\ w.fork = t.active /\ w.spanned = t.spanned
         /\ w.cursor = [epoch |-> epoch, seen |-> Len(raw)]
         /\ from \in 0..Len(raw) /\ w.left = {raw[i] : i \in 1..from}
         /\ \A i \in 1..Len(raw) : raw[i] \in w.left \cup w.spans
  <1> DEFINE from == From(t, raw, epoch)
             old == Range(SubSeq(raw, 1, from))
             new == Past(raw, from)
  <1>1. from \in 0..Len(raw)
    BY DEF From, MayDelta, IsTrunk, Cursor
  <1>2. Lease(t, raw, epoch, window) =
          [trunk |-> t.id, fork |-> t.active, spans |-> new, offers |-> window,
           left |-> old, spanned |-> t.spanned,
           cursor |-> [epoch |-> epoch, seen |-> Len(raw)]]
    BY DEF Lease
  <1>3. [epoch |-> epoch, seen |-> Len(raw)] \in Cursor
    BY DEF Cursor
  <1>4. t.id \in Reviews /\ t.active \in BOOLEAN /\ t.spanned \subseteq Nat
    BY DEF IsTrunk
  <1>5. /\ old = {raw[i] : i \in 1..from} /\ old \subseteq Nat /\ new \subseteq Nat
        /\ \A i \in 1..Len(raw) : raw[i] \in old \cup new
    <2> HIDE DEF from
    <2> QED BY <1>1, RangeParts DEF Past
  <1>6. window \subseteq new
    BY DEF Windows
  <1> HIDE DEF from, old, new
  <1>7. Lease(t, raw, epoch, window) \in LeaseOf(Reviews)
    BY <1>2, <1>3, <1>4, <1>5, <1>6 DEF LeaseOf
  <1> QED BY <1>1, <1>2, <1>5, <1>7 DEF from

LEMMA CommitType ==
  ASSUME NEW t, t = NoTrunk \/ IsTrunk(t), NEW l \in LeaseOf(Reviews), NEW u
  PROVE  LET w == CommitTurn(t, l, u) IN
         /\ w = NoTrunk \/ IsTrunk(w)
         /\ ~Owns(t, l) => w = t
         /\ Owns(t, l) => /\ IsTrunk(w) /\ w.id = t.id /\ w.active = t.active
                          /\ w.cursor = l.cursor /\ w.spanned = t.spanned \cup l.spans
  BY DEF CommitTurn, Owns, IsTrunk, LeaseOf

LEMMA ReleaseType ==
  ASSUME NEW t, t = NoTrunk \/ IsTrunk(t), NEW l \in LeaseOf(Reviews)
  PROVE  LET w == Release(t, l) IN
         /\ w = NoTrunk \/ IsTrunk(w)
         /\ ~Owns(t, l) => w = t
         /\ Owns(t, l) => /\ IsTrunk(w) /\ w.id = t.id /\ w.active = FALSE
                          /\ w.cursor = t.cursor /\ w.spanned = t.spanned
  BY DEF Release, Owns, IsTrunk
-------------------------------------------------------------------------------
(* What the other steps do to the state, in the terms of the proof.        *)
HostStep == Input \/ MessageEnd \/ ResetBranch \/ InvalidateSession

LEMMA HostDoes ==
  ASSUME TypeOK, HostStep
  PROVE  /\ TypeOK' /\ Follows(Now(evidence), Now(evidence'))
         /\ trunk' = trunk \/ trunk' = NoTrunk
         /\ UNCHANGED <<review, lease>>
  <1>1. evidence \in Log /\ entries \in Nat /\ left \in Bounds
    BY DEF TypeOK, Log
  <1>2. Follows(Now(evidence), Now(evidence))
    BY <1>1, NowType, SnapshotType DEF Follows, Before, Agree
  <1>3. /\ left.messages > 0 => [left EXCEPT !.messages = @ - 1] \in Bounds
        /\ left.resets > 0 => [left EXCEPT !.resets = @ - 1] \in Bounds
    <2>1. left.messages \in Nat /\ left.resets \in Nat
      BY <1>1 DEF Bounds
    <2>2. left.messages > 0 => left.messages - 1 \in Nat
      BY <2>1
    <2>3. left.resets > 0 => left.resets - 1 \in Nat
      BY <2>1
    <2> QED BY <1>1, <2>2, <2>3 DEF Bounds
  <1>4. CASE Input
    <2>1. /\ evidence' = AppendInput(evidence, entries') /\ entries' \in Nat
          /\ left' \in Bounds /\ UNCHANGED <<trunk, review, lease>>
      BY <1>1, <1>3, <1>4 DEF Input
    <2>2. evidence' \in Log /\ Follows(Now(evidence), Now(evidence'))
      BY <1>1, <2>1, InputFollows
    <2> QED BY <2>1, <2>2 DEF TypeOK, Log
  <1>5. CASE MessageEnd
    <2>1. /\ evidence' = AppendMessage(evidence, entries') /\ entries' \in Nat
          /\ left' \in Bounds /\ UNCHANGED <<trunk, review, lease>>
      BY <1>1, <1>3, <1>5 DEF MessageEnd
    <2>2. evidence' \in Log /\ Follows(Now(evidence), Now(evidence'))
      BY <1>1, <2>1, MessageFollows
    <2> QED BY <2>1, <2>2 DEF TypeOK, Log
  <1>6. CASE ResetBranch
    <2>1. /\ evidence' = ResetEvidence(evidence) /\ trunk' = NoTrunk
          /\ left' \in Bounds /\ UNCHANGED <<review, lease, entries>>
      BY <1>3, <1>6 DEF ResetBranch
    <2>2. evidence' \in Log /\ Follows(Now(evidence), Now(evidence'))
      BY <1>1, <2>1, ResetFollows
    <2> QED BY <2>1, <2>2 DEF TypeOK, Log
  <1>7. CASE InvalidateSession
    <2>1. /\ trunk' = NoTrunk /\ left' \in Bounds
          /\ UNCHANGED <<evidence, review, lease, entries>>
      BY <1>3, <1>7 DEF InvalidateSession
    <2> QED BY <1>2, <2>1 DEF TypeOK
  <1> QED BY <1>4, <1>5, <1>6, <1>7 DEF HostStep

LEMMA SubmitDoes ==
  ASSUME TypeOK, NEW r \in Reviews, NEW key \in left.keys, Submit(r, key)
  PROVE  /\ TypeOK' /\ Follows(Now(evidence), Now(evidence'))
         /\ UNCHANGED <<trunk, lease>>
         /\ review' = [review EXCEPT ![r] = review'[r]]
         /\ review[r].at = "idle" /\ review'[r].at = "called"
         /\ Now(evidence') = [epoch |-> review'[r].epoch, raw |-> review'[r].raw]
  <1> DEFINE w == [Resting EXCEPT !.at = "called", !.key = key, !.raw = Raw(evidence'),
                                  !.epoch = evidence'.epoch]
  <1>1. evidence \in Log /\ left \in Bounds /\ review \in [Reviews -> ReviewState]
    BY DEF TypeOK, Log
  <1>2. /\ review[r].at = "idle" /\ evidence' = Consulted(evidence)
        /\ review' = [review EXCEPT ![r] = w]
        /\ UNCHANGED <<trunk, lease, entries, left>>
    BY DEF Submit, Goes
  <1>3. /\ evidence' \in Log /\ Follows(Now(evidence), Now(evidence'))
        /\ Now(evidence') = [epoch |-> evidence'.epoch, raw |-> Raw(evidence')]
    BY <1>1, <1>2, ConsultedFollows
  <1>4. Raw(evidence') \in Seq(Nat) /\ evidence'.epoch \in Nat /\ key \in Keys
    BY <1>1, <1>3 DEF Raw, Log, Bounds
  <1>5. w \in ReviewState /\ w.at = "called" /\ w.raw = Raw(evidence') /\ w.epoch = evidence'.epoch
    BY <1>4 DEF Resting, ReviewState
  <1>6. review'[r] = w /\ review' \in [Reviews -> ReviewState]
    BY <1>1, <1>2, <1>5
  <1> QED BY <1>2, <1>3, <1>5, <1>6 DEF TypeOK, Log

LEMMA OpenDoes ==
  ASSUME TypeOK, NEW r \in Reviews, Open(r)
  PROVE  LET t == TrunkFor(trunk, review[r].key, r) IN
         /\ TypeOK' /\ UNCHANGED evidence
         /\ IsTrunk(t) /\ trunk' = Held(t) /\ IsTrunk(trunk')
         /\ \E window \in Windows(review[r].raw, From(t, review[r].raw, review[r].epoch)) :
              lease' = [lease EXCEPT ![r] = Lease(t, review[r].raw, review[r].epoch, window)]
         /\ lease'[r] \in LeaseOf(Reviews)
         /\ review' = [review EXCEPT ![r] = review'[r]]
         /\ review[r].at = "authorizing" /\ review'[r].at \in Opened
         /\ review'[r].raw = <<>> /\ review'[r].epoch = 0
  <1> DEFINE v == review[r]
             t == TrunkFor(trunk, v.key, r)
             u == [v EXCEPT !.attempt = 1, !.runtime = "open", !.raw = <<>>, !.epoch = 0]
  <1>0. PICK window \in Windows(v.raw, From(t, v.raw, v.epoch)) :
          lease' = [lease EXCEPT ![r] = Lease(t, v.raw, v.epoch, window)]
    BY DEF Open
  <1> DEFINE l == Lease(t, v.raw, v.epoch, window)
  <1>1. /\ review \in [Reviews -> ReviewState] /\ lease \in [Reviews -> LeaseOf(Reviews) \cup {NoLease}]
        /\ trunk = NoTrunk \/ IsTrunk(trunk)
    BY DEF TypeOK
  <1>2. v \in ReviewState /\ v.key \in Keys \cup {"none"} /\ v.raw \in Seq(Nat) /\ v.epoch \in Nat
    BY <1>1 DEF ReviewState
  <1>3. IsTrunk(t) /\ IsTrunk(Held(t))
    BY <1>1, <1>2, TrunkForType
  <1>4. l \in LeaseOf(Reviews)
    <2> HIDE DEF t
    <2> QED BY <1>2, <1>3, LeaseType
  <1>5. u \in ReviewState /\ u.raw = <<>> /\ u.epoch = 0
    <2>1. <<>> \in Seq(Nat)
      OBVIOUS
    <2> QED BY <1>2, <2>1 DEF ReviewState
  <1>6. /\ Asks(u) \in ReviewState /\ Asks(u).at \in Opened
        /\ Asks(u).raw = <<>> /\ Asks(u).epoch = 0
    <2> HIDE DEF u
    <2> QED BY <1>5 DEF Asks, Ending, Opened, ReviewState, Failures
  <1>7. /\ trunk' = Held(t) /\ lease' = [lease EXCEPT ![r] = l]
        /\ review' = [review EXCEPT ![r] = Asks(u)] /\ review[r].at = "authorizing"
        /\ UNCHANGED <<evidence, entries, left>>
    BY <1>0 DEF Open, Goes
  <1> HIDE DEF t, u, l
  <1>8. review'[r] = Asks(u) /\ review' \in [Reviews -> ReviewState]
        /\ lease'[r] = l /\ lease' \in [Reviews -> LeaseOf(Reviews) \cup {NoLease}]
    BY <1>1, <1>4, <1>6, <1>7
  <1>9. TypeOK'
    BY <1>3, <1>7, <1>8 DEF TypeOK
  <1> QED BY <1>3, <1>4, <1>6, <1>7, <1>8, <1>9 DEF t, l

LEMMA CloseDoes ==
  ASSUME TypeOK, NEW r \in Reviews, lease[r] # NoLease, CloseEnds(r)
  PROVE  /\ TypeOK' /\ UNCHANGED evidence
         /\ lease' = [lease EXCEPT ![r] = NoLease]
         /\ review' = [review EXCEPT ![r] = review'[r]]
         /\ review[r].at = "closing" /\ review'[r].at = "settled"
         /\ review'[r].raw = <<>> /\ review'[r].epoch = 0
         /\ ~Owns(trunk, lease[r]) => trunk' = trunk
         /\ Owns(trunk, lease[r]) /\ trunk' # NoTrunk =>
              /\ trunk'.id = trunk.id /\ trunk'.active = FALSE
              /\ \/ trunk'.cursor = trunk.cursor /\ trunk'.spanned = trunk.spanned
                 \/ /\ trunk'.cursor = lease[r].cursor
                    /\ trunk'.spanned = trunk.spanned \cup lease[r].spans
  <1> DEFINE v == review[r]
             l == lease[r]
  <1>1. /\ review \in [Reviews -> ReviewState] /\ v \in ReviewState
        /\ lease \in [Reviews -> LeaseOf(Reviews) \cup {NoLease}] /\ l \in LeaseOf(Reviews)
        /\ trunk = NoTrunk \/ IsTrunk(trunk)
    BY DEF TypeOK
  <1>2. PICK clean \in BOOLEAN, size \in Sizes :
          /\ trunk' = Release(IF MayCommit(v, clean) THEN CommitTurn(trunk, l, Turn(r, size, l.offers))
                              ELSE trunk, l)
          /\ Goes(r, Settled([v EXCEPT !.runtime = IF clean THEN "closed" ELSE "failed"],
                             IF clean THEN OutcomeOf(v.ending) ELSE "failed"))
    BY DEF CloseEnds
  <1>3. /\ v.at = "closing" /\ lease' = [lease EXCEPT ![r] = NoLease]
        /\ UNCHANGED <<evidence, entries, left>>
    BY DEF CloseEnds
  <1>4. /\ review'[r] \in ReviewState /\ review' = [review EXCEPT ![r] = review'[r]]
        /\ review'[r].at = "settled" /\ review'[r].raw = <<>> /\ review'[r].epoch = 0
    <2> DEFINE u == [v EXCEPT !.runtime = IF clean THEN "closed" ELSE "failed"]
               o == IF clean THEN OutcomeOf(v.ending) ELSE "failed"
    <2>1. u \in ReviewState
      BY <1>1 DEF ReviewState
    <2>2. o \in Outcome
      BY DEF OutcomeOf, Verdicts, Outcome
    <2>3. review' = [review EXCEPT ![r] = Settled(u, o)]
      BY <1>2 DEF Goes
    <2> HIDE DEF u, o
    <2> QED BY <1>1, <2>1, <2>2, <2>3, SettledType
  <1>5. PICK w : /\ trunk' = Release(w, l)
                 /\ w = NoTrunk \/ IsTrunk(w)
                 /\ ~Owns(trunk, l) => w = trunk
                 /\ Owns(trunk, l) => /\ IsTrunk(w) /\ w.id = trunk.id
                                      /\ \/ w.cursor = trunk.cursor /\ w.spanned = trunk.spanned
                                         \/ /\ w.cursor = l.cursor
                                            /\ w.spanned = trunk.spanned \cup l.spans
    <2>1. Owns(trunk, l) => IsTrunk(trunk)
      BY <1>1 DEF Owns
    <2> QED BY <1>1, <1>2, <2>1, CommitType
  <1>6. /\ trunk' = NoTrunk \/ IsTrunk(trunk')
        /\ ~Owns(trunk, l) => trunk' = trunk
        /\ Owns(trunk, l) /\ trunk' # NoTrunk =>
             /\ trunk'.id = trunk.id /\ trunk'.active = FALSE
             /\ \/ trunk'.cursor = trunk.cursor /\ trunk'.spanned = trunk.spanned
                \/ trunk'.cursor = l.cursor /\ trunk'.spanned = trunk.spanned \cup l.spans
    <2>1. l \in LeaseOf(Reviews) /\ (w = NoTrunk \/ IsTrunk(w)) /\ trunk' = Release(w, l)
      BY <1>1, <1>5
    <2> HIDE DEF l
    <2>2. CASE Owns(w, l)
      <3>1. /\ IsTrunk(Release(w, l)) /\ Release(w, l).id = w.id /\ Release(w, l).active = FALSE
            /\ Release(w, l).cursor = w.cursor /\ Release(w, l).spanned = w.spanned
        BY <2>1, <2>2, ReleaseType
      <3>2. ~Owns(trunk, l) => trunk' = trunk
        BY <1>5, <2>2
      <3> QED BY <1>5, <2>1, <3>1, <3>2
    <2>3. CASE ~Owns(w, l)
      <3>1. Release(w, l) = w
        BY <2>1, <2>3, ReleaseType
      <3>2. Owns(trunk, l) => w = NoTrunk
        BY <1>5, <2>3 DEF Owns
      <3> QED BY <1>5, <2>1, <3>1, <3>2
    <2> QED BY <2>2, <2>3
  <1>7. TypeOK'
    BY <1>1, <1>3, <1>4, <1>6 DEF TypeOK
  <1> QED BY <1>3, <1>4, <1>6, <1>7
-------------------------------------------------------------------------------
(* Every step is one of four kinds.                                        *)
LEMMA StepKinds ==
  ASSUME Next
  PROVE  \/ HostStep
         \/ \E r \in Reviews :
              \/ QuietStep(r)
              \/ \E key \in left.keys : Submit(r, key)
              \/ Open(r)
              \/ CloseEnds(r)
  <1>1. CASE Input \/ MessageEnd \/ ResetBranch \/ InvalidateSession
    BY <1>1 DEF HostStep
  <1>2. ASSUME NEW r \in Reviews,
               \/ Abort(r) \/ Deadline(r) \/ Call(r) \/ ModelResolved(r) \/ NotAuthorized(r)
               \/ RequestFails(r) \/ AsksForTools(r)
               \/ \E reply \in Replies : Answers(r, reply)
               \/ ToolsEnd(r) \/ Interrupted(r) \/ SleepEnds(r)
        PROVE  QuietStep(r)
    BY <1>2 DEF QuietStep
  <1>3. \/ Input \/ MessageEnd \/ ResetBranch \/ InvalidateSession
        \/ \E r \in Reviews :
             \/ QuietStep(r)
             \/ \E key \in left.keys : Submit(r, key)
             \/ Open(r)
             \/ CloseEnds(r)
    BY <1>2 DEF Next, Proceeds
  <1> QED BY <1>1, <1>3

LEMMA QuietType ==
  ASSUME TypeOK, NEW r \in Reviews, QuietStep(r)
  PROVE  TypeOK'
  <1>1. /\ UNCHANGED <<evidence, trunk, lease, entries, left>>
        /\ review' = [review EXCEPT ![r] = review'[r]] /\ review'[r] \in ReviewState
    BY QuietCarries DEF Carries
  <1>2. review' \in [Reviews -> ReviewState]
    BY <1>1 DEF TypeOK
  <1> QED BY <1>1, <1>2 DEF TypeOK

(* A trunk has one writer because a review that writes was reached by its  *)
(* own lease: no lease is on a trunk whose review has not opened one.      *)
LeaseIffOpened == \A r \in Reviews : review[r].at \in Opened <=> lease[r] # NoLease

TrunksWereOpened ==
  /\ trunk # NoTrunk => review[trunk.id].at \in Reached
  /\ \A r \in Leased : review[lease[r].trunk].at \in Reached

OneWriter == TypeOK /\ LeaseIffOpened /\ TrunksWereOpened /\ TrunkHeldByOne

LEMMA OneWriterInit ==
  ASSUME Init
  PROVE  OneWriter
  <1>1. Resting \in ReviewState /\ Resting.at = "idle"
    <2>1. <<>> \in Seq(Nat)
      OBVIOUS
    <2> QED BY <2>1 DEF Resting, ReviewState
  <1>2. evidence \in [transcript : Seq(Nat), fallback : Seq(Nat), epoch : Nat]
    <2>1. <<>> \in Seq(Nat)
      OBVIOUS
    <2> QED BY <2>1 DEF Init, NewEvidence
  <1>3. TypeOK
    BY <1>1, <1>2, ReviewAssumption DEF Init, TypeOK
  <1>4. \A r \in Reviews : review[r].at = "idle" /\ lease[r] = NoLease
    BY <1>1 DEF Init
  <1>5. LeaseIffOpened
    BY <1>4 DEF LeaseIffOpened, Opened
  <1>6. TrunksWereOpened /\ TrunkHeldByOne
    BY <1>4 DEF Init, TrunksWereOpened, TrunkHeldByOne, Leased
  <1> QED BY <1>3, <1>5, <1>6 DEF OneWriter

(* What follows of the others when one review moves on.                    *)
LEMMA MovesOn ==
  ASSUME OneWriter, TypeOK', NEW r \in Reviews, review' = [review EXCEPT ![r] = review'[r]]
  PROVE  /\ review \in [Reviews -> ReviewState] /\ lease \in [Reviews -> LeaseOf(Reviews) \cup {NoLease}]
         /\ \A q \in Reviews : q # r => review'[q] = review[q]
         /\ (review[r].at \in Reached => review'[r].at \in Reached) =>
               \A q \in Reviews : review[q].at \in Reached => review'[q].at \in Reached
         /\ \A q \in Leased : lease[q] \in LeaseOf(Reviews) /\ lease[q].trunk \in Reviews
  <1>1. review \in [Reviews -> ReviewState] /\ lease \in [Reviews -> LeaseOf(Reviews) \cup {NoLease}]
    BY DEF OneWriter, TypeOK
  <1>2. \A q \in Reviews : q # r => review'[q] = review[q]
    BY <1>1
  <1>3. \A q \in Leased : lease[q] \in LeaseOf(Reviews)
    BY <1>1 DEF Leased
  <1>4. \A l \in LeaseOf(Reviews) : l.trunk \in Reviews
    BY DEF LeaseOf
  <1> QED BY <1>1, <1>2, <1>3, <1>4

LEMMA QuietKeepsOneWriter ==
  ASSUME OneWriter, NEW r \in Reviews,
         QuietStep(r) \/ \E key \in left.keys : Submit(r, key)
  PROVE  OneWriter'
  <1>1. /\ TypeOK' /\ UNCHANGED <<trunk, lease>>
        /\ review' = [review EXCEPT ![r] = review'[r]]
        /\ review'[r].at \in Opened <=> review[r].at \in Opened
        /\ review[r].at \in Reached => review'[r].at \in Reached
    <2>1. CASE QuietStep(r)
      BY <2>1, QuietCarries, QuietType DEF OneWriter, Carries
    <2>2. ASSUME NEW key \in left.keys, Submit(r, key)
          PROVE  <1>1
      BY <2>2, SubmitDoes DEF OneWriter, Opened, Reached
    <2> QED BY <2>1, <2>2
  <1>2. /\ \A q \in Reviews : q # r => review'[q] = review[q]
        /\ \A q \in Reviews : review[q].at \in Reached => review'[q].at \in Reached
        /\ \A q \in Leased : lease[q].trunk \in Reviews
    BY <1>1, MovesOn
  <1>3. LeaseIffOpened'
    BY <1>1, <1>2 DEF OneWriter, LeaseIffOpened
  <1>4. TrunksWereOpened'
    <2>1. trunk # NoTrunk => trunk.id \in Reviews
      BY DEF OneWriter, TypeOK, IsTrunk
    <2> QED BY <1>1, <1>2, <2>1 DEF OneWriter, TrunksWereOpened, Leased
  <1>5. TrunkHeldByOne'
    BY <1>1 DEF OneWriter, TrunkHeldByOne, Writers, Leased, Owns
  <1> QED BY <1>1, <1>3, <1>4, <1>5 DEF OneWriter

LEMMA HostKeepsOneWriter ==
  ASSUME OneWriter, HostStep
  PROVE  OneWriter'
  <1>1. TypeOK' /\ UNCHANGED <<review, lease>> /\ (trunk' = trunk \/ trunk' = NoTrunk)
    BY HostDoes DEF OneWriter
  <1>2. LeaseIffOpened' /\ TrunksWereOpened'
    BY <1>1 DEF OneWriter, LeaseIffOpened, TrunksWereOpened, Leased
  <1>3. TrunkHeldByOne'
    BY <1>1 DEF OneWriter, TrunkHeldByOne, Writers, Leased, Owns
  <1> QED BY <1>1, <1>2, <1>3 DEF OneWriter

LEMMA OpenKeepsOneWriter ==
  ASSUME OneWriter, NEW r \in Reviews, Open(r)
  PROVE  OneWriter'
  <1> DEFINE t == TrunkFor(trunk, review[r].key, r)
  <1>0. PICK window \in Windows(review[r].raw, From(t, review[r].raw, review[r].epoch)) :
          lease' = [lease EXCEPT ![r] = Lease(t, review[r].raw, review[r].epoch, window)]
    BY DEF Open
  <1> DEFINE l == Lease(t, review[r].raw, review[r].epoch, window)
  <1>1. /\ TypeOK' /\ IsTrunk(t) /\ trunk' = Held(t)
        /\ lease' = [lease EXCEPT ![r] = l] /\ lease'[r] \in LeaseOf(Reviews)
        /\ review' = [review EXCEPT ![r] = review'[r]]
        /\ review[r].at = "authorizing" /\ review'[r].at \in Opened
    BY <1>0, OpenDoes DEF OneWriter
  <1>2. /\ t.id \in Reviews /\ t.active \in BOOLEAN
        /\ trunk'.id = t.id /\ trunk'.active = TRUE
    BY <1>1 DEF IsTrunk, Held
  <1>3. lease'[r] = l /\ l.trunk = t.id /\ l.fork = t.active
    <2>1. lease'[r] = l
      BY <1>1 DEF OneWriter, TypeOK
    <2> QED BY <2>1 DEF Lease
  <1>4. /\ lease \in [Reviews -> LeaseOf(Reviews) \cup {NoLease}]
        /\ \A q \in Reviews : q # r => review'[q] = review[q] /\ lease'[q] = lease[q]
        /\ \A q \in Reviews : review[q].at \in Reached => review'[q].at \in Reached
        /\ \A q \in Leased : lease[q].trunk \in Reviews
    BY <1>1, MovesOn DEF Reached
  <1>5. \/ t.id = r /\ t.active = FALSE
        \/ t = trunk /\ trunk # NoTrunk
    BY DEF TrunkFor, NewTrunk
  <1> HIDE DEF t, l
  <1>6. lease[r] = NoLease /\ lease'[r] # NoLease /\ review[r].at \notin Reached
    BY <1>1, ReviewAssumption DEF OneWriter, LeaseIffOpened, Opened, Reached
  <1>7. LeaseIffOpened'
    BY <1>1, <1>4, <1>6 DEF OneWriter, LeaseIffOpened
  <1>8. TrunksWereOpened'
    <2>1. review'[t.id].at \in Reached
      BY <1>1, <1>2, <1>4, <1>5 DEF OneWriter, TrunksWereOpened, Reached
    <2>2. \A q \in Leased' : review'[lease'[q].trunk].at \in Reached
      BY <1>3, <1>4, <2>1 DEF OneWriter, TrunksWereOpened, Leased
    <2> QED BY <1>2, <2>1, <2>2 DEF TrunksWereOpened
  <1>9. TrunkHeldByOne'
    <2>1. CASE t.id = r /\ t.active = FALSE
      <3>1. \A q \in Leased' : q # r => lease'[q].trunk # t.id
        BY <1>4, <1>6, <2>1 DEF OneWriter, TrunksWereOpened, Leased
      <3>2. trunk' # NoTrunk => Writers' = {r}
        BY <1>2, <1>3, <1>6, <2>1, <3>1 DEF Writers, Leased, Owns
      <3> QED BY <1>2, <3>2 DEF TrunkHeldByOne
    <2>2. CASE t = trunk /\ trunk # NoTrunk /\ t.active = FALSE
      <3>1. Writers = {}
        BY <2>2 DEF OneWriter, TrunkHeldByOne
      <3>2. trunk' # NoTrunk => Writers' = {r}
        BY <1>2, <1>3, <1>4, <1>6, <2>2, <3>1 DEF Writers, Leased, Owns
      <3> QED BY <1>2, <3>2 DEF TrunkHeldByOne
    <2>3. CASE t = trunk /\ trunk # NoTrunk /\ t.active = TRUE
      <3>1. Writers # {} /\ \A p, q \in Writers : p = q
        BY <2>3 DEF OneWriter, TrunkHeldByOne
      <3>2. trunk' # NoTrunk => Writers' = Writers
        BY <1>2, <1>3, <1>4, <1>6, <2>3 DEF Writers, Leased, Owns
      <3> QED BY <1>2, <3>1, <3>2 DEF TrunkHeldByOne
    <2> QED BY <1>2, <1>5, <2>1, <2>2, <2>3
  <1> QED BY <1>1, <1>7, <1>8, <1>9 DEF OneWriter

LEMMA CloseKeepsOneWriter ==
  ASSUME OneWriter, NEW r \in Reviews, CloseEnds(r)
  PROVE  OneWriter'
  <1>1. lease[r] # NoLease
    BY DEF OneWriter, LeaseIffOpened, CloseEnds, Opened
  <1>2. /\ TypeOK' /\ lease' = [lease EXCEPT ![r] = NoLease]
        /\ review' = [review EXCEPT ![r] = review'[r]]
        /\ review[r].at = "closing" /\ review'[r].at = "settled"
        /\ ~Owns(trunk, lease[r]) => trunk' = trunk
        /\ Owns(trunk, lease[r]) /\ trunk' # NoTrunk =>
             trunk'.id = trunk.id /\ trunk'.active = FALSE
    BY <1>1, CloseDoes DEF OneWriter
  <1>3. /\ lease \in [Reviews -> LeaseOf(Reviews) \cup {NoLease}]
        /\ lease'[r] = NoLease
        /\ \A q \in Reviews : q # r => review'[q] = review[q] /\ lease'[q] = lease[q]
        /\ \A q \in Reviews : review[q].at \in Reached => review'[q].at \in Reached
        /\ \A q \in Leased : lease[q].trunk \in Reviews
    BY <1>2, MovesOn DEF Reached
  <1>4. LeaseIffOpened'
    BY <1>2, <1>3 DEF OneWriter, LeaseIffOpened, Opened
  <1>5. TrunksWereOpened'
    <2>1. trunk # NoTrunk => trunk.id \in Reviews
      BY DEF OneWriter, TypeOK, IsTrunk
    <2>2. trunk' # NoTrunk => trunk # NoTrunk /\ trunk'.id = trunk.id
      BY <1>2 DEF Owns
    <2> QED BY <1>3, <2>1, <2>2 DEF OneWriter, TrunksWereOpened, Leased
  <1>6. TrunkHeldByOne'
    <2>1. CASE Owns(trunk, lease[r])
      <3>1. Writers \subseteq {r}
        BY <1>1, <2>1 DEF OneWriter, TrunkHeldByOne, Writers, Leased, Owns
      <3>2. trunk' # NoTrunk => Writers' = {}
        BY <1>2, <1>3, <2>1, <3>1 DEF Writers, Leased, Owns
      <3> QED BY <1>2, <2>1, <3>2 DEF TrunkHeldByOne
    <2>2. CASE ~Owns(trunk, lease[r])
      <3>1. trunk' = trunk
        BY <1>2, <2>2
      <3>2. Writers' = Writers
        BY <1>3, <2>2, <3>1 DEF Writers, Leased, Owns
      <3> QED BY <3>1, <3>2 DEF OneWriter, TrunkHeldByOne
    <2> QED BY <2>1, <2>2
  <1> QED BY <1>2, <1>4, <1>5, <1>6 DEF OneWriter

LEMMA OneWriterStep ==
  ASSUME OneWriter, [Next]_vars
  PROVE  OneWriter'
  <1>1. CASE Next
    BY <1>1, StepKinds, HostKeepsOneWriter, QuietKeepsOneWriter, OpenKeepsOneWriter,
       CloseKeepsOneWriter
  <1>2. CASE UNCHANGED vars
    <2>1. TypeOK'
      BY <1>2 DEF OneWriter, TypeOK, IsTrunk, vars
    <2>2. LeaseIffOpened' /\ TrunksWereOpened' /\ TrunkHeldByOne'
      BY <1>2 DEF OneWriter, LeaseIffOpened, TrunksWereOpened, TrunkHeldByOne, Writers, Leased,
                  Owns, vars
    <2> QED BY <2>1, <2>2 DEF OneWriter
  <1> QED BY <1>1, <1>2

-------------------------------------------------------------------------------
(* What the log was when some review read it, and what it is now.          *)
Snap(r) == [epoch |-> review[r].epoch, raw |-> review[r].raw]
Snaps == {Snap(r) : r \in Reviews} \cup {Now(evidence)}

(* A cursor claims no more than X.  The trunk's claims what its committed  *)
(* prompts spanned; a lease's, what it leaves out and spans itself, and    *)
(* what it leaves out the trunk's prompts had spanned.                     *)
CursorTold(c, X) == Fit(c, Now(evidence)) /\ Cover(c, Snaps, X)

TrunkTold ==
  trunk # NoTrunk /\ trunk.cursor # NoCursor => CursorTold(trunk.cursor, trunk.spanned)

LeaseTold(r) ==
  /\ CursorTold(lease[r].cursor, lease[r].left \cup lease[r].spans)
  /\ lease[r].left \subseteq lease[r].spanned
  /\ Owns(trunk, lease[r]) => lease[r].spanned \subseteq trunk.spanned

Told ==
  /\ Known(Snaps, Now(evidence))
  /\ TrunkTold
  /\ \A r \in Leased : LeaseTold(r)

LEMMA ToldInit ==
  ASSUME Init
  PROVE  Told
  <1>1. Now(evidence) = Empty
    BY DEF Init, NewEvidence, Now, Displaced, Raw, Empty
  <1>2. Snaps \subseteq {Empty}
    BY <1>1 DEF Init, Snaps, Snap, Resting, Empty
  <1>3. Empty \in Snapshot /\ Before(Empty, Empty) /\ Agree(Empty, Empty)
    BY DEF Empty, Snapshot, Before, Agree
  <1>4. Now(evidence) \in Snaps
    BY DEF Snaps
  <1>5. Known(Snaps, Now(evidence))
    BY <1>1, <1>2, <1>3, <1>4 DEF Known
  <1>6. trunk = NoTrunk /\ Leased = {}
    BY DEF Init, Leased
  <1> QED BY <1>5, <1>6 DEF Told, TrunkTold

(* Claims survive as the log goes on and a review reads it, keeps what it  *)
(* read or lets go of it.                                                  *)
LEMMA SnapsLater ==
  ASSUME Told, TypeOK, Follows(Now(evidence), Now(evidence')),
         \A q \in Reviews : Snap(q)' \in Snaps \cup {Now(evidence'), Empty}
  PROVE  /\ Known(Snaps', Now(evidence'))
         /\ \A c \in Cursor : \A X : CursorTold(c, X) =>
              Fit(c, Now(evidence')) /\ Cover(c, Snaps', X)
  <1> DEFINE S == Snaps
             T == Snaps'
             n == Now(evidence)
             m == Now(evidence')
  <1>1. Known(S, n) /\ m \in Snapshot /\ Before(n, m) /\ Agree(n, m)
    BY DEF Told, Follows
  <1>2. T \subseteq S \cup {m, Empty} /\ m \in T
    BY DEF Snaps
  <1>3. \A c, X : CursorTold(c, X) <=> Fit(c, n) /\ Cover(c, S, X)
    BY DEF CursorTold
  <1> HIDE DEF S, T, n, m
  <1>4. /\ Known(T, m)
        /\ \A c \in Cursor : Fit(c, n) => Fit(c, m)
        /\ \A c \in Cursor : Fit(c, n) => \A X : Cover(c, S, X) => Cover(c, T, X)
    BY <1>1, <1>2, KnownLater
  <1> QED BY <1>3, <1>4 DEF T, m

(* A step that leaves the trunk, or drops it, and the leases.              *)
LEMMA OthersKeepTold ==
  ASSUME Told, OneWriter, Follows(Now(evidence), Now(evidence')),
         \A q \in Reviews : Snap(q)' \in Snaps \cup {Now(evidence'), Empty},
         trunk' = trunk \/ trunk' = NoTrunk, lease' = lease
  PROVE  Told'
  <1>1. /\ Known(Snaps', Now(evidence'))
        /\ \A c \in Cursor : \A X : CursorTold(c, X) =>
             Fit(c, Now(evidence')) /\ Cover(c, Snaps', X)
    BY SnapsLater DEF OneWriter
  <1>2. /\ trunk # NoTrunk /\ trunk.cursor # NoCursor => trunk.cursor \in Cursor
        /\ \A q \in Leased : lease[q].cursor \in Cursor
    BY DEF OneWriter, TypeOK, IsTrunk, Leased, LeaseOf
  <1>3. TrunkTold'
    BY <1>1, <1>2 DEF Told, TrunkTold, CursorTold
  <1>4. ASSUME NEW q \in Leased PROVE LeaseTold(q)'
    <2>1. LeaseTold(q) /\ lease'[q] = lease[q] /\ lease[q].cursor \in Cursor
      BY <1>2 DEF Told
    <2>2. Owns(trunk', lease[q]) => Owns(trunk, lease[q]) /\ trunk' = trunk
      BY DEF Owns
    <2> QED BY <1>1, <2>1, <2>2 DEF LeaseTold, CursorTold
  <1>5. Leased' = Leased
    BY DEF Leased
  <1> QED BY <1>1, <1>3, <1>4, <1>5 DEF Told

LEMMA HostKeepsTold ==
  ASSUME Told, OneWriter, HostStep
  PROVE  Told'
  <1>1. /\ Follows(Now(evidence), Now(evidence')) /\ UNCHANGED <<review, lease>>
        /\ trunk' = trunk \/ trunk' = NoTrunk
    BY HostDoes DEF OneWriter
  <1>2. \A q \in Reviews : Snap(q)' \in Snaps
    BY <1>1 DEF Snap, Snaps
  <1> QED BY <1>1, <1>2, OthersKeepTold

(* The snapshots when one review moves on.                                 *)
LEMMA SnapsMove ==
  ASSUME OneWriter, TypeOK', NEW r \in Reviews, review' = [review EXCEPT ![r] = review'[r]],
         Snap(r)' \in Snaps \cup {Now(evidence'), Empty}
  PROVE  \A q \in Reviews : Snap(q)' \in Snaps \cup {Now(evidence'), Empty}
  <1>1. \A q \in Reviews : q # r => review'[q] = review[q]
    BY MovesOn
  <1> QED BY <1>1 DEF Snap, Snaps

LEMMA QuietKeepsTold ==
  ASSUME Told, OneWriter, NEW r \in Reviews,
         QuietStep(r) \/ \E key \in left.keys : Submit(r, key)
  PROVE  Told'
  <1>1. CASE QuietStep(r)
    <2>1. /\ TypeOK' /\ UNCHANGED <<evidence, trunk, lease>>
          /\ review' = [review EXCEPT ![r] = review'[r]] /\ Carries(review[r], review'[r])
      BY <1>1, QuietCarries, QuietType DEF OneWriter
    <2>2. Snap(r)' \in {Snap(r), Empty} /\ Snap(r) \in Snaps
      BY <2>1 DEF Carries, Snap, Empty, Snaps
    <2>3. Follows(Now(evidence), Now(evidence'))
      <3>1. Now(evidence) \in Snapshot
        BY DEF Told, Known
      <3> QED BY <2>1, <3>1, SnapshotType DEF Follows, Before, Agree
    <2>4. \A q \in Reviews : Snap(q)' \in Snaps \cup {Now(evidence'), Empty}
      BY <2>1, <2>2, SnapsMove
    <2> QED BY <2>1, <2>3, <2>4, OthersKeepTold
  <1>2. ASSUME NEW key \in left.keys, Submit(r, key)
        PROVE  Told'
    <2>1. /\ TypeOK' /\ Follows(Now(evidence), Now(evidence')) /\ UNCHANGED <<trunk, lease>>
          /\ review' = [review EXCEPT ![r] = review'[r]]
          /\ Now(evidence') = [epoch |-> review'[r].epoch, raw |-> review'[r].raw]
      BY <1>2, SubmitDoes DEF OneWriter
    <2>2. Snap(r)' = Now(evidence')
      BY <2>1 DEF Snap
    <2>3. \A q \in Reviews : Snap(q)' \in Snaps \cup {Now(evidence'), Empty}
      BY <2>1, <2>2, SnapsMove
    <2> QED BY <2>1, <2>3, OthersKeepTold
  <1> QED BY <1>1, <1>2

(* The lease a review opens claims what it should, of the log as known.    *)
LEMMA LeaseOpensTold ==
  ASSUME Told, OneWriter, NEW r \in Reviews, NEW t,
         IsTrunk(t), (t = trunk /\ trunk # NoTrunk) \/ t.cursor = NoCursor,
         NEW window \in Windows(review[r].raw, From(t, review[r].raw, review[r].epoch))
  PROVE  LET l == Lease(t, review[r].raw, review[r].epoch, window) IN
         CursorTold(l.cursor, l.left \cup l.spans) /\ l.left \subseteq l.spanned
  <1> DEFINE raw == review[r].raw
             epoch == review[r].epoch
             l == Lease(t, raw, epoch, window)
             from == From(t, raw, epoch)
  <1>1. raw \in Seq(Nat) /\ epoch \in Nat
    BY DEF OneWriter, TypeOK, ReviewState
  <1>2. /\ l.spanned = t.spanned /\ l.cursor = [epoch |-> epoch, seen |-> Len(raw)]
        /\ from \in 0..Len(raw) /\ l.left = {raw[i] : i \in 1..from}
        /\ \A i \in 1..Len(raw) : raw[i] \in l.left \cup l.spans
    <2>1. window \in Windows(raw, From(t, raw, epoch))
      OBVIOUS
    <2> HIDE DEF raw, epoch, from, l
    <2>2. LET v == Lease(t, raw, epoch, window)
              f == From(t, raw, epoch) IN
          /\ v.spanned = t.spanned /\ v.cursor = [epoch |-> epoch, seen |-> Len(raw)]
          /\ f \in 0..Len(raw) /\ v.left = {raw[i] : i \in 1..f}
          /\ \A i \in 1..Len(raw) : raw[i] \in v.left \cup v.spans
      BY <1>1, <2>1, LeaseType
    <2> QED BY <2>2 DEF l, from
  <1>3. /\ Snap(r) \in Snaps /\ Snap(r).raw = raw /\ Snap(r).epoch = epoch
        /\ Snaps \subseteq Snapshot /\ Before(Snap(r), Now(evidence))
        /\ \A s \in Snaps : Agree(s, Snap(r))
    BY DEF Told, Known, Snap, Snaps
  <1>4. CursorTold(l.cursor, l.left \cup l.spans)
    <2>1. Fit(l.cursor, Now(evidence))
      BY <1>2, <1>3 DEF Fit, Before
    <2>2. ASSUME NEW s \in Snaps, s.epoch = epoch, NEW i \in 1..Len(s.raw), i <= Len(raw)
          PROVE  s.raw[i] \in l.left \cup l.spans
      <3>1. s.raw[i] = raw[i]
        BY <1>3, <2>2 DEF Agree
      <3>2. i \in 1..Len(raw)
        BY <1>1, <2>2
      <3> QED BY <1>2, <3>1, <3>2
    <2>3. Cover(l.cursor, Snaps, l.left \cup l.spans)
      <3> HIDE DEF l
      <3> QED BY <1>2, <2>2 DEF Cover
    <2> QED BY <2>1, <2>3 DEF CursorTold
  <1>5. l.left \subseteq l.spanned
    <2>1. CASE MayDelta(t, raw, epoch)
      <3>1. /\ t.cursor # NoCursor /\ t.cursor.epoch = epoch /\ from = t.cursor.seen
            /\ t = trunk /\ trunk # NoTrunk
        BY <2>1 DEF MayDelta, From
      <3>2. Cover(t.cursor, Snaps, t.spanned)
        BY <3>1 DEF Told, TrunkTold, CursorTold
      <3>3. \A i \in 1..from : i \in 1..Len(raw) /\ i <= t.cursor.seen
        BY <1>1, <1>2, <3>1
      <3>4. \A i \in 1..from : raw[i] \in t.spanned
        BY <1>3, <3>1, <3>2, <3>3 DEF Cover
      <3> HIDE DEF l, from
      <3> QED BY <1>2, <3>4
    <2>2. CASE ~MayDelta(t, raw, epoch)
      <3>1. from = 0
        BY <2>2 DEF From
      <3> HIDE DEF l, from
      <3> QED BY <1>2, <3>1
    <2> QED BY <2>1, <2>2
  <1> QED BY <1>4, <1>5

LEMMA OpenKeepsTold ==
  ASSUME Told, OneWriter, NEW r \in Reviews, Open(r)
  PROVE  Told'
  <1> DEFINE t == TrunkFor(trunk, review[r].key, r)
  <1>0. PICK window \in Windows(review[r].raw, From(t, review[r].raw, review[r].epoch)) :
          lease' = [lease EXCEPT ![r] = Lease(t, review[r].raw, review[r].epoch, window)]
    BY DEF Open
  <1> DEFINE l == Lease(t, review[r].raw, review[r].epoch, window)
  <1>1. /\ TypeOK' /\ UNCHANGED evidence /\ IsTrunk(t) /\ trunk' = Held(t)
        /\ lease' = [lease EXCEPT ![r] = l] /\ l.spanned = t.spanned /\ l \in LeaseOf(Reviews)
        /\ review' = [review EXCEPT ![r] = review'[r]] /\ review[r].at = "authorizing"
        /\ review'[r].raw = <<>> /\ review'[r].epoch = 0
    <2>1. OneWriter' /\ TypeOK /\ lease \in [Reviews -> LeaseOf(Reviews) \cup {NoLease}]
      BY OpenKeepsOneWriter DEF OneWriter, TypeOK
    <2>2. lease' = [lease EXCEPT ![r] = l] /\ lease'[r] \in LeaseOf(Reviews)
      BY <1>0, <2>1, OpenDoes
    <2>3. l = lease'[r] /\ l.spanned = t.spanned
      BY <2>1, <2>2 DEF Lease
    <2> QED BY <2>1, <2>2, <2>3, OpenDoes
  <1>2. (t = trunk /\ trunk # NoTrunk) \/ (t.cursor = NoCursor /\ t.id = r)
    BY DEF TrunkFor, NewTrunk
  <1>3. CursorTold(l.cursor, l.left \cup l.spans) /\ l.left \subseteq l.spanned
    <2> HIDE DEF t
    <2> QED BY <1>1, <1>2, LeaseOpensTold
  <1> HIDE DEF t, l
  <1>4. /\ trunk'.id = t.id /\ trunk'.cursor = t.cursor /\ trunk'.spanned = t.spanned
        /\ t.cursor \in Cursor \cup {NoCursor}
    BY <1>1 DEF Held, IsTrunk
  <1>5. /\ lease \in [Reviews -> LeaseOf(Reviews) \cup {NoLease}]
        /\ \A q \in Leased : lease[q].cursor \in Cursor /\ lease[q].trunk \in Reviews
        /\ l.cursor \in Cursor
    BY <1>1 DEF OneWriter, TypeOK, Leased, LeaseOf
  <1>6. /\ Known(Snaps', Now(evidence'))
        /\ \A c \in Cursor : \A X : CursorTold(c, X) =>
             Fit(c, Now(evidence')) /\ Cover(c, Snaps', X)
    <2>1. Follows(Now(evidence), Now(evidence'))
      <3>1. Now(evidence) \in Snapshot
        BY DEF Told, Known
      <3> QED BY <1>1, <3>1, SnapshotType DEF Follows, Before, Agree
    <2>2. Snap(r)' = Empty
      BY <1>1 DEF Snap, Empty
    <2>3. \A q \in Reviews : Snap(q)' \in Snaps \cup {Now(evidence'), Empty}
      BY <1>1, <2>2, SnapsMove
    <2> QED BY <2>1, <2>3, SnapsLater DEF OneWriter
  <1>7. TrunkTold'
    BY <1>2, <1>4, <1>6 DEF Told, TrunkTold, CursorTold
  <1>8. LeaseTold(r)'
    <2>1. lease'[r] = l
      BY <1>1, <1>5
    <2> QED BY <1>1, <1>3, <1>4, <1>5, <1>6, <2>1 DEF LeaseTold, CursorTold
  <1>9. ASSUME NEW q \in Leased', q # r PROVE LeaseTold(q)'
    <2>1. q \in Leased /\ lease'[q] = lease[q] /\ LeaseTold(q) /\ lease[q].cursor \in Cursor
      BY <1>1, <1>5, <1>9 DEF Told, Leased
    <2>2. lease[q].trunk # r
      BY <1>1, <2>1, ReviewAssumption DEF OneWriter, TrunksWereOpened, Reached, Opened
    <2>3. Owns(trunk', lease[q]) => Owns(trunk, lease[q]) /\ trunk'.spanned = trunk.spanned
      BY <1>2, <1>4, <2>2 DEF Owns
    <2> QED BY <1>6, <2>1, <2>3 DEF LeaseTold, CursorTold
  <1> QED BY <1>6, <1>7, <1>8, <1>9 DEF Told

LEMMA CloseKeepsTold ==
  ASSUME Told, OneWriter, NEW r \in Reviews, CloseEnds(r)
  PROVE  Told'
  <1>1. lease[r] # NoLease
    BY DEF OneWriter, LeaseIffOpened, CloseEnds, Opened
  <1>2. /\ TypeOK' /\ UNCHANGED evidence /\ lease' = [lease EXCEPT ![r] = NoLease]
        /\ review' = [review EXCEPT ![r] = review'[r]]
        /\ review'[r].raw = <<>> /\ review'[r].epoch = 0
        /\ ~Owns(trunk, lease[r]) => trunk' = trunk
        /\ Owns(trunk, lease[r]) /\ trunk' # NoTrunk =>
             /\ trunk'.id = trunk.id
             /\ \/ trunk'.cursor = trunk.cursor /\ trunk'.spanned = trunk.spanned
                \/ /\ trunk'.cursor = lease[r].cursor
                   /\ trunk'.spanned = trunk.spanned \cup lease[r].spans
    BY <1>1, CloseDoes DEF OneWriter
  <1>3. /\ trunk # NoTrunk /\ trunk.cursor # NoCursor => trunk.cursor \in Cursor
        /\ \A q \in Leased : lease[q].cursor \in Cursor
        /\ r \in Leased /\ lease \in [Reviews -> LeaseOf(Reviews) \cup {NoLease}]
    BY <1>1 DEF OneWriter, TypeOK, IsTrunk, Leased, LeaseOf
  <1>4. /\ Known(Snaps', Now(evidence'))
        /\ \A c \in Cursor : \A X : CursorTold(c, X) =>
             Fit(c, Now(evidence')) /\ Cover(c, Snaps', X)
    <2>1. Follows(Now(evidence), Now(evidence'))
      <3>1. Now(evidence) \in Snapshot
        BY DEF Told, Known
      <3> QED BY <1>2, <3>1, SnapshotType DEF Follows, Before, Agree
    <2>2. Snap(r)' = Empty
      BY <1>2 DEF Snap, Empty
    <2>3. \A q \in Reviews : Snap(q)' \in Snaps \cup {Now(evidence'), Empty}
      BY <1>2, <2>2, SnapsMove
    <2> QED BY <2>1, <2>3, SnapsLater DEF OneWriter
  <1>5. TrunkTold'
    <2>1. CASE trunk' # NoTrunk /\ Owns(trunk, lease[r]) /\ trunk'.cursor = lease[r].cursor
                 /\ trunk'.spanned = trunk.spanned \cup lease[r].spans
      <3>1. LeaseTold(r) /\ lease[r].left \cup lease[r].spans \subseteq trunk'.spanned
        BY <1>3, <2>1 DEF Told, LeaseTold
      <3>2. /\ Fit(lease[r].cursor, Now(evidence'))
            /\ Cover(lease[r].cursor, Snaps', lease[r].left \cup lease[r].spans)
        BY <1>3, <1>4, <3>1 DEF LeaseTold
      <3>3. Cover(lease[r].cursor, Snaps', trunk'.spanned)
        BY <3>1, <3>2 DEF Cover
      <3> QED BY <2>1, <3>2, <3>3 DEF TrunkTold, CursorTold
    <2>2. CASE trunk' # NoTrunk /\ trunk # NoTrunk
                 /\ trunk'.cursor = trunk.cursor /\ trunk'.spanned = trunk.spanned
      BY <1>3, <1>4, <2>2 DEF Told, TrunkTold, CursorTold
    <2>3. CASE trunk' = NoTrunk
      BY <2>3 DEF TrunkTold
    <2> QED BY <1>2, <2>1, <2>2, <2>3 DEF Owns
  <1>6. ASSUME NEW q \in Leased' PROVE LeaseTold(q)'
    <2>1. q \in Leased /\ lease'[q] = lease[q] /\ LeaseTold(q) /\ lease[q].cursor \in Cursor
      BY <1>2, <1>3, <1>6 DEF Told, Leased
    <2>2. Owns(trunk', lease[q]) =>
            Owns(trunk, lease[q]) /\ trunk.spanned \subseteq trunk'.spanned
      BY <1>2 DEF Owns
    <2> QED BY <1>4, <2>1, <2>2 DEF LeaseTold, CursorTold
  <1> QED BY <1>4, <1>5, <1>6 DEF Told

LEMMA ToldStep ==
  ASSUME Told, OneWriter, [Next]_vars
  PROVE  Told'
  <1>1. CASE Next
    BY <1>1, StepKinds, HostKeepsTold, QuietKeepsTold, OpenKeepsTold, CloseKeepsTold
  <1>2. CASE UNCHANGED vars
    <2>1. Now(evidence') = Now(evidence) /\ \A q \in Reviews : Snap(q)' \in Snaps
      BY <1>2 DEF vars, Snap, Snaps
    <2>2. Follows(Now(evidence), Now(evidence'))
      <3>1. Now(evidence) \in Snapshot
        BY DEF Told, Known
      <3> QED BY <2>1, <3>1, SnapshotType DEF Follows, Before, Agree
    <2> QED BY <1>2, <2>1, <2>2, OthersKeepTold DEF vars
  <1> QED BY <1>1, <1>2
-------------------------------------------------------------------------------
(* What a verdict rests on in one review: the tools are open from the      *)
(* lease to the close, there is no ending before the close and no outcome  *)
(* before the end, an approval is what its whole reply says, and a verdict *)
(* that got out left closed tools behind.                                  *)
Waiting == {"idle", "called", "resolving", "authorizing"}
Supported(reply) == reply \in Replies /\ ParseReply(reply) = "approve"

Sound(v) ==
  /\ v.at \in Waiting => v.runtime = "none" /\ ~v.expired
  /\ v.at \in Opened => v.runtime = "open"
  /\ v.at # "closing" => v.ending = "none"
  /\ v.at # "settled" => v.outcome = "none"
  /\ v.at = "settled" =>
       /\ v.runtime # "open"
       /\ v.outcome \in Verdicts => v.runtime = "closed"
  /\ v.ending = "approve" => Supported(v.reply)
  /\ v.outcome = "approve" => Supported(v.reply)

(* What a step of a review may not do once it cannot have a verdict.       *)
Stops(v, w) ==
  v.aborted \/ v.expired =>
    /\ w.at \in Opened \ {"closing"} => w.at = v.at
    /\ w.ending \in Verdicts => v.ending \in Verdicts

LEMMA SettledSound ==
  ASSUME NEW v \in ReviewState, NEW o \in Outcome, v.runtime # "open",
         o \in Verdicts => v.runtime = "closed", o = "approve" => Supported(v.reply)
  PROVE  Sound(Settled(v, o)) /\ \A u : Stops(u, Settled(v, o))
  <1>1. LET w == Settled(v, o) IN
        /\ w.at = "settled" /\ w.outcome = o /\ w.runtime = v.runtime /\ w.reply = v.reply
        /\ w.ending = "none"
    BY DEF Settled, Resting
  <1> HIDE DEF Supported
  <1> QED BY <1>1 DEF Sound, Stops, Waiting, Opened, Verdicts

LEMMA RefusedSound ==
  ASSUME NEW v \in ReviewState, NEW e \in Failures, v.at \in Waiting, Sound(v)
  PROVE  Sound(Refused(v, e)) /\ Stops(v, Refused(v, e))
  <1>1. v.runtime = "none"
    BY DEF Sound
  <1>2. OutcomeOf(e) \in Outcome \ Verdicts
    BY DEF OutcomeOf, Verdicts, Failures, Outcome
  <1> QED BY <1>1, <1>2, SettledSound DEF Refused, Verdicts

LEMMA EndingSound ==
  ASSUME NEW v \in ReviewState, NEW e \in Verdicts \cup Failures, v.at \in Opened, Sound(v),
         NEW reply \in Replies \cup {NoReply}, e = "approve" => Supported(reply)
  PROVE  Sound([Ending(v, e) EXCEPT !.reply = reply])
  <1>1. LET w == [Ending(v, e) EXCEPT !.reply = reply] IN
        /\ w.at = "closing" /\ w.ending = e /\ w.reply = reply /\ w.runtime = v.runtime
        /\ w.outcome = v.outcome
    BY DEF Ending, ReviewState
  <1>2. v.runtime = "open" /\ v.outcome = "none"
    BY DEF Sound, Opened
  <1> QED BY <1>1, <1>2 DEF Sound, Opened, Waiting

LEMMA FailureSound ==
  ASSUME NEW v \in ReviewState, NEW e \in Failures, v.at \in Opened, Sound(v)
  PROVE  Sound(Ending(v, e))
  <1>1. v.reply \in Replies \cup {NoReply} /\ e # "approve" /\ e \in Verdicts \cup Failures
    BY DEF ReviewState, Failures
  <1>2. Ending(v, e) = [Ending(v, e) EXCEPT !.reply = v.reply]
    BY DEF Ending, ReviewState
  <1>3. Sound([Ending(v, e) EXCEPT !.reply = v.reply])
    BY <1>1, EndingSound
  <1> QED BY <1>2, <1>3

(* After an await what came too late is no answer.                         *)
LEMMA InTimeSound ==
  ASSUME NEW v \in ReviewState, v.at \in Opened, Sound(v), NEW w, Sound(w)
  PROVE  Sound(InTime(v, w)) /\ Stops(v, InTime(v, w))
  <1>1. {"cancelled", "timeout"} \subseteq Failures
    BY DEF Failures
  <1>2. \A e \in {"cancelled", "timeout"} : Sound(Ending(v, e)) /\ Stops(v, Ending(v, e))
    <2>1. \A e \in {"cancelled", "timeout"} : Ending(v, e).at = "closing" /\ Ending(v, e).ending = e
      BY DEF Ending, ReviewState
    <2> QED BY <1>1, <2>1, FailureSound DEF Stops, Verdicts
  <1>3. CASE v.aborted \/ v.expired
    BY <1>2, <1>3 DEF InTime
  <1>4. CASE ~(v.aborted \/ v.expired)
    BY <1>4 DEF InTime, Stops
  <1> QED BY <1>3, <1>4

LEMMA WorkingSound ==
  ASSUME NEW v \in ReviewState, v.at \in Opened \ {"closing"}, Sound(v),
         NEW a \in {"asking", "using", "sleeping"}
  PROVE  Sound([v EXCEPT !.at = a])
  <1>1. LET w == [v EXCEPT !.at = a] IN
        /\ w.at = a /\ w.ending = v.ending /\ w.reply = v.reply /\ w.runtime = v.runtime
        /\ w.outcome = v.outcome
    BY DEF ReviewState
  <1>2. v.runtime = "open" /\ v.outcome = "none" /\ v.ending = "none"
    BY DEF Sound, Opened
  <1> QED BY <1>1, <1>2 DEF Sound, Opened, Waiting

LEMMA AsksSound ==
  ASSUME NEW v \in ReviewState, v.at \in Opened \ {"closing"}, Sound(v)
  PROVE  Sound(Asks(v))
  <1>1. {"cancelled", "timeout"} \subseteq Failures
    BY DEF Failures
  <1> QED BY <1>1, FailureSound, WorkingSound DEF Asks

LEMMA RetriesSound ==
  ASSUME NEW v \in ReviewState, v.at \in Opened \ {"closing"}, Sound(v),
         NEW e \in Failures, NEW b \in BOOLEAN, NEW w \in Retries(v, e, b)
  PROVE  Sound(w)
  <1>1. "timeout" \in Failures
    BY DEF Failures
  <1> QED BY <1>1, FailureSound, WorkingSound DEF Retries

LEMMA CountsSound ==
  ASSUME NEW v \in ReviewState, Sound(v), NEW m \in Nat, NEW n \in Nat
  PROVE  \A u \in {[v EXCEPT !.rounds = n], [v EXCEPT !.attempt = m, !.rounds = n]} : Sound(u)
  BY DEF Sound, ReviewState, Waiting, Opened

LEMMA QuietSound ==
  ASSUME TypeOK, NEW r \in Reviews, QuietStep(r), Sound(review[r])
  PROVE  /\ review[r].at # "settled"
         /\ Sound(review'[r]) /\ Stops(review[r], review'[r])
  <1> DEFINE v == review[r]
  <1>1. v \in ReviewState /\ review \in [Reviews -> ReviewState] /\ Sound(v)
    BY DEF TypeOK
  <1>2. {"cancelled", "timeout", "unavailable", "error", "provider", "parse"} \subseteq Failures
    BY DEF Failures
  <1>3. ASSUME NEW w, Goes(r, w), Sound(w), Stops(v, w)
        PROVE  Sound(review'[r]) /\ Stops(v, review'[r])
    BY <1>1, <1>3 DEF Goes
  <1>4. CASE Abort(r)
    <2> DEFINE w == [v EXCEPT !.aborted = TRUE]
    <2>1. v.at # "settled" /\ Goes(r, w)
      BY <1>4 DEF Abort, Live, Goes
    <2>2. Sound(w) /\ Stops(v, w)
      BY <1>1, <2>1 DEF Sound, Stops, ReviewState, Waiting, Opened
    <2> QED BY <1>3, <2>1, <2>2
  <1>5. CASE Deadline(r)
    <2> DEFINE w == [v EXCEPT !.expired = TRUE]
    <2>1. v.at \in Opened /\ Goes(r, w)
      BY <1>5 DEF Deadline, Goes
    <2>2. Sound(w) /\ Stops(v, w)
      BY <1>1, <2>1 DEF Sound, Stops, ReviewState, Waiting, Opened
    <2> QED BY <1>3, <2>1, <2>2 DEF Opened
  <1>6. CASE Call(r)
    <2>1. v.at = "called" /\ v.at \in Waiting
      BY <1>6 DEF Call, Waiting
    <2>2. Sound(Settled(v, "threw")) /\ Stops(v, Settled(v, "threw"))
      BY <1>1, <2>1, SettledSound DEF Sound, Outcome, Verdicts
    <2>3. Sound([v EXCEPT !.at = "resolving"]) /\ Stops(v, [v EXCEPT !.at = "resolving"])
      BY <1>1, <2>1 DEF Sound, Stops, Waiting, Opened, ReviewState, Verdicts
    <2>4. \A e \in {"error", "cancelled", "unavailable"} :
            Sound(Refused(v, e)) /\ Stops(v, Refused(v, e))
      BY <1>1, <1>2, <2>1, RefusedSound
    <2>5. \E w : Goes(r, w) /\ Sound(w) /\ Stops(v, w)
      BY <1>6, <2>2, <2>3, <2>4 DEF Call
    <2> QED BY <1>3, <2>1, <2>5
  <1>7. CASE ModelResolved(r)
    <2>1. v.at = "resolving" /\ v.at \in Waiting
      BY <1>7 DEF ModelResolved, Waiting
    <2>2. Sound([v EXCEPT !.at = "authorizing"]) /\ Stops(v, [v EXCEPT !.at = "authorizing"])
      BY <1>1, <2>1 DEF Sound, Stops, Waiting, Opened, ReviewState, Verdicts
    <2>3. \A e \in {"cancelled", "unavailable"} :
            Sound(Refused(v, e)) /\ Stops(v, Refused(v, e))
      BY <1>1, <1>2, <2>1, RefusedSound
    <2>4. \E w : Goes(r, w) /\ Sound(w) /\ Stops(v, w)
      BY <1>7, <2>2, <2>3 DEF ModelResolved
    <2> QED BY <1>3, <2>1, <2>4
  <1>8. CASE NotAuthorized(r)
    <2>1. v.at = "authorizing" /\ v.at \in Waiting
      BY <1>8 DEF NotAuthorized, Waiting
    <2>2. \A e \in {"cancelled", "unavailable"} :
            Sound(Refused(v, e)) /\ Stops(v, Refused(v, e))
      BY <1>1, <1>2, <2>1, RefusedSound
    <2>3. \E w : Goes(r, w) /\ Sound(w) /\ Stops(v, w)
      BY <1>8, <2>2 DEF NotAuthorized
    <2> QED BY <1>3, <2>1, <2>3
  <1>9. ASSUME v.at \in Opened, NEW w, Sound(w), Goes(r, InTime(v, w))
        PROVE  /\ v.at # "settled"
               /\ Sound(review'[r]) /\ Stops(v, review'[r])
    BY <1>1, <1>3, <1>9, InTimeSound DEF Opened
  <1>10. CASE RequestFails(r)
    <2>1. v.at \in Opened \ {"closing"}
      BY <1>10 DEF RequestFails, Opened
    <2>2. PICK transient \in BOOLEAN : \E w \in Retries(v, "provider", transient) :
            Goes(r, InTime(v, w))
      <3>1. \A statuses, flagged : flagged \in BOOLEAN => Transient(statuses, flagged) \in BOOLEAN
        BY DEF Transient
      <3> QED BY <1>10, <3>1 DEF RequestFails
    <2>3. PICK w \in Retries(v, "provider", transient) : Goes(r, InTime(v, w))
      BY <2>2
    <2>4. Sound(w)
      BY <1>1, <1>2, <2>1, RetriesSound
    <2> QED BY <1>9, <2>1, <2>3, <2>4
  <1>11. CASE AsksForTools(r)
    <2>1. v.at \in Opened \ {"closing"}
      BY <1>11 DEF AsksForTools, Opened
    <2>2. Sound([v EXCEPT !.at = "using"]) /\ Sound(Ending(v, "provider"))
      BY <1>1, <1>2, <2>1, WorkingSound, FailureSound
    <2>3. PICK w : Goes(r, InTime(v, w)) /\ Sound(w)
      BY <1>11, <2>2 DEF AsksForTools
    <2> QED BY <1>9, <2>1, <2>3
  <1>12. ASSUME NEW reply \in Replies, Answers(r, reply)
         PROVE  v.at # "settled" /\ Sound(review'[r]) /\ Stops(v, review'[r])
    <2> DEFINE parsed == ParseReply(reply)
    <2>1. v.at \in Opened \ {"closing"}
      BY <1>12 DEF Answers, Opened
    <2>2. parsed \in {"approve", "deny", Unparsed}
      BY DEF ParseReply
    <2>3. CASE parsed = Unparsed
      <3>1. PICK w \in Retries(v, "parse", TRUE) : Goes(r, InTime(v, w))
        BY <1>12, <2>3 DEF Answers
      <3>2. Sound(w)
        BY <1>1, <1>2, <2>1, RetriesSound
      <3> QED BY <1>9, <2>1, <3>1, <3>2
    <2>4. CASE parsed # Unparsed
      <3> DEFINE w == [Ending(v, parsed) EXCEPT !.reply = reply]
      <3>1. parsed \in Verdicts \cup Failures
        BY <2>2, <2>4 DEF Verdicts
      <3>2. Sound(w)
        BY <1>1, <2>1, <3>1, EndingSound DEF Supported
      <3>3. Goes(r, InTime(v, w))
        BY <1>12, <2>4 DEF Answers
      <3> QED BY <1>9, <2>1, <3>2, <3>3
    <2> QED BY <2>3, <2>4
  <1>13. CASE ToolsEnd(r)
    <2> DEFINE u == [v EXCEPT !.rounds = @ + 1]
    <2>1. v.at \in Opened \ {"closing"}
      BY <1>13 DEF ToolsEnd, Opened
    <2>2. u \in ReviewState /\ u.at \in Opened \ {"closing"} /\ Sound(u)
      <3>1. 0 \in Nat /\ v.rounds + 1 \in Nat
        BY <1>1 DEF ReviewState
      <3> QED BY <1>1, <2>1, <3>1, CountsCarry, CountsSound
    <2>3. Sound(Asks(u)) /\ Sound(Ending(v, "provider"))
      BY <1>1, <1>2, <2>1, <2>2, AsksSound, FailureSound
    <2>4. PICK w : Goes(r, InTime(v, w)) /\ Sound(w)
      BY <1>13, <2>3 DEF ToolsEnd
    <2> QED BY <1>9, <2>1, <2>4
  <1>14. CASE Interrupted(r)
    <2>1. v.at \in Opened /\ Goes(r, InTime(v, v))
      BY <1>14 DEF Interrupted, Opened
    <2> QED BY <1>1, <1>9, <2>1
  <1>15. CASE SleepEnds(r)
    <2> DEFINE u == [v EXCEPT !.attempt = @ + 1, !.rounds = 0]
    <2>1. v.at \in Opened \ {"closing"}
      BY <1>15 DEF SleepEnds, Opened
    <2>2. u \in ReviewState /\ u.at \in Opened \ {"closing"} /\ Sound(u)
      <3>1. 0 \in Nat /\ v.attempt + 1 \in Nat
        BY <1>1 DEF ReviewState
      <3>2. u \in ReviewState /\ u.at = v.at
        BY <1>1, <3>1, CountsCarry
      <3>3. Sound(u)
        BY <1>1, <3>1, CountsSound
      <3> QED BY <2>1, <3>2, <3>3
    <2>3. Sound(Asks(u)) /\ Goes(r, InTime(v, Asks(u)))
      BY <1>15, <2>2, AsksSound DEF SleepEnds
    <2> QED BY <1>9, <2>1, <2>3
  <1> QED
    BY <1>4, <1>5, <1>6, <1>7, <1>8, <1>10, <1>11, <1>12, <1>13, <1>14, <1>15 DEF QuietStep
-------------------------------------------------------------------------------
(* The trunk's turns are of reviews that ended in a verdict, each its own. *)
TurnOf == [by : Reviews, size : Nat, offers : SUBSET Nat]
Earned(turns, rs) ==
  /\ turns \in Seq(TurnOf)
  /\ \A i \in 1..Len(turns) : rs[turns[i].by].outcome \in Verdicts
  /\ \A i, j \in 1..Len(turns) : turns[i].by = turns[j].by => i = j

TurnsEarned == trunk # NoTrunk => Earned(trunk.turns, review)
AllSound == \A r \in Reviews : Sound(review[r])

(* Trimming keeps a tail of the turns.                                     *)
LEMMA TrimmedIsTail ==
  ASSUME NEW T, NEW s \in Seq(T)
  PROVE  \E k \in 0..Len(s) : Trimmed(s) = SubSeq(s, k + 1, Len(s))
  <1> DEFINE fitting == {n \in 1..Len(s) : n <= MaxPairs /\ SizeOf(Newest(s, n)) <= MaxSize}
             c == Cardinality(fitting)
  <1>1. Len(s) \in Nat
    OBVIOUS
  <1>2. IsFiniteSet(1..Len(s)) /\ Cardinality(1..Len(s)) = Len(s)
    <2>1. 1 \in Int /\ Len(s) \in Int
      BY <1>1
    <2>2. /\ IsFiniteSet(1..Len(s))
          /\ Cardinality(1..Len(s)) = IF 1 > Len(s) THEN 0 ELSE Len(s) - 1 + 1
      BY <2>1, FS_Interval
    <2> QED BY <1>1, <2>2
  <1>3. fitting \in SUBSET (1..Len(s))
    OBVIOUS
  <1>4. c \in Nat /\ c <= Len(s)
    <2> HIDE DEF fitting
    <2> QED BY <1>2, <1>3, FS_Subset, FS_CardinalityType
  <1>5. Trimmed(s) = Newest(s, c)
    BY DEF Trimmed
  <1> HIDE DEF c
  <1>6. Len(s) - c \in 0..Len(s)
    BY <1>1, <1>4
  <1> QED BY <1>5, <1>6 DEF Newest

LEMMA TrimmedStaysEarned ==
  ASSUME NEW s, NEW rs, Earned(s, rs)
  PROVE  Earned(Trimmed(s), rs)
  <1>1. s \in Seq(TurnOf) /\ Len(s) \in Nat
    BY DEF Earned
  <1>2. PICK k \in 0..Len(s) : Trimmed(s) = SubSeq(s, k + 1, Len(s))
    BY <1>1, TrimmedIsTail
  <1>3. /\ Trimmed(s) \in Seq(TurnOf) /\ Len(Trimmed(s)) = Len(s) - k
        /\ \A i \in 1..(Len(s) - k) : Trimmed(s)[i] = s[k + i]
    <2>1. k \in Nat /\ k <= Len(s)
      BY <1>1, <1>2
    <2>2. SubSeq(s, k + 1, Len(s)) \in Seq(TurnOf)
      BY <1>1, <2>1, SubSeqProperties
    <2>3. Len(SubSeq(s, k + 1, Len(s))) = Len(s) - k
      BY <1>1, <2>1, SubSeqProperties
    <2>4. \A i \in 1..(Len(s) - k) : SubSeq(s, k + 1, Len(s))[i] = s[k + i]
      BY <1>1, <2>1, SubSeqProperties
    <2> QED BY <1>2, <2>2, <2>3, <2>4
  <1>4. \A i \in 1..(Len(s) - k) : k + i \in 1..Len(s)
    BY <1>1, <1>2
  <1>5. ASSUME NEW i \in 1..Len(Trimmed(s)), NEW j \in 1..Len(Trimmed(s)),
               Trimmed(s)[i].by = Trimmed(s)[j].by
        PROVE  i = j
    <2>1. s[k + i].by = s[k + j].by /\ k + i \in 1..Len(s) /\ k + j \in 1..Len(s)
      BY <1>3, <1>4, <1>5
    <2>2. k + i = k + j
      BY <2>1 DEF Earned
    <2> QED BY <1>1, <1>2, <1>3, <2>2
  <1>6. \A i \in 1..Len(Trimmed(s)) : rs[Trimmed(s)[i].by].outcome \in Verdicts
    BY <1>3, <1>4 DEF Earned
  <1> QED BY <1>3, <1>5, <1>6 DEF Earned

(* A review that had no outcome is in no turn: the others do not see it    *)
(* move, and its own turn is a new one.                                    *)
LEMMA OthersStayEarned ==
  ASSUME NEW s, NEW rs \in [Reviews -> ReviewState], Earned(s, rs),
         NEW r \in Reviews, rs[r].outcome = "none", NEW w
  PROVE  Earned(s, [rs EXCEPT ![r] = w]) /\ \A i \in 1..Len(s) : s[i].by # r
  <1>1. \A i \in 1..Len(s) : s[i].by \in Reviews /\ rs[s[i].by].outcome \in Verdicts
    <2>1. ASSUME NEW i \in 1..Len(s)
          PROVE  s[i].by \in Reviews
      <3>1. s \in Seq(TurnOf)
        BY DEF Earned
      <3>2. s[i] \in TurnOf
        BY <2>1, <3>1
      <3> QED BY <3>2 DEF TurnOf
    <2> QED BY <2>1 DEF Earned
  <1>2. \A i \in 1..Len(s) : s[i].by # r
    BY <1>1 DEF Verdicts
  <1> QED BY <1>1, <1>2 DEF Earned

LEMMA NewTurnEarned ==
  ASSUME NEW s, NEW rs \in [Reviews -> ReviewState], Earned(s, rs),
         NEW r \in Reviews, rs[r].outcome = "none",
         NEW w, w.outcome \in Verdicts, NEW size \in Nat, NEW X \in SUBSET Nat
  PROVE  Earned(Append(s, Turn(r, size, X)), [rs EXCEPT ![r] = w])
  <1> DEFINE t == Turn(r, size, X)
             new == Append(s, t)
             after == [rs EXCEPT ![r] = w]
  <1>1. Earned(s, after) /\ \A i \in 1..Len(s) : s[i].by # r
    BY OthersStayEarned
  <1>2. t \in TurnOf /\ t.by = r /\ s \in Seq(TurnOf) /\ Len(s) \in Nat
    BY DEF Turn, TurnOf, Earned
  <1>3. after[r].outcome \in Verdicts
    OBVIOUS
  <1> HIDE DEF t, after
  <1>4. /\ new \in Seq(TurnOf) /\ Len(new) = Len(s) + 1 /\ new[Len(s) + 1] = t
        /\ \A i \in 1..Len(s) : new[i] = s[i]
    BY <1>2
  <1> HIDE DEF new
  <1>5. \A i \in 1..Len(new) : i \in 1..Len(s) \/ i = Len(s) + 1
    BY <1>2, <1>4
  <1>6. \A i \in 1..Len(new) : after[new[i].by].outcome \in Verdicts
    BY <1>1, <1>2, <1>3, <1>4, <1>5 DEF Earned
  <1>7. ASSUME NEW i \in 1..Len(new), NEW j \in 1..Len(new), new[i].by = new[j].by
        PROVE  i = j
    BY <1>1, <1>2, <1>4, <1>5, <1>7 DEF Earned
  <1> QED BY <1>4, <1>6, <1>7 DEF Earned, t, new, after

VerdictsKept == TurnsEarned /\ AllSound

LEMMA KeptInit ==
  ASSUME Init
  PROVE  VerdictsKept
  <1>1. \A r \in Reviews : review[r] = Resting
    BY DEF Init
  <1>2. Sound(Resting)
    BY DEF Sound, Resting, Waiting, Opened, Verdicts
  <1>3. TurnsEarned
    BY DEF Init, TurnsEarned
  <1> QED BY <1>1, <1>2, <1>3 DEF VerdictsKept, AllSound

(* One review moves, and it had no outcome.                                *)
LEMMA OneMoves ==
  ASSUME TypeOK, VerdictsKept, NEW r \in Reviews, review[r].at # "settled",
         review' = [review EXCEPT ![r] = review'[r]], Sound(review'[r])
  PROVE  /\ AllSound'
         /\ review[r].outcome = "none"
         /\ \A turns : Earned(turns, review) => Earned(turns, review')
  <1>1. review \in [Reviews -> ReviewState]
    BY DEF TypeOK
  <1>2. review[r].outcome = "none"
    BY DEF VerdictsKept, AllSound, Sound
  <1>3. AllSound'
    <2>1. ASSUME NEW q \in Reviews PROVE Sound(review'[q])
      <3>1. CASE q = r
        BY <3>1
      <3>2. CASE q # r
        <4>1. review'[q] = review[q]
          BY <1>1, <3>2
        <4> QED BY <4>1 DEF VerdictsKept, AllSound
      <3> QED BY <3>1, <3>2
    <2> QED BY <2>1 DEF AllSound
  <1>4. ASSUME NEW turns, Earned(turns, review) PROVE Earned(turns, review')
    <2>1. Earned(turns, [review EXCEPT ![r] = review'[r]])
      BY <1>1, <1>2, <1>4, OthersStayEarned
    <2> QED BY <2>1
  <1> QED BY <1>2, <1>3, <1>4

LEMMA SubmitKeepsVerdicts ==
  ASSUME TypeOK, VerdictsKept, NEW r \in Reviews, NEW key \in Keys, Submit(r, key)
  PROVE  VerdictsKept' /\ Stops(review[r], review'[r])
  <1> DEFINE w == [Resting EXCEPT !.at = "called", !.key = key, !.raw = Raw(evidence'),
                                  !.epoch = evidence'.epoch]
  <1>1. /\ review' = [review EXCEPT ![r] = w] /\ trunk' = trunk
        /\ review[r].at = "idle" /\ review \in [Reviews -> ReviewState]
    BY DEF Submit, Goes, TypeOK
  <1>2. Sound(w) /\ w.at = "called" /\ w.ending = "none"
    BY DEF Sound, Resting, Waiting, Opened, Verdicts
  <1> HIDE DEF w
  <1>3. review'[r] = w
    BY <1>1
  <1>4. AllSound' /\ \A turns : Earned(turns, review) => Earned(turns, review')
    BY <1>1, <1>2, <1>3, OneMoves
  <1>5. Stops(review[r], w)
    BY <1>2 DEF Stops, Opened, Verdicts
  <1> QED BY <1>1, <1>3, <1>4, <1>5 DEF VerdictsKept, TurnsEarned

LEMMA OpenKeepsVerdicts ==
  ASSUME TypeOK, VerdictsKept, NEW r \in Reviews, Open(r)
  PROVE  VerdictsKept' /\ Stops(review[r], review'[r])
  <1> DEFINE v == review[r]
             t == TrunkFor(trunk, v.key, r)
             u == [v EXCEPT !.attempt = 1, !.runtime = "open", !.raw = <<>>, !.epoch = 0]
  <1>1. /\ v \in ReviewState /\ review \in [Reviews -> ReviewState] /\ Sound(v)
        /\ v.at = "authorizing" /\ ~v.aborted
        /\ review' = [review EXCEPT ![r] = Asks(u)] /\ trunk' = Held(t)
    BY DEF Open, Goes, TypeOK, VerdictsKept, AllSound
  <1>2. ~v.expired /\ v.ending = "none" /\ v.outcome = "none"
    BY <1>1 DEF Sound, Waiting
  <1>3. Asks(u) = [u EXCEPT !.at = "asking"]
    BY <1>1, <1>2 DEF Asks, ReviewState
  <1>4. LET w == [u EXCEPT !.at = "asking"] IN
        w.at = "asking" /\ w.runtime = "open" /\ w.ending = "none" /\ w.outcome = "none"
    BY <1>1, <1>2 DEF ReviewState
  <1>5. Sound(Asks(u)) /\ Stops(v, Asks(u))
    <2> HIDE DEF u
    <2> QED BY <1>1, <1>2, <1>3, <1>4 DEF Sound, Stops, Waiting, Opened, Verdicts
  <1> HIDE DEF u
  <1>6. review'[r] = Asks(u)
    BY <1>1
  <1>7. AllSound' /\ \A turns : Earned(turns, review) => Earned(turns, review')
    BY <1>1, <1>5, <1>6, OneMoves
  <1>8. TurnsEarned'
    <2>1. IsTrunk(t)
      <3>1. (trunk = NoTrunk \/ IsTrunk(trunk)) /\ v.key \in Keys \cup {"none"}
        BY <1>1 DEF TypeOK, ReviewState
      <3> QED BY <3>1, TrunkForType
    <2>2. t.turns = <<>> \/ (trunk # NoTrunk /\ t = trunk)
      BY DEF TrunkFor, NewTrunk
    <2>3. Earned(<<>>, review)
      BY DEF Earned
    <2>4. Earned(t.turns, review')
      BY <1>7, <2>2, <2>3 DEF VerdictsKept, TurnsEarned
    <2> HIDE DEF t
    <2>5. Held(t).turns = t.turns
      BY <2>1 DEF Held, IsTrunk
    <2> QED BY <1>1, <2>4, <2>5 DEF TurnsEarned
  <1> QED BY <1>5, <1>6, <1>7, <1>8 DEF VerdictsKept

LEMMA CloseKeepsVerdicts ==
  ASSUME TypeOK, VerdictsKept, OneWriter, NEW r \in Reviews, CloseEnds(r)
  PROVE  VerdictsKept' /\ Stops(review[r], review'[r])
  <1> DEFINE v == review[r]
             l == lease[r]
  <1>1. /\ v \in ReviewState /\ review \in [Reviews -> ReviewState] /\ Sound(v)
        /\ v.at = "closing" /\ (trunk = NoTrunk \/ IsTrunk(trunk)) /\ l.offers \in SUBSET Nat
    BY DEF CloseEnds, TypeOK, VerdictsKept, AllSound, OneWriter, LeaseIffOpened, Opened, LeaseOf
  <1>2. PICK clean \in BOOLEAN, size \in Sizes :
          /\ trunk' = Release(IF MayCommit(v, clean) THEN CommitTurn(trunk, l, Turn(r, size, l.offers))
                              ELSE trunk, l)
          /\ Goes(r, Settled([v EXCEPT !.runtime = IF clean THEN "closed" ELSE "failed"],
                             IF clean THEN OutcomeOf(v.ending) ELSE "failed"))
    BY DEF CloseEnds
  <1> DEFINE u == [v EXCEPT !.runtime = IF clean THEN "closed" ELSE "failed"]
             o == IF clean THEN OutcomeOf(v.ending) ELSE "failed"
             w == Settled(u, o)
  <1>3. /\ u \in ReviewState /\ u.runtime = (IF clean THEN "closed" ELSE "failed")
        /\ u.reply = v.reply
    BY <1>1 DEF ReviewState
  <1>4. /\ o \in Outcome /\ (o \in Verdicts => clean /\ o = v.ending)
        /\ MayCommit(v, clean) => o \in Verdicts
    BY DEF OutcomeOf, Outcome, Verdicts, MayCommit
  <1>5. o = "approve" => Supported(u.reply)
    BY <1>1, <1>3, <1>4 DEF Sound, Verdicts
  <1>6. review' = [review EXCEPT ![r] = w]
    BY <1>2 DEF Goes
  <1>7. w.outcome = o
    BY DEF Settled, Resting
  <1> HIDE DEF u, o
  <1>8. Sound(w) /\ Stops(v, w)
    BY <1>3, <1>4, <1>5, SettledSound
  <1> HIDE DEF w
  <1>9. review'[r] = w
    BY <1>1, <1>6
  <1>10. /\ AllSound' /\ v.outcome = "none"
         /\ \A turns : Earned(turns, review) => Earned(turns, review')
    BY <1>1, <1>6, <1>8, <1>9, OneMoves
  <1> DEFINE c == IF MayCommit(v, clean) THEN CommitTurn(trunk, l, Turn(r, size, l.offers)) ELSE trunk
  <1>11. c # NoTrunk => trunk # NoTrunk /\ IsTrunk(trunk)
    BY <1>1 DEF CommitTurn, Owns
  <1>12. trunk # NoTrunk => Earned(trunk.turns, review)
    BY DEF VerdictsKept, TurnsEarned
  <1>13. c # NoTrunk => Earned(c.turns, review')
    <2>1. CASE MayCommit(v, clean) /\ Owns(trunk, l)
      <3>1. c.turns = Trimmed(Append(trunk.turns, Turn(r, size, l.offers)))
        BY <1>1, <2>1 DEF CommitTurn, Owns, IsTrunk
      <3>2. Earned(trunk.turns, review)
        BY <1>12, <2>1 DEF Owns
      <3>3. size \in Nat /\ w.outcome \in Verdicts
        BY <1>4, <1>7, <2>1, ReviewAssumption
      <3>4. Earned(Append(trunk.turns, Turn(r, size, l.offers)), review')
        BY <1>1, <1>6, <1>10, <3>2, <3>3, NewTurnEarned
      <3> QED BY <3>1, <3>4, TrimmedStaysEarned
    <2>2. CASE ~(MayCommit(v, clean) /\ Owns(trunk, l))
      <3>1. c = trunk
        BY <2>2 DEF CommitTurn
      <3> QED BY <1>10, <1>12, <3>1
    <2> QED BY <2>1, <2>2
  <1>14. trunk' # NoTrunk => c # NoTrunk /\ trunk'.turns = c.turns
    <2>1. trunk' = Release(c, l)
      BY <1>2
    <2>2. Owns(c, l) => c # NoTrunk
      BY DEF Owns
    <2> HIDE DEF c
    <2>3. CASE Owns(c, l)
      <3>1. [c EXCEPT !.active = FALSE].turns = c.turns
        OBVIOUS
      <3> QED BY <2>1, <2>2, <2>3, <3>1 DEF Release
    <2>4. CASE ~Owns(c, l)
      BY <2>1, <2>4 DEF Release
    <2> QED BY <2>3, <2>4
  <1> QED BY <1>8, <1>9, <1>10, <1>13, <1>14 DEF VerdictsKept, TurnsEarned

LEMMA VerdictsStep ==
  ASSUME TypeOK, VerdictsKept, OneWriter, [Next]_vars
  PROVE  VerdictsKept' /\ \A r \in Reviews : Stops(review[r], review'[r])
  <1>1. \A r \in Reviews : Stops(review[r], review[r])
    BY DEF Stops
  <1>2. CASE HostStep
    <2>1. review' = review /\ (trunk' = trunk \/ trunk' = NoTrunk)
      BY <1>2, HostDoes
    <2> QED BY <1>1, <2>1 DEF VerdictsKept, TurnsEarned, AllSound
  <1>3. ASSUME NEW r \in Reviews,
               \/ QuietStep(r)
               \/ \E key \in left.keys : Submit(r, key)
               \/ Open(r)
               \/ CloseEnds(r)
        PROVE  VerdictsKept' /\ \A q \in Reviews : Stops(review[q], review'[q])
    <2>1. review' = [review EXCEPT ![r] = review'[r]]
      <3>1. QuietStep(r) => review' = [review EXCEPT ![r] = review'[r]]
        BY QuietCarries
      <3>2. ASSUME NEW w, Goes(r, w) PROVE review' = [review EXCEPT ![r] = review'[r]]
        BY <3>2 DEF Goes, TypeOK
      <3> QED BY <1>3, <3>1, <3>2 DEF Submit, Open, CloseEnds
    <2>2. VerdictsKept' /\ Stops(review[r], review'[r])
      <3>1. CASE QuietStep(r)
        <4>1. trunk' = trunk
          BY <3>1, QuietCarries
        <4>2. Sound(review[r])
          BY DEF VerdictsKept, AllSound
        <4>3. review[r].at # "settled" /\ Sound(review'[r]) /\ Stops(review[r], review'[r])
          BY <3>1, <4>2, QuietSound
        <4>4. AllSound' /\ \A turns : Earned(turns, review) => Earned(turns, review')
          BY <2>1, <4>3, OneMoves
        <4> QED BY <4>1, <4>3, <4>4 DEF VerdictsKept, TurnsEarned
      <3>2. ASSUME NEW key \in left.keys, Submit(r, key)
            PROVE  VerdictsKept' /\ Stops(review[r], review'[r])
        <4>1. key \in Keys
          BY DEF TypeOK, Bounds
        <4> QED BY <3>2, <4>1, SubmitKeepsVerdicts
      <3> QED BY <1>3, <3>1, <3>2, OpenKeepsVerdicts, CloseKeepsVerdicts
    <2>3. \A q \in Reviews : q # r => review'[q] = review[q]
      BY <2>1 DEF TypeOK
    <2> QED BY <1>1, <2>2, <2>3
  <1>4. CASE UNCHANGED vars
    BY <1>1, <1>4 DEF vars, VerdictsKept, TurnsEarned, AllSound
  <1> QED BY <1>2, <1>3, <1>4, StepKinds

(* A reply whose members are unambiguous says each thing once: what Field  *)
(* finds is all it says.                                                   *)
Said(reply, key) == {m.value : m \in {n \in Range(reply.members) : n.key = key}}

LEMMA SaidOnce ==
  ASSUME NEW reply \in Replies, Unambiguous(reply.members), NEW key
  PROVE  \/ Said(reply, key) = {} /\ Field(reply, key) = Absent
         \/ Said(reply, key) = {Field(reply, key)}
  <1> DEFINE ms == reply.members
             at == Places(ms, key)
  <1>1. /\ ms \in Seq(Range(ms)) /\ DOMAIN ms = 1..Len(ms) /\ Len(ms) \in Nat
        /\ Range(ms) = {ms[i] : i \in 1..Len(ms)}
    <2>1. ms \in Seq(Range(ms))
      BY ReviewAssumption
    <2>2. DOMAIN ms = 1..Len(ms) /\ Len(ms) \in Nat
      BY <2>1
    <2> QED BY <2>1, <2>2 DEF Range
  <1>2. at = {i \in 1..Len(ms) : ms[i].key = key}
    BY <1>1 DEF Places
  <1>3. Said(reply, key) = {ms[i].value : i \in at}
    BY <1>1, <1>2 DEF Said
  <1>4. CASE at = {}
    BY <1>3, <1>4 DEF Field
  <1>5. CASE at # {}
    <2>1. IsFiniteSet(at)
      <3>1. IsFiniteSet(1..Len(ms)) /\ at \in SUBSET (1..Len(ms))
        <4>1. 1 \in Int /\ Len(ms) \in Int
          BY <1>1
        <4> QED BY <1>2, <4>1, FS_Interval
      <3> HIDE DEF at
      <3> QED BY <3>1, FS_Subset
    <2>2. key \in {ms[i].key : i \in DOMAIN ms}
      BY <1>1, <1>2, <1>5
    <2>3. Cardinality(at) = 1
      BY <2>2 DEF Unambiguous
    <2>4. PICK x : at = {x}
      <3> HIDE DEF at
      <3> QED BY <2>1, <2>3, FS_Singleton
    <2>5. x <= x
      <3>1. x \in 1..Len(ms)
        BY <1>2, <2>4
      <3> QED BY <3>1
    <2>6. (CHOOSE i \in at : \A j \in at : j <= i) = x
      BY <2>4, <2>5
    <2>7. Field(reply, key) = ms[x].value
      BY <1>5, <2>6 DEF Field
    <2> QED BY <1>3, <2>4, <2>7
  <1> QED BY <1>4, <1>5

LEMMA SupportSaid ==
  ASSUME NEW reply, Supported(reply)
  PROVE  /\ Said(reply, "outcome") = {"allow"}
         /\ "critical" \notin Said(reply, "risk_level")
         /\ "high" \in Said(reply, "risk_level") =>
              Said(reply, "user_authorization") \in {{"medium"}, {"high"}}
  <1> DEFINE f(key) == Field(reply, key)
  <1>1. /\ Unambiguous(reply.members) /\ WellFormed(reply)
        /\ ~BelowFloor(f("outcome"), RiskOf(reply), AuthorizationOf(reply))
        /\ f("outcome") = "allow"
    BY DEF Supported, ParseReply, Readable, Unparsed
  <1>2. \A key : (Said(reply, key) = {} /\ f(key) = Absent) \/ Said(reply, key) = {f(key)}
    BY <1>1, SaidOnce DEF Supported
  <1> HIDE DEF f
  <1>3. RiskOf(reply) \notin {"critical"}
        /\ (RiskOf(reply) = "high" => AuthorizationOf(reply) \notin {"unknown", "low"})
    BY <1>1 DEF BelowFloor
  <1>4. \A risk : risk \in Said(reply, "risk_level") => risk = f("risk_level")
    BY <1>2
  <1>5. Said(reply, "risk_level") # {} /\ f("risk_level") # Absent => RiskOf(reply) = f("risk_level")
    BY DEF RiskOf, f
  <1>6. "critical" # Absent /\ "high" # Absent /\ "allow" # Absent
    BY DEF Absent
  <1>7. Said(reply, "outcome") = {"allow"}
    BY <1>1, <1>2, <1>6
  <1>8. "critical" \notin Said(reply, "risk_level")
    BY <1>3, <1>4, <1>5, <1>6
  <1>9. ASSUME "high" \in Said(reply, "risk_level")
        PROVE  Said(reply, "user_authorization") \in {{"medium"}, {"high"}}
    <2>1. AuthorizationOf(reply) \in {"medium", "high"}
      BY <1>1, <1>3, <1>4, <1>5, <1>6, <1>9 DEF WellFormed, Authorizations
    <2>2. AuthorizationOf(reply) = f("user_authorization") /\ f("user_authorization") # Absent
      BY <2>1 DEF AuthorizationOf, f
    <2> QED BY <1>2, <2>1, <2>2
  <1> QED BY <1>7, <1>8, <1>9
-------------------------------------------------------------------------------
(* The state has the types the module gives it (TypeOK).                   *)
THEOREM TypeCorrect == Spec => []TypeOK
  <1>1. Init => OneWriter
    BY OneWriterInit
  <1>2. OneWriter /\ [Next]_vars => OneWriter'
    BY OneWriterStep
  <1>3. OneWriter => TypeOK
    BY DEF OneWriter
  <1> QED BY <1>1, <1>2, <1>3, PTL DEF Spec

(* However many reviews run and end in whatever way, the trunk has at most *)
(* one that writes to it and is taken exactly while it has one             *)
(* (guardian-session.ts:203-205, 273-277).                                 *)
THEOREM TrunkIsHeldByOne == Spec => []TrunkHeldByOne
  <1>1. Init => OneWriter
    BY OneWriterInit
  <1>2. OneWriter /\ [Next]_vars => OneWriter'
    BY OneWriterStep
  <1>3. OneWriter => TrunkHeldByOne
    BY DEF OneWriter
  <1> QED BY <1>1, <1>2, <1>3, PTL DEF Spec

(* Whatever is appended, dropped from the head, displaced or reset, and    *)
(* whichever reviews fail in between, a Delta prompt leaves out only what  *)
(* stood before a committed prompt of its trunk, to be offered or crowded  *)
(* out of the window (guardian-session.ts:212-236, register.ts:207-229).   *)
THEOREM DeltasSkipNothing == Spec => []NothingSkipped
  <1>1. Init => OneWriter /\ Told
    BY OneWriterInit, ToldInit
  <1>2. OneWriter /\ Told /\ [Next]_vars => (OneWriter /\ Told)'
    BY OneWriterStep, ToldStep
  <1>3. Told => NothingSkipped
    BY DEF Told, LeaseTold, NothingSkipped
  <1> QED BY <1>1, <1>2, <1>3, PTL DEF Spec

(* Every verdict is one the whole reply supports, from tools that closed,  *)
(* and the trunk remembers such reviews only, each once                    *)
(* (auto-reviewer.ts:486-489, 515-522, auto-review-request.ts:294-397).    *)
THEOREM VerdictsAreAlwaysEarned == Spec => []VerdictsAreEarned
  <1>1. Init => OneWriter /\ VerdictsKept
    BY OneWriterInit, KeptInit
  <1>2. OneWriter /\ VerdictsKept /\ [Next]_vars => (OneWriter /\ VerdictsKept)'
    BY OneWriterStep, VerdictsStep DEF OneWriter
  <1>3. OneWriter /\ VerdictsKept => VerdictsAreEarned
    <2> SUFFICES ASSUME OneWriter, VerdictsKept PROVE VerdictsAreEarned
      OBVIOUS
    <2>1. CleanupDecides
      <3>1. \A r \in Reviews : review[r].at = "settled" =>
              /\ review[r].runtime # "open"
              /\ review[r].outcome \in Verdicts => review[r].runtime = "closed"
        BY DEF VerdictsKept, AllSound, Sound
      <3>2. ASSUME trunk # NoTrunk
            PROVE  /\ \A i \in DOMAIN trunk.turns : review[trunk.turns[i].by].outcome \in Verdicts
                   /\ \A i, j \in DOMAIN trunk.turns :
                        trunk.turns[i].by = trunk.turns[j].by => i = j
        <4>1. Earned(trunk.turns, review)
          BY <3>2 DEF VerdictsKept, TurnsEarned
        <4>2. DOMAIN trunk.turns = 1..Len(trunk.turns)
          BY <4>1 DEF Earned
        <4> QED BY <4>1, <4>2 DEF Earned
      <3> QED BY <3>1, <3>2 DEF CleanupDecides
    <2>2. ApprovalIsUnambiguous
      <3>1. ASSUME NEW r \in Reviews, review[r].outcome = "approve"
            PROVE  /\ Said(review[r].reply, "outcome") = {"allow"}
                   /\ "critical" \notin Said(review[r].reply, "risk_level")
                   /\ "high" \in Said(review[r].reply, "risk_level") =>
                        Said(review[r].reply, "user_authorization") \in {{"medium"}, {"high"}}
        <4>1. Supported(review[r].reply)
          BY <3>1 DEF VerdictsKept, AllSound, Sound
        <4> QED BY <4>1, SupportSaid
      <3> QED BY <3>1 DEF ApprovalIsUnambiguous, Said
    <2> QED BY <2>1, <2>2 DEF VerdictsAreEarned
  <1> QED BY <1>1, <1>2, <1>3, PTL DEF Spec

(* A review that is aborted or out of time begins nothing more, and what   *)
(* it hears too late is no verdict (auto-reviewer.ts:381-383, 406-419,     *)
(* 534-536).                                                               *)
THEOREM DeadReviewsAlwaysStop == Spec => DeadReviewsStop
  <1>1. Init => OneWriter /\ VerdictsKept
    BY OneWriterInit, KeptInit
  <1>2. OneWriter /\ VerdictsKept /\ [Next]_vars => (OneWriter /\ VerdictsKept)'
    BY OneWriterStep, VerdictsStep DEF OneWriter
  <1>3. OneWriter /\ VerdictsKept /\ [Next]_vars =>
          \A r \in Reviews : review[r].aborted \/ review[r].expired =>
            /\ review'[r].at \in Opened \ {"closing"} => review'[r].at = review[r].at
            /\ review'[r].ending \in Verdicts => review[r].ending \in Verdicts
    BY VerdictsStep DEF OneWriter, Stops
  <1> QED BY <1>1, <1>2, <1>3, PTL DEF Spec, DeadReviewsStop
===============================================================================
