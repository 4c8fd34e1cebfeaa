---------------------------- MODULE GuardianSession ----------------------------
(***************************************************************************)
(* What consecutive guardian reviews share.  The evidence log              *)
(* (createGuardianEvidence in pi-safety/src/register.ts,                   *)
(* guardian-transcript.ts): append-only, with a second log for input that  *)
(* arrives before it, and the epoch that tells a reader when positions in  *)
(* it lost their meaning.  And GuardianReviewSessionManager                *)
(* (guardian-session.ts): the trunk, a conversation with the reviewer that *)
(* reviews of one identity continue, and the lease a review takes on it.   *)
(* A review that finds the trunk taken gets a fork: it reads the trunk's   *)
(* turns and writes none.  A prompt is Full, or on the trunk the Delta     *)
(* past the cursor; of either it carries a window.                         *)
(*                                                                         *)
(* An entry is an identity and says something; a turn is its size, the     *)
(* review it came from and the entries its prompt offered.  What messages  *)
(* say, and what a lease tells the metrics, are left out.                  *)
(***************************************************************************)
EXTENDS Integers, Sequences, FiniteSetsExt, Functions

CONSTANTS
  MaxRaw,              \* MAX_RAW_TRANSCRIPT_ENTRIES; the cap on characters
                       \* acts as this one does
  MaxRecent,           \* MAX_RECENT_ENTRIES
  MaxPairs, MaxSize,   \* MAX_HISTORY_PAIRS, MAX_HISTORY_CHARACTERS
  NoTrunk, NoCursor, NoLease

ASSUME SessionAssumption ==
  /\ MaxRaw \in Nat \ {0} /\ MaxRecent \in Nat \ {0}
  /\ MaxPairs \in Nat /\ MaxSize \in Nat

NewEvidence == [transcript |-> <<>>, fallback |-> <<>>, epoch |-> 0]

(* appendGuardianTranscript: over the cap the head goes.                   *)
Overflows(entries) == Len(entries) >= MaxRaw
Appended(entries, e) ==
  IF Overflows(entries) THEN Append(SubSeq(entries, Len(entries) - MaxRaw + 2, Len(entries)), e)
  ELSE Append(entries, e)

(* Mutant: dropping the head keeps the epoch.                              *)
SameEpoch(epoch, entries) == epoch

EpochAfter(epoch, entries) == IF Overflows(entries) THEN epoch + 1 ELSE epoch

AppendInput(ev, e) ==
  [ev EXCEPT !.fallback = Appended(@, e), !.epoch = EpochAfter(@, ev.fallback)]

AppendMessage(ev, e) ==
  [ev EXCEPT !.transcript = Appended(@, e), !.epoch = EpochAfter(@, ev.transcript)]

ResetEvidence(ev) == [NewEvidence EXCEPT !.epoch = ev.epoch + 1]

(* currentRaw, which writes when it reads: once there is a transcript the  *)
(* input log is displaced for good.                                        *)
Consulted(ev) ==
  IF ev.transcript # <<>> /\ ev.fallback # <<>>
  THEN [ev EXCEPT !.fallback = <<>>, !.epoch = @ + 1]
  ELSE ev

Raw(ev) == IF ev.transcript # <<>> THEN ev.transcript ELSE ev.fallback
-------------------------------------------------------------------------------
(* id tells trunks apart as identity does; spanned is the history of all   *)
(* the entries the windows of its committed prompts were cut from.         *)
NewTrunk(id, key) ==
  [id |-> id, key |-> key, active |-> FALSE, turns |-> <<>>, cursor |-> NoCursor,
   spanned |-> {}]

(* trimTurns: the newest turns that fit, by number and by size; if some    *)
(* fit, fewer do.                                                          *)
SizeOf(turns) == FoldFunction(LAMBDA t, sum : t.size + sum, 0, turns)
Newest(turns, n) == SubSeq(turns, Len(turns) - n + 1, Len(turns))
Trimmed(turns) ==
  LET fitting == {n \in 1..Len(turns) : n <= MaxPairs /\ SizeOf(Newest(turns, n)) <= MaxSize}
  IN Newest(turns, Cardinality(fitting))
-------------------------------------------------------------------------------
(* open: the trunk a review works on, and whether its prompt may be Delta. *)
TrunkFor(trunk, key, id) ==
  IF trunk = NoTrunk THEN NewTrunk(id, key)
  ELSE IF trunk.key # key THEN NewTrunk(id, key)
  ELSE trunk

Held(t) == [t EXCEPT !.active = TRUE]

MayDelta(t, raw, epoch) ==
  /\ ~t.active
  /\ t.cursor # NoCursor
  /\ t.cursor.epoch = epoch /\ t.cursor.seen <= Len(raw)

From(t, raw, epoch) == IF MayDelta(t, raw, epoch) THEN t.cursor.seen ELSE 0
Past(raw, from) == Range(SubSeq(raw, from + 1, Len(raw)))

(* boundGuardianTranscript: the newest entry, older ones as long as their  *)
(* number and the characters of their kind allow, and the first of the     *)
(* user's.                                                                 *)
Windows(raw, from) ==
  {w \in SUBSET Past(raw, from) :
     /\ Cardinality(w) <= MaxRecent + 1
     /\ from < Len(raw) => raw[Len(raw)] \in w}

(* The prompt spans what the cursor leaves and offers a window of it;      *)
(* `left` is what the cursor leaves out, `spanned` what the trunk's        *)
(* prompts spanned by then.  The new cursor is at the end of the log.      *)
Lease(t, raw, epoch, window) ==
  LET from == From(t, raw, epoch) IN
  [trunk |-> t.id, fork |-> t.active, spans |-> Past(raw, from), offers |-> window,
   left |-> Range(SubSeq(raw, 1, from)), spanned |-> t.spanned,
   cursor |-> [epoch |-> epoch, seen |-> Len(raw)]]

Cursor == [epoch : Nat, seen : Nat]
LeaseOf(trunks) ==
  [trunk : trunks, fork : BOOLEAN, spans : SUBSET Nat, offers : SUBSET Nat,
   left : SUBSET Nat, spanned : SUBSET Nat, cursor : Cursor]

Owns(trunk, lease) == trunk # NoTrunk /\ ~lease.fork /\ trunk.id = lease.trunk

Turn(review, size, offers) == [by |-> review, size |-> size, offers |-> offers]

CommitTurn(trunk, lease, turn) ==
  IF ~Owns(trunk, lease) THEN trunk
  ELSE [trunk EXCEPT !.turns = Trimmed(Append(@, turn)), !.cursor = lease.cursor,
                     !.spanned = @ \cup lease.spans]

(* Mutant: whoever releases frees the trunk.                               *)
FreesAnyway(trunk, lease) ==
  IF trunk # NoTrunk THEN [trunk EXCEPT !.active = FALSE] ELSE trunk

Release(trunk, lease) ==
  IF Owns(trunk, lease) THEN [trunk EXCEPT !.active = FALSE] ELSE trunk
===============================================================================
