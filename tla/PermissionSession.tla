--------------------------- MODULE PermissionSession ---------------------------
(***************************************************************************)
(* PermissionSession (pi-safety/src/permission-session.ts): generations,   *)
(* the turn and its nested levels, and the barriers of mode transitions,   *)
(* as operators from session to session; the code is a pure state machine. *)
(* The queue of mode mutations is in SafetyWiring, which runs them.        *)
(*                                                                         *)
(* A snapshot is known by the turn it was minted for: the code compares    *)
(* the objects, and each is minted for a turn id of its own.  The stack of *)
(* Engine turns the session is kept in step with is at the end.            *)
(***************************************************************************)
EXTENDS Integers, Sequences, SequencesExt

CONSTANTS
  MaxNestedTurnDepth,   \* maxNestedTurnDepth: 32
  Roots,                \* what a policy may let be written
  NoBase, NoSnapshot, NoEnvelope

ASSUME DepthAssumption == MaxNestedTurnDepth \in Nat \ {0}

NoTurn == 0
NoBarrier == 0
Modes == {"auto", "yolo"}
Bases == (SUBSET Roots) \cup {NoBase}

NewSession ==
  [generation |-> 0, phase |-> "idle", turns |-> 0, turn |-> NoTurn,
   snapshot |-> NoSnapshot, depth |-> 0, nested |-> <<>>, ceilings |-> <<>>,
   awaiting |-> FALSE, observed |-> FALSE, barriers |-> <<>>, inFlight |-> NoBarrier]

BumpGeneration(s) == [s EXCEPT !.generation = @ + 1]
AllocateTurnId(s) == [s EXCEPT !.turns = @ + 1]
MarkLifecycleEvent(s) == [s EXCEPT !.observed = TRUE]
ClearLifecycleEvents(s) == [s EXCEPT !.observed = FALSE]
SetSnapshot(s, snap) == [s EXCEPT !.snapshot = snap]
-------------------------------------------------------------------------------
BeginTurn(s, t) ==
  [s EXCEPT !.turn = t, !.phase = "active", !.depth = 1, !.awaiting = FALSE,
            !.nested = <<>>, !.ceilings = <<>>]

(* A level without a snapshot is a sentinel: nothing governs it.           *)
MayNest(s) ==
  s.phase = "active" /\ s.turn # NoTurn /\ s.depth < MaxNestedTurnDepth

BeginNestedTurn(s, snap, envelope) ==
  IF MayNest(s)
  THEN [s EXCEPT !.depth = @ + 1, !.awaiting = FALSE,
                 !.nested = Append(@, snap), !.ceilings = Append(@, envelope)]
  ELSE s

FinishTurn(s) ==
  IF s.phase = "active"
  THEN [s EXCEPT !.snapshot = NoSnapshot, !.turn = NoTurn, !.phase = "between",
                 !.depth = 0]
  ELSE s

FinishNestedKeeping(s) ==  \* mutant: the ceiling of a closed level stays
  IF s.phase = "active" /\ s.depth > 1
  THEN [s EXCEPT !.depth = @ - 1, !.nested = Front(@)]
  ELSE FinishTurn(s)

FinishNestedTurn(s) ==
  IF s.phase = "active" /\ s.depth > 1
  THEN [s EXCEPT !.depth = @ - 1, !.nested = Front(@), !.ceilings = Front(@)]
  ELSE FinishTurn(s)

EndNotNoted(s) == s  \* mutant: the settled after a counted end finishes again
NoteEndAwaitingSettle(s) == [s EXCEPT !.awaiting = TRUE]
TakeEndAwaitingSettle(s) == [s EXCEPT !.awaiting = FALSE]
SettleBetween(s) == IF s.phase = "between" THEN [s EXCEPT !.phase = "idle"] ELSE s

ResetTurn(s) ==
  [s EXCEPT !.snapshot = NoSnapshot, !.turn = NoTurn, !.phase = "idle", !.depth = 0,
            !.awaiting = FALSE, !.nested = <<>>, !.ceilings = <<>>]

PastTheSentinel(s) ==  \* mutant: a level without a snapshot falls back to the turn's
  IF s.phase # "active" \/ s.turn = NoTurn THEN NoSnapshot
  ELSE IF s.nested # <<>> /\ Last(s.nested) # NoSnapshot THEN Last(s.nested)
  ELSE s.snapshot

(* The innermost level governs; the root only while its turn is the one    *)
(* that is open.                                                           *)
CurrentSnapshot(s) ==
  IF s.phase # "active" \/ s.turn = NoTurn THEN NoSnapshot
  ELSE IF s.nested # <<>> THEN Last(s.nested)
  ELSE IF s.snapshot # NoSnapshot /\ s.snapshot.turn = s.turn THEN s.snapshot
  ELSE NoSnapshot

AnySnapshot(s) ==
  IF CurrentSnapshot(s) # NoSnapshot THEN CurrentSnapshot(s) ELSE s.snapshot

ActiveNestedTurnHasSnapshot(s) == s.depth > 1 /\ Last(s.nested) # NoSnapshot

(* A mode applied at a step boundary reaches every level of the turn. An   *)
(* undefined base leaves each level its own.                               *)
Applied(snap, mode, ready, base) ==
  IF snap = NoSnapshot THEN snap
  ELSE [snap EXCEPT !.mode = mode, !.ready = ready,
                    !.base = IF base = NoBase THEN @ ELSE base]

RefreshSnapshots(s, mode, ready, base) ==
  IF s.phase # "active" THEN s
  ELSE [s EXCEPT !.snapshot = Applied(@, mode, ready, base),
                 !.nested = [i \in DOMAIN @ |-> Applied(@[i], mode, ready, base)]]
-------------------------------------------------------------------------------
(* A barrier is its index; it is settled once.                             *)
CreateBarrier(s) ==
  [s EXCEPT !.barriers = Append(@, "open"), !.inFlight = Len(s.barriers) + 1]

Settled(s, b, answer) ==
  [s EXCEPT !.barriers[b] = IF @ = "open" THEN answer ELSE @]

SettledIfReady(s, b, ready) ==  \* mutant: a barrier refused is left open
  IF ready THEN [Settled(s, b, "ready") EXCEPT !.inFlight = IF @ = b THEN NoBarrier ELSE @]
  ELSE s

SettleBarrier(s, b, ready) ==
  IF ready THEN [Settled(s, b, "ready") EXCEPT !.inFlight = IF @ = b THEN NoBarrier ELSE @]
  ELSE Settled(s, b, "refused")

CancelInFlightBarrier(s) ==
  IF s.inFlight = NoBarrier THEN s
  ELSE [Settled(s, s.inFlight, "refused") EXCEPT !.inFlight = NoBarrier]

ClearInFlightIfCurrent(s, b) ==
  [s EXCEPT !.inFlight = IF @ = b THEN NoBarrier ELSE @]
-------------------------------------------------------------------------------
(* PiSafetyRuntime (pi-safety/src/pi-safety.ts): the Engine turn that is   *)
(* live and the parent levels parked under it, as operators from runtime   *)
(* to runtime. A turn is the snapshot it was opened with; what an Engine   *)
(* does inside one is the module Engine.                                   *)

NewRuntime == [turn |-> NoSnapshot, levels |-> <<>>]

(* A root turn discards the levels that were parked.                       *)
BeginRootTurn(r, snap) == [turn |-> snap, levels |-> <<>>]

(* The child is built before the parent is parked.                         *)
OpenChildTurn(r, snap) == [turn |-> snap, levels |-> Append(r.levels, r.turn)]

CloseChildTurn(r) ==
  IF r.levels = <<>> THEN r
  ELSE [turn |-> Last(r.levels), levels |-> Front(r.levels)]

CloseRootTurn(r) == NewRuntime
InvalidateTurns(r) == NewRuntime

RefreshLiveTurn(r, mode, ready, base) ==  \* mutant: the parked parents keep their mode
  [r EXCEPT !.turn = Applied(@, mode, ready, base)]
RefreshTurns(r, mode, ready, base) ==
  [turn |-> Applied(r.turn, mode, ready, base),
   levels |-> [i \in DOMAIN r.levels |-> Applied(r.levels[i], mode, ready, base)]]
===============================================================================
