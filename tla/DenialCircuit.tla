---------------------------- MODULE DenialCircuit ----------------------------
(***************************************************************************)
(* The Engine's denial circuit (pi-safety/src/denial-circuit.ts): a run of *)
(* consecutive denials, or enough denials in a bounded window of recent    *)
(* review results, opens it; one non-denial closes it.  The three fields   *)
(* the source keeps in a closure are one record here, and each method of   *)
(* the DenialCircuit interface is an operator from record to record.       *)
(***************************************************************************)
EXTENDS Integers, Sequences, FiniteSets

CONSTANTS
  MaxConsecutive,  \* maxConsecutiveDenials
  WindowSize,      \* denialWindowSize
  MaxWindow        \* maxWindowDenials

ASSUME CircuitAssumption ==
  /\ MaxConsecutive \in Nat \ {0}
  /\ WindowSize \in Nat \ {0}
  /\ MaxWindow \in Nat \ {0}

Windows == UNION {[1..n -> BOOLEAN] : n \in 0..WindowSize}

Circuit == [window : Windows, run : Nat, open : BOOLEAN]

FreshCircuit == [window |-> <<>>, run |-> 0, open |-> FALSE]

(* recentDenials: the denials among the remembered results. *)
Denials(w) == Cardinality({i \in DOMAIN w : w[i]})

(* Mutant: the oldest result is never dropped. *)
GrowWindow(w, denied) == Append(w, denied)

(* recordWindow: push the result, then drop the oldest one over the bound. *)
PushWindow(w, denied) ==
  [i \in 1..(IF Len(w) < WindowSize THEN Len(w) + 1 ELSE WindowSize) |->
     LET j == IF Len(w) < WindowSize THEN i ELSE i + 1
     IN  IF j <= Len(w) THEN w[j] ELSE denied]

(* Mutant: one denial more than the thresholds say. *)
TripsLate(w, run) == run > MaxConsecutive \/ Denials(w) >= MaxWindow

Trips(w, run) == run >= MaxConsecutive \/ Denials(w) >= MaxWindow

RecordDenial(k) ==
  LET w == PushWindow(k.window, TRUE)
  IN  [window |-> w, run |-> k.run + 1, open |-> k.open \/ Trips(w, k.run + 1)]

RecordSuccess(k) ==
  [window |-> PushWindow(k.window, FALSE), run |-> 0, open |-> FALSE]
=============================================================================
