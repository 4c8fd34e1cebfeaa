---------------------------- MODULE CircuitHistory ----------------------------
(***************************************************************************)
(* The denial circuit run on its own against the whole history of review   *)
(* results it was told about: what the bounded window and the run counter  *)
(* remember is compared with what the full history says.                   *)
(***************************************************************************)
EXTENDS DenialCircuit

CONSTANT MaxResults  \* bound on the length of a checked history

VARIABLES circuit, history  \* history: every result so far, TRUE a denial

vars == <<circuit, history>>

Init == circuit = FreshCircuit /\ history = <<>>

Deny == /\ Len(history) < MaxResults
        /\ circuit' = RecordDenial(circuit)
        /\ history' = Append(history, TRUE)

Succeed == /\ Len(history) < MaxResults
           /\ circuit' = RecordSuccess(circuit)
           /\ history' = Append(history, FALSE)

(* beginTurn and invalidate replace the circuit instead of clearing fields. *)
Replace == circuit' = FreshCircuit /\ history' = <<>>

Next == Deny \/ Succeed \/ Replace

Spec == Init /\ [][Next]_vars
-------------------------------------------------------------------------------
(* The last n results of the history, oldest first. *)
LastResults(n) ==
  SubSeq(history, IF Len(history) > n THEN Len(history) - n + 1 ELSE 1, Len(history))

(* The run counter is the length of the trailing block of denials. *)
TrailingDenials ==
  Cardinality({i \in DOMAIN history : \A j \in i..Len(history) : history[j]})

(* What the circuit publishes as a pair (readout) is what the full history *)
(* says: the run is the trailing block of denials and the window is        *)
(* exactly the last WindowSize results, so no result is counted twice,     *)
(* lost early or kept too long at the window's limit.                      *)
ReadoutIsHistory ==
  /\ circuit.run = TrailingDenials
  /\ circuit.window = LastResults(WindowSize)

(* The gate and the counters are one fact (denial-circuit.ts:4-10): the    *)
(* circuit is open exactly when a threshold has been met at some denial    *)
(* of the current trailing run, and never across a success.                *)
OpenIffTripped ==
  circuit.open <=>
    \E n \in 1..TrailingDenials :
      LET upto == SubSeq(history, 1, Len(history) - TrailingDenials + n)
          from == IF Len(upto) > WindowSize THEN Len(upto) - WindowSize + 1 ELSE 1
      IN  n >= MaxConsecutive \/ Denials(SubSeq(upto, from, Len(upto))) >= MaxWindow

(* The bounded circuit is a function of the full history, its counters and *)
(* its gate alike (denial-circuit.ts:49-84).                               *)
CircuitTellsHistory == ReadoutIsHistory /\ OpenIffTripped
===============================================================================
