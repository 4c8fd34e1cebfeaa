-------------------------------- MODULE MCSrt --------------------------------
(***************************************************************************)
(* Model-checking instance of SrtManager: two executions under different   *)
(* policies, an activation, a reset and a wait for idleness.               *)
(***************************************************************************)
EXTENDS SrtManager

CONSTANTS e1, e2, a1, r1, w1, p1, p2

Clients == {e1, e2, a1, r1, w1}
Kinds == [c \in Clients |-> CASE c = a1 -> "activate" [] c = r1 -> "reset"
                              [] c = w1 -> "wait" [] OTHER -> "execute"]
PolicyOfEach == [c \in Clients |-> IF c = e2 THEN p2 ELSE p1]
===============================================================================
