------------------------------- MODULE MCWiring -------------------------------
(***************************************************************************)
(* Model-checking instances of SafetyWiring: a config with a sandbox that  *)
(* must be drained before a delegation, and one that enables no sandbox.   *)
(***************************************************************************)
EXTENDS SafetyWiring

CONSTANTS boxed, bare, r1, r2

Scenario(a, t, e, f, dies, c, cold) ==
  [agents |-> a, turns |-> t, events |-> e, faults |-> f, leaks |-> dies, first |-> c,
   cold |-> cold]

(* Nesting past its limit, with agents that die; nested agents beside two  *)
(* events of the user; and awaits that fail, after and before a first      *)
(* session_start.                                                          *)
DeepOrFailing ==
  {Scenario(3, 3, 1, 0, TRUE, boxed, FALSE), Scenario(2, 2, 2, 0, FALSE, boxed, FALSE),
   Scenario(1, 1, 2, 2, FALSE, boxed, FALSE), Scenario(1, 1, 2, 1, FALSE, NoConfig, TRUE)}

ColdShutdown == {Scenario(1, 1, 1, 0, FALSE, boxed, TRUE)}

BasesOfEach == [c \in Configs |-> IF c = boxed THEN {r1, r2} ELSE NoBase]
===============================================================================
