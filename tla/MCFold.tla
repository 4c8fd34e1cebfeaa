-------------------------------- MODULE MCFold --------------------------------
(***************************************************************************)
(* TLC instance of StepGroupFold: two calls of a tool whose renderer is    *)
(* wrapped and one of a tool whose renderer is not, in a new session and   *)
(* in one that is resumed after two calls and their results.               *)
(***************************************************************************)
EXTENDS StepGroupFold

CONSTANTS r1, r2, b1

ThreeTools == <<r1, r2, b1>>
NameOf == (r1 :> "read") @@ (r2 :> "read") @@ (b1 :> "bash")

empty == <<>>
resumed == << User, Assistant(<<"live", 1>>, <<Thinking, Call(r1), Call(r2)>>, FALSE),
              Result(r1, "plain"), Result(r2, "plain") >>

(* What each is told of, and what the user does meanwhile.                 *)
ThreeSessions == {[log |-> empty, events |-> 4, steps |-> 3],
                  [log |-> resumed, events |-> 3, steps |-> 3],
                  [log |-> resumed, events |-> 4, steps |-> 0]}
===============================================================================
