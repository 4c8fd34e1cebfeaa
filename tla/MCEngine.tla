------------------------------- MODULE MCEngine -------------------------------
(***************************************************************************)
(* Model-checking instances of the Engine and of its refinement of         *)
(* TurnContract.  Each .cfg picks what its question needs: turns that come *)
(* and go under an edit and an amendment (MCEngineTurns), or a turn whose  *)
(* mode and policy change under edits that fail natively (MCEngineModes).  *)
(***************************************************************************)
EXTENDS Engine, TLC

CONSTANTS c1, c2, a1, w1, w2, h1, x1

TwoCalls == {c1, c2}

narrow == [allow |-> {}, deny |-> {}]
shut == [allow |-> {}, deny |-> {w2}]
Narrow == {narrow}
NarrowAndShut == {narrow, shut}

auto(p) == [mode |-> "auto", policy |-> p, ready |-> TRUE]
yolo == [mode |-> "yolo", policy |-> narrow, ready |-> FALSE]
Steady == {auto(narrow)}
Shifting == {auto(narrow), auto(shut), yolo}

edit == [action |-> a1, owner |-> "sandbox-owned", plan |-> "capability",
         requested |-> {w1}, evidence |-> "low", root |-> w2]
plain == [edit EXCEPT !.requested = {w1, h1}, !.root = NoRoot]
amend == [action |-> a1, owner |-> "amendment", plan |-> "allow",
          requested |-> {NetAll}, evidence |-> "low", root |-> NoRoot]

Edits == {edit}
PlainAndAmend == {plain, amend}

Symm == Permutations(CallId)
===============================================================================
