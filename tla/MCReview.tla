------------------------------- MODULE MCReview -------------------------------
(***************************************************************************)
(* Model-checking instances of AutoReview: replies that agree with         *)
(* themselves and replies that do not.                                     *)
(***************************************************************************)
EXTENDS AutoReview

member(k, v) == [key |-> k, value |-> v]
reply(w, ms) == [wrap |-> w, members |-> ms]

twoFaced == reply("prose", <<member("outcome", "deny"), member("outcome", "allow")>>)
softened == reply("bare", <<member("outcome", "allow"), member("risk_level", "critical"),
                            member("risk_level", "low")>>)
highRisk == reply("bare", <<member("outcome", "allow"), member("risk_level", "high")>>)
authorized == reply("prose", <<member("risk_level", "high"), member("outcome", "allow"),
                               member("user_authorization", "medium")>>)
History(m, n, a, t, ks) ==
  [messages |-> m, resets |-> n, attempts |-> a, rounds |-> t, keys |-> ks]

(* A log that grows past its cap; trunks replaced and dropped under the    *)
(* reviews that hold them; reviews that retry and use tools.               *)
ThreeHistories ==
  {History(3, 0, 1, 0, {"main"}), History(0, 1, 1, 0, {"main", "other"}),
   History(0, 0, 2, 1, {"main"})}

AllReplies == {twoFaced, softened, highRisk, authorized}
===============================================================================
