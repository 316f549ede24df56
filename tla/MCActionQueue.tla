--------------------------- MODULE MCActionQueue ----------------------------
(***************************************************************************)
(* An instance of the action queue for TLC: two actions, two workers and   *)
(* two requests in flight, one of which can lease, report and lease again  *)
(* between the read and the write of the other.                            *)
(***************************************************************************)
EXTENDS ActionQueue, TLC

CONSTANTS a1, a2, w1, w2, c1, c2

TwoActions  == {a1, a2}
Limits      == a1 :> 2 @@ a2 :> 1
Symmetric   == Permutations({w1, w2}) \cup Permutations({c1, c2})
=============================================================================
