---------------------------- MODULE MCLlmBudget ----------------------------
(***************************************************************************)
(* An instance of the LLM budget for TLC: a process with more calls than   *)
(* slots beside another one, prices below, at and above the estimates,     *)
(* limits that one or two calls use up, a quota that fewer calls than      *)
(* there are pass, and one turn of the month.  The profile is the one with *)
(* a cache: the other only lacks the expiry and the blocked flag.          *)
(***************************************************************************)
EXTENDS LlmBudget, TLC

CONSTANTS c1, c2, c3, p1, p2

SomeCalls   == {c1, c2, c3}
MCProcessOf == c1 :> p1 @@ c2 :> p1 @@ c3 :> p2
Symmetry    == Permutations({c1, c2})
=============================================================================
