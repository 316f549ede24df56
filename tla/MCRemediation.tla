--------------------------- MODULE MCRemediation ---------------------------
(***************************************************************************)
(* An instance of the remediation workflow for TLC: two requests for one   *)
(* finding, one of which the policy escalates although the hard-limit      *)
(* sweep counts it as safe, and two workers.                               *)
(***************************************************************************)
EXTENDS RemediationWorkflow, TLC

CONSTANTS r1, r2, w1, w2, f1, nofinding

SameFinding  == r1 :> f1 @@ r2 :> f1
SomeWorkers  == {w1, w2}
Symmetry     == Permutations(SomeWorkers)
=============================================================================
