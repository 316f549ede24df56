----------------------------- MODULE MCJobQueue -----------------------------
(***************************************************************************)
(* An instance of the job queue for TLC: a batch of handlers that use      *)
(* their whole time outlasts the shorter lock timeout, as 10 or 25         *)
(* handlers of 300 s outlast 30 minutes, and fits in the longer one.       *)
(***************************************************************************)
EXTENDS JobQueue, TLC

CONSTANTS j1, j2, j3, p1, p2

ThreeJobs     == {j1, j2, j3}
ThreeAttempts == j1 :> 2 @@ j2 :> 2 @@ j3 :> 1
Priorities    == j1 :> 0 @@ j2 :> 1 @@ j3 :> 0
=============================================================================
