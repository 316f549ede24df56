--------------------------- MODULE MCCostRecords ----------------------------
(***************************************************************************)
(* Two sessions on the record of day 0.  Sessions meet in one record only: *)
(* locks, allocations and status are the record's own.  A day stands for   *)
(* the steps between the windows of the code: 7 days are ingested, 30 are  *)
(* attributed, a cost is final after 2, so that final costs are ingested   *)
(* again; retention ends inside what a backfill can reach.  The rules      *)
(* allot the cost, or a fixed amount that the smaller cost falls short of. *)
(***************************************************************************)
EXTENDS CostRecords

CONSTANTS c1, s1, s2

FirstDay  == [r \in Records |-> 0]
RulesOfMC == {[r \in Records |-> 0], [r \in Records |-> 2]}
=============================================================================
