---------------------------- MODULE CreditLedger ----------------------------
(***************************************************************************)
(* What the credit subsystem promises, without decisions, requests or      *)
(* queries: every credit of every grant is free, held or spent.  Credits   *)
(* enter free when a grant is issued, move from free to held, and from     *)
(* held either back to free or on to spent.  Nothing else ever moves one:  *)
(* spent credit never returns and held credit is never held twice.         *)
(***************************************************************************)
EXTENDS Integers

CONSTANTS Grants, GrantTotal       \* GrantTotal[g]: the amount of grant g

VARIABLES free, held, spent        \* grant -> amount

ledger == <<free, held, spent>>

Amounts == [g \in Grants |-> 0 .. GrantTotal[g]]
Moves   == {m \in [Grants -> UNION {Amounts[g] : g \in Grants}] :
              \A g \in Grants : m[g] \in Amounts[g]}

Init ==
  /\ held = [g \in Grants |-> 0] /\ spent = [g \in Grants |-> 0]
  /\ free \in Moves /\ \A g \in Grants : free[g] \in {0, GrantTotal[g]}

(* A grant is issued, once. *)
Issue(g) ==
  /\ free[g] + held[g] + spent[g] = 0
  /\ free' = [free EXCEPT ![g] = GrantTotal[g]]
  /\ UNCHANGED <<held, spent>>

(* A decision takes m[g] of each grant. *)
Hold(m) ==
  /\ \A g \in Grants : m[g] <= free[g]
  /\ free' = [g \in Grants |-> free[g] - m[g]]
  /\ held' = [g \in Grants |-> held[g] + m[g]]
  /\ UNCHANGED spent

(* Holds of m[g] end; s[g] of it was spent and the rest is free again. *)
Settle(m, s) ==
  /\ \A g \in Grants : s[g] <= m[g] /\ m[g] <= held[g]
  /\ held'  = [g \in Grants |-> held[g] - m[g]]
  /\ spent' = [g \in Grants |-> spent[g] + s[g]]
  /\ free'  = [g \in Grants |-> free[g] + (m[g] - s[g])]

Next ==
  \/ \E g \in Grants : Issue(g)
  \/ \E m \in Moves : Hold(m)
  \/ \E m, s \in Moves : Settle(m, s)

Spec == Init /\ [][Next]_ledger
=============================================================================
