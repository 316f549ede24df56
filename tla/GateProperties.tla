--------------------------- MODULE GateProperties ---------------------------
(***************************************************************************)
(* What the gate and the handlers of reservations must keep true together. *)
(***************************************************************************)
EXTENDS EnforcementGate

Months == 0 .. (MaxTime \div MonthLength)

(***************************************************************************)
(* The limit of a project's budget bounds what the whole tenant reserves   *)
(* in a month: a step that reserves more leaves the month's total within   *)
(* the limit that the request it answers has read.  Concurrent requests,   *)
(* settlements between the reads, raised limits and an evaluation that     *)
(* straddles the end of the month included (evaluate_gate takes its sums   *)
(* for the month of `now`, and the row is dated when it is inserted).      *)
(***************************************************************************)
WithinLimit(m) ==
  \E r \in Requests :
     At(r, "persist") /\ gate[r].limit # Unbounded /\ ReservedAlloc(m)' <= gate[r].limit

NoOvercommit ==
  [][\A m \in Months : ReservedAlloc(m)' > ReservedAlloc(m) => WithinLimit(m)]_vars

(***************************************************************************)
(* The same for the plan and the enterprise ceilings, which bound          *)
(* allocation and credit together.                                         *)
(***************************************************************************)
Reserved(m) == ReservedAlloc(m) + ReservedCredit(m)

CeilingsHold ==
  [][\A m \in Months : Reserved(m)' > Reserved(m) =>
       \E r \in Requests : /\ At(r, "persist")
                           /\ Fits(Reserved(m)', gate[r].policy.planCeiling)
                           /\ Fits(Reserved(m)', gate[r].policy.enterpriseCeiling)]_vars

(***************************************************************************)
(* Credit is neither made nor lost: what a grant has left, what active     *)
(* allocation rows hold of it and what settled ones consumed add up to its *)
(* amount, through partial draws, releases, batches and clamping.          *)
(***************************************************************************)
Held(g)  == Total([k \in Keys |-> IF hold[k][g].active THEN hold[k][g].reserved ELSE 0])
Spent(g) == Total([k \in Keys |-> IF hold[k][g].active THEN 0 ELSE hold[k][g].consumed])

CreditConserved ==
  \A g \in Grants :
     grant[g].remaining + Held(g) + Spent(g)
        = IF grant[g].issued THEN GrantInfo[g].total ELSE 0

(***************************************************************************)
(* The credit of a standing decision is exactly what its allocation rows   *)
(* hold, and a decision that does not stand holds nothing.  A settlement   *)
(* therefore never meets "missing allocation rows" or "settlement drift",  *)
(* which would fail not only it but every sweep that picks the decision.   *)
(***************************************************************************)
HoldsBackDecisions ==
  \A k \in Keys : Total(ActiveHolds(k)) = IF decision[k].active THEN decision[k].credit ELSE 0

(***************************************************************************)
(* A request is refused for lack of credit headroom it had been promised   *)
(* only if a grant expired while it was evaluated: concurrent settlements  *)
(* and evaluations never take a grant from under it.                       *)
(***************************************************************************)
ShortOnlyOnExpiry ==
  \A r \in Requests : gate[r].reply = "short" =>
     \E g \in Grants : gate[r].at < GrantInfo[g].expires /\ GrantInfo[g].expires <= now

(***************************************************************************)
(* The decision a call answers with is the one recorded under its key, for *)
(* good: two calls, a retry or a fail-safe path racing the evaluation it   *)
(* gave up on never tell the client different things.                      *)
(***************************************************************************)
RepliesAreDurable ==
  \A r \in Requests : gate[r].reply \in Outcomes => decision[Key(r)].outcome = gate[r].reply

(***************************************************************************)
(* An approval that was denied or expired leaves nothing reserved and no   *)
(* token was or will be spent on it, whichever of review, sweep and        *)
(* reconciliation came first.  (What was reconciled before the review is   *)
(* spent: reconcile_reservation does not ask whether it was approved.)     *)
(***************************************************************************)
RefusedHoldsNothing ==
  \A k \in Keys : approval[k].status \in {"DENIED", "EXPIRED"} =>
     /\ ~decision[k].active /\ decision[k].alloc + decision[k].credit = 0
     /\ \A g \in Grants : ~hold[k][g].active
     /\ ~approval[k].consumed

(***************************************************************************)
(* A reservation is settled once: when it has been given up it never       *)
(* stands again, and what its rows consumed and released stays as it is.   *)
(***************************************************************************)
SettlementIsFinal ==
  [][\A k \in Keys : (Recorded(k) /\ ~decision[k].active) =>
       /\ ~decision[k].active' /\ decision[k].spent' = decision[k].spent
       /\ hold[k]' = hold[k]]_vars

(***************************************************************************)
(* What a reconciliation says it consumed is what left the grants: the     *)
(* decision's record and its allocation rows agree, and only a reconciled  *)
(* decision has consumed anything.                                         *)
(***************************************************************************)
SpendMatchesRows ==
  \A k \in Keys :
     /\ decision[k].spent = Total([g \in Grants |-> hold[k][g].consumed])
     /\ decision[k].spent > 0 => decision[k].settled = "reconciled"

(***************************************************************************)
(* The allocation rows and grants implement the ledger of credits.         *)
(***************************************************************************)
Ledger == INSTANCE CreditLedger WITH
            GrantTotal <- [g \in Grants |-> GrantInfo[g].total],
            free  <- [g \in Grants |-> grant[g].remaining],
            held  <- [g \in Grants |-> Held(g)],
            spent <- [g \in Grants |-> Spent(g)]

ImplementsLedger == Ledger!Spec

-----------------------------------------------------------------------------
(***************************************************************************)
(* Fairness.  The event loop runs every call on, or the call's time limit  *)
(* cuts its evaluation off; a wait for the row lock has a limit of its     *)
(* own; the reconciliation worker is scheduled periodically.  Nothing is   *)
(* assumed of clients, reviewers or operators.                             *)
(***************************************************************************)
FairGate ==
  /\ Spec
  /\ \A r \in Requests : WF_vars(EvaluationFails(r) \/ Evaluation(r))
  /\ WF_vars(SweepSome /\ UNCHANGED gateVars)

(***************************************************************************)
(* Every call is answered, even when it waits for a policy row that a call *)
(* keeps locked through its fail-safe path.                                *)
(***************************************************************************)
EveryCallAnswered == <>(\A r \in Requests : At(r, "done"))

(***************************************************************************)
(* A reservation nobody settles does not stand for ever: once overdue it   *)
(* is released, though sweeps are limited and take part of what is overdue *)
(* and one decision that cannot be settled fails all of its batch.         *)
(***************************************************************************)
OverdueReleased == \A k \in Keys : Overdue(k) ~> ~decision[k].active
=============================================================================
