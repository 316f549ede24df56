---------------------------- MODULE Reservations ----------------------------
(***************************************************************************)
(* The tables of the enforcement control plane for one tenant, and the     *)
(* handlers that act on a decision once it is recorded: approvals, the     *)
(* approval token, reconciliation, the sweep of overdue reservations, and  *)
(* the upkeep of budgets and credit grants.                                *)
(*                                                                         *)
(* Each handler is one step.  It loads the rows it changes FOR UPDATE and  *)
(* commits once, so no other transaction sees or changes them in between.  *)
(* How a decision comes to be recorded is not one step: EnforcementGate.   *)
(***************************************************************************)
EXTENDS EntitlementWaterfall, Totals

CONSTANTS
  Keys,          \* idempotency keys; at most one decision row each (unique index)
  Projects,      \* project scopes
  Grants,        \* credit grants that exist or may be created
  GrantInfo,     \* their fixed columns: pool, scope, total, expires (past MaxTime: never)
                 \* and created, the order of creation
  IssuedAtStart, \* the grants that exist initially
  BudgetLimits,  \* the limits an operator may set (Unbounded: no active row)
  Actuals,       \* actual monthly costs reported to reconciliation
  MaxTime,       \* bound on the clock
  MonthLength,   \* ticks in a calendar month
  ApprovalTtl,   \* life of an approval request, and of the token it issues
  OverdueAge,    \* age past which a reservation is swept
  SweepLimit     \* most decisions one sweep releases

Scopes == Projects \cup {"default"}
Pools  == {"RESERVED", "EMERGENCY"}

ASSUME ReservationConstants ==
  /\ IsFiniteSet(Keys) /\ IsFiniteSet(Grants)
  /\ Projects # {} /\ "default" \notin Projects
  /\ GrantInfo \in [Grants -> [pool : Pools, scope : Scopes, total : Nat \ {0},
                               expires : Nat, created : Nat]]
  /\ \A g, h \in Grants : GrantInfo[g].created = GrantInfo[h].created => g = h
  /\ IssuedAtStart \subseteq Grants
  /\ BudgetLimits \subseteq Headrooms /\ Actuals \subseteq Nat
  /\ MaxTime \in Nat /\ MonthLength \in Nat \ {0} /\ ApprovalTtl \in Nat
  /\ OverdueAge \in Nat /\ SweepLimit \in Nat \ {0}

VARIABLES
  now,       \* the clock
  budget,    \* scope -> monthly limit of its active row, or Unbounded
  grant,     \* grant -> its row
  decision,  \* key -> the decision recorded under it
  hold,      \* key -> grant -> the credit reservation allocation row
  approval   \* key -> the approval request of that decision

tables == <<now, budget, grant, decision, hold, approval>>

GrantRows    == [issued : BOOLEAN, remaining : Nat, active : BOOLEAN]
HoldRows     == [reserved : Nat, consumed : Nat, released : Nat, active : BOOLEAN]
Settlements  == {"open", "reconciled", "swept", "denied", "expired"}
DecisionRows == [outcome : Outcomes \cup {"NONE"}, project : Projects, alloc : Nat,
                 credit : Nat, active : BOOLEAN, created : Nat, settled : Settlements,
                 spent : Nat]
ApprovalRows == [status : {"NONE", "PENDING", "APPROVED", "DENIED", "EXPIRED"},
                 expires : Nat, consumed : BOOLEAN]

NoHold     == [reserved |-> 0, consumed |-> 0, released |-> 0, active |-> FALSE]
NoApproval == [status |-> "NONE", expires |-> 0, consumed |-> FALSE]
NoDecision == [outcome |-> "NONE", project |-> CHOOSE p \in Projects : TRUE, alloc |-> 0,
               credit |-> 0, active |-> FALSE, created |-> 0, settled |-> "open",
               spent |-> 0]

Recorded(k) == decision[k].outcome # "NONE"

TablesTypeOK ==
  /\ now \in Nat
  /\ budget \in [Scopes -> Headrooms]
  /\ grant \in [Grants -> GrantRows]
  /\ decision \in [Keys -> DecisionRows]
  /\ hold \in [Keys -> [Grants -> HoldRows]]
  /\ approval \in [Keys -> ApprovalRows]

TablesInit ==
  /\ now = 0
  /\ budget \in [Scopes -> BudgetLimits]
  /\ grant = [g \in Grants |-> [issued    |-> g \in IssuedAtStart,
                                remaining |-> IF g \in IssuedAtStart THEN GrantInfo[g].total
                                              ELSE 0,
                                active    |-> g \in IssuedAtStart]]
  /\ decision = [k \in Keys |-> NoDecision]
  /\ hold = [k \in Keys |-> [g \in Grants |-> NoHold]]
  /\ approval = [k \in Keys |-> NoApproval]

-----------------------------------------------------------------------------
(* What the queries return. *)

Month(time) == time \div MonthLength

CountsIn(k, m) == decision[k].active /\ Month(decision[k].created) = m

(* The two sums of get_reserved_totals: over the whole tenant, for month m. *)
ReservedAlloc(m) ==
  Total([k \in Keys |-> IF CountsIn(k, m) THEN decision[k].alloc ELSE 0])
ReservedCredit(m) ==
  Total([k \in Keys |-> IF CountsIn(k, m) THEN decision[k].credit ELSE 0])

(* The project's own active budget, else the tenant's default one. *)
EffectiveLimit(p) == IF budget[p] # Unbounded THEN budget[p] ELSE budget["default"]

NotExpired(g, at) == at < GrantInfo[g].expires

(* The grants of a pool a request of project p may draw on at time `at`. *)
Drawable(pool, p, at) ==
  {g \in Grants : /\ GrantInfo[g].pool = pool
                  /\ grant[g].active /\ NotExpired(g, at)
                  /\ pool = "RESERVED" => GrantInfo[g].scope \in {p, "default"}}

GrantHeadroom(pool, p, at) ==
  Total([g \in Drawable(pool, p, at) |-> grant[g].remaining])

(* All decisions' reserved credit, and all of it that allocation rows back. *)
DecisionCredit == Total([k \in Keys |-> IF decision[k].active THEN decision[k].credit ELSE 0])

ActiveHolds(k) == [g \in Grants |-> IF hold[k][g].active THEN hold[k][g].reserved ELSE 0]
MappedCredit   == Total([k \in Keys |-> Total(ActiveHolds(k))])

-----------------------------------------------------------------------------
(***************************************************************************)
(* Grants are drawn on in a fixed order: reserved before emergency; in the *)
(* reserved pool the project's own before the default scope's; then the    *)
(* earliest expiry, then the oldest.                                       *)
(***************************************************************************)
Precedes(g, h, p) ==
  LET a == GrantInfo[g]
      b == GrantInfo[h]
      shared(i) == i.pool = "RESERVED" /\ i.scope # p
  IN  IF a.pool # b.pool THEN a.pool = "RESERVED"
      ELSE IF shared(a) # shared(b) THEN shared(b)
      ELSE \/ a.expires < b.expires
           \/ a.expires = b.expires /\ a.created < b.created

(* Draw as it would be without the lower bound of zero. *)
Draw_Unclamped(available, need, p) ==
  [g \in Grants |->
     Least(available[g],
           need - Total([h \in {i \in Grants : Precedes(i, g, p)} |-> available[h]]))]

(* Taking `need` from the amounts available, in that order, greedily. *)
Draw(available, need, p) ==
  [g \in Grants |->
     Least(available[g],
           Positive(need - Total([h \in {i \in Grants : Precedes(i, g, p)} |-> available[h]])))]

(* reserve_credit_from_grants: what it takes from each grant of the pool. *)
ReserveFrom(pool, p, at, need) ==
  Draw([g \in Grants |-> IF g \in Drawable(pool, p, at) THEN grant[g].remaining ELSE 0],
       need, p)

(***************************************************************************)
(* Recording a decision with its credit drawn, in one transaction.         *)
(***************************************************************************)
DrawnGrant(g, amount) ==
  [grant[g] EXCEPT !.remaining = @ - amount, !.active = grant[g].remaining > amount]

NewHold(amount) == [NoHold EXCEPT !.reserved = amount, !.active = TRUE]

Record(k, row, drawn, request) ==
  /\ decision' = [decision EXCEPT ![k] = row]
  /\ hold' = [hold EXCEPT ![k] = [g \in Grants |-> IF drawn[g] > 0 THEN NewHold(drawn[g])
                                                   ELSE NoHold]]
  /\ grant' = [g \in Grants |-> IF drawn[g] > 0 THEN DrawnGrant(g, drawn[g]) ELSE grant[g]]
  /\ approval' = [approval EXCEPT ![k] = request]
  /\ UNCHANGED <<now, budget>>

NewApproval == [NoApproval EXCEPT !.status = "PENDING", !.expires = now + ApprovalTtl]

-----------------------------------------------------------------------------
(***************************************************************************)
(* settle_credit_reservations_for_decision, for every decision of ks:      *)
(* `spend` of its credit is consumed, the rest goes back to the grants.    *)
(* It fails, and with it the transaction, on a decision whose credit its   *)
(* active allocation rows do not cover.                                    *)
(***************************************************************************)
Settleable(k) ==
  decision[k].credit > 0 =>
     /\ \E g \in Grants : hold[k][g].active
     /\ Total(ActiveHolds(k)) >= decision[k].credit

Spending(k, spend) == Least(spend, decision[k].credit)

Consumed(k, spend) == Draw(ActiveHolds(k), Spending(k, spend), decision[k].project)

Released_Everything(k, spend) == ActiveHolds(k)
Released(k, spend) ==
  Draw([g \in Grants |-> ActiveHolds(k)[g] - Consumed(k, spend)[g]],
       decision[k].credit - Spending(k, spend), decision[k].project)

SettledHold_StaysActive(k, g, spend) ==
  [hold[k][g] EXCEPT !.consumed = Consumed(k, spend)[g], !.released = Released(k, spend)[g]]
SettledHold(k, g, spend) ==
  [hold[k][g] EXCEPT !.consumed = Consumed(k, spend)[g], !.released = Released(k, spend)[g],
                     !.active = FALSE]

(* The grant after `amount` came back to it: usable again unless expired. *)
RefundedGrant_ReturnsAll(g, amount) ==
  [grant[g] EXCEPT !.remaining = GrantInfo[g].total, !.active = NotExpired(g, now)]
RefundedGrant(g, amount) ==
  LET left == Least(grant[g].remaining + amount, GrantInfo[g].total)
  IN  [grant[g] EXCEPT !.remaining = left, !.active = left > 0 /\ NotExpired(g, now)]

Settle(ks, spend) ==
  LET paying     == {k \in ks : decision[k].credit > 0}
      touched(g) == \E k \in paying : hold[k][g].active
      refund(g)  == Total([k \in paying |-> Released(k, spend)[g]])
  IN  /\ \A k \in ks : Settleable(k)
      /\ hold' = [k \in Keys |-> [g \in Grants |->
                    IF k \in paying /\ hold[k][g].active THEN SettledHold(k, g, spend)
                    ELSE hold[k][g]]]
      /\ grant' = [g \in Grants |-> IF touched(g) THEN RefundedGrant(g, refund(g))
                                    ELSE grant[g]]

(* The row of a decision whose reservation is given up. *)
ClosedRow_RecordsAsked(k, why, spend) ==
  [decision[k] EXCEPT !.active = FALSE, !.alloc = 0, !.credit = 0,
                      !.settled = IF @ = "open" THEN why ELSE @, !.spent = @ + spend]
ClosedRow(k, why, spend) ==
  [decision[k] EXCEPT !.active = FALSE, !.alloc = 0, !.credit = 0,
                      !.settled = IF @ = "open" THEN why ELSE @,
                      !.spent = @ + Spending(k, spend)]

Close(ks, why, spend) ==
  /\ Settle(ks, spend)
  /\ decision' = [k \in Keys |-> IF k \in ks THEN ClosedRow(k, why, spend) ELSE decision[k]]

-----------------------------------------------------------------------------
(* The handlers. *)

(* create_or_get_approval_request, for a decision that has none yet. *)
RequestApproval(k) ==
  /\ decision[k].outcome = "REQUIRE_APPROVAL" /\ approval[k].status = "NONE"
  /\ approval' = [approval EXCEPT ![k] = NewApproval]
  /\ UNCHANGED <<now, budget, grant, decision, hold>>

(* Approve as it would be if an approval renewed the reservation. *)
Approve_Reactivates(k) ==
  /\ approval[k].status = "PENDING" /\ now < approval[k].expires
  /\ approval' = [approval EXCEPT ![k].status = "APPROVED", ![k].expires = now + ApprovalTtl]
  /\ decision' = [decision EXCEPT ![k].active = TRUE]
  /\ UNCHANGED <<now, budget, grant, hold>>

(* approve_request in time: the token it issues lives ApprovalTtl. *)
Approve(k) ==
  /\ approval[k].status = "PENDING" /\ now < approval[k].expires
  /\ approval' = [approval EXCEPT ![k].status = "APPROVED", ![k].expires = now + ApprovalTtl]
  /\ UNCHANGED <<now, budget, grant, decision, hold>>

(* approve_request too late: the request expires and the reservation goes. *)
ExpireOnReview_KeepsReservation(k) ==
  /\ approval[k].status = "PENDING" /\ approval[k].expires <= now
  /\ approval' = [approval EXCEPT ![k].status = "EXPIRED"]
  /\ UNCHANGED <<now, budget, grant, decision, hold>>
ExpireOnReview(k) ==
  /\ approval[k].status = "PENDING" /\ approval[k].expires <= now
  /\ approval' = [approval EXCEPT ![k].status = "EXPIRED"]
  /\ Close({k}, "expired", 0)
  /\ UNCHANGED <<now, budget>>

(* deny_request, which does not look at the expiry. *)
Deny(k) ==
  /\ approval[k].status = "PENDING"
  /\ approval' = [approval EXCEPT ![k].status = "DENIED"]
  /\ Close({k}, "denied", 0)
  /\ UNCHANGED <<now, budget>>

(* consume_approval_token, whether or not the reservation still stands. *)
ConsumeToken(k) ==
  /\ approval[k].status = "APPROVED" /\ now < approval[k].expires /\ ~approval[k].consumed
  /\ approval' = [approval EXCEPT ![k].consumed = TRUE]
  /\ UNCHANGED <<now, budget, grant, decision, hold>>

(* reconcile_reservation with the cost the provider billed. *)
Reconcile(k, actual) ==
  /\ decision[k].active
  /\ Close({k}, "reconciled", Positive(actual - decision[k].alloc))
  /\ UNCHANGED <<now, budget, approval>>

Overdue(k) == decision[k].active /\ decision[k].created + OverdueAge < now

(* The sweep as it would be if a batch had to release all that is overdue. *)
Sweep_AllOrNothing(batch) ==
  /\ batch # {} /\ Cardinality(batch) <= SweepLimit
  /\ batch = {k \in Keys : Overdue(k)}
  /\ Close(batch, "swept", 0)
  /\ UNCHANGED <<now, budget, approval>>

(***************************************************************************)
(* reconcile_overdue_reservations: SKIP LOCKED leaves out rows other       *)
(* transactions hold, so a batch is any part of the overdue reservations   *)
(* within the limit.  One decision that cannot be settled fails the batch. *)
(***************************************************************************)
Sweep(batch) ==
  /\ batch # {} /\ Cardinality(batch) <= SweepLimit
  /\ \A k \in batch : Overdue(k)
  /\ Close(batch, "swept", 0)
  /\ UNCHANGED <<now, budget, approval>>

UpsertBudget(scope, limit) ==
  /\ budget' = [budget EXCEPT ![scope] = limit]
  /\ UNCHANGED <<now, grant, decision, hold, approval>>

CreateGrant(g) ==
  /\ ~grant[g].issued /\ NotExpired(g, now)
  /\ grant' = [grant EXCEPT ![g] = [issued |-> TRUE, remaining |-> GrantInfo[g].total,
                                    active |-> TRUE]]
  /\ UNCHANGED <<now, budget, decision, hold, approval>>

Tick ==
  /\ now < MaxTime
  /\ now' = now + 1
  /\ UNCHANGED <<budget, grant, decision, hold, approval>>

SweepSome   == \E batch \in SUBSET Keys : Sweep(batch)
ReviewStep  == \E k \in Keys : \/ RequestApproval(k) \/ Approve(k) \/ ExpireOnReview(k)
                               \/ Deny(k) \/ ConsumeToken(k)
SettleStep  == SweepSome \/ \E k \in Keys, actual \in Actuals : Reconcile(k, actual)
UpkeepStep  == \/ \E s \in Scopes, limit \in BudgetLimits : UpsertBudget(s, limit)
               \/ \E g \in Grants : CreateGrant(g)
               \/ Tick

TablesNext == ReviewStep \/ SettleStep \/ UpkeepStep
=============================================================================
