------------------------ MODULE EnforcementGate_proofs ------------------------
(***************************************************************************)
(* The gate and the handlers of reservations: what the types of their      *)
(* tables and calls are, what a step may be, what holds of approvals,      *)
(* settlements and answers in every interleaving, and where the credit of  *)
(* a tenant is at any time: none is made or lost, decisions and allocation *)
(* rows agree about it, rows and grants implement the ledger of credits,   *)
(* limits and ceilings hold for the month, and the credit an evaluation    *)
(* was promised is there when it records its decision.                     *)
(***************************************************************************)
EXTENDS GateProperties, Operators_proofs

(***************************************************************************)
(* A draw takes a natural amount of every grant, never more than what is   *)
(* available of it.                                                        *)
(***************************************************************************)
LEMMA DrawType ==
  ASSUME NEW available \in [Grants -> Nat], NEW need \in Int, NEW p
  PROVE  /\ Draw(available, need, p) \in [Grants -> Nat]
         /\ \A g \in Grants : Draw(available, need, p)[g] <= available[g]
<1>1. ASSUME NEW g \in Grants
      PROVE  Total([h \in {i \in Grants : Precedes(i, g, p)} |-> available[h]]) \in Nat
  <2> DEFINE before == {i \in Grants : Precedes(i, g, p)}
  <2>1. IsFiniteSet(before)
    BY FS_Subset, ReservationConstants
  <2>2. [h \in before |-> available[h]] \in [before -> Nat]
    OBVIOUS
  <2> HIDE DEF before
  <2>3. Total([h \in before |-> available[h]]) \in Nat
    BY <2>1, <2>2, TotalType
  <2> QED BY <2>3 DEF before
<1> QED BY <1>1 DEF Draw, Least, Positive

(***************************************************************************)
(* The order of draws is total: a draw takes the whole need, or all there  *)
(* is if that is less.                                                     *)
(***************************************************************************)
LEMMA DrawTotal ==
  ASSUME NEW available \in [Grants -> Nat], NEW need \in Nat, NEW p
  PROVE  Total(Draw(available, need, p)) = Least(need, Total(available))
<1> DEFINE before == [g \in Grants |-> {i \in Grants : Precedes(i, g, p)}]
           d      == Draw(available, need, p)
<1>1. \A g \in Grants : /\ GrantInfo[g].pool \in Pools /\ GrantInfo[g].expires \in Nat
                        /\ GrantInfo[g].created \in Nat
  BY ReservationConstants
<1>2. before \in [Grants -> SUBSET Grants]
  OBVIOUS
<1>3. \A g \in Grants : g \notin before[g]
  BY <1>1 DEF Precedes
<1>4. \A g, h \in Grants : g \in before[h] => before[g] \subseteq before[h]
  BY <1>1 DEF Precedes, Pools
<1>5. \A g, h \in Grants : g = h \/ g \in before[h] \/ h \in before[g]
  BY <1>1, ReservationConstants DEF Precedes, Pools
<1>6. d \in [Grants -> Nat]
  BY DrawType
<1>7. \A g \in Grants : d[g] = Least(available[g],
                                   Positive(need - Total([h \in before[g] |-> available[h]])))
  BY DEF Draw
<1>8. IsFiniteSet(Grants)
  BY ReservationConstants
<1> HIDE DEF before, d
<1>9. Total(d) = Least(need, Total(available))
  BY <1>2, <1>3, <1>4, <1>5, <1>6, <1>7, <1>8, GreedyTotal
<1> QED BY <1>9 DEF d

(* A draw of all there is takes all of every grant. *)
LEMMA DrawAll ==
  ASSUME NEW available \in [Grants -> Nat], NEW p
  PROVE  Draw(available, Total(available), p) = available
<1> DEFINE need == Total(available)
           d    == Draw(available, need, p)
           left == [g \in Grants |-> available[g] - d[g]]
<1>1. IsFiniteSet(Grants) /\ need \in Nat
  BY ReservationConstants, TotalType
<1>2. d \in [Grants -> Nat] /\ \A g \in Grants : d[g] <= available[g]
  BY <1>1, DrawType
<1>3. Total(d) = need
  BY <1>1, DrawTotal DEF Least
<1> HIDE DEF d
<1>4. left \in [Grants -> Nat] /\ \A g \in Grants : available[g] = d[g] + left[g]
  BY <1>2
<1> HIDE DEF left
<1>5. Total(available) = Total(d) + Total(left) /\ Total(left) \in Nat
  BY <1>1, <1>2, <1>4, TotalSum, TotalType
<1>6. Total(left) = 0
  BY <1>1, <1>3, <1>5
<1>7. ASSUME NEW g \in Grants PROVE left[g] = 0
  <2>1. left[g] <= Total(left) /\ left[g] \in Nat
    BY <1>1, <1>4, TotalBound
  <2> QED BY <1>6, <2>1
<1>8. d = available
  BY <1>2, <1>4, <1>7
<1> QED BY <1>8 DEF d, need

(* The credit that a decision's active rows hold. *)
LEMMA ActiveHoldsType ==
  ASSUME TablesTypeOK, NEW k \in Keys
  PROVE  ActiveHolds(k) \in [Grants -> Nat]
BY DEF ActiveHolds, TablesTypeOK, HoldRows

(* What a settlement consumes and releases of each grant. *)
LEMMA SettlementTypes ==
  ASSUME TablesTypeOK, NEW k \in Keys, NEW spend \in Nat
  PROVE  /\ Spending(k, spend) \in Nat
         /\ Consumed(k, spend) \in [Grants -> Nat]
         /\ Released(k, spend) \in [Grants -> Nat]
<1>1. decision[k] \in DecisionRows /\ decision[k].credit \in Nat
  BY DEF TablesTypeOK, DecisionRows
<1>2. Spending(k, spend) \in Nat /\ decision[k].credit - Spending(k, spend) \in Int
  BY <1>1 DEF Spending, Least
<1>3. /\ Consumed(k, spend) \in [Grants -> Nat]
      /\ \A g \in Grants : Consumed(k, spend)[g] <= ActiveHolds(k)[g]
  BY <1>2, ActiveHoldsType, DrawType DEF Consumed
<1>4. [g \in Grants |-> ActiveHolds(k)[g] - Consumed(k, spend)[g]] \in [Grants -> Nat]
  BY <1>3, ActiveHoldsType
<1>5. Released(k, spend) \in [Grants -> Nat]
  BY <1>2, <1>4, DrawType DEF Released
<1> QED BY <1>2, <1>3, <1>5

(***************************************************************************)
(* Giving up the reservations of any set of decisions keeps the types.     *)
(***************************************************************************)
LEMMA CloseTypes ==
  ASSUME TablesTypeOK, NEW ks \in SUBSET Keys, NEW why \in Settlements, NEW spend \in Nat,
         Close(ks, why, spend)
  PROVE  /\ decision' \in [Keys -> DecisionRows]
         /\ hold' \in [Keys -> [Grants -> HoldRows]]
         /\ grant' \in [Grants -> GrantRows]
<1> DEFINE paying == {k \in ks : decision[k].credit > 0}
           refund(g) == Total([k \in paying |-> Released(k, spend)[g]])
<1>1. ASSUME NEW k \in Keys PROVE ClosedRow(k, why, spend) \in DecisionRows
  <2>1. decision[k] \in DecisionRows
    BY DEF TablesTypeOK
  <2>2. decision[k].spent + Spending(k, spend) \in Nat
    BY <2>1, SettlementTypes DEF DecisionRows
  <2>3. (IF decision[k].settled = "open" THEN why ELSE decision[k].settled) \in Settlements
    BY <2>1 DEF DecisionRows
  <2> QED BY <2>1, <2>2, <2>3 DEF ClosedRow, DecisionRows
<1>2. decision' \in [Keys -> DecisionRows]
  BY <1>1 DEF Close, TablesTypeOK
<1>3. ASSUME NEW k \in Keys, NEW g \in Grants PROVE SettledHold(k, g, spend) \in HoldRows
  <2>1. hold[k][g] \in HoldRows
    BY DEF TablesTypeOK
  <2>2. Consumed(k, spend)[g] \in Nat /\ Released(k, spend)[g] \in Nat
    BY SettlementTypes
  <2> QED BY <2>1, <2>2 DEF SettledHold, HoldRows
<1>4. hold' \in [Keys -> [Grants -> HoldRows]]
  BY <1>3 DEF Close, Settle, TablesTypeOK
<1>5. ASSUME NEW g \in Grants PROVE refund(g) \in Nat
  <2>1. IsFiniteSet(paying)
    BY FS_Subset, ReservationConstants
  <2>2. [k \in paying |-> Released(k, spend)[g]] \in [paying -> Nat]
    <3>1. ASSUME NEW k \in paying PROVE Released(k, spend)[g] \in Nat
      BY SettlementTypes
    <3> QED BY <3>1
  <2> HIDE DEF paying
  <2> QED BY <2>1, <2>2, TotalType
<1>6. ASSUME NEW g \in Grants PROVE RefundedGrant(g, refund(g)) \in GrantRows
  <2>1. GrantInfo[g].total \in Nat
    BY ReservationConstants DEF Pools, Scopes
  <2>2. grant[g] \in GrantRows
    BY DEF TablesTypeOK
  <2> HIDE DEF refund
  <2> DEFINE left   == Least(grant[g].remaining + refund(g), GrantInfo[g].total)
             usable == left > 0 /\ NotExpired(g, now)
  <2>3. left \in Nat
    BY <1>5, <2>1, <2>2 DEF GrantRows, Least
  <2>4. usable \in BOOLEAN
    BY DEF NotExpired
  <2>5. RefundedGrant(g, refund(g)) = [grant[g] EXCEPT !.remaining = left, !.active = usable]
    BY DEF RefundedGrant
  <2> HIDE DEF left, usable
  <2> QED BY <2>2, <2>3, <2>4, <2>5 DEF GrantRows
<1>7. grant' \in [Grants -> GrantRows]
  BY <1>6 DEF Close, Settle, TablesTypeOK
<1> QED BY <1>2, <1>4, <1>7

(***************************************************************************)
(* So does recording a decision whose draw the grants cover.               *)
(***************************************************************************)
LEMMA RecordTypes ==
  ASSUME TablesTypeOK, NEW k \in Keys, NEW row \in DecisionRows,
         NEW drawn \in [Grants -> Nat],
         \A g \in Grants : drawn[g] <= grant[g].remaining,
         NEW request \in ApprovalRows, Record(k, row, drawn, request)
  PROVE  TablesTypeOK'
<1>1. now' \in Nat /\ budget' \in [Scopes -> Headrooms]
  BY DEF Record, TablesTypeOK
<1>2. decision' \in [Keys -> DecisionRows] /\ approval' \in [Keys -> ApprovalRows]
  BY DEF Record, TablesTypeOK
<1>3. hold' \in [Keys -> [Grants -> HoldRows]]
  <2>1. ASSUME NEW g \in Grants PROVE NewHold(drawn[g]) \in HoldRows /\ NoHold \in HoldRows
    BY DEF NewHold, NoHold, HoldRows
  <2> QED BY <2>1 DEF Record, TablesTypeOK
<1>4. grant' \in [Grants -> GrantRows]
  <2>1. ASSUME NEW g \in Grants PROVE DrawnGrant(g, drawn[g]) \in GrantRows
    <3>1. grant[g] \in GrantRows
      BY DEF TablesTypeOK
    <3>2. drawn[g] <= grant[g].remaining /\ drawn[g] \in Nat /\ grant[g].remaining \in Nat
      BY <3>1 DEF GrantRows
    <3>3. grant[g].remaining - drawn[g] \in Nat /\ (grant[g].remaining > drawn[g]) \in BOOLEAN
      BY <3>2
    <3> QED BY <3>1, <3>3 DEF DrawnGrant, GrantRows
  <2> QED BY <2>1 DEF Record, TablesTypeOK
<1> QED BY <1>1, <1>2, <1>3, <1>4 DEF TablesTypeOK

(***************************************************************************)
(* And so does every handler.                                              *)
(***************************************************************************)
LEMMA HandlerTypes ==
  ASSUME TablesTypeOK, TablesNext
  PROVE  TablesTypeOK'
<1> USE DEF Settlements
<1>1. ASSUME NEW k \in Keys, RequestApproval(k) PROVE TablesTypeOK'
  <2>1. NewApproval \in ApprovalRows
    <3>1. now + ApprovalTtl \in Nat
      BY ReservationConstants DEF TablesTypeOK
    <3> QED BY <3>1 DEF NewApproval, NoApproval, ApprovalRows
  <2>2. approval' \in [Keys -> ApprovalRows]
    BY <1>1, <2>1 DEF RequestApproval, TablesTypeOK
  <2> QED BY <1>1, <2>2 DEF RequestApproval, TablesTypeOK
<1>2. ASSUME NEW k \in Keys, Approve(k) PROVE TablesTypeOK'
  <2>1. now + ApprovalTtl \in Nat
    BY ReservationConstants DEF TablesTypeOK
  <2> QED BY <1>2, <2>1 DEF Approve, TablesTypeOK, ApprovalRows
<1>3. ASSUME NEW k \in Keys, ExpireOnReview(k) PROVE TablesTypeOK'
  BY <1>3, CloseTypes DEF ExpireOnReview, TablesTypeOK, ApprovalRows
<1>4. ASSUME NEW k \in Keys, Deny(k) PROVE TablesTypeOK'
  BY <1>4, CloseTypes DEF Deny, TablesTypeOK, ApprovalRows
<1>5. ASSUME NEW k \in Keys, ConsumeToken(k) PROVE TablesTypeOK'
  BY <1>5 DEF ConsumeToken, TablesTypeOK, ApprovalRows
<1>6. ASSUME NEW k \in Keys, NEW actual \in Actuals, Reconcile(k, actual) PROVE TablesTypeOK'
  <2>1. Positive(actual - decision[k].alloc) \in Nat
    BY ReservationConstants DEF TablesTypeOK, DecisionRows, Positive
  <2> QED BY <1>6, <2>1, CloseTypes DEF Reconcile, TablesTypeOK
<1>7. ASSUME NEW batch \in SUBSET Keys, Sweep(batch) PROVE TablesTypeOK'
  BY <1>7, CloseTypes DEF Sweep, TablesTypeOK
<1>8. ASSUME NEW s \in Scopes, NEW limit \in BudgetLimits, UpsertBudget(s, limit)
      PROVE  TablesTypeOK'
  BY <1>8, ReservationConstants DEF UpsertBudget, TablesTypeOK
<1>9. ASSUME NEW g \in Grants, CreateGrant(g) PROVE TablesTypeOK'
  <2>1. GrantInfo[g].total \in Nat
    BY ReservationConstants DEF Pools, Scopes
  <2> QED BY <1>9, <2>1 DEF CreateGrant, TablesTypeOK, GrantRows
<1>10. CASE Tick
  BY <1>10 DEF Tick, TablesTypeOK
<1> QED BY <1>1, <1>2, <1>3, <1>4, <1>5, <1>6, <1>7, <1>8, <1>9, <1>10
        DEF TablesNext, ReviewStep, SettleStep, SweepSome, UpkeepStep

(* The headroom of a pool, summed over all grants. *)
LEMMA HeadroomOfGrants ==
  ASSUME TablesTypeOK, NEW pool, NEW p, NEW time
  PROVE  GrantHeadroom(pool, p, time)
           = Total([g \in Grants |-> IF g \in Drawable(pool, p, time) THEN grant[g].remaining
                                    ELSE 0])
<1> DEFINE some == [g \in Drawable(pool, p, time) |-> grant[g].remaining]
           all  == [g \in Grants |-> IF g \in Drawable(pool, p, time) THEN some[g] ELSE 0]
<1>1. Drawable(pool, p, time) \subseteq Grants
  BY DEF Drawable
<1>2. some \in [Drawable(pool, p, time) -> Nat]
  BY <1>1 DEF TablesTypeOK, GrantRows
<1>3. all = [g \in Grants |-> IF g \in Drawable(pool, p, time) THEN grant[g].remaining ELSE 0]
  OBVIOUS
<1> HIDE DEF some
<1>4. Total(some) = Total(all)
  BY <1>1, <1>2, TotalRestrict
<1> QED BY <1>3, <1>4 DEF GrantHeadroom, some

-----------------------------------------------------------------------------
(***************************************************************************)
(* A step that only moves one call on keeps the types if the call's new    *)
(* state is well typed.                                                    *)
(***************************************************************************)
LEMMA CallMoves ==
  ASSUME TypeOK, NEW r \in Requests, NEW s \in GateStates,
         gate' = [gate EXCEPT ![r] = s], policyLock' \in Requests \cup {NoRequest},
         UNCHANGED <<policy, input>>, TablesTypeOK'
  PROVE  TypeOK'
BY DEF TypeOK

(* The sums an evaluation reads. *)
LEMMA SumTypes ==
  ASSUME TablesTypeOK
  PROVE  /\ \A m : ReservedAlloc(m) \in Nat /\ ReservedCredit(m) \in Nat
         /\ DecisionCredit \in Nat /\ MappedCredit \in Nat
         /\ \A pool, p, time : GrantHeadroom(pool, p, time) \in Nat
<1> USE DEF TablesTypeOK, DecisionRows
<1>1. ASSUME NEW m PROVE ReservedAlloc(m) \in Nat /\ ReservedCredit(m) \in Nat
  <2>1. /\ [k \in Keys |-> IF CountsIn(k, m) THEN decision[k].alloc ELSE 0] \in [Keys -> Nat]
        /\ [k \in Keys |-> IF CountsIn(k, m) THEN decision[k].credit ELSE 0] \in [Keys -> Nat]
    OBVIOUS
  <2> QED BY <2>1, TotalType, ReservationConstants DEF ReservedAlloc, ReservedCredit
<1>2. DecisionCredit \in Nat
  <2>1. [k \in Keys |-> IF decision[k].active THEN decision[k].credit ELSE 0] \in [Keys -> Nat]
    OBVIOUS
  <2> QED BY <2>1, TotalType, ReservationConstants DEF DecisionCredit
<1>3. MappedCredit \in Nat
  <2>1. ASSUME NEW k \in Keys PROVE Total(ActiveHolds(k)) \in Nat
    BY ActiveHoldsType, TotalType, ReservationConstants
  <2>2. [k \in Keys |-> Total(ActiveHolds(k))] \in [Keys -> Nat]
    BY <2>1
  <2> QED BY <2>2, TotalType, ReservationConstants DEF MappedCredit
<1>4. ASSUME NEW pool, NEW p, NEW time PROVE GrantHeadroom(pool, p, time) \in Nat
  <2>1. IsFiniteSet(Drawable(pool, p, time)) /\ Drawable(pool, p, time) \subseteq Grants
    BY FS_Subset, ReservationConstants DEF Drawable
  <2>2. [g \in Drawable(pool, p, time) |-> grant[g].remaining]
          \in [Drawable(pool, p, time) -> Nat]
    BY <2>1 DEF GrantRows
  <2> QED BY <2>1, <2>2, TotalType DEF GrantHeadroom
<1> QED BY <1>1, <1>2, <1>3, <1>4

(* The state of a call before it has read anything. *)
LEMMA BlankType ==
  ASSUME TypeOK, NEW pc \in Steps, NEW reply \in Replies
  PROVE  [Blank EXCEPT !.pc = pc, !.reply = reply] \in GateStates
BY DEF TypeOK, Blank, GateStates, Headrooms, Unbounded, Steps, Replies

(* A call that is answered. *)
LEMMA ReplyTypes ==
  ASSUME TypeOK, NEW r \in Requests, NEW what \in Replies, Reply(r, what), TablesTypeOK'
  PROVE  TypeOK'
<1> DEFINE s == [Blank EXCEPT !.pc = "done", !.reply = what]
<1>1. s \in GateStates
  BY BlankType DEF Steps
<1>2. policyLock' \in Requests \cup {NoRequest}
  BY DEF Reply, Unlocked, TypeOK
<1>3. gate' = [gate EXCEPT ![r] = s] /\ UNCHANGED <<policy, input>>
  BY DEF Reply
<1> HIDE DEF s
<1> QED BY <1>1, <1>2, <1>3, CallMoves

(* A call that is answered with what is recorded under its key. *)
LEMMA AnswerTypes ==
  ASSUME TypeOK, NEW r \in Requests, Recorded(Key(r)), AnswerRecorded(r)
  PROVE  TypeOK'
<1>1. Key(r) \in Keys
  BY GateConstants DEF TypeOK, Key
<1>2. decision[Key(r)].outcome \in Replies
  BY <1>1 DEF TypeOK, TablesTypeOK, DecisionRows, Recorded, Replies
<1>3. TablesTypeOK'
  BY DEF AnswerRecorded, TypeOK, TablesTypeOK, tables
<1> QED BY <1>2, <1>3, ReplyTypes DEF AnswerRecorded

(* A call that moves on with one value read. *)
LEMMA AdvanceTypes ==
  ASSUME TypeOK, NEW r \in Requests, NEW pc \in Steps, NEW field, NEW value,
         [[gate[r] EXCEPT !.pc = pc] EXCEPT ![field] = value] \in GateStates,
         Advance(r, pc, field, value)
  PROVE  TypeOK'
<1> DEFINE s == [[gate[r] EXCEPT !.pc = pc] EXCEPT ![field] = value]
<1>1. gate' = [gate EXCEPT ![r] = s]
  BY DEF Advance, TypeOK
<1>2. /\ UNCHANGED <<policy, input>>
      /\ policyLock' \in Requests \cup {NoRequest} /\ TablesTypeOK'
  BY DEF Advance, TypeOK, TablesTypeOK, tables
<1> HIDE DEF s
<1>3. s \in GateStates
  BY DEF s
<1> QED BY <1>1, <1>2, <1>3, CallMoves

(***************************************************************************)
(* The steps by which an evaluation gets from the lookup to its last sum,  *)
(* and the first two of the fail-safe path.                                *)
(***************************************************************************)
LEMMA ReadingTypes ==
  ASSUME TypeOK, NEW r \in Requests,
         \/ BuildContext(r) \/ Lookup(r) \/ AcquireLock(r) \/ LockTimeout(r) \/ Recheck(r)
         \/ ReadReservedTotals(r) \/ ReadBudget(r) \/ ReadReservedGrants(r)
         \/ ReadEmergencyGrants(r) \/ ReadDecisionCredit(r) \/ ReadMappedCredit(r)
         \/ FailSafeContext(r) \/ FailSafeLookup(r)
  PROVE  TypeOK'
<1>1. gate[r] \in GateStates /\ TablesTypeOK /\ policy \in Policies
  BY DEF TypeOK
<1>2. now \in Nat /\ input[r].project \in Projects /\ budget \in [Scopes -> Headrooms]
  BY GateConstants DEF TypeOK, TablesTypeOK
<1> USE DEF Steps, Reading, FailSafe
<1>3. CASE BuildContext(r)
  <2>1. [[gate[r] EXCEPT !.pc = "lookup"] EXCEPT !["policy"] = policy] \in GateStates
    BY <1>1 DEF GateStates
  <2> QED BY <1>3, <2>1, AdvanceTypes DEF BuildContext
<1>4. CASE Lookup(r)
  <2>1. [[gate[r] EXCEPT !.pc = "lock"] EXCEPT !["policy"] = gate[r].policy] \in GateStates
    BY <1>1 DEF GateStates
  <2> QED BY <1>4, <2>1, AdvanceTypes, AnswerTypes DEF Lookup
<1>5. CASE AcquireLock(r)
  <2>1. [gate[r] EXCEPT !.pc = "recheck"] \in GateStates
    BY <1>1 DEF GateStates
  <2>2. gate' = [gate EXCEPT ![r] = [gate[r] EXCEPT !.pc = "recheck"]]
    BY <1>5 DEF AcquireLock, TypeOK
  <2>3. /\ policyLock' \in Requests \cup {NoRequest} /\ UNCHANGED <<policy, input>>
        /\ TablesTypeOK'
    BY <1>1, <1>5 DEF AcquireLock, TablesTypeOK, tables
  <2> QED BY <2>1, <2>2, <2>3, CallMoves
<1>6. CASE LockTimeout(r)
  <2>1. [[gate[r] EXCEPT !.pc = "fsContext"] EXCEPT !["at"] = 0] \in GateStates
    BY <1>1 DEF GateStates
  <2> QED BY <1>6, <2>1, AdvanceTypes DEF LockTimeout
<1>7. CASE Recheck(r)
  <2>1. [[gate[r] EXCEPT !.pc = "totals"] EXCEPT !["at"] = now] \in GateStates
    BY <1>1, <1>2 DEF GateStates
  <2> QED BY <1>7, <2>1, AdvanceTypes, AnswerTypes DEF Recheck
<1>8. CASE ReadReservedTotals(r)
  <2> DEFINE s == [gate[r] EXCEPT !.pc = "budget",
                                  !.alloc = ReservedAlloc(Month(gate[r].at)),
                                  !.credit = ReservedCredit(Month(gate[r].at))]
  <2>1. s \in GateStates
    BY <1>1, SumTypes DEF GateStates
  <2>2. gate' = [gate EXCEPT ![r] = s]
    BY <1>8 DEF ReadReservedTotals, TypeOK
  <2>3. /\ policyLock' \in Requests \cup {NoRequest} /\ UNCHANGED <<policy, input>>
        /\ TablesTypeOK'
    BY <1>1, <1>8 DEF ReadReservedTotals, TablesTypeOK, TypeOK, tables
  <2> HIDE DEF s
  <2> QED BY <2>1, <2>2, <2>3, CallMoves
<1>9. CASE ReadBudget(r)
  <2>1. EffectiveLimit(input[r].project) \in Headrooms
    BY <1>2 DEF EffectiveLimit, Scopes
  <2>2. [[gate[r] EXCEPT !.pc = "reserved"] EXCEPT !["limit"] = EffectiveLimit(input[r].project)]
          \in GateStates
    BY <1>1, <2>1 DEF GateStates
  <2> QED BY <1>9, <2>2, AdvanceTypes DEF ReadBudget
<1>10. CASE ReadReservedGrants(r)
  <2> DEFINE v == GrantHeadroom("RESERVED", input[r].project, gate[r].at)
  <2>1. [[gate[r] EXCEPT !.pc = "emergency"] EXCEPT !["reserved"] = v] \in GateStates
    BY <1>1, SumTypes DEF GateStates
  <2> QED BY <1>10, <2>1, AdvanceTypes DEF ReadReservedGrants
<1>11. CASE ReadEmergencyGrants(r)
  <2> DEFINE v == GrantHeadroom("EMERGENCY", input[r].project, gate[r].at)
  <2>1. [[gate[r] EXCEPT !.pc = "decisions"] EXCEPT !["emergency"] = v] \in GateStates
    BY <1>1, SumTypes DEF GateStates
  <2> QED BY <1>11, <2>1, AdvanceTypes DEF ReadEmergencyGrants
<1>12. CASE ReadDecisionCredit(r)
  <2>1. [[gate[r] EXCEPT !.pc = "mapped"] EXCEPT !["held"] = DecisionCredit] \in GateStates
    BY <1>1, SumTypes DEF GateStates
  <2> QED BY <1>12, <2>1, AdvanceTypes DEF ReadDecisionCredit
<1>13. CASE ReadMappedCredit(r)
  <2> DEFINE uncovered == Positive(gate[r].held - MappedCredit)
             reduction == Least(uncovered, gate[r].reserved)
             s == [gate[r] EXCEPT !.pc = "persist", !.held = 0, !.reserved = @ - reduction,
                                  !.emergency = Positive(@ - (uncovered - reduction))]
  <2>1. /\ gate[r].held \in Nat /\ gate[r].reserved \in Nat /\ gate[r].emergency \in Nat
        /\ MappedCredit \in Nat
    BY <1>1, SumTypes DEF GateStates
  <2>2. /\ gate[r].reserved - reduction \in Nat
        /\ Positive(gate[r].emergency - (uncovered - reduction)) \in Nat
    BY <2>1 DEF Positive, Least
  <2>3. s \in GateStates
    <3> HIDE DEF reduction, uncovered
    <3> QED BY <1>1, <2>2 DEF GateStates
  <2>4. gate' = [gate EXCEPT ![r] = s]
    BY <1>13 DEF ReadMappedCredit, TypeOK
  <2>5. /\ policyLock' \in Requests \cup {NoRequest} /\ UNCHANGED <<policy, input>>
        /\ TablesTypeOK'
    BY <1>1, <1>13 DEF ReadMappedCredit, TablesTypeOK, TypeOK, tables
  <2> HIDE DEF s
  <2> QED BY <2>3, <2>4, <2>5, CallMoves
<1>14. CASE FailSafeContext(r)
  <2> DEFINE s == [gate[r] EXCEPT !.pc = "fsLookup", !.policy = policy, !.at = now]
  <2>1. s \in GateStates
    BY <1>1, <1>2 DEF GateStates
  <2>2. gate' = [gate EXCEPT ![r] = s]
    BY <1>14 DEF FailSafeContext, TypeOK
  <2>3. /\ policyLock' \in Requests \cup {NoRequest} /\ UNCHANGED <<policy, input>>
        /\ TablesTypeOK'
    BY <1>1, <1>14 DEF FailSafeContext, TablesTypeOK, TypeOK, tables
  <2> HIDE DEF s
  <2> QED BY <2>1, <2>2, <2>3, CallMoves
<1>15. CASE FailSafeLookup(r)
  <2>1. [[gate[r] EXCEPT !.pc = "fsPersist"] EXCEPT !["alloc"] = 0] \in GateStates
    BY <1>1 DEF GateStates
  <2> QED BY <1>15, <2>1, AdvanceTypes, AnswerTypes DEF FailSafeLookup
<1> QED BY <1>3, <1>4, <1>5, <1>6, <1>7, <1>8, <1>9, <1>10, <1>11, <1>12, <1>13, <1>14, <1>15

-----------------------------------------------------------------------------
(* What a call asks and the policy it has read. *)
LEMMA InputTypes ==
  ASSUME TypeOK, NEW r \in Requests
  PROVE  /\ Key(r) \in Keys /\ input[r].project \in Projects /\ input[r].cost \in Nat
         /\ input[r].env \in Envs /\ input[r].dryRun \in BOOLEAN
         /\ Mode(r) \in Modes
         /\ gate[r].policy.planCeiling \in Headrooms
         /\ gate[r].policy.enterpriseCeiling \in Headrooms
         /\ gate[r].policy.autoApproveBelow \in Nat
         /\ gate[r].policy.hardDenyAbove \in Nat
<1>1. input[r] \in [key : Keys, project : Projects, cost : Nat, env : Envs, dryRun : BOOLEAN]
  BY GateConstants DEF TypeOK
<1>2. gate[r].policy \in [mode : [Envs -> Modes], approvalEnvs : SUBSET Envs,
                          autoApproveBelow : Nat, hardDenyAbove : Nat,
                          planCeiling : Headrooms, enterpriseCeiling : Headrooms]
  BY GateConstants DEF TypeOK, GateStates
<1> QED BY <1>1, <1>2 DEF Key, Mode

(* What is left below a limit is a headroom again. *)
LEMMA BelowType ==
  ASSUME NEW limit \in Headrooms, NEW used \in Nat
  PROVE  Below(limit, used) \in Headrooms
BY DEF Below, Headrooms, Unbounded, Positive

(* A violation records a decision and keeps natural amounts. *)
LEMMA ViolationType ==
  ASSUME NEW mode \in Modes, NEW reason, NEW a \in Nat, NEW b \in Nat, NEW c \in Nat
  PROVE  LET v == Violation(mode, reason, a, b, c)
         IN  v.decision \in Outcomes /\ v.alloc \in Nat /\ v.reserved \in Nat
             /\ v.emergency \in Nat
BY DEF Violation, ModeViolationDecision, Modes, Outcomes

(* What the evaluation decides. *)
LEMMA EntitlementType ==
  ASSUME TypeOK, NEW r \in Requests, NEW unavailable \in BOOLEAN
  PROVE  LET e == Entitlement(r, unavailable)
         IN  e.decision \in Outcomes /\ e.alloc \in Nat /\ e.reserved \in Nat
             /\ e.emergency \in Nat
<1> DEFINE g == gate[r]
           plan == Below(g.policy.planCeiling, UsedInMonth(r))
           allocation == Below(g.limit, g.alloc)
           enterprise == Below(g.policy.enterpriseCeiling, UsedInMonth(r))
           w == Waterfall(Mode(r), input[r].cost, plan, allocation, g.reserved, g.emergency,
                          enterprise)
           v == Violation(Mode(r), "threshold_or_context", 0, 0, 0)
<1>1. /\ g.alloc \in Nat /\ g.credit \in Nat /\ g.limit \in Headrooms
      /\ g.reserved \in Nat /\ g.emergency \in Nat
  BY DEF TypeOK, GateStates
<1>2. UsedInMonth(r) \in Nat
  BY <1>1 DEF UsedInMonth
<1>3. plan \in Headrooms /\ allocation \in Headrooms /\ enterprise \in Headrooms
  BY <1>1, <1>2, InputTypes, BelowType
<1>4. w.decision \in Outcomes /\ w.alloc \in Nat /\ w.reserved \in Nat /\ w.emergency \in Nat
  <2>1. Mode(r) \in Modes /\ input[r].cost \in Nat
    BY InputTypes
  <2> HIDE DEF plan, allocation, enterprise
  <2>2. Sound(w, Mode(r), input[r].cost, plan, allocation, g.reserved, g.emergency, enterprise)
    BY <1>1, <1>3, <2>1, WaterfallAnswer
  <2> HIDE DEF w
  <2> QED BY <2>2 DEF Sound
<1>5. v.decision \in Outcomes /\ v.alloc \in Nat /\ v.reserved \in Nat /\ v.emergency \in Nat
  BY InputTypes, ViolationType
<1>6. Entitlement(r, unavailable) = w \/ Entitlement(r, unavailable) = v
  BY DEF Entitlement
<1> HIDE DEF w, v
<1> QED BY <1>4, <1>5, <1>6

(* The row every new decision starts from. *)
LEMMA NoDecisionType == NoDecision \in DecisionRows
<1>1. (CHOOSE p \in Projects : TRUE) \in Projects
  BY ReservationConstants
<1> QED BY <1>1 DEF NoDecision, DecisionRows, Settlements

(* The row of a new decision. *)
LEMMA DecisionRowType ==
  ASSUME TypeOK, NEW r \in Requests, NEW unavailable \in BOOLEAN
  PROVE  DecisionRow(r, Entitlement(r, unavailable)) \in DecisionRows
<1> DEFINE e == Entitlement(r, unavailable)
           real(amount) == IF input[r].dryRun THEN 0 ELSE amount
           alloc == real(e.alloc)
           credit == real(e.reserved + e.emergency)
           standing == alloc + credit > 0 /\ Outcome(r, e) # "DENY" /\ Mode(r) # "SHADOW"
<1>1. e.decision \in Outcomes /\ e.alloc \in Nat /\ e.reserved \in Nat /\ e.emergency \in Nat
  BY EntitlementType
<1> HIDE DEF e
<1>2. Outcome(r, e) \in Outcomes
  BY <1>1 DEF Outcome, Outcomes
<1>3. alloc \in Nat /\ credit \in Nat /\ standing \in BOOLEAN
  BY <1>1
<1>4. now \in Nat /\ input[r].project \in Projects
  BY InputTypes DEF TypeOK, TablesTypeOK
<1>5. DecisionRow(r, e) = [NoDecision EXCEPT !.outcome = Outcome(r, e),
                             !.project = input[r].project, !.alloc = alloc, !.credit = credit,
                             !.created = now, !.active = standing]
  BY DEF DecisionRow
<1> HIDE DEF alloc, credit, standing
<1>6. DecisionRow(r, e) \in DecisionRows
  BY <1>2, <1>3, <1>4, <1>5, NoDecisionType DEF DecisionRows
<1> QED BY <1>6 DEF e

(* The row the fail-safe path records. *)
LEMMA FailSafeRowType ==
  ASSUME TypeOK, NEW r \in Requests
  PROVE  FailSafeRow(r) \in DecisionRows /\ FailSafeRow(r).outcome \in Outcomes
<1>1. ModeViolationDecision(Mode(r)) \in Outcomes
  BY InputTypes DEF ModeViolationDecision, Modes, Outcomes
<1>2. now \in Nat /\ input[r].project \in Projects
  BY InputTypes DEF TypeOK, TablesTypeOK
<1> QED BY <1>1, <1>2, NoDecisionType DEF FailSafeRow, DecisionRows, NoDecision

(* The approval request that comes along. *)
LEMMA ApprovalForType ==
  ASSUME TypeOK, NEW r \in Requests, NEW row
  PROVE  ApprovalFor(r, row) \in ApprovalRows
<1>1. gate[r].at + ApprovalTtl \in Nat
  BY ReservationConstants DEF TypeOK, GateStates
<1> QED BY <1>1 DEF ApprovalFor, NoApproval, ApprovalRows

(***************************************************************************)
(* The two draws of a request never take more of a grant than it has left: *)
(* a grant is in one pool only.                                            *)
(***************************************************************************)
LEMMA PoolDrawTypes ==
  ASSUME TypeOK, NEW r \in Requests, NEW a \in Nat, NEW b \in Nat
  PROVE  /\ PoolDraw(r, "RESERVED", a) \in [Grants -> Nat]
         /\ PoolDraw(r, "EMERGENCY", b) \in [Grants -> Nat]
         /\ \A g \in Grants : PoolDraw(r, "RESERVED", a)[g] + PoolDraw(r, "EMERGENCY", b)[g]
                                 <= grant[g].remaining
<1> DEFINE open(pool) == [g \in Grants |->
                            IF g \in Drawable(pool, input[r].project, gate[r].at)
                            THEN grant[g].remaining ELSE 0]
<1>1. ASSUME NEW pool, NEW need \in Nat
      PROVE  /\ PoolDraw(r, pool, need) \in [Grants -> Nat]
             /\ \A g \in Grants : PoolDraw(r, pool, need)[g] <= open(pool)[g]
  <2>1. open(pool) \in [Grants -> Nat]
    BY DEF TypeOK, TablesTypeOK, GrantRows
  <2>2. PoolDraw(r, pool, need) = Draw(open(pool), need, input[r].project)
    BY DEF PoolDraw, ReserveFrom
  <2> HIDE DEF open
  <2> QED BY <2>1, <2>2, DrawType
<1>2. ASSUME NEW g \in Grants
      PROVE  PoolDraw(r, "RESERVED", a)[g] + PoolDraw(r, "EMERGENCY", b)[g] <= grant[g].remaining
  <2>1. open("RESERVED")[g] = 0 \/ open("EMERGENCY")[g] = 0
    BY DEF Drawable
  <2>2. /\ open("RESERVED")[g] \in {0, grant[g].remaining}
        /\ open("EMERGENCY")[g] \in {0, grant[g].remaining}
        /\ grant[g].remaining \in Nat
    BY DEF TypeOK, TablesTypeOK, GrantRows
  <2>3. /\ PoolDraw(r, "RESERVED", a)[g] \in Nat
        /\ PoolDraw(r, "RESERVED", a)[g] <= open("RESERVED")[g]
        /\ PoolDraw(r, "EMERGENCY", b)[g] \in Nat
        /\ PoolDraw(r, "EMERGENCY", b)[g] <= open("EMERGENCY")[g]
    BY <1>1
  <2> HIDE DEF open
  <2> QED BY <2>1, <2>2, <2>3
<1> HIDE DEF open
<1> QED BY <1>1, <1>2

(* A pool gives at most what is asked of it, and all of that if it can. *)
LEMMA PoolDrawAtMost ==
  ASSUME TypeOK, NEW r \in Requests, NEW pool, NEW need \in Nat
  PROVE  /\ Total(PoolDraw(r, pool, need))
              = Least(need, GrantHeadroom(pool, input[r].project, gate[r].at))
         /\ ~(Total(PoolDraw(r, pool, need)) < need) => Total(PoolDraw(r, pool, need)) = need
<1> DEFINE p    == input[r].project
           open == [g \in Grants |-> IF g \in Drawable(pool, p, gate[r].at)
                                    THEN grant[g].remaining ELSE 0]
<1>1. open \in [Grants -> Nat]
  BY DEF TypeOK, TablesTypeOK, GrantRows
<1>2. PoolDraw(r, pool, need) = Draw(open, need, p)
  BY DEF PoolDraw, ReserveFrom
<1>3. Total(open) = GrantHeadroom(pool, p, gate[r].at)
  BY HeadroomOfGrants DEF TypeOK
<1> HIDE DEF open
<1>4. Total(PoolDraw(r, pool, need)) = Least(need, Total(open)) /\ Total(open) \in Nat
  BY <1>1, <1>2, DrawTotal, TotalType, ReservationConstants
<1> QED BY <1>3, <1>4 DEF Least

-----------------------------------------------------------------------------
(***************************************************************************)
(* The three ways Persist can end without an earlier decision under its    *)
(* key: refused for lack of credit, recorded and answered, recorded and    *)
(* cut off by the time limit.                                              *)
(***************************************************************************)
Row(r, unavailable) == DecisionRow(r, Entitlement(r, unavailable))

Drawn(r, unavailable) ==
  LET e   == Entitlement(r, unavailable)
      row == Row(r, unavailable)
  IN  [g \in Grants |-> IF row.active /\ row.credit > 0
                        THEN PoolDraw(r, "RESERVED", e.reserved)[g]
                               + PoolDraw(r, "EMERGENCY", e.emergency)[g]
                        ELSE 0]

Refused(r) ==
  /\ gate' = [gate EXCEPT ![r] = [Blank EXCEPT !.pc = "done", !.reply = "short",
                                                !.at = gate[r].at]]
  /\ policyLock' = Unlocked(r)
  /\ UNCHANGED <<tables, policy, input>>

(* The grants still have what the evaluation wants to draw. *)
Covered(r, unavailable) ==
  LET e == Entitlement(r, unavailable)
  IN  (Row(r, unavailable).active /\ Row(r, unavailable).credit > 0) =>
        /\ ~(Total(PoolDraw(r, "RESERVED", e.reserved)) < e.reserved)
        /\ ~(Total(PoolDraw(r, "EMERGENCY", e.emergency)) < e.emergency)

Records(r, unavailable) ==
  /\ Record(Key(r), Row(r, unavailable), Drawn(r, unavailable),
            ApprovalFor(r, Row(r, unavailable)))
  /\ Covered(r, unavailable)

CutOff(r) ==
  /\ gate' = [gate EXCEPT ![r] = [Blank EXCEPT !.pc = "fsContext"]]
  /\ policyLock' = Unlocked(r)
  /\ UNCHANGED <<policy, input>>

(* Persist answers with an earlier decision, or ends in one of these. *)
LEMMA PersistCases ==
  ASSUME NEW r \in Requests, Persist(r)
  PROVE  \/ Recorded(Key(r)) /\ AnswerRecorded(r)
         \/ /\ ~Recorded(Key(r))
            /\ \E unavailable \in BOOLEAN :
                 \/ ~Covered(r, unavailable) /\ Refused(r)
                 \/ Records(r, unavailable) /\ Reply(r, Row(r, unavailable).outcome)
                 \/ Records(r, unavailable) /\ CutOff(r)
<1>1. CASE Recorded(Key(r)) /\ AnswerRecorded(r)
  BY <1>1
<1>2. CASE ~(Recorded(Key(r)) /\ AnswerRecorded(r))
  <2> DEFINE e(u)     == Entitlement(r, u)
             drawn(u) == Row(r, u).active /\ Row(r, u).credit > 0
             lacks(u) == /\ drawn(u)
                         /\ \/ Total(PoolDraw(r, "RESERVED", e(u).reserved)) < e(u).reserved
                            \/ Total(PoolDraw(r, "EMERGENCY", e(u).emergency)) < e(u).emergency
  <2>1. PICK u \in BOOLEAN, late \in BOOLEAN :
          IF lacks(u) THEN Refused(r)
          ELSE /\ Record(Key(r), Row(r, u), Drawn(r, u), ApprovalFor(r, Row(r, u)))
               /\ IF late THEN CutOff(r) ELSE Reply(r, Row(r, u).outcome)
    BY <1>2 DEF Persist, Refused, CutOff, Row, Drawn
  <2>2. ~Recorded(Key(r))
    BY <1>2 DEF Persist
  <2>3. lacks(u) <=> ~Covered(r, u)
    BY DEF Covered
  <2> HIDE DEF lacks
  <2> QED BY <2>1, <2>2, <2>3 DEF Records
<1> QED BY <1>1, <1>2

(* What a new decision draws is within what the grants have left. *)
LEMMA DrawnTypes ==
  ASSUME TypeOK, NEW r \in Requests, NEW u \in BOOLEAN
  PROVE  /\ Drawn(r, u) \in [Grants -> Nat]
         /\ \A g \in Grants : /\ Drawn(r, u)[g] <= grant[g].remaining
                              /\ Drawn(r, u)[g] > 0 => Row(r, u).active /\ Row(r, u).credit > 0
<1> DEFINE e == Entitlement(r, u)
<1>1. e.reserved \in Nat /\ e.emergency \in Nat
  BY EntitlementType
<1>2. \A g \in Grants : grant[g].remaining \in Nat
  BY DEF TypeOK, TablesTypeOK, GrantRows
<1>3. /\ PoolDraw(r, "RESERVED", e.reserved) \in [Grants -> Nat]
      /\ PoolDraw(r, "EMERGENCY", e.emergency) \in [Grants -> Nat]
      /\ \A g \in Grants : PoolDraw(r, "RESERVED", e.reserved)[g]
                             + PoolDraw(r, "EMERGENCY", e.emergency)[g] <= grant[g].remaining
  <2> HIDE DEF e
  <2> QED BY <1>1, PoolDrawTypes
<1> QED BY <1>2, <1>3 DEF Drawn

(***************************************************************************)
(* A draw the grants cover takes exactly the credit that the new decision  *)
(* reserves, and a decision that does not stand draws nothing.             *)
(***************************************************************************)
LEMMA DrawnTotal ==
  ASSUME TypeOK, NEW r \in Requests, NEW u \in BOOLEAN, Covered(r, u)
  PROVE  Total(Drawn(r, u)) = IF Row(r, u).active THEN Row(r, u).credit ELSE 0
<1> DEFINE e         == Entitlement(r, u)
           row       == Row(r, u)
           reserved  == PoolDraw(r, "RESERVED", e.reserved)
           emergency == PoolDraw(r, "EMERGENCY", e.emergency)
<1>1. e.reserved \in Nat /\ e.emergency \in Nat /\ row \in DecisionRows
  BY EntitlementType, DecisionRowType DEF Row
<1>2. IsFiniteSet(Grants)
  BY ReservationConstants
<1>3. CASE row.active /\ row.credit > 0
  <2>1. row.credit = e.reserved + e.emergency
    <3>1. row.credit = IF input[r].dryRun THEN 0 ELSE e.reserved + e.emergency
      BY DEF Row, DecisionRow, NoDecision
    <3> QED BY <1>3, <3>1
  <2> HIDE DEF e
  <2>2. reserved \in [Grants -> Nat] /\ emergency \in [Grants -> Nat]
    BY <1>1, PoolDrawTypes
  <2>3. Total(reserved) = e.reserved
    BY <1>1, <1>3, PoolDrawAtMost DEF Covered, e
  <2>4. Total(emergency) = e.emergency
    BY <1>1, <1>3, PoolDrawAtMost DEF Covered, e
  <2>5. \A g \in Grants : Drawn(r, u)[g] = reserved[g] + emergency[g]
    BY <1>3 DEF Drawn, e
  <2>6. Drawn(r, u) \in [Grants -> Nat]
    BY DrawnTypes
  <2> HIDE DEF reserved, emergency, row
  <2>7. Total(Drawn(r, u)) = Total(reserved) + Total(emergency)
    BY <1>2, <2>2, <2>5, <2>6, TotalSum
  <2> QED BY <1>3, <2>1, <2>3, <2>4, <2>7 DEF row
<1>4. CASE ~(row.active /\ row.credit > 0)
  <2>1. \A g \in Grants : Drawn(r, u)[g] = 0
    BY <1>4 DEF Drawn
  <2>2. Total(Drawn(r, u)) = 0
    BY <2>1, DrawnTypes, TotalZero
  <2>3. row.active => row.credit = 0
    <3> HIDE DEF row
    <3> QED BY <1>1, <1>4 DEF DecisionRows
  <2> QED BY <2>2, <2>3
<1> QED BY <1>3, <1>4

(* A row the gate records, with its draw, keeps the types of the tables. *)
LEMMA RecordsTypes ==
  ASSUME TypeOK, NEW r \in Requests, NEW unavailable \in BOOLEAN, Records(r, unavailable)
  PROVE  TablesTypeOK' /\ Row(r, unavailable).outcome \in Outcomes
<1> DEFINE e == Entitlement(r, unavailable)
<1>1. Row(r, unavailable) \in DecisionRows
  BY DecisionRowType DEF Row
<1>2. e.decision \in Outcomes
  BY EntitlementType
<1>3. /\ Drawn(r, unavailable) \in [Grants -> Nat]
      /\ \A g \in Grants : Drawn(r, unavailable)[g] <= grant[g].remaining
  BY DrawnTypes
<1>4. ApprovalFor(r, Row(r, unavailable)) \in ApprovalRows
  BY ApprovalForType
<1>5. Key(r) \in Keys /\ TablesTypeOK
  BY InputTypes DEF TypeOK
<1>6. TablesTypeOK'
  BY <1>1, <1>3, <1>4, <1>5, RecordTypes DEF Records
<1>7. Row(r, unavailable).outcome = Outcome(r, e)
  BY DEF Row, DecisionRow, NoDecision
<1>8. Outcome(r, e) \in Outcomes
  <2> HIDE DEF e
  <2> QED BY <1>2 DEF Outcome, Outcomes
<1> QED BY <1>6, <1>7, <1>8

(* A call that loses its evaluation goes on well typed. *)
LEMMA CutOffTypes ==
  ASSUME TypeOK, NEW r \in Requests, TablesTypeOK', UNCHANGED <<policy, input>>,
         policyLock' \in Requests \cup {NoRequest},
         gate' = [gate EXCEPT ![r] = [Blank EXCEPT !.pc = "fsContext"]]
  PROVE  TypeOK'
<1> DEFINE s == [Blank EXCEPT !.pc = "fsContext"]
<1>1. s \in GateStates
  BY DEF TypeOK, Blank, GateStates, Headrooms, Unbounded, Steps, FailSafe, Replies
<1> HIDE DEF s
<1>2. gate' = [gate EXCEPT ![r] = s]
  BY DEF s
<1> QED BY <1>1, <1>2, CallMoves

(* However Persist ends, the types are kept. *)
LEMMA PersistTypes ==
  ASSUME TypeOK, NEW r \in Requests, Persist(r)
  PROVE  TypeOK'
<1>1. CASE Recorded(Key(r)) /\ AnswerRecorded(r)
  BY <1>1, AnswerTypes
<1>2. CASE Refused(r)
  <2> DEFINE s == [Blank EXCEPT !.pc = "done", !.reply = "short", !.at = gate[r].at]
  <2>1. s \in GateStates
    BY DEF TypeOK, Blank, GateStates, Headrooms, Unbounded, Steps, Replies
  <2>2. gate' = [gate EXCEPT ![r] = s]
    BY <1>2 DEF Refused
  <2>3. /\ policyLock' \in Requests \cup {NoRequest} /\ UNCHANGED <<policy, input>>
        /\ TablesTypeOK'
    BY <1>2 DEF Refused, Unlocked, TypeOK, TablesTypeOK, tables
  <2> HIDE DEF s
  <2> QED BY <2>1, <2>2, <2>3, CallMoves
<1>3. ASSUME NEW u \in BOOLEAN, Records(r, u), Reply(r, Row(r, u).outcome) PROVE TypeOK'
  <2>1. TablesTypeOK' /\ Row(r, u).outcome \in Replies
    BY <1>3, RecordsTypes DEF Replies
  <2> QED BY <1>3, <2>1, ReplyTypes
<1>4. ASSUME NEW u \in BOOLEAN, Records(r, u), CutOff(r) PROVE TypeOK'
  <2>1. TablesTypeOK'
    BY <1>4, RecordsTypes
  <2>2. policyLock' \in Requests \cup {NoRequest}
    BY <1>4 DEF CutOff, Unlocked, TypeOK
  <2> QED BY <1>4, <2>1, <2>2, CutOffTypes DEF CutOff
<1> QED BY <1>1, <1>2, <1>3, <1>4, PersistCases

(* And however the fail-safe path ends. *)
LEMMA FailSafePersistTypes ==
  ASSUME TypeOK, NEW r \in Requests, FailSafePersist(r)
  PROVE  TypeOK'
<1>1. CASE Recorded(Key(r)) /\ AnswerRecorded(r)
  BY <1>1, AnswerTypes
<1>2. CASE ~(Recorded(Key(r)) /\ AnswerRecorded(r))
  <2>1. /\ Record(Key(r), FailSafeRow(r), [g \in Grants |-> 0], ApprovalFor(r, FailSafeRow(r)))
        /\ Reply(r, FailSafeRow(r).outcome)
    BY <1>2 DEF FailSafePersist
  <2>2. /\ [g \in Grants |-> 0] \in [Grants -> Nat]
        /\ \A g \in Grants : [h \in Grants |-> 0][g] <= grant[g].remaining
    BY DEF TypeOK, TablesTypeOK, GrantRows
  <2>3. TablesTypeOK'
    <3>1. Key(r) \in Keys /\ TablesTypeOK
      BY InputTypes DEF TypeOK
    <3> QED BY <2>1, <2>2, <3>1, FailSafeRowType, ApprovalForType, RecordTypes
  <2>4. FailSafeRow(r).outcome \in Replies
    BY FailSafeRowType DEF Replies
  <2> QED BY <2>1, <2>3, <2>4, ReplyTypes
<1> QED BY <1>1, <1>2

(* Every step keeps the types: one step of the proof per action. *)
LEMMA TypesKept == TypeOK /\ [Next]_vars => TypeOK'
<1> SUFFICES ASSUME TypeOK, [Next]_vars PROVE TypeOK'
  OBVIOUS
<1>1. ASSUME NEW r \in Requests, GateStep(r) PROVE TypeOK'
  <2>1. CASE Persist(r)
    BY <2>1, PersistTypes
  <2>2. CASE FailSafePersist(r)
    BY <2>2, FailSafePersistTypes
  <2>3. CASE EvaluationFails(r)
    <3>1. /\ TablesTypeOK' /\ UNCHANGED <<policy, input>>
          /\ policyLock' \in Requests \cup {NoRequest}
      BY <2>3 DEF EvaluationFails, TypeOK, TablesTypeOK, tables
    <3> QED BY <2>3, <3>1, CutOffTypes DEF EvaluationFails
  <2>4. CASE RequestLost(r)
    <3>1. TablesTypeOK' /\ Reply(r, "error") /\ "error" \in Replies
      BY <2>4 DEF RequestLost, TypeOK, TablesTypeOK, tables, Replies
    <3> QED BY <3>1, ReplyTypes
  <2> QED BY <1>1, <2>1, <2>2, <2>3, <2>4, ReadingTypes DEF GateStep, Evaluation
<1>2. ASSUME NEW p \in Policies, UpdatePolicy(p) PROVE TypeOK'
  BY <1>2 DEF UpdatePolicy, TypeOK, TablesTypeOK, tables
<1>3. CASE TablesNext /\ UNCHANGED gateVars
  <2>1. TablesTypeOK'
    BY <1>3, HandlerTypes DEF TypeOK
  <2> QED BY <1>3, <2>1 DEF TypeOK, gateVars
<1>4. CASE UNCHANGED vars
  BY <1>4 DEF vars, tables, gateVars, TypeOK, TablesTypeOK
<1> QED BY <1>1, <1>2, <1>3, <1>4 DEF Next

(* The empty tables and the idle calls are well typed. *)
LEMMA TypesAtStart == Init => TypeOK
<1> SUFFICES ASSUME Init PROVE TypeOK
  OBVIOUS
<1>1. /\ policy \in Policies /\ policyLock \in Requests \cup {NoRequest}
      /\ input \in [Requests -> Inputs]
  BY DEF Init
<1>2. gate \in [Requests -> GateStates]
  BY DEF Init, Blank, GateStates, Headrooms, Unbounded, Steps, Replies
<1>3. budget \in [Scopes -> Headrooms] /\ now \in Nat
  BY ReservationConstants DEF Init, TablesInit
<1>4. grant \in [Grants -> GrantRows]
  <2>1. ASSUME NEW g \in Grants PROVE GrantInfo[g].total \in Nat
    BY ReservationConstants DEF Pools, Scopes
  <2> QED BY <2>1 DEF Init, TablesInit, GrantRows
<1>5. /\ decision \in [Keys -> DecisionRows] /\ hold \in [Keys -> [Grants -> HoldRows]]
      /\ approval \in [Keys -> ApprovalRows]
  BY NoDecisionType DEF Init, TablesInit, NoHold, HoldRows, NoApproval, ApprovalRows
<1> QED BY <1>1, <1>2, <1>3, <1>4, <1>5 DEF TypeOK, TablesTypeOK

(***************************************************************************)
(* Every column of every table and everything a call holds keeps its type: *)
(* no draw, settlement or refund makes an amount negative.                 *)
(***************************************************************************)
THEOREM GateTypeCorrect == Spec => []TypeOK
BY TypesAtStart, TypesKept, PTL DEF Spec

-----------------------------------------------------------------------------
(***************************************************************************)
(* A decision recorded under a key that had none: nothing of it is settled *)
(* yet, the credit of a reservation that stands, and no other, is drawn in *)
(* full from what the grants have left, and its approval, if any, is       *)
(* pending.                                                                *)
(***************************************************************************)
NewRow(row) ==
  row.outcome # "NONE" /\ row.settled = "open" /\ row.spent = 0 /\ row.created = now

Funds(row, drawn) ==
  /\ \A g \in Grants : /\ drawn[g] <= grant[g].remaining
                       /\ drawn[g] > 0 => row.active /\ row.credit > 0
  /\ Total(drawn) = IF row.active THEN row.credit ELSE 0

RecordsNew(k) ==
  /\ ~Recorded(k)
  /\ \E row \in DecisionRows, drawn \in [Grants -> Nat], request \in ApprovalRows :
       /\ Record(k, row, drawn, request)
       /\ NewRow(row) /\ Funds(row, drawn)
       /\ request.status \in {"NONE", "PENDING"} /\ ~request.consumed

(* A new approval request is pending or absent, and its token unspent. *)
LEMMA NewRequest ==
  ASSUME NEW r \in Requests, NEW row
  PROVE  /\ ApprovalFor(r, row).status \in {"NONE", "PENDING"}
         /\ ~ApprovalFor(r, row).consumed
BY DEF ApprovalFor, NoApproval

(* Whatever Persist records, it records as a new decision. *)
LEMMA PersistRecordsNew ==
  ASSUME TypeOK, NEW r \in Requests, NEW u \in BOOLEAN, ~Recorded(Key(r)), Records(r, u)
  PROVE  RecordsNew(Key(r))
<1>1. Row(r, u) \in DecisionRows /\ NewRow(Row(r, u))
  <2>1. Row(r, u).outcome \in Outcomes
    BY RecordsTypes
  <2>2. /\ Row(r, u).settled = "open" /\ Row(r, u).spent = 0 /\ Row(r, u).created = now
    BY DEF Row, DecisionRow, NoDecision
  <2> QED BY <2>1, <2>2, DecisionRowType DEF Row, NewRow, Outcomes
<1>2. Drawn(r, u) \in [Grants -> Nat] /\ Funds(Row(r, u), Drawn(r, u))
  BY DrawnTypes, DrawnTotal DEF Records, Funds
<1>3. ApprovalFor(r, Row(r, u)) \in ApprovalRows
  BY ApprovalForType
<1> QED BY <1>1, <1>2, <1>3, NewRequest DEF Records, RecordsNew

(* So does the fail-safe path. *)
LEMMA FailSafeRecordsNew ==
  ASSUME TypeOK, NEW r \in Requests, ~Recorded(Key(r)),
         Record(Key(r), FailSafeRow(r), [g \in Grants |-> 0], ApprovalFor(r, FailSafeRow(r)))
  PROVE  RecordsNew(Key(r))
<1> DEFINE none == [g \in Grants |-> 0]
<1>1. /\ FailSafeRow(r) \in DecisionRows /\ ApprovalFor(r, FailSafeRow(r)) \in ApprovalRows
      /\ FailSafeRow(r).outcome # "NONE"
  BY FailSafeRowType, ApprovalForType DEF Outcomes
<1>2. none \in [Grants -> Nat] /\ \A g \in Grants : none[g] = 0
  OBVIOUS
<1>3. Total(none) = 0
  <2> HIDE DEF none
  <2> QED BY <1>2, TotalZero
<1>4. /\ ~FailSafeRow(r).active /\ FailSafeRow(r).settled = "open"
      /\ FailSafeRow(r).spent = 0 /\ FailSafeRow(r).created = now
  BY DEF FailSafeRow, NoDecision
<1>5. Funds(FailSafeRow(r), none)
  <2>1. \A g \in Grants : grant[g].remaining \in Nat
    BY DEF TypeOK, TablesTypeOK, GrantRows
  <2> HIDE DEF none
  <2> QED BY <1>2, <1>3, <1>4, <2>1 DEF Funds
<1>6. NewRow(FailSafeRow(r))
  BY <1>1, <1>4 DEF NewRow
<1> HIDE DEF none
<1>7. Record(Key(r), FailSafeRow(r), none, ApprovalFor(r, FailSafeRow(r)))
  BY DEF none
<1> QED BY <1>1, <1>2, <1>5, <1>6, <1>7, NewRequest DEF RecordsNew

(***************************************************************************)
(* Every step leaves the tables alone, records a new decision, or is a     *)
(* handler's.                                                              *)
(***************************************************************************)
LEMMA TableMoves ==
  ASSUME TypeOK, [Next]_vars
  PROVE  UNCHANGED tables \/ (\E k \in Keys : RecordsNew(k)) \/ TablesNext
<1>1. ASSUME NEW r \in Requests, GateStep(r)
      PROVE  UNCHANGED tables \/ \E k \in Keys : RecordsNew(k)
  <2>1. CASE Persist(r)
    <3>1. Key(r) \in Keys
      BY InputTypes
    <3> QED BY <2>1, <3>1, PersistCases, PersistRecordsNew DEF AnswerRecorded, Refused
  <2>2. CASE FailSafePersist(r)
    <3>1. Key(r) \in Keys
      BY InputTypes
    <3> QED BY <2>2, <3>1, FailSafeRecordsNew DEF AnswerRecorded, FailSafePersist
  <2>3. CASE EvaluationFails(r) \/ RequestLost(r)
    BY <2>3 DEF EvaluationFails, RequestLost
  <2>4. CASE Lookup(r) \/ Recheck(r) \/ FailSafeLookup(r)
    BY <2>4 DEF Lookup, Recheck, FailSafeLookup, AnswerRecorded, Advance
  <2>5. CASE BuildContext(r) \/ AcquireLock(r) \/ LockTimeout(r) \/ FailSafeContext(r)
    BY <2>5 DEF BuildContext, AcquireLock, LockTimeout, FailSafeContext, Advance
  <2>6. CASE \/ ReadReservedTotals(r) \/ ReadBudget(r) \/ ReadReservedGrants(r)
             \/ ReadEmergencyGrants(r) \/ ReadDecisionCredit(r) \/ ReadMappedCredit(r)
    BY <2>6 DEF ReadReservedTotals, ReadBudget, ReadReservedGrants, ReadEmergencyGrants,
                ReadDecisionCredit, ReadMappedCredit, Advance
  <2> QED BY <1>1, <2>1, <2>2, <2>3, <2>4, <2>5, <2>6 DEF GateStep, Evaluation
<1>2. ASSUME NEW p \in Policies, UpdatePolicy(p) PROVE UNCHANGED tables
  BY <1>2 DEF UpdatePolicy
<1>3. CASE UNCHANGED vars
  BY <1>3 DEF vars
<1> QED BY <1>1, <1>2, <1>3 DEF Next

-----------------------------------------------------------------------------
(* A handler that gives reservations up, with the keys it is about. *)
Gives(ks) ==
  \E why \in Settlements, spend \in Nat :
    /\ Close(ks, why, spend)
    /\ \A k \in ks : decision[k].active \/ spend = 0
    /\ spend > 0 => why = "reconciled"

(* Decisions and holds stay, and grants but for one that is issued. *)
Keeps ==
  /\ UNCHANGED <<decision, hold>>
  /\ UNCHANGED grant \/ \E g \in Grants : CreateGrant(g)

(* A handler gives reservations up or leaves decisions and holds alone. *)
LEMMA HandlerMoves ==
  ASSUME TablesTypeOK, TablesNext
  PROVE  Keeps \/ \E ks \in SUBSET Keys : Gives(ks)
<1> USE DEF Settlements
<1>1. ASSUME NEW k \in Keys,
             \/ RequestApproval(k) \/ Approve(k) \/ ExpireOnReview(k) \/ Deny(k)
             \/ ConsumeToken(k)
      PROVE  Keeps \/ \E ks \in SUBSET Keys : Gives(ks)
  <2>1. CASE ExpireOnReview(k) \/ Deny(k)
    <3>1. {k} \in SUBSET Keys /\ 0 \in Nat
      OBVIOUS
    <3>2. Gives({k})
      BY <2>1, <3>1 DEF ExpireOnReview, Deny, Gives
    <3> QED BY <3>1, <3>2
  <2> QED BY <1>1, <2>1 DEF RequestApproval, Approve, ConsumeToken, Keeps
<1>2. ASSUME NEW k \in Keys, NEW actual \in Actuals, Reconcile(k, actual)
      PROVE  Gives({k})
  <2>1. Positive(actual - decision[k].alloc) \in Nat
    BY ReservationConstants DEF TablesTypeOK, DecisionRows, Positive
  <2> QED BY <1>2, <2>1 DEF Reconcile, Gives
<1>3. ASSUME NEW batch \in SUBSET Keys, Sweep(batch) PROVE Gives(batch)
  <2>1. 0 \in Nat
    OBVIOUS
  <2> QED BY <1>3, <2>1 DEF Sweep, Gives
<1>4. ASSUME UpkeepStep PROVE Keeps
  BY <1>4 DEF UpkeepStep, UpsertBudget, CreateGrant, Tick, Keeps
<1>5. \A k \in Keys : {k} \in SUBSET Keys
  OBVIOUS
<1> QED BY <1>1, <1>2, <1>3, <1>4, <1>5 DEF TablesNext, ReviewStep, SettleStep, SweepSome

(***************************************************************************)
(* What the refusals and settlements rest on: an active allocation row     *)
(* belongs to a standing decision that has credit, and only an approved    *)
(* request's token is spent.                                               *)
(***************************************************************************)
HoldsFollow ==
  \A k \in Keys, g \in Grants :
    hold[k][g].active => decision[k].active /\ decision[k].credit > 0

TokensFollow == \A k \in Keys : approval[k].consumed => approval[k].status = "APPROVED"

SafeTables == HoldsFollow /\ TokensFollow /\ RefusedHoldsNothing

(* What a closed decision is left with, and that the others are untouched. *)
LEMMA CloseLeaves ==
  ASSUME TablesTypeOK, HoldsFollow, NEW ks \in SUBSET Keys, NEW why, NEW spend,
         Close(ks, why, spend)
  PROVE  /\ \A k \in ks : /\ ~decision'[k].active
                          /\ decision'[k].alloc = 0 /\ decision'[k].credit = 0
                          /\ \A g \in Grants : ~hold'[k][g].active
         /\ \A k \in Keys \ ks : decision'[k] = decision[k] /\ hold'[k] = hold[k]
         /\ \A k \in Keys : decision'[k].outcome = decision[k].outcome
<1>1. /\ \A k \in Keys : decision'[k] = IF k \in ks THEN ClosedRow(k, why, spend)
                                        ELSE decision[k]
      /\ \A k \in Keys, g \in Grants :
           hold'[k][g] = IF k \in ks /\ decision[k].credit > 0 /\ hold[k][g].active
                         THEN SettledHold(k, g, spend) ELSE hold[k][g]
      /\ \A k \in Keys : hold'[k] = [g \in Grants |-> hold'[k][g]]
  BY DEF Close, Settle
<1>2. \A k \in Keys : decision[k] \in DecisionRows /\ hold[k] \in [Grants -> HoldRows]
  BY DEF TablesTypeOK
<1>3. ASSUME NEW k \in ks
      PROVE  /\ ~decision'[k].active /\ decision'[k].alloc = 0 /\ decision'[k].credit = 0
             /\ decision'[k].outcome = decision[k].outcome
  <2>1. decision'[k] = ClosedRow(k, why, spend) /\ decision[k] \in DecisionRows
    BY <1>1, <1>2
  <2>2. ~ClosedRow(k, why, spend).active
    BY <2>1 DEF ClosedRow, DecisionRows
  <2>3. /\ ClosedRow(k, why, spend).alloc = 0 /\ ClosedRow(k, why, spend).credit = 0
        /\ ClosedRow(k, why, spend).outcome = decision[k].outcome
    BY <2>1 DEF ClosedRow, DecisionRows
  <2> QED BY <2>1, <2>2, <2>3
<1>4. ASSUME NEW k \in ks, NEW g \in Grants PROVE ~hold'[k][g].active
  <2>1. CASE hold[k][g].active
    <3>1. decision[k].credit > 0
      BY <2>1 DEF HoldsFollow
    <3>2. hold'[k][g] = SettledHold(k, g, spend) /\ hold[k][g] \in HoldRows
      BY <1>1, <1>2, <2>1, <3>1
    <3> QED BY <3>2 DEF SettledHold, HoldRows
  <2>2. CASE ~hold[k][g].active
    BY <1>1, <2>2
  <2> QED BY <2>1, <2>2
<1>5. ASSUME NEW k \in Keys \ ks PROVE decision'[k] = decision[k] /\ hold'[k] = hold[k]
  <2>1. hold[k] = [g \in Grants |-> hold[k][g]]
    BY <1>2
  <2>2. \A g \in Grants : hold'[k][g] = hold[k][g]
    BY <1>1, <1>5
  <2> QED BY <1>1, <2>1, <2>2
<1> QED BY <1>3, <1>4, <1>5

(* Giving up reservations keeps the holds with their decisions. *)
LEMMA GivesKeepsHolds ==
  ASSUME TablesTypeOK, HoldsFollow, NEW ks \in SUBSET Keys, Gives(ks)
  PROVE  HoldsFollow'
BY CloseLeaves DEF Gives, HoldsFollow

-----------------------------------------------------------------------------
(* Each handler keeps the three parts. *)
LEMMA HandlersSafe ==
  ASSUME TablesTypeOK, SafeTables, TablesNext
  PROVE  SafeTables'
<1>1. HoldsFollow'
  <2>1. CASE UNCHANGED <<decision, hold>>
    BY <2>1 DEF SafeTables, HoldsFollow
  <2> QED BY <2>1, HandlerMoves, GivesKeepsHolds DEF SafeTables, Keeps
<1>2. \A k \in Keys : approval[k] \in ApprovalRows
  BY DEF TablesTypeOK
<1>3. ASSUME NEW k \in Keys, ExpireOnReview(k) \/ Deny(k)
      PROVE  TokensFollow' /\ RefusedHoldsNothing'
  <2>1. PICK why \in Settlements : Close({k}, why, 0)
    BY <1>3 DEF ExpireOnReview, Deny, Settlements
  <2>2. /\ approval'[k].status \in {"DENIED", "EXPIRED"}
        /\ approval'[k].consumed = approval[k].consumed /\ ~approval[k].consumed
        /\ \A j \in Keys \ {k} : approval'[j] = approval[j]
    BY <1>2, <1>3 DEF ExpireOnReview, Deny, SafeTables, TokensFollow, TablesTypeOK, ApprovalRows
  <2>3. {k} \in SUBSET Keys
    OBVIOUS
  <2>4. /\ ~decision'[k].active /\ decision'[k].alloc = 0 /\ decision'[k].credit = 0
        /\ \A g \in Grants : ~hold'[k][g].active
        /\ \A j \in Keys \ {k} : decision'[j] = decision[j] /\ hold'[j] = hold[j]
    BY <2>1, <2>3, CloseLeaves DEF SafeTables
  <2>5. TokensFollow'
    BY <2>2 DEF SafeTables, TokensFollow
  <2>6. RefusedHoldsNothing'
    BY <2>2, <2>4 DEF SafeTables, RefusedHoldsNothing
  <2> QED BY <2>5, <2>6
<1>4. ASSUME NEW k \in Keys, RequestApproval(k) \/ Approve(k) \/ ConsumeToken(k)
      PROVE  TokensFollow' /\ RefusedHoldsNothing'
  <2>1. /\ approval'[k].status \in {"PENDING", "APPROVED"}
        /\ approval'[k].consumed => approval'[k].status = "APPROVED"
        /\ \A j \in Keys \ {k} : approval'[j] = approval[j]
    <3>1. CASE RequestApproval(k)
      BY <3>1 DEF RequestApproval, NewApproval, NoApproval, TablesTypeOK
    <3>2. CASE Approve(k)
      <4>1. ~approval[k].consumed
        BY <3>2 DEF Approve, SafeTables, TokensFollow
      <4> QED BY <1>2, <3>2, <4>1 DEF Approve, TablesTypeOK, ApprovalRows
    <3>3. CASE ConsumeToken(k)
      BY <1>2, <3>3 DEF ConsumeToken, TablesTypeOK, ApprovalRows
    <3> QED BY <1>4, <3>1, <3>2, <3>3
  <2>2. UNCHANGED <<decision, hold>>
    BY <1>4 DEF RequestApproval, Approve, ConsumeToken
  <2> QED BY <2>1, <2>2 DEF SafeTables, TokensFollow, RefusedHoldsNothing
<1>5. ASSUME NEW ks \in SUBSET Keys, \A k \in ks : decision[k].active,
             UNCHANGED approval, NEW why \in Settlements, NEW spend, Close(ks, why, spend)
      PROVE  TokensFollow' /\ RefusedHoldsNothing'
  <2>1. \A k \in Keys \ ks : decision'[k] = decision[k] /\ hold'[k] = hold[k]
    BY <1>5, CloseLeaves DEF SafeTables
  <2>2. \A k \in ks : ~(approval[k].status \in {"DENIED", "EXPIRED"})
    BY <1>5 DEF SafeTables, RefusedHoldsNothing
  <2> QED BY <1>5, <2>1, <2>2 DEF SafeTables, TokensFollow, RefusedHoldsNothing
<1>6. ASSUME NEW k \in Keys, NEW actual \in Actuals, Reconcile(k, actual)
      PROVE  TokensFollow' /\ RefusedHoldsNothing'
  <2>1. {k} \in SUBSET Keys /\ "reconciled" \in Settlements
    BY DEF Settlements
  <2> QED BY <1>5, <1>6, <2>1 DEF Reconcile
<1>7. ASSUME NEW batch \in SUBSET Keys, Sweep(batch)
      PROVE  TokensFollow' /\ RefusedHoldsNothing'
  <2>1. "swept" \in Settlements
    BY DEF Settlements
  <2> QED BY <1>5, <1>7, <2>1 DEF Sweep, Overdue
<1>8. ASSUME UpkeepStep PROVE TokensFollow' /\ RefusedHoldsNothing'
  <2>1. UNCHANGED <<decision, hold, approval>>
    BY <1>8 DEF UpkeepStep, UpsertBudget, CreateGrant, Tick
  <2> QED BY <2>1 DEF SafeTables, TokensFollow, RefusedHoldsNothing
<1>9. TokensFollow' /\ RefusedHoldsNothing'
  BY <1>3, <1>4, <1>6, <1>7, <1>8 DEF TablesNext, ReviewStep, SettleStep, SweepSome
<1> QED BY <1>1, <1>9 DEF SafeTables

(* What recording changes: one key's rows, and those as given. *)
LEMMA RecordLeaves ==
  ASSUME TablesTypeOK, NEW k \in Keys, RecordsNew(k)
  PROVE  /\ \A j \in Keys \ {k} : /\ decision'[j] = decision[j] /\ hold'[j] = hold[j]
                                  /\ approval'[j] = approval[j]
         /\ \A g \in Grants : hold'[k][g].active => decision'[k].active /\ decision'[k].credit > 0
         /\ approval'[k].status \in {"NONE", "PENDING"} /\ ~approval'[k].consumed
<1>1. PICK row \in DecisionRows, drawn \in [Grants -> Nat], request \in ApprovalRows :
        /\ Record(k, row, drawn, request)
        /\ \A g \in Grants : drawn[g] > 0 => row.active /\ row.credit > 0
        /\ request.status \in {"NONE", "PENDING"} /\ ~request.consumed
  BY DEF RecordsNew, Funds
<1>2. /\ decision' = [decision EXCEPT ![k] = row] /\ approval' = [approval EXCEPT ![k] = request]
      /\ hold' = [hold EXCEPT ![k] = [g \in Grants |-> IF drawn[g] > 0 THEN NewHold(drawn[g])
                                                       ELSE NoHold]]
  BY <1>1 DEF Record
<1>3. decision'[k] = row /\ approval'[k] = request
  BY <1>2 DEF TablesTypeOK
<1>4. ASSUME NEW g \in Grants, hold'[k][g].active PROVE drawn[g] > 0
  BY <1>2, <1>4 DEF TablesTypeOK, NoHold
<1> QED BY <1>1, <1>2, <1>3, <1>4 DEF TablesTypeOK

(* The three parts hold after every step. *)
LEMMA SafeTablesKept == TypeOK /\ SafeTables /\ [Next]_vars => SafeTables'
<1> SUFFICES ASSUME TypeOK, SafeTables, [Next]_vars PROVE SafeTables'
  OBVIOUS
<1>1. CASE UNCHANGED tables
  BY <1>1 DEF tables, SafeTables, HoldsFollow, TokensFollow, RefusedHoldsNothing
<1>2. ASSUME NEW k \in Keys, RecordsNew(k) PROVE SafeTables'
  <2>1. TablesTypeOK
    BY DEF TypeOK
  <2> QED BY <1>2, <2>1, RecordLeaves
          DEF SafeTables, HoldsFollow, TokensFollow, RefusedHoldsNothing
<1>3. CASE TablesNext
  BY <1>3, HandlersSafe DEF TypeOK
<1> QED BY <1>1, <1>2, <1>3, TableMoves

(* And initially. *)
LEMMA SafeTablesAtStart == Init => SafeTables
BY DEF Init, TablesInit, SafeTables, HoldsFollow, TokensFollow, RefusedHoldsNothing, NoHold,
       NoApproval

(***************************************************************************)
(* An approval that was denied or expired leaves nothing reserved and no   *)
(* token spent on it, whatever happened to its decision before.            *)
(***************************************************************************)
THEOREM RefusalReleases == Spec => []RefusedHoldsNothing
<1>1. SafeTables => RefusedHoldsNothing
  BY DEF SafeTables
<1> QED BY <1>1, TypesAtStart, TypesKept, SafeTablesAtStart, SafeTablesKept, PTL DEF Spec

-----------------------------------------------------------------------------
(* What SettlementIsFinal says of a step. *)
Final ==
  \A k \in Keys : (Recorded(k) /\ ~decision[k].active) =>
    /\ ~decision[k].active' /\ decision[k].spent' = decision[k].spent
    /\ hold[k]' = hold[k]

(* A decision that was given up is given up again only to no effect. *)
LEMMA GivesFinal ==
  ASSUME TablesTypeOK, HoldsFollow, NEW ks \in SUBSET Keys, Gives(ks)
  PROVE  Final
<1> SUFFICES ASSUME NEW k \in Keys, ~decision[k].active
             PROVE  /\ ~decision'[k].active /\ decision'[k].spent = decision[k].spent
                    /\ hold'[k] = hold[k]
  BY DEF Final
<1>1. PICK why \in Settlements, spend \in Nat :
        /\ Close(ks, why, spend) /\ \A j \in ks : decision[j].active \/ spend = 0
  BY DEF Gives
<1>2. CASE k \notin ks
  BY <1>1, <1>2, CloseLeaves
<1>3. CASE k \in ks
  <2>1. ~decision'[k].active
    BY <1>1, <1>3, CloseLeaves
  <2>2. spend = 0 /\ decision[k] \in DecisionRows /\ hold[k] \in [Grants -> HoldRows]
    BY <1>1, <1>3 DEF TablesTypeOK
  <2>3. Spending(k, spend) = 0
    BY <2>2 DEF Spending, Least, DecisionRows
  <2>4. decision'[k] = ClosedRow(k, why, spend)
    BY <1>1, <1>3 DEF Close
  <2>5. decision'[k].spent = decision[k].spent
    BY <2>2, <2>3, <2>4 DEF ClosedRow, DecisionRows
  <2>6. \A g \in Grants : ~hold[k][g].active
    BY DEF HoldsFollow
  <2>7. hold'[k] = [g \in Grants |-> hold[k][g]]
    BY <1>1, <2>6 DEF Close, Settle
  <2> QED BY <2>1, <2>2, <2>5, <2>7
<1> QED BY <1>2, <1>3

(* Every step is final in this sense. *)
LEMMA StepsFinal == TypeOK /\ SafeTables /\ [Next]_vars => Final
<1> SUFFICES ASSUME TypeOK, SafeTables, [Next]_vars PROVE Final
  OBVIOUS
<1>1. CASE UNCHANGED tables
  BY <1>1 DEF tables, Final
<1>2. ASSUME NEW k \in Keys, RecordsNew(k) PROVE Final
  <2>1. ~Recorded(k) /\ TablesTypeOK
    BY <1>2 DEF RecordsNew, TypeOK
  <2> QED BY <1>2, <2>1, RecordLeaves DEF Final
<1>3. CASE TablesNext
  <2>1. CASE UNCHANGED <<decision, hold>>
    BY <2>1 DEF Final
  <2> QED BY <1>3, <2>1, HandlerMoves, GivesFinal DEF SafeTables, TypeOK, Keeps
<1> QED BY <1>1, <1>2, <1>3, TableMoves

(***************************************************************************)
(* A reservation is settled once: denial, expiry, sweep and reconciliation *)
(* of a decision that no longer stands change none of its accounts.        *)
(***************************************************************************)
THEOREM SettledOnce == Spec => SettlementIsFinal
<1>1. TypeOK /\ SafeTables /\ [Next]_vars => [Final]_vars
  BY StepsFinal
<1>2. Spec => [][Final]_vars
  BY <1>1, TypesAtStart, TypesKept, SafeTablesAtStart, SafeTablesKept, PTL DEF Spec
<1> QED BY <1>2 DEF SettlementIsFinal, Final

-----------------------------------------------------------------------------
(* What is recorded under a key keeps its outcome. *)
LEMMA OutcomesStand ==
  ASSUME TypeOK, SafeTables, [Next]_vars, NEW k \in Keys, Recorded(k)
  PROVE  decision'[k].outcome = decision[k].outcome
<1>1. CASE UNCHANGED tables
  BY <1>1 DEF tables
<1>2. ASSUME NEW j \in Keys, RecordsNew(j) PROVE decision'[k] = decision[k]
  <2>1. ~Recorded(j) /\ TablesTypeOK
    BY <1>2 DEF RecordsNew, TypeOK
  <2> QED BY <1>2, <2>1, RecordLeaves
<1>3. CASE TablesNext
  <2>1. CASE UNCHANGED <<decision, hold>>
    BY <2>1
  <2>2. ASSUME NEW ks \in SUBSET Keys, Gives(ks)
        PROVE  decision'[k].outcome = decision[k].outcome
    BY <2>2, CloseLeaves DEF Gives, SafeTables, TypeOK
  <2> QED BY <1>3, <2>1, <2>2, HandlerMoves DEF TypeOK, Keeps
<1> QED BY <1>1, <1>2, <1>3, TableMoves

(* The reply of a call is given by Reply, and is no outcome elsewhere. *)
Answered(r, q) ==
  \/ gate'[q].reply = gate[q].reply
  \/ gate'[q].reply \notin Outcomes
  \/ q = r /\ decision'[Key(r)].outcome = gate'[r].reply

(* A call that moves on without an answer. *)
LEMMA SilentMove ==
  ASSUME TypeOK, NEW r \in Requests, NEW q \in Requests, NEW s,
         gate' = [gate EXCEPT ![r] = s], s.reply = gate[r].reply \/ s.reply \notin Outcomes
  PROVE  Answered(r, q)
BY DEF TypeOK, Answered

(* A call that is answered `what`, when that is what stands under its key. *)
LEMMA SpokenMove ==
  ASSUME TypeOK, NEW r \in Requests, NEW q \in Requests, NEW what, Reply(r, what),
         decision'[Key(r)].outcome = what
  PROVE  Answered(r, q)
<1> DEFINE s == [Blank EXCEPT !.pc = "done", !.reply = what]
<1>1. gate' = [gate EXCEPT ![r] = s] /\ s.reply = what
  BY DEF Reply, Blank
<1> HIDE DEF s
<1> QED BY <1>1 DEF TypeOK, Answered

(* A call that is answered with what was recorded. *)
LEMMA RecordedMove ==
  ASSUME TypeOK, NEW r \in Requests, NEW q \in Requests, AnswerRecorded(r)
  PROVE  Answered(r, q)
BY SpokenMove DEF AnswerRecorded, tables

(* A call that moves on with one value read. *)
LEMMA AdvanceMove ==
  ASSUME TypeOK, NEW r \in Requests, NEW q \in Requests, NEW pc, NEW field, NEW value,
         field # "reply", Advance(r, pc, field, value)
  PROVE  Answered(r, q)
<1> DEFINE s == [[gate[r] EXCEPT !.pc = pc] EXCEPT ![field] = value]
<1>1. gate' = [gate EXCEPT ![r] = s]
  BY DEF Advance, TypeOK
<1>2. s.reply = gate[r].reply
  BY DEF TypeOK, GateStates
<1> HIDE DEF s
<1> QED BY <1>1, <1>2, SilentMove

(* No step answers a call with anything but what then stands under its key. *)
LEMMA StepsAnswer ==
  ASSUME TypeOK, NEW r \in Requests, GateStep(r), NEW q \in Requests
  PROVE  Answered(r, q)
<1>1. gate[r] \in GateStates
  BY DEF TypeOK
<1>2. CASE Persist(r)
  <2>1. CASE AnswerRecorded(r)
    BY <2>1, RecordedMove
  <2>2. CASE Refused(r)
    <3> DEFINE s == [Blank EXCEPT !.pc = "done", !.reply = "short", !.at = gate[r].at]
    <3>1. gate' = [gate EXCEPT ![r] = s] /\ s.reply \notin Outcomes
      BY <2>2 DEF Refused, Blank, Outcomes
    <3> HIDE DEF s
    <3> QED BY <3>1, SilentMove
  <2>3. ASSUME NEW u \in BOOLEAN, Records(r, u), Reply(r, Row(r, u).outcome)
        PROVE  Answered(r, q)
    <3>1. decision'[Key(r)] = Row(r, u)
      BY <2>3, InputTypes DEF Records, Record, TypeOK, TablesTypeOK
    <3> QED BY <2>3, <3>1, SpokenMove
  <2>4. CASE CutOff(r)
    <3> DEFINE s == [Blank EXCEPT !.pc = "fsContext"]
    <3>1. gate' = [gate EXCEPT ![r] = s] /\ s.reply \notin Outcomes
      BY <2>4 DEF CutOff, Blank, Outcomes
    <3> HIDE DEF s
    <3> QED BY <3>1, SilentMove
  <2> QED BY <1>2, <2>1, <2>2, <2>3, <2>4, PersistCases
<1>3. CASE FailSafePersist(r)
  <2>1. CASE AnswerRecorded(r)
    BY <2>1, RecordedMove
  <2>2. CASE ~AnswerRecorded(r)
    <3>1. Reply(r, FailSafeRow(r).outcome) /\ decision'[Key(r)] = FailSafeRow(r)
      BY <1>3, <2>2, InputTypes DEF FailSafePersist, Record, TypeOK, TablesTypeOK
    <3> QED BY <3>1, SpokenMove
  <2> QED BY <2>1, <2>2
<1>4. CASE EvaluationFails(r)
  <2> DEFINE s == [Blank EXCEPT !.pc = "fsContext"]
  <2>1. gate' = [gate EXCEPT ![r] = s] /\ s.reply \notin Outcomes
    BY <1>4 DEF EvaluationFails, Blank, Outcomes
  <2> HIDE DEF s
  <2> QED BY <2>1, SilentMove
<1>5. CASE RequestLost(r)
  <2> DEFINE s == [Blank EXCEPT !.pc = "done", !.reply = "error"]
  <2>1. gate' = [gate EXCEPT ![r] = s] /\ s.reply \notin Outcomes
    BY <1>5 DEF RequestLost, Reply, Blank, Outcomes
  <2> HIDE DEF s
  <2> QED BY <2>1, SilentMove
<1>6. CASE Lookup(r) \/ Recheck(r) \/ FailSafeLookup(r)
  BY <1>6, RecordedMove, AdvanceMove DEF Lookup, Recheck, FailSafeLookup
<1>7. CASE \/ BuildContext(r) \/ LockTimeout(r) \/ ReadBudget(r) \/ ReadReservedGrants(r)
           \/ ReadEmergencyGrants(r) \/ ReadDecisionCredit(r)
  BY <1>7, AdvanceMove DEF BuildContext, LockTimeout, ReadBudget, ReadReservedGrants,
                           ReadEmergencyGrants, ReadDecisionCredit
<1>8. CASE \/ AcquireLock(r) \/ ReadReservedTotals(r) \/ ReadMappedCredit(r)
           \/ FailSafeContext(r)
  <2>1. gate'[q].reply = gate[q].reply
    BY <1>8 DEF AcquireLock, ReadReservedTotals, ReadMappedCredit, FailSafeContext, TypeOK,
                GateStates
  <2> QED BY <2>1 DEF Answered
<1> QED BY <1>2, <1>3, <1>4, <1>5, <1>6, <1>7, <1>8
        DEF GateStep, Evaluation

(* No step changes what a call asks. *)
LEMMA InputsFixed == [Next]_vars => input' = input
<1> SUFFICES ASSUME [Next]_vars PROVE input' = input
  OBVIOUS
<1>1. ASSUME NEW r \in Requests, GateStep(r) PROVE input' = input
  <2>1. CASE Persist(r)
    BY <2>1, PersistCases DEF AnswerRecorded, Reply, Refused, CutOff
  <2>2. CASE FailSafePersist(r) \/ EvaluationFails(r) \/ RequestLost(r)
    BY <2>2 DEF FailSafePersist, EvaluationFails, RequestLost, AnswerRecorded, Reply
  <2>3. CASE Lookup(r) \/ Recheck(r) \/ FailSafeLookup(r)
    BY <2>3 DEF Lookup, Recheck, FailSafeLookup, AnswerRecorded, Reply, Advance
  <2>4. CASE BuildContext(r) \/ AcquireLock(r) \/ LockTimeout(r) \/ FailSafeContext(r)
    BY <2>4 DEF BuildContext, AcquireLock, LockTimeout, FailSafeContext, Advance
  <2>5. CASE \/ ReadReservedTotals(r) \/ ReadBudget(r) \/ ReadReservedGrants(r)
             \/ ReadEmergencyGrants(r) \/ ReadDecisionCredit(r) \/ ReadMappedCredit(r)
    BY <2>5 DEF ReadReservedTotals, ReadBudget, ReadReservedGrants, ReadEmergencyGrants,
                ReadDecisionCredit, ReadMappedCredit, Advance
  <2> QED BY <1>1, <2>1, <2>2, <2>3, <2>4, <2>5 DEF GateStep, Evaluation
<1>2. CASE (\E p \in Policies : UpdatePolicy(p)) \/ UNCHANGED gateVars \/ UNCHANGED vars
  BY <1>2 DEF UpdatePolicy, vars, gateVars
<1> QED BY <1>1, <1>2 DEF Next

(* So what a call was told stands. *)
LEMMA RepliesKept ==
  TypeOK /\ SafeTables /\ RepliesAreDurable /\ [Next]_vars => RepliesAreDurable'
<1> SUFFICES ASSUME TypeOK, SafeTables, RepliesAreDurable, [Next]_vars,
                    NEW q \in Requests, gate'[q].reply \in Outcomes
             PROVE  decision'[Key(q)'].outcome = gate'[q].reply
  BY DEF RepliesAreDurable
<1>1. Key(q)' = Key(q) /\ Key(q) \in Keys
  BY InputsFixed, InputTypes DEF Key
<1>2. CASE gate'[q].reply = gate[q].reply
  <2>1. decision[Key(q)].outcome = gate[q].reply
    BY <1>2 DEF RepliesAreDurable
  <2>2. Recorded(Key(q))
    BY <1>2, <2>1 DEF Recorded, Outcomes
  <2> QED BY <1>1, <1>2, <2>1, <2>2, OutcomesStand
<1>3. CASE gate'[q].reply # gate[q].reply
  <2>1. PICK r \in Requests : GateStep(r)
    BY <1>3 DEF Next, UpdatePolicy, vars, gateVars
  <2>2. Answered(r, q)
    BY <2>1, StepsAnswer
  <2> QED BY <1>1, <1>3, <2>2 DEF Answered
<1> QED BY <1>2, <1>3

(* No call has been answered initially. *)
LEMMA RepliesAtStart == Init => RepliesAreDurable
BY DEF Init, RepliesAreDurable, Blank, Outcomes

(***************************************************************************)
(* The decision a call answers with is recorded under its key for good,    *)
(* also when a retry or a fail-safe path races the evaluation.             *)
(***************************************************************************)
THEOREM AnswersStand == Spec => []RepliesAreDurable
BY TypesAtStart, TypesKept, SafeTablesAtStart, SafeTablesKept, RepliesAtStart, RepliesKept, PTL
   DEF Spec

-----------------------------------------------------------------------------
(***************************************************************************)
(* A settlement splits what a decision's rows hold, grant by grant, in     *)
(* what is consumed and what is released, and consumes what it says.       *)
(***************************************************************************)
LEMMA SettlementSplits ==
  ASSUME TablesTypeOK, NEW k \in Keys, NEW spend \in Nat,
         Total(ActiveHolds(k)) = decision[k].credit
  PROVE  /\ Total(Consumed(k, spend)) = Spending(k, spend)
         /\ \A g \in Grants : /\ Consumed(k, spend)[g] <= ActiveHolds(k)[g]
                              /\ Released(k, spend)[g] = ActiveHolds(k)[g] - Consumed(k, spend)[g]
<1> DEFINE held == ActiveHolds(k)
           used == Consumed(k, spend)
           left == [g \in Grants |-> held[g] - used[g]]
           credit == decision[k].credit
           cost == Spending(k, spend)
           p    == decision[k].project
<1>1. IsFiniteSet(Grants) /\ credit \in Nat /\ cost \in Nat /\ cost <= credit
  BY ReservationConstants, SettlementTypes DEF Spending, Least, TablesTypeOK, DecisionRows
<1>2. held \in [Grants -> Nat]
  BY ActiveHoldsType
<1>3. used = Draw(held, cost, p) /\ Released(k, spend) = Draw(left, credit - cost, p)
  BY DEF Consumed, Released
<1> HIDE DEF held, used, cost, credit, p
<1>4. used \in [Grants -> Nat] /\ \A g \in Grants : used[g] <= held[g]
  BY <1>1, <1>2, <1>3, DrawType
<1>5. Total(used) = cost
  <2>1. Total(used) = Least(cost, credit)
    BY <1>1, <1>2, <1>3, DrawTotal DEF held, credit
  <2> QED BY <1>1, <2>1 DEF Least
<1>6. left \in [Grants -> Nat] /\ \A g \in Grants : held[g] = used[g] + left[g]
  BY <1>2, <1>4
<1>7. \A g \in Grants : left[g] = held[g] - used[g]
  OBVIOUS
<1> HIDE DEF left
<1>8. Total(held) = Total(used) + Total(left) /\ Total(left) \in Nat
  BY <1>1, <1>2, <1>4, <1>6, TotalSum, TotalType
<1>9. Total(left) = credit - cost
  BY <1>1, <1>5, <1>8 DEF held, credit
<1>10. Released(k, spend) = left
  BY <1>3, <1>6, <1>9, DrawAll
<1> QED BY <1>4, <1>5, <1>7, <1>10 DEF held, used, cost

-----------------------------------------------------------------------------
(***************************************************************************)
(* The accounts of the decisions.  An unrecorded key has no accounts; a    *)
(* standing decision has spent nothing yet, in its row or in its holds.    *)
(***************************************************************************)
Fresh ==
  \A k \in Keys : ~Recorded(k) =>
    ~decision[k].active /\ \A g \in Grants : hold[k][g].consumed = 0

Unspent ==
  \A k \in Keys : decision[k].active =>
    /\ decision[k].settled = "open" /\ decision[k].spent = 0
    /\ \A g \in Grants : hold[k][g].consumed = 0

Accounts == Fresh /\ Unspent /\ HoldsBackDecisions /\ SpendMatchesRows

(* Only a standing decision is ever paid out, and its rows hold its credit. *)
LEMMA PayingStands ==
  ASSUME TablesTypeOK, HoldsFollow, HoldsBackDecisions, NEW ks \in SUBSET Keys, NEW why,
         NEW spend, Close(ks, why, spend), NEW k \in ks, decision[k].credit > 0
  PROVE  decision[k].active /\ Total(ActiveHolds(k)) = decision[k].credit
<1>1. Settleable(k)
  BY DEF Close, Settle
<1>2. decision[k].active
  BY <1>1 DEF Settleable, HoldsFollow
<1> QED BY <1>2 DEF HoldsBackDecisions

(* What a closed decision's rows read afterwards. *)
LEMMA CloseRows ==
  ASSUME TablesTypeOK, HoldsFollow, Unspent, HoldsBackDecisions, NEW ks \in SUBSET Keys,
         NEW why, NEW spend \in Nat, Close(ks, why, spend), NEW k \in ks, decision[k].active
  PROVE  /\ decision'[k].spent = Spending(k, spend)
         /\ decision'[k].settled = why
         /\ Total([g \in Grants |-> hold'[k][g].consumed]) = Spending(k, spend)
<1>1. /\ decision[k] \in DecisionRows /\ hold[k] \in [Grants -> HoldRows]
      /\ decision[k].settled = "open" /\ decision[k].spent = 0
      /\ \A g \in Grants : hold[k][g].consumed = 0
  BY DEF TablesTypeOK, Unspent
<1>2. Spending(k, spend) \in Nat
  BY SettlementTypes
<1>3. decision'[k] = ClosedRow(k, why, spend)
  BY DEF Close
<1>4. decision'[k].spent = Spending(k, spend) /\ decision'[k].settled = why
  BY <1>1, <1>2, <1>3 DEF ClosedRow, DecisionRows
<1>5. \A g \in Grants :
        hold'[k][g] = IF decision[k].credit > 0 /\ hold[k][g].active
                      THEN SettledHold(k, g, spend) ELSE hold[k][g]
  BY DEF Close, Settle
<1>6. CASE decision[k].credit > 0
  <2>1. Total(ActiveHolds(k)) = decision[k].credit
    BY <1>6, PayingStands
  <2>2. /\ Total(Consumed(k, spend)) = Spending(k, spend)
        /\ Consumed(k, spend) \in [Grants -> Nat]
        /\ \A g \in Grants : Consumed(k, spend)[g] <= ActiveHolds(k)[g]
    BY <2>1, SettlementSplits, SettlementTypes
  <2>3. ASSUME NEW g \in Grants PROVE hold'[k][g].consumed = Consumed(k, spend)[g]
    <3>1. CASE hold[k][g].active
      BY <1>1, <1>5, <1>6, <3>1 DEF SettledHold, HoldRows
    <3>2. CASE ~hold[k][g].active
      <4>1. ActiveHolds(k)[g] = 0
        BY <3>2 DEF ActiveHolds
      <4>2. Consumed(k, spend)[g] = 0
        BY <2>2, <4>1
      <4> QED BY <1>1, <1>5, <3>2, <4>2
    <3> QED BY <3>1, <3>2
  <2>4. [g \in Grants |-> hold'[k][g].consumed] = Consumed(k, spend)
    BY <2>2, <2>3
  <2> QED BY <1>4, <2>2, <2>4
<1>7. CASE ~(decision[k].credit > 0)
  <2>1. Spending(k, spend) = 0
    BY <1>1, <1>7 DEF Spending, Least, DecisionRows
  <2>2. \A g \in Grants : hold'[k][g].consumed = 0
    BY <1>1, <1>5, <1>7
  <2>3. Total([g \in Grants |-> hold'[k][g].consumed]) = 0
    <3> DEFINE rows == [g \in Grants |-> hold'[k][g].consumed]
    <3>1. rows \in [Grants -> Nat] /\ \A g \in Grants : rows[g] = 0
      BY <2>2
    <3> HIDE DEF rows
    <3>2. Total(rows) = 0
      BY <3>1, TotalZero
    <3> QED BY <3>2 DEF rows
  <2> QED BY <1>4, <2>1, <2>3
<1> QED BY <1>6, <1>7

(* A decision without active rows holds nothing. *)
LEMMA NoHolds ==
  ASSUME NEW row \in [Grants -> HoldRows], \A g \in Grants : ~row[g].active
  PROVE  Total([g \in Grants |-> IF row[g].active THEN row[g].reserved ELSE 0]) = 0
<1> DEFINE f == [g \in Grants |-> IF row[g].active THEN row[g].reserved ELSE 0]
<1>1. f \in [Grants -> Nat] /\ \A g \in Grants : f[g] = 0
  OBVIOUS
<1> HIDE DEF f
<1>2. Total(f) = 0
  BY <1>1, TotalZero
<1> QED BY <1>2 DEF f

(* Giving reservations up keeps the accounts. *)
LEMMA GivesKeepsAccounts ==
  ASSUME TablesTypeOK, TablesTypeOK', HoldsFollow, Accounts, NEW ks \in SUBSET Keys, Gives(ks)
  PROVE  Accounts'
<1>1. PICK why \in Settlements, spend \in Nat :
        /\ Close(ks, why, spend) /\ \A j \in ks : decision[j].active \/ spend = 0
        /\ spend > 0 => why = "reconciled"
  BY DEF Gives
<1>2. /\ \A k \in ks : ~decision'[k].active /\ \A g \in Grants : ~hold'[k][g].active
      /\ \A k \in Keys \ ks : decision'[k] = decision[k] /\ hold'[k] = hold[k]
      /\ \A k \in Keys : decision'[k].outcome = decision[k].outcome
  BY <1>1, CloseLeaves
<1>3. ASSUME NEW k \in ks, ~decision[k].active
      PROVE  /\ hold'[k] = hold[k] /\ decision'[k].spent = decision[k].spent
             /\ decision[k].settled # "open" => decision'[k].settled = decision[k].settled
  <2>1. spend = 0 /\ decision[k] \in DecisionRows /\ hold[k] \in [Grants -> HoldRows]
    BY <1>1, <1>3 DEF TablesTypeOK
  <2>2. Spending(k, spend) = 0
    BY <2>1 DEF Spending, Least, DecisionRows
  <2>3. decision'[k] = ClosedRow(k, why, spend)
    BY <1>1 DEF Close
  <2>4. decision'[k].spent = decision[k].spent
        /\ (decision[k].settled # "open" => decision'[k].settled = decision[k].settled)
    BY <2>1, <2>2, <2>3 DEF ClosedRow, DecisionRows
  <2>5. \A g \in Grants : ~hold[k][g].active
    BY <1>3 DEF HoldsFollow
  <2>6. hold'[k] = [g \in Grants |-> hold[k][g]]
    BY <1>1, <2>5 DEF Close, Settle
  <2> QED BY <2>1, <2>4, <2>6
<1>4. Fresh'
  <2> SUFFICES ASSUME NEW k \in Keys, decision'[k].outcome = "NONE"
               PROVE  ~decision'[k].active /\ \A g \in Grants : hold'[k][g].consumed = 0
    BY DEF Fresh, Recorded
  <2>1. ~decision[k].active /\ \A g \in Grants : hold[k][g].consumed = 0
    BY <1>2 DEF Accounts, Fresh, Recorded
  <2> QED BY <1>2, <1>3, <2>1
<1>5. Unspent'
  BY <1>2 DEF Accounts, Unspent
<1>6. HoldsBackDecisions'
  <2> SUFFICES ASSUME NEW k \in Keys
               PROVE  Total(ActiveHolds(k)') = IF decision'[k].active THEN decision'[k].credit ELSE 0
    BY DEF HoldsBackDecisions
  <2>1. CASE k \in ks
    <3>1. hold'[k] \in [Grants -> HoldRows] /\ \A g \in Grants : ~hold'[k][g].active
      BY <1>2, <2>1 DEF TablesTypeOK
    <3>2. Total(ActiveHolds(k)') = 0
      BY <3>1, NoHolds DEF ActiveHolds
    <3> QED BY <1>2, <2>1, <3>2
  <2>2. CASE k \notin ks
    <3>1. ActiveHolds(k)' = ActiveHolds(k)
      BY <1>2, <2>2 DEF ActiveHolds
    <3> QED BY <1>2, <2>2, <3>1 DEF Accounts, HoldsBackDecisions
  <2> QED BY <2>1, <2>2
<1>7. SpendMatchesRows'
  <2> SUFFICES ASSUME NEW k \in Keys
               PROVE  /\ decision'[k].spent = Total([g \in Grants |-> hold'[k][g].consumed])
                      /\ decision'[k].spent > 0 => decision'[k].settled = "reconciled"
    BY DEF SpendMatchesRows
  <2>1. CASE k \in ks /\ decision[k].active
    <3>1. /\ decision'[k].spent = Spending(k, spend) /\ decision'[k].settled = why
          /\ Total([g \in Grants |-> hold'[k][g].consumed]) = Spending(k, spend)
      BY <1>1, <2>1, CloseRows DEF Accounts
    <3>2. Spending(k, spend) <= spend /\ Spending(k, spend) \in Nat
      BY SettlementTypes DEF Spending, Least, TablesTypeOK, DecisionRows
    <3> QED BY <1>1, <3>1, <3>2
  <2>2. CASE k \notin ks \/ ~decision[k].active
    <3>1. /\ hold'[k] = hold[k] /\ decision'[k].spent = decision[k].spent
          /\ decision[k].settled # "open" => decision'[k].settled = decision[k].settled
      BY <1>2, <1>3, <2>2
    <3>2. /\ decision[k].spent = Total([g \in Grants |-> hold[k][g].consumed])
          /\ decision[k].spent > 0 => decision[k].settled = "reconciled"
      BY DEF Accounts, SpendMatchesRows
    <3> QED BY <3>1, <3>2
  <2> QED BY <2>1, <2>2
<1> QED BY <1>4, <1>5, <1>6, <1>7 DEF Accounts

(* So does recording a decision. *)
LEMMA RecordKeepsAccounts ==
  ASSUME TablesTypeOK, TablesTypeOK', Accounts, NEW k \in Keys, RecordsNew(k)
  PROVE  Accounts'
<1>1. PICK row \in DecisionRows, drawn \in [Grants -> Nat], request \in ApprovalRows :
        Record(k, row, drawn, request) /\ NewRow(row) /\ Funds(row, drawn)
  BY DEF RecordsNew
<1>2. \A j \in Keys \ {k} : decision'[j] = decision[j] /\ hold'[j] = hold[j]
  BY RecordLeaves
<1>3. decision'[k] = row
  BY <1>1 DEF Record, TablesTypeOK
<1>4. \A g \in Grants : hold'[k][g] = IF drawn[g] > 0 THEN NewHold(drawn[g]) ELSE NoHold
  BY <1>1 DEF Record, TablesTypeOK
<1>5. ASSUME NEW g \in Grants
      PROVE  /\ hold'[k][g].consumed = 0
             /\ (IF hold'[k][g].active THEN hold'[k][g].reserved ELSE 0) = drawn[g]
  <2>1. drawn[g] \in Nat
    OBVIOUS
  <2>2. CASE drawn[g] > 0
    BY <1>4, <2>2 DEF NewHold, NoHold
  <2>3. CASE drawn[g] = 0
    BY <1>4, <2>3 DEF NoHold
  <2> QED BY <2>1, <2>2, <2>3
<1>6. ActiveHolds(k)' = drawn
  BY <1>5 DEF ActiveHolds
<1>7. Total([g \in Grants |-> hold'[k][g].consumed]) = 0
  <2> DEFINE rows == [g \in Grants |-> hold'[k][g].consumed]
  <2>1. rows \in [Grants -> Nat] /\ \A g \in Grants : rows[g] = 0
    BY <1>5
  <2> HIDE DEF rows
  <2>2. Total(rows) = 0
    BY <2>1, TotalZero
  <2> QED BY <2>2 DEF rows
<1>8. Fresh'
  BY <1>1, <1>2, <1>3, <1>5 DEF Accounts, Fresh, Recorded, NewRow
<1>9. Unspent'
  BY <1>1, <1>2, <1>3, <1>5 DEF Accounts, Unspent, NewRow
<1>10. HoldsBackDecisions'
  <2> SUFFICES ASSUME NEW j \in Keys
               PROVE  Total(ActiveHolds(j)') = IF decision'[j].active THEN decision'[j].credit ELSE 0
    BY DEF HoldsBackDecisions
  <2>1. CASE j = k
    BY <1>1, <1>3, <1>6, <2>1 DEF Funds
  <2>2. CASE j # k
    <3>1. ActiveHolds(j)' = ActiveHolds(j)
      BY <1>2, <2>2 DEF ActiveHolds
    <3> QED BY <1>2, <2>2, <3>1 DEF Accounts, HoldsBackDecisions
  <2> QED BY <2>1, <2>2
<1>11. SpendMatchesRows'
  <2> SUFFICES ASSUME NEW j \in Keys
               PROVE  /\ decision'[j].spent = Total([g \in Grants |-> hold'[j][g].consumed])
                      /\ decision'[j].spent > 0 => decision'[j].settled = "reconciled"
    BY DEF SpendMatchesRows
  <2>1. CASE j = k
    BY <1>1, <1>3, <1>7, <2>1 DEF NewRow
  <2>2. CASE j # k
    BY <1>2, <2>2 DEF Accounts, SpendMatchesRows
  <2> QED BY <2>1, <2>2
<1> QED BY <1>8, <1>9, <1>10, <1>11 DEF Accounts

(* Every step keeps the accounts. *)
LEMMA AccountsKept ==
  TypeOK /\ TypeOK' /\ SafeTables /\ Accounts /\ [Next]_vars => Accounts'
<1> SUFFICES ASSUME TypeOK, TypeOK', SafeTables, Accounts, [Next]_vars PROVE Accounts'
  OBVIOUS
<1>1. TablesTypeOK /\ TablesTypeOK' /\ HoldsFollow
  BY DEF TypeOK, SafeTables
<1>2. CASE UNCHANGED <<decision, hold>>
  BY <1>2 DEF Accounts, Fresh, Unspent, HoldsBackDecisions, SpendMatchesRows, Recorded,
              ActiveHolds
<1>3. ASSUME NEW k \in Keys, RecordsNew(k) PROVE Accounts'
  BY <1>1, <1>3, RecordKeepsAccounts
<1>4. CASE TablesNext
  BY <1>1, <1>2, <1>4, HandlerMoves, GivesKeepsAccounts DEF Keeps
<1>5. CASE UNCHANGED tables
  BY <1>2, <1>5 DEF tables
<1> QED BY <1>3, <1>4, <1>5, TableMoves

(* Nothing is recorded and nothing held initially. *)
LEMMA AccountsAtStart == Init => Accounts
<1> SUFFICES ASSUME Init PROVE Accounts
  OBVIOUS
<1> DEFINE none == [g \in Grants |-> 0]
<1>1. none \in [Grants -> Nat] /\ \A g \in Grants : none[g] = 0
  OBVIOUS
<1>2. \A k \in Keys : /\ ~decision[k].active /\ decision[k].credit = 0 /\ decision[k].spent = 0
                      /\ \A g \in Grants : hold[k][g] = NoHold
  BY DEF Init, TablesInit, NoDecision
<1>3. ASSUME NEW k \in Keys
      PROVE  /\ ActiveHolds(k) = none
             /\ [g \in Grants |-> hold[k][g].consumed] = none
  BY <1>2 DEF ActiveHolds, NoHold
<1>4. Total(none) = 0
  <2> HIDE DEF none
  <2> QED BY <1>1, TotalZero
<1> HIDE DEF none
<1>5. Fresh /\ Unspent
  BY <1>2 DEF Fresh, Unspent, NoHold
<1>6. HoldsBackDecisions /\ SpendMatchesRows
  BY <1>2, <1>3, <1>4 DEF HoldsBackDecisions, SpendMatchesRows
<1> QED BY <1>5, <1>6 DEF Accounts

(* All of the above, of every state. *)
LEMMA AccountsHold == Spec => [](TypeOK /\ SafeTables /\ Accounts)
BY TypesAtStart, TypesKept, SafeTablesAtStart, SafeTablesKept, AccountsAtStart, AccountsKept, PTL
   DEF Spec

(***************************************************************************)
(* The credit of a standing decision is exactly what its allocation rows   *)
(* hold, and any other decision holds nothing: settlement_credit's errors  *)
(* about missing rows and drift are never raised.                          *)
(***************************************************************************)
THEOREM HoldsMatchDecisions == Spec => []HoldsBackDecisions
<1>1. Accounts => HoldsBackDecisions
  BY DEF Accounts
<1> QED BY <1>1, AccountsHold, PTL

(***************************************************************************)
(* What a reconciliation records as consumed is what its rows consumed,    *)
(* and nothing but a reconciliation consumes.                              *)
(***************************************************************************)
THEOREM SpendingRecorded == Spec => []SpendMatchesRows
<1>1. Accounts => SpendMatchesRows
  BY DEF Accounts
<1> QED BY <1>1, AccountsHold, PTL

-----------------------------------------------------------------------------
(***************************************************************************)
(* The moves of credit.  Holds of m[g] of each grant end and s[g] of that  *)
(* is spent; m[g] of each grant is taken; one grant is issued; nothing     *)
(* moves.                                                                  *)
(***************************************************************************)
Ends(m, s) ==
  \A g \in Grants : /\ s[g] <= m[g] /\ m[g] <= Held(g)
                    /\ Held(g)' = Held(g) - m[g] /\ Spent(g)' = Spent(g) + s[g]
                    /\ grant'[g].remaining = grant[g].remaining + (m[g] - s[g])
                    /\ grant'[g].issued = grant[g].issued

Takes(m) ==
  \A g \in Grants : /\ m[g] <= grant[g].remaining
                    /\ Held(g)' = Held(g) + m[g] /\ Spent(g)' = Spent(g)
                    /\ grant'[g].remaining = grant[g].remaining - m[g]
                    /\ grant'[g].issued = grant[g].issued

Issues(h) ==
  /\ ~grant[h].issued
  /\ \A g \in Grants : /\ Held(g)' = Held(g) /\ Spent(g)' = Spent(g)
                       /\ grant'[g].remaining = IF g = h THEN GrantInfo[g].total
                                                ELSE grant[g].remaining
                       /\ grant'[g].issued <=> grant[g].issued \/ g = h

Rests ==
  \A g \in Grants : /\ Held(g)' = Held(g) /\ Spent(g)' = Spent(g)
                    /\ grant'[g].remaining = grant[g].remaining
                    /\ grant'[g].issued = grant[g].issued

Moves ==
  \/ \E m, s \in [Grants -> Nat] : Ends(m, s)
  \/ \E m \in [Grants -> Nat] : Takes(m)
  \/ \E h \in Grants : Issues(h)
  \/ Rests

(* What is held and spent of a grant are sums of natural amounts. *)
LEMMA HeldTypes ==
  ASSUME TablesTypeOK, NEW g \in Grants
  PROVE  /\ [k \in Keys |-> IF hold[k][g].active THEN hold[k][g].reserved ELSE 0] \in [Keys -> Nat]
         /\ [k \in Keys |-> IF hold[k][g].active THEN 0 ELSE hold[k][g].consumed] \in [Keys -> Nat]
         /\ Held(g) \in Nat /\ Spent(g) \in Nat
<1>1. /\ [k \in Keys |-> IF hold[k][g].active THEN hold[k][g].reserved ELSE 0] \in [Keys -> Nat]
      /\ [k \in Keys |-> IF hold[k][g].active THEN 0 ELSE hold[k][g].consumed] \in [Keys -> Nat]
  BY DEF TablesTypeOK, HoldRows
<1>2. IsFiniteSet(Keys)
  BY ReservationConstants
<1> QED BY <1>1, <1>2, TotalType DEF Held, Spent

(***************************************************************************)
(* A settlement, however many decisions it is for: of each grant, the sum  *)
(* of what their rows held ends, the sum of what they consumed is spent,   *)
(* and the rest is back; the clamp at the grant's amount never bites.      *)
(***************************************************************************)
LEMMA CloseEnds ==
  ASSUME TablesTypeOK, TablesTypeOK', HoldsFollow, HoldsBackDecisions, CreditConserved,
         NEW ks \in SUBSET Keys, NEW why, NEW spend \in Nat, Close(ks, why, spend)
  PROVE  \E m, s \in [Grants -> Nat] : Ends(m, s)
<1> DEFINE paying  == {k \in ks : decision[k].credit > 0}
           paid(g) == [k \in Keys |-> IF k \in paying THEN ActiveHolds(k)[g] ELSE 0]
           used(g) == [k \in Keys |-> IF k \in paying THEN Consumed(k, spend)[g] ELSE 0]
           back(g) == [k \in Keys |-> IF k \in paying THEN Released(k, spend)[g] ELSE 0]
           refund(g) == Total([k \in paying |-> Released(k, spend)[g]])
           m == [g \in Grants |-> Total(paid(g))]
           s == [g \in Grants |-> Total(used(g))]
<1>1. IsFiniteSet(Keys) /\ paying \subseteq Keys
  BY ReservationConstants
<1>2. ASSUME NEW k \in paying, NEW g \in Grants
      PROVE  /\ ActiveHolds(k)[g] \in Nat /\ Consumed(k, spend)[g] \in Nat
             /\ Released(k, spend)[g] \in Nat
             /\ ActiveHolds(k)[g] = Consumed(k, spend)[g] + Released(k, spend)[g]
  <2>1. k \in ks /\ k \in Keys /\ decision[k].credit > 0
    OBVIOUS
  <2>2. Total(ActiveHolds(k)) = decision[k].credit
    BY <2>1, PayingStands
  <2>3. /\ Consumed(k, spend)[g] <= ActiveHolds(k)[g]
        /\ Released(k, spend)[g] = ActiveHolds(k)[g] - Consumed(k, spend)[g]
    BY <2>1, <2>2, SettlementSplits
  <2>4. /\ ActiveHolds(k)[g] \in Nat /\ Consumed(k, spend)[g] \in Nat
        /\ Released(k, spend)[g] \in Nat
    BY <2>1, ActiveHoldsType, SettlementTypes
  <2> QED BY <2>3, <2>4
<1>3. ASSUME NEW k \in Keys, NEW g \in Grants
      PROVE  /\ ActiveHolds(k)[g] = IF hold[k][g].active THEN hold[k][g].reserved ELSE 0
             /\ hold[k][g] \in HoldRows
             /\ hold'[k][g] = IF k \in paying /\ hold[k][g].active THEN SettledHold(k, g, spend)
                              ELSE hold[k][g]
  BY DEF Close, Settle, ActiveHolds, TablesTypeOK
<1> HIDE DEF paying
<1>4. ASSUME NEW g \in Grants
      PROVE  /\ paid(g) \in [Keys -> Nat] /\ used(g) \in [Keys -> Nat]
             /\ back(g) \in [Keys -> Nat]
             /\ \A k \in Keys : paid(g)[k] = used(g)[k] + back(g)[k]
  BY <1>2
<1>5. ASSUME NEW g \in Grants PROVE Total(paid(g)) = Total(used(g)) + refund(g)
  <2> DEFINE released == [k \in paying |-> Released(k, spend)[g]]
             spread   == [k \in Keys |-> IF k \in paying THEN released[k] ELSE 0]
  <2>1. released \in [paying -> Nat] /\ spread = back(g)
    BY <1>2
  <2> HIDE DEF released
  <2>2. Total(released) = Total(spread)
    BY <1>1, <2>1, TotalRestrict
  <2> DEFINE p == paid(g)
             u == used(g)
             b == back(g)
  <2>3. /\ p \in [Keys -> Nat] /\ u \in [Keys -> Nat] /\ b \in [Keys -> Nat]
        /\ \A k \in Keys : p[k] = u[k] + b[k]
    BY <1>4
  <2> HIDE DEF p, u, b
  <2>4. Total(p) = Total(u) + Total(b)
    BY <1>1, <2>3, TotalSum
  <2> QED BY <2>1, <2>2, <2>4 DEF p, u, b, released
<1>6. ASSUME NEW g \in Grants PROVE Held(g) = Held(g)' + Total(paid(g)) /\ Held(g)' \in Nat
  <2> DEFINE old  == [k \in Keys |-> IF hold[k][g].active THEN hold[k][g].reserved ELSE 0]
             new  == [k \in Keys |-> IF hold'[k][g].active THEN hold'[k][g].reserved ELSE 0]
             p    == paid(g)
  <2>1. old \in [Keys -> Nat] /\ p \in [Keys -> Nat]
    BY <1>4, HeldTypes
  <2>2. new \in [Keys -> Nat]
    BY DEF TablesTypeOK, HoldRows
  <2>3. ASSUME NEW k \in Keys PROVE old[k] = new[k] + p[k]
    <3>1. CASE k \in paying /\ hold[k][g].active
      <4>1. ~hold'[k][g].active
        BY <1>3, <3>1 DEF SettledHold, HoldRows
      <4>2. new[k] = 0 /\ p[k] = old[k] /\ old[k] \in Nat
        BY <1>3, <2>1, <3>1, <4>1
      <4> QED BY <4>2
    <3>2. CASE ~(k \in paying /\ hold[k][g].active)
      <4>1. new[k] = old[k] /\ p[k] = 0 /\ old[k] \in Nat
        BY <1>3, <2>1, <3>2
      <4> QED BY <4>1
    <3> QED BY <3>1, <3>2
  <2>4. Total(old) = Held(g) /\ Total(new) = Held(g)'
    BY DEF Held
  <2> HIDE DEF old, new, p
  <2>5. Total(old) = Total(new) + Total(p) /\ Total(new) \in Nat
    BY <1>1, <2>1, <2>2, <2>3, TotalSum, TotalType
  <2> QED BY <2>4, <2>5 DEF p
<1>7. ASSUME NEW g \in Grants PROVE Spent(g)' = Spent(g) + Total(used(g))
  <2> DEFINE old  == [k \in Keys |-> IF hold[k][g].active THEN 0 ELSE hold[k][g].consumed]
             new  == [k \in Keys |-> IF hold'[k][g].active THEN 0 ELSE hold'[k][g].consumed]
             u    == used(g)
  <2>1. old \in [Keys -> Nat] /\ u \in [Keys -> Nat]
    BY <1>4, HeldTypes
  <2>2. new \in [Keys -> Nat]
    BY DEF TablesTypeOK, HoldRows
  <2>3. ASSUME NEW k \in Keys PROVE new[k] = old[k] + u[k]
    <3>1. CASE k \in paying /\ hold[k][g].active
      <4>1. ~hold'[k][g].active /\ hold'[k][g].consumed = Consumed(k, spend)[g]
        BY <1>3, <3>1 DEF SettledHold, HoldRows
      <4>2. old[k] = 0 /\ new[k] = Consumed(k, spend)[g] /\ u[k] = Consumed(k, spend)[g]
        BY <3>1, <4>1
      <4>3. u[k] \in Nat
        BY <2>1
      <4> QED BY <4>2, <4>3
    <3>2. CASE k \in paying /\ ~hold[k][g].active
      <4>1. ActiveHolds(k)[g] = 0
        BY <1>3, <3>2
      <4>2. Consumed(k, spend)[g] = 0
        BY <1>2, <3>2, <4>1
      <4>3. new[k] = old[k] /\ u[k] = 0 /\ old[k] \in Nat
        BY <1>3, <2>1, <3>2, <4>2
      <4> QED BY <4>3
    <3>3. CASE k \notin paying
      <4>1. new[k] = old[k] /\ u[k] = 0 /\ old[k] \in Nat
        BY <1>3, <2>1, <3>3
      <4> QED BY <4>1
    <3> QED BY <3>1, <3>2, <3>3
  <2>4. Total(old) = Spent(g) /\ Total(new) = Spent(g)'
    BY DEF Spent
  <2> HIDE DEF old, new, u
  <2>5. Total(new) = Total(old) + Total(u)
    BY <1>1, <2>1, <2>2, <2>3, TotalSum
  <2> QED BY <2>4, <2>5 DEF u
<1>8. ASSUME NEW g \in Grants PROVE Total(paid(g)) \in Nat /\ Total(used(g)) \in Nat
  BY <1>1, <1>4, TotalType
<1> HIDE DEF paid, used
<1>9. ASSUME NEW g \in Grants
      PROVE  /\ grant'[g].remaining = grant[g].remaining + (Total(paid(g)) - Total(used(g)))
             /\ grant'[g].issued = grant[g].issued
  <2>1. /\ grant[g] \in GrantRows /\ grant[g].remaining \in Nat /\ GrantInfo[g].total \in Nat
        /\ Held(g) \in Nat /\ Spent(g) \in Nat
    BY HeldTypes, ReservationConstants DEF TablesTypeOK, GrantRows
  <2>2. refund(g) \in Nat /\ refund(g) = Total(paid(g)) - Total(used(g))
    <3>1. /\ Total(paid(g)) = Total(used(g)) + refund(g)
          /\ Total(paid(g)) \in Nat /\ Total(used(g)) \in Nat
      BY <1>5, <1>8
    <3>2. refund(g) \in Nat
      <4>1. [k \in paying |-> Released(k, spend)[g]] \in [paying -> Nat]
        BY <1>2
      <4>2. IsFiniteSet(paying)
        BY <1>1, FS_Subset
      <4> QED BY <4>1, <4>2, TotalType
    <3> HIDE DEF refund
    <3> QED BY <3>1, <3>2
  <2>3. grant[g].remaining + refund(g) <= GrantInfo[g].total
    <3>1. /\ Held(g) = Held(g)' + Total(paid(g)) /\ Held(g)' \in Nat
          /\ Total(used(g)) \in Nat /\ Total(paid(g)) \in Nat
      BY <1>6, <1>8
    <3>2. grant[g].remaining + Held(g) + Spent(g) <= GrantInfo[g].total
      BY <2>1 DEF CreditConserved
    <3> HIDE DEF refund
    <3> QED BY <2>1, <2>2, <3>1, <3>2
  <2>4. CASE \E k \in paying : hold[k][g].active
    <3>1. grant'[g] = RefundedGrant(g, refund(g))
      BY <2>4 DEF Close, Settle, paying
    <3> HIDE DEF refund
    <3>2. RefundedGrant(g, refund(g)).remaining = grant[g].remaining + refund(g)
          /\ RefundedGrant(g, refund(g)).issued = grant[g].issued
      BY <2>1, <2>2, <2>3 DEF RefundedGrant, Least, GrantRows
    <3> QED BY <2>2, <3>1, <3>2
  <2>5. CASE ~\E k \in paying : hold[k][g].active
    <3>1. grant'[g] = grant[g]
      BY <2>5 DEF Close, Settle, paying
    <3>2. \A k \in Keys : paid(g)[k] = 0
      BY <1>3, <2>5 DEF paid
    <3>3. Total(paid(g)) = 0
      BY <1>4, <3>2, TotalZero
    <3>4. refund(g) = 0
      <4>1. /\ Total(paid(g)) = Total(used(g)) + refund(g) /\ Total(used(g)) \in Nat
        BY <1>5, <1>8
      <4> HIDE DEF refund
      <4> QED BY <2>2, <3>3, <4>1
    <3> HIDE DEF refund
    <3> QED BY <2>1, <2>2, <3>1, <3>4
  <2> QED BY <2>4, <2>5
<1>10. ASSUME NEW g \in Grants PROVE Total(used(g)) <= Total(paid(g))
  <2>1. used(g) \in [Keys -> Nat] /\ paid(g) \in [Keys -> Nat] /\ back(g) \in [Keys -> Nat]
        /\ \A k \in Keys : paid(g)[k] = used(g)[k] + back(g)[k]
    BY <1>4
  <2> HIDE DEF back
  <2>2. \A k \in Keys : used(g)[k] <= paid(g)[k]
    BY <2>1
  <2> QED BY <1>1, <2>1, <2>2, TotalMonotone
<1>11. m \in [Grants -> Nat] /\ s \in [Grants -> Nat]
  BY <1>8
<1>12. ASSUME NEW g \in Grants
       PROVE  /\ s[g] <= m[g] /\ m[g] <= Held(g)
              /\ Held(g)' = Held(g) - m[g] /\ Spent(g)' = Spent(g) + s[g]
              /\ grant'[g].remaining = grant[g].remaining + (m[g] - s[g])
              /\ grant'[g].issued = grant[g].issued
  <2>1. m[g] = Total(paid(g)) /\ s[g] = Total(used(g))
    OBVIOUS
  <2>2. m[g] \in Nat /\ s[g] \in Nat
    BY <1>8
  <2> HIDE DEF m, s
  <2>3. Held(g) = Held(g)' + m[g] /\ Held(g)' \in Nat
    BY <1>6, <2>1
  <2>4. m[g] <= Held(g) /\ Held(g)' = Held(g) - m[g]
    BY <2>2, <2>3
  <2> QED BY <1>7, <1>9, <1>10, <2>1, <2>4
<1> HIDE DEF m, s
<1>13. Ends(m, s)
  BY <1>12 DEF Ends
<1> QED BY <1>11, <1>13

(* Recording a decision takes what it draws, and nothing else. *)
LEMMA RecordTakes ==
  ASSUME TablesTypeOK, TablesTypeOK', HoldsFollow, Fresh, NEW k \in Keys, RecordsNew(k)
  PROVE  \E m \in [Grants -> Nat] : Takes(m)
<1>1. PICK row \in DecisionRows, drawn \in [Grants -> Nat], request \in ApprovalRows :
        Record(k, row, drawn, request) /\ Funds(row, drawn)
  BY DEF RecordsNew
<1>2. \A j \in Keys \ {k} : hold'[j] = hold[j]
  BY RecordLeaves
<1>3. IsFiniteSet(Keys)
  BY ReservationConstants
<1>4. ASSUME NEW g \in Grants
      PROVE  /\ ~hold[k][g].active /\ hold[k][g].consumed = 0
             /\ hold'[k][g] = IF drawn[g] > 0 THEN NewHold(drawn[g]) ELSE NoHold
             /\ grant'[g] = IF drawn[g] > 0 THEN DrawnGrant(g, drawn[g]) ELSE grant[g]
             /\ grant[g] \in GrantRows /\ drawn[g] \in Nat /\ drawn[g] <= grant[g].remaining
  <2>1. ~hold[k][g].active /\ hold[k][g].consumed = 0
    BY DEF RecordsNew, Fresh, HoldsFollow
  <2>2. hold'[k][g] = IF drawn[g] > 0 THEN NewHold(drawn[g]) ELSE NoHold
    BY <1>1 DEF Record, TablesTypeOK
  <2> QED BY <1>1, <2>1, <2>2 DEF Record, TablesTypeOK, Funds
<1>5. ASSUME NEW g \in Grants
      PROVE  /\ grant'[g].remaining = grant[g].remaining - drawn[g]
             /\ grant'[g].issued = grant[g].issued
  <2>1. grant[g] \in GrantRows /\ drawn[g] \in Nat
    BY <1>4
  <2>2. CASE drawn[g] > 0
    <3>1. grant'[g] = DrawnGrant(g, drawn[g])
      BY <1>4, <2>2
    <3> QED BY <2>1, <3>1 DEF DrawnGrant, GrantRows
  <2>3. CASE drawn[g] = 0
    <3>1. grant'[g] = grant[g]
      BY <1>4, <2>3
    <3> QED BY <2>1, <2>3, <3>1 DEF GrantRows
  <2> QED BY <2>1, <2>2, <2>3
<1>6. ASSUME NEW g \in Grants
      PROVE  /\ hold'[k][g].active <=> drawn[g] > 0
             /\ hold'[k][g].consumed = 0 /\ hold'[k][g].reserved = drawn[g]
  <2>1. drawn[g] \in Nat
    OBVIOUS
  <2>2. CASE drawn[g] > 0
    BY <1>4, <2>2 DEF NewHold, NoHold
  <2>3. CASE drawn[g] = 0
    <3>1. hold'[k][g] = NoHold
      BY <1>4, <2>3
    <3> QED BY <2>3, <3>1 DEF NoHold
  <2> QED BY <2>1, <2>2, <2>3
<1>7. ASSUME NEW g \in Grants PROVE Held(g)' = Held(g) + drawn[g]
  <2> DEFINE old == [j \in Keys |-> IF hold[j][g].active THEN hold[j][g].reserved ELSE 0]
             new == [j \in Keys |-> IF hold'[j][g].active THEN hold'[j][g].reserved ELSE 0]
  <2>1. old \in [Keys -> Nat] /\ new \in [Keys -> Nat]
    BY DEF TablesTypeOK, HoldRows
  <2>2. \A j \in Keys \ {k} : old[j] = new[j]
    BY <1>2
  <2>3. old[k] = 0 /\ new[k] = drawn[g]
    <3>1. CASE drawn[g] > 0
      BY <1>4, <1>6, <3>1
    <3>2. CASE drawn[g] = 0
      BY <1>4, <1>6, <3>2
    <3> QED BY <1>4, <3>1, <3>2
  <2>4. Total(old) = Held(g) /\ Total(new) = Held(g)'
    BY DEF Held
  <2> HIDE DEF old, new
  <2>5. Total(new) + old[k] = Total(old) + new[k]
    BY <1>3, <2>1, <2>2, TotalUpdate
  <2>6. Total(old) \in Nat /\ Total(new) \in Nat
    BY <1>3, <2>1, TotalType
  <2> QED BY <1>4, <2>3, <2>4, <2>5, <2>6
<1>8. ASSUME NEW g \in Grants PROVE Spent(g)' = Spent(g)
  <2> DEFINE old == [j \in Keys |-> IF hold[j][g].active THEN 0 ELSE hold[j][g].consumed]
             new == [j \in Keys |-> IF hold'[j][g].active THEN 0 ELSE hold'[j][g].consumed]
  <2>1. \A j \in Keys : old[j] = new[j]
    BY <1>2, <1>4, <1>6
  <2>2. old = new
    BY <2>1
  <2> QED BY <2>2 DEF Spent
<1>9. Takes(drawn)
  BY <1>4, <1>5, <1>7, <1>8 DEF Takes
<1> QED BY <1>9

(* Where decisions and holds stay, credit rests or a grant is issued. *)
LEMMA KeepsMoves ==
  ASSUME TablesTypeOK, Keeps
  PROVE  Rests \/ \E h \in Grants : Issues(h)
<1>1. \A g \in Grants : Held(g)' = Held(g) /\ Spent(g)' = Spent(g)
  BY DEF Keeps, Held, Spent
<1>2. CASE UNCHANGED grant
  BY <1>1, <1>2 DEF Rests
<1>3. ASSUME NEW h \in Grants, CreateGrant(h) PROVE Issues(h)
  <2>1. ~grant[h].issued
    BY <1>3 DEF CreateGrant
  <2>2. \A g \in Grants :
          grant'[g] = IF g = h THEN [issued |-> TRUE, remaining |-> GrantInfo[h].total,
                                     active |-> TRUE] ELSE grant[g]
    BY <1>3 DEF CreateGrant, TablesTypeOK
  <2>3. \A g \in Grants : grant[g] \in GrantRows
    BY DEF TablesTypeOK
  <2>4. \A g \in Grants :
          /\ grant'[g].remaining = IF g = h THEN GrantInfo[g].total ELSE grant[g].remaining
          /\ grant'[g].issued <=> grant[g].issued \/ g = h
    BY <2>2, <2>3 DEF GrantRows
  <2> QED BY <1>1, <2>1, <2>4 DEF Issues
<1> QED BY <1>2, <1>3 DEF Keeps

(* Every step is one of the moves. *)
LEMMA LedgerMoves ==
  ASSUME TypeOK, TypeOK', SafeTables, Accounts, CreditConserved, [Next]_vars
  PROVE  Moves
<1>1. TablesTypeOK /\ TablesTypeOK' /\ HoldsFollow /\ Fresh /\ HoldsBackDecisions
  BY DEF TypeOK, SafeTables, Accounts
<1>2. CASE UNCHANGED tables
  <2>1. Keeps
    BY <1>2 DEF Keeps, tables
  <2> QED BY <1>1, <2>1, KeepsMoves DEF Moves
<1>3. ASSUME NEW k \in Keys, RecordsNew(k) PROVE Moves
  BY <1>1, <1>3, RecordTakes DEF Moves
<1>4. ASSUME NEW ks \in SUBSET Keys, Gives(ks) PROVE Moves
  <2>1. PICK why \in Settlements, spend \in Nat : Close(ks, why, spend)
    BY <1>4 DEF Gives
  <2> QED BY <1>1, <2>1, CloseEnds DEF Moves
<1>5. CASE TablesNext
  BY <1>1, <1>4, <1>5, HandlerMoves, KeepsMoves DEF Moves
<1> QED BY <1>2, <1>3, <1>5, TableMoves

(* No move makes or loses credit. *)
LEMMA MovesConserve ==
  ASSUME TablesTypeOK, TablesTypeOK', CreditConserved, Moves
  PROVE  CreditConserved'
<1> SUFFICES ASSUME NEW g \in Grants
             PROVE  grant'[g].remaining + Held(g)' + Spent(g)'
                      = IF grant'[g].issued THEN GrantInfo[g].total ELSE 0
  BY DEF CreditConserved
<1>1. /\ grant[g].remaining + Held(g) + Spent(g)
           = IF grant[g].issued THEN GrantInfo[g].total ELSE 0
      /\ grant[g].remaining \in Nat /\ Held(g) \in Nat /\ Spent(g) \in Nat
      /\ GrantInfo[g].total \in Nat
  BY HeldTypes, ReservationConstants DEF CreditConserved, TablesTypeOK, GrantRows
<1>2. ASSUME NEW m \in [Grants -> Nat], NEW s \in [Grants -> Nat], Ends(m, s)
      PROVE  grant'[g].remaining + Held(g)' + Spent(g)'
               = grant[g].remaining + Held(g) + Spent(g)
             /\ grant'[g].issued = grant[g].issued
  <2>1. m[g] \in Nat /\ s[g] \in Nat
    OBVIOUS
  <2>2. /\ Held(g)' = Held(g) - m[g] /\ Spent(g)' = Spent(g) + s[g]
        /\ grant'[g].remaining = grant[g].remaining + (m[g] - s[g])
        /\ grant'[g].issued = grant[g].issued
    BY <1>2 DEF Ends
  <2> QED BY <1>1, <2>1, <2>2
<1>3. ASSUME NEW m \in [Grants -> Nat], Takes(m)
      PROVE  grant'[g].remaining + Held(g)' + Spent(g)'
               = grant[g].remaining + Held(g) + Spent(g)
             /\ grant'[g].issued = grant[g].issued
  <2>1. m[g] \in Nat
    OBVIOUS
  <2>2. /\ Held(g)' = Held(g) + m[g] /\ Spent(g)' = Spent(g)
        /\ grant'[g].remaining = grant[g].remaining - m[g]
        /\ grant'[g].issued = grant[g].issued
    BY <1>3 DEF Takes
  <2> QED BY <1>1, <2>1, <2>2
<1>4. ASSUME NEW h \in Grants, Issues(h)
      PROVE  grant'[g].remaining + Held(g)' + Spent(g)'
               = IF grant'[g].issued THEN GrantInfo[g].total ELSE 0
  <2>1. /\ ~grant[h].issued /\ Held(g)' = Held(g) /\ Spent(g)' = Spent(g)
        /\ grant'[g].remaining = IF g = h THEN GrantInfo[g].total ELSE grant[g].remaining
        /\ grant'[g].issued <=> grant[g].issued \/ g = h
    BY <1>4 DEF Issues
  <2>2. CASE g = h
    <3>1. grant[g].remaining + Held(g) + Spent(g) = 0
      BY <1>1, <2>1, <2>2
    <3>2. Held(g) = 0 /\ Spent(g) = 0
      BY <1>1, <3>1
    <3>3. grant'[g].issued /\ grant'[g].remaining = GrantInfo[g].total
      BY <2>1, <2>2
    <3> QED BY <1>1, <2>1, <3>2, <3>3
  <2>3. CASE g # h
    BY <1>1, <2>1, <2>3
  <2> QED BY <2>2, <2>3
<1>5. CASE Rests
  BY <1>1, <1>5 DEF Rests
<1> QED BY <1>1, <1>2, <1>3, <1>4, <1>5 DEF Moves

(* What a grant starts with is its amount if it exists. *)
LEMMA ConservedAtStart == Init => CreditConserved
<1> SUFFICES ASSUME Init, NEW g \in Grants
             PROVE  grant[g].remaining + Held(g) + Spent(g)
                      = IF grant[g].issued THEN GrantInfo[g].total ELSE 0
  BY DEF CreditConserved
<1> DEFINE none == [k \in Keys |-> 0]
<1>1. \A k \in Keys : hold[k][g] = NoHold
  BY DEF Init, TablesInit
<1>2. /\ [k \in Keys |-> IF hold[k][g].active THEN hold[k][g].reserved ELSE 0] = none
      /\ [k \in Keys |-> IF hold[k][g].active THEN 0 ELSE hold[k][g].consumed] = none
  BY <1>1 DEF NoHold
<1>3. none \in [Keys -> Nat] /\ \A k \in Keys : none[k] = 0
  OBVIOUS
<1> HIDE DEF none
<1>4. Held(g) = 0 /\ Spent(g) = 0
  BY <1>2, <1>3, TotalZero DEF Held, Spent
<1>5. /\ grant[g].remaining = IF grant[g].issued THEN GrantInfo[g].total ELSE 0
      /\ GrantInfo[g].total \in Nat
  BY ReservationConstants DEF Init, TablesInit
<1> QED BY <1>4, <1>5

(* The accounts of decisions and of grants, of every state. *)
LEMMA BooksHold == Spec => [](TypeOK /\ SafeTables /\ Accounts /\ CreditConserved)
<1>1. TypeOK /\ TypeOK' /\ SafeTables /\ Accounts /\ CreditConserved /\ [Next]_vars
        => CreditConserved'
  BY LedgerMoves, MovesConserve DEF TypeOK
<1> QED BY <1>1, ConservedAtStart, TypesAtStart, TypesKept, SafeTablesAtStart, SafeTablesKept,
           AccountsAtStart, AccountsKept, PTL DEF Spec

(***************************************************************************)
(* Credit is neither made nor lost, by draws, settlements and sweeps in    *)
(* any order and of any number of decisions.                               *)
(***************************************************************************)
THEOREM CreditIsConserved == Spec => []CreditConserved
BY BooksHold, PTL

-----------------------------------------------------------------------------
(***************************************************************************)
(* The moves are those of the ledger.                                      *)
(***************************************************************************)
GrantTotals == [g \in Grants |-> GrantInfo[g].total]

(* Amounts that each grant covers are moves of the ledger. *)
LEMMA LedgerAmounts ==
  ASSUME NEW m \in [Grants -> Nat], \A g \in Grants : m[g] <= GrantInfo[g].total
  PROVE  m \in Ledger!Moves
<1> DEFINE amounts == [g \in Grants |-> 0 .. GrantTotals[g]]
<1>1. \A g \in Grants : GrantInfo[g].total \in Nat
  BY ReservationConstants
<1>2. \A g \in Grants : m[g] \in amounts[g]
  BY <1>1 DEF GrantTotals
<1>3. m \in [Grants -> UNION {amounts[g] : g \in Grants}]
  BY <1>2
<1>4. Ledger!Amounts = amounts
  BY DEF Ledger!Amounts, GrantTotals
<1> QED BY <1>2, <1>3, <1>4 DEF Ledger!Moves

(* No part of a grant's credit exceeds its amount. *)
LEMMA PartsFit ==
  ASSUME TablesTypeOK, CreditConserved, NEW g \in Grants
  PROVE  /\ grant[g].remaining \in Nat /\ Held(g) \in Nat /\ Spent(g) \in Nat
         /\ grant[g].remaining <= GrantInfo[g].total /\ Held(g) <= GrantInfo[g].total
         /\ ~grant[g].issued => grant[g].remaining + Held(g) + Spent(g) = 0
<1>1. /\ grant[g].remaining \in Nat /\ Held(g) \in Nat /\ Spent(g) \in Nat
      /\ GrantInfo[g].total \in Nat
  BY HeldTypes, ReservationConstants DEF TablesTypeOK, GrantRows
<1>2. grant[g].remaining + Held(g) + Spent(g)
        = IF grant[g].issued THEN GrantInfo[g].total ELSE 0
  BY DEF CreditConserved
<1> QED BY <1>1, <1>2

(* The tables start as the ledger does. *)
LEMMA LedgerAtStart == Init => Ledger!Init
<1> SUFFICES ASSUME Init PROVE Ledger!Init
  OBVIOUS
<1> DEFINE free == [g \in Grants |-> grant[g].remaining]
<1>1. TablesTypeOK /\ CreditConserved
  BY TypesAtStart, ConservedAtStart DEF TypeOK
<1>2. ASSUME NEW g \in Grants
      PROVE  /\ free[g] \in {0, GrantInfo[g].total} /\ free[g] \in Nat
             /\ free[g] <= GrantInfo[g].total /\ Held(g) = 0 /\ Spent(g) = 0
  <2>1. /\ grant[g].remaining = IF grant[g].issued THEN GrantInfo[g].total ELSE 0
        /\ GrantInfo[g].total \in Nat
    BY ReservationConstants DEF Init, TablesInit
  <2>2. grant[g].remaining + Held(g) + Spent(g)
          = IF grant[g].issued THEN GrantInfo[g].total ELSE 0
    BY <1>1 DEF CreditConserved
  <2>3. Held(g) \in Nat /\ Spent(g) \in Nat
    BY <1>1, HeldTypes
  <2>4. Held(g) = 0 /\ Spent(g) = 0
    <3> DEFINE total == IF grant[g].issued THEN GrantInfo[g].total ELSE 0
    <3>1. total \in Nat /\ total + Held(g) + Spent(g) = total
      BY <2>1, <2>2
    <3> HIDE DEF total
    <3> QED BY <2>3, <3>1
  <2> QED BY <2>1, <2>4
<1>3. free \in [Grants -> Nat]
  BY <1>2
<1>4. free \in Ledger!Moves
  <2> HIDE DEF free
  <2> QED BY <1>2, <1>3, LedgerAmounts
<1>5. /\ [g \in Grants |-> Held(g)] = [g \in Grants |-> 0]
      /\ [g \in Grants |-> Spent(g)] = [g \in Grants |-> 0]
  BY <1>2
<1> QED BY <1>2, <1>4, <1>5 DEF Ledger!Init

(* Every move is a step of the ledger or leaves it alone. *)
LEMMA LedgerSteps ==
  ASSUME TablesTypeOK, TablesTypeOK', CreditConserved, Moves
  PROVE  [Ledger!Next]_(Ledger!ledger)
<1>1. CASE Rests
  BY <1>1 DEF Rests, Ledger!ledger
<1>2. ASSUME NEW h \in Grants, Issues(h) PROVE Ledger!Issue(h)
  <2>1. grant[h].remaining + Held(h) + Spent(h) = 0
    BY <1>2, PartsFit DEF Issues
  <2>2. [g \in Grants |-> grant'[g].remaining]
          = [[g \in Grants |-> grant[g].remaining] EXCEPT ![h] = GrantInfo[h].total]
    BY <1>2 DEF Issues
  <2>3. /\ [g \in Grants |-> Held(g)'] = [g \in Grants |-> Held(g)]
        /\ [g \in Grants |-> Spent(g)'] = [g \in Grants |-> Spent(g)]
    BY <1>2 DEF Issues
  <2> QED BY <2>1, <2>2, <2>3 DEF Ledger!Issue
<1>3. ASSUME NEW m \in [Grants -> Nat], Takes(m) PROVE m \in Ledger!Moves /\ Ledger!Hold(m)
  <2>1. ASSUME NEW g \in Grants PROVE m[g] <= GrantInfo[g].total
    <3>1. m[g] \in Nat /\ m[g] <= grant[g].remaining
      BY <1>3 DEF Takes
    <3> QED BY <3>1, PartsFit, ReservationConstants
  <2>2. m \in Ledger!Moves
    BY <2>1, LedgerAmounts
  <2>3. Ledger!Hold(m)
    BY <1>3 DEF Takes, Ledger!Hold
  <2> QED BY <2>2, <2>3
<1>4. ASSUME NEW m \in [Grants -> Nat], NEW s \in [Grants -> Nat], Ends(m, s)
      PROVE  m \in Ledger!Moves /\ s \in Ledger!Moves /\ Ledger!Settle(m, s)
  <2>1. ASSUME NEW g \in Grants PROVE m[g] <= GrantInfo[g].total /\ s[g] <= GrantInfo[g].total
    <3>1. m[g] \in Nat /\ s[g] \in Nat /\ s[g] <= m[g] /\ m[g] <= Held(g)
      BY <1>4 DEF Ends
    <3>2. Held(g) \in Nat /\ Held(g) <= GrantInfo[g].total /\ GrantInfo[g].total \in Nat
      BY PartsFit, ReservationConstants
    <3> QED BY <3>1, <3>2
  <2>2. m \in Ledger!Moves /\ s \in Ledger!Moves
    BY <2>1, LedgerAmounts
  <2>3. Ledger!Settle(m, s)
    BY <1>4 DEF Ends, Ledger!Settle
  <2> QED BY <2>2, <2>3
<1> QED BY <1>1, <1>2, <1>3, <1>4 DEF Moves, Ledger!Next

(***************************************************************************)
(* The allocation rows and grants implement the ledger of credits: every   *)
(* step of the gate and of the handlers is a step of the ledger, or moves  *)
(* no credit.                                                              *)
(***************************************************************************)
THEOREM RowsImplementLedger == Spec => ImplementsLedger
<1>1. TypeOK /\ TypeOK' /\ SafeTables /\ Accounts /\ CreditConserved /\ [Next]_vars
        => [Ledger!Next]_(Ledger!ledger)
  BY LedgerMoves, LedgerSteps DEF TypeOK
<1> QED BY <1>1, LedgerAtStart, BooksHold, PTL DEF Spec, ImplementsLedger, Ledger!Spec

-----------------------------------------------------------------------------
(* Time never goes back a month. *)
LEMMA MonthsPass ==
  ASSUME NEW a \in Nat, NEW b \in Nat, a <= b
  PROVE  Month(a) \in Nat /\ Month(a) <= Month(b)
<1> DEFINE n == MonthLength
<1>1. n \in Nat /\ n > 0
  BY ReservationConstants
<1>2. Month(a) = a \div n /\ Month(b) = b \div n
  BY DEF Month
<1> HIDE DEF n
<1>3. /\ a \div n \in Int /\ n * (a \div n) <= a /\ a < n * ((a \div n) + 1)
      /\ b \div n \in Int /\ n * (b \div n) <= b /\ b < n * ((b \div n) + 1)
  BY <1>1
<1> QED BY <1>1, <1>2, <1>3

(***************************************************************************)
(* What an evaluation may decide: amounts within everything it has read.   *)
(***************************************************************************)
LEMMA EntitlementFits ==
  ASSUME TypeOK, NEW r \in Requests, NEW u \in BOOLEAN
  PROVE  LET e   == Entitlement(r, u)
             all == e.alloc + e.reserved + e.emergency
         IN  /\ e.reserved <= gate[r].reserved /\ e.emergency <= gate[r].emergency
             /\ Fits(e.alloc, Below(gate[r].limit, gate[r].alloc))
             /\ gate[r].limit = Unbounded => e.alloc = 0
             /\ Fits(all, Below(gate[r].policy.planCeiling, UsedInMonth(r)))
             /\ Fits(all, Below(gate[r].policy.enterpriseCeiling, UsedInMonth(r)))
<1> DEFINE e    == Entitlement(r, u)
           g    == gate[r]
           room == Below(g.limit, g.alloc)
           plan == Below(g.policy.planCeiling, UsedInMonth(r))
           top  == Below(g.policy.enterpriseCeiling, UsedInMonth(r))
<1>1. /\ Mode(r) \in Modes /\ input[r].cost \in Nat
      /\ g.policy.planCeiling \in Headrooms /\ g.policy.enterpriseCeiling \in Headrooms
      /\ g.limit \in Headrooms /\ g.alloc \in Nat /\ g.credit \in Nat
      /\ g.reserved \in Nat /\ g.emergency \in Nat
  BY InputTypes DEF TypeOK, GateStates
<1>2. UsedInMonth(r) \in Nat
  BY <1>1 DEF UsedInMonth
<1>3. room \in Headrooms /\ plan \in Headrooms /\ top \in Headrooms
  BY <1>1, <1>2, BelowType
<1>4. g.limit = Unbounded => room = Unbounded
  BY DEF Below
<1> DEFINE refused == Violation(Mode(r), "threshold_or_context", 0, 0, 0)
           granted == Waterfall(Mode(r), input[r].cost, plan, room, g.reserved, g.emergency, top)
<1>5. e = refused \/ e = granted
  BY DEF Entitlement
<1>6. CASE e = refused
  <2>1. e.alloc = 0 /\ e.reserved = 0 /\ e.emergency = 0
    BY <1>6 DEF Violation
  <2> HIDE DEF e, room, plan, top
  <2>2. /\ Fits(0, room) /\ Fits(0, plan) /\ Fits(0, top)
    BY <1>3 DEF Fits, Headrooms, Unbounded
  <2>3. e.reserved <= g.reserved /\ e.emergency <= g.emergency
    BY <1>1, <2>1
  <2> QED BY <2>1, <2>2, <2>3 DEF e, room, plan, top
<1>7. CASE e = granted
  <2>1. Sound(granted, Mode(r), input[r].cost, plan, room, g.reserved, g.emergency, top)
    <3> HIDE DEF plan, room, top
    <3> QED BY <1>1, <1>3, WaterfallAnswer
  <2> HIDE DEF granted, room, plan, top
  <2>2. /\ e.reserved <= g.reserved /\ e.emergency <= g.emergency
        /\ Fits(e.alloc, room) /\ (room = Unbounded => e.alloc = 0)
        /\ Fits(e.alloc + e.reserved + e.emergency, plan)
        /\ Fits(e.alloc + e.reserved + e.emergency, top)
    <3> HIDE DEF e, g
    <3> QED BY <1>7, <2>1 DEF Sound
  <2> QED BY <1>4, <2>2 DEF room, plan, top
<1> QED BY <1>5, <1>6, <1>7

(* What a decision of a request reserves is no more than that. *)
LEMMA RowFits ==
  ASSUME TypeOK, NEW r \in Requests, NEW u \in BOOLEAN
  PROVE  LET row == Row(r, u)
         IN  /\ row \in DecisionRows /\ row.created = now
             /\ row.alloc > 0 => /\ gate[r].limit # Unbounded
                                 /\ gate[r].alloc + row.alloc <= gate[r].limit
             /\ row.alloc + row.credit > 0 =>
                  /\ Fits(UsedInMonth(r) + row.alloc + row.credit, gate[r].policy.planCeiling)
                  /\ Fits(UsedInMonth(r) + row.alloc + row.credit,
                          gate[r].policy.enterpriseCeiling)
<1> DEFINE e    == Entitlement(r, u)
           row  == Row(r, u)
           g    == gate[r]
           plan == g.policy.planCeiling
           top  == g.policy.enterpriseCeiling
           used == UsedInMonth(r)
<1>1. e.alloc \in Nat /\ e.reserved \in Nat /\ e.emergency \in Nat
  BY EntitlementType
<1>2. row \in DecisionRows /\ row.alloc \in Nat /\ row.credit \in Nat
  BY DecisionRowType DEF Row, DecisionRows
<1>3. /\ row.created = now
      /\ row.alloc = IF input[r].dryRun THEN 0 ELSE e.alloc
      /\ row.credit = IF input[r].dryRun THEN 0 ELSE e.reserved + e.emergency
  BY DEF Row, DecisionRow, NoDecision
<1>4. row.alloc <= e.alloc /\ row.alloc + row.credit <= e.alloc + e.reserved + e.emergency
  <2> HIDE DEF e, row
  <2> QED BY <1>1, <1>2, <1>3
<1>5. /\ Fits(e.alloc, Below(g.limit, g.alloc)) /\ (g.limit = Unbounded => e.alloc = 0)
      /\ Fits(e.alloc + e.reserved + e.emergency, Below(plan, used))
      /\ Fits(e.alloc + e.reserved + e.emergency, Below(top, used))
  BY EntitlementFits
<1>6. /\ g.limit \in Headrooms /\ g.alloc \in Nat /\ used \in Nat
      /\ plan \in Headrooms /\ top \in Headrooms
  BY InputTypes DEF TypeOK, GateStates, UsedInMonth
<1> HIDE DEF e, row, g, plan, top, used
<1>7. ASSUME NEW ceiling \in Headrooms, NEW taken \in Nat, NEW amount \in Nat, NEW part \in Nat,
             part <= amount, part > 0, Fits(amount, Below(ceiling, taken))
      PROVE  Fits(taken + part, ceiling)
  BY <1>7 DEF Fits, Below, Positive, Headrooms, Unbounded
<1>8. row.alloc > 0 => g.limit # Unbounded /\ g.alloc + row.alloc <= g.limit
  <2> SUFFICES ASSUME row.alloc > 0 PROVE g.limit # Unbounded /\ g.alloc + row.alloc <= g.limit
    OBVIOUS
  <2>1. g.limit # Unbounded
    BY <1>1, <1>2, <1>4, <1>5
  <2>2. Fits(g.alloc + row.alloc, g.limit)
    BY <1>1, <1>2, <1>4, <1>5, <1>6, <1>7
  <2> QED BY <2>1, <2>2 DEF Fits
<1>9. row.alloc + row.credit > 0 =>
        Fits(used + row.alloc + row.credit, plan) /\ Fits(used + row.alloc + row.credit, top)
  <2> DEFINE part   == row.alloc + row.credit
             amount == e.alloc + e.reserved + e.emergency
  <2>1. /\ part \in Nat /\ amount \in Nat /\ part <= amount
        /\ used + row.alloc + row.credit = used + part
        /\ Fits(amount, Below(plan, used)) /\ Fits(amount, Below(top, used))
    BY <1>1, <1>2, <1>4, <1>5, <1>6
  <2> HIDE DEF part, amount
  <2>2. part > 0 => Fits(used + part, plan) /\ Fits(used + part, top)
    BY <1>6, <1>7, <2>1
  <2> QED BY <2>1, <2>2 DEF part
<1> QED BY <1>2, <1>3, <1>8, <1>9 DEF row, g, plan, top, used

-----------------------------------------------------------------------------
(***************************************************************************)
(* A step that no decision comes to stand by.                              *)
(***************************************************************************)
Recedes ==
  \A k \in Keys : decision'[k].active => decision[k].active /\ decision'[k] = decision[k]

(* The sums of a month do not grow in such a step. *)
LEMMA SumsRecede ==
  ASSUME TablesTypeOK, TablesTypeOK', Recedes, NEW m
  PROVE  /\ ReservedAlloc(m)' <= ReservedAlloc(m) /\ ReservedCredit(m)' <= ReservedCredit(m)
         /\ Reserved(m)' <= Reserved(m)
         /\ ReservedAlloc(m)' \in Nat /\ ReservedCredit(m)' \in Nat
<1> DEFINE oldA == [k \in Keys |-> IF CountsIn(k, m) THEN decision[k].alloc ELSE 0]
           newA == [k \in Keys |-> IF CountsIn(k, m)' THEN decision'[k].alloc ELSE 0]
           oldC == [k \in Keys |-> IF CountsIn(k, m) THEN decision[k].credit ELSE 0]
           newC == [k \in Keys |-> IF CountsIn(k, m)' THEN decision'[k].credit ELSE 0]
<1>1. /\ oldA \in [Keys -> Nat] /\ newA \in [Keys -> Nat]
      /\ oldC \in [Keys -> Nat] /\ newC \in [Keys -> Nat] /\ IsFiniteSet(Keys)
  BY ReservationConstants DEF TablesTypeOK, DecisionRows
<1>2. ASSUME NEW k \in Keys PROVE newA[k] <= oldA[k] /\ newC[k] <= oldC[k]
  <2>1. CASE CountsIn(k, m)'
    <3>1. CountsIn(k, m) /\ decision'[k] = decision[k]
      BY <2>1 DEF Recedes, CountsIn, Month
    <3>2. newA[k] = oldA[k] /\ newC[k] = oldC[k]
      BY <2>1, <3>1
    <3> HIDE DEF oldA, newA, oldC, newC
    <3> QED BY <1>1, <3>2
  <2>2. CASE ~CountsIn(k, m)'
    <3>1. newA[k] = 0 /\ newC[k] = 0 /\ oldA[k] \in Nat /\ oldC[k] \in Nat
      BY <1>1, <2>2
    <3> HIDE DEF oldA, newA, oldC, newC
    <3> QED BY <3>1
  <2> QED BY <2>1, <2>2
<1>3. /\ ReservedAlloc(m) = Total(oldA) /\ ReservedAlloc(m)' = Total(newA)
      /\ ReservedCredit(m) = Total(oldC) /\ ReservedCredit(m)' = Total(newC)
  BY DEF ReservedAlloc, ReservedCredit
<1> HIDE DEF oldA, newA, oldC, newC
<1>4. /\ Total(newA) <= Total(oldA) /\ Total(newC) <= Total(oldC)
      /\ Total(oldA) \in Nat /\ Total(newA) \in Nat /\ Total(oldC) \in Nat /\ Total(newC) \in Nat
  BY <1>1, <1>2, TotalMonotone, TotalType
<1> QED BY <1>3, <1>4 DEF Reserved

(* Recording a decision adds what it reserves to the current month. *)
LEMMA SumsGrow ==
  ASSUME TablesTypeOK, TablesTypeOK', Fresh, NEW k \in Keys, NEW row \in DecisionRows,
         row.created = now, ~Recorded(k), decision' = [decision EXCEPT ![k] = row], NEW m
  PROVE  IF row.active /\ m = Month(now)
         THEN /\ ReservedAlloc(m)' = ReservedAlloc(m) + row.alloc
              /\ ReservedCredit(m)' = ReservedCredit(m) + row.credit
         ELSE /\ ReservedAlloc(m)' = ReservedAlloc(m)
              /\ ReservedCredit(m)' = ReservedCredit(m)
<1> DEFINE oldA == [j \in Keys |-> IF CountsIn(j, m) THEN decision[j].alloc ELSE 0]
           newA == [j \in Keys |-> IF CountsIn(j, m)' THEN decision'[j].alloc ELSE 0]
           oldC == [j \in Keys |-> IF CountsIn(j, m) THEN decision[j].credit ELSE 0]
           newC == [j \in Keys |-> IF CountsIn(j, m)' THEN decision'[j].credit ELSE 0]
<1>1. /\ oldA \in [Keys -> Nat] /\ newA \in [Keys -> Nat]
      /\ oldC \in [Keys -> Nat] /\ newC \in [Keys -> Nat] /\ IsFiniteSet(Keys)
  BY ReservationConstants DEF TablesTypeOK, DecisionRows
<1>2. \A j \in Keys \ {k} : oldA[j] = newA[j] /\ oldC[j] = newC[j]
  BY DEF CountsIn, TablesTypeOK
<1>3. decision'[k] = row /\ row.alloc \in Nat /\ row.credit \in Nat
  BY DEF TablesTypeOK, DecisionRows
<1>4. oldA[k] = 0 /\ oldC[k] = 0
  BY DEF Fresh, CountsIn
<1>5. /\ newA[k] = IF row.active /\ m = Month(now) THEN row.alloc ELSE 0
      /\ newC[k] = IF row.active /\ m = Month(now) THEN row.credit ELSE 0
  BY <1>3 DEF CountsIn
<1>6. /\ ReservedAlloc(m) = Total(oldA) /\ ReservedAlloc(m)' = Total(newA)
      /\ ReservedCredit(m) = Total(oldC) /\ ReservedCredit(m)' = Total(newC)
  BY DEF ReservedAlloc, ReservedCredit
<1> HIDE DEF oldA, newA, oldC, newC
<1>7. /\ Total(newA) + oldA[k] = Total(oldA) + newA[k]
      /\ Total(newC) + oldC[k] = Total(oldC) + newC[k]
  BY <1>1, <1>2, TotalUpdate
<1>8. /\ Total(oldA) \in Nat /\ Total(newA) \in Nat /\ Total(oldC) \in Nat /\ Total(newC) \in Nat
  BY <1>1, TotalType
<1>9. CASE row.active /\ m = Month(now)
  <2>1. newA[k] = row.alloc /\ newC[k] = row.credit
    BY <1>5, <1>9
  <2>2. Total(newA) = Total(oldA) + row.alloc /\ Total(newC) = Total(oldC) + row.credit
    BY <1>3, <1>4, <1>7, <1>8, <2>1
  <2> QED BY <1>6, <1>9, <2>2
<1>10. CASE ~(row.active /\ m = Month(now))
  <2>1. newA[k] = 0 /\ newC[k] = 0
    BY <1>5, <1>10
  <2>2. Total(newA) = Total(oldA) /\ Total(newC) = Total(oldC)
    BY <1>4, <1>7, <1>8, <2>1
  <2> QED BY <1>6, <1>10, <2>2
<1> QED BY <1>9, <1>10

(* A pool's headroom after a step, as a sum over all grants. *)
LEMMA HeadroomNext ==
  ASSUME TablesTypeOK', NEW pool, NEW p, NEW time
  PROVE  /\ GrantHeadroom(pool, p, time)'
              = Total([g \in Grants |-> IF g \in Drawable(pool, p, time)'
                                       THEN grant'[g].remaining ELSE 0])
         /\ GrantHeadroom(pool, p, time)' \in Nat
<1> DEFINE open == Drawable(pool, p, time)'
           some == [g \in open |-> grant'[g].remaining]
           all  == [g \in Grants |-> IF g \in open THEN some[g] ELSE 0]
           new  == [g \in Grants |-> IF g \in open THEN grant'[g].remaining ELSE 0]
<1>1. open \in SUBSET Grants
  BY DEF Drawable
<1>2. some \in [open -> Nat] /\ GrantHeadroom(pool, p, time)' = Total(some)
  BY <1>1 DEF GrantHeadroom, TablesTypeOK, GrantRows
<1>3. all = new /\ IsFiniteSet(open)
  BY <1>1, ReservationConstants, FS_Subset
<1>4. Total(some) = Total(all) /\ Total(some) \in Nat
  <2> HIDE DEF some, open
  <2>1. Total(some) = Total([g \in Grants |-> IF g \in open THEN some[g] ELSE 0])
    BY <1>1, <1>2, TotalRestrict
  <2> QED BY <1>2, <1>3, <2>1, TotalType DEF open
<1> QED BY <1>2, <1>3, <1>4

(***************************************************************************)
(* A step in which no grant that has not expired loses anything.           *)
(***************************************************************************)
GrantsStand ==
  \A g \in Grants :
    (grant[g].active /\ grant[g].remaining > 0 /\ NotExpired(g, now)) =>
      grant'[g].active /\ grant[g].remaining <= grant'[g].remaining

(* Where grants stand and time goes on, no headroom shrinks.               *)
LEMMA HeadroomStands ==
  ASSUME TablesTypeOK, TablesTypeOK', GrantsStand, NEW pool, NEW p, NEW time,
         \A g \in Grants : NotExpired(g, time) => NotExpired(g, now)
  PROVE  /\ GrantHeadroom(pool, p, time) <= GrantHeadroom(pool, p, time)'
         /\ GrantHeadroom(pool, p, time) \in Nat /\ GrantHeadroom(pool, p, time)' \in Nat
<1> DEFINE old == [g \in Grants |-> IF g \in Drawable(pool, p, time) THEN grant[g].remaining
                                    ELSE 0]
           new == [g \in Grants |-> IF g \in Drawable(pool, p, time)' THEN grant'[g].remaining
                                    ELSE 0]
<1>1. old \in [Grants -> Nat] /\ new \in [Grants -> Nat] /\ IsFiniteSet(Grants)
  BY ReservationConstants DEF TablesTypeOK, GrantRows
<1>2. GrantHeadroom(pool, p, time) = Total(old)
  BY HeadroomOfGrants
<1>3. GrantHeadroom(pool, p, time)' = Total(new)
  BY HeadroomNext
<1>4. ASSUME NEW g \in Grants PROVE old[g] <= new[g]
  <2>1. old[g] \in Nat /\ new[g] \in Nat
    BY <1>1
  <2>2. CASE g \in Drawable(pool, p, time) /\ grant[g].remaining > 0
    <3>1. grant[g].active /\ NotExpired(g, time)
      BY <2>2 DEF Drawable
    <3>2. grant'[g].active /\ grant[g].remaining <= grant'[g].remaining
      BY <2>2, <3>1 DEF GrantsStand
    <3>3. g \in Drawable(pool, p, time)'
      BY <2>2, <3>1, <3>2 DEF Drawable, NotExpired
    <3>4. old[g] = grant[g].remaining /\ new[g] = grant'[g].remaining
      BY <2>2, <3>3
    <3> HIDE DEF old, new
    <3> QED BY <3>2, <3>4
  <2>3. CASE ~(g \in Drawable(pool, p, time) /\ grant[g].remaining > 0)
    <3>1. old[g] = 0
      <4>1. grant[g].remaining \in Nat
        BY DEF TablesTypeOK, GrantRows
      <4> QED BY <2>3, <4>1
    <3> HIDE DEF old, new
    <3> QED BY <2>1, <3>1
  <2> QED BY <2>2, <2>3
<1> HIDE DEF old, new
<1>5. Total(old) <= Total(new) /\ Total(old) \in Nat /\ Total(new) \in Nat
  BY <1>1, <1>4, TotalMonotone, TotalType
<1> QED BY <1>2, <1>3, <1>5

-----------------------------------------------------------------------------
(***************************************************************************)
(* What a step of a call may be to what it has read: it leaves the         *)
(* evaluation, enters the locked part of it, or reads on under the lock.   *)
(***************************************************************************)
Leaves(r) == gate'[r].pc \notin Reading /\ policyLock' \in {policyLock, Unlocked(r)}

Enters(r) == policyLock = NoRequest /\ policyLock' = r /\ gate'[r].pc = "recheck"

Same(r, fields) == \A field \in fields : gate'[r][field] = gate[r][field]

Pool(pool, r) == GrantHeadroom(pool, input[r].project, gate[r].at)

ReadsOn(r) ==
  \/ At(r, "recheck") /\ gate'[r].pc = "totals" /\ gate'[r].at = now
  \/ /\ At(r, "totals") /\ gate'[r].pc = "budget" /\ Same(r, {"at"})
     /\ gate'[r].alloc = ReservedAlloc(Month(gate[r].at))
     /\ gate'[r].credit = ReservedCredit(Month(gate[r].at))
  \/ At(r, "budget") /\ gate'[r].pc = "reserved" /\ Same(r, {"at", "alloc", "credit"})
  \/ /\ At(r, "reserved") /\ gate'[r].pc = "emergency" /\ Same(r, {"at", "alloc", "credit"})
     /\ gate'[r].reserved = Pool("RESERVED", r)
  \/ /\ At(r, "emergency") /\ gate'[r].pc = "decisions"
     /\ Same(r, {"at", "alloc", "credit", "reserved"})
     /\ gate'[r].emergency = Pool("EMERGENCY", r)
  \/ /\ At(r, "decisions") /\ gate'[r].pc = "mapped"
     /\ Same(r, {"at", "alloc", "credit", "reserved", "emergency"})
  \/ /\ At(r, "mapped") /\ gate'[r].pc = "persist" /\ Same(r, {"at", "alloc", "credit"})
     /\ gate'[r].reserved <= gate[r].reserved /\ gate'[r].emergency <= gate[r].emergency

Reads(r) == gate[r].pc \in Reading /\ UNCHANGED <<tables, policyLock>> /\ ReadsOn(r)

(* A call is told that credit is short only where its draw finds it so. *)
Tells(r) ==
  gate'[r].reply = "short" =>
    \/ gate[r].reply = "short" /\ ~At(r, "done")
    \/ At(r, "persist") /\ Refused(r) /\ \E u \in BOOLEAN : ~Covered(r, u)

CallSteps(r) ==
  /\ \A q \in Requests \ {r} : gate'[q] = gate[q]
  /\ UNCHANGED <<now, input>>
  /\ Leaves(r) \/ (Enters(r) /\ UNCHANGED tables) \/ Reads(r)
  /\ Tells(r)

(* A call that is answered leaves the lock, and no table changes by it.    *)
LEMMA ReplySteps ==
  ASSUME TypeOK, NEW r \in Requests, NEW what, Reply(r, what), now' = now, what # "short"
  PROVE  CallSteps(r)
<1> DEFINE s == [Blank EXCEPT !.pc = "done", !.reply = what]
<1>1. s.pc = "done" /\ s.reply = what
  BY DEF Blank
<1>2. gate' = [gate EXCEPT ![r] = s]
  BY DEF Reply
<1> HIDE DEF s
<1>3. gate'[r] = s /\ \A q \in Requests \ {r} : gate'[q] = gate[q]
  BY <1>2 DEF TypeOK
<1>4. Leaves(r) /\ Tells(r) /\ input' = input
  BY <1>1, <1>3 DEF Leaves, Reading, Tells, Reply
<1> QED BY <1>3, <1>4 DEF CallSteps

(* So does one that is answered with what is recorded.                     *)
LEMMA AnswerSteps ==
  ASSUME TypeOK, NEW r \in Requests, AnswerRecorded(r)
  PROVE  CallSteps(r)
<1>1. decision[Key(r)].outcome # "short" /\ now' = now
  BY InputTypes DEF AnswerRecorded, tables, TypeOK, TablesTypeOK, DecisionRows, Outcomes
<1> QED BY <1>1, ReplySteps DEF AnswerRecorded

(* A call that goes on by one query changes the field it reads.            *)
LEMMA AdvanceSteps ==
  ASSUME TypeOK, NEW r \in Requests, NEW pc, NEW field, NEW value, Advance(r, pc, field, value)
  PROVE  /\ \A q \in Requests \ {r} : gate'[q] = gate[q]
         /\ UNCHANGED <<now, tables, policyLock, input>>
<1> DEFINE s == [[gate[r] EXCEPT !.pc = pc] EXCEPT ![field] = value]
<1>1. gate' = [gate EXCEPT ![r] = s] /\ UNCHANGED <<now, tables, policyLock, input>>
  BY DEF Advance, TypeOK, tables
<1> HIDE DEF s
<1>2. \A q \in Requests \ {r} : gate'[q] = gate[q]
  BY <1>1 DEF TypeOK
<1> QED BY <1>1, <1>2

(* A call that takes the fail-safe path forgets what it has read.          *)
LEMMA BlankSteps ==
  ASSUME TypeOK, NEW r \in Requests, UNCHANGED <<now, input>>,
         gate' = [gate EXCEPT ![r] = [Blank EXCEPT !.pc = "fsContext"]],
         policyLock' \in {policyLock, Unlocked(r)}
  PROVE  CallSteps(r)
<1> DEFINE s == [Blank EXCEPT !.pc = "fsContext"]
<1>1. s.pc = "fsContext" /\ s.reply = "none"
  BY DEF Blank
<1>2. gate' = [gate EXCEPT ![r] = s]
  OBVIOUS
<1> HIDE DEF s
<1>3. gate'[r] = s /\ \A q \in Requests \ {r} : gate'[q] = gate[q]
  BY <1>2 DEF TypeOK
<1>4. Leaves(r) /\ Tells(r)
  BY <1>1, <1>3 DEF Leaves, Reading, Tells
<1> QED BY <1>3, <1>4 DEF CallSteps

(* The recording of a decision is the end of its call, or of its evaluation.*)
LEMMA PersistSteps ==
  ASSUME TypeOK, NEW r \in Requests, Persist(r)
  PROVE  CallSteps(r)
<1>1. At(r, "persist")
  BY DEF Persist
<1>2. CASE AnswerRecorded(r)
  BY <1>2, AnswerSteps
<1>3. ASSUME NEW u \in BOOLEAN, ~Covered(r, u), Refused(r) PROVE CallSteps(r)
  <2> DEFINE s == [Blank EXCEPT !.pc = "done", !.reply = "short", !.at = gate[r].at]
  <2>1. s.pc = "done"
    BY DEF Blank
  <2>2. gate' = [gate EXCEPT ![r] = s] /\ policyLock' = Unlocked(r) /\ UNCHANGED <<now, input>>
    BY <1>3 DEF Refused, tables
  <2> HIDE DEF s
  <2>3. gate'[r] = s /\ \A q \in Requests \ {r} : gate'[q] = gate[q]
    BY <2>2 DEF TypeOK
  <2>4. Leaves(r)
    BY <2>1, <2>2, <2>3 DEF Leaves, Reading
  <2>5. Tells(r)
    BY <1>1, <1>3 DEF Tells
  <2> QED BY <2>2, <2>3, <2>4, <2>5 DEF CallSteps
<1>4. ASSUME NEW u \in BOOLEAN, Records(r, u) PROVE now' = now
  BY <1>4 DEF Records, Record
<1>5. ASSUME NEW u \in BOOLEAN, Records(r, u), Reply(r, Row(r, u).outcome) PROVE CallSteps(r)
  <2>1. Row(r, u).outcome # "short"
    BY RecordsTypes, <1>5 DEF Outcomes
  <2> QED BY <1>4, <1>5, <2>1, ReplySteps
<1>6. ASSUME NEW u \in BOOLEAN, Records(r, u), CutOff(r) PROVE CallSteps(r)
  BY <1>4, <1>6, BlankSteps DEF CutOff
<1> QED BY <1>2, <1>3, <1>5, <1>6, PersistCases

(* Every query of a call is such a step.                                   *)
LEMMA ReadingSteps ==
  ASSUME TypeOK, NEW r \in Requests,
         \/ BuildContext(r) \/ Lookup(r) \/ AcquireLock(r) \/ LockTimeout(r) \/ Recheck(r)
         \/ ReadReservedTotals(r) \/ ReadBudget(r) \/ ReadReservedGrants(r)
         \/ ReadEmergencyGrants(r) \/ ReadDecisionCredit(r) \/ ReadMappedCredit(r)
         \/ FailSafeContext(r) \/ FailSafeLookup(r)
  PROVE  CallSteps(r)
<1>1. gate[r] \in GateStates
  BY DEF TypeOK
<1>2. CASE BuildContext(r)
  <2>0. Advance(r, "lookup", "policy", policy)
    BY <1>2 DEF BuildContext
  <2>1. /\ \A q \in Requests \ {r} : gate'[q] = gate[q]
        /\ UNCHANGED <<now, tables, policyLock, input>>
    BY <2>0, AdvanceSteps
  <2>2. gate'[r].pc = "lookup" /\ gate'[r].reply = gate[r].reply
    BY <1>1, <2>0 DEF Advance, TypeOK, GateStates
  <2>3. Leaves(r) /\ Tells(r)
    BY <1>2, <2>1, <2>2 DEF Leaves, Reading, Tells, At, BuildContext
  <2> QED BY <2>1, <2>3 DEF CallSteps
<1>3. CASE Lookup(r) /\ ~AnswerRecorded(r)
  <2>0. Advance(r, "lock", "policy", gate[r].policy)
    BY <1>3 DEF Lookup
  <2>1. /\ \A q \in Requests \ {r} : gate'[q] = gate[q]
        /\ UNCHANGED <<now, tables, policyLock, input>>
    BY <2>0, AdvanceSteps
  <2>2. gate'[r].pc = "lock" /\ gate'[r].reply = gate[r].reply
    BY <1>1, <2>0 DEF Advance, TypeOK, GateStates
  <2>3. Leaves(r) /\ Tells(r)
    BY <1>3, <2>1, <2>2 DEF Leaves, Reading, Tells, At, Lookup
  <2> QED BY <2>1, <2>3 DEF CallSteps
<1>4. CASE AcquireLock(r)
  <2>1. /\ gate'[r].pc = "recheck" /\ gate'[r].reply = gate[r].reply
        /\ \A q \in Requests \ {r} : gate'[q] = gate[q]
    BY <1>1, <1>4 DEF AcquireLock, TypeOK, GateStates
  <2>2. Enters(r) /\ UNCHANGED tables /\ UNCHANGED <<now, input>>
    BY <1>4, <2>1 DEF AcquireLock, Enters, tables
  <2>3. Tells(r)
    BY <1>4, <2>1 DEF Tells, At, AcquireLock
  <2> QED BY <2>1, <2>2, <2>3 DEF CallSteps
<1>5. CASE LockTimeout(r)
  <2>0. Advance(r, "fsContext", "at", 0)
    BY <1>5 DEF LockTimeout
  <2>1. /\ \A q \in Requests \ {r} : gate'[q] = gate[q]
        /\ UNCHANGED <<now, tables, policyLock, input>>
    BY <2>0, AdvanceSteps
  <2>2. gate'[r].pc = "fsContext" /\ gate'[r].reply = gate[r].reply
    BY <1>1, <2>0 DEF Advance, TypeOK, GateStates
  <2>3. Leaves(r) /\ Tells(r)
    BY <1>5, <2>1, <2>2 DEF Leaves, Reading, Tells, At, LockTimeout
  <2> QED BY <2>1, <2>3 DEF CallSteps
<1>6. CASE Recheck(r) /\ ~AnswerRecorded(r)
  <2>0. Advance(r, "totals", "at", now) /\ At(r, "recheck")
    BY <1>6 DEF Recheck
  <2>1. /\ \A q \in Requests \ {r} : gate'[q] = gate[q]
        /\ UNCHANGED <<now, tables, policyLock, input>> /\ At(r, "recheck")
    BY <2>0, AdvanceSteps
  <2>2. gate'[r].pc = "totals" /\ gate'[r].reply = gate[r].reply /\ gate'[r].at = now
    BY <1>1, <2>0 DEF Advance, TypeOK, GateStates
  <2>3. Reads(r) /\ Tells(r)
    BY <2>1, <2>2 DEF Reads, ReadsOn, Reading, Tells, At
  <2> QED BY <2>1, <2>3 DEF CallSteps
<1>7. CASE ReadReservedTotals(r)
  <2>1. /\ gate'[r].pc = "budget" /\ gate'[r].reply = gate[r].reply
        /\ gate'[r].at = gate[r].at
        /\ gate'[r].alloc = ReservedAlloc(Month(gate[r].at))
        /\ gate'[r].credit = ReservedCredit(Month(gate[r].at))
        /\ \A q \in Requests \ {r} : gate'[q] = gate[q]
    BY <1>1, <1>7 DEF ReadReservedTotals, TypeOK, GateStates
  <2>2. UNCHANGED <<now, tables, policyLock, input>> /\ At(r, "totals")
    BY <1>7 DEF ReadReservedTotals, tables
  <2>3. Same(r, {"at"})
    BY <2>1 DEF Same
  <2>4. Reads(r) /\ Tells(r)
    BY <2>1, <2>2, <2>3 DEF Reads, ReadsOn, Reading, Tells, At
  <2> QED BY <2>1, <2>2, <2>4 DEF CallSteps
<1>8. CASE ReadBudget(r)
  <2>0. Advance(r, "reserved", "limit", EffectiveLimit(input[r].project)) /\ At(r, "budget")
    BY <1>8 DEF ReadBudget
  <2>1. /\ \A q \in Requests \ {r} : gate'[q] = gate[q]
        /\ UNCHANGED <<now, tables, policyLock, input>> /\ At(r, "budget")
    BY <2>0, AdvanceSteps
  <2>2. gate'[r].pc = "reserved" /\ gate'[r].reply = gate[r].reply
        /\ Same(r, {"at", "alloc", "credit"})
    BY <1>1, <2>0 DEF Advance, TypeOK, GateStates, Same
  <2>3. Reads(r) /\ Tells(r)
    BY <2>1, <2>2 DEF Reads, ReadsOn, Reading, Tells, At
  <2> QED BY <2>1, <2>3 DEF CallSteps
<1>9. CASE ReadReservedGrants(r)
  <2>0. Advance(r, "emergency", "reserved", Pool("RESERVED", r)) /\ At(r, "reserved")
    BY <1>9 DEF ReadReservedGrants, Pool
  <2>1. /\ \A q \in Requests \ {r} : gate'[q] = gate[q]
        /\ UNCHANGED <<now, tables, policyLock, input>> /\ At(r, "reserved")
    BY <2>0, AdvanceSteps
  <2>2. gate'[r].pc = "emergency" /\ gate'[r].reply = gate[r].reply
        /\ Same(r, {"at", "alloc", "credit"}) /\ gate'[r].reserved = Pool("RESERVED", r)
    BY <1>1, <2>0 DEF Advance, TypeOK, GateStates, Same
  <2>3. Reads(r) /\ Tells(r)
    BY <2>1, <2>2 DEF Reads, ReadsOn, Reading, Tells, At
  <2> QED BY <2>1, <2>3 DEF CallSteps
<1>10. CASE ReadEmergencyGrants(r)
  <2>0. Advance(r, "decisions", "emergency", Pool("EMERGENCY", r)) /\ At(r, "emergency")
    BY <1>10 DEF ReadEmergencyGrants, Pool
  <2>1. /\ \A q \in Requests \ {r} : gate'[q] = gate[q]
        /\ UNCHANGED <<now, tables, policyLock, input>> /\ At(r, "emergency")
    BY <2>0, AdvanceSteps
  <2>2. gate'[r].pc = "decisions" /\ gate'[r].reply = gate[r].reply
        /\ Same(r, {"at", "alloc", "credit", "reserved"})
        /\ gate'[r].emergency = Pool("EMERGENCY", r)
    BY <1>1, <2>0 DEF Advance, TypeOK, GateStates, Same
  <2>3. Reads(r) /\ Tells(r)
    BY <2>1, <2>2 DEF Reads, ReadsOn, Reading, Tells, At
  <2> QED BY <2>1, <2>3 DEF CallSteps
<1>11. CASE ReadDecisionCredit(r)
  <2>0. Advance(r, "mapped", "held", DecisionCredit) /\ At(r, "decisions")
    BY <1>11 DEF ReadDecisionCredit
  <2>1. /\ \A q \in Requests \ {r} : gate'[q] = gate[q]
        /\ UNCHANGED <<now, tables, policyLock, input>> /\ At(r, "decisions")
    BY <2>0, AdvanceSteps
  <2>2. gate'[r].pc = "mapped" /\ gate'[r].reply = gate[r].reply
        /\ Same(r, {"at", "alloc", "credit", "reserved", "emergency"})
    BY <1>1, <2>0 DEF Advance, TypeOK, GateStates, Same
  <2>3. Reads(r) /\ Tells(r)
    BY <2>1, <2>2 DEF Reads, ReadsOn, Reading, Tells, At
  <2> QED BY <2>1, <2>3 DEF CallSteps
<1>12. CASE ReadMappedCredit(r)
  <2> DEFINE uncovered == Positive(gate[r].held - MappedCredit)
             reduction == Least(uncovered, gate[r].reserved)
             rest      == Positive(gate[r].emergency - (uncovered - reduction))
  <2>1. /\ gate'[r].pc = "persist" /\ gate'[r].reply = gate[r].reply
        /\ gate'[r].reserved = gate[r].reserved - reduction /\ gate'[r].emergency = rest
        /\ Same(r, {"at", "alloc", "credit"})
        /\ \A q \in Requests \ {r} : gate'[q] = gate[q]
    BY <1>1, <1>12 DEF ReadMappedCredit, TypeOK, GateStates, Same
  <2>2. UNCHANGED <<now, tables, policyLock, input>> /\ At(r, "mapped")
    BY <1>12 DEF ReadMappedCredit, tables
  <2>3. /\ gate[r].reserved \in Nat /\ gate[r].emergency \in Nat /\ gate[r].held \in Nat
        /\ MappedCredit \in Nat
    BY <1>1, SumTypes DEF GateStates, TypeOK
  <2>4. gate[r].reserved - reduction <= gate[r].reserved /\ rest <= gate[r].emergency
    BY <2>3 DEF Least, Positive
  <2>5. Reads(r) /\ Tells(r)
    BY <2>1, <2>2, <2>4 DEF Reads, ReadsOn, Reading, Tells, At
  <2> QED BY <2>1, <2>2, <2>5 DEF CallSteps
<1>13. CASE FailSafeContext(r)
  <2>1. /\ gate'[r].pc = "fsLookup" /\ gate'[r].reply = gate[r].reply
        /\ \A q \in Requests \ {r} : gate'[q] = gate[q]
    BY <1>1, <1>13 DEF FailSafeContext, TypeOK, GateStates
  <2>2. UNCHANGED <<now, tables, policyLock, input>> /\ At(r, "fsContext")
    BY <1>13 DEF FailSafeContext, tables
  <2>3. Leaves(r) /\ Tells(r)
    BY <2>1, <2>2 DEF Leaves, Reading, Tells, At
  <2> QED BY <2>1, <2>2, <2>3 DEF CallSteps
<1>14. CASE FailSafeLookup(r) /\ ~AnswerRecorded(r)
  <2>0. Advance(r, "fsPersist", "alloc", 0)
    BY <1>14 DEF FailSafeLookup
  <2>1. /\ \A q \in Requests \ {r} : gate'[q] = gate[q]
        /\ UNCHANGED <<now, tables, policyLock, input>>
    BY <2>0, AdvanceSteps
  <2>2. gate'[r].pc = "fsPersist" /\ gate'[r].reply = gate[r].reply
    BY <1>1, <2>0 DEF Advance, TypeOK, GateStates
  <2>3. Leaves(r) /\ Tells(r)
    BY <1>14, <2>1, <2>2 DEF Leaves, Reading, Tells, At, FailSafeLookup
  <2> QED BY <2>1, <2>3 DEF CallSteps
<1>15. CASE AnswerRecorded(r)
  BY <1>15, AnswerSteps
<1> QED BY <1>2, <1>3, <1>4, <1>5, <1>6, <1>7, <1>8, <1>9, <1>10, <1>11, <1>12, <1>13, <1>14,
           <1>15

(* Every step of a call is of that form. *)
LEMMA GateSteps ==
  ASSUME TypeOK, NEW r \in Requests, GateStep(r)
  PROVE  CallSteps(r)
<1>1. CASE Persist(r)
  BY <1>1, PersistSteps
<1>2. CASE FailSafePersist(r)
  <2>1. CASE AnswerRecorded(r)
    BY <2>1, AnswerSteps
  <2>2. CASE ~AnswerRecorded(r)
    <3>1. Reply(r, FailSafeRow(r).outcome) /\ now' = now
      BY <1>2, <2>2 DEF FailSafePersist, Record
    <3>2. FailSafeRow(r).outcome # "short"
      BY FailSafeRowType DEF Outcomes
    <3> QED BY <3>1, <3>2, ReplySteps
  <2> QED BY <2>1, <2>2
<1>3. CASE EvaluationFails(r)
  BY <1>3, BlankSteps DEF EvaluationFails, tables
<1>4. CASE RequestLost(r)
  <2>1. Reply(r, "error") /\ now' = now
    BY <1>4 DEF RequestLost, tables
  <2> QED BY <2>1, ReplySteps
<1> QED BY <1>1, <1>2, <1>3, <1>4, ReadingSteps DEF GateStep, Evaluation

-----------------------------------------------------------------------------
(***************************************************************************)
(* What a step may be to the tables: nothing comes to stand by it and no   *)
(* live grant loses credit, or an evaluation records its decision.         *)
(***************************************************************************)
Decides(r, u) ==
  At(r, "persist") /\ ~Recorded(Key(r)) /\ Records(r, u) /\ gate'[r].pc \notin Reading

(* A settlement only ever adds to a grant, and closes only what expired. *)
LEMMA GivesStands ==
  ASSUME TypeOK, CreditConserved, HoldsFollow, NEW ks \in SUBSET Keys, Gives(ks)
  PROVE  Recedes /\ GrantsStand
<1>1. PICK why \in Settlements, spend \in Nat : Close(ks, why, spend)
  BY DEF Gives
<1>2. TablesTypeOK
  BY DEF TypeOK
<1>3. Recedes
  BY <1>1, <1>2, CloseLeaves DEF Recedes
<1>4. ASSUME NEW g \in Grants, grant[g].active, grant[g].remaining > 0, NotExpired(g, now)
      PROVE  grant'[g].active /\ grant[g].remaining <= grant'[g].remaining
  <2> DEFINE paying == {k \in ks : decision[k].credit > 0}
             refund == Total([k \in paying |-> Released(k, spend)[g]])
  <2>1. grant'[g] = grant[g] \/ grant'[g] = RefundedGrant(g, refund)
    BY <1>1 DEF Close, Settle
  <2>2. refund \in Nat
    <3>1. IsFiniteSet(paying)
      BY ReservationConstants, FS_Subset
    <3>2. [k \in paying |-> Released(k, spend)[g]] \in [paying -> Nat]
      BY <1>2, SettlementTypes
    <3> QED BY <3>1, <3>2, TotalType
  <2> HIDE DEF refund
  <2>3. /\ grant[g] \in GrantRows /\ grant[g].remaining \in Nat /\ GrantInfo[g].total \in Nat
        /\ grant[g].remaining <= GrantInfo[g].total
    BY <1>2, PartsFit, ReservationConstants DEF TablesTypeOK, GrantRows
  <2>4. CASE grant'[g] = RefundedGrant(g, refund)
    <3> DEFINE left == Least(grant[g].remaining + refund, GrantInfo[g].total)
    <3>1. grant'[g].remaining = left /\ (grant'[g].active <=> left > 0 /\ NotExpired(g, now))
      BY <2>3, <2>4 DEF RefundedGrant, GrantRows
    <3>2. grant[g].remaining <= left
      BY <2>2, <2>3 DEF Least
    <3>3. left \in Nat
      BY <2>2, <2>3 DEF Least
    <3> HIDE DEF left
    <3> QED BY <1>4, <2>3, <3>1, <3>2, <3>3
  <2>5. CASE grant'[g] = grant[g]
    BY <1>4, <2>3, <2>5
  <2> QED BY <2>1, <2>4, <2>5
<1> QED BY <1>3, <1>4 DEF GrantsStand

(* Neither does any step that leaves decisions alone. *)
LEMMA KeepsStands ==
  ASSUME TablesTypeOK, CreditConserved, Keeps
  PROVE  Recedes /\ GrantsStand
<1>1. Recedes
  BY DEF Keeps, Recedes
<1>2. ASSUME NEW g \in Grants, grant[g].active, grant[g].remaining > 0
      PROVE  grant'[g].active /\ grant[g].remaining <= grant'[g].remaining
  <2>1. grant[g].remaining \in Nat
    BY DEF TablesTypeOK, GrantRows
  <2>2. CASE grant'[g] = grant[g]
    BY <1>2, <2>1, <2>2
  <2>3. ASSUME NEW h \in Grants, CreateGrant(h) PROVE grant'[g] = grant[g]
    <3>1. CASE g = h
      <4>1. grant[h].remaining + Held(h) + Spent(h) = 0
        BY <2>3, PartsFit DEF CreateGrant
      <4>2. Held(h) \in Nat /\ Spent(h) \in Nat
        BY PartsFit
      <4> QED BY <1>2, <2>1, <3>1, <4>1, <4>2
    <3>2. CASE g # h
      BY <2>3, <3>2 DEF CreateGrant, TablesTypeOK
    <3> QED BY <3>1, <3>2
  <2> QED BY <2>2, <2>3 DEF Keeps
<1> QED BY <1>1, <1>2 DEF GrantsStand

(* The fail-safe path records a decision that reserves nothing. *)
LEMMA FailSafeStands ==
  ASSUME TypeOK, NEW r \in Requests, ~Recorded(Key(r)),
         Record(Key(r), FailSafeRow(r), [g \in Grants |-> 0], ApprovalFor(r, FailSafeRow(r)))
  PROVE  Recedes /\ GrantsStand
<1>1. TablesTypeOK /\ Key(r) \in Keys
  BY InputTypes DEF TypeOK
<1>2. ~FailSafeRow(r).active
  BY DEF FailSafeRow, NoDecision
<1>3. \A k \in Keys : decision'[k] = IF k = Key(r) THEN FailSafeRow(r) ELSE decision[k]
  BY <1>1 DEF Record, TablesTypeOK
<1>4. \A g \in Grants : grant'[g] = grant[g] /\ grant[g].remaining \in Nat
  BY <1>1 DEF Record, TablesTypeOK, GrantRows
<1>5. GrantsStand
  BY <1>4 DEF GrantsStand
<1> QED BY <1>2, <1>3, <1>5 DEF Recedes

(* A step of the tables gives up and spends nothing more, or decides.      *)
LEMMA TableSteps ==
  ASSUME TypeOK, SafeTables, CreditConserved, [Next]_vars
  PROVE  \/ Recedes /\ GrantsStand
         \/ \E r \in Requests, u \in BOOLEAN : Decides(r, u)
<1>1. TablesTypeOK /\ HoldsFollow
  BY DEF TypeOK, SafeTables
<1>2. CASE UNCHANGED tables
  <2>1. Keeps
    BY <1>2 DEF Keeps, tables
  <2> QED BY <1>1, <2>1, KeepsStands
<1>3. ASSUME NEW r \in Requests, Persist(r)
      PROVE  UNCHANGED tables \/ \E u \in BOOLEAN : Decides(r, u)
  <2>1. At(r, "persist")
    BY <1>3 DEF Persist
  <2>2. ASSUME CutOff(r) \/ \E what : Reply(r, what)
        PROVE  gate'[r].pc \notin Reading
    BY <2>2 DEF Reply, CutOff, Blank, Reading, TypeOK
  <2> QED BY <1>3, <2>1, <2>2, PersistCases DEF AnswerRecorded, Refused, Decides
<1>4. ASSUME NEW r \in Requests, FailSafePersist(r)
      PROVE  UNCHANGED tables \/ (Recedes /\ GrantsStand)
  <2>1. CASE AnswerRecorded(r)
    BY <2>1 DEF AnswerRecorded
  <2>2. CASE ~AnswerRecorded(r)
    <3>1. /\ ~Recorded(Key(r))
          /\ Record(Key(r), FailSafeRow(r), [g \in Grants |-> 0], ApprovalFor(r, FailSafeRow(r)))
      BY <1>4, <2>2 DEF FailSafePersist
    <3> QED BY <3>1, FailSafeStands
  <2> QED BY <2>1, <2>2
<1>5. ASSUME NEW r \in Requests, EvaluationFails(r) \/ RequestLost(r) PROVE UNCHANGED tables
  BY <1>5 DEF EvaluationFails, RequestLost
<1>6. ASSUME NEW r \in Requests, Lookup(r) \/ Recheck(r) \/ FailSafeLookup(r)
      PROVE  UNCHANGED tables
  BY <1>6 DEF Lookup, Recheck, FailSafeLookup, AnswerRecorded, Advance
<1>7. ASSUME NEW r \in Requests,
             \/ BuildContext(r) \/ AcquireLock(r) \/ LockTimeout(r) \/ FailSafeContext(r)
             \/ ReadReservedTotals(r) \/ ReadBudget(r) \/ ReadReservedGrants(r)
             \/ ReadEmergencyGrants(r) \/ ReadDecisionCredit(r) \/ ReadMappedCredit(r)
      PROVE  UNCHANGED tables
  BY <1>7 DEF BuildContext, AcquireLock, LockTimeout, FailSafeContext, ReadReservedTotals,
              ReadBudget, ReadReservedGrants, ReadEmergencyGrants, ReadDecisionCredit,
              ReadMappedCredit, Advance
<1>8. ASSUME NEW p \in Policies, UpdatePolicy(p) PROVE UNCHANGED tables
  BY <1>8 DEF UpdatePolicy
<1>9. CASE TablesNext
  BY <1>1, <1>9, HandlerMoves, KeepsStands, GivesStands
<1>10. CASE UNCHANGED vars
  BY <1>2, <1>10 DEF vars
<1> QED BY <1>2, <1>3, <1>4, <1>5, <1>6, <1>7, <1>8, <1>9, <1>10
        DEF Next, GateStep, Evaluation

-----------------------------------------------------------------------------
(***************************************************************************)
(* The invariant.  Only the call that has the policy row locked reads on,  *)
(* so until it decides nothing else comes to stand: the sums it has read   *)
(* bound those of the month it read them for and of any later one, and the *)
(* credit it has been promised is there unless a grant expired meanwhile.  *)
(***************************************************************************)
Lapsed(r) == \E g \in Grants : gate[r].at < GrantInfo[g].expires /\ GrantInfo[g].expires <= now

Dated == \A k \in Keys : decision[k].active => decision[k].created <= now

LockHeld == \A r \in Requests : gate[r].pc \in Reading => policyLock = r

Past ==
  \A r \in Requests : gate[r].pc \in Reading \ {"recheck"} =>
    /\ gate[r].at <= now
    /\ \A k \in Keys : decision[k].active => decision[k].created <= gate[r].at

Seen ==
  \A r \in Requests : gate[r].pc \in Reading \ {"recheck", "totals"} =>
    \A m \in Nat : Month(gate[r].at) <= m =>
      ReservedAlloc(m) <= gate[r].alloc /\ ReservedCredit(m) <= gate[r].credit

Promise ==
  \A r \in Requests :
    /\ gate[r].pc \in {"emergency", "decisions", "mapped", "persist"} =>
         Lapsed(r) \/ gate[r].reserved <= Pool("RESERVED", r)
    /\ gate[r].pc \in {"decisions", "mapped", "persist"} =>
         Lapsed(r) \/ gate[r].emergency <= Pool("EMERGENCY", r)

Refusals == \A r \in Requests : gate[r].reply = "short" => At(r, "done") /\ Lapsed(r)

Base   == TypeOK /\ SafeTables /\ Accounts /\ CreditConserved
Limits == Dated /\ LockHeld /\ Past /\ Seen /\ Promise /\ Refusals

(* Time passes, and every step is one of at most one call. *)
LEMMA OneCallMoves ==
  ASSUME TypeOK, [Next]_vars
  PROVE  /\ now <= now' /\ now \in Nat /\ now' \in Nat
         /\ UNCHANGED <<gate, policyLock>> \/ \E r \in Requests : CallSteps(r)
<1>1. now \in Nat
  BY DEF TypeOK, TablesTypeOK
<1>2. ASSUME NEW r \in Requests, CallSteps(r) PROVE now' = now
  BY <1>2 DEF CallSteps
<1>3. ASSUME TablesNext PROVE now' = now \/ now' = now + 1
  <2>1. CASE ReviewStep
    BY <2>1 DEF ReviewStep, RequestApproval, Approve, ExpireOnReview, Deny, ConsumeToken
  <2>2. CASE SettleStep
    BY <2>2 DEF SettleStep, SweepSome, Sweep, Reconcile
  <2>3. CASE UpkeepStep
    BY <2>3 DEF UpkeepStep, UpsertBudget, CreateGrant, Tick
  <2> QED BY <1>3, <2>1, <2>2, <2>3 DEF TablesNext
<1>4. CASE TablesNext /\ UNCHANGED gateVars
  BY <1>1, <1>3, <1>4 DEF gateVars
<1>5. ASSUME NEW p \in Policies, UpdatePolicy(p) PROVE UNCHANGED <<now, gate, policyLock>>
  BY <1>5 DEF UpdatePolicy, tables
<1>6. CASE UNCHANGED vars
  BY <1>1, <1>6 DEF vars, gateVars, tables
<1> QED BY <1>1, <1>2, <1>4, <1>5, <1>6, GateSteps DEF Next

(* While a call reads on, nothing is recorded and no grant is drawn on. *)
LEMMA Undisturbed ==
  ASSUME Base, LockHeld, [Next]_vars, NEW q \in Requests,
         gate[q].pc \in Reading, gate'[q].pc \in Reading
  PROVE  Recedes /\ GrantsStand
<1>1. ASSUME NEW r \in Requests, NEW u \in BOOLEAN, Decides(r, u) PROVE FALSE
  <2>1. gate[r].pc \in Reading /\ gate'[r].pc \notin Reading
    BY <1>1 DEF Decides, At, Reading
  <2>2. r = q
    BY <2>1 DEF LockHeld
  <2> QED BY <2>1, <2>2
<1> QED BY <1>1, TableSteps DEF Base

(* The rows that stand are not of the future. *)
LEMMA DatedKept ==
  ASSUME Base, TypeOK', Dated, [Next]_vars
  PROVE  Dated'
<1>1. now <= now' /\ now \in Nat /\ now' \in Nat
  BY OneCallMoves DEF Base
<1>2. \A k \in Keys : decision[k].created \in Nat /\ decision'[k].created \in Nat
  BY DEF Base, TypeOK, TablesTypeOK, DecisionRows
<1>3. CASE Recedes
  BY <1>1, <1>2, <1>3 DEF Recedes, Dated
<1>4. ASSUME NEW r \in Requests, NEW u \in BOOLEAN, Decides(r, u) PROVE Dated'
  <2>1. Key(r) \in Keys /\ TypeOK
    BY InputTypes DEF Base
  <2>2. \A k \in Keys : decision'[k] = IF k = Key(r) THEN Row(r, u) ELSE decision[k]
    BY <1>4, <2>1 DEF Decides, Records, Record, TypeOK, TablesTypeOK
  <2>3. Row(r, u).created = now
    BY <2>1, RowFits
  <2> QED BY <1>1, <1>2, <2>2, <2>3 DEF Dated
<1> QED BY <1>3, <1>4, TableSteps DEF Base

(* Of two calls, at most one has the policy row. *)
LEMMA LockKept ==
  ASSUME Base, LockHeld, [Next]_vars
  PROVE  LockHeld'
<1> SUFFICES ASSUME NEW q \in Requests, gate'[q].pc \in Reading PROVE policyLock' = q
  BY DEF LockHeld
<1>1. CASE UNCHANGED <<gate, policyLock>>
  BY <1>1 DEF LockHeld
<1>2. ASSUME NEW r \in Requests, CallSteps(r) PROVE policyLock' = q
  <2>1. CASE r = q
    BY <1>2, <2>1 DEF CallSteps, Leaves, Enters, Reads, LockHeld
  <2>2. CASE r # q
    <3>1. gate[q].pc \in Reading /\ policyLock = q
      BY <1>2, <2>2 DEF CallSteps, LockHeld
    <3>2. q # NoRequest
      BY GateConstants
    <3> QED BY <1>2, <2>2, <3>1, <3>2 DEF CallSteps, Leaves, Enters, Reads, Unlocked
  <2> QED BY <2>1, <2>2
<1> QED BY <1>1, <1>2, OneCallMoves DEF Base

(* A call that is reading on has moved, or has not, while others rested. *)
LEMMA ReadsOrRests ==
  ASSUME Base, LockHeld, [Next]_vars, NEW q \in Requests, gate'[q].pc \in Reading \ {"recheck"}
  PROVE  /\ gate[q].pc \in Reading /\ Recedes /\ GrantsStand
         /\ \/ gate'[q] = gate[q] /\ gate[q].pc \in Reading \ {"recheck"}
            \/ UNCHANGED <<now, tables>> /\ ReadsOn(q)
<1>1. ASSUME gate[q].pc \in Reading PROVE Recedes /\ GrantsStand
  <2>1. gate'[q].pc \in Reading
    OBVIOUS
  <2> QED BY <1>1, <2>1, Undisturbed
<1>2. CASE UNCHANGED <<gate, policyLock>>
  BY <1>1, <1>2
<1>3. ASSUME NEW r \in Requests, CallSteps(r), r # q PROVE gate'[q] = gate[q]
  BY <1>3 DEF CallSteps
<1>4. CASE CallSteps(q)
  BY <1>1, <1>4 DEF CallSteps, Leaves, Enters, Reads
<1> QED BY <1>1, <1>2, <1>3, <1>4, OneCallMoves DEF Base

(* An evaluation is later than all that stands. *)
LEMMA PastKept ==
  ASSUME Base, TypeOK', Dated, LockHeld, Past, [Next]_vars
  PROVE  Past'
<1> SUFFICES ASSUME NEW q \in Requests, gate'[q].pc \in Reading \ {"recheck"}
             PROVE  /\ gate'[q].at <= now'
                    /\ \A k \in Keys : decision'[k].active => decision'[k].created <= gate'[q].at
  BY DEF Past
<1>1. now <= now' /\ now \in Nat /\ now' \in Nat
  BY OneCallMoves DEF Base
<1>2. /\ gate[q].pc \in Reading /\ Recedes
      /\ \/ gate'[q] = gate[q] /\ gate[q].pc \in Reading \ {"recheck"}
         \/ UNCHANGED <<now, tables>> /\ ReadsOn(q)
  BY ReadsOrRests
<1>3. gate[q].at \in Nat
  BY DEF Base, TypeOK, GateStates
<1>4. CASE At(q, "recheck")
  <2>1. gate'[q].at = now /\ now' = now
    BY <1>2, <1>4 DEF ReadsOn, At
  <2> QED BY <1>1, <1>2, <2>1 DEF Recedes, Dated
<1>5. CASE ~At(q, "recheck")
  <2>1. gate'[q].at = gate[q].at
    BY <1>2, <1>5 DEF ReadsOn, Same, At
  <2>2. gate[q].pc \in Reading \ {"recheck"}
    BY <1>2, <1>5 DEF At
  <2>3. gate[q].at <= now /\ \A k \in Keys : decision[k].active => decision[k].created <= gate[q].at
    BY <2>2 DEF Past
  <2> QED BY <1>1, <1>2, <1>3, <2>1, <2>3 DEF Recedes
<1> QED BY <1>4, <1>5

(* What an evaluation has summed bounds the month's sums. *)
LEMMA SeenKept ==
  ASSUME Base, TypeOK', LockHeld, Past, Seen, [Next]_vars
  PROVE  Seen'
<1> SUFFICES ASSUME NEW q \in Requests, gate'[q].pc \in Reading \ {"recheck", "totals"},
                    NEW m \in Nat, Month(gate'[q].at) <= m
             PROVE  /\ ReservedAlloc(m)' <= gate'[q].alloc
                    /\ ReservedCredit(m)' <= gate'[q].credit
  BY DEF Seen, Month
<1>1. TablesTypeOK /\ TablesTypeOK'
  BY DEF Base, TypeOK
<1>2. /\ gate[q].pc \in Reading /\ Recedes
      /\ \/ gate'[q] = gate[q] /\ gate[q].pc \in Reading \ {"recheck"}
         \/ UNCHANGED <<now, tables>> /\ ReadsOn(q)
  BY ReadsOrRests
<1>3. ~At(q, "recheck")
  BY <1>2 DEF ReadsOn, At
<1>4. gate'[q].at = gate[q].at
  BY <1>2, <1>3 DEF ReadsOn, Same, At
<1>5. /\ ReservedAlloc(m) \in Nat /\ ReservedCredit(m) \in Nat
      /\ gate[q].at \in Nat /\ gate[q].alloc \in Nat /\ gate[q].credit \in Nat
  BY <1>1, SumTypes DEF Base, TypeOK, GateStates
<1>6. /\ ReservedAlloc(m)' \in Nat /\ ReservedCredit(m)' \in Nat
      /\ ReservedAlloc(m)' <= ReservedAlloc(m) /\ ReservedCredit(m)' <= ReservedCredit(m)
  BY <1>1, <1>2, SumsRecede
<1>7. CASE At(q, "totals")
  <2>1. /\ gate'[q].alloc = ReservedAlloc(Month(gate[q].at))
        /\ gate'[q].credit = ReservedCredit(Month(gate[q].at))
    BY <1>2, <1>7 DEF ReadsOn, At
  <2>2. \A k \in Keys : decision[k].active =>
          decision[k].created \in Nat /\ decision[k].created <= gate[q].at
    BY <1>1, <1>7 DEF Past, At, Reading, TablesTypeOK, DecisionRows
  <2>3. CASE m = Month(gate[q].at)
    BY <1>5, <1>6, <2>1, <2>3
  <2>4. CASE m # Month(gate[q].at)
    <3>1. Month(gate[q].at) < m
      <4>1. Month(gate[q].at) <= m /\ Month(gate[q].at) \in Nat
        BY <1>4, <1>5, MonthsPass DEF Month
      <4> QED BY <2>4, <4>1
    <3>2. ASSUME NEW k \in Keys PROVE ~CountsIn(k, m)
      <4> SUFFICES ASSUME decision[k].active, Month(decision[k].created) = m PROVE FALSE
        BY DEF CountsIn
      <4>1. decision[k].created \in Nat /\ decision[k].created <= gate[q].at
        BY <2>2
      <4>2. m <= Month(gate[q].at) /\ Month(gate[q].at) \in Nat
        BY <1>5, <4>1, MonthsPass
      <4> QED BY <3>1, <4>2
    <3> DEFINE sumA == [k \in Keys |-> IF CountsIn(k, m) THEN decision[k].alloc ELSE 0]
               sumC == [k \in Keys |-> IF CountsIn(k, m) THEN decision[k].credit ELSE 0]
    <3>3. /\ sumA \in [Keys -> Nat] /\ \A k \in Keys : sumA[k] = 0
          /\ sumC \in [Keys -> Nat] /\ \A k \in Keys : sumC[k] = 0
      BY <3>2
    <3>4. ReservedAlloc(m) = Total(sumA) /\ ReservedCredit(m) = Total(sumC)
      BY DEF ReservedAlloc, ReservedCredit
    <3> HIDE DEF sumA, sumC
    <3>5. ReservedAlloc(m) = 0 /\ ReservedCredit(m) = 0
      BY <3>3, <3>4, TotalZero
    <3>6. gate'[q].alloc \in Nat /\ gate'[q].credit \in Nat
      BY DEF TypeOK, GateStates
    <3> QED BY <1>6, <3>5, <3>6
  <2> QED BY <2>3, <2>4
<1>8. CASE ~At(q, "totals")
  <2>1. gate'[q].alloc = gate[q].alloc /\ gate'[q].credit = gate[q].credit
    BY <1>2, <1>3, <1>8 DEF ReadsOn, Same, At
  <2>2. gate[q].pc \in Reading \ {"recheck", "totals"}
    BY <1>2, <1>3, <1>8 DEF At
  <2>3. Month(gate[q].at) <= m
    BY <1>4 DEF Month
  <2>4. ReservedAlloc(m) <= gate[q].alloc /\ ReservedCredit(m) <= gate[q].credit
    BY <2>2, <2>3 DEF Seen
  <2> QED BY <1>5, <1>6, <2>1, <2>4
<1> QED BY <1>7, <1>8

(* What a call has been promised of a pool outlasts the steps of others. *)
LEMMA PoolStands ==
  ASSUME TypeOK, TypeOK', [Next]_vars, GrantsStand, NEW q \in Requests, NEW pool,
         gate'[q].at = gate[q].at
  PROVE  /\ Lapsed(q) => Lapsed(q)'
         /\ Lapsed(q)' \/ Pool(pool, q) <= Pool(pool, q)'
         /\ Pool(pool, q) \in Nat /\ Pool(pool, q)' \in Nat
<1>1. now <= now' /\ now \in Nat /\ now' \in Nat
  BY OneCallMoves
<1>2. TablesTypeOK /\ TablesTypeOK' /\ gate[q].at \in Nat
  BY DEF TypeOK, GateStates
<1>3. \A g \in Grants : GrantInfo[g].expires \in Nat
  BY ReservationConstants
<1>4. Lapsed(q) => Lapsed(q)'
  BY <1>1, <1>3 DEF Lapsed
<1>5. PICK p : p = input[q].project
  OBVIOUS
<1>6. PICK time : time = gate[q].at
  OBVIOUS
<1>7. input'[q].project = p /\ gate'[q].at = time
  BY <1>5, <1>6, InputsFixed
<1>8. Pool(pool, q) = GrantHeadroom(pool, p, time)
  BY <1>5, <1>6 DEF Pool
<1>9. Pool(pool, q)' = GrantHeadroom(pool, p, time)'
  BY <1>7 DEF Pool, GrantHeadroom, Drawable
<1>10. Pool(pool, q) \in Nat /\ Pool(pool, q)' \in Nat
  <2>1. GrantHeadroom(pool, p, time) \in Nat
    BY <1>2, SumTypes
  <2>2. GrantHeadroom(pool, p, time)' \in Nat
    BY <1>2, HeadroomNext
  <2> QED BY <1>8, <1>9, <2>1, <2>2
<1>11. CASE \A g \in Grants : NotExpired(g, time) => NotExpired(g, now)
  <2>1. GrantHeadroom(pool, p, time) <= GrantHeadroom(pool, p, time)'
    BY <1>2, <1>11, HeadroomStands
  <2> QED BY <1>4, <1>8, <1>9, <1>10, <2>1
<1>12. CASE ~\A g \in Grants : NotExpired(g, time) => NotExpired(g, now)
  <2>1. PICK g \in Grants : NotExpired(g, time) /\ ~NotExpired(g, now)
    BY <1>12
  <2>2. Lapsed(q)
    BY <1>1, <1>3, <1>6, <2>1 DEF NotExpired, Lapsed
  <2> QED BY <1>4, <1>10, <2>2
<1> QED BY <1>4, <1>10, <1>11, <1>12

(* Promises are kept, or a grant expired. *)
LEMMA PromiseKept ==
  ASSUME Base, TypeOK', LockHeld, Promise, [Next]_vars
  PROVE  Promise'
<1> SUFFICES ASSUME NEW q \in Requests
             PROVE  /\ gate'[q].pc \in {"emergency", "decisions", "mapped", "persist"} =>
                         Lapsed(q)' \/ gate'[q].reserved <= Pool("RESERVED", q)'
                    /\ gate'[q].pc \in {"decisions", "mapped", "persist"} =>
                         Lapsed(q)' \/ gate'[q].emergency <= Pool("EMERGENCY", q)'
  BY DEF Promise
<1>1. TypeOK /\ gate[q] \in GateStates /\ gate'[q] \in GateStates
  BY DEF Base, TypeOK
<1>2. /\ gate[q].reserved \in Nat /\ gate[q].emergency \in Nat
      /\ gate'[q].reserved \in Nat /\ gate'[q].emergency \in Nat
  BY <1>1 DEF GateStates
<1>3. CASE gate'[q].pc \in {"emergency", "decisions", "mapped", "persist"}
  <2>1. gate'[q].pc \in Reading \ {"recheck"}
    BY <1>3 DEF Reading
  <2>2. /\ GrantsStand /\ gate[q].pc \in Reading
        /\ \/ gate'[q] = gate[q] /\ gate[q].pc \in Reading \ {"recheck"}
           \/ UNCHANGED <<now, tables>> /\ ReadsOn(q)
    BY <2>1, ReadsOrRests
  <2>3. gate'[q].at = gate[q].at
    BY <1>3, <2>2 DEF ReadsOn, Same, At
  <2>4. ASSUME NEW pool
        PROVE  /\ Lapsed(q) => Lapsed(q)'
               /\ Lapsed(q)' \/ Pool(pool, q) <= Pool(pool, q)'
               /\ Pool(pool, q) \in Nat /\ Pool(pool, q)' \in Nat
    BY <1>1, <2>2, <2>3, PoolStands
  <2>5. Lapsed(q)' \/ gate'[q].reserved <= Pool("RESERVED", q)'
    <3>1. Lapsed(q) \/ gate'[q].reserved <= Pool("RESERVED", q)
      <4>1. CASE At(q, "reserved")
        <5>1. gate'[q].reserved = Pool("RESERVED", q)
          BY <1>3, <2>2, <4>1 DEF ReadsOn, At
        <5> QED BY <1>2, <5>1
      <4>2. CASE ~At(q, "reserved")
        <5>1. gate'[q].reserved <= gate[q].reserved
          BY <1>2, <1>3, <2>2, <4>2 DEF ReadsOn, Same, At
        <5>2. gate[q].pc \in {"emergency", "decisions", "mapped", "persist"}
          BY <1>3, <2>2, <4>2 DEF ReadsOn, At
        <5>3. Lapsed(q) \/ gate[q].reserved <= Pool("RESERVED", q)
          BY <5>2 DEF Promise
        <5> QED BY <1>2, <2>4, <5>1, <5>3
      <4> QED BY <4>1, <4>2
    <3> QED BY <1>2, <2>4, <3>1
  <2>6. CASE gate'[q].pc \in {"decisions", "mapped", "persist"}
    <3>1. Lapsed(q) \/ gate'[q].emergency <= Pool("EMERGENCY", q)
      <4>1. CASE At(q, "emergency")
        <5>1. gate'[q].emergency = Pool("EMERGENCY", q)
          BY <2>2, <2>6, <4>1 DEF ReadsOn, At
        <5> QED BY <1>2, <5>1
      <4>2. CASE ~At(q, "emergency")
        <5>1. gate'[q].emergency <= gate[q].emergency
          BY <1>2, <2>2, <2>6, <4>2 DEF ReadsOn, Same, At
        <5>2. gate[q].pc \in {"decisions", "mapped", "persist"}
          BY <2>2, <2>6, <4>2 DEF ReadsOn, At
        <5>3. Lapsed(q) \/ gate[q].emergency <= Pool("EMERGENCY", q)
          BY <5>2 DEF Promise
        <5> QED BY <1>2, <2>4, <5>1, <5>3
      <4> QED BY <4>1, <4>2
    <3>2. Lapsed(q)' \/ gate'[q].emergency <= Pool("EMERGENCY", q)'
      BY <1>2, <2>4, <3>1
    <3> QED BY <2>5, <3>2
  <2> QED BY <2>5, <2>6
<1> QED BY <1>3

(* Credit falls short at the draw only where a promise lapsed. *)
LEMMA ShortLapsed ==
  ASSUME TypeOK, Promise, NEW r \in Requests, At(r, "persist"), NEW u \in BOOLEAN,
         ~Covered(r, u)
  PROVE  Lapsed(r)
<1> DEFINE e == Entitlement(r, u)
<1>1. e.reserved \in Nat /\ e.emergency \in Nat
  BY EntitlementType
<1>2. e.reserved <= gate[r].reserved /\ e.emergency <= gate[r].emergency
  BY EntitlementFits
<1>3. \/ Total(PoolDraw(r, "RESERVED", e.reserved)) < e.reserved
      \/ Total(PoolDraw(r, "EMERGENCY", e.emergency)) < e.emergency
  BY DEF Covered
<1> HIDE DEF e
<1>4. gate[r].reserved \in Nat /\ gate[r].emergency \in Nat
  BY DEF TypeOK, GateStates
<1>5. ASSUME NEW pool, NEW need \in Nat, NEW promised \in Nat, need <= promised,
             Total(PoolDraw(r, pool, need)) < need
      PROVE  ~(promised <= Pool(pool, r))
  <2>1. Total(PoolDraw(r, pool, need)) = Least(need, Pool(pool, r))
    BY PoolDrawAtMost DEF Pool
  <2>2. Pool(pool, r) \in Nat
    BY SumTypes DEF Pool, TypeOK
  <2> QED BY <1>5, <2>1, <2>2 DEF Least
<1>6. /\ Lapsed(r) \/ gate[r].reserved <= Pool("RESERVED", r)
      /\ Lapsed(r) \/ gate[r].emergency <= Pool("EMERGENCY", r)
  BY DEF Promise, At
<1>7. CASE Total(PoolDraw(r, "RESERVED", e.reserved)) < e.reserved
  BY <1>1, <1>2, <1>4, <1>5, <1>6, <1>7
<1>8. CASE Total(PoolDraw(r, "EMERGENCY", e.emergency)) < e.emergency
  BY <1>1, <1>2, <1>4, <1>5, <1>6, <1>8
<1> QED BY <1>3, <1>7, <1>8

(* Who is refused for a draw that falls short has seen a grant expire.     *)
LEMMA RefusalsKept ==
  ASSUME Base, Promise, Refusals, [Next]_vars
  PROVE  Refusals'
<1> SUFFICES ASSUME NEW q \in Requests, gate'[q].reply = "short"
             PROVE  At(q, "done")' /\ Lapsed(q)'
  BY DEF Refusals
<1>1. TypeOK
  BY DEF Base
<1>2. now <= now' /\ now \in Nat /\ now' \in Nat
  BY <1>1, OneCallMoves
<1>3. \A g \in Grants : GrantInfo[g].expires \in Nat
  BY ReservationConstants
<1>4. CASE gate'[q] = gate[q]
  <2>1. At(q, "done") /\ Lapsed(q)
    BY <1>4 DEF Refusals
  <2> QED BY <1>2, <1>3, <1>4, <2>1 DEF At, Lapsed
<1>5. CASE CallSteps(q)
  <2>1. At(q, "persist") /\ Refused(q) /\ \E u \in BOOLEAN : ~Covered(q, u)
    BY <1>5 DEF CallSteps, Tells, Refusals
  <2>2. Lapsed(q)
    BY <1>1, <2>1, ShortLapsed
  <2>3. gate'[q].pc = "done" /\ gate'[q].at = gate[q].at /\ now' = now
    BY <1>1, <2>1 DEF Refused, TypeOK, Blank, tables
  <2> QED BY <2>2, <2>3 DEF At, Lapsed
<1>6. ASSUME NEW r \in Requests, CallSteps(r), r # q PROVE gate'[q] = gate[q]
  BY <1>6 DEF CallSteps
<1> QED BY <1>1, <1>4, <1>5, <1>6, OneCallMoves

(* All of the above, of every state. *)
LEMMA LimitsAtStart == Init => Limits
<1> SUFFICES ASSUME Init PROVE Limits
  OBVIOUS
<1>1. \A r \in Requests : gate[r].pc = "context" /\ gate[r].reply = "none"
  BY DEF Init, Blank
<1>2. \A k \in Keys : ~decision[k].active
  BY DEF Init, TablesInit, NoDecision
<1>3. Dated /\ LockHeld /\ Past /\ Seen
  BY <1>1, <1>2 DEF Dated, LockHeld, Past, Seen, Reading
<1>4. Promise /\ Refusals
  BY <1>1 DEF Promise, Refusals
<1> QED BY <1>3, <1>4 DEF Limits

(* All of it holds always.                                                 *)
LEMMA LimitsHold == Spec => [](Base /\ Limits)
<1>1. Base /\ TypeOK' /\ Limits /\ [Next]_vars => Limits'
  BY DatedKept, LockKept, PastKept, SeenKept, PromiseKept, RefusalsKept DEF Limits
<1>2. TypeOK /\ SafeTables /\ Accounts /\ CreditConserved <=> Base
  BY DEF Base
<1>3. TypeOK' /\ SafeTables' /\ Accounts' /\ CreditConserved' <=> Base'
  BY DEF Base
<1> QED BY <1>1, <1>2, <1>3, LimitsAtStart, BooksHold, PTL DEF Spec

(***************************************************************************)
(* A request is refused for lack of credit it had been promised only if a  *)
(* grant expired while it was evaluated: no settlement, evaluation or      *)
(* upkeep takes a grant from under it.                                     *)
(***************************************************************************)
THEOREM ShortOnlyByExpiry == Spec => []ShortOnlyOnExpiry
<1>1. Limits => ShortOnlyOnExpiry
  BY DEF Limits, Refusals, ShortOnlyOnExpiry, Lapsed
<1> QED BY <1>1, LimitsHold, PTL

(* What a step that reserves more in a month is. *)
LEMMA MoreReserved ==
  ASSUME Base, TypeOK', Limits, [Next]_vars, NEW m \in Nat,
         ReservedAlloc(m)' > ReservedAlloc(m) \/ Reserved(m)' > Reserved(m)
  PROVE  \E r \in Requests, u \in BOOLEAN :
           /\ At(r, "persist")
           /\ ReservedAlloc(m)' = ReservedAlloc(m) + Row(r, u).alloc
           /\ ReservedCredit(m)' = ReservedCredit(m) + Row(r, u).credit
           /\ ReservedAlloc(m) <= gate[r].alloc /\ ReservedCredit(m) <= gate[r].credit
<1>1. TypeOK /\ TablesTypeOK /\ TablesTypeOK' /\ Fresh
  BY DEF Base, TypeOK, Accounts
<1>2. /\ ReservedAlloc(m) \in Nat /\ ReservedCredit(m) \in Nat
  BY <1>1, SumTypes
<1>3. ~Recedes
  <2> SUFFICES ASSUME Recedes PROVE FALSE
    OBVIOUS
  <2>1. /\ ReservedAlloc(m)' <= ReservedAlloc(m) /\ ReservedCredit(m)' <= ReservedCredit(m)
        /\ ReservedAlloc(m)' \in Nat /\ ReservedCredit(m)' \in Nat
    BY <1>1, SumsRecede
  <2> QED BY <1>2, <2>1 DEF Reserved
<1>4. PICK r \in Requests, u \in BOOLEAN : Decides(r, u)
  BY <1>3, TableSteps DEF Base
<1>5. /\ Row(r, u) \in DecisionRows /\ Row(r, u).created = now /\ Key(r) \in Keys
  BY <1>1, RowFits, InputTypes
<1>6. decision' = [decision EXCEPT ![Key(r)] = Row(r, u)] /\ ~Recorded(Key(r))
  BY <1>4 DEF Decides, Records, Record
<1>7. IF Row(r, u).active /\ m = Month(now)
      THEN /\ ReservedAlloc(m)' = ReservedAlloc(m) + Row(r, u).alloc
           /\ ReservedCredit(m)' = ReservedCredit(m) + Row(r, u).credit
      ELSE /\ ReservedAlloc(m)' = ReservedAlloc(m)
           /\ ReservedCredit(m)' = ReservedCredit(m)
  BY <1>1, <1>5, <1>6, SumsGrow
<1>8. /\ m = Month(now)
      /\ ReservedAlloc(m)' = ReservedAlloc(m) + Row(r, u).alloc
      /\ ReservedCredit(m)' = ReservedCredit(m) + Row(r, u).credit
  <2>1. CASE Row(r, u).active /\ m = Month(now)
    BY <1>7, <2>1
  <2>2. CASE ~(Row(r, u).active /\ m = Month(now))
    BY <1>2, <1>7, <2>2 DEF Reserved
  <2> QED BY <2>1, <2>2
<1>9. At(r, "persist") /\ gate[r].at <= now /\ gate[r].at \in Nat /\ now \in Nat
  BY <1>1, <1>4 DEF Decides, Limits, Past, At, Reading, TypeOK, TablesTypeOK, GateStates
<1>10. Month(gate[r].at) <= m
  BY <1>8, <1>9, MonthsPass
<1>11. ReservedAlloc(m) <= gate[r].alloc /\ ReservedCredit(m) <= gate[r].credit
  BY <1>9, <1>10 DEF Limits, Seen, At, Reading
<1> QED BY <1>8, <1>9, <1>11

(***************************************************************************)
(* The limit of a budget bounds what the tenant reserves in a month: a     *)
(* step that reserves more leaves it within the limit its request read,    *)
(* however calls, settlements, raised limits and a month's end interleave. *)
(***************************************************************************)
THEOREM BudgetHolds == Spec => NoOvercommit
<1>1. ASSUME Base, TypeOK', Limits, [Next]_vars
      PROVE  \A m \in Months : ReservedAlloc(m)' > ReservedAlloc(m) => WithinLimit(m)
  <2> SUFFICES ASSUME NEW m \in Months, ReservedAlloc(m)' > ReservedAlloc(m)
               PROVE  WithinLimit(m)
    OBVIOUS
  <2>1. m \in Nat
    BY DEF Months
  <2>2. PICK r \in Requests, u \in BOOLEAN :
          /\ At(r, "persist")
          /\ ReservedAlloc(m)' = ReservedAlloc(m) + Row(r, u).alloc
          /\ ReservedAlloc(m) <= gate[r].alloc
    BY <1>1, <2>1, MoreReserved
  <2>3. /\ Row(r, u).alloc > 0 => /\ gate[r].limit # Unbounded
                                  /\ gate[r].alloc + Row(r, u).alloc <= gate[r].limit
        /\ Row(r, u) \in DecisionRows
    BY <1>1, RowFits DEF Base
  <2>4. /\ ReservedAlloc(m) \in Nat /\ Row(r, u).alloc \in Nat /\ gate[r].alloc \in Nat
        /\ gate[r].limit \in Int
    BY <1>1, <2>3, SumTypes DEF Base, TypeOK, GateStates, DecisionRows, Headrooms, Unbounded
  <2>5. gate[r].limit # Unbounded /\ ReservedAlloc(m)' <= gate[r].limit
    BY <2>2, <2>3, <2>4
  <2> QED BY <2>2, <2>5 DEF WithinLimit
<1>2. Base /\ Base' /\ Limits /\ [Next]_vars
        => [\A m \in Months : ReservedAlloc(m)' > ReservedAlloc(m) => WithinLimit(m)]_vars
  BY <1>1 DEF Base
<1> QED BY <1>2, LimitsHold, PTL DEF Spec, NoOvercommit

(***************************************************************************)
(* So do the plan and the enterprise ceilings, of allocation and credit    *)
(* together.                                                               *)
(***************************************************************************)
THEOREM CeilingsRespected == Spec => CeilingsHold
<1> DEFINE Within(m) == \E r \in Requests :
                          /\ At(r, "persist")
                          /\ Fits(Reserved(m)', gate[r].policy.planCeiling)
                          /\ Fits(Reserved(m)', gate[r].policy.enterpriseCeiling)
<1>1. ASSUME Base, TypeOK', Limits, [Next]_vars
      PROVE  \A m \in Months : Reserved(m)' > Reserved(m) => Within(m)
  <2> SUFFICES ASSUME NEW m \in Months, Reserved(m)' > Reserved(m)
               PROVE  Within(m)
    OBVIOUS
  <2>1. m \in Nat
    BY DEF Months
  <2>2. PICK r \in Requests, u \in BOOLEAN :
          /\ At(r, "persist")
          /\ ReservedAlloc(m)' = ReservedAlloc(m) + Row(r, u).alloc
          /\ ReservedCredit(m)' = ReservedCredit(m) + Row(r, u).credit
          /\ ReservedAlloc(m) <= gate[r].alloc /\ ReservedCredit(m) <= gate[r].credit
    BY <1>1, <2>1, MoreReserved
  <2> DEFINE amount == Row(r, u).alloc + Row(r, u).credit
             used   == UsedInMonth(r)
  <2>3. /\ Row(r, u).alloc \in Nat /\ Row(r, u).credit \in Nat
        /\ ReservedAlloc(m) \in Nat /\ ReservedCredit(m) \in Nat
        /\ gate[r].alloc \in Nat /\ gate[r].credit \in Nat
    BY <1>1, RowFits, SumTypes DEF Base, TypeOK, GateStates, DecisionRows
  <2>4. /\ Reserved(m)' = Reserved(m) + amount /\ Reserved(m) <= used
        /\ Reserved(m) \in Nat /\ amount \in Nat /\ used \in Nat
    BY <2>2, <2>3 DEF Reserved, UsedInMonth
  <2>5. amount > 0 => /\ Fits(used + Row(r, u).alloc + Row(r, u).credit, gate[r].policy.planCeiling)
                      /\ Fits(used + Row(r, u).alloc + Row(r, u).credit,
                              gate[r].policy.enterpriseCeiling)
    BY <1>1, RowFits DEF Base
  <2>6. used + Row(r, u).alloc + Row(r, u).credit = used + amount
    BY <2>3, <2>4
  <2>7. gate[r].policy.planCeiling \in Headrooms /\ gate[r].policy.enterpriseCeiling \in Headrooms
    BY <1>1, InputTypes DEF Base
  <2> HIDE DEF amount, used
  <2>8. amount > 0
    BY <2>4
  <2>9. Reserved(m)' <= used + amount /\ Reserved(m)' \in Nat
    BY <2>4
  <2>10. ASSUME NEW ceiling \in Headrooms, Fits(used + amount, ceiling)
         PROVE  Fits(Reserved(m)', ceiling)
    BY <2>4, <2>9, <2>10 DEF Fits, Headrooms, Unbounded
  <2> QED BY <2>2, <2>5, <2>6, <2>7, <2>8, <2>10
<1>2. Base /\ Base' /\ Limits /\ [Next]_vars
        => [\A m \in Months : Reserved(m)' > Reserved(m) =>
             \E r \in Requests : /\ At(r, "persist")
                                 /\ Fits(Reserved(m)', gate[r].policy.planCeiling)
                                 /\ Fits(Reserved(m)', gate[r].policy.enterpriseCeiling)]_vars
  BY <1>1 DEF Base
<1> QED BY <1>2, LimitsHold, PTL DEF Spec, CeilingsHold
=============================================================================
