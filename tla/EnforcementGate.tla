-------------------------- MODULE EnforcementGate ---------------------------
(***************************************************************************)
(* Requests passing the enforcement gate concurrently with each other and  *)
(* with the handlers of Reservations.                                      *)
(*                                                                         *)
(* A request is one HTTP call: evaluate_gate, and resolve_fail_safe_gate   *)
(* when the evaluation times out, loses the lock or fails.  The database   *)
(* runs at READ COMMITTED, so every query of the evaluation is a step of   *)
(* its own and sees what has been committed by then.  Evaluations of one   *)
(* tenant exclude each other by updating the tenant's policy row, a lock   *)
(* that lasts to the end of the transaction; approvals, reconciliation,    *)
(* the sweep and the fail-safe path do not take it.                        *)
(***************************************************************************)
EXTENDS Reservations

CONSTANTS
  Requests,       \* HTTP calls to the gate
  Inputs,         \* what they may ask: key, project, cost, env, dryRun
  Policies,       \* policy documents an operator may publish
  NoRequest       \* holder of a free lock

Envs == {"prod", "nonprod"}

ASSUME GateConstants ==
  /\ NoRequest \notin Requests
  /\ Inputs \subseteq [key : Keys, project : Projects, cost : Nat, env : Envs,
                       dryRun : BOOLEAN]
  /\ Policies \subseteq [mode : [Envs -> Modes], approvalEnvs : SUBSET Envs,
                         autoApproveBelow : Nat, hardDenyAbove : Nat,
                         planCeiling : Headrooms, enterpriseCeiling : Headrooms]

VARIABLES
  policy,         \* the tenant's policy row
  policyLock,     \* the request that has updated it and not yet committed
  input,          \* request -> what it asks
  gate            \* request -> where it is and what it has read

gateVars == <<policy, policyLock, input, gate>>
vars == <<tables, gateVars>>

(* Where an evaluation is, named for the next query. *)
Reading    == {"recheck", "totals", "budget", "reserved", "emergency", "decisions",
               "mapped", "persist"}
FailSafe   == {"fsContext", "fsLookup", "fsPersist"}
Steps      == {"context", "lookup", "lock"} \cup Reading \cup FailSafe \cup {"done"}
Replies    == Outcomes \cup {"none", "short", "error"}

Blank == [pc |-> "context", policy |-> CHOOSE p \in Policies : TRUE, at |-> 0, alloc |-> 0,
          credit |-> 0, limit |-> Unbounded, reserved |-> 0, emergency |-> 0, held |-> 0,
          reply |-> "none"]

GateStates == [pc : Steps, policy : Policies, at : Nat, alloc : Nat, credit : Nat,
               limit : Headrooms, reserved : Nat, emergency : Nat, held : Nat,
               reply : Replies]

TypeOK ==
  /\ TablesTypeOK
  /\ policy \in Policies
  /\ policyLock \in Requests \cup {NoRequest}
  /\ input \in [Requests -> Inputs]
  /\ gate \in [Requests -> GateStates]

Init ==
  /\ TablesInit
  /\ policy \in Policies
  /\ policyLock = NoRequest
  /\ input \in [Requests -> Inputs]
  /\ gate = [r \in Requests |-> Blank]

-----------------------------------------------------------------------------
At(r, pc) == gate[r].pc = pc
Key(r)    == input[r].key
Mode(r)   == gate[r].policy.mode[input[r].env]

(* The end of a transaction of r frees the policy row if r had locked it. *)
Unlocked(r) == IF policyLock = r THEN NoRequest ELSE policyLock

(* The call returns: what it had read dies with the session. *)
Reply(r, what) ==
  /\ gate' = [gate EXCEPT ![r] = [Blank EXCEPT !.pc = "done", !.reply = what]]
  /\ policyLock' = Unlocked(r)
  /\ UNCHANGED <<policy, input>>

(* The evaluation goes on with `pc`, having read `field`. *)
Advance(r, pc, field, value) ==
  /\ gate' = [gate EXCEPT ![r].pc = pc, ![r][field] = value]
  /\ UNCHANGED <<tables, policy, policyLock, input>>

(* build_gate_evaluation_context: the policy is read before the lock. *)
BuildContext(r) == At(r, "context") /\ Advance(r, "lookup", "policy", policy)

(* get_existing_gate_result_with_lock: a recorded decision is the answer.  *)
AnswerRecorded(r) == Reply(r, decision[Key(r)].outcome) /\ UNCHANGED tables

Lookup(r) ==
  /\ At(r, "lookup")
  /\ IF Recorded(Key(r)) THEN AnswerRecorded(r) ELSE Advance(r, "lock", "policy", gate[r].policy)

AcquireLock_Unguarded(r) ==
  /\ At(r, "lock")
  /\ policyLock' = r /\ gate' = [gate EXCEPT ![r].pc = "recheck"]
  /\ UNCHANGED <<tables, policy, input>>
AcquireLock(r) ==
  /\ At(r, "lock") /\ policyLock = NoRequest
  /\ policyLock' = r /\ gate' = [gate EXCEPT ![r].pc = "recheck"]
  /\ UNCHANGED <<tables, policy, input>>

(* The wait as it would be if a time-out started the evaluation over.      *)
LockTimeout_Retries(r) == At(r, "lock") /\ Advance(r, "context", "at", 0)

(* The wait for the row lock runs out: rollback, then the fail-safe path.  *)
LockTimeout(r) == At(r, "lock") /\ Advance(r, "fsContext", "at", 0)

(* The second lookup, under the lock; the evaluation's `now` is taken here. *)
Recheck(r) ==
  /\ At(r, "recheck")
  /\ IF Recorded(Key(r)) THEN AnswerRecorded(r) ELSE Advance(r, "totals", "at", now)

ReadReservedTotals(r) ==
  /\ At(r, "totals")
  /\ gate' = [gate EXCEPT ![r].pc = "budget",
                          ![r].alloc = ReservedAlloc(Month(gate[r].at)),
                          ![r].credit = ReservedCredit(Month(gate[r].at))]
  /\ UNCHANGED <<tables, policy, policyLock, input>>

ReadBudget(r) ==
  At(r, "budget") /\ Advance(r, "reserved", "limit", EffectiveLimit(input[r].project))

(* get_credit_headrooms, one step for each of its four sums. *)
ReadReservedGrants(r) ==
  /\ At(r, "reserved")
  /\ Advance(r, "emergency", "reserved", GrantHeadroom("RESERVED", input[r].project, gate[r].at))

ReadEmergencyGrants(r) ==
  /\ At(r, "emergency")
  /\ Advance(r, "decisions", "emergency",
             GrantHeadroom("EMERGENCY", input[r].project, gate[r].at))

ReadDecisionCredit(r) == At(r, "decisions") /\ Advance(r, "mapped", "held", DecisionCredit)

(* Credit that decisions hold and no allocation row backs lowers the       *)
(* headrooms, the reserved pool's first.                                   *)
ReadMappedCredit(r) ==
  LET uncovered == Positive(gate[r].held - MappedCredit)
      reduction == Least(uncovered, gate[r].reserved)
  IN  /\ At(r, "mapped")
      /\ gate' = [gate EXCEPT ![r].pc = "persist", ![r].held = 0,
                              ![r].reserved = @ - reduction,
                              ![r].emergency = Positive(@ - (uncovered - reduction))]
      /\ UNCHANGED <<tables, policy, policyLock, input>>

-----------------------------------------------------------------------------
(* What the evaluation decides from what it has read. *)

UsedInMonth_CreditOnly(r) == gate[r].credit
UsedInMonth(r) == gate[r].alloc + gate[r].credit

Entitlement(r, contextUnavailable) ==
  LET i == input[r]
      g == gate[r]
  IN  IF (contextUnavailable /\ i.cost > 0) \/ i.cost > g.policy.hardDenyAbove
      THEN Violation(Mode(r), "threshold_or_context", 0, 0, 0)
      ELSE Waterfall(Mode(r), i.cost, Below(g.policy.planCeiling, UsedInMonth(r)),
                     Below(g.limit, g.alloc), g.reserved, g.emergency,
                     Below(g.policy.enterpriseCeiling, UsedInMonth(r)))

NeedsApproval(r) ==
  /\ input[r].env \in gate[r].policy.approvalEnvs
  /\ input[r].cost > gate[r].policy.autoApproveBelow
  /\ Mode(r) # "SHADOW"

Outcome(r, e) ==
  IF e.decision \in {"ALLOW", "ALLOW_WITH_CREDITS"} /\ NeedsApproval(r)
  THEN "REQUIRE_APPROVAL" ELSE e.decision

(* The decision row: a dry run reserves nothing; neither does a denied or  *)
(* a shadow request, which yet records the amounts.                        *)
DecisionRow(r, e) ==
  LET real(amount) == IF input[r].dryRun THEN 0 ELSE amount
      alloc        == real(e.alloc)
      credit       == real(e.reserved + e.emergency)
  IN  [NoDecision EXCEPT
         !.outcome = Outcome(r, e), !.project = input[r].project, !.alloc = alloc,
         !.credit = credit, !.created = now,
         !.active = alloc + credit > 0 /\ Outcome(r, e) # "DENY" /\ Mode(r) # "SHADOW"]

FailSafeRow(r) ==
  [NoDecision EXCEPT !.outcome = ModeViolationDecision(Mode(r)),
                     !.project = input[r].project, !.created = now]

(* The approval request a new decision comes with. *)
ApprovalFor(r, row) ==
  IF row.outcome = "REQUIRE_APPROVAL" /\ ~input[r].dryRun
  THEN [NoApproval EXCEPT !.status = "PENDING", !.expires = gate[r].at + ApprovalTtl]
  ELSE NoApproval

(* What credit_reservation_callback draws from the grants, per pool; the   *)
(* `now` it passes is the one taken at the recheck.                        *)
PoolDraw(r, pool, amount) == ReserveFrom(pool, input[r].project, gate[r].at, amount)

(***************************************************************************)
(* persist_decision_with_optional_approval.  The unique index makes a key  *)
(* recorded meanwhile the answer; grants that no longer cover the credit   *)
(* fail the request and roll it back.  The request's time limit can also   *)
(* strike after the commit, and send the call down the fail-safe path.     *)
(***************************************************************************)
Persist(r) ==
  /\ At(r, "persist")
  /\ \/ Recorded(Key(r)) /\ AnswerRecorded(r)
     \/ /\ ~Recorded(Key(r))
        /\ \E unavailable, late \in BOOLEAN :
             LET e         == Entitlement(r, unavailable)
                 row       == DecisionRow(r, e)
                 drawn     == row.active /\ row.credit > 0
                 reserved  == PoolDraw(r, "RESERVED", e.reserved)
                 emergency == PoolDraw(r, "EMERGENCY", e.emergency)
             IN  IF drawn /\ (Total(reserved) < e.reserved \/ Total(emergency) < e.emergency)
                 THEN /\ gate' = [gate EXCEPT ![r] = [Blank EXCEPT !.pc = "done", !.reply = "short",
                                                                   !.at = gate[r].at]]
                      /\ policyLock' = Unlocked(r)
                      /\ UNCHANGED <<tables, policy, input>>
                 ELSE /\ Record(Key(r), row,
                                [g \in Grants |-> IF drawn THEN reserved[g] + emergency[g] ELSE 0],
                                ApprovalFor(r, row))
                      /\ IF late
                         THEN /\ gate' = [gate EXCEPT ![r] = [Blank EXCEPT !.pc = "fsContext"]]
                              /\ policyLock' = Unlocked(r)
                              /\ UNCHANGED <<policy, input>>
                         ELSE Reply(r, row.outcome)

(***************************************************************************)
(* The evaluation fails, by its time limit or by a recoverable error, and  *)
(* the fail-safe path goes on in the same session: there is no rollback,   *)
(* so the policy row stays locked if it was.                               *)
(***************************************************************************)
EvaluationFails(r) ==
  /\ gate[r].pc \in {"context", "lookup"} \cup Reading
  /\ gate' = [gate EXCEPT ![r] = [Blank EXCEPT !.pc = "fsContext"]]
  /\ UNCHANGED <<tables, policy, policyLock, input>>

(* The process dies, the client leaves or the session is unusable.         *)
RequestLost(r) == ~At(r, "done") /\ Reply(r, "error") /\ UNCHANGED tables

(* resolve_fail_safe_gate. *)
FailSafeContext(r) ==
  /\ At(r, "fsContext")
  /\ gate' = [gate EXCEPT ![r].pc = "fsLookup", ![r].policy = policy, ![r].at = now]
  /\ UNCHANGED <<tables, policy, policyLock, input>>

FailSafeLookup(r) ==
  /\ At(r, "fsLookup")
  /\ IF Recorded(Key(r)) THEN AnswerRecorded(r) ELSE Advance(r, "fsPersist", "alloc", 0)

FailSafePersist_IgnoresIndex(r) ==
  /\ At(r, "fsPersist")
  /\ Record(Key(r), FailSafeRow(r), [g \in Grants |-> 0], ApprovalFor(r, FailSafeRow(r)))
  /\ Reply(r, FailSafeRow(r).outcome)
FailSafePersist(r) ==
  /\ At(r, "fsPersist")
  /\ \/ Recorded(Key(r)) /\ AnswerRecorded(r)
     \/ /\ ~Recorded(Key(r))
        /\ Record(Key(r), FailSafeRow(r), [g \in Grants |-> 0], ApprovalFor(r, FailSafeRow(r)))
        /\ Reply(r, FailSafeRow(r).outcome)

(* update_policy writes the row the gate locks, so it waits for the gate.  *)
UpdatePolicy(p) ==
  /\ policyLock = NoRequest
  /\ policy' = p
  /\ UNCHANGED <<tables, policyLock, input, gate>>

Evaluation(r) ==
  \/ BuildContext(r) \/ Lookup(r) \/ AcquireLock(r) \/ LockTimeout(r) \/ Recheck(r)
  \/ ReadReservedTotals(r) \/ ReadBudget(r) \/ ReadReservedGrants(r)
  \/ ReadEmergencyGrants(r) \/ ReadDecisionCredit(r) \/ ReadMappedCredit(r)
  \/ Persist(r) \/ FailSafeContext(r) \/ FailSafeLookup(r) \/ FailSafePersist(r)

GateStep(r) == Evaluation(r) \/ EvaluationFails(r) \/ RequestLost(r)

Next ==
  \/ \E r \in Requests : GateStep(r)
  \/ \E p \in Policies : UpdatePolicy(p)
  \/ TablesNext /\ UNCHANGED gateVars

Spec == Init /\ [][Next]_vars
=============================================================================
