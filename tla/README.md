# Valdrics: a TLA+ verification

Valdrics is a FinOps platform: cloud adapters collect cost, an enforcement
control plane decides whether a change that costs money may go ahead, and
background workers scan, remediate, bill and notify. This directory holds TLA+
models of the parts whose correctness is hardest to test: the **enforcement
control plane** with its action queue, the **job queue**, the **LLM budget**, the
**remediation workflow**, **billing with dunning** and the **cost ledger** with its
attribution, together with the TLC configurations that check them and the TLAPS
proofs. Below, `E/` is
`src/app/modules/enforcement/domain/` and `B/` is
`src/app/modules/billing/domain/billing/`.

## 1. Inventory

| Component | State | Operations | What makes it correct |
|---|---|---|---|
| Entitlement waterfall (`E/waterfall_ops.py`) | none | one pure decision | reserves never exceed a source, the request, the plan limit or the enterprise ceiling; who is let through is funded; more headroom never hurts |
| Enforcement gate (`E/gate_evaluation*.py`, `E/service_runtime_gate_lock_ops.py`, `api/v1/enforcement_gate_ops.py`) | decision row per idempotency key, lock on the policy row | evaluate, fail-safe, lock, recheck, persist | no over-commitment by concurrent calls; one durable answer per key; every call answered |
| Reservations and credit (`E/credit_ops.py`, `E/runtime_query_ops.py`, `E/budget_credit_ops.py`, `E/reconciliation_*.py`) | budgets, grants, allocation rows, the active flag of decisions | draw, settle, reconcile, sweep overdue, upsert budget, create grant | credit is conserved; a reservation is settled once; what is overdue is released |
| Approvals (`E/approval_flow_ops.py`) | approval row, token | create or get, approve, expire, deny, consume | a refused request holds nothing; a token is spent at most once |
| Policy contract (`E/policy_contract_ops.py`) | policy row and version | get or create, update | versions are not lost; one row per tenant |
| Action queue (`E/actions.py`, `E/actions_terminal_ops.py`) | action rows with leases and attempt counts | create, lease, complete, fail, cancel | every hand-out is an attempt of its own; nothing that waits is stranded; what has ended stays ended |
| Background jobs (`src/app/modules/governance/domain/jobs/processor.py`) | job rows | enqueue, recover stale, fetch batch, run, retry, cancel, purge | attempts bounded and unshared; no job executed twice at a time; every job ends |
| Scheduler (`governance/domain/scheduler/`, `src/app/tasks/`) | cohort jobs, billing sweep | dispatch, sweep, retention | deduplicated enqueues |
| Remediation (`src/app/modules/optimization/domain/remediation*.py`) | request rows, findings | create, approve, reject, execute, schedule, hard-limit sweep | nothing sensitive runs without an override, nothing before its grace period, nothing twice |
| Billing (`B/`) | subscription row, tenant plan, jobs, webhooks | open checkouts, renew, retry, count failures, downgrade, charge.success, cancel | plan follows tier; who is in dunning has a retry coming; a webhook is applied once |
| LLM budget (`src/app/shared/llm/`) | budget row, usage rows, a slot counter in each process | quota, acquire, reserve, record, release, settings | no recording lost; spend within the limit and the estimates' errors; slots capped in each process |
| Cost ledger (`src/app/modules/reporting/domain/persistence*.py`, `attribution_engine*.py`) | cost records, allocation rows, rules | ingest, backfill, attribute, finalize, purge | a cost is allocated once and in full; every cost becomes final and stays so |
| Runtime utilities, sessions, decision ledger and exports, adapters, reports, dashboard | caches, sessions, append-only rows, none | - | outside this model (section 8) |

The components meet in one database. An HTTP call is a coroutine with a session
of its own; the reconciliation worker, job processors and reviewers act on the
same rows from theirs. Isolation is READ COMMITTED: every query of an evaluation sees what has
been committed by then, and only rows read `FOR UPDATE`, or updated, are
protected, until the end of the transaction. Evaluations of a tenant exclude one
another by a no-op update of the tenant's policy row; nothing else takes that
lock except a policy update.

The other components share two habits that the models keep in full. A session
holds **copies**: `SELECT ... FOR UPDATE` locks a row but does not refresh an
object that the session has loaded before, and a commit writes only the columns
that differ from what was loaded (`Flushed` in the modules). And work is
handed on through **jobs** known by a deduplication key: a key that is in use
swallows the new job. Billing and remediation are queued that way, and webhooks
are stored as jobs.

What is hard: read skew between the evaluation's queries; two calls, or a call
and its own fail-safe path, racing for one idempotency key; the request's time
limit striking while the policy row is locked or just after the commit; several
ways to settle one reservation; grants that expire while they are being drawn
on; month ends between reading and writing; partial settlements over several
grants; batches failing because of one row; zero against "no limit". Outside the
control plane: reports and reviews that check a row, wait and write; workers that
die, or finish after they have been given up; webhooks and jobs delivered twice,
late or out of order; counters that expire; provider calls under a row lock that
succeed although their transaction does not; costs that are ingested, attributed,
finalized and deleted at the same time.
`PROJECT.json` lists every hazard at its line with the properties that cover it.

## 2. Modules

| Module | What it is |
|---|---|
| `EntitlementWaterfall` | `evaluate_entitlement_waterfall` and `mode_violation_decision` as operators |
| `WaterfallCalls` | one call of it on any inputs, with its properties; `MCWaterfallCalls` is the instance |
| `Totals` | the sum of a function, SQL's `coalesce(sum(..), 0)`, as a cardinality (so that proofs need no recursion) |
| `Reservations` | the tables of one tenant and the handlers of recorded decisions |
| `EnforcementGate` | gate calls as processes over those tables, composed with the handlers by interleaving |
| `GateProperties` | what both must keep true together, the refinement and the fairness |
| `CreditLedger` | abstract specification: credit is free, held or spent, and only moves in three ways |
| `MCEnforcementGate` | scenarios for TLC, picked by the `MCGate*.cfg` files |
| `ActionQueue` | actions, leases, reports and cancellations as requests in flight |
| `JobQueue` | the job table, its processors, retention and redelivered webhooks |
| `LlmBudget` | the budget row and what guards it, calls from quota to recording |
| `RemediationWorkflow` | requests, findings and workers that judge by copies |
| `Billing` | one subscription with its jobs, its webhooks and the provider |
| `CostRecords` | the cost records of a tenant, their allocation rows and the sessions that write both |
| `MCActionQueue`, `MCJobQueue`, `MCLlmBudget`, `MCRemediation`, `MCBilling`, `MCCostRecords` | their instances |
| `Operators_proofs` | lemmas about sums (`Totals`) and about the waterfall's operators |
| `WaterfallCalls_proofs` | the waterfall is sound, monotone and equal to its reference for all amounts |
| `EnforcementGate_proofs` | the gate with the handlers: types, answers, refusals, settlements, credit, limits, the refinement |
| `ActionQueue_proofs` | hand-outs are counted; where reports do not overlap, nothing is stranded or revived |
| `JobQueue_proofs` | starts are bounded, attempts are not shared, runs are exclusive |
| `RemediationWorkflow_proofs` | overrides, grace periods and single executions in spite of stale copies |
| `Billing_proofs` | the plan follows the tier, retries are queued |
| `Spending_proofs` | the LLM budget: spend, slots and quota; the cost ledger: allocations follow costs |

Operators named `X_Something` stand before `X` and are a plausible mistake in it;
the mutation runs put them in its place to see that a property notices. The six
modules of the second group stand beside the gate: they share the database but
no row with it or, but for the job table, with each other. `Billing` has a job
table of its own because it needs the keys and the row lock a job holds, while
`JobQueue` needs batches, attempts and time-outs.

### How state corresponds to the code

| Variable | Code |
|---|---|
| `now` | the wall clock; a month is `MonthLength` ticks |
| `budget[s]` | `EnforcementBudgetAllocation` of scope `s`; `Unbounded` (-1) where no row is active |
| `grant[g]` | `EnforcementCreditGrant`: issued, `remaining_amount_usd`, `active`; the columns that never change are `GrantInfo[g]` (an `expires` past `MaxTime` is none) |
| `decision[k]` | the `EnforcementDecision` with idempotency key `k`: outcome, project, the two reserved amounts, `reservation_active`, `created_at`; `settled` and `spent` are what `response_payload` records of the settlement |
| `hold[k][g]` | the `EnforcementCreditReservationAllocation` of decision `k` on grant `g` |
| `approval[k]` | the `EnforcementApprovalRequest`; `expires` is the request's expiry and, once it is APPROVED, the token's |
| `policy`, `policyLock` | the policy row and the transaction that has updated it |
| `input[r]`, `gate[r]` | the call `r`; where its coroutine stands and the values it has read |
| `action[a]`, `call[c]` | `EnforcementActionExecution`; a request of a worker or reviewer: the row it has read |
| `job[j]`, `proc[p]`, `delivery[d]` | `BackgroundJob` by deduplication key, `scheduled_for` and `started_at` as ticks from now; a processor and the batch it holds; a webhook redelivery and what it has read of its row |
| `budget`, `call[c]`, `slots[p]`, `today`, `blocked[p]` (`LlmBudget`) | `LLMBudget`; a call with the row as its open transaction sees it; the slot counter of process `p` (`_local_inflight_counts`, or its key in the process-local cache); the day's `LLMUsage` rows; `budget_blocked` in the cache of `p` |
| `req[r]`, `agent[w]`, `finding[f]` | `RemediationRequest`; a request or job handler with its copy; the finding's status |
| `sub`, `plan`, `jobs[k]`, `charge`, `hook[h]`, `charged` | `TenantSubscription`, `Tenant.plan`, the billing jobs, the transaction that holds the row, an unlocked handler with the columns it will write, what the provider has charged |
| `record[r]`, `groups[r]`, `session[s]`, `rules` | `CostRecord` of one key of its unique index, with a number for its primary key; the `CostAllocation` rows that join it, one group for all rows of one attribution; an ingestion job or a request to apply the rules: what it has written and read; `AttributionRule` as what it allots |
| `granted`, `overlapped`, `raced`, `lapsed`, `book`, `past`, `usedUp`, `astray` | history only: what properties compare the state with; no guard reads it |

Amounts are naturals in units of 0.0001 USD, to which the code quantizes every
amount it compares or stores here. One tenant and one source are modelled: every
query filters by tenant, and keys of different sources never meet.

### Steps

An evaluation is one step per query: `BuildContext`, `Lookup`, `AcquireLock` (or
`LockTimeout`), `Recheck`, `ReadReservedTotals`, `ReadBudget`, the four sums of
`get_credit_headrooms`, `Persist`. `Persist` is one step: it inserts the row,
draws on grants it locks and commits. Between the draws of the two pools other
transactions may commit, but the pools share no grant, so those interleavings
have the effect of one of the orders the model has. The time limit can strike at any of these points (`EvaluationFails`)
or after the commit (`late` in `Persist`); the fail-safe path then has its own
three steps. `RequestLost` is the end of the process, of the client's interest or
of a session that can no longer be used.

Each handler of `Reservations` is one step because it reads the rows it changes
`FOR UPDATE` and commits once. The sweep takes any part of what is overdue up to
its limit, because `SKIP LOCKED` leaves out what others hold; one decision it
cannot settle fails the whole batch.

**Actions.** Leasing is one step for each query: `SelectCandidate`, then `Claim`, an
UPDATE whose WHERE is evaluated on the row of that moment; a lost race tries the
next candidate, at most `Tries` times, all at the `asOf` of the call. `ReadReport`
and `ReadCancel` read and check, `WriteReport` writes: anything may happen between
them. `CallLost` is a request that breaks off.

**Jobs.** A round is `RecoverStale` and `Fetch`, each a transaction, then one step
for each end of a handler. Handlers of a batch run one after the other under a
time limit (`Tick` waits for it), and the attempt a processor judges by is that
of its fetch. `Crash` leaves the rest of the batch RUNNING. `ReadRedelivered` and
`Requeue` are the two halves of a webhook stored again.

**LLM budget.** The row is shared; slots and the blocked flag belong to a process. The
managed profile (staging and production on GCP) has no cache and counts slots in a
class variable, every other profile counts them in a cache that is local to the
process too (`cache.py:139-170`); `Cached` tells the two apart. In the cache a counter
has a time to expire only from a slot taken to the next one released or refused: `expire`
sets it, and `increment` and `decrement` write without one (`leased`). Raising, comparing
and lowering the counter are one step, since nothing of the process runs in between.
Between `Reserve` and `Record` the call's transaction is open and holds
the row (or the key of its insertion), so `Unlocked` guards whoever else would
write it. `CallFails` forgets the slot and rolls back; `CallFailsAndCommits` is a
caller that catches the error and commits with its next provider.

**Remediation.** Loading and writing are steps of their own; the write is one
transaction with the checks before it, from the copy. `Start` commits EXECUTING
before the action is carried out, so `Succeed`, `Fail` or a `Leave` (a crash) come
later. A request with the wrong status is marked FAILED, as the code does.

**Billing.** A charging job holds the row from `StartCharge` to its commit, with the
provider's answer in between (`AskProvider`); a final failure commits by itself
inside the job, which may then succeed or fail (`RetryDeclined`). `ChargeFails`
undoes everything but the provider's charge. The webhook, checkout and cancel handlers
read without a lock (`Read..`) and write their changed columns in a later step
(`WriteHook`, `WriteCheckout`, `WriteInvoiceFailed`). This goes for failed invoices too:
`_handle_invoice_failed` has loaded the row when `process_failed_payment` locks it, so
debounce, attempts, status and tier are those of the copy. Only the jobs, whose first
query takes the lock, judge by the row. A checkout notes its reference, and for a new
tenant inserts the row with the tier, before anything is paid. The debounce of a minute
may end at any moment (`Debounced`), which leaves out no order of events.

**Costs.** A session's writes are its own until `Commit`, and the rows it has written
stay locked until then (`RowFree`). Attribution is one step per query:
`SelectRecords`, `StartDelete` (the snapshot of the DELETE, after the rules have been read),
`FinishDelete` (it has waited for rows that others are deleting, and does not see what those
insert), then the insertion with the commit. `AttributionFails` commits what was
ingested without the attribution, as the job does; `Abort` undoes all. `Finalize` and
`Purge` are single updates that wait for row locks. A purged record's allocation rows
stay in the table but join nothing: no foreign key leads to the partitioned
table, and readers join on the primary key.

## 3. Runs

| Run | Instance | Shows |
|---|---|---|
| `waterfall` | amounts 0..3, every mode, every headroom or none | `NeverOverdrawn`, `AllowedIsFunded`, `MatchesReference`, `HeadroomNeverHurts` |
| `gate_budget` | two calls, two keys, costs 1 and 2, limits 2 and 3, HARD with a plan ceiling and SOFT with an enterprise ceiling, a month's end, sweeps and reconciliations | `NoOvercommit`, `CeilingsHold` |
| `gate_credits` | two calls of cost 2 and 3, a reserved grant and an emergency grant created later that expires, bills of 1 and 3 | `TypeOK`, `CreditConserved`, `HoldsBackDecisions`, `ShortOnlyOnExpiry`, `SpendMatchesRows`, `ImplementsLedger` |
| `gate_review` | two calls with one key, real or dry run, prod (approval) or nonprod (shadow), a clock of three ticks over request and token expiry | `RepliesAreDurable`, `RefusedHoldsNothing`, `SettlementIsFinal` |
| `gate_liveness` | two calls, two keys, one lock; two reservations overdue at once, sweeps of one | `EveryCallAnswered`, `OverdueReleased` |
| `jobs` | three jobs of one and two attempts, one a webhook, two processors, batches of two, a lock timeout that a batch outlasts and one that it does not | `JobTypeOK`, `AttemptsBounded`, `NoAttemptShared`, `NoDoubleProcessing`, `EveryJobEnds` |
| `actions` | two actions of two and one attempts, two workers, two requests in flight, two ticks | `ActionTypeOK`, `GrantsAreCounted`, `WaitingHasAttempts`, `EndedStaysEnded` |
| `llm_budget` | two calls of one process and one of another, with a cache, one slot in each, a quota of one, an estimate of 2, prices 1 and 3, limits 1, 2 and 4, one turn of the month | `LlmTypeOK`, `SpendMatchesUsage`, `SpendWithinLimit`, `SlotsHeld`, `QuotaOvershoot` |
| `remediation` | two requests for one finding, one of them escalated by the policy and open to the sweep, two workers, a grace period of one tick | `RemTypeOK`, `OverrideRequired`, `GraceRespected`, `ExecutedOnce` |
| `remediation_breaker` | the same | violates `FailuresOpenBreaker` |
| `billing` | one paid tier, a new tenant or a subscribed one, two checkouts, two unlocked handlers at a time beside the jobs, a period of a day, two attempts with the retry on the same day, jobs of one try, three failures counted, two days | `BillTypeOK`, `PlanFollowsTier`, `RetryIsQueued` |
| `costs` | one record, two sessions, costs of 1 and 2, rules that allot the cost or a fixed 2, three days | `AllocationsFollowCost`, `CostsBecomeFinal` |

**Why these bounds.** Two calls suffice for every race of the code: the lock
and the unique index are pairwise. Amounts of 1 to 3 against limits and grants of
1 to 3 give costs below, at and above every limit, partial funding from the
budget, from one grant and from two, a bill below, between and above what is
reserved, and a clamp. One tick crosses a month, an expiry or an overdue age,
three cross a request's and then its token's. All of these situations occur in the runs: refusals for lack of
credit, a settlement that consumes part of its rows, an evaluation whose four sums
disagree, a token spent after the sweep, a dry run answering a real call. The bounds are `MaxTime` (clock), `SweepLimit` (a parameter of
the code), and the finite sets of keys, calls, inputs and grants.

Calls, workers and requests are interchangeable in the safety runs that use
`SYMMETRY`; the liveness runs use none. In the gate's runs and in `actions` clock
and calls are bounded, so the system stops once all is settled: they do not check
for deadlock, and `EveryCallAnswered` covers the waiting there is. The other
runs do.

In the second group, two processors, workers or requests are what every race of
the code needs: each is between one that read and one that wrote in the meantime,
and a third in the LLM budget, in a process of its own, takes the quota that two leave
over and shares the row but not the slots. The limits are used up by no call, by one and
by two; the profile without a cache has a part of the behaviours of the one with.
Attempts of one and two give first, middle and last attempts. In `jobs` a
batch of two handlers of one tick stands for 25 of 300 s, and lock timeouts of 1 and
3 ticks for one shorter and one longer than that. One redelivery is in flight at a
time; the safety properties have also been checked with two. In `billing` the
retention of completed jobs and of dead letters ends the next day, inside the run, so
that keys of both kinds come free and are used again; `MaxFailures`
bounds the failures counted, and lets a webhook count one more than there are attempts.
Two checkouts are needed for a new tenant to become active (section 4), and two handlers
with a job for the old copies: one that has read, one that writes in between. Both
excuses the properties make occur: without `raced`, or without `usedUp`, the run finds
them violated. Behaviours of three attempts, two paid tiers and five days have been
simulated beside the run. In `costs` one record is enough because sessions meet in
nothing but a record: locks, allocations and status are the record's own. Its
windows of one and two days keep the order of the code's (final after 2 days,
ingested for 7, attributed for 30), so that a final cost is ingested again; retention
ends inside what a backfill reaches, so that a deleted cost is stored again.
`MaxDay` bounds the clock and `MaxId` how often a record is deleted. `LastMonth`, `MaxTime` bound clocks, `Tries` is a
parameter of the code (5).

**Fairness.** `FairGate` assumes that the event loop keeps running every call or the
call's time limit cuts it off (weak fairness of its evaluation steps, which
include the end of the lock wait: `asyncio.wait_for` around the update), and that
the scheduler keeps starting the reconciliation worker
(`E/reconciliation_worker.py`). It assumes nothing of clients, reviewers, operators
or of failures. `FairJobs` assumes that time passes and that
each processor goes on: rounds are started again and again
(`run_background_job_processing`), and a handler ends or is ended by
`asyncio.wait_for`. It does not assume that handlers succeed or that nobody crashes. `FairCosts` assumes that
days pass, that a session goes on or is ended (jobs have a time limit, requests
answer or fail), and, strongly, that the daily finalizing UPDATE succeeds: it queues
for its row locks, and whoever holds one ends. It does not assume that any session
starts or succeeds.

## 4. Reading the properties

* `NoOvercommit`, `CeilingsHold` are about steps: whoever makes a month's total
  grow leaves it within the limit it has read. They are not invariants, because
  operators lower limits below what is reserved. They need the lock to span
  everything from the sums to the commit, on all paths, over a month's end.
* `ShortOnlyOnExpiry`: the gate promises credit from sums taken at different
  moments and draws later. The run shows that skew and concurrent settlements
  never make the draw fail; only a grant whose expiry passes meanwhile does.
* `HoldsBackDecisions` is why a settlement never raises "missing allocation
  rows" or "settlement drift", and so why no decision can poison the sweep.
* `RepliesAreDurable` compares what a client was told with what is recorded,
  also for a call that went down the fail-safe path after its evaluation had
  committed.
* `RefusedHoldsNothing` allows one thing the code allows: a pending decision that
  was reconciled before its review has spent credit.
* `GrantsAreCounted` compares the attempt count with the list of workers an action
  was really handed to. Without the attempt count in the claiming UPDATE, a worker
  that selected a candidate long ago takes it in a later round.
* `EndedStaysEnded`, `WaitingHasAttempts` leave out actions of which two reports were
  in flight at once (`overlapped`): these the code does strand and revive, since a
  report writes without a condition. For all others no sequence of leases, lost
  calls and retries does.
* `NoDoubleProcessing` holds where a full batch fits in the lock timeout
  (`BatchFits`), and but for webhooks whose redelivery was judged by an old row. The
  default settings do not fit: a batch of 10 to 25 jobs of up to 300 s against 30
  minutes, so a job at the end of a slow batch is recovered and run a second time
  while its first processor still holds it. `NoAttemptShared` and `AttemptsBounded`
  hold regardless.
* `EveryJobEnds` names the two ways a job may not be decided: its last attempt was
  cancelled, or put back by a late redelivery (`Stranded`: PENDING, no attempt
  left, never fetched again), or more important jobs always fill the batch.
* `SpendWithinLimit` allows what calls cost beyond their estimates (`book.overrun`) and
  nothing else; `QuotaOvershoot` says by how much the quota, counted before the lock,
  can be passed.
* `SlotsHeld` is about the calls of one process and needs its counter not to expire under
  them (`lapsed`), which with a cache it does under calls longer than the lease. It does
  not say that a tenant has no more calls in flight than the cap: with several processes
  (`api_max_instances` in `src/terraform/variables.tf`) it may have the cap in each, and
  that the code does not prevent. Nor does it say that slots come back: a call that fails
  at the provider keeps its slot (`CallFails`) until the counter expires, which without a
  cache, or after the next release, it does not.
* `OverrideRequired`, `GraceRespected` hold although workers act on copies, because
  the copy that is judged carries the override and the due date together with the
  status. What copies do break is not claimed: an approval can overwrite a rejection,
  and an execution of a request in the wrong status marks it FAILED while it runs.
* `ExecutedOnce` is about the rest: a request nobody loaded or rejected while a worker
  held a copy of it (`overlapped`) is executed once, through failures, crashes, retries
  of the job and repeated calls. With an overlap it can be executed twice: the second
  worker's copy is still SCHEDULED after the first has committed EXECUTING.
* `FailuresOpenBreaker` states the docstring of `_check_circuit_breaker`; the run
  finds it violated (PROJECT.json, findings).
* `PlanFollowsTier` names the two things that part plan and tier. One is a handler that
  sets the plan and had read an older tier (`raced`): a charge.success written after
  another change of tier, or a failed invoice, whose copy says FREE already while a
  charge.success has paid for more: the tier column is then not written and the plan is.
  The excuse ends with the next change of plan. The other is a first checkout: it
  inserts its tier unpaid, with the plan still the free one, and its own charge.success does
  not change that. The reference is the row's last one by then, so the webhook is taken for
  a duplicate (`paystack_webhook_impl.py:321`) and sets neither plan nor customer code.
  Only the charge of an older checkout, when a newer one has been opened, is accepted. The
  property allows this state, demands that the plan is free in it, and ends it with the
  first accepted charge.
* `RetryIsQueued` leaves out retries whose key is used up (`usedUp`). After a recovery
  the retry jobs of the round before are kept under the same keys until retention
  deletes them, and swallow the new ones. A failed invoice that was counted on an old copy
  does the same: it can set the count back behind a recovery or a job that has gone
  ahead, and then asks for a key that is taken. And a retry that was given up is not there
  once retention has deleted the dead letter, while the subscription still waits; this
  was found when the proof failed. An old copy can also leave the row waiting with all its
  attempts used, where no retry is due and the property says nothing.
* `AllocationsFollowCost` excludes records whose last attribution overlapped with a change
  of their cost or with another attribution, or whose cost was committed without one
  (`astray`): these the code does leave with rows of an old cost, or with two sets
  of rows. A later attribution without an overlap must put that right, and this
  the property demands: its DELETE takes the rows of every earlier session. It is the
  finest promise READ COMMITTED allows here; the rules it compares with are any the
  tenant has had, since a change of rules re-attributes nothing.
* `CostsBecomeFinal` is about costs that come late or again: a row stored after its
  day's sweep must be taken by a later one (`recorded_at <= cutoff`), and an upsert
  of a final row must leave it final.
  What it does not say: a final cost may still change. Every ingestion of the
  application is preliminary, and `save_records_stream` looks for adjustments only in
  final ones (`persistence.py:255`), so these changes leave no row in `CostAuditLog`,
  "Forensic audit trail for cost restatements" (`src/app/models/cost_audit.py:24`).
* `ImplementsLedger` maps grants and allocation rows to `CreditLedger`.

## 5. What is proved

Every safety invariant and every action property that a run expects to hold is also
proved, and so is the refinement of `CreditLedger`. The theorems hold for every
value of the constants that satisfies the named assumptions, which TLC evaluates on
each instance: `AmountsAreNaturals` (`WaterfallCalls`), `ReservationConstants`
(finitely many keys and grants, at least one project, grants with distinct creation
times), `GateConstants` (inputs and policies are well typed), `ActionConstants` and
`JobConstants` (limits, times and attempts are naturals, attempts positive; no worker
is "nobody"), `LlmConstants` (finitely many calls, natural prices and limits, a slot
and a quota of at least one, a process for each call), `RemediationConstants` (finitely many requests, a
positive grace period), `BillingConstants` (at least as many retry days as attempts,
positive periods and tries, a paid tier for each
checkout, "free" is none) and `CostConstants`. There is no
bound on calls, keys, grants, amounts, actions, jobs, workers, processors, requests,
hooks, records or sessions; clocks are bounded by constants of any size.

| Theorem | Property | Inductive invariant or argument |
|---|---|---|
| `TypeCorrect`, `WaterfallNeverOverdraws`, `WaterfallAllowsOnlyFunded` | the type invariant, `NeverOverdrawn`, `AllowedIsFunded` of one call | `WaterfallAnswer`: stage by stage, reserves are cut to the headroom, their sum to the funding target, which is cut to the enterprise ceiling; then one case for each way the function returns |
| `WaterfallMatchesReference`, `WaterfallMonotone` | `MatchesReference`, `HeadroomNeverHurts` | `StagesAreBest`; what HARD mode lets through is what the sources can pay (`Affordable`) |
| `GateTypeCorrect` | `TypeOK` of the gate | inductive as it stands |
| `RefusalReleases`, `SettledOnce`, `AnswersStand` | `RefusedHoldsNothing`, `SettlementIsFinal`, `RepliesAreDurable` | `SafeTables` |
| `HoldsMatchDecisions`, `SpendingRecorded` | `HoldsBackDecisions`, `SpendMatchesRows` | `Accounts` |
| `CreditIsConserved`, `RowsImplementLedger` | `CreditConserved`, `ImplementsLedger` | every step is one of the three movements of a ledger, or none (`LedgerMoves`) |
| `ShortOnlyByExpiry`, `BudgetHolds`, `CeilingsRespected` | `ShortOnlyOnExpiry`, `NoOvercommit`, `CeilingsHold` | `Base /\ Limits` |
| `ActionTypeCorrect`, `HandOutsCounted` | `ActionTypeOK`, `GrantsAreCounted` | `GrantsInv` |
| `NothingStranded`, `EndsStand` | `WaitingHasAttempts`, `EndedStaysEnded` | `AloneInv` |
| `StartsBounded`, `AttemptsApart` | `AttemptsBounded`, `NoAttemptShared` | `AttemptsInv` |
| `QueueTypeCorrect`, `RunsAreExclusive` | `JobTypeOK`, `NoDoubleProcessing` | `QueueInv` |
| `LlmTypeCorrect`, `UsageIsSpent`, `LimitHolds` | `LlmTypeOK`, `SpendMatchesUsage`, `SpendWithinLimit` | `Money` |
| `SlotsAreHeld`, `QuotaIsBounded` | `SlotsHeld`, `QuotaOvershoot` | `SlotsCounted`, `QuotaCounted` |
| `RemediationTypeCorrect`, `OverridesReviewed`, `GraceIsRespected`, `ExecutionsOnce` | `RemTypeOK`, `OverrideRequired`, `GraceRespected`, `ExecutedOnce` | `RemInv` |
| `BillTypeCorrect`, `PlanIsPaidFor`, `RetriesQueued` | `BillTypeOK`, `PlanFollowsTier`, `RetryIsQueued` | `BillInv` |
| `AllocationsFollow` | `AllocationsFollowCost` | `CostInv` |

*Sums.* `Total(f)`, the sum of a function, is the number of its units, the pairs of an
argument and a number below its value. So the theorems about cardinality give what
sums obey without induction: `TotalUpdate` (one summand changes), `TotalSum` (the sum
of sums), `TotalMonotone`, `TotalBound`. `GreedyTotal` is the law of the draw: it
takes exactly what is needed if there is enough, and everything if there is not.

*Types.* That amounts stay natural is not obvious where the code subtracts. A
draw takes of each grant at most what is available (`DrawType`), and the two draws
of one request never meet in a grant, which is in one pool (`PoolDrawTypes`), so a
balance does not become negative; a settlement consumes of a row at most what it
holds, so what is left to release is natural (`SettlementTypes`); the amounts a
decision reserves are natural because the waterfall is sound on natural headrooms
(`EntitlementType`, which cites `WaterfallAnswer`), and the headrooms are because
the sums are (`SumTypes`).

*Refusals, settlements, answers.* `RefusedHoldsNothing` alone is not inductive. A denial
closes a decision that may have been given up before: it must then find no active
allocation row, since settlement skips decisions without credit. And a token must not
have been consumed while the request was still pending. So the invariant is

    SafeTables == HoldsFollow /\ TokensFollow /\ RefusedHoldsNothing

where `HoldsFollow` says that an active row belongs to a standing decision with
credit, and `TokensFollow` that only an approved request's token is spent. Two
lemmas split the work: every step of the system leaves the tables alone, records
a new decision under a free key or is a handler's (`TableMoves`); every handler
leaves decisions and rows alone or gives reservations up (`HandlerMoves`). What
giving up leaves is `CloseLeaves`. `SettlementIsFinal` follows: of a decision
that does not stand no row is active, so none changes, and review settles it with a spend of
zero. `RepliesAreDurable` needs in addition that no step but the recording of a
free key changes an outcome (`OutcomesStand`), and that a call's reply is set to
nothing but what stands under its key (`StepsAnswer`).

*Credit.* `Accounts` says of every decision what its rows and its own columns agree
on: before it is recorded nothing (`Fresh`), while it stands nothing is spent
(`Unspent`) and its active rows hold its credit, afterwards its spend is what the rows
have consumed. With it a settlement pays exactly from the rows it closes
(`SettlementSplits`). `Moves` describes each step by what it does to a grant: it is
issued, some of it is taken into rows, or rows end and are split into spent and
returned. Conservation follows from that by the laws of sums, and so does each step of
`CreditLedger`.

*Limits.* What a call has read must bound what is there when it decides, although
everything but other evaluations may have happened since. `Limits` says why it does:
whoever reads sums holds the lock (`LockHeld`); no standing decision is dated after
the call's own time (`Dated`, `Past`), so the sums of its month and of any later one
are at most what it has read (`Seen`), since all steps but its own decision make them
smaller (`TableSteps`); and the headrooms it was promised are still there unless a
grant has expired (`Promise`). So a draw falls short only then (`Refusals`), and a
decision cut to its limits leaves the month within them.

*Action queue.* `GrantsAreCounted` needs the types and what a request has checked when
it read (`ReadsHold`): a claim holds a candidate below its attempt limit, a report
on a run a copy that was RUNNING. The claiming UPDATE compares the attempts of the row
with those of the copy, so one that succeeds counts on from the number of hand-outs.
A report writes the columns in which it differs from its copy, and never the attempts,
so this holds whatever reports do. Status and lease it may write over a row that has
moved on. Where no two reports overlapped, `ReportsAlone` says that one report at
most is in flight, that its row has not ended, and that a copy read while RUNNING
still is the row (nothing claims a running action). Then a report ends or requeues what
it has read, and `WaitingHasAttempts` and `EndedStaysEnded` follow step by step.

*Job queue.* `NoAttemptShared` is not inductive: that a fetched attempt is new follows only
from the row's count. So `AttemptsInv` adds `ClaimsCounted`, that the row of a job that is
no webhook has counted at least every attempt a processor holds of it, and `Shapes`, with
the attempts of an absent row zero. No end of a run and no recovery lowers the count,
a redelivery only that of a webhook, and retention only that of a job no processor
holds (it keeps ended jobs for days). `NoDoubleProcessing` is a fact about time: where a
full batch fits into the lock timeout, a job held is RUNNING in the attempt it was
fetched in, nobody else holds it, and it was started no longer ago than the handlers
before it may have taken (`Owned`, `Late`), so it is never stale. A redelivery's copy
is of an earlier attempt or of a run that was given up (`CopyOld`), and two copies of one
webhook are told apart by `raced` (`OneCopy`).

*LLM budget.* Only one call has an open reservation (`OneOpen`). The row its transaction
sees has room for its estimate and differs from the committed one only in what is
pending, or is the month's new one (`Drafts`); and the committed row is `Balanced`
against the history. So a recording writes the spend there is plus its price. As long as it
has not expired under a call, the slot counter of a process is at least the number of its
calls in flight, and these are no more than the cap (`SlotsCounted`): a slot taken raises
both, one given back lowers the counter by no more than the calls, a failed call only the
calls, and a restart sets both to zero. A call that has passed the quota counts as a row to come
(`QuotaCounted`).

*Remediation.* Copies are stale, so nothing can be said of a copy by the row. Both are
instead held against the history: a row or copy with the override marker belongs
to a request that was reviewed, and one with a due date to a request whose first due
date was no later (`Fits`, in `RowsFit` and `CopiesFit`). A write of changed columns
leaves each column that of the row or of the copy, so it fits again. For `ExecutedOnce`, a
request without overlap is its only worker's copy (`LoneCopies`), and one that was
started has ended and is not started again (`StartedEnds`).

*Billing.* A handler that does not hold the row writes a patch of columns over whatever is
there; `HookFits` says of the patch that it fits every row, which columns a handler of its
kind leaves alone, and that it moves the tier it has read to the tier it sets the plan to.
So the plan follows, unless the tier has changed since, which is `raced`. A row that no
charge has been accepted for has the free plan and no jobs (`NewcomerFits`), and the only
handler in flight that sets the plan of such a row also brings the customer code (`Meets`):
whichever way the checkouts and their charges are interleaved, the second excuse ends with
the first accepted charge. `RoundFits` says that no key of the dunning round but those used
up is taken beyond the next attempt: the job of a retry is new when it is queued, and where
an old copy sets the count anywhere but one further, the taken keys are used up.

*Cost ledger.* `FreshFits` says of an attribution and a record that nothing has disturbed
since it was read: the identity, the cost and, once it deletes, the rows to delete are
those there are, with an amount that some rules allot to the cost; or the record has
been deleted since and the rows will join nothing (`Gone`). At its commit such a record
gets one group of rows in place of those it had. What a commit changes under others is no
longer fresh to them, finalization changes neither identity nor cost, and retention
turns the first case into the second. That no two sessions have written one record
(`SessionFits`) is the row lock.

## 6. What is only model-checked

* `EveryCallAnswered`, `OverdueReleased`, `EveryJobEnds` and `CostsBecomeFinal`: liveness
  under fairness, and ENABLED with it, is out of the prover's reach. The safety facts
  their arguments rest on are proved: no decision poisons the sweep
  (`HoldsMatchDecisions`), attempts are bounded (`StartsBounded`).
* `FailuresOpenBreaker`, which the run finds violated.

The type invariant of `WaterfallCalls` is the other way round: it is proved
(`TypeCorrect`) and no run repeats it.

What the theorems say is about the models. That these follow the code is a matter of
reading (the `map` of `PROJECT.json`), and that the properties can fail at all is shown
by the mutants that PROJECT.json lists for each.

## 7. Plan

Done: the waterfall, the gate with reservations, credit and approvals, the
abstract ledger, the queues, the LLM budget, remediation, billing, the cost
ledger, and the theorems of section 5. Next, most important first:

1. `GrantLocks`: the row locks of a draw and of settlements one by one
   (deadlock), and `ReservationClaim`: the claim of a reservation on a database
   without row locks.
2. `PolicyContract`: version counter, concurrent updates and first reads.
3. Abstract specifications of the queues (each hand-out is an attempt, each job
   ends once) that `ActionQueue` and `JobQueue` are shown to implement.
4. The autonomous engine's choice of candidates; carbon refresh and attribution in one
   maintenance transaction; the audit of cost restatements (section 4).

## 8. Not modelled, and why

Most of the repository by size is scripts, adapters, reports, API schemas, the
dashboard and infrastructure: they transform data or carry it in and out, and hold no
state that two actors share. The models cover the parts that do, line by line where
`PROJECT.json` maps them.

* Idempotent replay of a reconciliation: it changes no state.
* Ledger entries, payloads, metrics, risk scores, computed context values: data
  nothing reads back. That the cost context may be unavailable is modelled (a
  free choice in `Persist`), what makes it so is not.
* Reviewer authority and token claims: checks of data against data in one row.
* The creation of the policy row: the model starts with it.
* Allocation rows older than their table: the initial states have none.
* Two allocation rows written in the same microsecond, which settlement would
  take in either order; the model takes them in the order they were written.
* Cloud adapters, discovery, notifications, dashboard, Terraform and migrations: input
  and output, rendering or static data. Reports (aggregations, anomalies,
  reconciliation, savings proofs, exports) compute from cost rows anew for each
  request and keep nothing a handler reads back.
* What the application never calls: the circuit breakers of `app/shared/core` and
  `app/shared/remediation` (tests and the safety status endpoint only), final
  ingestions and their adjustment audit, `save_summary`, `clear_range`,
  `cleanup_old_records`, `process_cost_record`, `CURIngestionJob`,
  `ReportingService.ingest_costs_for_tenant`.
* The scheduler's cohort dispatches: they select tenants `FOR UPDATE SKIP LOCKED` up to a
  cap and insert jobs under one key per tenant, type and hour, and all that can go
  wrong with a key is in `JobQueue` and `Billing`.
* How a cost is normalised, converted and categorised, and the fields of an attribution
  rule; batches of an ingestion are one record each. Finalization shares its
  transaction with the carbon-factor refresh and may be rolled back with it: the
  sweep then comes again.
* What an action, a job handler or a provider does: it ends well, badly, late or
  never, which is a free choice in the models.
* Policy controls and payload hashes of actions; the per-minute, soft daily and
  global caps of the LLM budget, its alerts, tenant keys and circuit breaker;
  previews, IaC plans and credentials of remediation; prices, currencies,
  signatures and mails of billing.
* Several tenants: every query of these parts names the tenant, and the tables of
  different tenants do not meet.
* The double charges that a crash between the provider's answer and the commit
  allows (the next day's renewal has another reference), and renewals of two days
  that are both due: the model has these behaviours (`charged` grows), no document
  promises otherwise, so no property is stated.
