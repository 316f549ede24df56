------------------------------ MODULE Billing -------------------------------
(***************************************************************************)
(* One Paystack subscription (billing/domain/billing): the daily sweep     *)
(* that queues renewals, the jobs that charge the stored card under a row  *)
(* lock, the dunning rounds that follow a failed payment, and the webhook, *)
(* checkout and cancel handlers, which read the row without a lock and     *)
(* write the columns they changed.  A job is known by the key it is        *)
(* deduplicated by, which is also the reference it charges under.  A tick  *)
(* is a day.                                                               *)
(***************************************************************************)
EXTENDS Integers, Sequences

CONSTANTS MaxAttempts,     \* DUNNING_MAX_ATTEMPTS
          RetryDays,       \* DUNNING_RETRY_SCHEDULE_DAYS
          JobAttempts,     \* max_attempts of a job, by kind
          Period,          \* days between renewals
          Retention,       \* days a COMPLETED or DEAD_LETTER job is kept
          PaidTiers,
          Checkouts,       \* references of checkouts the tenant may open
          CheckoutTier,    \* the tier each of them is for
          Hooks,           \* unlocked handlers in flight at a time
          MaxFailures,     \* bound of the failures counted
          MaxTime          \* bound of the clock

ASSUME BillingConstants ==
  /\ MaxAttempts \in Nat \ {0} /\ Period \in Nat \ {0}
  /\ JobAttempts \in [{"dunning", "renewal"} -> Nat \ {0}]
  /\ RetryDays \in Seq(Nat) /\ Len(RetryDays) >= MaxAttempts
  /\ Retention \in [{"COMPLETED", "DEAD_LETTER"} -> Nat]
  /\ PaidTiers \cap {"free", "none"} = {} /\ CheckoutTier \in [Checkouts -> PaidTiers]
  /\ MaxFailures \in Nat /\ MaxTime \in Nat

VARIABLES sub,        \* the row of tenant_subscriptions
          plan,       \* Tenant.plan
          recent,     \* last_dunning_at is less than the debounce away
          jobs,       \* the background jobs by key
          charge,     \* the transaction that holds the row lock
          charged,    \* external: references the provider has, or may have, charged
          hook,       \* what each unlocked handler has read
          now,
          raced,      \* history: who last set the plan had read an older tier
          usedUp      \* history: retries that are not queued anew, see RetryIsQueued
billVars == <<sub, plan, recent, jobs, charge, charged, hook, now, raced, usedUp>>

NoRef == [kind |-> "none", seq |-> 0]
Dunning(k) == [kind |-> "dunning", seq |-> k]
Renewal(d) == [kind |-> "renewal", seq |-> d]
Keys  == {Dunning(k) : k \in 1 .. MaxAttempts} \cup {Renewal(d) : d \in 0 .. MaxTime}
Checkout(c) == [kind |-> "checkout", seq |-> c]
Refs  == Keys \cup {Checkout(c) : c \in Checkouts}
Tiers == PaidTiers \cup {"free"}
Never == -1                \* no due date

(* `customer`, `coded`: the row has the provider's customer code and its   *)
(* subscription code, by which webhooks find it.                           *)
Subscriptions == [status: {"none", "active", "attention", "cancelled"}, tier: Tiers,
                  attempts: Nat, due: Int, ref: Refs \cup {NoRef},
                  customer: BOOLEAN, coded: BOOLEAN]
NoSub == [status |-> "none", tier |-> "free", attempts |-> 0, due |-> Never, ref |-> NoRef,
          customer |-> FALSE, coded |-> FALSE]
JobRows == [status: {"ABSENT", "PENDING", "RUNNING", "COMPLETED", "DEAD_LETTER"},
            at: Nat, tries: Nat]
NoJob   == [status |-> "ABSENT", at |-> 0, tries |-> 0]
Idle    == [key |-> NoRef, answer |-> "none"]
NoHook  == [at |-> "none"]
(* Due dates after the last tick are one. *)
Within(due) == IF due > MaxTime THEN MaxTime + 1 ELSE due

(* A tenant that has never opened a checkout, or a subscription that       *)
(* earlier ones have activated.                                            *)
NewTenant == sub = NoSub /\ plan = "free"
Subscribed == \E t \in PaidTiers :
  /\ sub = [status |-> "active", tier |-> t, attempts |-> 0, due |-> Within(Period), ref |-> NoRef,
            customer |-> TRUE, coded |-> TRUE]
  /\ plan = t

BillInit ==
  /\ NewTenant \/ Subscribed
  /\ recent = FALSE
  /\ jobs = [k \in Keys |-> NoJob]
  /\ charge = Idle
  /\ charged = {}
  /\ hook = [h \in Hooks |-> NoHook]
  /\ now = 0
  /\ raced = FALSE /\ usedUp = {}

Unlocked == charge = Idle

(***************************************************************************)
(* Jobs.                                                                   *)
(***************************************************************************)
Enqueued(js, key, at) ==
  IF js[key].status = "ABSENT"
  THEN [js EXCEPT ![key] = [status |-> "PENDING", at |-> at, tries |-> 0]] ELSE js

(* Of a row that has ended only the time counts, for the retention.        *)
Done(row) == [status |-> "COMPLETED", at |-> now, tries |-> 0]
FailedJob_Forever(k, row) == [row EXCEPT !.status = "PENDING"]
FailedJob(k, row) ==
  IF row.tries >= JobAttempts[k.kind] THEN [status |-> "DEAD_LETTER", at |-> now, tries |-> 0]
                                      ELSE [row EXCEPT !.status = "PENDING"]

Taken == {q \in Keys : q.kind = "dunning" /\ jobs[q].status # "ABSENT"}

Purge(k) ==
  /\ jobs[k].status \in DOMAIN Retention
  /\ now - jobs[k].at > Retention[jobs[k].status]
  /\ jobs' = [jobs EXCEPT ![k] = NoJob]
  /\ usedUp' = IF jobs[k].status = "DEAD_LETTER" /\ k.kind = "dunning" THEN usedUp \cup {k} ELSE usedUp
  /\ UNCHANGED <<sub, plan, recent, charge, charged, hook, now, raced>>

Sweep ==
  /\ Unlocked                                            \* skip_locked
  /\ sub.status = "active" /\ sub.due \in 0 .. now
  /\ jobs[Renewal(now)].status = "ABSENT"
  /\ jobs' = Enqueued(jobs, Renewal(now), now)
  /\ UNCHANGED <<sub, plan, recent, charge, charged, hook, now, raced, usedUp>>

(***************************************************************************)
(* process_failed_payment: a failure is counted on a copy of the row, and  *)
(* either the next retry is queued with it or the tenant is downgraded.    *)
(***************************************************************************)
RetryKey_SameAttempt(attempt) == Dunning(attempt)
RetryKey(attempt) == Dunning(attempt + 1)

LastFailure(row) == row.attempts + 1 >= MaxAttempts

Failed(row) ==
  IF LastFailure(row)
  THEN [row EXCEPT !.attempts = @ + 1, !.status = "cancelled", !.tier = "free"]
  ELSE [row EXCEPT !.attempts = @ + 1, !.status = "attention"]

WithRetry(js, attempt) == Enqueued(js, RetryKey(attempt), now + RetryDays[attempt])

Downgraded_PlanKept(p) == p
Downgraded(p) == "free"

(***************************************************************************)
(* A charging job: take the lock, ask the provider, commit.  A renewal     *)
(* wants an active subscription; a dunning retry charges in any status.    *)
(***************************************************************************)
Ready(k) == Unlocked /\ jobs[k].status = "PENDING" /\ jobs[k].at <= now

SkipRenewal(k) ==
  /\ Ready(k) /\ k.kind = "renewal" /\ sub.status # "active"
  /\ jobs' = [jobs EXCEPT ![k] = Done(@)]
  /\ UNCHANGED <<sub, plan, recent, charge, charged, hook, now, raced, usedUp>>

StartCharge(k) ==
  /\ Ready(k)
  /\ k.kind = "renewal" => sub.status = "active"
  /\ jobs' = [jobs EXCEPT ![k].status = "RUNNING", ![k].tries = @ + 1]
  /\ charge' = [key |-> k, answer |-> "none"]
  /\ UNCHANGED <<sub, plan, recent, charged, hook, now, raced, usedUp>>

(* A reference that is the last one charged counts as paid. *)
AskProvider(k) ==
  /\ charge = [key |-> k, answer |-> "none"]
  /\ IF sub.ref = k
     THEN charge' = [charge EXCEPT !.answer = "success"] /\ UNCHANGED charged
     ELSE \E answer \in {"success", "declined"} :
            /\ charge' = [charge EXCEPT !.answer = answer]
            /\ charged' = IF answer = "success" THEN charged \cup {k} ELSE charged
  /\ UNCHANGED <<sub, plan, recent, jobs, hook, now, raced, usedUp>>

NextDue(due) ==
  Within(IF due # Never /\ due + Period > now /\ due >= now - Period
         THEN due + Period ELSE now + Period)
Paid(k) == IF sub.ref = k THEN sub ELSE [sub EXCEPT !.due = NextDue(@), !.ref = k]

Finish(k) ==
  /\ charge' = Idle
  /\ UNCHANGED <<charged, hook, now>>

ChargePaid(k) ==
  /\ charge = [key |-> k, answer |-> "success"]
  /\ Finish(k)
  /\ jobs' = [jobs EXCEPT ![k] = Done(@)]
  /\ IF k.kind = "renewal"
     THEN sub' = Paid(k) /\ UNCHANGED <<plan, raced, recent, usedUp>>
     ELSE /\ sub' = [Paid(k) EXCEPT !.status = "active", !.attempts = 0]
          /\ plan' = sub.tier /\ raced' = FALSE
          /\ recent' = FALSE
          /\ usedUp' = usedUp \cup Taken

(* Under the lock the copy is the row.  The downgrade commits by itself.   *)
RetryDeclined(k) ==
  /\ charge = [key |-> k, answer |-> "declined"] /\ k.kind = "dunning"
  /\ sub.attempts < MaxFailures
  /\ Finish(k)
  /\ sub' = Failed(sub) /\ recent' = TRUE
  /\ IF LastFailure(sub)
     THEN /\ \E row \in {Done(jobs[k]), FailedJob(k, jobs[k])} : jobs' = [jobs EXCEPT ![k] = row]
          /\ plan' = Downgraded(plan) /\ raced' = FALSE
     ELSE /\ jobs' = WithRetry([jobs EXCEPT ![k] = Done(@)], sub'.attempts)
          /\ UNCHANGED <<plan, raced>>
  /\ UNCHANGED usedUp

(* A declined renewal, an error, a retry that cannot be queued, and a      *)
(* crash (after the lock timeout) undo the transaction, whatever the       *)
(* provider has charged.                                                   *)
ChargeFails(k) ==
  /\ charge.key = k
  /\ Finish(k)
  /\ jobs' = [jobs EXCEPT ![k] = FailedJob(k, @)]
  /\ UNCHANGED <<sub, plan, recent, raced, usedUp>>

(***************************************************************************)
(* Handlers that read without a lock: the webhooks, the checkout and the   *)
(* cancel route.  `sets` is the plan to be set, `was` the tier that is     *)
(* based on.  What is written are the columns that differ from the copy    *)
(* (a handler that would write none is left out); that the invoice handler *)
(* locks the row before it writes does not refresh its copy.               *)
(***************************************************************************)
Changes(new) == [f \in {g \in DOMAIN sub : new[g] # sub[g]} |-> new[f]]

Read(h, kind, ref, sets, new) ==
  LET was == IF sets = "none" THEN "none" ELSE sub.tier
  IN  /\ hook[h] = NoHook /\ new # sub
      /\ hook' = [hook EXCEPT ![h] = [at |-> kind, ref |-> ref, sets |-> sets, was |-> was,
                                      changes |-> Changes(new)]]
      /\ UNCHANGED <<sub, plan, recent, jobs, charge, charged, now, raced, usedUp>>

NoneHandles(ref) == \A g \in Hooks : hook[g] # NoHook => hook[g].ref # ref

(* A checkout names its tier; the provider's own charges name none ("plan" *)
(* in charge_renewal, "tier" in the handler).  A charge whose reference is *)
(* the row's last one is a duplicate and ignored, the first charge of the  *)
(* latest checkout as well.                                                *)
Named(ref) == IF ref.kind = "checkout" THEN CheckoutTier[ref.seq] ELSE "none"
Activated(ref) ==
  [sub EXCEPT !.status = "active", !.ref = ref, !.customer = TRUE,
              !.tier = IF Named(ref) = "none" THEN @ ELSE Named(ref)]

ReadChargeSuccess(h, ref) ==
  /\ ref \in charged /\ NoneHandles(ref)
  /\ sub.status # "none" /\ sub.ref # ref
  /\ Read(h, "charge.success", ref, Named(ref), Activated(ref))

ReadCreate(h) ==
  /\ sub.customer
  /\ Read(h, "create", NoRef, "none",
          [sub EXCEPT !.status = "active", !.due = Within(now + Period), !.coded = TRUE])

ReadCancel(h) ==
  /\ sub.coded
  /\ Read(h, "cancel", NoRef, "none", [sub EXCEPT !.status = "cancelled"])

(* The checkout asks the provider, then inserts a row with the tier that   *)
(* is not yet paid, or only notes the reference in the row it has read.    *)
ReadCheckout(h, c) ==
  LET ref == Checkout(c)
  IN  /\ ref \notin charged /\ NoneHandles(ref)
      /\ IF sub.status = "none"
         THEN Read(h, "insert", ref, "none",
                   [NoSub EXCEPT !.status = "active", !.tier = CheckoutTier[c], !.ref = ref])
         ELSE Read(h, "checkout", ref, "none", [sub EXCEPT !.ref = ref])

(* invoice.payment_failed.  Within the debounce nothing happens; it is     *)
(* judged by the copy and may end at any moment, so judging it here leaves *)
(* no case out.                                                            *)
ReadInvoiceFailed(h) ==
  /\ sub.customer /\ ~recent /\ sub.attempts < MaxFailures
  /\ Read(h, "invoice", NoRef, IF LastFailure(sub) THEN Downgraded(plan) ELSE "none", Failed(sub))

Flushed(row, changes) == [f \in DOMAIN row |-> IF f \in DOMAIN changes THEN changes[f] ELSE row[f]]

Write(h) ==
  /\ hook[h] # NoHook /\ Unlocked
  /\ sub' = Flushed(sub, hook[h].changes)
  /\ hook' = [hook EXCEPT ![h] = NoHook]
  /\ IF hook[h].sets = "none"
     THEN UNCHANGED <<plan, raced>>
     ELSE plan' = hook[h].sets /\ raced' = (hook[h].was # sub.tier)
  /\ UNCHANGED <<charge, now>>

WriteHook(h) ==
  /\ Write(h) /\ hook[h].at \in {"charge.success", "create", "cancel"}
  /\ UNCHANGED <<recent, jobs, charged, usedUp>>

(* A second row of the tenant is refused.  From here on it can be paid.    *)
WriteCheckout(h) ==
  /\ Write(h) /\ hook[h].at \in {"insert", "checkout"}
  /\ hook[h].at = "insert" => sub.status = "none"
  /\ charged' = charged \cup {hook[h].ref}
  /\ UNCHANGED <<recent, jobs, usedUp>>

WriteInvoiceFailed(h) ==
  /\ Write(h) /\ hook[h].at = "invoice"
  /\ recent' = TRUE
  /\ IF hook[h].sets = "none"
     THEN /\ jobs' = WithRetry(jobs, sub'.attempts)
          /\ usedUp' = IF sub'.attempts = sub.attempts + 1 THEN usedUp
                       ELSE usedUp \cup Taken
     ELSE UNCHANGED <<jobs, usedUp>>
  /\ UNCHANGED charged

HookFails(h) ==
  /\ hook[h] # NoHook
  /\ hook' = [hook EXCEPT ![h] = NoHook]
  /\ UNCHANGED <<sub, plan, recent, jobs, charge, charged, now, raced, usedUp>>

Debounced ==
  /\ recent /\ recent' = FALSE
  /\ UNCHANGED <<sub, plan, jobs, charge, charged, hook, now, raced, usedUp>>

Tick ==
  /\ now < MaxTime
  /\ now' = now + 1 /\ recent' = FALSE
  /\ UNCHANGED <<sub, plan, jobs, charge, charged, hook, raced, usedUp>>

BillNext ==
  \/ \E k \in Keys : \/ Purge(k) \/ SkipRenewal(k) \/ StartCharge(k) \/ AskProvider(k)
                     \/ ChargePaid(k) \/ RetryDeclined(k) \/ ChargeFails(k)
  \/ \E h \in Hooks : \/ \E ref \in Refs : ReadChargeSuccess(h, ref)
                      \/ \E c \in Checkouts : ReadCheckout(h, c)
                      \/ ReadCreate(h) \/ ReadCancel(h) \/ ReadInvoiceFailed(h)
                      \/ WriteHook(h) \/ WriteCheckout(h) \/ WriteInvoiceFailed(h) \/ HookFails(h)
  \/ Sweep \/ Debounced \/ Tick

BillSpec == BillInit /\ [][BillNext]_billVars

-----------------------------------------------------------------------------
(* Types, with what dunning keeps of them: a job runs exactly while it     *)
(* holds the row, and no job is tried more often than its limit.           *)
BillTypeOK ==
  /\ sub \in Subscriptions /\ plan \in Tiers /\ recent \in BOOLEAN
  /\ jobs \in [Keys -> JobRows]
  /\ \A k \in Keys : /\ jobs[k].tries <= JobAttempts[k.kind]
                     /\ jobs[k].status = "RUNNING" <=> charge.key = k
  /\ charge \in [key: Keys \cup {NoRef}, answer: {"none", "success", "declined"}]
  /\ charged \subseteq Refs
  /\ \A h \in Hooks : hook[h] # NoHook =>
       /\ hook[h].sets \in Tiers \cup {"none"} /\ hook[h].was \in Tiers \cup {"none"}
       /\ Flushed(sub, hook[h].changes) \in Subscriptions
  /\ now \in 0 .. MaxTime /\ raced \in BOOLEAN /\ usedUp \subseteq Keys

(* The plan the product enforces is the tier of the subscription           *)
(* (sync_tenant_plan), through renewals, retries, downgrades and checkouts *)
(* in any order, and again after each change of plan.  Only two things     *)
(* part them: a charge.success or a failed invoice that was handled on a   *)
(* copy with an older tier, and a first checkout, which leaves the tenant  *)
(* on the free plan until some charge.success has been accepted.           *)
PlanFollowsTier ==
  \/ raced
  \/ plan = sub.tier
  \/ plan = "free" /\ ~sub.customer

(* A subscription that waits for a retry has one queued (step 2 of the     *)
(* dunning flow): the job of the next attempt is waiting, running or given *)
(* up, also when webhooks have counted failures ahead of the jobs.  Only   *)
(* retries whose key is used up are not: the keys taken before a recovery, *)
(* or before a webhook set the count back from an old copy, and a retry    *)
(* given up that retention has deleted.  An old copy can also leave the    *)
(* row waiting with no attempt left.                                       *)
RetryIsQueued ==
  LET retry == Dunning(sub.attempts + 1)
  IN  sub.status = "attention" /\ sub.attempts < MaxAttempts /\ retry \notin usedUp =>
        jobs[retry].status \in {"PENDING", "RUNNING", "DEAD_LETTER"}
=============================================================================
