--------------------------- MODULE Billing_proofs ---------------------------
(***************************************************************************)
(* Proofs about a subscription, for any number of tiers, checkouts,        *)
(* handlers and dunning rounds: what a handler has read of the row, it     *)
(* writes as a patch that fits any row (HooksFit); a tenant without a      *)
(* customer code has no jobs and the free plan (NewcomerFits); a job that  *)
(* waits has a try left (JobsFit); and the keys of the dunning round are   *)
(* fresh from the one after next on (RoundFits).                           *)
(***************************************************************************)
EXTENDS Billing, TLAPS

Statuses == {"active", "attention", "cancelled"}

Queued   == {"PENDING", "RUNNING", "DEAD_LETTER"}

Kinds    == {"insert", "checkout", "charge.success", "create", "cancel", "invoice"}

(* The columns that a handler writes, over whatever the row is by then.    *)
HookFits(g) ==
  /\ g.at \in Kinds /\ g.sets \in Tiers \cup {"none"} /\ g.was \in Tiers \cup {"none"}
  /\ g.at \in {"insert", "checkout"} => \E c \in Checkouts : g.ref = Checkout(c)
  /\ g.sets # "none" => g.at \in {"charge.success", "invoice"}
  /\ \A row \in Subscriptions :
       LET new == Flushed(row, g.changes)
       IN  /\ new \in Subscriptions
           /\ row.status # "none" \/ g.at = "insert" => new.status # "none"
           /\ row.customer => new.customer
           /\ g.at # "charge.success" => new.customer = row.customer
           /\ g.at # "create" => new.due = row.due
           /\ g.at # "invoice" => /\ new.attempts = row.attempts
                                 /\ new.status \in {row.status, "active", "cancelled"}
           /\ g.at = "invoice" /\ g.sets = "none" => new.attempts \in 1 .. MaxAttempts - 1
           /\ g.at = "invoice" /\ g.sets # "none" => new.attempts >= MaxAttempts
           /\ g.at # "insert" /\ g.sets = "none" => new.tier = row.tier
           /\ g.sets # "none" /\ row.tier = g.was => new.tier = g.sets

(* Only an insertion meets a tenant without a row.  A row without customer *)
(* code is met by checkouts and by the charge of one, which brings the     *)
(* code and sets the plan (the cancel route leaves both as they are).      *)
Meets(g) ==
  /\ g.at # "insert" => sub.status # "none"
  /\ \/ sub.customer
     \/ g.at \in {"insert", "checkout", "cancel"}
     \/ /\ g.at = "charge.success" /\ g.sets # "none"
        /\ \A row \in Subscriptions : Flushed(row, g.changes).customer

HooksFit == \A h \in Hooks : hook[h] # NoHook => HookFits(hook[h]) /\ Meets(hook[h])

NewcomerFits ==
  /\ sub.status = "none" => sub = NoSub
  /\ ~sub.customer => /\ plan = "free" /\ sub.due = Never
                      /\ charged \cap Keys = {}
                      /\ \A k \in Keys : jobs[k].status = "ABSENT"

JobsFit ==
  /\ jobs \in [Keys -> JobRows]
  /\ \A k \in Keys : /\ jobs[k].tries <= JobAttempts[k.kind]
                     /\ jobs[k].status = "PENDING" => jobs[k].tries < JobAttempts[k.kind]
                     /\ jobs[k].status = "RUNNING" <=> charge.key = k
  /\ charge \in [key: Keys \cup {NoRef}, answer: {"none", "success", "declined"}]
  /\ charge.key = NoRef => charge = Idle

RoundFits ==
  /\ \A n \in 1 .. MaxAttempts :
       Dunning(n) \notin usedUp /\ jobs[Dunning(n)].status # "ABSENT" => n <= sub.attempts + 1
  /\ RetryIsQueued

Rows ==
  /\ sub \in Subscriptions /\ plan \in Tiers /\ recent \in BOOLEAN
  /\ charged \subseteq Refs
  /\ now \in 0 .. MaxTime /\ raced \in BOOLEAN /\ usedUp \subseteq Keys
  /\ hook = [h \in Hooks |-> hook[h]]

BillInv == Rows /\ HooksFit /\ NewcomerFits /\ JobsFit /\ RoundFits /\ PlanFollowsTier

-----------------------------------------------------------------------------
(* Keys and references.                                                    *)
LEMMA KeyFacts ==
  /\ NoRef \notin Keys /\ NoRef.kind = "none"
  /\ \A n \in 1 .. MaxAttempts : Dunning(n) \in Keys /\ Dunning(n).kind = "dunning"
  /\ \A m, n \in Nat : Dunning(m) = Dunning(n) => m = n
  /\ \A d \in 0 .. MaxTime : Renewal(d) \in Keys /\ Renewal(d).kind = "renewal"
  /\ \A k \in Keys : /\ k.kind \in {"dunning", "renewal"}
                     /\ k.kind = "dunning" => \E n \in 1 .. MaxAttempts : k = Dunning(n)
                     /\ k.kind = "renewal" => \A n \in Nat : k # Dunning(n)
                     /\ k \in Refs
                     /\ JobAttempts[k.kind] \in Nat \ {0}
<1>1. \A k \in Keys : \/ \E n \in 1 .. MaxAttempts : k = Dunning(n)
                      \/ \E d \in 0 .. MaxTime : k = Renewal(d)
  BY DEF Keys
<1>2. /\ \A n : Dunning(n).kind = "dunning" /\ Dunning(n).seq = n
      /\ \A d : Renewal(d).kind = "renewal"
      /\ NoRef.kind = "none"
  BY DEF Dunning, Renewal, NoRef
<1>3. \A k \in Keys : k.kind \in {"dunning", "renewal"}
  BY <1>1, <1>2
<1>4. \A k \in Keys : JobAttempts[k.kind] \in Nat \ {0}
  BY <1>3, BillingConstants
<1>5. (\A n \in 1 .. MaxAttempts : Dunning(n) \in Keys) /\ (\A d \in 0 .. MaxTime : Renewal(d) \in Keys)
  BY DEF Keys
<1>6. \A k \in Keys : k \in Refs
  BY DEF Refs
<1>7. NoRef \notin Keys
  BY <1>2, <1>3
<1>8. \A m, n \in Nat : Dunning(m) = Dunning(n) => m = n
  BY <1>2
<1> QED BY <1>1, <1>2, <1>3, <1>4, <1>5, <1>6, <1>7, <1>8

(* A reference is that of a job or of a checkout.                          *)
LEMMA RefFacts ==
  /\ \A c \in Checkouts : /\ Checkout(c) \in Refs /\ Checkout(c) \notin Keys
                          /\ Named(Checkout(c)) \in PaidTiers
  /\ \A k \in Keys : Named(k) = "none"
  /\ \A ref \in Refs : ref \in Keys \/ \E c \in Checkouts : ref = Checkout(c)
  /\ "none" \notin Tiers /\ "free" \notin PaidTiers /\ PaidTiers \subseteq Tiers /\ "free" \in Tiers
<1>1. \A c : Checkout(c).kind = "checkout" /\ Checkout(c).seq = c
  BY DEF Checkout
<1>2. \A k \in Keys : k.kind # "checkout"
  BY KeyFacts
<1>3. \A c \in Checkouts : CheckoutTier[c] \in PaidTiers
  BY BillingConstants
<1>4. \A c \in Checkouts : Named(Checkout(c)) = CheckoutTier[c]
  BY <1>1 DEF Named
<1>5. \A k \in Keys : Named(k) = "none"
  BY <1>2 DEF Named
<1>6. \A c \in Checkouts : Checkout(c) \in Refs /\ Checkout(c) \notin Keys
  BY <1>1, <1>2 DEF Refs
<1>7. \A ref \in Refs : ref \in Keys \/ \E c \in Checkouts : ref = Checkout(c)
  BY DEF Refs
<1> QED BY <1>3, <1>4, <1>5, <1>6, <1>7, BillingConstants DEF Tiers

(* The columns a handler has changed, written over any row.                *)
LEMMA PatchFits ==
  ASSUME sub \in Subscriptions, NEW new \in Subscriptions, NEW row \in Subscriptions
  PROVE  LET w == Flushed(row, Changes(new))
         IN  /\ w \in Subscriptions
             /\ w.status = IF new.status # sub.status THEN new.status ELSE row.status
             /\ w.tier = IF new.tier # sub.tier THEN new.tier ELSE row.tier
             /\ w.attempts = IF new.attempts # sub.attempts THEN new.attempts ELSE row.attempts
             /\ w.due = IF new.due # sub.due THEN new.due ELSE row.due
             /\ w.customer = IF new.customer # sub.customer THEN new.customer ELSE row.customer
<1> DEFINE w == Flushed(row, Changes(new))
           Pick(f) == IF new[f] # sub[f] THEN new[f] ELSE row[f]
           flat == [status |-> Pick("status"), tier |-> Pick("tier"), attempts |-> Pick("attempts"),
                    due |-> Pick("due"), ref |-> Pick("ref"), customer |-> Pick("customer"),
                    coded |-> Pick("coded")]
           fields == {"status", "tier", "attempts", "due", "ref", "customer", "coded"}
<1>1. DOMAIN row = fields /\ DOMAIN sub = fields
  BY DEF Subscriptions
<1>2. \A f \in fields : w[f] = Pick(f)
  BY <1>1 DEF Flushed, Changes
<1>3. w = [f \in fields |-> w[f]]
  BY <1>1 DEF Flushed
<1>4. w = flat
  <2> HIDE DEF w, Pick
  <2>1. w = [f \in fields |-> Pick(f)]
    BY <1>2, <1>3
  <2> QED BY <2>1
<1>5. flat \in Subscriptions
  <2>1. /\ Pick("status") \in {"none", "active", "attention", "cancelled"} /\ Pick("tier") \in Tiers
        /\ Pick("attempts") \in Nat /\ Pick("due") \in Int /\ Pick("ref") \in Refs \cup {NoRef}
    BY DEF Subscriptions
  <2>2. Pick("customer") \in BOOLEAN /\ Pick("coded") \in BOOLEAN
    BY DEF Subscriptions
  <2> HIDE DEF Pick
  <2> QED BY <2>1, <2>2 DEF Subscriptions
<1>6. /\ w.status = Pick("status") /\ w.tier = Pick("tier") /\ w.attempts = Pick("attempts")
      /\ w.due = Pick("due") /\ w.customer = Pick("customer")
  <2> HIDE DEF w, Pick
  <2> QED BY <1>2
<1> QED BY <1>4, <1>5, <1>6

(* Time, tiers and the types of amounts.                                   *)
LEMMA BillTypes ==
  ASSUME Rows
  PROVE  /\ now \in Nat /\ MaxTime \in Nat /\ MaxAttempts \in Nat \ {0}
         /\ \A d \in Int : Within(d) \in Int
         /\ sub.tier \in Tiers /\ sub.attempts \in Nat
         /\ sub.due \in Int /\ sub.ref \in Refs \cup {NoRef}
         /\ sub.customer \in BOOLEAN /\ Period \in Nat
<1>1. sub.customer \in BOOLEAN
  BY DEF Rows, Subscriptions
<1> QED BY <1>1, BillingConstants DEF Rows, Within, Subscriptions

(* Initially there is no subscription, or its tier is paid for; nothing is *)
(* queued.                                                                 *)
LEMMA BillInitial == BillInit => BillInv
<1> SUFFICES ASSUME BillInit PROVE BillInv
  OBVIOUS
<1>1. Within(Period) \in Int
  BY BillingConstants DEF Within
<1>2. /\ sub \in Subscriptions /\ plan \in Tiers /\ sub.attempts = 0 /\ sub.status # "attention"
      /\ sub.status = "none" => sub = NoSub
      /\ ~sub.customer => plan = "free" /\ sub.due = Never
      /\ plan = sub.tier
  <2>1. CASE NewTenant
    BY <2>1 DEF NewTenant, NoSub, Subscriptions, Tiers, Never
  <2>2. CASE Subscribed
    <3>1. PICK t \in PaidTiers :
            /\ sub = [status |-> "active", tier |-> t, attempts |-> 0, due |-> Within(Period),
                      ref |-> NoRef, customer |-> TRUE, coded |-> TRUE]
            /\ plan = t
      BY <2>2 DEF Subscribed
    <3> QED BY <1>1, <3>1 DEF Subscriptions, Tiers
  <2> QED BY <2>1, <2>2 DEF BillInit
<1>3. Rows
  <2>1. hook = [h \in Hooks |-> hook[h]]
    BY DEF BillInit
  <2>2. raced \in BOOLEAN /\ recent \in BOOLEAN
    BY DEF BillInit
  <2>3. now \in 0 .. MaxTime
    BY BillingConstants DEF BillInit
  <2>4. usedUp \subseteq Keys /\ charged \subseteq Refs
    BY DEF BillInit
  <2> QED BY <1>2, <2>1, <2>2, <2>3, <2>4 DEF Rows
<1>4. \A k \in Keys : jobs[k].status = "ABSENT" /\ jobs[k].tries = 0
  BY DEF BillInit, NoJob
<1>5. charge.key = NoRef /\ charge.answer = "none"
  BY DEF BillInit, Idle
<1>6. jobs \in [Keys -> JobRows]
  BY DEF BillInit, NoJob, JobRows
<1>7. JobsFit
  BY <1>4, <1>5, <1>6, KeyFacts, BillInit DEF JobsFit, BillInit, Idle
<1>8. RoundFits
  BY <1>2, <1>4, KeyFacts DEF RoundFits, RetryIsQueued
<1>9. HooksFit /\ PlanFollowsTier
  BY <1>2 DEF BillInit, HooksFit, PlanFollowsTier
<1>10. NewcomerFits
  BY <1>2, <1>4 DEF BillInit, NewcomerFits
<1> QED BY <1>3, <1>7, <1>8, <1>9, <1>10 DEF BillInv

-----------------------------------------------------------------------------
(* One job changes its row, and the transaction that holds the             *)
(* subscription goes with it.                                              *)
LEMMA JobMoves ==
  ASSUME BillInv, NEW k \in Keys, NEW row \in JobRows,
         jobs' = [jobs EXCEPT ![k] = row],
         row.tries <= JobAttempts[k.kind],
         row.status = "PENDING" => row.tries < JobAttempts[k.kind],
         charge' \in [key: Keys \cup {NoRef}, answer: {"none", "success", "declined"}],
         charge'.key = NoRef => charge' = Idle,
         charge'.key = k <=> row.status = "RUNNING",
         \A q \in Keys \ {k} : charge'.key = q <=> charge.key = q
  PROVE  JobsFit'
<1>1. JobsFit
  BY DEF BillInv
<1>2. jobs' \in [Keys -> JobRows] /\ jobs'[k] = row /\ \A q \in Keys \ {k} : jobs'[q] = jobs[q]
  BY <1>1 DEF JobsFit
<1>3. ASSUME NEW q \in Keys
      PROVE  /\ jobs'[q].tries <= JobAttempts[q.kind]
             /\ jobs'[q].status = "PENDING" => jobs'[q].tries < JobAttempts[q.kind]
             /\ jobs'[q].status = "RUNNING" <=> charge'.key = q
  <2>1. CASE q = k
    BY <1>2, <2>1
  <2>2. CASE q # k
    BY <1>1, <1>2, <2>2 DEF JobsFit
  <2> QED BY <2>1, <2>2
<1> QED BY <1>2, <1>3 DEF JobsFit

(* Who keeps the count of the round and the jobs that wait, or ends the    *)
(* round, keeps its retry queued.                                          *)
LEMMA RoundKept ==
  ASSUME BillInv, usedUp \subseteq usedUp', sub'.attempts = sub.attempts,
         sub'.status = "attention" => sub.status = "attention",
         \A n \in 1 .. MaxAttempts : Dunning(n) \notin usedUp' =>
           /\ jobs'[Dunning(n)].status # "ABSENT" => jobs[Dunning(n)].status # "ABSENT"
           /\ sub'.status = "attention" /\ jobs[Dunning(n)].status \in Queued
                => jobs'[Dunning(n)].status \in Queued
  PROVE  RoundFits'
<1>1. RoundFits /\ Rows
  BY DEF BillInv
<1>2. sub.attempts \in Nat /\ MaxAttempts \in Nat
  BY <1>1, BillTypes
<1>3. ASSUME NEW n \in 1 .. MaxAttempts, Dunning(n) \notin usedUp',
             jobs'[Dunning(n)].status # "ABSENT"
      PROVE  n <= sub'.attempts + 1
  BY <1>1, <1>3 DEF RoundFits
<1>4. RetryIsQueued'
  <2> SUFFICES ASSUME sub'.status = "attention", sub'.attempts < MaxAttempts,
                      Dunning(sub'.attempts + 1) \notin usedUp'
               PROVE  jobs'[Dunning(sub'.attempts + 1)].status \in Queued
    BY DEF RetryIsQueued, Queued, Dunning
  <2>1. sub.attempts + 1 \in 1 .. MaxAttempts
    BY <1>2
  <2>2. jobs[Dunning(sub.attempts + 1)].status \in Queued
    BY <1>1 DEF RoundFits, RetryIsQueued, Queued
  <2> QED BY <2>1, <2>2
<1> QED BY <1>3, <1>4 DEF RoundFits, Dunning

(* With the last attempt counted no retry is due.                          *)
LEMMA RoundOver ==
  ASSUME sub'.attempts \in Nat, sub'.attempts >= MaxAttempts
  PROVE  RoundFits'
<1>1. MaxAttempts \in Nat
  BY BillingConstants
<1>2. \A n \in 1 .. MaxAttempts : n <= sub'.attempts + 1
  BY <1>1
<1>3. ~(sub'.attempts < MaxAttempts)
  BY <1>1
<1> QED BY <1>2, <1>3 DEF RoundFits, RetryIsQueued, Dunning

-----------------------------------------------------------------------------
(* The next retry is queued under a key that is fresh, or used up.         *)
LEMMA RetryScheduled ==
  ASSUME BillInv, NEW js \in [Keys -> JobRows], NEW attempt \in Nat,
         jobs' = WithRetry(js, attempt), attempt \in 1 .. MaxAttempts - 1, sub'.attempts = attempt,
         \A q \in Keys : /\ js[q].tries <= JobAttempts[q.kind]
                         /\ js[q].status = "PENDING" => js[q].tries < JobAttempts[q.kind]
                         /\ js[q].status # "RUNNING"
                         /\ js[q].status # "ABSENT" => jobs[q].status # "ABSENT",
         charge' = Idle,
         usedUp' = IF attempt = sub.attempts + 1 THEN usedUp ELSE usedUp \cup Taken
  PROVE  JobsFit' /\ RoundFits'
<1>1. Rows /\ RoundFits
  BY DEF BillInv
<1> DEFINE next == Dunning(attempt + 1)
           at == now + RetryDays[attempt]
<1>2. sub.attempts \in Nat /\ MaxAttempts \in Nat /\ now \in Nat
  BY <1>1, BillTypes
<1>3. jobs' = Enqueued(js, next, at) /\ attempt + 1 \in 1 .. MaxAttempts
  BY <1>2 DEF WithRetry, RetryKey
<1>4. next \in Keys /\ JobAttempts[next.kind] \in Nat \ {0}
  BY <1>2, <1>3, KeyFacts
<1>5. at \in Nat
  <2>0. attempt < MaxAttempts /\ MaxAttempts <= Len(RetryDays) /\ Len(RetryDays) \in Nat
    BY <1>2, BillingConstants
  <2>1. attempt \in 1 .. Len(RetryDays)
    BY <1>2, <2>0
  <2>2. RetryDays[attempt] \in Nat
    BY <2>1, BillingConstants
  <2> QED BY <1>2, <2>2
<1> HIDE DEF at
<1>6. /\ jobs' \in [Keys -> JobRows]
      /\ \A q \in Keys \ {next} : jobs'[q] = js[q]
      /\ js[next].status = "ABSENT" =>
           jobs'[next].status = "PENDING" /\ jobs'[next].tries = 0
      /\ js[next].status # "ABSENT" => jobs'[next] = js[next]
  BY <1>3, <1>4, <1>5 DEF Enqueued, JobRows
<1>7. JobsFit'
  <2>1. ASSUME NEW q \in Keys
        PROVE  /\ jobs'[q].tries <= JobAttempts[q.kind]
               /\ jobs'[q].status = "PENDING" => jobs'[q].tries < JobAttempts[q.kind]
               /\ jobs'[q].status # "RUNNING"
    BY <1>4, <1>6
  <2>2. charge'.key = NoRef /\ charge' \in [key: Keys \cup {NoRef}, answer: {"none", "success", "declined"}]
    BY DEF Idle
  <2> QED BY <1>6, <2>1, <2>2, KeyFacts DEF JobsFit, Idle
<1>8. ASSUME NEW n \in 1 .. MaxAttempts, Dunning(n) \notin usedUp', jobs[Dunning(n)].status # "ABSENT"
      PROVE  attempt = sub.attempts + 1 /\ n <= attempt
  <2>1. Dunning(n) \in Keys /\ Dunning(n).kind = "dunning"
    BY KeyFacts
  <2>2. CASE attempt = sub.attempts + 1
    BY <1>1, <1>8, <2>2 DEF RoundFits
  <2>3. CASE attempt # sub.attempts + 1
    BY <1>8, <2>1, <2>3 DEF Taken
  <2> QED BY <2>2, <2>3
<1>9. RoundFits'
  <2>1. ASSUME NEW n \in 1 .. MaxAttempts, Dunning(n) \notin usedUp', jobs'[Dunning(n)].status # "ABSENT"
        PROVE  n <= attempt + 1
    <3>1. CASE Dunning(n) = next
      BY <1>2, <3>1, KeyFacts
    <3>2. CASE Dunning(n) # next
      <4>1. jobs[Dunning(n)].status # "ABSENT"
        BY <1>6, <2>1, <3>2, KeyFacts
      <4> QED BY <1>2, <1>8, <2>1, <4>1
    <3> QED BY <3>1, <3>2
  <2>2. next \notin usedUp' => jobs'[next].status = "PENDING"
    <3> SUFFICES ASSUME next \notin usedUp' PROVE js[next].status = "ABSENT"
      BY <1>6
    <3>1. ~(attempt + 1 <= attempt)
      BY <1>2
    <3>2. jobs[next].status = "ABSENT"
      BY <1>3, <1>8, <3>1
    <3> QED BY <1>4, <3>2
  <2>3. RetryIsQueued'
    BY <2>2 DEF RetryIsQueued, Dunning
  <2> QED BY <2>1, <2>3 DEF RoundFits, Dunning
<1> QED BY <1>7, <1>9

(* A job given back, or given up after its last try.                       *)
LEMMA FailedJobFits ==
  ASSUME BillInv, NEW k \in Keys
  PROVE  LET row == FailedJob(k, jobs[k])
         IN  /\ row \in JobRows /\ row.tries <= JobAttempts[k.kind]
             /\ row.status = "PENDING" => row.tries < JobAttempts[k.kind]
             /\ row.status \in {"PENDING", "DEAD_LETTER"}
<1>1. /\ jobs[k] \in JobRows /\ jobs[k].tries <= JobAttempts[k.kind] /\ now \in Nat
      /\ JobAttempts[k.kind] \in Nat \ {0}
  BY KeyFacts, BillTypes DEF BillInv, JobsFit
<1>2. CASE jobs[k].tries >= JobAttempts[k.kind]
  BY <1>1, <1>2 DEF FailedJob, JobRows
<1>3. CASE ~(jobs[k].tries >= JobAttempts[k.kind])
  BY <1>1, <1>3 DEF FailedJob, JobRows
<1> QED BY <1>2, <1>3

(* A job that has ended.                                                   *)
LEMMA DoneFits ==
  ASSUME BillInv, NEW k \in Keys
  PROVE  /\ Done(jobs[k]) \in JobRows /\ Done(jobs[k]).tries = 0
         /\ Done(jobs[k]).status = "COMPLETED" /\ 0 <= JobAttempts[k.kind]
<1>1. now \in Nat /\ JobAttempts[k.kind] \in Nat \ {0}
  BY KeyFacts, BillTypes DEF BillInv
<1> QED BY <1>1 DEF Done, JobRows

-----------------------------------------------------------------------------
-----------------------------------------------------------------------------
(* A tenant with jobs has paid.                                            *)
LEMMA JobsArePaid ==
  ASSUME BillInv
  PROVE  /\ \A k \in Keys : jobs[k].status # "ABSENT" => sub.customer
         /\ sub.customer => sub.status # "none"
         /\ sub.due \in 0 .. now => sub.customer
<1>1. NewcomerFits /\ now \in Nat
  BY BillTypes DEF BillInv
<1>2. ~NoSub.customer
  BY DEF NoSub
<1> QED BY <1>1, <1>2 DEF NewcomerFits, Never

(* What handlers have read still fits a row that is no less paid than it   *)
(* was, whoever of them has ended.                                         *)
LEMMA HooksKept ==
  ASSUME BillInv, hook' = [h \in Hooks |-> hook'[h]],
         \A h \in Hooks : hook'[h] \in {hook[h], NoHook},
         sub.customer => sub'.customer,
         sub.status # "none" => sub'.status # "none"
  PROVE  HooksFit'
<1> SUFFICES ASSUME NEW h \in Hooks, hook'[h] # NoHook
             PROVE  HookFits(hook[h]) /\ Meets(hook[h])' /\ hook'[h] = hook[h]
  BY DEF HooksFit, HookFits
<1>1. hook'[h] = hook[h] /\ HookFits(hook[h]) /\ Meets(hook[h])
  BY DEF BillInv, HooksFit
<1> QED BY <1>1 DEF Meets

(* A step of a tenant that has paid, which leaves the subscription, the    *)
(* handlers and their history as they are.                                 *)
LEMMA RowsKept ==
  ASSUME BillInv, UNCHANGED <<sub, plan, recent, hook, now, raced>>, sub.customer,
         charged' \subseteq Refs, usedUp' \subseteq Keys
  PROVE  Rows' /\ HooksFit' /\ NewcomerFits' /\ PlanFollowsTier'
<1>1. Rows' /\ PlanFollowsTier'
  BY DEF BillInv, Rows, PlanFollowsTier
<1>2. HooksFit'
  BY DEF BillInv, HooksFit, HookFits, Meets
<1>3. NewcomerFits'
  BY DEF BillInv, NewcomerFits
<1> QED BY <1>1, <1>2, <1>3

(* Retention deletes an ended job.                                         *)
LEMMA PurgeKeeps == ASSUME BillInv, NEW k \in Keys, Purge(k) PROVE BillInv'
<1>1. /\ JobsFit /\ Rows /\ sub \in Subscriptions /\ sub.attempts \in Nat
      /\ jobs \in [Keys -> JobRows]
  BY BillTypes DEF BillInv, Rows, JobsFit
<1>2. /\ jobs[k].status \in {"COMPLETED", "DEAD_LETTER"}
      /\ jobs' = [jobs EXCEPT ![k] = NoJob]
      /\ usedUp' = IF jobs[k].status = "DEAD_LETTER" /\ k.kind = "dunning" THEN usedUp \cup {k} ELSE usedUp
      /\ UNCHANGED <<sub, plan, recent, charge, charged, hook, now, raced>>
  BY BillingConstants DEF Purge
<1>3. NoJob \in JobRows /\ NoJob.tries = 0 /\ NoJob.status = "ABSENT"
  BY DEF NoJob, JobRows
<1>4. Rows' /\ HooksFit' /\ NewcomerFits' /\ PlanFollowsTier'
  BY <1>1, <1>2, RowsKept, JobsArePaid DEF Rows, JobsFit
<1>5. JobsFit'
  <2>1. charge.key # k
    BY <1>1, <1>2 DEF JobsFit
  <2>2. NoJob.tries <= JobAttempts[k.kind]
    BY <1>3, KeyFacts
  <2> QED BY <1>1, <1>2, <1>3, <2>1, <2>2, JobMoves DEF JobsFit, Idle
<1>6. RoundFits'
  <2>1. usedUp \subseteq usedUp'
    BY <1>2
  <2>2. ASSUME NEW n \in 1 .. MaxAttempts, Dunning(n) \notin usedUp'
        PROVE  /\ jobs'[Dunning(n)].status # "ABSENT" => jobs[Dunning(n)].status # "ABSENT"
               /\ jobs[Dunning(n)].status \in Queued => jobs'[Dunning(n)].status \in Queued
    <3>1. CASE Dunning(n) = k
      BY <1>1, <1>2, <1>3, <2>2, <3>1, KeyFacts DEF Queued
    <3>2. CASE Dunning(n) # k
      BY <1>1, <1>2, <3>2
    <3> QED BY <3>1, <3>2
  <2> QED BY <1>1, <1>2, <2>1, <2>2, RoundKept
<1> QED BY <1>4, <1>5, <1>6 DEF BillInv

(* The sweep queues a renewal.                                             *)
LEMMA SweepKeeps == ASSUME BillInv, Sweep PROVE BillInv'
<1> DEFINE k == Renewal(now)
           row == [status |-> "PENDING", at |-> now, tries |-> 0]
<1>1. /\ JobsFit /\ Rows /\ sub \in Subscriptions /\ sub.attempts \in Nat
      /\ jobs \in [Keys -> JobRows] /\ now \in Nat /\ now \in 0 .. MaxTime
  BY BillTypes DEF BillInv, Rows, JobsFit
<1>2. /\ k \in Keys /\ JobAttempts[k.kind] \in Nat \ {0} /\ \A n \in Nat : k # Dunning(n)
  BY <1>1, KeyFacts
<1>3. /\ jobs[k].status = "ABSENT" /\ jobs' = [jobs EXCEPT ![k] = row] /\ sub.due \in 0 .. now
      /\ UNCHANGED <<sub, plan, recent, charge, charged, hook, now, raced, usedUp>>
  BY DEF Sweep, Enqueued
<1>4. row \in JobRows /\ row.tries = 0 /\ row.status = "PENDING"
  BY <1>1 DEF JobRows
<1> HIDE DEF k, row
<1>5. Rows' /\ HooksFit' /\ NewcomerFits' /\ PlanFollowsTier'
  BY <1>1, <1>3, RowsKept, JobsArePaid DEF Rows, JobsFit
<1>6. JobsFit'
  <2>1. charge.key # k
    BY <1>1, <1>2, <1>3 DEF JobsFit
  <2>2. row.tries < JobAttempts[k.kind]
    BY <1>2, <1>4
  <2> QED BY <1>1, <1>2, <1>3, <1>4, <2>1, <2>2, JobMoves DEF JobsFit, Idle
<1>7. RoundFits'
  <2>1. ASSUME NEW n \in 1 .. MaxAttempts
        PROVE  jobs'[Dunning(n)] = jobs[Dunning(n)]
    BY <1>1, <1>2, <1>3
  <2> QED BY <1>1, <1>3, <2>1, RoundKept
<1> QED BY <1>5, <1>6, <1>7 DEF BillInv

(* A renewal that is not wanted any more.                                  *)
LEMMA SkipRenewalKeeps == ASSUME BillInv, NEW k \in Keys, SkipRenewal(k) PROVE BillInv'
<1>1. /\ JobsFit /\ Rows /\ sub \in Subscriptions /\ sub.attempts \in Nat
      /\ jobs \in [Keys -> JobRows]
  BY BillTypes DEF BillInv, Rows, JobsFit
<1>2. PICK row : row = Done(jobs[k])
  OBVIOUS
<1>3. /\ jobs[k].status = "PENDING" /\ k.kind = "renewal"
      /\ jobs' = [jobs EXCEPT ![k] = row]
      /\ UNCHANGED <<sub, plan, recent, charge, charged, hook, now, raced, usedUp>>
  BY <1>2 DEF SkipRenewal, Ready
<1>4. row \in JobRows /\ row.tries = 0 /\ row.status = "COMPLETED" /\ 0 <= JobAttempts[k.kind]
  BY <1>2, DoneFits
<1>5. Rows' /\ HooksFit' /\ NewcomerFits' /\ PlanFollowsTier'
  BY <1>1, <1>3, RowsKept, JobsArePaid DEF Rows, JobsFit
<1>6. JobsFit'
  <2>1. charge.key # k
    BY <1>1, <1>3 DEF JobsFit
  <2> QED BY <1>1, <1>3, <1>4, <2>1, JobMoves DEF JobsFit, Idle
<1>7. RoundFits'
  <2>1. ASSUME NEW n \in 1 .. MaxAttempts
        PROVE  jobs'[Dunning(n)] = jobs[Dunning(n)]
    BY <1>1, <1>3, KeyFacts
  <2> QED BY <1>1, <1>3, <2>1, RoundKept
<1> QED BY <1>5, <1>6, <1>7 DEF BillInv

(* A job takes the lock.                                                   *)
LEMMA StartChargeKeeps == ASSUME BillInv, NEW k \in Keys, StartCharge(k) PROVE BillInv'
<1>0. jobs[k].tries + 1 \in Nat
  BY DEF BillInv, JobsFit, JobRows
<1> PICK t \in Nat : t = jobs[k].tries + 1
  BY <1>0
<1> DEFINE row == [jobs[k] EXCEPT !.status = "RUNNING", !.tries = t]
<1>1. /\ JobsFit /\ Rows /\ sub \in Subscriptions /\ sub.attempts \in Nat
      /\ jobs \in [Keys -> JobRows] /\ jobs[k] \in JobRows
  BY BillTypes DEF BillInv, Rows, JobsFit
<1>2. /\ jobs[k].status = "PENDING" /\ charge = Idle
      /\ charge' = [key |-> k, answer |-> "none"]
      /\ UNCHANGED <<sub, plan, recent, charged, hook, now, raced, usedUp>>
  BY DEF StartCharge, Ready, Unlocked
<1>3. jobs' = [jobs EXCEPT ![k] = row]
  BY <1>1 DEF StartCharge
<1>4. row \in JobRows /\ row.tries = jobs[k].tries + 1 /\ row.status = "RUNNING"
  BY <1>1 DEF JobRows
<1> HIDE DEF row
<1>5. Rows' /\ HooksFit' /\ NewcomerFits' /\ PlanFollowsTier'
  BY <1>1, <1>2, RowsKept, JobsArePaid DEF Rows, JobsFit
<1>6. JobsFit'
  <2>1. row.tries <= JobAttempts[k.kind]
    BY <1>1, <1>2, <1>4, KeyFacts DEF JobsFit, JobRows
  <2>2. /\ charge'.key = k /\ charge.key = NoRef /\ NoRef \notin Keys
        /\ charge' \in [key: Keys \cup {NoRef}, answer: {"none", "success", "declined"}]
    BY <1>2, KeyFacts DEF Idle
  <2> QED BY <1>1, <1>3, <1>4, <2>1, <2>2, JobMoves
<1>7. RoundFits'
  <2>1. ASSUME NEW n \in 1 .. MaxAttempts
        PROVE  /\ jobs'[Dunning(n)].status # "ABSENT" => jobs[Dunning(n)].status # "ABSENT"
               /\ jobs[Dunning(n)].status \in Queued => jobs'[Dunning(n)].status \in Queued
    <3>1. CASE Dunning(n) = k
      BY <1>1, <1>2, <1>3, <1>4, <3>1 DEF Queued
    <3>2. CASE Dunning(n) # k
      BY <1>1, <1>3, <3>2
    <3> QED BY <3>1, <3>2
  <2> QED BY <1>1, <1>2, <2>1, RoundKept
<1> QED BY <1>5, <1>6, <1>7 DEF BillInv

(* The provider answers.                                                   *)
LEMMA AskProviderKeeps == ASSUME BillInv, NEW k \in Keys, AskProvider(k) PROVE BillInv'
<1>1. /\ JobsFit /\ Rows /\ sub \in Subscriptions /\ sub.attempts \in Nat /\ charged \subseteq Refs
      /\ k \in Refs /\ k # NoRef
  BY BillTypes, KeyFacts DEF BillInv, Rows
<1>2. /\ charge = [key |-> k, answer |-> "none"]
      /\ UNCHANGED <<sub, plan, recent, jobs, hook, now, raced, usedUp>>
  BY DEF AskProvider
<1>3. PICK answer \in {"success", "declined"} : charge' = [charge EXCEPT !.answer = answer]
  BY DEF AskProvider
<1>4. charged' \subseteq Refs
  BY <1>1 DEF AskProvider
<1>5. Rows' /\ HooksFit' /\ NewcomerFits' /\ PlanFollowsTier'
  BY <1>1, <1>2, <1>4, RowsKept, JobsArePaid DEF Rows, JobsFit
<1>6. JobsFit'
  <2>1. charge' = [key |-> k, answer |-> answer] /\ charge'.key = charge.key /\ charge'.key # NoRef
    BY <1>1, <1>2, <1>3
  <2> QED BY <1>1, <1>2, <2>1 DEF JobsFit
<1>7. RoundFits'
  BY <1>1, <1>2, RoundKept
<1> QED BY <1>5, <1>6, <1>7 DEF BillInv

(* A charge that fails gives its job back.                                 *)
LEMMA ChargeFailsKeeps == ASSUME BillInv, NEW k \in Keys, ChargeFails(k) PROVE BillInv'
<1>1. /\ JobsFit /\ Rows /\ sub \in Subscriptions /\ sub.attempts \in Nat /\ charged \subseteq Refs
      /\ jobs \in [Keys -> JobRows]
  BY BillTypes DEF BillInv, Rows, JobsFit
<1>2. PICK row : row = FailedJob(k, jobs[k])
  OBVIOUS
<1>3. /\ charge.key = k /\ charge' = Idle /\ jobs' = [jobs EXCEPT ![k] = row]
      /\ UNCHANGED <<sub, plan, recent, charged, hook, now, raced, usedUp>>
  BY <1>2 DEF ChargeFails, Finish
<1>4. /\ row \in JobRows /\ row.tries <= JobAttempts[k.kind]
      /\ row.status = "PENDING" => row.tries < JobAttempts[k.kind]
      /\ row.status \in {"PENDING", "DEAD_LETTER"}
  BY <1>2, FailedJobFits
<1>5. Rows' /\ HooksFit' /\ NewcomerFits' /\ PlanFollowsTier'
  BY <1>1, <1>3, RowsKept, JobsArePaid DEF Rows, JobsFit
<1>6. jobs[k].status = "RUNNING"
  BY <1>1, <1>3 DEF JobsFit
<1>7. JobsFit'
  <2>1. charge'.key = NoRef /\ NoRef \notin Keys
        /\ charge' \in [key: Keys \cup {NoRef}, answer: {"none", "success", "declined"}]
    BY <1>3, KeyFacts DEF Idle
  <2> QED BY <1>1, <1>3, <1>4, <2>1, JobMoves
<1>8. RoundFits'
  <2>1. ASSUME NEW n \in 1 .. MaxAttempts
        PROVE  /\ jobs'[Dunning(n)].status # "ABSENT" => jobs[Dunning(n)].status # "ABSENT"
               /\ jobs[Dunning(n)].status \in Queued => jobs'[Dunning(n)].status \in Queued
    <3>1. CASE Dunning(n) = k
      BY <1>1, <1>3, <1>4, <1>6, <3>1 DEF Queued
    <3>2. CASE Dunning(n) # k
      BY <1>1, <1>3, <3>2
    <3> QED BY <3>1, <3>2
  <2> QED BY <1>1, <1>3, <2>1, RoundKept
<1> QED BY <1>5, <1>7, <1>8 DEF BillInv

(* The row after a charge.                                                 *)
LEMMA PaidFits ==
  ASSUME BillInv, NEW k \in Keys
  PROVE  /\ Paid(k) \in Subscriptions /\ Paid(k).tier = sub.tier
         /\ Paid(k).status = sub.status /\ Paid(k).attempts = sub.attempts
         /\ Paid(k).customer = sub.customer
<1>1. Rows /\ sub \in Subscriptions /\ k \in Refs
  BY KeyFacts DEF BillInv, Rows
<1>2. PICK d \in Int : d = NextDue(sub.due)
  <2>0. sub.due \in Int /\ now \in Int /\ Period \in Int
    BY <1>1, BillTypes
  <2>1. sub.due + Period \in Int /\ now + Period \in Int
    BY <2>0
  <2>2. NextDue(sub.due) \in Int
    BY <1>1, <2>1, BillTypes DEF NextDue
  <2> QED BY <2>2
<1>3. Paid(k) = IF sub.ref = k THEN sub ELSE [sub EXCEPT !.due = d, !.ref = k]
  BY <1>2 DEF Paid
<1> QED BY <1>1, <1>3 DEF Subscriptions

(* The row after a failure.                                                *)
LEMMA FailedFits ==
  ASSUME BillInv
  PROVE  /\ Failed(sub) \in Subscriptions /\ Failed(sub).attempts = sub.attempts + 1
         /\ Failed(sub).customer = sub.customer /\ Failed(sub).due = sub.due
         /\ Failed(sub).status = IF LastFailure(sub) THEN "cancelled" ELSE "attention"
         /\ Failed(sub).tier = IF LastFailure(sub) THEN "free" ELSE sub.tier
<1>1. sub \in Subscriptions /\ sub.attempts + 1 \in Nat
  BY BillTypes DEF BillInv, Rows
<1>2. PICK n \in Nat : n = sub.attempts + 1
  BY <1>1
<1>3. Failed(sub) = IF LastFailure(sub)
                    THEN [sub EXCEPT !.attempts = n, !.status = "cancelled", !.tier = "free"]
                    ELSE [sub EXCEPT !.attempts = n, !.status = "attention"]
  BY <1>1, <1>2 DEF Failed, Subscriptions
<1> QED BY <1>1, <1>2, <1>3 DEF Subscriptions, Tiers

(* A charge that is paid, of a renewal or of a retry.                      *)
LEMMA ChargePaidKeeps == ASSUME BillInv, NEW k \in Keys, ChargePaid(k) PROVE BillInv'
<1>1. /\ JobsFit /\ Rows /\ sub \in Subscriptions /\ sub.attempts \in Nat /\ sub.tier \in Tiers
      /\ jobs \in [Keys -> JobRows] /\ PlanFollowsTier /\ hook = [h \in Hooks |-> hook[h]]
  BY BillTypes DEF BillInv, Rows, JobsFit
<1>2. PICK row : row = Done(jobs[k])
  OBVIOUS
<1>3. /\ charge.key = k /\ charge' = Idle /\ jobs' = [jobs EXCEPT ![k] = row]
      /\ UNCHANGED <<charged, hook, now>>
  BY <1>2 DEF ChargePaid, Finish
<1>4. row \in JobRows /\ row.tries = 0 /\ row.status = "COMPLETED" /\ 0 <= JobAttempts[k.kind]
  BY <1>2, DoneFits
<1>5. jobs[k].status = "RUNNING"
  BY <1>1, <1>3 DEF JobsFit
<1>6a. sub.customer /\ sub.status # "none"
  BY <1>5, JobsArePaid
<1>6. JobsFit'
  <2>1. charge'.key = NoRef /\ NoRef \notin Keys
        /\ charge' \in [key: Keys \cup {NoRef}, answer: {"none", "success", "declined"}]
    BY <1>3, KeyFacts DEF Idle
  <2> QED BY <1>1, <1>3, <1>4, <2>1, JobMoves
<1>8. CASE k.kind = "renewal"
  <2>1. sub' = Paid(k) /\ UNCHANGED <<plan, raced, recent, usedUp>>
    BY <1>8 DEF ChargePaid
  <2>0. HooksFit' /\ NewcomerFits'
    BY <1>1, <1>3, <1>6a, <2>1, PaidFits, HooksKept DEF NewcomerFits
  <2>2. Rows' /\ PlanFollowsTier'
    BY <1>1, <1>3, <2>1, PaidFits DEF Rows, PlanFollowsTier
  <2>3. ASSUME NEW n \in 1 .. MaxAttempts
        PROVE  jobs'[Dunning(n)] = jobs[Dunning(n)]
    BY <1>1, <1>3, <1>8, KeyFacts
  <2>4. RoundFits'
    BY <1>1, <2>1, <2>3, PaidFits, RoundKept
  <2> QED BY <1>6, <2>0, <2>2, <2>4 DEF BillInv
<1>9. CASE k.kind # "renewal"
  <2>1. /\ sub' = [Paid(k) EXCEPT !.status = "active", !.attempts = 0]
        /\ plan' = sub.tier /\ raced' = FALSE /\ recent' = FALSE
        /\ usedUp' = usedUp \cup Taken
    BY <1>9 DEF ChargePaid
  <2>2. /\ sub' \in Subscriptions /\ sub'.tier = sub.tier /\ sub'.status = "active"
        /\ sub'.attempts = 0 /\ sub'.customer = sub.customer
    <3>1. PICK paid \in Subscriptions :
            paid = Paid(k) /\ paid.tier = sub.tier /\ paid.customer = sub.customer
      BY PaidFits
    <3> QED BY <2>1, <3>1 DEF Subscriptions
  <2>0. HooksFit' /\ NewcomerFits'
    BY <1>1, <1>3, <1>6a, <2>2, HooksKept DEF NewcomerFits
  <2>3. Rows' /\ PlanFollowsTier'
    BY <1>1, <1>3, <2>1, <2>2 DEF Rows, PlanFollowsTier, Taken
  <2>4. RoundFits'
    <3>1. ASSUME NEW n \in 1 .. MaxAttempts, Dunning(n) \notin usedUp',
                 jobs'[Dunning(n)].status # "ABSENT"
          PROVE  FALSE
      <4>1. jobs[Dunning(n)].status = "ABSENT"
        BY <2>1, <3>1, KeyFacts DEF Taken
      <4>2. Dunning(n) # k
        BY <1>5, <4>1
      <4> QED BY <1>1, <1>3, <3>1, <4>1, <4>2, KeyFacts
    <3> QED BY <2>2, <3>1 DEF RoundFits, RetryIsQueued, Dunning
  <2> QED BY <1>6, <2>0, <2>3, <2>4 DEF BillInv
<1> QED BY <1>8, <1>9

(* A retry that is declined.                                               *)
LEMMA RetryDeclinedKeeps == ASSUME BillInv, NEW k \in Keys, RetryDeclined(k) PROVE BillInv'
<1>1. /\ JobsFit /\ Rows /\ sub \in Subscriptions /\ sub.attempts \in Nat /\ plan \in Tiers
      /\ jobs \in [Keys -> JobRows] /\ PlanFollowsTier /\ hook = [h \in Hooks |-> hook[h]]
      /\ MaxAttempts \in Nat
  BY BillTypes DEF BillInv, Rows, JobsFit
<1>2. /\ charge.key = k /\ charge' = Idle /\ UNCHANGED <<charged, hook, now, usedUp>>
      /\ sub' = Failed(sub) /\ recent' = TRUE
  BY DEF RetryDeclined, Finish
<1>3. PICK done : done = Done(jobs[k])
  OBVIOUS
<1>4. done \in JobRows /\ done.tries = 0 /\ done.status = "COMPLETED" /\ 0 <= JobAttempts[k.kind]
  BY <1>3, DoneFits
<1>5. jobs[k].status = "RUNNING"
  BY <1>1, <1>2 DEF JobsFit
<1>6. sub.customer /\ sub.status # "none"
  BY <1>5, JobsArePaid
<1>7. /\ sub' \in Subscriptions /\ sub'.attempts = sub.attempts + 1
      /\ sub'.customer = sub.customer
      /\ sub'.status = IF LastFailure(sub) THEN "cancelled" ELSE "attention"
      /\ sub'.tier = IF LastFailure(sub) THEN "free" ELSE sub.tier
  BY <1>2, FailedFits
<1>8. HooksFit' /\ NewcomerFits'
  BY <1>1, <1>2, <1>6, <1>7, HooksKept DEF NewcomerFits
<1>9. CASE ~LastFailure(sub)
  <2> DEFINE js == [jobs EXCEPT ![k] = done]
  <2>1. js \in [Keys -> JobRows] /\ js[k] = done /\ \A q \in Keys \ {k} : js[q] = jobs[q]
    BY <1>1, <1>4
  <2>2. jobs' = WithRetry(js, sub'.attempts) /\ UNCHANGED <<plan, raced>>
    BY <1>3, <1>9 DEF RetryDeclined
  <2> HIDE DEF js
  <2>3. ASSUME NEW q \in Keys
        PROVE  /\ js[q].tries <= JobAttempts[q.kind]
               /\ js[q].status = "PENDING" => js[q].tries < JobAttempts[q.kind]
               /\ js[q].status # "RUNNING"
               /\ js[q].status # "ABSENT" => jobs[q].status # "ABSENT"
    <3>1. CASE q = k
      BY <1>4, <1>5, <2>1, <3>1
    <3>2. CASE q # k
      BY <1>1, <1>2, <2>1, <3>2 DEF JobsFit
    <3> QED BY <3>1, <3>2
  <2>4. PICK n \in Nat : n = sub.attempts + 1
    BY <1>1
  <2>5. n \in 1 .. MaxAttempts - 1
    BY <1>1, <1>9, <2>4 DEF LastFailure
  <2>6. JobsFit' /\ RoundFits'
    BY <1>2, <1>7, <2>1, <2>2, <2>3, <2>4, <2>5, RetryScheduled
  <2>7. Rows' /\ PlanFollowsTier'
    BY <1>1, <1>2, <1>7, <1>9, <2>2 DEF Rows, PlanFollowsTier
  <2> QED BY <1>8, <2>6, <2>7 DEF BillInv
<1>10. CASE LastFailure(sub)
  <2>1. PICK row \in {done, FailedJob(k, jobs[k])} : jobs' = [jobs EXCEPT ![k] = row]
    BY <1>3, <1>10 DEF RetryDeclined
  <2>2. plan' = "free" /\ raced' = FALSE
    BY <1>10 DEF RetryDeclined, Downgraded
  <2>3. /\ row \in JobRows /\ row.tries <= JobAttempts[k.kind]
        /\ row.status = "PENDING" => row.tries < JobAttempts[k.kind]
        /\ row.status # "RUNNING"
    BY <1>4, <2>1, FailedJobFits
  <2>4. charge'.key = NoRef /\ NoRef \notin Keys
        /\ charge' \in [key: Keys \cup {NoRef}, answer: {"none", "success", "declined"}]
    BY <1>2, KeyFacts DEF Idle
  <2>5. JobsFit'
    BY <1>2, <2>1, <2>3, <2>4, JobMoves
  <2>6. RoundFits'
    BY <1>1, <1>7, <1>10, RoundOver DEF LastFailure
  <2>7. Rows' /\ PlanFollowsTier'
    BY <1>1, <1>2, <1>7, <1>10, <2>2, RefFacts DEF Rows, PlanFollowsTier
  <2> QED BY <1>8, <2>5, <2>6, <2>7 DEF BillInv
<1> QED BY <1>9, <1>10

-----------------------------------------------------------------------------
(* What a handler reads fits any row it may be written over.               *)
LEMMA ReadKeeps ==
  ASSUME BillInv, NEW h \in Hooks, NEW kind \in Kinds, NEW ref, NEW sets \in Tiers \cup {"none"},
         NEW new \in Subscriptions, Read(h, kind, ref, sets, new), new.status # "none",
         kind \in {"insert", "checkout"} => \E c \in Checkouts : ref = Checkout(c),
         sets # "none" => kind \in {"charge.success", "invoice"} /\ new.tier = sets,
         IF kind = "insert" THEN new.status = "active" /\ sub.status = "none"
                            ELSE sub.status # "none" /\ (sets = "none" => new.tier = sub.tier),
         IF kind = "charge.success" THEN new.customer ELSE new.customer = sub.customer,
         kind # "create" => new.due = sub.due,
         IF kind = "invoice"
         THEN new.attempts > sub.attempts /\ (sets = "none" <=> new.attempts < MaxAttempts)
         ELSE new.attempts = sub.attempts /\ new.status \in {sub.status, "active", "cancelled"},
         \/ sub.customer
         \/ kind \in {"insert", "checkout", "cancel"}
         \/ kind = "charge.success" /\ sets # "none"
  PROVE  BillInv'
<1>1. /\ JobsFit /\ Rows /\ sub \in Subscriptions /\ sub.attempts \in Nat /\ sub.tier \in Tiers
      /\ HooksFit /\ NewcomerFits /\ PlanFollowsTier /\ hook = [f \in Hooks |-> hook[f]]
      /\ MaxAttempts \in Nat /\ sub.customer \in BOOLEAN
  BY BillTypes DEF BillInv, Rows
<1>2. PICK was : was = IF sets = "none" THEN "none" ELSE sub.tier
  OBVIOUS
<1> DEFINE g == [at |-> kind, ref |-> ref, sets |-> sets, was |-> was, changes |-> Changes(new)]
<1>3. /\ hook' = [hook EXCEPT ![h] = g]
      /\ UNCHANGED <<sub, plan, recent, jobs, charge, charged, now, raced, usedUp>>
  BY <1>2 DEF Read
<1>4. g.at = kind /\ g.ref = ref /\ g.sets = sets /\ g.was = was /\ g.changes = Changes(new)
  OBVIOUS
<1> HIDE DEF g
<1>5. ASSUME NEW row \in Subscriptions
      PROVE  LET w == Flushed(row, g.changes)
             IN  /\ w \in Subscriptions
                 /\ w.status = IF new.status # sub.status THEN new.status ELSE row.status
                 /\ w.tier = IF new.tier # sub.tier THEN new.tier ELSE row.tier
                 /\ w.attempts = IF new.attempts # sub.attempts THEN new.attempts ELSE row.attempts
                 /\ w.due = IF new.due # sub.due THEN new.due ELSE row.due
                 /\ w.customer = IF new.customer # sub.customer THEN new.customer ELSE row.customer
  BY <1>1, <1>4, PatchFits
<1>6. HookFits(g)
  <2>1. ASSUME NEW row \in Subscriptions
        PROVE  LET w == Flushed(row, g.changes)
               IN  /\ w \in Subscriptions
                   /\ row.status # "none" \/ g.at = "insert" => w.status # "none"
                   /\ row.customer => w.customer
                   /\ g.at # "charge.success" => w.customer = row.customer
                   /\ g.at # "create" => w.due = row.due
                   /\ g.at # "invoice" => /\ w.attempts = row.attempts
                                         /\ w.status \in {row.status, "active", "cancelled"}
                   /\ g.at = "invoice" /\ g.sets = "none" => w.attempts \in 1 .. MaxAttempts - 1
                   /\ g.at = "invoice" /\ g.sets # "none" => w.attempts >= MaxAttempts
                   /\ g.at # "insert" /\ g.sets = "none" => w.tier = row.tier
                   /\ g.sets # "none" /\ row.tier = g.was => w.tier = g.sets
    <3> DEFINE w == Flushed(row, g.changes)
    <3>1. /\ w \in Subscriptions
          /\ w.status = IF new.status # sub.status THEN new.status ELSE row.status
          /\ w.tier = IF new.tier # sub.tier THEN new.tier ELSE row.tier
          /\ w.attempts = IF new.attempts # sub.attempts THEN new.attempts ELSE row.attempts
          /\ w.due = IF new.due # sub.due THEN new.due ELSE row.due
          /\ w.customer = IF new.customer # sub.customer THEN new.customer ELSE row.customer
      BY <1>5
    <3>2. /\ row.customer \in BOOLEAN /\ new.customer \in BOOLEAN
          /\ new.attempts \in Nat /\ row.attempts \in Nat
      BY DEF Subscriptions
    <3> HIDE DEF w
    <3>3. w.customer = row.customer \/ (kind = "charge.success" /\ (row.customer => w.customer))
      BY <1>1, <3>1, <3>2
    <3>4. kind = "invoice" => w.attempts = new.attempts /\ new.attempts > sub.attempts
      BY <1>1, <3>1, <3>2
    <3>5. kind = "invoice" => IF sets = "none" THEN w.attempts \in 1 .. MaxAttempts - 1
                                               ELSE w.attempts >= MaxAttempts
      BY <1>1, <3>2, <3>4
    <3>6. sets # "none" /\ row.tier = was => w.tier = sets
      BY <1>2, <3>1
    <3> QED BY <1>4, <3>1, <3>3, <3>4, <3>5, <3>6 DEF w
  <2>2. g.was \in Tiers \cup {"none"}
    BY <1>1, <1>2, <1>4
  <2> QED BY <1>4, <2>1, <2>2 DEF HookFits
<1>7. Meets(g)
  <2>1. ASSUME kind = "charge.success", ~sub.customer, NEW row \in Subscriptions
        PROVE  Flushed(row, g.changes).customer
    <3>1. new.customer \in BOOLEAN /\ new.customer # sub.customer
      BY <1>1, <2>1 DEF Subscriptions
    <3> QED BY <1>5, <2>1, <3>1
  <2> QED BY <1>4, <2>1 DEF Meets
<1>8. HooksFit'
  <2> SUFFICES ASSUME NEW f \in Hooks, hook'[f] # NoHook
               PROVE  HookFits(hook[f])' /\ Meets(hook[f])'
    BY DEF HooksFit
  <2>1. PICK e : e = hook'[f]
    OBVIOUS
  <2>2. HookFits(e) /\ Meets(e)
    <3>1. CASE f = h
      BY <1>1, <1>3, <1>6, <1>7, <2>1, <3>1
    <3>2. CASE f # h
      BY <1>1, <1>3, <2>1, <3>2 DEF HooksFit
    <3> QED BY <3>1, <3>2
  <2> QED BY <1>3, <2>1, <2>2 DEF HookFits, Meets
<1>9. Rows'
  BY <1>1, <1>3 DEF Rows
<1>10. JobsFit' /\ PlanFollowsTier' /\ NewcomerFits'
  BY <1>1, <1>3 DEF JobsFit, Idle, PlanFollowsTier, NewcomerFits
<1>11. RoundFits'
  BY <1>1, <1>3, RoundKept
<1> QED BY <1>8, <1>9, <1>10, <1>11 DEF BillInv

(* A handler reads the row.                                                *)
LEMMA HandlersRead ==
  ASSUME BillInv, NEW h \in Hooks,
         \/ \E ref \in Refs : ReadChargeSuccess(h, ref)
         \/ \E c \in Checkouts : ReadCheckout(h, c)
         \/ ReadCreate(h) \/ ReadCancel(h) \/ ReadInvoiceFailed(h)
  PROVE  BillInv'
<1>1. /\ sub \in Subscriptions /\ sub.tier \in Tiers /\ now \in Nat /\ Period \in Nat
      /\ sub.attempts \in Nat /\ MaxAttempts \in Nat
      /\ NewcomerFits /\ (sub.customer => sub.status # "none")
  BY BillTypes, JobsArePaid DEF BillInv, Rows
<1>2. ASSUME NEW ref \in Refs, ReadChargeSuccess(h, ref) PROVE BillInv'
  <2> DEFINE new == Activated(ref)
  <2>1. Named(ref) \in PaidTiers \cup {"none"}
    BY RefFacts
  <2>2. PICK tier \in Tiers : tier = IF Named(ref) = "none" THEN sub.tier ELSE Named(ref)
    BY <1>1, <2>1, RefFacts
  <2>3. new = [sub EXCEPT !.status = "active", !.ref = ref, !.customer = TRUE, !.tier = tier]
    BY <1>1, <2>2 DEF Activated, Subscriptions
  <2>4. /\ new \in Subscriptions /\ new.attempts = sub.attempts /\ new.status = "active"
        /\ new.tier = tier /\ new.customer = TRUE /\ new.due = sub.due
    BY <1>1, <2>3 DEF Subscriptions
  <2>5. Read(h, "charge.success", ref, Named(ref), new) /\ ref \in charged /\ sub.status # "none"
    BY <1>2 DEF ReadChargeSuccess
  <2> HIDE DEF new
  <2>6. sub.customer \/ Named(ref) # "none"
    BY <1>1, <2>5, RefFacts DEF NewcomerFits
  <2> QED BY <2>1, <2>2, <2>4, <2>5, <2>6, RefFacts, ReadKeeps DEF Kinds
<1>3. ASSUME NEW c \in Checkouts, ReadCheckout(h, c) PROVE BillInv'
  <2>1. PICK ref \in Refs : ref = Checkout(c)
    BY RefFacts
  <2>2. CASE sub.status = "none"
    <3>1. PICK t \in Tiers : t = CheckoutTier[c]
      BY BillingConstants DEF Tiers
    <3> DEFINE new == [NoSub EXCEPT !.status = "active", !.tier = t, !.ref = ref]
    <3>2. Read(h, "insert", ref, "none", new)
      BY <1>3, <2>1, <2>2, <3>1 DEF ReadCheckout
    <3>3. /\ new \in Subscriptions /\ new.status = "active" /\ new.attempts = NoSub.attempts
          /\ new.customer = NoSub.customer /\ new.due = NoSub.due
      <4>1. NoSub \in Subscriptions
        BY <1>1, <2>2 DEF NewcomerFits
      <4> QED BY <3>1, <4>1 DEF Subscriptions
    <3>4. sub = NoSub
      BY <1>1, <2>2 DEF NewcomerFits
    <3> HIDE DEF new
    <3> QED BY <2>1, <2>2, <3>2, <3>3, <3>4, ReadKeeps DEF Kinds
  <2>3. CASE sub.status # "none"
    <3> DEFINE new == [sub EXCEPT !.ref = ref]
    <3>1. Read(h, "checkout", ref, "none", new)
      BY <1>3, <2>1, <2>3 DEF ReadCheckout
    <3>2. /\ new \in Subscriptions /\ new.attempts = sub.attempts /\ new.status = sub.status
          /\ new.tier = sub.tier /\ new.customer = sub.customer /\ new.due = sub.due
      BY <1>1 DEF Subscriptions
    <3> HIDE DEF new
    <3> QED BY <2>1, <2>3, <3>1, <3>2, ReadKeeps DEF Kinds
  <2> QED BY <2>2, <2>3
<1>4. ASSUME ReadCreate(h) PROVE BillInv'
  <2>1. PICK d \in Int : d = Within(now + Period)
    <3>1. now + Period \in Int
      BY <1>1
    <3> QED BY <3>1, BillTypes DEF BillInv
  <2> DEFINE new == [sub EXCEPT !.status = "active", !.due = d, !.coded = TRUE]
  <2>2. /\ new \in Subscriptions /\ new.attempts = sub.attempts /\ new.status = "active"
        /\ new.tier = sub.tier /\ new.customer = sub.customer
    BY <1>1 DEF Subscriptions
  <2>3. Read(h, "create", NoRef, "none", new) /\ sub.customer
    BY <1>4, <2>1 DEF ReadCreate
  <2> HIDE DEF new
  <2> QED BY <1>1, <2>2, <2>3, ReadKeeps DEF Kinds
<1>5. ASSUME ReadCancel(h) PROVE BillInv'
  <2> DEFINE new == [sub EXCEPT !.status = "cancelled"]
  <2>1. /\ new \in Subscriptions /\ new.attempts = sub.attempts /\ new.status = "cancelled"
        /\ new.tier = sub.tier /\ new.customer = sub.customer /\ new.due = sub.due
    BY <1>1 DEF Subscriptions
  <2>2. Read(h, "cancel", NoRef, "none", new) /\ sub.coded
    BY <1>5 DEF ReadCancel
  <2>3. sub.status # "none"
    BY <1>1, <2>2 DEF NewcomerFits, NoSub
  <2> HIDE DEF new
  <2> QED BY <2>1, <2>2, <2>3, ReadKeeps DEF Kinds
<1>6. ASSUME ReadInvoiceFailed(h) PROVE BillInv'
  <2>1. PICK new \in Subscriptions : new = Failed(sub)
    BY FailedFits
  <2>2. /\ new.attempts = sub.attempts + 1 /\ new.customer = sub.customer /\ new.due = sub.due
        /\ new.status \in {"cancelled", "attention"}
        /\ new.tier = IF LastFailure(sub) THEN "free" ELSE sub.tier
    BY <2>1, FailedFits
  <2>3. PICK sets \in {"free", "none"} : sets = IF LastFailure(sub) THEN "free" ELSE "none"
    OBVIOUS
  <2>4. Read(h, "invoice", NoRef, sets, new) /\ sub.customer
    BY <1>6, <2>1, <2>3 DEF ReadInvoiceFailed, Downgraded
  <2>5. new.attempts > sub.attempts /\ (sets = "none" <=> new.attempts < MaxAttempts)
    BY <1>1, <2>2, <2>3 DEF LastFailure
  <2>6. /\ sets # "none" => new.tier = sets
        /\ sets = "none" => new.tier = sub.tier
    BY <2>2, <2>3
  <2> QED BY <1>1, <2>2, <2>3, <2>4, <2>5, <2>6, RefFacts, ReadKeeps DEF Kinds
<1> QED BY <1>2, <1>3, <1>4, <1>5, <1>6

-----------------------------------------------------------------------------
(* A handler writes what it has changed over the row as it is by then.     *)
LEMMA Written ==
  ASSUME BillInv, NEW h \in Hooks, Write(h),
         hook[h].at = "insert" => sub.status = "none",
         charged' \subseteq Refs, charged' \cap Keys = charged \cap Keys,
         usedUp' \subseteq Keys, recent' \in BOOLEAN,
         jobs' = jobs \/ hook[h].at = "invoice"
  PROVE  /\ Rows' /\ HooksFit' /\ NewcomerFits' /\ PlanFollowsTier'
         /\ HookFits(hook[h]) /\ charge = Idle /\ UNCHANGED charge
         /\ sub' \in Subscriptions /\ sub' = Flushed(sub, hook[h].changes)
<1>1. /\ Rows /\ sub \in Subscriptions /\ sub.tier \in Tiers /\ sub.customer \in BOOLEAN
      /\ HooksFit /\ NewcomerFits /\ PlanFollowsTier /\ hook = [f \in Hooks |-> hook[f]]
      /\ raced \in BOOLEAN /\ plan \in Tiers
  BY BillTypes DEF BillInv, Rows
<1>2. PICK g : g = hook[h]
  OBVIOUS
<1>3. HookFits(g) /\ Meets(g)
  BY <1>1, <1>2 DEF Write, HooksFit
<1>4. /\ sub' = Flushed(sub, g.changes) /\ charge = Idle
      /\ hook' = [hook EXCEPT ![h] = NoHook]
      /\ UNCHANGED <<charge, now>>
  BY <1>2 DEF Write, Unlocked
<1>5. IF g.sets = "none" THEN UNCHANGED <<plan, raced>>
                         ELSE plan' = g.sets /\ raced' = (g.was # sub.tier)
  BY <1>2 DEF Write
<1>6. /\ sub' \in Subscriptions
      /\ sub.status # "none" \/ g.at = "insert" => sub'.status # "none"
      /\ sub.customer => sub'.customer
      /\ g.at # "charge.success" => sub'.customer = sub.customer
      /\ g.at # "create" => sub'.due = sub.due
      /\ g.at # "insert" /\ g.sets = "none" => sub'.tier = sub.tier
      /\ g.sets # "none" /\ sub.tier = g.was => sub'.tier = g.sets
      /\ g.sets # "none" => g.at \in {"charge.success", "invoice"}
      /\ g.at \in Kinds /\ g.sets \in Tiers \cup {"none"}
  BY <1>1, <1>3, <1>4 DEF HookFits
<1>7. sub'.status # "none"
  BY <1>3, <1>6 DEF Meets
<1>8. ~sub'.customer => ~sub.customer /\ g.sets = "none" /\ g.at \in {"insert", "checkout", "cancel"}
  BY <1>1, <1>3, <1>4, <1>6 DEF Meets
<1>9. NewcomerFits'
  <2> SUFFICES ASSUME ~sub'.customer
               PROVE  /\ plan' = "free" /\ sub'.due = Never /\ charged' \cap Keys = {}
                      /\ \A k \in Keys : jobs'[k].status = "ABSENT"
    BY <1>7 DEF NewcomerFits, Never
  <2>1. g.at \notin {"invoice", "create"} /\ jobs' = jobs /\ plan' = plan /\ sub'.due = sub.due
    BY <1>2, <1>5, <1>6, <1>8
  <2> QED BY <1>1, <1>8, <2>1 DEF NewcomerFits
<1>10. plan' \in Tiers /\ raced' \in BOOLEAN
  BY <1>1, <1>5, <1>6
<1>11. PlanFollowsTier'
  <2>1. CASE g.at = "insert"
    <3>1. sub = NoSub /\ ~NoSub.customer
      BY <1>1, <1>2, <2>1 DEF NewcomerFits, NoSub
    <3>2. ~sub'.customer
      BY <1>6, <2>1, <3>1
    <3> QED BY <1>9, <3>2 DEF NewcomerFits, PlanFollowsTier
  <2>2. CASE g.at # "insert" /\ g.sets = "none"
    <3>1. sub'.tier = sub.tier /\ UNCHANGED <<plan, raced>>
      BY <1>5, <1>6, <2>2
    <3>2. ~sub.customer => ~sub'.customer
      BY <1>3, <1>6, <2>2 DEF Meets
    <3> QED BY <1>1, <3>1, <3>2 DEF PlanFollowsTier
  <2>3. CASE g.sets # "none"
    BY <1>5, <1>6, <2>3 DEF PlanFollowsTier
  <2> QED BY <2>1, <2>2, <2>3
<1>12. HooksFit'
  BY <1>1, <1>4, <1>6, <1>7, HooksKept
<1>13. Rows'
  BY <1>1, <1>4, <1>6, <1>10 DEF Rows
<1> QED BY <1>2, <1>3, <1>4, <1>6, <1>9, <1>11, <1>12, <1>13

(* A webhook but the invoice's, a checkout or a cancel request writes: the *)
(* count and the jobs are as they were.                                    *)
LEMMA WriteHookKeeps ==
  ASSUME BillInv, NEW h \in Hooks, WriteHook(h) \/ WriteCheckout(h)
  PROVE  BillInv'
<1>1. /\ Write(h) /\ hook[h].at # "invoice" /\ (hook[h].at = "insert" => sub.status = "none")
      /\ UNCHANGED <<recent, jobs, usedUp>> /\ hook[h] # NoHook
  BY DEF WriteHook, WriteCheckout, Write
<1>2. Rows /\ JobsFit /\ HookFits(hook[h]) /\ recent \in BOOLEAN /\ usedUp \subseteq Keys
      /\ sub \in Subscriptions
  BY <1>1 DEF BillInv, HooksFit, Rows
<1>3. charged' \subseteq Refs /\ charged' \cap Keys = charged \cap Keys
  <2>1. CASE WriteHook(h)
    BY <1>2, <2>1 DEF WriteHook, Rows
  <2>2. CASE WriteCheckout(h)
    <3>1. PICK c \in Checkouts : hook[h].ref = Checkout(c)
      BY <1>2, <2>2 DEF WriteCheckout, HookFits
    <3>2. Checkout(c) \in Refs /\ Checkout(c) \notin Keys
      BY RefFacts
    <3> QED BY <1>2, <2>2, <3>1, <3>2 DEF WriteCheckout, Rows
  <2> QED BY <2>1, <2>2
<1>4. /\ Rows' /\ HooksFit' /\ NewcomerFits' /\ PlanFollowsTier' /\ UNCHANGED charge
      /\ sub' = Flushed(sub, hook[h].changes)
  BY <1>1, <1>2, <1>3, Written
<1>5. sub'.attempts = sub.attempts /\ sub'.status \in {sub.status, "active", "cancelled"}
  BY <1>1, <1>2, <1>4 DEF HookFits
<1>6. JobsFit'
  BY <1>1, <1>2, <1>4 DEF JobsFit, Idle
<1>7. RoundFits'
  BY <1>1, <1>5, RoundKept
<1> QED BY <1>4, <1>6, <1>7 DEF BillInv

(* A failed invoice is written.                                            *)
LEMMA WriteInvoiceFailedKeeps ==
  ASSUME BillInv, NEW h \in Hooks, WriteInvoiceFailed(h)
  PROVE  BillInv'
<1>1. /\ Write(h) /\ hook[h].at = "invoice" /\ recent' = TRUE /\ UNCHANGED charged
      /\ hook[h].sets = "none" \/ UNCHANGED <<jobs, usedUp>>
      /\ hook[h].sets = "none" =>
           /\ jobs' = WithRetry(jobs, sub'.attempts)
           /\ usedUp' = IF sub'.attempts = sub.attempts + 1 THEN usedUp ELSE usedUp \cup Taken
  BY DEF WriteInvoiceFailed
<1>2. Rows /\ JobsFit /\ usedUp \subseteq Keys /\ charged \subseteq Refs /\ MaxAttempts \in Nat
      /\ jobs \in [Keys -> JobRows] /\ sub \in Subscriptions
  BY BillTypes DEF BillInv, Rows, JobsFit
<1>3. usedUp' \subseteq Keys
  BY <1>1, <1>2 DEF Taken
<1>4. /\ Rows' /\ HooksFit' /\ NewcomerFits' /\ PlanFollowsTier' /\ charge = Idle /\ UNCHANGED charge
      /\ HookFits(hook[h]) /\ sub' \in Subscriptions /\ sub' = Flushed(sub, hook[h].changes)
  BY <1>1, <1>2, <1>3, Written
<1>5. sub'.attempts \in Nat
  BY <1>4 DEF Subscriptions
<1>6. CASE hook[h].sets = "none"
  <2>1. sub'.attempts \in 1 .. MaxAttempts - 1
    BY <1>1, <1>2, <1>4, <1>6 DEF HookFits
  <2>2. PICK n \in Nat : n = sub'.attempts
    BY <1>5
  <2>3. n \in 1 .. MaxAttempts - 1
    BY <2>1, <2>2
  <2>4. \A q \in Keys : /\ jobs[q].tries <= JobAttempts[q.kind]
                        /\ jobs[q].status = "PENDING" => jobs[q].tries < JobAttempts[q.kind]
                        /\ jobs[q].status # "RUNNING"
    BY <1>2, <1>4, KeyFacts DEF JobsFit, Idle
  <2>5. JobsFit' /\ RoundFits'
    BY <1>1, <1>2, <1>4, <1>6, <2>2, <2>3, <2>4, RetryScheduled
  <2> QED BY <1>4, <2>5 DEF BillInv
<1>7. CASE hook[h].sets # "none"
  <2>1. sub'.attempts >= MaxAttempts
    BY <1>1, <1>2, <1>4, <1>7 DEF HookFits
  <2>2. RoundFits'
    BY <1>5, <2>1, RoundOver
  <2>3. JobsFit'
    BY <1>1, <1>2, <1>4, <1>7 DEF JobsFit, Idle
  <2> QED BY <1>4, <2>2, <2>3 DEF BillInv
<1> QED BY <1>6, <1>7

(* Failing handlers, the debounce, the clock and stuttering.               *)
LEMMA QuietKeeps ==
  ASSUME BillInv, (\E h \in Hooks : HookFails(h)) \/ Debounced \/ Tick \/ UNCHANGED billVars
  PROVE  BillInv'
<1>1. /\ JobsFit /\ Rows /\ HooksFit /\ NewcomerFits /\ PlanFollowsTier
      /\ hook = [f \in Hooks |-> hook[f]]
  BY DEF BillInv, Rows
<1>2. UNCHANGED <<sub, plan, jobs, charge, charged, raced, usedUp>>
  BY DEF HookFails, Debounced, Tick, billVars
<1>3. now' \in 0 .. MaxTime /\ recent' \in BOOLEAN
  <2>1. CASE Tick
    <3>1. now < MaxTime /\ now' = now + 1 /\ now \in 0 .. MaxTime /\ MaxTime \in Nat
      BY <1>1, <2>1, BillingConstants DEF Tick, Rows
    <3>2. recent' \in BOOLEAN
      BY <2>1 DEF Tick
    <3> QED BY <3>1, <3>2
  <2>2. CASE Debounced
    BY <1>1, <2>2 DEF Debounced, Rows
  <2>3. CASE (\E h \in Hooks : HookFails(h)) \/ UNCHANGED billVars
    BY <1>1, <2>3 DEF HookFails, billVars, Rows
  <2> QED BY <2>1, <2>2, <2>3
<1>4. /\ hook' = [f \in Hooks |-> hook'[f]]
      /\ \A f \in Hooks : hook'[f] \in {hook[f], NoHook}
  <2>1. CASE UNCHANGED hook
    BY <1>1, <2>1
  <2>2. CASE \E h \in Hooks : HookFails(h)
    BY <1>1, <2>2 DEF HookFails
  <2> QED BY <2>1, <2>2 DEF Debounced, Tick, billVars
<1>5. HooksFit'
  BY <1>2, <1>4, HooksKept
<1>6. Rows'
  BY <1>1, <1>2, <1>3, <1>4 DEF Rows
<1>7. JobsFit' /\ PlanFollowsTier' /\ NewcomerFits'
  BY <1>1, <1>2 DEF JobsFit, Idle, PlanFollowsTier, NewcomerFits
<1>8. RoundFits'
  BY <1>1, <1>2, RoundKept
<1> QED BY <1>5, <1>6, <1>7, <1>8 DEF BillInv

(* Every step keeps the invariant.                                         *)
LEMMA BillStep == BillInv /\ [BillNext]_billVars => BillInv'
<1> SUFFICES ASSUME BillInv, [BillNext]_billVars PROVE BillInv'
  OBVIOUS
<1>1. ASSUME NEW k \in Keys,
             \/ Purge(k) \/ SkipRenewal(k) \/ StartCharge(k) \/ AskProvider(k)
             \/ ChargePaid(k) \/ RetryDeclined(k) \/ ChargeFails(k)
      PROVE  BillInv'
  BY <1>1, PurgeKeeps, SkipRenewalKeeps, StartChargeKeeps, AskProviderKeeps, ChargePaidKeeps,
     RetryDeclinedKeeps, ChargeFailsKeeps
<1>2. ASSUME NEW h \in Hooks,
             \/ \E ref \in Refs : ReadChargeSuccess(h, ref)
             \/ \E c \in Checkouts : ReadCheckout(h, c)
             \/ ReadCreate(h) \/ ReadCancel(h) \/ ReadInvoiceFailed(h)
             \/ WriteHook(h) \/ WriteCheckout(h) \/ WriteInvoiceFailed(h) \/ HookFails(h)
      PROVE  BillInv'
  BY <1>2, HandlersRead, WriteHookKeeps, WriteInvoiceFailedKeeps, QuietKeeps
<1> QED BY <1>1, <1>2, SweepKeeps, QuietKeeps DEF BillNext

(* The invariant of every behaviour.                                       *)
LEMMA BillInvariant == BillSpec => []BillInv
BY BillInitial, BillStep, PTL DEF BillSpec

(* Rows, jobs and what handlers hold keep their types, a job runs exactly  *)
(* while it holds the subscription, and no job is tried more often than    *)
(* its limit (process_failed_payment, _apply_failure_transition).          *)
THEOREM BillTypeCorrect == BillSpec => []BillTypeOK
<1>1. BillInv => BillTypeOK
  <2> SUFFICES ASSUME BillInv PROVE BillTypeOK
    OBVIOUS
  <2>1. Rows /\ JobsFit /\ HooksFit
    BY DEF BillInv
  <2>2. \A h \in Hooks : hook[h] # NoHook =>
          /\ hook[h].sets \in Tiers \cup {"none"} /\ hook[h].was \in Tiers \cup {"none"}
          /\ Flushed(sub, hook[h].changes) \in Subscriptions
    BY <2>1 DEF HooksFit, HookFits, Rows
  <2> QED BY <2>1, <2>2 DEF BillTypeOK, Rows, JobsFit
<1> QED BY <1>1, BillInvariant, PTL

(* The plan is the tier of the subscription, unless a charge.success or a  *)
(* failed invoice set it from a copy with an older tier, or the tenant has *)
(* not been activated yet (sync_tenant_plan): a handler's patch takes the  *)
(* tier it read to the plan it sets.                                       *)
THEOREM PlanIsPaidFor == BillSpec => []PlanFollowsTier
<1>1. BillInv => PlanFollowsTier
  BY DEF BillInv
<1> QED BY <1>1, BillInvariant, PTL

(* Who waits for a retry has one queued (process_failed_payment), with     *)
(* webhooks counting failures on old copies: no job but of a used-up key   *)
(* is there for an attempt after the next.                                 *)
THEOREM RetriesQueued == BillSpec => []RetryIsQueued
<1>1. BillInv => RetryIsQueued
  BY DEF BillInv, RoundFits
<1> QED BY <1>1, BillInvariant, PTL
=============================================================================
