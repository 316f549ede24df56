------------------------------ MODULE JobQueue ------------------------------
(***************************************************************************)
(* The background job table and the processors that drain it               *)
(* (governance/domain/jobs/processor.py).  A processor first recovers jobs *)
(* that have been RUNNING for too long, then marks a batch of due jobs     *)
(* RUNNING in one transaction and executes them one after the other, each  *)
(* under a time limit.  Its copies of the rows are those of the fetch: what *)
(* others do to a row meanwhile it does not see, and what it writes at the *)
(* end is not conditional on it.  A webhook is stored as a job as well     *)
(* (billing/domain/billing/webhook_retry.py); delivered again, it may put  *)
(* its row back into the queue.                                            *)
(*                                                                         *)
(* A job is named by its deduplication key.  Times are relative: `wait` is *)
(* the number of ticks until scheduled_for, `age` the number of ticks      *)
(* since started_at, counted up to the timeout.                            *)
(***************************************************************************)
EXTENDS Integers, Sequences, FiniteSets

CONSTANTS Jobs, Processors,
          Webhooks,        \* the jobs that stand for webhooks
          Deliveries,      \* redeliveries in flight at a time
          BatchLimit,      \* how many jobs one fetch takes
          JobTimeout,      \* ticks a handler may run
          LockTimeouts,    \* settings for when a RUNNING job counts as stale
          BackoffBase,     \* ticks before the first retry
          MaxAttempts,     \* max_attempts of each job
          Priority         \* priority of each job

ASSUME JobConstants ==
  /\ Webhooks \subseteq Jobs
  /\ BatchLimit \in Nat \ {0}
  /\ JobTimeout \in Nat
  /\ LockTimeouts \subseteq Nat \ {0}
  /\ BackoffBase \in Nat
  /\ MaxAttempts \in [Jobs -> Nat \ {0}]
  /\ Priority \in [Jobs -> Int]

VARIABLES job, proc,
          delivery,        \* what each redelivery has read of its row
          raced,           \* history: webhooks whose redeliveries overlapped, or came
                           \* to write over a newer row
          lockTimeout      \* the setting this deployment runs with
hookVars == <<delivery, raced>>
jobVars == <<job, proc, delivery, raced, lockTimeout>>

NotStarted == -1

Statuses == {"ABSENT", "PENDING", "RUNNING", "COMPLETED", "DEAD_LETTER"}
Terminal == {"COMPLETED", "DEAD_LETTER"}

JobRows == [status: Statuses, attempts: Nat, wait: Nat, age: {NotStarted} \cup (0 .. lockTimeout)]
NoJob   == [status |-> "ABSENT", attempts |-> 0, wait |-> 0, age |-> NotStarted]

(* What a processor holds of a job: its attempts when the batch was taken. *)
Claims == [job: Jobs, attempt: Nat]

NoDelivery == [status |-> "ABSENT"]

Idle == [at |-> "idle", batch |-> <<>>, ran |-> 0]

JobsInit ==
  /\ job = [j \in Jobs |-> NoJob]
  /\ proc = [p \in Processors |-> Idle]
  /\ delivery = [d \in Deliveries |-> NoDelivery]
  /\ raced = {}
  /\ lockTimeout \in LockTimeouts

(***************************************************************************)
(* Enqueueing: the unique key decides, and an existing job, in whatever    *)
(* state, is answered instead of a new one.                                *)
(***************************************************************************)
NewJob(delay) == [NoJob EXCEPT !.status = "PENDING", !.wait = delay]

Enqueue(j, delay) ==
  /\ job[j].status = "ABSENT"
  /\ job' = [job EXCEPT ![j] = NewJob(delay)]
  /\ UNCHANGED <<proc, hookVars, lockTimeout>>

(***************************************************************************)
(* The failure transition: dead-letter after the last attempt or a         *)
(* permanent error, or else back to PENDING after an exponential back-off. *)
(* It judges by the attempts the caller has in memory.                     *)
(***************************************************************************)
Backoff(attempts) == BackoffBase * 2 ^ (IF attempts > 0 THEN attempts - 1 ELSE 0)

(* Of the times of a row that has ended only whether it was started is     *)
(* looked at again.                                                        *)
Ended(row, status) ==
  [row EXCEPT !.status = status, !.wait = 0, !.age = IF @ = NotStarted THEN @ ELSE 0]

Failed(row, j, attempts, permanent) ==
  IF permanent \/ attempts >= MaxAttempts[j]
  THEN Ended(row, "DEAD_LETTER")
  ELSE [row EXCEPT !.status = "PENDING", !.wait = Backoff(attempts), !.age = NotStarted]

Completed(row) == Ended(row, "COMPLETED")

(* Cancellation (of the processor's task) puts the job back for a minute   *)
(* later, whatever its attempts.                                           *)
Cancelled_KeepsStart(row) == [row EXCEPT !.status = "PENDING", !.wait = 1]
Cancelled(row) == [row EXCEPT !.status = "PENDING", !.wait = 1, !.age = NotStarted]

(***************************************************************************)
(* One round of a processor.  Recovery and fetch are transactions of their *)
(* own.  Rows that another transaction holds are skipped, which leaves the *)
(* same rows to take as its commit does.                                   *)
(***************************************************************************)
Stale_Never(j) == FALSE
Stale_AnyRunning(j) == job[j].status = "RUNNING"
Stale(j) == job[j].status = "RUNNING" /\ job[j].age >= lockTimeout

Recovered(j) == Failed([job[j] EXCEPT !.age = NotStarted], j, job[j].attempts, FALSE)

RecoverStale(p) ==
  /\ proc[p].at = "idle"
  /\ proc' = [proc EXCEPT ![p].at = "fetching"]
  /\ job' = [j \in Jobs |-> IF Stale(j) THEN Recovered(j) ELSE job[j]]
  /\ UNCHANGED <<hookVars, lockTimeout>>

Due_Spent(j) == job[j].status = "PENDING" /\ job[j].wait = 0
Due(j) == job[j].status = "PENDING" /\ job[j].wait = 0 /\ job[j].attempts < MaxAttempts[j]

(* The batches an ORDER BY priority DESC .. LIMIT may take; the order of   *)
(* scheduled_for among equal priorities is left open.                      *)
Batches ==
  LET due == {j \in Jobs : Due(j)}
      lists == UNION {[1 .. n -> due] : n \in 0 .. BatchLimit}
  IN  {b \in lists :
         /\ \A m, n \in DOMAIN b : m < n => b[m] # b[n] /\ Priority[b[m]] >= Priority[b[n]]
         /\ \A j \in due : (\A n \in DOMAIN b : b[n] # j) =>
              Len(b) = BatchLimit /\ \A n \in DOMAIN b : Priority[b[n]] >= Priority[j]}

Started_SameAttempt(row) == [row EXCEPT !.status = "RUNNING", !.age = 0]
Started(row) == [row EXCEPT !.status = "RUNNING", !.age = 0, !.attempts = @ + 1]

Fetch(p) ==
  /\ proc[p].at = "fetching"
  /\ \E b \in Batches :
       LET taken == {b[n] : n \in DOMAIN b}
       IN  /\ job' = [j \in Jobs |-> IF j \in taken THEN Started(job[j]) ELSE job[j]]
           /\ proc' = [proc EXCEPT ![p] =
                IF b = <<>> THEN Idle
                ELSE [at |-> "running", ran |-> 0,
                      batch |-> [n \in DOMAIN b |-> [job |-> b[n], attempt |-> job'[b[n]].attempts]]]]
  /\ UNCHANGED <<hookVars, lockTimeout>>

(* The batch moves on when its head has been dealt with.                   *)
Rest(p) ==
  IF Len(proc[p].batch) = 1 THEN Idle
  ELSE [at |-> "running", batch |-> Tail(proc[p].batch), ran |-> 0]

Executing(p) == proc[p].at = "running"
Current(p)   == Head(proc[p].batch).job

(* The end of a run: an UPDATE by primary key of the columns it changes.   *)
Write(p, row) ==
  /\ job' = [job EXCEPT ![Current(p)] = row]
  /\ proc' = [proc EXCEPT ![p] = Rest(p)]
  /\ UNCHANGED <<hookVars, lockTimeout>>

Succeed(p) == Executing(p) /\ Write(p, Completed(job[Current(p)]))

(* A recoverable or unexpected error, a failed result or the time limit.   *)
Retry(p) ==
  /\ Executing(p)
  /\ Write(p, Failed(job[Current(p)], Current(p), Head(proc[p].batch).attempt, FALSE))

GiveUp(p) ==
  /\ Executing(p)
  /\ Write(p, Failed(job[Current(p)], Current(p), Head(proc[p].batch).attempt, TRUE))

Cancel(p) == Executing(p) /\ Write(p, Cancelled(job[Current(p)]))

(* The process ends, its commit fails or an exception escapes it: what is  *)
(* left of its batch stays RUNNING in the table.                           *)
Crash(p) ==
  /\ Executing(p)
  /\ proc' = [proc EXCEPT ![p] = Idle]
  /\ UNCHANGED <<job, hookVars, lockTimeout>>

(***************************************************************************)
(* Retention deletes terminal rows days after their end, which outlasts    *)
(* every run; the key is free again, and a redelivery that has read the    *)
(* row fails.                                                              *)
(***************************************************************************)
Held(p, j) == \E n \in DOMAIN proc[p].batch : proc[p].batch[n].job = j

Purge(j) ==
  /\ job[j].status \in Terminal
  /\ \A p \in Processors : ~Held(p, j)
  /\ job' = [job EXCEPT ![j] = NoJob]
  /\ delivery' = [d \in Deliveries |-> IF delivery[d] # NoDelivery /\ delivery[d].job = j
                                       THEN NoDelivery ELSE delivery[d]]
  /\ UNCHANGED <<proc, raced, lockTimeout>>

(***************************************************************************)
(* A webhook delivered again (store_webhook).  A row that waits, runs and  *)
(* is not stale, or has completed within three days, answers it.  Another  *)
(* is queued anew, with all its attempts if it had ended.  The row is read *)
(* before it is locked, and written as it was read.                        *)
(***************************************************************************)
Requeueable_Running(j) == job[j].status \in Terminal \cup {"RUNNING"}
Requeueable(j) ==
  \/ job[j].status = "DEAD_LETTER" \/ Stale(j)
  \/ job[j].status = "COMPLETED" /\ \A p \in Processors : ~Held(p, j)   \* days later

CopyOf(j) == [job |-> j, status |-> job[j].status, attempts |-> job[j].attempts,
              started |-> job[j].age # NotStarted]

ReadRedelivered(d, j) ==
  /\ delivery[d] = NoDelivery
  /\ Requeueable(j)
  /\ delivery' = [delivery EXCEPT ![d] = CopyOf(j)]
  /\ raced' = IF \E e \in Deliveries : delivery[e] # NoDelivery /\ delivery[e].job = j
              THEN raced \cup {j} ELSE raced
  /\ UNCHANGED <<job, proc, lockTimeout>>

Requeued(row, copy) ==
  [row EXCEPT !.status = "PENDING", !.wait = 0,
              !.attempts = IF copy.status \in Terminal THEN 0 ELSE @,
              !.age = IF copy.started THEN NotStarted ELSE @]

Requeue(d) ==
  /\ delivery[d] # NoDelivery
  /\ LET j == delivery[d].job
     IN  /\ job' = [job EXCEPT ![j] = Requeued(@, delivery[d])]
         /\ raced' = IF delivery[d] = CopyOf(j) THEN raced ELSE raced \cup {j}
  /\ delivery' = [delivery EXCEPT ![d] = NoDelivery]
  /\ UNCHANGED <<proc, lockTimeout>>

(* The request breaks off. *)
DeliveryLost(d) ==
  /\ delivery[d] # NoDelivery
  /\ delivery' = [delivery EXCEPT ![d] = NoDelivery]
  /\ UNCHANGED <<job, proc, raced, lockTimeout>>

(***************************************************************************)
(* Time: a handler is stopped at its time limit, so no tick passes one.    *)
(***************************************************************************)
Later(row) ==
  [row EXCEPT !.wait = IF @ > 0 THEN @ - 1 ELSE 0,
              !.age = IF @ \in 0 .. lockTimeout - 1 THEN @ + 1 ELSE @]

Tick ==
  /\ \A p \in Processors : Executing(p) => proc[p].ran < JobTimeout
  /\ job' = [j \in Jobs |-> IF job[j].status \in Terminal THEN job[j] ELSE Later(job[j])]
  /\ proc' = [p \in Processors |-> IF Executing(p) THEN [proc[p] EXCEPT !.ran = @ + 1] ELSE proc[p]]
  /\ UNCHANGED <<hookVars, lockTimeout>>

Process(p) == RecoverStale(p) \/ Fetch(p) \/ Succeed(p) \/ Retry(p) \/ GiveUp(p) \/ Cancel(p)

JobsNext ==
  \/ \E j \in Jobs : Enqueue(j, 0) \/ Purge(j)
  \/ \E p \in Processors : Process(p) \/ Crash(p)
  \/ \E d \in Deliveries : (\E j \in Webhooks : ReadRedelivered(d, j)) \/ Requeue(d) \/ DeliveryLost(d)
  \/ Tick

JobsSpec == JobsInit /\ [][JobsNext]_jobVars

(* The scheduler keeps draining the queue, and every handler ends, or is   *)
(* ended by its time limit.  Crashes and cancellations need not happen.    *)
FairJobs == JobsSpec /\ WF_jobVars(Tick) /\ \A p \in Processors : WF_jobVars(Process(p))

-----------------------------------------------------------------------------
(* Types of the table and of what the processors hold (BackgroundJob).  A  *)
(* RUNNING row carries the start that recovery looks for and a waiting row *)
(* none, unless a redelivery was late; a processor that runs has a batch,  *)
(* of jobs once each.                                                      *)
JobTypeOK ==
  /\ job \in [Jobs -> JobRows]
  /\ proc \in [Processors -> [at: {"idle", "fetching", "running"}, batch: Seq(Claims),
                              ran: 0 .. JobTimeout]]
  /\ \A j \in Jobs \ raced :
                    /\ job[j].status = "RUNNING" => job[j].age # NotStarted
                    /\ job[j].status = "PENDING" => job[j].age = NotStarted
  /\ \A p \in Processors : Executing(p) <=> proc[p].batch # <<>>
  /\ raced \subseteq Webhooks
  /\ \A p \in Processors : \A m, n \in DOMAIN proc[p].batch :
       proc[p].batch[m].job = proc[p].batch[n].job => m = n

(* No job is started more often than max_attempts, whatever recoveries,    *)
(* late writers and cancellations do to its row in between                 *)
(* (_fetch_and_lock_batch, _apply_failure_transition).                     *)
AttemptsBounded == \A j \in Jobs : job[j].attempts <= MaxAttempts[j]

(* A run is handed out once: two processors may come to execute the same   *)
(* job, after a recovery, but never as the same attempt                    *)
(* (FOR UPDATE SKIP LOCKED and attempts += 1 in _fetch_and_lock_batch).    *)
(* Only a webhook's attempts are ever counted from zero again.             *)
NoAttemptShared ==
  \A p, q \in Processors : p # q =>
    \A m \in DOMAIN proc[p].batch, n \in DOMAIN proc[q].batch :
      proc[p].batch[m].job \notin Webhooks => proc[p].batch[m] # proc[q].batch[n]

(* As long as a full batch of handlers that use all their time ends before *)
(* a job counts as stale, no job is executed twice at a time, and a worker *)
(* writes the end of a run over nothing but the row of that very run       *)
(* ("to prevent double-processing", _fetch_and_lock_batch).  The default   *)
(* settings do not meet the condition.  Redeliveries of a webhook may be   *)
(* many and late, but not read before and written after another change.    *)
BatchFits == BatchLimit * JobTimeout < lockTimeout

NoDoubleProcessing ==
  BatchFits => \A p \in Processors : \A n \in DOMAIN proc[p].batch :
    LET j == proc[p].batch[n].job
    IN  j \notin raced =>
        /\ \A q \in Processors \ {p} : ~Held(q, j)
        /\ job[j].status = "RUNNING"
        /\ job[j].attempts = proc[p].batch[n].attempt

(* Every job is decided again and again: completed, dead-lettered or, when *)
(* its last attempt was cancelled, left PENDING with no attempt to go.     *)
(* Neither a crash nor a late writer leaves it RUNNING for ever; it can    *)
(* only be outranked for ever by others, where batches are too small for   *)
(* what is due (_recover_stale_running_jobs, run_background_job_processing). *)
Stranded(j) == job[j].status = "PENDING" /\ job[j].attempts >= MaxAttempts[j]
Crowded     == Cardinality({j \in Jobs : Due(j)}) > BatchLimit

EveryJobEnds ==
  \A j \in Jobs :
    []<>(job[j].status \in Terminal \cup {"ABSENT"} \/ Stranded(j) \/ Crowded)
=============================================================================
