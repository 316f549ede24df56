-------------------------- MODULE JobQueue_proofs ---------------------------
(***************************************************************************)
(* The attempts of background jobs, for any number of jobs, processors and *)
(* redeliveries, any batch limit, time limit, lock timeout and back-off.   *)
(***************************************************************************)
EXTENDS JobQueue, SequenceTheorems, FiniteSetTheorems, TLAPS

(* Rows by their fields: nothing is said of times, which back-offs set.    *)
(* A key that is free has no attempts, or a new job under it would count   *)
(* from below what was handed out.                                         *)
IsRow(row) ==
  /\ DOMAIN row = {"status", "attempts", "wait", "age"}
  /\ row.attempts \in Nat
  /\ row.status = "ABSENT" => row.attempts = 0

Shapes ==
  /\ job = [j \in Jobs |-> job[j]] /\ \A j \in Jobs : IsRow(job[j])
  /\ proc \in [Processors -> [at: {"idle", "fetching", "running"}, batch: Seq(Claims), ran: Nat]]
  /\ \A p \in Processors : Executing(p) <=> proc[p].batch # <<>>
  /\ delivery = [d \in Deliveries |-> delivery[d]]
  /\ \A d \in Deliveries : delivery[d] # NoDelivery => delivery[d].job \in Webhooks

Claimed(p) == {proc[p].batch[n] : n \in DOMAIN proc[p].batch}

(* A row has counted at least every attempt that a processor holds of it;  *)
(* only a webhook's count may start again.                                 *)
ClaimsCounted ==
  \A p \in Processors : \A c \in Claimed(p) : c.job \notin Webhooks => c.attempt <= job[c.job].attempts

ClaimsApart ==
  \A p, q \in Processors : p # q =>
    \A c \in Claimed(p) : c.job \notin Webhooks => c \notin Claimed(q)

AttemptsInv == Shapes /\ AttemptsBounded /\ ClaimsCounted /\ ClaimsApart

-----------------------------------------------------------------------------
(* What is done to a row at the end of a run, by recovery and by time      *)
(* leaves its attempts.                                                    *)
LEMMA RowsStay ==
  ASSUME NEW row, IsRow(row), NEW j \in Jobs, NEW n, NEW permanent, NEW status, status # "ABSENT"
  PROVE  /\ IsRow(Ended(row, status)) /\ Ended(row, status).attempts = row.attempts
         /\ IsRow(Failed(row, j, n, permanent)) /\ Failed(row, j, n, permanent).attempts = row.attempts
         /\ IsRow(Cancelled(row)) /\ Cancelled(row).attempts = row.attempts
         /\ IsRow(Later(row)) /\ Later(row).attempts = row.attempts
<1>1. IsRow(Ended(row, status)) /\ Ended(row, status).attempts = row.attempts
  BY DEF IsRow, Ended
<1>2. IsRow(Ended(row, "DEAD_LETTER")) /\ Ended(row, "DEAD_LETTER").attempts = row.attempts
  BY DEF IsRow, Ended
<1>3. IsRow(Failed(row, j, n, permanent)) /\ Failed(row, j, n, permanent).attempts = row.attempts
  <2>1. ASSUME NEW wait
        PROVE  LET again == [row EXCEPT !.status = "PENDING", !.wait = wait, !.age = NotStarted]
               IN  IsRow(again) /\ again.attempts = row.attempts
    BY DEF IsRow
  <2> QED BY <1>2, <2>1 DEF Failed
<1>4. IsRow(Cancelled(row)) /\ Cancelled(row).attempts = row.attempts
  BY DEF IsRow, Cancelled
<1>5. IsRow(Later(row)) /\ Later(row).attempts = row.attempts
  BY DEF IsRow, Later
<1> QED BY <1>1, <1>3, <1>4, <1>5

(* A batch that moves on holds nothing new. *)
LEMMA RestHolds ==
  ASSUME Shapes, NEW p \in Processors, Executing(p)
  PROVE  /\ Current(p) \in Jobs
         /\ Rest(p) \in [at: {"idle", "fetching", "running"}, batch: Seq(Claims), ran: Nat]
         /\ Rest(p).at = "running" <=> Rest(p).batch # <<>>
         /\ \A n \in DOMAIN Rest(p).batch : Rest(p).batch[n] \in Claimed(p)
<1> DEFINE batch == proc[p].batch
<1>1. batch \in Seq(Claims) /\ batch # <<>>
  BY DEF Shapes, Executing
<1> HIDE DEF batch
<1>2. Head(batch) \in Claims /\ Head(batch).job \in Jobs
  <2>1. Head(batch) \in Claims
    BY <1>1, HeadTailProperties
  <2> QED BY <2>1 DEF Claims
<1>3. CASE Len(batch) = 1
  <2>1. Rest(p) = Idle
    BY <1>3 DEF Rest, batch
  <2> QED BY <1>2, <2>1 DEF Idle, Current, batch
<1>4. CASE Len(batch) # 1
  <2>1. Rest(p) = [at |-> "running", batch |-> Tail(batch), ran |-> 0]
    BY <1>4 DEF Rest, batch
  <2>2. /\ Tail(batch) \in Seq(Claims) /\ Tail(batch) # <<>>
        /\ \A n \in DOMAIN Tail(batch) : n + 1 \in DOMAIN batch /\ Tail(batch)[n] = batch[n + 1]
    <3>1. /\ Len(batch) \in Nat \ {0} /\ DOMAIN batch = 1 .. Len(batch)
          /\ Tail(batch) \in Seq(Claims) /\ Len(Tail(batch)) = Len(batch) - 1
          /\ \A i \in 1 .. Len(Tail(batch)) : Tail(batch)[i] = batch[i + 1]
      BY <1>1, EmptySeq, LenProperties, HeadTailProperties
    <3>2. DOMAIN Tail(batch) = 1 .. Len(Tail(batch))
      BY <3>1, LenProperties
    <3>3. Tail(batch) # <<>>
      <4>1. Len(Tail(batch)) # 0
        BY <1>4, <3>1
      <4> QED BY <4>1, EmptySeq
    <3> QED BY <3>1, <3>2, <3>3
  <2>3. \A n \in DOMAIN Tail(batch) : Tail(batch)[n] \in Claimed(p)
    BY <2>2 DEF Claimed, batch
  <2> QED BY <1>2, <2>1, <2>2, <2>3 DEF Current, batch
<1> QED BY <1>3, <1>4

(* What a processor holds are claims of jobs and attempts.                 *)
LEMMA ClaimTypes ==
  ASSUME Shapes
  PROVE  \A p \in Processors : Claimed(p) \subseteq Claims
<1>1. ASSUME NEW s \in Seq(Claims), NEW n \in DOMAIN s
      PROVE  s[n] \in Claims
  BY ElementOfSeq, LenProperties
<1> QED BY <1>1 DEF Claimed, Shapes

(* A step that hands nothing out, and counts no attempt back of a job that *)
(* is still held, keeps what is said of claims.                            *)
LEMMA ClaimsKept ==
  ASSUME AttemptsInv,
         \A q \in Processors : \A c \in Claimed(q)' :
           /\ c \in Claimed(q)
           /\ c.job \notin Webhooks => job'[c.job].attempts = job[c.job].attempts
  PROVE  ClaimsCounted' /\ ClaimsApart'
<1>1. ClaimsCounted'
  BY DEF AttemptsInv, ClaimsCounted
<1>2. ClaimsApart'
  BY DEF AttemptsInv, ClaimsApart
<1> QED BY <1>1, <1>2

(* So does one in which every row keeps its attempts and one processor     *)
(* does nothing but let go of claims.                                      *)
LEMMA LetGo ==
  ASSUME AttemptsInv, NEW p \in Processors, NEW rest,
         rest \in [at: {"idle", "fetching", "running"}, batch: Seq(Claims), ran: Nat],
         rest.at = "running" <=> rest.batch # <<>>,
         \A n \in DOMAIN rest.batch : rest.batch[n] \in Claimed(p),
         proc' = [proc EXCEPT ![p] = rest],
         job' = [j \in Jobs |-> job'[j]],
         \A j \in Jobs : IsRow(job'[j]) /\ job'[j].attempts = job[j].attempts,
         UNCHANGED delivery
  PROVE  AttemptsInv'
<1>1. /\ proc' \in [Processors -> [at: {"idle", "fetching", "running"}, batch: Seq(Claims), ran: Nat]]
      /\ \A q \in Processors : proc'[q] = IF q = p THEN rest ELSE proc[q]
  BY DEF AttemptsInv, Shapes
<1>2. Shapes'
  <2>1. \A q \in Processors : (Executing(q) <=> proc[q].batch # <<>>)'
    BY <1>1 DEF AttemptsInv, Shapes, Executing
  <2> QED BY <1>1, <2>1 DEF AttemptsInv, Shapes
<1>3. \A q \in Processors : Claimed(q)' \subseteq Claimed(q)
  BY <1>1 DEF Claimed
<1>4. \A q \in Processors : \A c \in Claimed(q) : c.job \in Jobs
  BY ClaimTypes DEF AttemptsInv, Claims
<1>5. ClaimsCounted' /\ ClaimsApart'
  BY <1>3, <1>4, ClaimsKept
<1>6. AttemptsBounded'
  BY DEF AttemptsInv, AttemptsBounded
<1> QED BY <1>2, <1>5, <1>6 DEF AttemptsInv

(* And one in which no processor moves.                                    *)
LEMMA RowChanged ==
  ASSUME AttemptsInv, NEW k \in Jobs, NEW row, IsRow(row),
         row.attempts \in {0, job[k].attempts},
         \/ k \in Webhooks \/ row.attempts = job[k].attempts
         \/ \A p \in Processors : ~Held(p, k),
         job' = [job EXCEPT ![k] = row],
         UNCHANGED proc,
         delivery' = [d \in Deliveries |-> delivery'[d]],
         \A d \in Deliveries : delivery'[d] # NoDelivery => delivery'[d].job \in Webhooks
  PROVE  AttemptsInv'
<1>1. /\ job' = [j \in Jobs |-> job'[j]]
      /\ \A j \in Jobs : job'[j] = IF j = k THEN row ELSE job[j]
  BY DEF AttemptsInv, Shapes
<1>2. Shapes'
  BY <1>1 DEF AttemptsInv, Shapes, Executing
<1>3. AttemptsBounded'
  BY <1>1, JobConstants DEF AttemptsInv, AttemptsBounded
<1>4. \A q \in Processors : Claimed(q)' = Claimed(q)
  BY DEF Claimed
<1>5. \A q \in Processors : \A c \in Claimed(q) : c.job \in Jobs
  BY ClaimTypes DEF AttemptsInv, Claims
<1>6. ASSUME NEW q \in Processors, NEW c \in Claimed(q), c.job \notin Webhooks
      PROVE  job'[c.job].attempts = job[c.job].attempts
  <2>1. Held(q, c.job)
    BY DEF Held, Claimed
  <2> QED BY <1>1, <1>5, <1>6, <2>1
<1>7. ClaimsCounted' /\ ClaimsApart'
  BY <1>4, <1>6, ClaimsKept
<1> QED BY <1>2, <1>3, <1>7 DEF AttemptsInv

(***************************************************************************)
(* A batch of due jobs: every new claim is of one attempt more than its    *)
(* row had counted, and so of more than anybody holds.                     *)
(***************************************************************************)
LEMMA StartedRow ==
  ASSUME NEW row, IsRow(row)
  PROVE  IsRow(Started(row)) /\ Started(row).attempts = row.attempts + 1
BY DEF IsRow, Started

(* A fetch takes finitely many jobs that are due.                          *)
LEMMA BatchTypes ==
  ASSUME NEW b \in Batches
  PROVE  \E n \in Nat : b \in [1 .. n -> {j \in Jobs : Due(j)}] /\ (n = 0 <=> b = <<>>)
<1>1. PICK n \in 0 .. BatchLimit : b \in [1 .. n -> {j \in Jobs : Due(j)}]
  BY DEF Batches
<1>2. n \in Nat
  BY <1>1, JobConstants
<1>3. b \in Seq(Jobs) /\ Len(b) = n
  <2>1. b \in [1 .. n -> Jobs]
    BY <1>1
  <2> QED BY <1>2, <2>1
<1>4. n = 0 <=> b = <<>>
  BY <1>3, EmptySeq
<1> QED BY <1>1, <1>2, <1>4

(* A fetch counts an attempt of each job it takes, which nobody held before.*)
LEMMA FetchStep ==
  ASSUME AttemptsInv, NEW p \in Processors, Fetch(p)
  PROVE  AttemptsInv'
<1>1. PICK b \in Batches :
        /\ job' = [j \in Jobs |-> IF j \in {b[n] : n \in DOMAIN b} THEN Started(job[j]) ELSE job[j]]
        /\ proc' = [proc EXCEPT ![p] =
             IF b = <<>> THEN Idle
             ELSE [at |-> "running", ran |-> 0,
                   batch |-> [n \in DOMAIN b |-> [job |-> b[n], attempt |-> job'[b[n]].attempts]]]]
  BY DEF Fetch
<1>2. PICK n \in Nat : b \in [1 .. n -> {j \in Jobs : Due(j)}] /\ (n = 0 <=> b = <<>>)
  BY BatchTypes
<1>3. UNCHANGED <<delivery, raced, lockTimeout>> /\ proc[p].at = "fetching" /\ proc[p].batch = <<>>
  BY DEF Fetch, hookVars, AttemptsInv, Shapes, Executing
<1>4. ASSUME NEW j \in Jobs
      PROVE  /\ IsRow(job'[j]) /\ job[j].attempts <= job'[j].attempts
             /\ job'[j].attempts <= MaxAttempts[j]
             /\ (\E m \in 1 .. n : b[m] = j) => job'[j].attempts = job[j].attempts + 1
  <2>1. IsRow(job[j]) /\ job[j].attempts \in Nat /\ job[j].attempts <= MaxAttempts[j]
    BY <1>4 DEF AttemptsInv, Shapes, AttemptsBounded, IsRow
  <2>2. CASE \E m \in 1 .. n : b[m] = j
    <3>1. Due(j)
      BY <1>2, <2>2
    <3>2. job'[j] = Started(job[j])
      BY <1>1, <1>2, <2>2
    <3>3. MaxAttempts[j] \in Nat
      BY JobConstants
    <3> QED BY <2>1, <3>1, <3>2, <3>3, StartedRow DEF Due
  <2>3. CASE ~ \E m \in 1 .. n : b[m] = j
    <3>1. job'[j] = job[j]
      BY <1>1, <1>2, <2>3
    <3> QED BY <2>1, <2>3, <3>1
  <2> QED BY <2>2, <2>3
<1> DEFINE batch == [m \in 1 .. n |-> [job |-> b[m], attempt |-> job'[b[m]].attempts]]
<1>5. /\ batch \in Seq(Claims) /\ DOMAIN batch = 1 .. n
      /\ \A m \in 1 .. n : /\ batch[m].job \in Jobs
                          /\ batch[m].attempt = job[batch[m].job].attempts + 1
                          /\ batch[m].attempt = job'[batch[m].job].attempts
  <2>1. ASSUME NEW m \in 1 .. n
        PROVE  b[m] \in Jobs /\ job'[b[m]].attempts \in Nat
    BY <1>2, <1>4, <2>1 DEF IsRow
  <2>2. batch \in [1 .. n -> Claims]
    BY <2>1 DEF Claims
  <2>3. batch \in Seq(Claims)
    BY <2>2
  <2>4. \A m \in 1 .. n : job'[b[m]].attempts = job[b[m]].attempts + 1
    BY <1>4, <2>1
  <2> QED BY <2>1, <2>3, <2>4
<1>6. b # <<>> => batch # <<>>
  BY <1>2, <1>5
<1>7. proc'[p] = IF b = <<>> THEN Idle ELSE [at |-> "running", ran |-> 0, batch |-> batch]
  BY <1>1, <1>2 DEF AttemptsInv, Shapes
<1> HIDE DEF batch
<1>8. /\ \A q \in Processors : q # p => proc'[q] = proc[q]
      /\ proc' \in [Processors -> [at: {"idle", "fetching", "running"}, batch: Seq(Claims), ran: Nat]]
  <2>1. proc'[p] \in [at: {"idle", "fetching", "running"}, batch: Seq(Claims), ran: Nat]
    BY <1>5, <1>7, EmptySeq DEF Idle
  <2> QED BY <1>1, <2>1 DEF AttemptsInv, Shapes
<1>9. Shapes'
  <2>1. proc'[p].at = "running" <=> proc'[p].batch # <<>>
    BY <1>6, <1>7 DEF Idle
  <2>2. \A q \in Processors : (Executing(q) <=> proc[q].batch # <<>>)'
    BY <1>8, <2>1 DEF AttemptsInv, Shapes, Executing
  <2>3. job' = [j \in Jobs |-> job'[j]]
    BY <1>1
  <2>4. \A j \in Jobs : IsRow(job'[j])
    BY <1>4
  <2>5. /\ delivery' = [d \in Deliveries |-> delivery'[d]]
        /\ \A d \in Deliveries : delivery'[d] # NoDelivery => delivery'[d].job \in Webhooks
    BY <1>3 DEF AttemptsInv, Shapes
  <2> QED BY <1>8, <2>2, <2>3, <2>4, <2>5 DEF Shapes
<1>10. AttemptsBounded'
  BY <1>4 DEF AttemptsBounded
<1>11. \A q \in Processors : q # p => Claimed(q)' = Claimed(q)
  BY <1>8 DEF Claimed
<1>12. ASSUME NEW c \in Claimed(p)'
       PROVE  /\ c.job \in Jobs /\ c.attempt = job[c.job].attempts + 1
              /\ c.attempt = job'[c.job].attempts
  <2>1. b # <<>>
    BY <1>7 DEF Claimed, Idle
  <2>2. proc'[p].batch = batch
    BY <1>7, <2>1
  <2>3. PICK m \in 1 .. n : c = batch[m]
    BY <1>5, <2>2 DEF Claimed
  <2> QED BY <1>5, <2>3
<1>13. \A q \in Processors : \A c \in Claimed(q) : c.job \in Jobs /\ c.attempt \in Nat
  BY ClaimTypes DEF AttemptsInv, Claims
<1>14. \A j \in Jobs : job[j].attempts \in Nat /\ job'[j].attempts \in Nat
  BY <1>4 DEF AttemptsInv, Shapes, IsRow
<1>15. ClaimsCounted'
  <2>1. ASSUME NEW q \in Processors, NEW c \in Claimed(q)', c.job \notin Webhooks
        PROVE  c.attempt <= job'[c.job].attempts
    <3>1. CASE q = p
      BY <1>12, <1>14, <2>1, <3>1
    <3>2. CASE q # p
      <4>1. c \in Claimed(q)
        BY <1>11, <2>1, <3>2
      <4>2. c.attempt <= job[c.job].attempts
        BY <2>1, <4>1 DEF AttemptsInv, ClaimsCounted
      <4> QED BY <1>4, <1>13, <1>14, <4>1, <4>2
    <3> QED BY <3>1, <3>2
  <2> QED BY <2>1 DEF ClaimsCounted
<1>16. ASSUME NEW q \in Processors, q # p, NEW c \in Claimed(p)', c \in Claimed(q), c.job \notin Webhooks
       PROVE  FALSE
  <2>1. c.attempt <= job[c.job].attempts
    BY <1>16 DEF AttemptsInv, ClaimsCounted
  <2> QED BY <1>12, <1>14, <1>16, <2>1
<1>17. ClaimsApart'
  <2>1. ASSUME NEW q \in Processors, NEW r \in Processors, q # r,
               NEW c \in Claimed(q)', c.job \notin Webhooks, c \in Claimed(r)'
        PROVE  FALSE
    <3>1. CASE q = p
      BY <1>11, <1>16, <2>1, <3>1
    <3>2. CASE r = p
      BY <1>11, <1>16, <2>1, <3>2
    <3>3. CASE q # p /\ r # p
      BY <1>11, <2>1, <3>3 DEF AttemptsInv, ClaimsApart
    <3> QED BY <3>1, <3>2, <3>3
  <2> QED BY <2>1 DEF ClaimsApart
<1> QED BY <1>9, <1>10, <1>15, <1>17 DEF AttemptsInv

-----------------------------------------------------------------------------
(* At first nobody holds anything.                                         *)
LEMMA AttemptsInit == JobsInit => AttemptsInv
<1> SUFFICES ASSUME JobsInit PROVE AttemptsInv
  OBVIOUS
<1>1. Shapes
  <2>1. Idle \in [at: {"idle", "fetching", "running"}, batch: Seq(Claims), ran: Nat]
    BY EmptySeq DEF Idle
  <2> QED BY <2>1 DEF JobsInit, Shapes, IsRow, NoJob, Executing, Idle
<1>2. AttemptsBounded
  BY JobConstants DEF JobsInit, AttemptsBounded, NoJob
<1>3. \A p \in Processors : Claimed(p) = {}
  BY DEF JobsInit, Claimed, Idle
<1> QED BY <1>1, <1>2, <1>3 DEF AttemptsInv, ClaimsCounted, ClaimsApart

(* A processor that writes the end of a run, or dies. *)
LEMMA WriteStep ==
  ASSUME AttemptsInv, NEW p \in Processors, Executing(p), NEW row, Write(p, row),
         IsRow(row), row.attempts = job[Current(p)].attempts
  PROVE  AttemptsInv'
<1>1. /\ Current(p) \in Jobs
      /\ Rest(p) \in [at: {"idle", "fetching", "running"}, batch: Seq(Claims), ran: Nat]
      /\ Rest(p).at = "running" <=> Rest(p).batch # <<>>
      /\ \A n \in DOMAIN Rest(p).batch : Rest(p).batch[n] \in Claimed(p)
  BY RestHolds DEF AttemptsInv
<1>2. /\ job' = [job EXCEPT ![Current(p)] = row] /\ proc' = [proc EXCEPT ![p] = Rest(p)]
      /\ UNCHANGED delivery
  BY DEF Write, hookVars
<1>3. /\ job' = [j \in Jobs |-> job'[j]]
      /\ \A j \in Jobs : IsRow(job'[j]) /\ job'[j].attempts = job[j].attempts
  BY <1>1, <1>2 DEF AttemptsInv, Shapes
<1> QED BY <1>1, <1>2, <1>3, LetGo

(* The recovery of stale jobs leaves their attempts as they are.           *)
LEMMA RecoverStep ==
  ASSUME AttemptsInv, NEW p \in Processors, RecoverStale(p)
  PROVE  AttemptsInv'
<1> DEFINE rest == [proc[p] EXCEPT !.at = "fetching"]
<1>1. proc[p].batch = <<>>
  BY DEF RecoverStale, AttemptsInv, Shapes, Executing
<1>2. /\ rest \in [at: {"idle", "fetching", "running"}, batch: Seq(Claims), ran: Nat]
      /\ rest.at = "fetching" /\ rest.batch = <<>>
  BY <1>1 DEF AttemptsInv, Shapes
<1>3. proc' = [proc EXCEPT ![p] = rest]
  BY DEF RecoverStale
<1>4. job' = [j \in Jobs |-> job'[j]] /\ UNCHANGED delivery
  BY DEF RecoverStale, hookVars
<1>5. ASSUME NEW j \in Jobs
      PROVE  IsRow(job'[j]) /\ job'[j].attempts = job[j].attempts
  <2>1. IsRow(job[j])
    BY <1>5 DEF AttemptsInv, Shapes
  <2>2. PICK row : row = [job[j] EXCEPT !.age = NotStarted]
    OBVIOUS
  <2>3. IsRow(row) /\ row.attempts = job[j].attempts
    BY <2>1, <2>2 DEF IsRow
  <2>4. Recovered(j) = Failed(row, j, job[j].attempts, FALSE)
    BY <2>2 DEF Recovered
  <2>5. IsRow(Recovered(j)) /\ Recovered(j).attempts = job[j].attempts
    <3>1. PICK n, permanent : n = job[j].attempts /\ permanent = FALSE
      OBVIOUS
    <3>2. IsRow(Failed(row, j, n, permanent)) /\ Failed(row, j, n, permanent).attempts = row.attempts
      BY <1>5, <2>3, RowsStay
    <3> QED BY <2>3, <2>4, <3>1, <3>2
  <2>6. job'[j] = IF Stale(j) THEN Recovered(j) ELSE job[j]
    BY DEF RecoverStale
  <2> QED BY <2>1, <2>5, <2>6
<1>6. \A n \in DOMAIN rest.batch : rest.batch[n] \in Claimed(p)
  BY <1>1 DEF Claimed
<1>7. rest.at = "running" <=> rest.batch # <<>>
  BY <1>2
<1> HIDE DEF rest
<1> QED BY <1>2, <1>3, <1>4, <1>5, <1>6, <1>7, LetGo

(* Time passing counts no attempt.                                         *)
LEMMA TickStep ==
  ASSUME AttemptsInv, Tick
  PROVE  AttemptsInv'
<1>1. /\ job' = [j \in Jobs |-> job'[j]]
      /\ \A j \in Jobs : job'[j] = IF job[j].status \in Terminal THEN job[j] ELSE Later(job[j])
      /\ UNCHANGED delivery
  BY DEF Tick, hookVars
<1>2. \A j \in Jobs : IsRow(job[j])
  BY DEF AttemptsInv, Shapes
<1>3. \A j \in Jobs : IsRow(job'[j]) /\ job'[j].attempts = job[j].attempts
  <2>1. \A j \in Jobs : IsRow(Later(job[j])) /\ Later(job[j]).attempts = job[j].attempts
    BY <1>2, RowsStay
  <2> QED BY <1>1, <1>2, <2>1
<1>4. ASSUME NEW p \in Processors
      PROVE  /\ proc'[p] \in [at: {"idle", "fetching", "running"}, batch: Seq(Claims), ran: Nat]
             /\ proc'[p].at = proc[p].at /\ proc'[p].batch = proc[p].batch
  <2>1. proc'[p] = IF Executing(p) THEN [proc[p] EXCEPT !.ran = @ + 1] ELSE proc[p]
    BY DEF Tick
  <2>2. proc[p] \in [at: {"idle", "fetching", "running"}, batch: Seq(Claims), ran: Nat]
    BY DEF AttemptsInv, Shapes
  <2> QED BY <2>1, <2>2
<1>5. proc' \in [Processors -> [at: {"idle", "fetching", "running"}, batch: Seq(Claims), ran: Nat]]
  <2>1. proc' = [p \in Processors |-> proc'[p]]
    BY DEF Tick
  <2> QED BY <1>4, <2>1
<1>6. Shapes'
  <2>1. \A p \in Processors : (Executing(p) <=> proc[p].batch # <<>>)'
    BY <1>4 DEF AttemptsInv, Shapes, Executing
  <2> QED BY <1>1, <1>3, <1>5, <2>1 DEF AttemptsInv, Shapes
<1>7. \A q \in Processors : Claimed(q)' = Claimed(q)
  BY <1>4 DEF Claimed
<1>8. \A q \in Processors : \A c \in Claimed(q) : c.job \in Jobs
  BY ClaimTypes DEF AttemptsInv, Claims
<1>9. ClaimsCounted' /\ ClaimsApart'
  BY <1>3, <1>7, <1>8, ClaimsKept
<1>10. AttemptsBounded'
  BY <1>3 DEF AttemptsInv, AttemptsBounded
<1> QED BY <1>6, <1>9, <1>10 DEF AttemptsInv

(* The end of a run, whatever it was. *)
LEMMA RunEnds ==
  ASSUME AttemptsInv, NEW p \in Processors, Succeed(p) \/ Retry(p) \/ GiveUp(p) \/ Cancel(p)
  PROVE  AttemptsInv'
<1>1. Executing(p)
  BY DEF Succeed, Retry, GiveUp, Cancel
<1>2. Current(p) \in Jobs
  BY <1>1, RestHolds DEF AttemptsInv
<1>3. PICK row : row = job[Current(p)]
  OBVIOUS
<1>4. IsRow(row)
  BY <1>2, <1>3 DEF AttemptsInv, Shapes
<1>5. PICK k \in Jobs : k = Current(p)
  BY <1>2
<1>6. CASE Succeed(p)
  <2>1. IsRow(Ended(row, "COMPLETED")) /\ Ended(row, "COMPLETED").attempts = row.attempts
    BY <1>4, <1>5, RowsStay
  <2>2. Write(p, Ended(row, "COMPLETED"))
    BY <1>3, <1>6 DEF Succeed, Completed
  <2> QED BY <1>1, <1>3, <2>1, <2>2, WriteStep
<1>7. ASSUME NEW permanent, Write(p, Failed(row, k, Head(proc[p].batch).attempt, permanent))
      PROVE  AttemptsInv'
  <2>1. PICK n : n = Head(proc[p].batch).attempt
    OBVIOUS
  <2>2. IsRow(Failed(row, k, n, permanent)) /\ Failed(row, k, n, permanent).attempts = row.attempts
    BY <1>4, RowsStay
  <2>3. PICK new : new = Failed(row, k, n, permanent)
    OBVIOUS
  <2>4. Write(p, new)
    BY <1>7, <2>1, <2>3
  <2> QED BY <1>1, <1>3, <2>2, <2>3, <2>4, WriteStep
<1>8. CASE Retry(p)
  <2>1. Write(p, Failed(row, k, Head(proc[p].batch).attempt, FALSE))
    BY <1>3, <1>5, <1>8 DEF Retry
  <2> QED BY <1>7, <2>1
<1>9. CASE GiveUp(p)
  <2>1. Write(p, Failed(row, k, Head(proc[p].batch).attempt, TRUE))
    BY <1>3, <1>5, <1>9 DEF GiveUp
  <2> QED BY <1>7, <2>1
<1>10. CASE Cancel(p)
  <2>1. IsRow(Cancelled(row)) /\ Cancelled(row).attempts = row.attempts
    BY <1>4, <1>5, RowsStay
  <2>2. Write(p, Cancelled(row))
    BY <1>3, <1>10 DEF Cancel
  <2> QED BY <1>1, <1>3, <2>1, <2>2, WriteStep
<1> QED BY <1>6, <1>8, <1>9, <1>10

(* A processor that dies lets go of what it holds.                         *)
LEMMA CrashStep ==
  ASSUME AttemptsInv, NEW p \in Processors, Crash(p)
  PROVE  AttemptsInv'
<1>1. /\ Idle \in [at: {"idle", "fetching", "running"}, batch: Seq(Claims), ran: Nat]
      /\ Idle.at = "running" <=> Idle.batch # <<>>
      /\ \A n \in DOMAIN Idle.batch : Idle.batch[n] \in Claimed(p)
  BY EmptySeq DEF Idle
<1>2. proc' = [proc EXCEPT ![p] = Idle] /\ UNCHANGED <<job, delivery>>
  BY DEF Crash, hookVars
<1>3. /\ job' = [j \in Jobs |-> job'[j]]
      /\ \A j \in Jobs : IsRow(job'[j]) /\ job'[j].attempts = job[j].attempts
  BY <1>2 DEF AttemptsInv, Shapes
<1> QED BY <1>1, <1>2, <1>3, LetGo

(* The steps that change one row and no processor. *)
LEMMA EnqueueStep ==
  ASSUME AttemptsInv, NEW j \in Jobs, Enqueue(j, 0)
  PROVE  AttemptsInv'
<1>1. /\ IsRow(NewJob(0)) /\ NewJob(0).attempts = 0
  BY DEF IsRow, NewJob, NoJob
<1>2. job[j].attempts = 0
  BY DEF Enqueue, AttemptsInv, Shapes, IsRow
<1>3. job' = [job EXCEPT ![j] = NewJob(0)] /\ UNCHANGED <<proc, delivery>>
  BY DEF Enqueue, hookVars
<1>4. PICK row : row = NewJob(0)
  OBVIOUS
<1>5. /\ delivery' = [d \in Deliveries |-> delivery'[d]]
      /\ \A d \in Deliveries : delivery'[d] # NoDelivery => delivery'[d].job \in Webhooks
  BY <1>3 DEF AttemptsInv, Shapes
<1> QED BY <1>1, <1>2, <1>3, <1>4, <1>5, RowChanged

(* Retention takes no job a processor holds.                               *)
LEMMA PurgeStep ==
  ASSUME AttemptsInv, NEW j \in Jobs, Purge(j)
  PROVE  AttemptsInv'
<1>1. IsRow(NoJob) /\ NoJob.attempts = 0
  BY DEF IsRow, NoJob
<1>2. /\ job' = [job EXCEPT ![j] = NoJob] /\ UNCHANGED proc
      /\ \A p \in Processors : ~Held(p, j)
  BY DEF Purge
<1>3. /\ delivery' = [d \in Deliveries |-> delivery'[d]]
      /\ \A d \in Deliveries : delivery'[d] # NoDelivery => delivery'[d].job \in Webhooks
  BY DEF Purge, AttemptsInv, Shapes
<1> QED BY <1>1, <1>2, <1>3, RowChanged

(* A redelivery takes attempts back only from the row of a webhook.        *)
LEMMA RequeueStep ==
  ASSUME AttemptsInv, NEW d \in Deliveries, Requeue(d)
  PROVE  AttemptsInv'
<1>1. delivery[d].job \in Webhooks /\ delivery[d].job \in Jobs
  BY JobConstants DEF Requeue, AttemptsInv, Shapes
<1>2. PICK k \in Jobs : k = delivery[d].job /\ k \in Webhooks
  BY <1>1
<1>3. PICK row : row = Requeued(job[k], delivery[d])
  OBVIOUS
<1>4. /\ job' = [job EXCEPT ![k] = row] /\ UNCHANGED proc
      /\ delivery' = [delivery EXCEPT ![d] = NoDelivery]
  BY <1>2, <1>3 DEF Requeue
<1>5. IsRow(row) /\ row.attempts \in {0, job[k].attempts}
  <2>1. IsRow(job[k])
    BY <1>2 DEF AttemptsInv, Shapes
  <2> QED BY <1>3, <2>1 DEF Requeued, IsRow
<1>6. /\ delivery' = [e \in Deliveries |-> delivery'[e]]
      /\ \A e \in Deliveries : delivery'[e] # NoDelivery => delivery'[e].job \in Webhooks
  BY <1>4 DEF AttemptsInv, Shapes
<1> QED BY <1>2, <1>4, <1>5, <1>6, RowChanged

(* The steps that change neither. *)
LEMMA DeliveryStep ==
  ASSUME AttemptsInv, UNCHANGED <<job, proc>>,
         delivery' = [d \in Deliveries |-> delivery'[d]],
         \A d \in Deliveries : delivery'[d] # NoDelivery => delivery'[d].job \in Webhooks
  PROVE  AttemptsInv'
<1>1. Shapes'
  BY DEF AttemptsInv, Shapes, Executing
<1>2. AttemptsBounded' /\ ClaimsCounted' /\ ClaimsApart'
  BY DEF AttemptsInv, AttemptsBounded, ClaimsCounted, ClaimsApart, Claimed
<1> QED BY <1>1, <1>2 DEF AttemptsInv

(* Every step keeps the counts of attempts.                                *)
LEMMA AttemptsStep == AttemptsInv /\ [JobsNext]_jobVars => AttemptsInv'
<1> SUFFICES ASSUME AttemptsInv, [JobsNext]_jobVars PROVE AttemptsInv'
  OBVIOUS
<1>1. ASSUME NEW j \in Jobs, Enqueue(j, 0) \/ Purge(j) PROVE AttemptsInv'
  BY <1>1, EnqueueStep, PurgeStep
<1>2. ASSUME NEW p \in Processors, Process(p) \/ Crash(p) PROVE AttemptsInv'
  BY <1>2, RecoverStep, FetchStep, RunEnds, CrashStep DEF Process
<1>3. ASSUME NEW d \in Deliveries, NEW j \in Webhooks, ReadRedelivered(d, j) PROVE AttemptsInv'
  <2>1. delivery' = [delivery EXCEPT ![d] = CopyOf(j)] /\ UNCHANGED <<job, proc>>
    BY <1>3 DEF ReadRedelivered
  <2>2. CopyOf(j).job = j
    BY DEF CopyOf
  <2>3. /\ delivery' = [e \in Deliveries |-> delivery'[e]]
        /\ \A e \in Deliveries : delivery'[e] # NoDelivery => delivery'[e].job \in Webhooks
    BY <2>1, <2>2 DEF AttemptsInv, Shapes
  <2> QED BY <2>1, <2>3, DeliveryStep
<1>4. ASSUME NEW d \in Deliveries, Requeue(d) PROVE AttemptsInv'
  BY <1>4, RequeueStep
<1>5. ASSUME NEW d \in Deliveries, DeliveryLost(d) PROVE AttemptsInv'
  <2>1. delivery' = [delivery EXCEPT ![d] = NoDelivery] /\ UNCHANGED <<job, proc>>
    BY <1>5 DEF DeliveryLost
  <2>2. /\ delivery' = [e \in Deliveries |-> delivery'[e]]
        /\ \A e \in Deliveries : delivery'[e] # NoDelivery => delivery'[e].job \in Webhooks
    BY <2>1 DEF AttemptsInv, Shapes
  <2> QED BY <2>1, <2>2, DeliveryStep
<1>6. CASE Tick
  BY <1>6, TickStep
<1>7. CASE UNCHANGED jobVars
  <2>1. UNCHANGED <<job, proc, delivery>>
    BY <1>7 DEF jobVars
  <2> QED BY <2>1, DeliveryStep DEF AttemptsInv, Shapes
<1> QED BY <1>1, <1>2, <1>3, <1>4, <1>5, <1>6, <1>7 DEF JobsNext

(* The rows have counted every attempt that is held, always.               *)
LEMMA AttemptsInvariant == JobsSpec => []AttemptsInv
BY AttemptsInit, AttemptsStep, PTL DEF JobsSpec

(* No job is started more often than its max_attempts, whatever recovery,  *)
(* late writers, cancellations, crashes and redeliveries do to its row     *)
(* (_fetch_and_lock_batch, _apply_failure_transition).                     *)
THEOREM StartsBounded == JobsSpec => []AttemptsBounded
<1>1. AttemptsInv => AttemptsBounded
  BY DEF AttemptsInv
<1> QED BY <1>1, AttemptsInvariant, PTL

(* No two processors hold the same attempt of a job that is no webhook,    *)
(* though both may hold the job (FOR UPDATE SKIP LOCKED and attempts += 1  *)
(* in _fetch_and_lock_batch).                                              *)
THEOREM AttemptsApart == JobsSpec => []NoAttemptShared
<1>1. AttemptsInv => NoAttemptShared
  BY DEF AttemptsInv, ClaimsApart, Claimed, NoAttemptShared
<1> QED BY <1>1, AttemptsInvariant, PTL

-----------------------------------------------------------------------------
(***************************************************************************)
(* The runs themselves.  A row that is started is well timed unless a      *)
(* redelivery was late; the jobs a processor holds were started no longer  *)
(* ago than the handlers it has been through may take.                     *)
(***************************************************************************)
WellTimed(row) ==
  /\ row.status = "RUNNING" => row.age # NotStarted
  /\ row.status = "PENDING" => row.age = NotStarted

RowsTyped ==
  /\ job \in [Jobs -> JobRows] /\ lockTimeout \in LockTimeouts /\ raced \subseteq Webhooks
  /\ \A j \in Jobs \ raced : WellTimed(job[j])

Distinct(b) == \A m, n \in DOMAIN b : b[m].job = b[n].job => m = n

BatchTyped(p) ==
  proc[p].ran <= JobTimeout /\ Len(proc[p].batch) <= BatchLimit /\ Distinct(proc[p].batch)

Late(p) == (BatchLimit - Len(proc[p].batch)) * JobTimeout + proc[p].ran

Owned(p, c) ==
  /\ \A q \in Processors \ {p} : ~Held(q, c.job)
  /\ job[c.job].status = "RUNNING" /\ job[c.job].attempts = c.attempt
  /\ job[c.job].age <= Late(p)

Runs == BatchFits => \A p \in Processors : \A c \in Claimed(p) : c.job \notin raced => Owned(p, c)

(* What a redelivery has read is no run of now: it is of an earlier        *)
(* attempt, or of a run that has been given up.                            *)
CopyOld(d) ==
  delivery[d] # NoDelivery /\ delivery[d].job \notin raced =>
    /\ delivery[d].attempts \in 0 .. job[delivery[d].job].attempts
    /\ (/\ BatchFits /\ job[delivery[d].job].status = "RUNNING"
        /\ delivery[d].attempts = job[delivery[d].job].attempts)
         => \A p \in Processors : ~Held(p, delivery[d].job)

OneCopy ==
  \A d, e \in Deliveries :
    (/\ delivery[d] # NoDelivery /\ delivery[e] # NoDelivery
     /\ delivery[d].job = delivery[e].job /\ delivery[d].job \notin raced)
      => d = e

QueueInv ==
  /\ AttemptsInv /\ RowsTyped /\ Runs /\ OneCopy
  /\ \A p \in Processors : BatchTyped(p)
  /\ \A d \in Deliveries : CopyOld(d)

(* A power of two counts the subsets of a set, so back-offs are natural.   *)
LEMMA BackoffType == \A n \in Nat : Backoff(n) \in Nat
<1>1. ASSUME NEW n \in Nat PROVE 2 ^ n \in Nat
  <2>1. IsFiniteSet(1 .. n) /\ Cardinality(1 .. n) = n
    BY FS_Interval
  <2>2. IsFiniteSet(SUBSET (1 .. n)) /\ Cardinality(SUBSET (1 .. n)) = 2 ^ n
    BY <2>1, FS_SUBSET
  <2> QED BY <2>2, FS_CardinalityType
<1> SUFFICES ASSUME NEW n \in Nat PROVE Backoff(n) \in Nat
  OBVIOUS
<1>2. PICK k \in Nat : k = IF n > 0 THEN n - 1 ELSE 0
  OBVIOUS
<1>3. PICK power \in Nat : power = 2 ^ k
  BY <1>1
<1>4. BackoffBase * power \in Nat
  BY JobConstants
<1> QED BY <1>2, <1>3, <1>4 DEF Backoff

(* What becomes of a row is a row.                                         *)
LEMMA RowTypes ==
  ASSUME lockTimeout \in Nat, NEW row \in JobRows, NEW j \in Jobs, NEW n \in Nat,
         NEW permanent \in BOOLEAN, NEW status \in Terminal
  PROVE  /\ Ended(row, status) \in JobRows /\ WellTimed(Ended(row, status))
         /\ Failed(row, j, n, permanent) \in JobRows /\ WellTimed(Failed(row, j, n, permanent))
         /\ Cancelled(row) \in JobRows /\ WellTimed(Cancelled(row))
         /\ Started(row) \in JobRows /\ WellTimed(Started(row))
         /\ Later(row) \in JobRows /\ (WellTimed(row) => WellTimed(Later(row)))
         /\ [row EXCEPT !.age = NotStarted] \in JobRows
<1>1. /\ row.status \in Statuses /\ row.attempts \in Nat /\ row.wait \in Nat
      /\ row.age \in {NotStarted} \cup (0 .. lockTimeout) /\ NotStarted = -1
      /\ row = [status |-> row.status, attempts |-> row.attempts, wait |-> row.wait, age |-> row.age]
  BY DEF JobRows, NotStarted
<1>2. ASSUME NEW s \in Terminal PROVE Ended(row, s) \in JobRows /\ WellTimed(Ended(row, s))
  <2>1. PICK age \in {NotStarted} \cup (0 .. lockTimeout) :
          age = IF row.age = NotStarted THEN row.age ELSE 0
    BY <1>1
  <2>2. Ended(row, s) = [row EXCEPT !.status = s, !.wait = 0, !.age = age]
    BY <1>1, <2>1 DEF Ended
  <2>3. s \in Statuses /\ s # "RUNNING" /\ s # "PENDING"
    BY DEF Terminal, Statuses
  <2>4. Ended(row, s) = [status |-> s, attempts |-> row.attempts, wait |-> 0, age |-> age]
    BY <1>1, <2>2
  <2>5. Ended(row, s).status = s /\ Ended(row, s) \in JobRows
    BY <1>1, <2>3, <2>4 DEF JobRows
  <2> QED BY <2>3, <2>5 DEF WellTimed
<1>3. Failed(row, j, n, permanent) \in JobRows /\ WellTimed(Failed(row, j, n, permanent))
  <2>1. PICK wait \in Nat : wait = Backoff(n)
    BY BackoffType
  <2>2. [row EXCEPT !.status = "PENDING", !.wait = wait, !.age = NotStarted] \in JobRows
    BY <1>1 DEF JobRows, Statuses
  <2>3. WellTimed([row EXCEPT !.status = "PENDING", !.wait = wait, !.age = NotStarted])
    BY <1>1 DEF WellTimed
  <2>4. "DEAD_LETTER" \in Terminal
    BY DEF Terminal
  <2>5. Ended(row, "DEAD_LETTER") \in JobRows /\ WellTimed(Ended(row, "DEAD_LETTER"))
    BY <1>2, <2>4
  <2>6. \/ Failed(row, j, n, permanent) = Ended(row, "DEAD_LETTER")
        \/ Failed(row, j, n, permanent)
             = [row EXCEPT !.status = "PENDING", !.wait = wait, !.age = NotStarted]
    BY <2>1 DEF Failed
  <2> QED BY <2>2, <2>3, <2>5, <2>6
<1>4. Cancelled(row) \in JobRows /\ WellTimed(Cancelled(row))
  BY <1>1 DEF Cancelled, JobRows, WellTimed, Statuses
<1>5. Started(row) \in JobRows /\ WellTimed(Started(row))
  <2>1. 0 \in {NotStarted} \cup (0 .. lockTimeout) /\ 0 # NotStarted
    BY <1>1
  <2>2. row.attempts + 1 \in Nat
    BY <1>1
  <2> QED BY <1>1, <2>1, <2>2 DEF Started, JobRows, WellTimed, Statuses
<1>6. Later(row) \in JobRows /\ (WellTimed(row) => WellTimed(Later(row)))
  <2>1. PICK wait \in Nat : wait = IF row.wait > 0 THEN row.wait - 1 ELSE 0
    BY <1>1
  <2>2. PICK age \in {NotStarted} \cup (0 .. lockTimeout) :
          /\ age = IF row.age \in 0 .. lockTimeout - 1 THEN row.age + 1 ELSE row.age
          /\ age = NotStarted <=> row.age = NotStarted
    BY <1>1
  <2>3. Later(row) = [row EXCEPT !.wait = wait, !.age = age]
    BY <1>1, <2>1, <2>2 DEF Later
  <2>4. Later(row).status = row.status /\ Later(row).age = age /\ Later(row) \in JobRows
    BY <1>1, <2>3 DEF JobRows
  <2> QED BY <2>2, <2>4 DEF WellTimed
<1>7. [row EXCEPT !.age = NotStarted] \in JobRows
  BY <1>1 DEF JobRows
<1> QED BY <1>2, <1>3, <1>4, <1>5, <1>6, <1>7

(* What the invariant says of types.                                       *)
LEMMA JobTypes ==
  ASSUME QueueInv
  PROVE  /\ lockTimeout \in Nat \ {0} /\ BatchLimit \in Nat \ {0} /\ JobTimeout \in Nat
         /\ \A j \in Jobs : /\ job[j] \in JobRows /\ job[j].attempts \in Nat
                            /\ job[j].age \in {NotStarted} \cup (0 .. lockTimeout)
         /\ \A p \in Processors :
              /\ proc[p].ran \in Nat /\ Len(proc[p].batch) \in 0 .. BatchLimit /\ Late(p) \in Nat
              /\ proc[p].batch \in Seq(Claims) /\ Claimed(p) \subseteq Claims
<1>1. lockTimeout \in Nat \ {0} /\ BatchLimit \in Nat \ {0} /\ JobTimeout \in Nat
  BY JobConstants DEF QueueInv, RowsTyped
<1>2. ASSUME NEW j \in Jobs
      PROVE  /\ job[j] \in JobRows /\ job[j].attempts \in Nat
             /\ job[j].age \in {NotStarted} \cup (0 .. lockTimeout)
  <2>1. job[j] \in JobRows
    BY DEF QueueInv, RowsTyped
  <2> QED BY <2>1 DEF JobRows
<1>3. ASSUME NEW p \in Processors
      PROVE  /\ proc[p].ran \in Nat /\ Len(proc[p].batch) \in 0 .. BatchLimit /\ Late(p) \in Nat
             /\ proc[p].batch \in Seq(Claims) /\ Claimed(p) \subseteq Claims
  <2>1. proc[p].ran \in Nat /\ proc[p].batch \in Seq(Claims)
    BY DEF QueueInv, AttemptsInv, Shapes
  <2>2. Len(proc[p].batch) \in Nat
    BY <2>1, LenProperties
  <2>3. Len(proc[p].batch) <= BatchLimit
    BY DEF QueueInv, BatchTyped
  <2>4. PICK left \in Nat : left = BatchLimit - Len(proc[p].batch)
    <3>1. BatchLimit - Len(proc[p].batch) \in Nat
      BY <1>1, <2>2, <2>3
    <3> QED BY <3>1
  <2>5. left * JobTimeout \in Nat
    BY <1>1
  <2>6. Late(p) \in Nat
    BY <2>1, <2>4, <2>5 DEF Late
  <2> QED BY <1>1, <2>1, <2>2, <2>3, <2>6, ClaimTypes DEF QueueInv, AttemptsInv
<1> QED BY <1>1, <1>2, <1>3

(* A batch that fits ends before any of its jobs counts as stale.          *)
LEMMA NotStale ==
  ASSUME QueueInv, BatchFits, NEW p \in Processors, NEW c \in Claimed(p), c.job \notin raced
  PROVE  /\ job[c.job].status = "RUNNING" /\ ~Stale(c.job)
         /\ job[c.job].attempts = c.attempt /\ job[c.job].age <= Late(p)
         /\ \A q \in Processors \ {p} : ~Held(q, c.job)
<1>1. Owned(p, c) /\ c.job \in Jobs
  BY JobTypes DEF QueueInv, Runs, Claims
<1>2. Len(proc[p].batch) >= 1
  <2>1. PICK n \in DOMAIN proc[p].batch : c = proc[p].batch[n]
    BY DEF Claimed
  <2>2. proc[p].batch \in Seq(Claims)
    BY JobTypes
  <2> QED BY <2>1, <2>2, LenProperties
<1>3. PICK left \in Nat : left = BatchLimit - Len(proc[p].batch) /\ left + 1 <= BatchLimit
  BY <1>2, JobTypes
<1>4. left * JobTimeout + JobTimeout <= BatchLimit * JobTimeout
  <2>1. PICK more \in Nat : BatchLimit = left + 1 + more
    <3>1. BatchLimit - (left + 1) \in Nat /\ BatchLimit = left + 1 + (BatchLimit - (left + 1))
      <4>1. BatchLimit \in Nat /\ left \in Nat /\ left + 1 <= BatchLimit
        BY <1>3, JobConstants
      <4> QED BY <4>1
    <3> QED BY <3>1
  <2>2. (left + 1 + more) * JobTimeout = left * JobTimeout + JobTimeout + more * JobTimeout
    BY JobTypes
  <2>3. left * JobTimeout \in Nat /\ more * JobTimeout \in Nat
    BY JobTypes
  <2> QED BY <2>1, <2>2, <2>3, JobTypes
<1>5. Late(p) = left * JobTimeout + proc[p].ran /\ proc[p].ran <= JobTimeout
  BY <1>3 DEF Late, QueueInv, BatchTyped
<1>6. PICK spent \in Nat, all \in Nat : spent = left * JobTimeout /\ all = BatchLimit * JobTimeout
  BY JobTypes
<1>7. Late(p) < lockTimeout
  BY <1>4, <1>5, <1>6, JobTypes DEF BatchFits
<1>8. job[c.job].age \in Int /\ Late(p) \in Nat /\ lockTimeout \in Nat
  BY <1>1, JobTypes DEF NotStarted
<1>9. ~(job[c.job].age >= lockTimeout)
  BY <1>1, <1>7, <1>8 DEF Owned
<1> QED BY <1>1, <1>9 DEF Owned, Stale

(* A processor that goes on with the rest of its batch.                    *)
LEMMA RestRuns ==
  ASSUME QueueInv, NEW p \in Processors, Executing(p)
  PROVE  /\ Rest(p).ran = 0 /\ Len(Rest(p).batch) \in 0 .. BatchLimit /\ Distinct(Rest(p).batch)
         /\ \A n \in DOMAIN Rest(p).batch : /\ Rest(p).batch[n].job # Current(p)
                                            /\ Rest(p).batch[n] \in Claimed(p)
         /\ Rest(p).batch # <<>> => (BatchLimit - Len(Rest(p).batch)) * JobTimeout >= Late(p)
         /\ Head(proc[p].batch) \in Claims /\ Head(proc[p].batch) \in Claimed(p)
<1> DEFINE batch == proc[p].batch
<1>1. /\ batch \in Seq(Claims) /\ batch # <<>> /\ Distinct(batch) /\ Len(batch) \in 0 .. BatchLimit
      /\ proc[p].ran <= JobTimeout /\ proc[p].ran \in Nat
      /\ BatchLimit \in Nat /\ JobTimeout \in Nat
  BY JobTypes DEF QueueInv, AttemptsInv, Shapes, Executing, BatchTyped
<1>2. \A n \in DOMAIN batch : batch[n] \in Claimed(p)
  BY DEF Claimed
<1>3. Current(p) = Head(batch).job
  BY DEF Current
<1>4. Late(p) = (BatchLimit - Len(batch)) * JobTimeout + proc[p].ran
  BY DEF Late
<1>5. Rest(p) = IF Len(batch) = 1 THEN Idle ELSE [at |-> "running", batch |-> Tail(batch), ran |-> 0]
  BY DEF Rest
<1> HIDE DEF batch
<1>6. /\ Len(batch) \in Nat \ {0} /\ DOMAIN batch = 1 .. Len(batch)
      /\ Tail(batch) \in Seq(Claims) /\ Len(Tail(batch)) = Len(batch) - 1
      /\ \A i \in 1 .. Len(Tail(batch)) : Tail(batch)[i] = batch[i + 1]
      /\ Head(batch) = batch[1]
  BY <1>1, EmptySeq, LenProperties, HeadTailProperties
<1>7. DOMAIN Tail(batch) = 1 .. Len(Tail(batch))
  BY <1>6, LenProperties
<1>8. Head(batch) \in Claims /\ Head(batch) \in Claimed(p)
  BY <1>1, <1>2, <1>6, HeadTailProperties
<1>9. CASE Len(batch) = 1
  <2>1. Rest(p) = [at |-> "idle", batch |-> <<>>, ran |-> 0]
    BY <1>5, <1>9 DEF Idle
  <2>2. Len(<<>>) = 0 /\ DOMAIN <<>> = {}
    OBVIOUS
  <2> QED BY <1>1, <1>8, <2>1, <2>2 DEF Distinct, batch
<1>10. CASE Len(batch) # 1
  <2>1. Rest(p).batch = Tail(batch) /\ Rest(p).ran = 0
    BY <1>5, <1>10
  <2>2. \A n \in DOMAIN Tail(batch) : /\ n + 1 \in DOMAIN batch /\ n + 1 # 1 /\ 1 \in DOMAIN batch
                                      /\ Tail(batch)[n] = batch[n + 1]
    BY <1>6, <1>7
  <2>3. \A n \in DOMAIN Tail(batch) : /\ Tail(batch)[n].job # Head(batch).job
                                      /\ Tail(batch)[n] \in Claimed(p)
    BY <1>1, <1>2, <1>6, <2>2 DEF Distinct
  <2>4. Distinct(Tail(batch))
    <3> SUFFICES ASSUME NEW m \in DOMAIN Tail(batch), NEW n \in DOMAIN Tail(batch),
                        Tail(batch)[m].job = Tail(batch)[n].job
                 PROVE  m = n
      BY DEF Distinct
    <3>1. m + 1 = n + 1
      BY <1>1, <2>2 DEF Distinct
    <3> QED BY <1>6, <1>7, <3>1
  <2>5. Len(Tail(batch)) \in 0 .. BatchLimit
    BY <1>1, <1>6
  <2>6. (BatchLimit - Len(Tail(batch))) * JobTimeout >= Late(p)
    <3>1. PICK left \in Nat : left = BatchLimit - Len(batch)
      BY <1>1
    <3>2. BatchLimit - Len(Tail(batch)) = left + 1
      BY <1>1, <1>6, <3>1
    <3>3. (left + 1) * JobTimeout = left * JobTimeout + JobTimeout
      BY <1>1
    <3>4. left * JobTimeout \in Nat
      BY <1>1
    <3> QED BY <1>1, <1>4, <3>1, <3>2, <3>3, <3>4
  <2> QED BY <1>3, <1>8, <2>1, <2>3, <2>4, <2>5, <2>6 DEF batch
<1> QED BY <1>9, <1>10

(***************************************************************************)
(* A quiet step hands no job out and lets no time pass: processors only    *)
(* let go of jobs, and a row is written only when nobody holds it after,   *)
(* or a redelivery of it has raced.                                        *)
(***************************************************************************)
Fewer(q) ==
  /\ Claimed(q)' \subseteq Claimed(q) /\ (Claimed(q)' # {} => Late(q)' >= Late(q))
  /\ BatchTyped(q)'

RowQuiet(j) ==
  \/ job'[j] = job[j]
  \/ /\ job'[j] \in JobRows
     /\ j \in raced' \/ (WellTimed(job'[j]) /\ (BatchFits => \A q \in Processors : ~Held(q, j)'))

CopyQuiet(d) ==
  \/ delivery'[d] = NoDelivery
  \/ delivery'[d].job \in raced'
  \/ delivery'[d] = delivery[d] /\ job'[delivery[d].job].attempts = job[delivery[d].job].attempts
  \/ CopyOld(d)'

Quiet ==
  /\ raced \subseteq raced' /\ raced' \subseteq Webhooks /\ UNCHANGED lockTimeout
  /\ job' = [j \in Jobs |-> job'[j]] /\ \A j \in Jobs : RowQuiet(j)
  /\ \A q \in Processors : Fewer(q)
  /\ \A d \in Deliveries : CopyQuiet(d)
  /\ OneCopy'

(* To hold a job is to hold a claim of it.                                 *)
LEMMA Holders ==
  ASSUME NEW q, NEW j PROVE Held(q, j) <=> \E c \in Claimed(q) : c.job = j
BY DEF Held, Claimed

(* So it is after a step.                                                  *)
LEMMA HoldersAfter ==
  ASSUME NEW q, NEW j PROVE Held(q, j)' <=> \E c \in Claimed(q)' : c.job = j
BY DEF Held, Claimed

(* A quiet step keeps all that is promised of the runs.                    *)
LEMMA QuietStep ==
  ASSUME QueueInv, AttemptsInv', Quiet
  PROVE  QueueInv'
<1>1. /\ raced \subseteq raced' /\ lockTimeout' = lockTimeout /\ JobRows' = JobRows
      /\ BatchFits' = BatchFits
  BY DEF Quiet, JobRows, BatchFits
<1>2. \A q \in Processors : \A j : Held(q, j)' => Held(q, j)
  BY Holders, HoldersAfter DEF Quiet, Fewer
<1>3. RowsTyped'
  <2>1. ASSUME NEW j \in Jobs PROVE job'[j] \in JobRows
    BY JobTypes DEF Quiet, RowQuiet
  <2>2. job' \in [Jobs -> JobRows]
    BY <2>1 DEF Quiet
  <2>3. ASSUME NEW j \in Jobs \ raced' PROVE WellTimed(job'[j])
    <3>1. WellTimed(job[j])
      BY <1>1 DEF QueueInv, RowsTyped
    <3> QED BY <3>1 DEF Quiet, RowQuiet
  <2>4. \A j \in Jobs \ raced' : WellTimed(job[j])'
    BY <2>3 DEF WellTimed
  <2>5. lockTimeout' \in LockTimeouts /\ raced' \subseteq Webhooks
    BY DEF Quiet, QueueInv, RowsTyped
  <2> QED BY <1>1, <2>2, <2>4, <2>5 DEF RowsTyped
<1>4. Runs'
  <2> SUFFICES ASSUME BatchFits, NEW p \in Processors, NEW c \in Claimed(p)', c.job \notin raced'
               PROVE  Owned(p, c)'
    BY <1>1 DEF Runs
  <2>1. c \in Claimed(p) /\ c.job \notin raced /\ Claimed(p)' # {}
    BY <1>1 DEF Quiet, Fewer
  <2>2. /\ job[c.job].status = "RUNNING" /\ job[c.job].attempts = c.attempt
        /\ job[c.job].age <= Late(p) /\ \A q \in Processors \ {p} : ~Held(q, c.job)
    BY <2>1, NotStale
  <2>3. c.job \in Jobs
    BY <2>1, JobTypes DEF Claims
  <2>4. Held(p, c.job)'
    BY HoldersAfter
  <2>5. job'[c.job] = job[c.job]
    BY <2>3, <2>4 DEF Quiet, RowQuiet
  <2>6. Late(p) <= Late(p)' /\ Late(p) \in Nat /\ Late(p)' \in Int
    <3>1. Late(p) <= Late(p)' /\ Late(p) \in Nat
      BY <2>1, JobTypes DEF Quiet, Fewer
    <3>2. /\ proc'[p].ran \in Nat /\ Len(proc'[p].batch) \in Nat
          /\ BatchLimit \in Int /\ JobTimeout \in Int
      <4>1. proc'[p].ran \in Nat /\ proc'[p].batch \in Seq(Claims)
        BY DEF AttemptsInv, Shapes
      <4> QED BY <4>1, JobConstants, LenProperties
    <3>3. Late(p)' = (BatchLimit - Len(proc'[p].batch)) * JobTimeout + proc'[p].ran
      BY DEF Late
    <3>4. PICK left \in Int : left = BatchLimit - Len(proc'[p].batch)
      <4>1. BatchLimit - Len(proc'[p].batch) \in Int
        BY <3>2
      <4> QED BY <4>1
    <3>5. left * JobTimeout \in Int
      BY <3>2
    <3> QED BY <3>1, <3>2, <3>3, <3>4, <3>5
  <2>7. job[c.job].age \in Int
    BY <2>3, JobTypes DEF NotStarted
  <2>8. job'[c.job].age <= Late(p)'
    BY <2>2, <2>5, <2>6, <2>7
  <2>9. \A q \in Processors \ {p} : ~Held(q, c.job)'
    BY <1>2, <2>2
  <2> QED BY <2>2, <2>5, <2>8, <2>9 DEF Owned
<1>5. ASSUME NEW d \in Deliveries PROVE CopyOld(d)'
  <2>1. SUFFICES ASSUME delivery'[d] # NoDelivery, delivery'[d].job \notin raced',
                        delivery'[d] = delivery[d],
                        job'[delivery[d].job].attempts = job[delivery[d].job].attempts
                 PROVE  CopyOld(d)'
    BY DEF Quiet, CopyQuiet, CopyOld
  <2>2. PICK j \in Jobs : j = delivery[d].job /\ j \notin raced
    BY <1>1, <2>1, JobConstants DEF QueueInv, AttemptsInv, Shapes
  <2>3. /\ delivery[d].attempts \in 0 .. job[j].attempts
        /\ (BatchFits /\ job[j].status = "RUNNING" /\ delivery[d].attempts = job[j].attempts)
             => \A p \in Processors : ~Held(p, j)
    BY <2>1, <2>2 DEF QueueInv, CopyOld
  <2>4. /\ delivery'[d].attempts \in 0 .. job'[j].attempts
        /\ (BatchFits /\ job'[j].status = "RUNNING" /\ delivery'[d].attempts = job'[j].attempts)
             => \A p \in Processors : ~Held(p, j)'
    <3>1. CASE job'[j] = job[j]
      BY <1>2, <2>1, <2>2, <2>3, <3>1
    <3>2. CASE job'[j] # job[j]
      <4>1. BatchFits => \A q \in Processors : ~Held(q, j)'
        BY <2>1, <2>2, <3>2 DEF Quiet, RowQuiet
      <4> QED BY <2>1, <2>2, <2>3, <4>1
    <3> QED BY <3>1, <3>2
  <2>5. delivery'[d].job = j /\ BatchFits' = BatchFits
    BY <1>1, <2>1, <2>2
  <2> QED BY <2>4, <2>5 DEF CopyOld, Held
<1>6. \A p \in Processors : BatchTyped(p)'
  BY DEF Quiet, Fewer
<1> QED BY <1>3, <1>4, <1>5, <1>6 DEF QueueInv, Quiet

(* A step of no processor.                                                 *)
LEMMA NobodyMoves ==
  ASSUME QueueInv,
         \A q \in Processors : proc'[q].batch = proc[q].batch /\ proc'[q].ran = proc[q].ran
  PROVE  \A q \in Processors : Fewer(q)
<1>1. ASSUME NEW q \in Processors
      PROVE  Claimed(q)' = Claimed(q) /\ Late(q)' = Late(q) /\ BatchTyped(q)' /\ Late(q) \in Nat
  BY JobTypes DEF QueueInv, Claimed, Late, BatchTyped
<1> QED BY <1>1 DEF Fewer

(* A processor that lets go of jobs.                                       *)
LEMMA OneMoves ==
  ASSUME QueueInv, NEW p \in Processors, NEW rest, proc' = [proc EXCEPT ![p] = rest],
         rest.ran = 0, Len(rest.batch) \in 0 .. BatchLimit, Distinct(rest.batch),
         \A n \in DOMAIN rest.batch : rest.batch[n] \in Claimed(p),
         (\E n \in DOMAIN rest.batch : TRUE) =>
            (BatchLimit - Len(rest.batch)) * JobTimeout >= Late(p)
  PROVE  /\ \A q \in Processors : Fewer(q)
         /\ \A j : Held(p, j)' => \E n \in DOMAIN rest.batch : rest.batch[n].job = j
         /\ \A q \in Processors \ {p} : \A j : Held(q, j)' <=> Held(q, j)
<1>1. \A q \in Processors : proc'[q] = IF q = p THEN rest ELSE proc[q]
  BY DEF QueueInv, AttemptsInv, Shapes
<1>2. Claimed(p)' = {rest.batch[n] : n \in DOMAIN rest.batch}
  BY <1>1 DEF Claimed
<1>3. Late(p)' = (BatchLimit - Len(rest.batch)) * JobTimeout
  <2>1. Late(p)' = (BatchLimit - Len(rest.batch)) * JobTimeout + 0
    BY <1>1 DEF Late
  <2>2. (BatchLimit - Len(rest.batch)) * JobTimeout \in Int
    <3>1. PICK left \in Int : left = BatchLimit - Len(rest.batch)
      <4>1. BatchLimit - Len(rest.batch) \in Int
        BY JobConstants
      <4> QED BY <4>1
    <3>2. left * JobTimeout \in Int
      BY JobConstants
    <3> QED BY <3>1, <3>2
  <2> QED BY <2>1, <2>2
<1>4. Fewer(p)
  <2>1. BatchTyped(p)'
    BY <1>1, JobTypes DEF BatchTyped
  <2> QED BY <1>2, <1>3, <2>1 DEF Fewer
<1>5. ASSUME NEW q \in Processors \ {p} PROVE Fewer(q) /\ \A j : Held(q, j)' <=> Held(q, j)
  <2>1. /\ Claimed(q)' = Claimed(q) /\ Late(q)' = Late(q) /\ BatchTyped(q)' /\ Late(q) \in Nat
    BY <1>1, JobTypes DEF QueueInv, Claimed, Late, BatchTyped
  <2>2. \A j : Held(q, j)' <=> Held(q, j)
    BY <1>1 DEF Held
  <2> QED BY <2>1, <2>2 DEF Fewer
<1>6. \A j : Held(p, j)' => \E n \in DOMAIN rest.batch : rest.batch[n].job = j
  BY <1>1 DEF Held
<1> QED BY <1>4, <1>5, <1>6

(* A step of no redelivery.                                                *)
LEMMA CopiesStay ==
  ASSUME QueueInv, UNCHANGED <<delivery, raced>>,
         \A j \in Jobs : job'[j].attempts = job[j].attempts
  PROVE  (\A d \in Deliveries : CopyQuiet(d)) /\ OneCopy'
<1>1. \A d \in Deliveries : delivery[d] # NoDelivery => delivery[d].job \in Jobs
  BY JobConstants DEF QueueInv, AttemptsInv, Shapes
<1>2. \A d \in Deliveries : CopyQuiet(d)
  BY <1>1 DEF CopyQuiet
<1>3. OneCopy'
  BY DEF QueueInv, OneCopy
<1> QED BY <1>2, <1>3

(* Nor does one that ends redeliveries part them.                          *)
LEMMA CopiesEnd ==
  ASSUME OneCopy, raced \subseteq raced',
         \A d \in Deliveries : delivery'[d] # NoDelivery => delivery'[d] = delivery[d]
  PROVE  OneCopy'
<1> SUFFICES ASSUME NEW d \in Deliveries, NEW e \in Deliveries,
                    delivery'[d] # NoDelivery, delivery'[e] # NoDelivery,
                    delivery'[d].job = delivery'[e].job, delivery'[d].job \notin raced'
             PROVE  d = e
  BY DEF OneCopy
<1>1. delivery'[d] = delivery[d] /\ delivery'[e] = delivery[e]
  OBVIOUS
<1> QED BY <1>1 DEF OneCopy

(* The end of a run is quiet: whatever is written, the job was this        *)
(* processor's only, or had raced.                                         *)
LEMMA WriteQuiet ==
  ASSUME QueueInv, NEW p \in Processors, Executing(p), NEW row \in JobRows, WellTimed(row),
         row.attempts = job[Current(p)].attempts, Write(p, row)
  PROVE  Quiet
<1>1. /\ job' = [job EXCEPT ![Current(p)] = row] /\ proc' = [proc EXCEPT ![p] = Rest(p)]
      /\ UNCHANGED <<delivery, raced, lockTimeout>>
  BY DEF Write, hookVars
<1>2. /\ Rest(p).ran = 0 /\ Len(Rest(p).batch) \in 0 .. BatchLimit /\ Distinct(Rest(p).batch)
      /\ \A n \in DOMAIN Rest(p).batch : /\ Rest(p).batch[n].job # Current(p)
                                         /\ Rest(p).batch[n] \in Claimed(p)
      /\ Rest(p).batch # <<>> => (BatchLimit - Len(Rest(p).batch)) * JobTimeout >= Late(p)
      /\ Head(proc[p].batch) \in Claims /\ Head(proc[p].batch) \in Claimed(p)
  BY RestRuns
<1>3. (\E n \in DOMAIN Rest(p).batch : TRUE) => Rest(p).batch # <<>>
  OBVIOUS
<1>4. /\ \A q \in Processors : Fewer(q)
      /\ \A j : Held(p, j)' => \E n \in DOMAIN Rest(p).batch : Rest(p).batch[n].job = j
      /\ \A q \in Processors \ {p} : \A j : Held(q, j)' <=> Held(q, j)
  BY <1>1, <1>2, <1>3, OneMoves
<1>5. PICK k \in Jobs : k = Current(p) /\ k = Head(proc[p].batch).job
  BY <1>2 DEF Current, Claims
<1>6. job' = [j \in Jobs |-> job'[j]] /\ \A j \in Jobs : job'[j] = IF j = k THEN row ELSE job[j]
  BY <1>1, <1>5 DEF QueueInv, RowsTyped
<1>7. ASSUME NEW j \in Jobs PROVE RowQuiet(j)
  <2>1. CASE j # k
    BY <1>6, <2>1 DEF RowQuiet
  <2>2. CASE j = k
    <3>1. ASSUME BatchFits, k \notin raced, NEW q \in Processors PROVE ~Held(q, k)'
      <4>1. CASE q = p
        BY <1>2, <1>4, <1>5, <4>1
      <4>2. CASE q # p
        BY <1>2, <1>4, <1>5, <3>1, <4>2, NotStale
      <4> QED BY <4>1, <4>2
    <3>2. job'[j] = row
      BY <1>6, <2>2
    <3> QED BY <1>1, <2>2, <3>1, <3>2 DEF RowQuiet
  <2> QED BY <2>1, <2>2
<1>8. (\A d \in Deliveries : CopyQuiet(d)) /\ OneCopy'
  BY <1>1, <1>5, <1>6, CopiesStay
<1>9. raced \subseteq raced' /\ raced' \subseteq Webhooks
  BY <1>1 DEF QueueInv, RowsTyped
<1> QED BY <1>1, <1>4, <1>6, <1>7, <1>8, <1>9 DEF Quiet

(* So is every way for a run to end.                                       *)
LEMMA RunEndsQuiet ==
  ASSUME QueueInv, NEW p \in Processors, Succeed(p) \/ Retry(p) \/ GiveUp(p) \/ Cancel(p)
  PROVE  Quiet
<1>1. Executing(p)
  BY DEF Succeed, Retry, GiveUp, Cancel
<1>2. Head(proc[p].batch) \in Claims
  BY <1>1, RestRuns
<1>3. PICK k \in Jobs, n \in Nat : k = Current(p) /\ n = Head(proc[p].batch).attempt
  BY <1>2 DEF Current, Claims
<1>4. PICK row \in JobRows : row = job[k]
  BY JobTypes
<1>5. /\ lockTimeout \in Nat /\ IsRow(row) /\ "COMPLETED" \in Terminal /\ "COMPLETED" # "ABSENT"
  BY <1>3, <1>4, JobTypes DEF QueueInv, AttemptsInv, Shapes, Terminal
<1>6. ASSUME NEW new \in JobRows, WellTimed(new), new.attempts = row.attempts, Write(p, new)
      PROVE  Quiet
  BY <1>1, <1>3, <1>4, <1>6, WriteQuiet
<1>7. CASE Succeed(p)
  <2>1. /\ Ended(row, "COMPLETED") \in JobRows /\ WellTimed(Ended(row, "COMPLETED"))
        /\ Ended(row, "COMPLETED").attempts = row.attempts
    BY <1>3, <1>5, RowTypes, RowsStay
  <2>2. Write(p, Ended(row, "COMPLETED"))
    BY <1>3, <1>4, <1>7 DEF Succeed, Completed
  <2> QED BY <1>6, <2>1, <2>2
<1>8. ASSUME NEW permanent \in BOOLEAN, Write(p, Failed(row, k, n, permanent)) PROVE Quiet
  <2>1. /\ Failed(row, k, n, permanent) \in JobRows /\ WellTimed(Failed(row, k, n, permanent))
    BY <1>3, <1>5, RowTypes
  <2>2. Failed(row, k, n, permanent).attempts = row.attempts
    BY <1>5, RowsStay
  <2> QED BY <1>6, <1>8, <2>1, <2>2
<1>9. CASE Retry(p)
  <2>1. Write(p, Failed(row, k, n, FALSE))
    BY <1>3, <1>4, <1>9 DEF Retry
  <2> QED BY <1>8, <2>1
<1>10. CASE GiveUp(p)
  <2>1. Write(p, Failed(row, k, n, TRUE))
    BY <1>3, <1>4, <1>10 DEF GiveUp
  <2> QED BY <1>8, <2>1
<1>11. CASE Cancel(p)
  <2>1. /\ Cancelled(row) \in JobRows /\ WellTimed(Cancelled(row))
    <3>1. \E permanent \in BOOLEAN : TRUE
      OBVIOUS
    <3> QED BY <1>3, <1>5, <3>1, RowTypes
  <2>2. Cancelled(row).attempts = row.attempts
    BY <1>3, <1>5, RowsStay
  <2>3. Write(p, Cancelled(row))
    BY <1>3, <1>4, <1>11 DEF Cancel
  <2> QED BY <1>6, <2>1, <2>2, <2>3
<1> QED BY <1>7, <1>9, <1>10, <1>11

(* Nobody holds a stale job, nor one that does not run.                    *)
LEMMA Unheld ==
  ASSUME QueueInv, BatchFits, NEW j, j \notin raced, Stale(j) \/ job[j].status # "RUNNING",
         NEW q \in Processors
  PROVE  ~Held(q, j)
<1> SUFFICES ASSUME Held(q, j) PROVE FALSE
  OBVIOUS
<1>1. PICK c \in Claimed(q) : c.job = j
  BY Holders
<1> QED BY <1>1, NotStale

(* Recovery takes nothing from a processor whose batch fits.               *)
LEMMA RecoverQuiet ==
  ASSUME QueueInv, NEW p \in Processors, RecoverStale(p) PROVE Quiet
<1>1. /\ proc' = [proc EXCEPT ![p].at = "fetching"] /\ UNCHANGED <<delivery, raced, lockTimeout>>
      /\ job' = [j \in Jobs |-> IF Stale(j) THEN Recovered(j) ELSE job[j]]
  BY DEF RecoverStale, hookVars
<1>2. \A q \in Processors : proc'[q].batch = proc[q].batch /\ proc'[q].ran = proc[q].ran
  BY <1>1 DEF QueueInv, AttemptsInv, Shapes
<1>3. \A q \in Processors : Fewer(q)
  BY <1>2, NobodyMoves
<1>4. ASSUME NEW j \in Jobs
      PROVE  /\ Recovered(j) \in JobRows /\ WellTimed(Recovered(j))
             /\ Recovered(j).attempts = job[j].attempts
  <2>1. PICK old \in JobRows : old = job[j] /\ old.attempts \in Nat
    BY JobTypes
  <2>2. PICK row : row = [old EXCEPT !.age = NotStarted]
    OBVIOUS
  <2>3. row \in JobRows /\ row.attempts = old.attempts /\ IsRow(row)
    <3>1. IsRow(old)
      BY <2>1 DEF QueueInv, AttemptsInv, Shapes
    <3> QED BY <2>1, <2>2, <3>1, JobTypes DEF JobRows, IsRow
  <2>4. PICK n \in Nat : n = old.attempts
    BY <2>1
  <2>5. Recovered(j) = Failed(row, j, n, FALSE)
    BY <2>1, <2>2, <2>4 DEF Recovered
  <2>6. Failed(row, j, n, FALSE) \in JobRows /\ WellTimed(Failed(row, j, n, FALSE))
    BY <2>3, JobTypes, RowTypes DEF Terminal
  <2>7. Failed(row, j, n, FALSE).attempts = row.attempts
    <3>1. "DEAD_LETTER" # "ABSENT"
      OBVIOUS
    <3>2. PICK permanent : permanent = FALSE
      OBVIOUS
    <3>3. Failed(row, j, n, permanent).attempts = row.attempts
      BY <2>3, <3>1, RowsStay
    <3> QED BY <3>2, <3>3
  <2> QED BY <2>1, <2>3, <2>5, <2>6, <2>7
<1>5. \A q \in Processors : \A j : Held(q, j)' <=> Held(q, j)
  BY <1>2 DEF Held
<1>6. ASSUME NEW j \in Jobs PROVE RowQuiet(j)
  <2>1. CASE Stale(j)
    <3>1. job'[j] = Recovered(j)
      BY <1>1, <2>1
    <3> QED BY <1>1, <1>4, <1>5, <2>1, <3>1, Unheld DEF RowQuiet
  <2>2. CASE ~Stale(j)
    BY <1>1, <2>2 DEF RowQuiet
  <2> QED BY <2>1, <2>2
<1>7. \A j \in Jobs : job'[j].attempts = job[j].attempts
  BY <1>1, <1>4
<1>8. (\A d \in Deliveries : CopyQuiet(d)) /\ OneCopy'
  BY <1>1, <1>7, CopiesStay
<1>9. raced \subseteq raced' /\ raced' \subseteq Webhooks /\ job' = [j \in Jobs |-> job'[j]]
  BY <1>1 DEF QueueInv, RowsTyped
<1> QED BY <1>1, <1>3, <1>6, <1>8, <1>9 DEF Quiet

(* A processor that dies lets go of all it holds.                          *)
LEMMA CrashQuiet ==
  ASSUME QueueInv, NEW p \in Processors, Crash(p) PROVE Quiet
<1>1. proc' = [proc EXCEPT ![p] = Idle] /\ UNCHANGED <<job, delivery, raced, lockTimeout>>
  BY DEF Crash, hookVars
<1>2. /\ Idle.ran = 0 /\ Len(Idle.batch) \in 0 .. BatchLimit /\ Distinct(Idle.batch)
      /\ ~\E n \in DOMAIN Idle.batch : TRUE
  <2>1. Len(<<>>) = 0 /\ DOMAIN <<>> = {}
    OBVIOUS
  <2> QED BY <2>1, JobConstants DEF Idle, Distinct
<1>3. \A q \in Processors : Fewer(q)
  BY <1>1, <1>2, OneMoves
<1>4. (\A d \in Deliveries : CopyQuiet(d)) /\ OneCopy'
  BY <1>1, CopiesStay
<1>5. /\ raced \subseteq raced' /\ raced' \subseteq Webhooks /\ job' = [j \in Jobs |-> job'[j]]
      /\ \A j \in Jobs : RowQuiet(j)
  BY <1>1 DEF QueueInv, RowsTyped, RowQuiet
<1> QED BY <1>1, <1>3, <1>4, <1>5 DEF Quiet

(* One row changes, that nobody holds.                                     *)
LEMMA RowWritten ==
  ASSUME QueueInv, NEW k \in Jobs, NEW row \in JobRows, job' = [job EXCEPT ![k] = row],
         UNCHANGED <<proc, lockTimeout>>, raced \subseteq raced', raced' \subseteq Webhooks,
         k \in raced' \/ (WellTimed(row) /\ (BatchFits => \A q \in Processors : ~Held(q, k))),
         \A d \in Deliveries : CopyQuiet(d), OneCopy'
  PROVE  Quiet
<1>1. \A q \in Processors : Fewer(q)
  BY NobodyMoves
<1>2. job' = [j \in Jobs |-> job'[j]] /\ \A j \in Jobs : job'[j] = IF j = k THEN row ELSE job[j]
  BY DEF QueueInv, RowsTyped
<1>3. \A q \in Processors : \A j : Held(q, j)' <=> Held(q, j)
  BY DEF Held
<1>4. \A j \in Jobs : RowQuiet(j)
  BY <1>2, <1>3 DEF RowQuiet
<1> QED BY <1>1, <1>2, <1>4 DEF Quiet

(* A free key and a new job are rows.                                      *)
LEMMA NoJobTypes ==
  ASSUME QueueInv PROVE /\ NoJob \in JobRows /\ WellTimed(NoJob) /\ NoJob.attempts = 0
                        /\ NewJob(0) \in JobRows /\ WellTimed(NewJob(0)) /\ NewJob(0).attempts = 0
<1>1. NoJob \in JobRows /\ WellTimed(NoJob) /\ NoJob.attempts = 0
  BY DEF NoJob, JobRows, WellTimed, Statuses
<1>2. PICK row \in JobRows : row = NoJob /\ row.attempts = 0 /\ row.age = NotStarted
  BY <1>1 DEF NoJob
<1>3. NewJob(0) = [row EXCEPT !.status = "PENDING", !.wait = 0]
  BY <1>2 DEF NewJob
<1>4. /\ NewJob(0) \in JobRows /\ NewJob(0).attempts = 0
      /\ NewJob(0).status = "PENDING" /\ NewJob(0).age = NotStarted
  BY <1>2, <1>3 DEF JobRows, Statuses
<1>5. WellTimed(NewJob(0))
  BY <1>4 DEF WellTimed
<1> QED BY <1>1, <1>4, <1>5

(* A new job is nobody's.                                                  *)
LEMMA EnqueueQuiet ==
  ASSUME QueueInv, NEW j \in Jobs, Enqueue(j, 0) PROVE Quiet
<1>1. /\ job' = [job EXCEPT ![j] = NewJob(0)] /\ UNCHANGED <<proc, delivery, raced, lockTimeout>>
      /\ job[j].status = "ABSENT"
  BY DEF Enqueue, hookVars
<1>2. PICK row \in JobRows : row = NewJob(0) /\ WellTimed(row) /\ row.attempts = 0
  BY NoJobTypes
<1>3. job[j].attempts = 0 /\ job = [k \in Jobs |-> job[k]]
  BY <1>1 DEF QueueInv, AttemptsInv, Shapes, IsRow
<1>4. \A k \in Jobs : job'[k].attempts = job[k].attempts
  BY <1>1, <1>2, <1>3
<1>5. (\A d \in Deliveries : CopyQuiet(d)) /\ OneCopy'
  BY <1>1, <1>4, CopiesStay
<1>6. j \in raced \/ (BatchFits => \A q \in Processors : ~Held(q, j))
  BY <1>1, Unheld
<1>7. raced \subseteq raced' /\ raced' \subseteq Webhooks
  BY <1>1 DEF QueueInv, RowsTyped
<1> QED BY <1>1, <1>2, <1>5, <1>6, <1>7, RowWritten

(* So is one that is deleted, and its redeliveries fail.                   *)
LEMMA PurgeQuiet ==
  ASSUME QueueInv, NEW j \in Jobs, Purge(j) PROVE Quiet
<1>1. /\ job' = [job EXCEPT ![j] = NoJob] /\ UNCHANGED <<proc, raced, lockTimeout>>
      /\ \A p \in Processors : ~Held(p, j)
      /\ delivery' = [d \in Deliveries |-> IF delivery[d] # NoDelivery /\ delivery[d].job = j
                                           THEN NoDelivery ELSE delivery[d]]
  BY DEF Purge
<1>2. PICK row \in JobRows : row = NoJob /\ WellTimed(row)
  BY NoJobTypes
<1>3. \A k \in Jobs : k # j => job'[k] = job[k]
  BY <1>1 DEF QueueInv, RowsTyped
<1>4. ASSUME NEW d \in Deliveries PROVE CopyQuiet(d)
  <2>1. CASE delivery'[d] = NoDelivery
    BY <2>1 DEF CopyQuiet
  <2>2. CASE delivery'[d] # NoDelivery
    <3>1. delivery'[d] = delivery[d] /\ delivery[d] # NoDelivery /\ delivery[d].job # j
      BY <1>1, <2>2
    <3>2. delivery[d].job \in Jobs
      BY <3>1, JobConstants DEF QueueInv, AttemptsInv, Shapes
    <3> QED BY <1>3, <3>1, <3>2 DEF CopyQuiet
  <2> QED BY <2>1, <2>2
<1>5. OneCopy'
  <2>1. \A d \in Deliveries : delivery'[d] # NoDelivery => delivery'[d] = delivery[d]
    BY <1>1
  <2> QED BY <1>1, <2>1, CopiesEnd DEF QueueInv
<1>6. raced \subseteq raced' /\ raced' \subseteq Webhooks
  BY <1>1 DEF QueueInv, RowsTyped
<1> QED BY <1>1, <1>2, <1>4, <1>5, <1>6, RowWritten

(* A redelivery reads a row that nobody holds, unless the batch does not   *)
(* fit or another has read it.                                             *)
LEMMA ReadQuiet ==
  ASSUME QueueInv, NEW d \in Deliveries, NEW j \in Webhooks, ReadRedelivered(d, j) PROVE Quiet
<1>1. /\ delivery[d] = NoDelivery /\ Requeueable(j) /\ UNCHANGED <<job, proc, lockTimeout>>
      /\ delivery' = [delivery EXCEPT ![d] = CopyOf(j)]
      /\ raced' = IF \E e \in Deliveries : delivery[e] # NoDelivery /\ delivery[e].job = j
                  THEN raced \cup {j} ELSE raced
  BY DEF ReadRedelivered
<1>2. PICK k \in Jobs : k = j
  BY JobConstants
<1>3. \A e \in Deliveries : delivery'[e] = IF e = d THEN CopyOf(j) ELSE delivery[e]
  BY <1>1 DEF QueueInv, AttemptsInv, Shapes
<1>4. CopyOf(j).job = j /\ CopyOf(j).attempts = job[j].attempts
  BY DEF CopyOf
<1>5. raced \subseteq raced' /\ raced' \subseteq Webhooks
  BY <1>1 DEF QueueInv, RowsTyped
<1>6. CopyQuiet(d)
  <2> SUFFICES ASSUME j \notin raced' PROVE CopyOld(d)'
    BY <1>3, <1>4 DEF CopyQuiet
  <2>1. ASSUME BatchFits, job[j].status = "RUNNING", NEW p \in Processors PROVE ~Held(p, j)
    <3>1. Stale(j)
      BY <1>1, <2>1 DEF Requeueable
    <3> QED BY <1>5, <2>1, <3>1, Unheld
  <2>2. /\ BatchFits' = BatchFits /\ job' = job /\ \A p \in Processors : Held(p, j)' <=> Held(p, j)
    BY <1>1 DEF BatchFits, Held
  <2>3. job[j].attempts \in 0 .. job[j].attempts
    BY <1>2, JobTypes
  <2>4. delivery'[d].job = j /\ delivery'[d].attempts = job[j].attempts
    BY <1>3, <1>4
  <2> QED BY <2>1, <2>2, <2>3, <2>4 DEF CopyOld, Held
<1>7. \A e \in Deliveries : CopyQuiet(e)
  BY <1>1, <1>3, <1>6 DEF CopyQuiet
<1>8. OneCopy'
  <2> SUFFICES ASSUME NEW e \in Deliveries, NEW f \in Deliveries,
                      delivery'[e] # NoDelivery, delivery'[f] # NoDelivery,
                      delivery'[e].job = delivery'[f].job, delivery'[e].job \notin raced'
               PROVE  e = f
    BY DEF OneCopy
  <2>1. CASE e = d \/ f = d
    BY <1>1, <1>3, <1>4, <2>1
  <2>2. CASE e # d /\ f # d
    BY <1>3, <1>5, <2>2 DEF QueueInv, OneCopy
  <2> QED BY <2>1, <2>2
<1>9. \A q \in Processors : Fewer(q)
  BY <1>1, NobodyMoves
<1>10. job' = [i \in Jobs |-> job'[i]] /\ \A i \in Jobs : RowQuiet(i)
  BY <1>1 DEF QueueInv, RowsTyped, RowQuiet
<1> QED BY <1>1, <1>5, <1>7, <1>8, <1>9, <1>10 DEF Quiet

(* It writes over a row that nobody holds, unless it has raced: what it    *)
(* read is not the attempt that runs now.                                  *)
LEMMA RequeueQuiet ==
  ASSUME QueueInv, NEW d \in Deliveries, Requeue(d) PROVE Quiet
<1>1. /\ delivery[d] # NoDelivery /\ UNCHANGED <<proc, lockTimeout>>
      /\ job' = [job EXCEPT ![delivery[d].job] = Requeued(@, delivery[d])]
      /\ raced' = IF delivery[d] = CopyOf(delivery[d].job) THEN raced
                  ELSE raced \cup {delivery[d].job}
      /\ delivery' = [delivery EXCEPT ![d] = NoDelivery]
  BY DEF Requeue
<1>2. PICK j \in Jobs : j = delivery[d].job /\ j \in Webhooks
  BY <1>1, JobConstants DEF QueueInv, AttemptsInv, Shapes
<1>3. PICK old \in JobRows : old = job[j]
  BY JobTypes
<1>4. PICK row : row = Requeued(old, delivery[d])
  OBVIOUS
<1>5. /\ old.status \in Statuses /\ old.attempts \in Nat /\ old.wait \in Nat
      /\ old.age \in {NotStarted} \cup (0 .. lockTimeout)
      /\ old = [status |-> old.status, attempts |-> old.attempts, wait |-> old.wait, age |-> old.age]
  BY DEF JobRows
<1>6. PICK attempts \in Nat, age \in {NotStarted} \cup (0 .. lockTimeout) :
        /\ attempts = IF delivery[d].status \in Terminal THEN 0 ELSE old.attempts
        /\ age = IF delivery[d].started THEN NotStarted ELSE old.age
  BY <1>5
<1>7. row = [status |-> "PENDING", attempts |-> attempts, wait |-> 0, age |-> age]
  BY <1>4, <1>5, <1>6 DEF Requeued
<1>8. row \in JobRows
  BY <1>7 DEF JobRows, Statuses
<1>9. job' = [job EXCEPT ![j] = row]
  BY <1>1, <1>2, <1>3, <1>4
<1>10. raced \subseteq raced' /\ raced' \subseteq Webhooks
  BY <1>1, <1>2 DEF QueueInv, RowsTyped
<1>11. ASSUME j \notin raced'
       PROVE  WellTimed(row) /\ (BatchFits => \A q \in Processors : ~Held(q, j))
  <2>1. delivery[d] = CopyOf(j) /\ j \notin raced
    BY <1>1, <1>2, <1>11
  <2>2. /\ delivery[d].started <=> old.age # NotStarted
        /\ delivery[d].attempts = old.attempts
    <3>1. CopyOf(j).started <=> job[j].age # NotStarted
      BY Zenon DEF CopyOf
    <3>2. CopyOf(j).attempts = job[j].attempts
      BY DEF CopyOf
    <3> QED BY <1>3, <2>1, <3>1, <3>2
  <2>3. WellTimed(row)
    BY <1>6, <1>7, <2>2 DEF WellTimed
  <2>4. ASSUME BatchFits, NEW q \in Processors PROVE ~Held(q, j)
    <3>1. CASE job[j].status = "RUNNING"
      BY <1>1, <1>2, <1>3, <2>1, <2>2, <2>4, <3>1 DEF QueueInv, CopyOld
    <3>2. CASE job[j].status # "RUNNING"
      BY <2>1, <2>4, <3>2, Unheld
    <3> QED BY <3>1, <3>2
  <2> QED BY <2>3, <2>4
<1>12. \A e \in Deliveries : delivery'[e] = IF e = d THEN NoDelivery ELSE delivery[e]
  BY <1>1 DEF QueueInv, AttemptsInv, Shapes
<1>13. ASSUME NEW e \in Deliveries PROVE CopyQuiet(e)
  <2>1. CASE e = d \/ delivery[e] = NoDelivery
    BY <1>12, <2>1 DEF CopyQuiet
  <2>2. CASE e # d /\ delivery[e] # NoDelivery /\ delivery[e].job = j
    <3>1. j \in raced
      BY <1>1, <1>2, <2>2 DEF QueueInv, OneCopy
    <3> QED BY <1>10, <1>12, <2>2, <3>1 DEF CopyQuiet
  <2>3. CASE e # d /\ delivery[e] # NoDelivery /\ delivery[e].job # j
    <3>1. delivery[e].job \in Jobs
      BY <2>3, JobConstants DEF QueueInv, AttemptsInv, Shapes
    <3>2. job'[delivery[e].job] = job[delivery[e].job]
      BY <1>9, <2>3, <3>1 DEF QueueInv, RowsTyped
    <3> QED BY <1>12, <2>3, <3>2 DEF CopyQuiet
  <2> QED BY <2>1, <2>2, <2>3
<1>14. OneCopy'
  BY <1>10, <1>12, CopiesEnd DEF QueueInv
<1> QED BY <1>1, <1>8, <1>9, <1>10, <1>11, <1>13, <1>14, RowWritten

(* A request that breaks off changes nothing else.                         *)
LEMMA LostQuiet ==
  ASSUME QueueInv, NEW d \in Deliveries, DeliveryLost(d) PROVE Quiet
<1>1. delivery' = [delivery EXCEPT ![d] = NoDelivery] /\ UNCHANGED <<job, proc, raced, lockTimeout>>
  BY DEF DeliveryLost
<1>2. \A e \in Deliveries : delivery'[e] = IF e = d THEN NoDelivery ELSE delivery[e]
  BY <1>1 DEF QueueInv, AttemptsInv, Shapes
<1>3. (\A e \in Deliveries : CopyQuiet(e)) /\ OneCopy'
  <2>1. OneCopy'
    BY <1>1, <1>2, CopiesEnd DEF QueueInv
  <2> QED BY <1>1, <1>2, <2>1 DEF CopyQuiet
<1>4. \A q \in Processors : Fewer(q)
  BY <1>1, NobodyMoves
<1>5. /\ raced \subseteq raced' /\ raced' \subseteq Webhooks
      /\ job' = [i \in Jobs |-> job'[i]] /\ \A i \in Jobs : RowQuiet(i)
  BY <1>1 DEF QueueInv, RowsTyped, RowQuiet
<1> QED BY <1>1, <1>3, <1>4, <1>5 DEF Quiet

(* A batch that is fetched is of jobs that waited, each once.              *)
LEMMA FetchRuns ==
  ASSUME QueueInv, AttemptsInv', NEW p \in Processors, Fetch(p) PROVE QueueInv'
<1>1. PICK b \in Batches :
        /\ job' = [j \in Jobs |-> IF j \in {b[n] : n \in DOMAIN b} THEN Started(job[j]) ELSE job[j]]
        /\ proc' = [proc EXCEPT ![p] =
             IF b = <<>> THEN Idle
             ELSE [at |-> "running", ran |-> 0,
                   batch |-> [n \in DOMAIN b |-> [job |-> b[n], attempt |-> job'[b[n]].attempts]]]]
  BY DEF Fetch
<1>2. PICK n \in 0 .. BatchLimit : b \in [1 .. n -> {j \in Jobs : Due(j)}]
  BY <1>1 DEF Batches
<1>3. n \in Nat /\ DOMAIN b = 1 .. n /\ BatchLimit \in Nat /\ JobTimeout \in Nat
  BY <1>2, JobConstants
<1>4. /\ UNCHANGED <<delivery, raced, lockTimeout>> /\ JobRows' = JobRows /\ BatchFits' = BatchFits
  BY DEF Fetch, hookVars, JobRows, BatchFits
<1>5. \A m, k \in 1 .. n : b[m] = b[k] => m = k
  <2> SUFFICES ASSUME NEW m \in 1 .. n, NEW k \in 1 .. n, b[m] = b[k], m # k PROVE FALSE
    OBVIOUS
  <2>1. \A i, l \in DOMAIN b : i < l => b[i] # b[l]
    BY <1>1 DEF Batches
  <2>2. m < k \/ k < m
    BY <1>3
  <2> QED BY <1>3, <2>1, <2>2
<1> DEFINE taken == {b[m] : m \in 1 .. n}
<1>6. \A j \in taken : j \in Jobs /\ job[j].status = "PENDING"
  BY <1>2 DEF Due
<1>7. ASSUME NEW j \in taken
      PROVE  /\ job'[j] \in JobRows /\ WellTimed(job'[j]) /\ job'[j].status = "RUNNING"
             /\ job'[j].age = 0 /\ job'[j].attempts = job[j].attempts + 1
  <2>1. PICK row \in JobRows : row = job[j] /\ row.attempts \in Nat
    BY <1>6, JobTypes
  <2>2. job'[j] = Started(row)
    BY <1>1, <1>3, <1>6, <2>1
  <2>3. Started(row) \in JobRows /\ WellTimed(Started(row))
    <3>1. \E permanent \in BOOLEAN, status \in Terminal, k \in Nat : TRUE
      BY DEF Terminal
    <3> QED BY <1>6, <3>1, JobTypes, RowTypes
  <2>4. Started(row).status = "RUNNING" /\ Started(row).age = 0
        /\ Started(row).attempts = row.attempts + 1
    BY <2>1 DEF Started, JobRows
  <2> QED BY <2>1, <2>2, <2>3, <2>4
<1>8. \A j \in Jobs \ taken : job'[j] = job[j]
  BY <1>1, <1>3
<1>9. /\ proc'[p].ran = 0 /\ Len(proc'[p].batch) = n /\ DOMAIN proc'[p].batch = 1 .. n
      /\ \A m \in 1 .. n : /\ proc'[p].batch[m].job = b[m]
                          /\ proc'[p].batch[m].attempt = job'[b[m]].attempts
  <2>1. CASE b = <<>>
    <3>1. n = 0
      BY <1>3, <2>1
    <3>2. proc'[p] = [at |-> "idle", batch |-> <<>>, ran |-> 0]
      BY <1>1, <2>1 DEF QueueInv, AttemptsInv, Shapes, Idle
    <3>3. Len(<<>>) = 0 /\ DOMAIN <<>> = {}
      OBVIOUS
    <3> QED BY <3>1, <3>2, <3>3
  <2>2. CASE b # <<>>
    <3>1. proc'[p] = [at |-> "running", ran |-> 0,
                      batch |-> [m \in 1 .. n |-> [job |-> b[m], attempt |-> job'[b[m]].attempts]]]
      BY <1>1, <1>3, <2>2 DEF QueueInv, AttemptsInv, Shapes
    <3>2. PICK batch : batch = [m \in 1 .. n |-> [job |-> b[m], attempt |-> job'[b[m]].attempts]]
      OBVIOUS
    <3>3. DOMAIN batch = 1 .. n /\ proc'[p].batch = batch /\ proc'[p].ran = 0
      BY <3>1, <3>2
    <3>4. proc'[p].batch \in Seq(Claims)
      BY DEF AttemptsInv, Shapes
    <3>5. Len(batch) = n
      BY <1>3, <3>3, <3>4, LenProperties
    <3> QED BY <3>2, <3>3, <3>5
  <2> QED BY <2>1, <2>2
<1>10. \A q \in Processors \ {p} : proc'[q] = proc[q]
  BY <1>1 DEF QueueInv, AttemptsInv, Shapes
<1>11. \A j : Held(p, j)' <=> j \in taken
  BY <1>9 DEF Held
<1>12. ASSUME NEW q \in Processors \ {p}
       PROVE  /\ \A j : Held(q, j)' <=> Held(q, j)
              /\ Claimed(q)' = Claimed(q) /\ Late(q)' = Late(q) /\ BatchTyped(q)' <=> BatchTyped(q)
  BY <1>10 DEF Held, Claimed, Late, BatchTyped
<1>13. RowsTyped'
  <2>1. \A j \in Jobs : job'[j] \in JobRows
    BY <1>7, <1>8, JobTypes
  <2>2. job' \in [Jobs -> JobRows]
    BY <1>1, <2>1
  <2>3. \A j \in Jobs \ raced : WellTimed(job'[j])
    BY <1>7, <1>8 DEF QueueInv, RowsTyped
  <2>4. \A j \in Jobs \ raced' : WellTimed(job[j])'
    BY <1>4, <2>3 DEF WellTimed
  <2>5. lockTimeout' \in LockTimeouts /\ raced' \subseteq Webhooks
    BY <1>4 DEF QueueInv, RowsTyped
  <2> QED BY <1>4, <2>2, <2>4, <2>5 DEF RowsTyped
<1>14. \A q \in Processors : BatchTyped(q)'
  <2>1. BatchTyped(p)'
    <3>1. Distinct(proc'[p].batch)
      BY <1>5, <1>9 DEF Distinct
    <3>2. Len(proc'[p].batch) <= BatchLimit /\ proc'[p].ran <= JobTimeout
      BY <1>2, <1>3, <1>9
    <3> QED BY <3>1, <3>2 DEF BatchTyped, Distinct
  <2> QED BY <1>12, <2>1 DEF QueueInv
<1>15. ASSUME BatchFits, NEW j \in taken, j \notin raced, NEW q \in Processors \ {p}
       PROVE  ~Held(q, j)'
  BY <1>6, <1>12, <1>15, Unheld
<1>16. Runs'
  <2> SUFFICES ASSUME BatchFits, NEW q \in Processors, NEW c \in Claimed(q)', c.job \notin raced
               PROVE  Owned(q, c)'
    BY <1>4 DEF Runs
  <2>1. CASE q = p
    <3>1. PICK m \in 1 .. n : c = proc'[p].batch[m]
      BY <1>9, <2>1 DEF Claimed
    <3>2. c.job = b[m] /\ c.attempt = job'[c.job].attempts /\ c.job \in taken
      BY <1>9, <3>1
    <3>3. 0 <= Late(p)'
      <4>1. Late(p)' = (BatchLimit - n) * JobTimeout + 0
        BY <1>9 DEF Late
      <4>2. PICK left \in Nat : left = BatchLimit - n
        <5>1. BatchLimit - n \in Nat
          BY <1>2, <1>3
        <5> QED BY <5>1
      <4>3. left * JobTimeout \in Nat
        BY <1>3
      <4> QED BY <4>1, <4>2, <4>3
    <3> QED BY <1>7, <1>15, <2>1, <3>2, <3>3 DEF Owned
  <2>2. CASE q # p
    <3>0. Claimed(q)' = Claimed(q) /\ Late(q)' = Late(q)
      BY <1>10, <2>2 DEF Claimed, Late
    <3>1. c \in Claimed(q)
      BY <3>0
    <3>2. /\ job[c.job].status = "RUNNING" /\ job[c.job].attempts = c.attempt
          /\ job[c.job].age <= Late(q) /\ \A r \in Processors \ {q} : ~Held(r, c.job)
      BY <3>1, NotStale
    <3>3. c.job \in Jobs /\ c.job \notin taken
      BY <1>6, <3>1, <3>2, JobTypes DEF Claims
    <3>4. job'[c.job] = job[c.job]
      BY <1>8, <3>3
    <3>5. \A r \in Processors \ {q} : ~Held(r, c.job)'
      BY <1>11, <1>12, <3>2, <3>3
    <3>6. job'[c.job].age <= Late(q)'
      BY <3>0, <3>2, <3>4
    <3> QED BY <3>2, <3>4, <3>5, <3>6 DEF Owned
  <2> QED BY <2>1, <2>2
<1>17. ASSUME NEW d \in Deliveries PROVE CopyOld(d)'
  <2>1. CASE delivery[d] = NoDelivery \/ delivery[d].job \in raced
    BY <1>4, <2>1 DEF CopyOld
  <2>2. CASE delivery[d] # NoDelivery /\ delivery[d].job \notin raced
    <3>1. PICK j \in Jobs : j = delivery[d].job /\ j \notin raced
      BY <2>2, JobConstants DEF QueueInv, AttemptsInv, Shapes
    <3>2. /\ delivery[d].attempts \in 0 .. job[j].attempts
          /\ (BatchFits /\ job[j].status = "RUNNING" /\ delivery[d].attempts = job[j].attempts)
               => \A q \in Processors : ~Held(q, j)
      BY <2>2, <3>1 DEF QueueInv, CopyOld
    <3>3. /\ delivery[d].attempts \in 0 .. job'[j].attempts
          /\ (BatchFits /\ job'[j].status = "RUNNING" /\ delivery[d].attempts = job'[j].attempts)
               => \A q \in Processors : ~Held(q, j)'
      <4>1. CASE j \in taken
        <5>1. job'[j].attempts = job[j].attempts + 1 /\ job[j].attempts \in Nat
          BY <1>7, <4>1, JobTypes
        <5>2. delivery[d].attempts \in 0 .. job'[j].attempts
          BY <3>2, <5>1
        <5>3. delivery[d].attempts # job'[j].attempts
          BY <3>2, <5>1
        <5> QED BY <5>2, <5>3
      <4>2. CASE j \notin taken
        <5>1. job'[j] = job[j] /\ ~Held(p, j)'
          BY <1>8, <1>11, <4>2
        <5> QED BY <1>12, <3>2, <5>1
      <4> QED BY <4>1, <4>2
    <3> QED BY <1>4, <3>1, <3>3 DEF CopyOld, Held
  <2> QED BY <2>1, <2>2
<1>18. OneCopy'
  BY <1>4, CopiesEnd DEF QueueInv
<1> QED BY <1>13, <1>14, <1>16, <1>17, <1>18 DEF QueueInv

(* A tick makes every run a tick older, and with it what its processor has *)
(* spent on the batch.                                                     *)
LEMMA TickRuns ==
  ASSUME QueueInv, AttemptsInv', Tick PROVE QueueInv'
<1>1. /\ \A p \in Processors : Executing(p) => proc[p].ran < JobTimeout
      /\ job' = [j \in Jobs |-> IF job[j].status \in Terminal THEN job[j] ELSE Later(job[j])]
      /\ proc' = [p \in Processors |-> IF Executing(p) THEN [proc[p] EXCEPT !.ran = @ + 1] ELSE proc[p]]
      /\ UNCHANGED <<delivery, raced, lockTimeout>>
  BY DEF Tick, hookVars
<1>2. JobRows' = JobRows /\ BatchFits' = BatchFits
  BY <1>1 DEF JobRows, BatchFits
<1>3. ASSUME NEW j \in Jobs
      PROVE  /\ job'[j] \in JobRows /\ (WellTimed(job[j]) => WellTimed(job'[j]))
             /\ job'[j].status = job[j].status /\ job'[j].attempts = job[j].attempts
             /\ job'[j].age <= job[j].age + 1
  <2>1. PICK row \in JobRows : row = job[j] /\ row.age \in {NotStarted} \cup (0 .. lockTimeout)
    BY JobTypes
  <2>2. Later(row) \in JobRows /\ (WellTimed(row) => WellTimed(Later(row)))
    <3>1. \E permanent \in BOOLEAN, status \in Terminal, k \in Nat : TRUE
      BY DEF Terminal
    <3> QED BY <3>1, JobTypes, RowTypes
  <2>3. PICK age : age = IF row.age \in 0 .. lockTimeout - 1 THEN row.age + 1 ELSE row.age
    OBVIOUS
  <2>4. age <= row.age + 1 /\ row.age <= row.age + 1
    BY <2>1, <2>3, JobTypes DEF NotStarted
  <2>5. /\ Later(row).status = row.status /\ Later(row).attempts = row.attempts
        /\ Later(row).age = age
    BY <2>1, <2>3 DEF Later, JobRows
  <2>6. job'[j] = IF row.status \in Terminal THEN row ELSE Later(row)
    BY <1>1, <2>1
  <2> QED BY <2>1, <2>2, <2>4, <2>5, <2>6
<1>4. ASSUME NEW p \in Processors
      PROVE  /\ proc'[p].batch = proc[p].batch /\ BatchTyped(p)'
             /\ Claimed(p)' = Claimed(p) /\ \A j : Held(p, j)' <=> Held(p, j)
             /\ Claimed(p) # {} => Late(p)' = Late(p) + 1
  <2>1. proc'[p] = IF Executing(p) THEN [proc[p] EXCEPT !.ran = proc[p].ran + 1] ELSE proc[p]
    BY <1>1
  <2>2. proc[p] \in [at: {"idle", "fetching", "running"}, batch: Seq(Claims), ran: Nat]
    BY DEF QueueInv, AttemptsInv, Shapes
  <2>3. /\ proc'[p].batch = proc[p].batch
        /\ proc'[p].ran = IF Executing(p) THEN proc[p].ran + 1 ELSE proc[p].ran
    BY <2>1, <2>2
  <2>4. Claimed(p)' = Claimed(p) /\ \A j : Held(p, j)' <=> Held(p, j)
    BY <2>3 DEF Claimed, Held
  <2>5. BatchTyped(p)'
    <3>1. proc'[p].ran <= JobTimeout
      BY <1>1, <2>2, <2>3, JobTypes DEF QueueInv, BatchTyped
    <3>2. Distinct(proc[p].batch) /\ Len(proc[p].batch) <= BatchLimit
      BY DEF QueueInv, BatchTyped
    <3> QED BY <2>3, <3>1, <3>2 DEF BatchTyped, Distinct
  <2>6. ASSUME Claimed(p) # {} PROVE Late(p)' = Late(p) + 1
    <3>1. Executing(p)
      <4>1. DOMAIN proc[p].batch # {}
        BY <2>6 DEF Claimed
      <4>2. DOMAIN <<>> = {}
        OBVIOUS
      <4> QED BY <4>1, <4>2 DEF QueueInv, AttemptsInv, Shapes
    <3>2. Late(p)' = (BatchLimit - Len(proc[p].batch)) * JobTimeout + (proc[p].ran + 1)
      BY <2>3, <3>1 DEF Late
    <3>3. PICK left \in Int : left = BatchLimit - Len(proc[p].batch)
      <4>1. BatchLimit - Len(proc[p].batch) \in Int
        BY JobTypes
      <4> QED BY <4>1
    <3>4. left * JobTimeout \in Int
      BY <3>3, JobConstants
    <3>5. Late(p)' = left * JobTimeout + (proc[p].ran + 1) /\ Late(p) = left * JobTimeout + proc[p].ran
      BY <3>2, <3>3 DEF Late
    <3> QED BY <2>2, <3>4, <3>5
  <2> QED BY <2>3, <2>4, <2>5, <2>6
<1>5. RowsTyped'
  <2>1. job' \in [Jobs -> JobRows]
    BY <1>1, <1>3
  <2>2. \A j \in Jobs \ raced : WellTimed(job'[j])
    BY <1>3 DEF QueueInv, RowsTyped
  <2>3. \A j \in Jobs \ raced' : WellTimed(job[j])'
    BY <1>1, <2>2 DEF WellTimed
  <2>4. lockTimeout' \in LockTimeouts /\ raced' \subseteq Webhooks
    BY <1>1 DEF QueueInv, RowsTyped
  <2> QED BY <1>2, <2>1, <2>3, <2>4 DEF RowsTyped
<1>6. Runs'
  <2> SUFFICES ASSUME BatchFits, NEW p \in Processors, NEW c \in Claimed(p)', c.job \notin raced
               PROVE  Owned(p, c)'
    BY <1>1, <1>2 DEF Runs
  <2>1. c \in Claimed(p) /\ Claimed(p) # {} /\ Late(p)' = Late(p) + 1
    BY <1>4
  <2>2. /\ job[c.job].status = "RUNNING" /\ job[c.job].attempts = c.attempt
        /\ job[c.job].age <= Late(p) /\ \A q \in Processors \ {p} : ~Held(q, c.job)
    BY <2>1, NotStale
  <2>3. c.job \in Jobs
    BY <2>1, JobTypes DEF Claims
  <2>4. /\ job'[c.job].status = "RUNNING" /\ job'[c.job].attempts = c.attempt
        /\ job'[c.job].age <= job[c.job].age + 1
    BY <1>3, <2>2, <2>3
  <2>5. job'[c.job].age <= Late(p)'
    <3>1. job[c.job].age \in Int /\ Late(p) \in Nat
      BY <2>3, JobTypes DEF NotStarted
    <3>2. job'[c.job].age \in Int
      <4>1. job'[c.job] \in JobRows
        BY <1>3, <2>3
      <4> QED BY <4>1, JobTypes DEF JobRows, NotStarted
    <3> QED BY <2>1, <2>2, <2>4, <3>1, <3>2
  <2>6. \A q \in Processors \ {p} : ~Held(q, c.job)'
    BY <1>4, <2>2
  <2> QED BY <2>4, <2>5, <2>6 DEF Owned
<1>7. ASSUME NEW d \in Deliveries PROVE CopyOld(d)'
  <2>1. CASE delivery[d] = NoDelivery \/ delivery[d].job \in raced
    BY <1>1, <2>1 DEF CopyOld
  <2>2. CASE delivery[d] # NoDelivery /\ delivery[d].job \notin raced
    <3>1. PICK j \in Jobs : j = delivery[d].job
      BY <2>2, JobConstants DEF QueueInv, AttemptsInv, Shapes
    <3>2. /\ delivery[d].attempts \in 0 .. job[j].attempts
          /\ (BatchFits /\ job[j].status = "RUNNING" /\ delivery[d].attempts = job[j].attempts)
               => \A q \in Processors : ~Held(q, j)
      BY <2>2, <3>1 DEF QueueInv, CopyOld
    <3>3. /\ delivery[d].attempts \in 0 .. job'[j].attempts
          /\ (BatchFits /\ job'[j].status = "RUNNING" /\ delivery[d].attempts = job'[j].attempts)
               => \A q \in Processors : ~Held(q, j)'
      BY <1>3, <1>4, <3>2
    <3> QED BY <1>1, <1>2, <3>1, <3>3 DEF CopyOld, Held
  <2> QED BY <2>1, <2>2
<1>8. OneCopy'
  BY <1>1, CopiesEnd DEF QueueInv
<1> QED BY <1>4, <1>5, <1>6, <1>7, <1>8 DEF QueueInv

(* Every step keeps what is promised of the runs.                          *)
LEMMA QueueStep == QueueInv /\ [JobsNext]_jobVars => QueueInv'
<1> SUFFICES ASSUME QueueInv, [JobsNext]_jobVars PROVE QueueInv'
  OBVIOUS
<1>1. AttemptsInv'
  BY AttemptsStep DEF QueueInv
<1>2. ASSUME Quiet PROVE QueueInv'
  BY <1>1, <1>2, QuietStep
<1>3. ASSUME NEW j \in Jobs, Enqueue(j, 0) \/ Purge(j) PROVE QueueInv'
  BY <1>2, <1>3, EnqueueQuiet, PurgeQuiet
<1>4. ASSUME NEW p \in Processors, Process(p) \/ Crash(p) PROVE QueueInv'
  BY <1>1, <1>2, <1>4, RecoverQuiet, FetchRuns, RunEndsQuiet, CrashQuiet DEF Process
<1>5. ASSUME NEW d \in Deliveries, NEW j \in Webhooks, ReadRedelivered(d, j) PROVE QueueInv'
  BY <1>2, <1>5, ReadQuiet
<1>6. ASSUME NEW d \in Deliveries, Requeue(d) \/ DeliveryLost(d) PROVE QueueInv'
  BY <1>2, <1>6, RequeueQuiet, LostQuiet
<1>7. CASE Tick
  BY <1>1, <1>7, TickRuns
<1>8. CASE UNCHANGED jobVars
  <2>1. UNCHANGED <<job, proc, delivery, raced, lockTimeout>>
    BY <1>8 DEF jobVars, hookVars
  <2>2. /\ (\A q \in Processors : Fewer(q)) /\ (\A d \in Deliveries : CopyQuiet(d)) /\ OneCopy'
    BY <2>1, NobodyMoves, CopiesStay
  <2>3. /\ raced \subseteq raced' /\ raced' \subseteq Webhooks
        /\ job' = [i \in Jobs |-> job'[i]] /\ \A i \in Jobs : RowQuiet(i)
    BY <2>1 DEF QueueInv, RowsTyped, RowQuiet
  <2>4. Quiet
    BY <2>1, <2>2, <2>3 DEF Quiet
  <2> QED BY <1>2, <2>4
<1> QED BY <1>3, <1>4, <1>5, <1>6, <1>7, <1>8 DEF JobsNext

(* At the start there is no job and no processor has one.                  *)
LEMMA QueueAtStart == JobsInit => QueueInv
<1> SUFFICES ASSUME JobsInit PROVE QueueInv
  OBVIOUS
<1>1. AttemptsInv
  BY AttemptsInit
<1>2. RowsTyped
  <2>1. NoJob \in JobRows /\ WellTimed(NoJob)
    BY DEF NoJob, JobRows, WellTimed, Statuses
  <2> QED BY <2>1 DEF JobsInit, RowsTyped
<1>3. Len(<<>>) = 0 /\ DOMAIN <<>> = {}
  OBVIOUS
<1>4. \A p \in Processors : BatchTyped(p) /\ Claimed(p) = {}
  BY <1>3, JobConstants DEF JobsInit, Idle, BatchTyped, Distinct, Claimed
<1>5. Runs
  BY <1>4 DEF Runs
<1>6. \A d \in Deliveries : delivery[d] = NoDelivery
  BY DEF JobsInit
<1>7. OneCopy /\ \A d \in Deliveries : CopyOld(d)
  BY <1>6 DEF OneCopy, CopyOld
<1> QED BY <1>1, <1>2, <1>4, <1>5, <1>7 DEF QueueInv

(* So it is promised for ever.                                            *)
LEMMA QueueInvariant == JobsSpec => []QueueInv
BY QueueAtStart, QueueStep, PTL DEF JobsSpec

(***************************************************************************)
(* The rows of the table and what the processors hold keep their types; a  *)
(* row that runs carries its start and one that waits none, unless a       *)
(* redelivery has raced (BackgroundJob).                                   *)
(***************************************************************************)
THEOREM QueueTypeCorrect == JobsSpec => []JobTypeOK
<1>1. QueueInv => JobTypeOK
  <2> SUFFICES ASSUME QueueInv PROVE JobTypeOK
    OBVIOUS
  <2>1. job \in [Jobs -> JobRows] /\ raced \subseteq Webhooks
    BY DEF QueueInv, RowsTyped
  <2>2. \A j \in Jobs \ raced : /\ job[j].status = "RUNNING" => job[j].age # NotStarted
                                /\ job[j].status = "PENDING" => job[j].age = NotStarted
    BY DEF QueueInv, RowsTyped, WellTimed
  <2>3. /\ proc \in [Processors -> [at: {"idle", "fetching", "running"}, batch: Seq(Claims), ran: Nat]]
        /\ \A p \in Processors : Executing(p) <=> proc[p].batch # <<>>
    BY DEF QueueInv, AttemptsInv, Shapes
  <2>4. \A p \in Processors : proc[p].ran \in 0 .. JobTimeout
    BY JobTypes DEF QueueInv, BatchTyped
  <2>5. proc \in [Processors -> [at: {"idle", "fetching", "running"}, batch: Seq(Claims),
                                 ran: 0 .. JobTimeout]]
    <3>1. ASSUME NEW p \in Processors
          PROVE  proc[p] \in [at: {"idle", "fetching", "running"}, batch: Seq(Claims),
                              ran: 0 .. JobTimeout]
      BY <2>3, <2>4
    <3> QED BY <2>3, <3>1
  <2>6. \A p \in Processors : Distinct(proc[p].batch)
    BY DEF QueueInv, BatchTyped
  <2> QED BY <2>1, <2>2, <2>3, <2>5, <2>6 DEF JobTypeOK, Distinct
<1> QED BY <1>1, QueueInvariant, PTL

(***************************************************************************)
(* Where a full batch of handlers that use all their time ends before a    *)
(* job counts as stale, no job is executed twice at a time and no worker   *)
(* writes over a row that is not the one of its run ("to prevent           *)
(* double-processing", _fetch_and_lock_batch).                             *)
(***************************************************************************)
THEOREM RunsAreExclusive == JobsSpec => []NoDoubleProcessing
<1>1. QueueInv => NoDoubleProcessing
  <2> SUFFICES ASSUME QueueInv, BatchFits, NEW p \in Processors, NEW n \in DOMAIN proc[p].batch,
                      proc[p].batch[n].job \notin raced
               PROVE  /\ \A q \in Processors \ {p} : ~Held(q, proc[p].batch[n].job)
                      /\ job[proc[p].batch[n].job].status = "RUNNING"
                      /\ job[proc[p].batch[n].job].attempts = proc[p].batch[n].attempt
    BY DEF NoDoubleProcessing
  <2>1. PICK c \in Claimed(p) : c = proc[p].batch[n]
    BY DEF Claimed
  <2> QED BY <2>1, NotStale
<1> QED BY <1>1, QueueInvariant, PTL
=============================================================================
