--------------------- MODULE RemediationWorkflow_proofs ---------------------
(***************************************************************************)
(* Proofs about the remediation workflow, for any number of requests,      *)
(* workers and findings.  OverrideRequired and GraceRespected need what    *)
(* rows and stale copies keep of the history (RowsFit, CopiesFit), and     *)
(* ExecutedOnce that a lone worker's copy is the row (LoneCopies).         *)
(***************************************************************************)
EXTENDS RemediationWorkflow, TLAPS

Stages == {"idle", "approving", "sweeping", "starting", "executing"}
Agents == [at: Stages, req: Requests, copy: RequestRows, bypass: BOOLEAN]
Dues   == {Unscheduled} \cup (0 .. MaxTime + Grace)
Pasts  == [marked: SUBSET Requests, overlapped: SUBSET Requests, started: SUBSET Requests,
           due: [Requests -> Dues]]
Ended  == {"EXECUTING", "COMPLETED", "FAILED"}

(* What columns of a request, stored or copied, say of its history: a      *)
(* marker was given by a review, and no time set is earlier than the first. *)
Fits(row, r) ==
  /\ row.override => r \in past.marked
  /\ row.due # Unscheduled => past.due[r] \in 0 .. row.due
  /\ row.status = "SCHEDULED" => row.due # Unscheduled

RowsFit ==
  \A r \in Requests :
    /\ Fits(req[r], r)
    /\ past.due[r] # Unscheduled => req[r].due # Unscheduled /\ past.due[r] <= now + Grace

CopiesFit == \A w \in Workers : Fits(agent[w].copy, agent[w].req)

Holds(w, r) == agent[w].at # "idle" /\ agent[w].req = r

(* What a worker knows of the request it holds.                            *)
StageFits(a) ==
  /\ a.at # "idle" => req[a.req].status # "ABSENT"
  /\ a.at = "approving" => a.copy.status \in InReview
  /\ a.at = "sweeping" => a.copy.status = "PENDING"
  /\ a.at = "executing" => /\ a.req \in Sensitive => a.copy.override
                           /\ ~a.bypass => past.due[a.req] \in 0 .. now

StagesFit == \A w \in Workers : StageFits(agent[w])

(* A request that no two have worked on at a time is what its worker has   *)
(* read.                                                                   *)
LoneCopies ==
  \A r \in Requests \ past.overlapped : \A w \in Workers : Holds(w, r) =>
    /\ agent[w].copy = req[r]
    /\ \A v \in Workers : Holds(v, r) => v = w

StartedEnds == \A r \in past.started : r \notin past.overlapped /\ req[r].status \in Ended

RemInv == RemTypeOK /\ RowsFit /\ CopiesFit /\ StagesFit /\ LoneCopies /\ StartedEnds

-----------------------------------------------------------------------------
(* Writing the changed columns gives each column of the row or of the new  *)
(* values, and just the new values where the copy is the row.              *)
LEMMA FlushedRow ==
  ASSUME NEW row \in RequestRows, NEW copy \in RequestRows, NEW new \in RequestRows
  PROVE  LET w == Flushed(row, copy, new)
         IN  /\ w \in RequestRows
             /\ w.status = IF new.status = copy.status THEN row.status ELSE new.status
             /\ w.override = IF new.override = copy.override THEN row.override ELSE new.override
             /\ w.due = IF new.due = copy.due THEN row.due ELSE new.due
             /\ row = copy => w = new
<1> DEFINE w == Flushed(row, copy, new)
           Pick(f) == IF new[f] = copy[f] THEN row[f] ELSE new[f]
           flat == [status |-> Pick("status"), escalated |-> Pick("escalated"),
                    override |-> Pick("override"), due |-> Pick("due"), done |-> Pick("done")]
<1>1. DOMAIN row = {"status", "escalated", "override", "due", "done"}
  BY DEF RequestRows
<1>2. w = flat
  BY <1>1 DEF Flushed
<1>3. flat \in RequestRows
  BY DEF RequestRows
<1>4. row = copy => flat = new
  BY DEF RequestRows
<1> QED BY <1>2, <1>3, <1>4

(* With a copy whose marker is turned round, the notes are written also    *)
(* where the rest is.                                                      *)
LEMMA NotedRow ==
  ASSUME NEW row \in RequestRows, NEW new \in RequestRows, NEW b \in BOOLEAN, b # new.override
  PROVE  LET copy == [row EXCEPT !.override = b]
         IN  /\ copy \in RequestRows /\ copy.status = row.status /\ copy.due = row.due
             /\ copy.override = b
             /\ Flushed(row, copy, new) = new
<1> DEFINE copy == [row EXCEPT !.override = b]
           w == Flushed(row, copy, new)
           Pick(f) == IF new[f] = copy[f] THEN row[f] ELSE new[f]
           flat == [status |-> Pick("status"), escalated |-> Pick("escalated"),
                    override |-> Pick("override"), due |-> Pick("due"), done |-> Pick("done")]
<1>1. DOMAIN row = {"status", "escalated", "override", "due", "done"}
  BY DEF RequestRows
<1>2. w = flat
  BY <1>1 DEF Flushed
<1>3. /\ copy \in RequestRows /\ copy.override = b
      /\ copy.status = row.status /\ copy.escalated = row.escalated /\ copy.due = row.due
      /\ copy.done = row.done
  BY DEF RequestRows
<1>4. flat = new
  BY <1>3 DEF RequestRows
<1> QED BY <1>2, <1>3, <1>4

(* An idle worker holds nothing.                                           *)
LEMMA RestingTyped == Resting \in Agents /\ Resting.at = "idle" /\ Resting.copy = Unwritten
<1>1. (CHOOSE r \in Requests : TRUE) \in Requests
  BY RemediationConstants
<1>2. Unwritten \in RequestRows
  BY RemediationConstants DEF Unwritten, RequestRows, RequestStatuses, Unscheduled
<1> QED BY <1>1, <1>2 DEF Resting, Agents, Stages

(* The invariant, with the types folded.                                   *)
LEMMA RemTypes ==
  RemTypeOK <=> /\ req \in [Requests -> RequestRows] /\ agent \in [Workers -> Agents]
                /\ finding \in [Findings -> {"OPEN", "RESOLVED"}]
                /\ now \in 0 .. MaxTime /\ past \in Pasts
                /\ \A r \in Requests : req[r].status = "SCHEDULED" => req[r].due # Unscheduled
BY DEF RemTypeOK, Agents, Stages, Pasts, Dues

(* Initially no request is written and nobody works.                       *)
LEMMA RemInitial == RemInit => RemInv
<1> SUFFICES ASSUME RemInit PROVE RemInv
  OBVIOUS
<1>1. Unwritten \in RequestRows
  BY RemediationConstants DEF Unwritten, RequestRows, RequestStatuses, Unscheduled
<1>2. RemTypeOK
  <2>1. req \in [Requests -> RequestRows]
    BY <1>1 DEF RemInit
  <2>2. agent \in [Workers -> Agents]
    BY RestingTyped DEF RemInit
  <2>3. past \in Pasts
    BY RemediationConstants DEF RemInit, Pasts, Dues
  <2>4. \A r \in Requests : req[r].status = "ABSENT"
    BY DEF RemInit, Unwritten
  <2>5. finding \in [Findings -> {"OPEN", "RESOLVED"}] /\ now \in 0 .. MaxTime
    BY RemediationConstants DEF RemInit
  <2> QED BY <2>1, <2>2, <2>3, <2>4, <2>5, RemTypes
<1>3. \A w \in Workers : agent[w] = Resting
  BY DEF RemInit
<1>4. RowsFit /\ CopiesFit
  BY <1>3, RestingTyped DEF RemInit, RowsFit, CopiesFit, Fits, Unwritten
<1>5. StagesFit /\ LoneCopies /\ StartedEnds
  BY <1>3, RestingTyped DEF RemInit, StagesFit, StageFits, LoneCopies, StartedEnds, Holds
<1> QED BY <1>2, <1>4, <1>5 DEF RemInv

-----------------------------------------------------------------------------
(* A worker writes the request it holds and goes on or ends: what is left  *)
(* to show of the actions that do.                                         *)
LEMMA WorkerWrites ==
  ASSUME RemInv, NEW w \in Workers, NEW copy \in RequestRows, NEW new \in RequestRows,
         NEW next \in Agents, NEW p \in Pasts,
         agent[w].at # "idle",
         Write(agent[w].req, copy, new),
         agent' = [agent EXCEPT ![w] = next], past' = p, now' = now,
         finding' \in [Findings -> {"OPEN", "RESOLVED"}],
         copy.status = agent[w].copy.status, copy.due = agent[w].copy.due,
         req[agent[w].req] = agent[w].copy => Flushed(req[agent[w].req], copy, new) = new,
         new.status # "ABSENT",
         new.status = "SCHEDULED" => new.status = copy.status \/ new.due = now + Grace,
         new.due # copy.due => new.due = now + Grace,
         \/ next = Resting
         \/ /\ next.req = agent[w].req /\ next.copy = new
            /\ next.at \in {"starting", "executing"},
         next.at = "executing" => /\ next.req \in Sensitive => new.override
                                  /\ ~next.bypass => past.due[next.req] \in 0 .. now,
         past.marked \subseteq p.marked,
         new.override => agent[w].copy.override \/ agent[w].req \in p.marked,
         \/ new.due = copy.due /\ p.due = past.due
         \/ /\ new.due = now + Grace
            /\ p.due = [past.due EXCEPT ![agent[w].req] = IF @ = Unscheduled THEN now + Grace ELSE @],
         p.overlapped = past.overlapped,
         p.started \in {past.started, past.started \cup ({agent[w].req} \ past.overlapped)},
         agent[w].req \in p.started => new.status \in Ended
  PROVE  RemInv'
<1> DEFINE r == agent[w].req
           row == Flushed(req[r], copy, new)
<1>1. /\ req \in [Requests -> RequestRows] /\ agent \in [Workers -> Agents]
      /\ now \in 0 .. MaxTime /\ past \in Pasts
      /\ \A q \in Requests : req[q].status = "SCHEDULED" => req[q].due # Unscheduled
      /\ RowsFit /\ CopiesFit /\ StagesFit /\ LoneCopies /\ StartedEnds
  BY RemTypes DEF RemInv
<1>2. r \in Requests /\ agent[w].copy \in RequestRows /\ req[r] \in RequestRows
  BY <1>1 DEF Agents
<1>3. /\ row \in RequestRows
      /\ row.status = IF new.status = copy.status THEN req[r].status ELSE new.status
      /\ row.override = IF new.override = copy.override THEN req[r].override ELSE new.override
      /\ row.due = IF new.due = copy.due THEN req[r].due ELSE new.due
  BY <1>2, FlushedRow
<1>4. req' = [req EXCEPT ![r] = row]
  BY DEF Write
<1>5. /\ Fits(agent[w].copy, r) /\ Fits(req[r], r) /\ StageFits(agent[w])
      /\ past.due[r] # Unscheduled => req[r].due # Unscheduled /\ past.due[r] <= now + Grace
      /\ past.due[r] \in Dues /\ p.due[r] \in Dues /\ req[r].due \in Dues /\ new.due \in Dues
      /\ copy.due \in Dues
  BY <1>1, <1>2 DEF CopiesFit, RowsFit, StagesFit, RequestRows, Pasts, Dues
<1>6. now \in Nat /\ Grace \in Nat /\ now + Grace # Unscheduled /\ Unscheduled \notin Nat
  BY <1>1, RemediationConstants DEF Unscheduled
<1>7. /\ p.due[r] = past.due[r] \/ (past.due[r] = Unscheduled /\ p.due[r] = now + Grace)
      /\ new.due # copy.due => p.due[r] # Unscheduled
      /\ \A q \in Requests \ {r} : p.due[q] = past.due[q]
      /\ new.due # copy.due \/ p.due[r] # past.due[r] => new.due = now + Grace
  <2>1. past.due \in [Requests -> Dues]
    BY <1>1 DEF Pasts
  <2>2. CASE new.due = copy.due /\ p.due = past.due
    BY <2>2
  <2>3. CASE /\ new.due = now + Grace
             /\ p.due = [past.due EXCEPT ![r] = IF @ = Unscheduled THEN now + Grace ELSE @]
    BY <1>2, <1>6, <2>1, <2>3
  <2> QED BY <2>2, <2>3
<1>8. p.due[r] # Unscheduled => p.due[r] \in 0 .. now + Grace
  BY <1>5, <1>6, <1>7 DEF Dues
<1> HIDE DEF r, row
<1>10. RemTypeOK'
  <2>1. req' \in [Requests -> RequestRows] /\ agent' \in [Workers -> Agents] /\ now' \in 0 .. MaxTime
        /\ past' \in Pasts
    BY <1>1, <1>2, <1>3, <1>4
  <2>2. row.status = "SCHEDULED" => row.due # Unscheduled
    BY <1>3, <1>5, <1>6 DEF Fits, Dues, Unscheduled
  <2>3. \A q \in Requests : req'[q].status = "SCHEDULED" => req'[q].due # Unscheduled
    BY <1>1, <1>2, <1>4, <2>2
  <2> QED BY <2>1, <2>3 DEF RemTypeOK, Agents, Stages, Pasts, Dues
<1>11. RowsFit'
  <2>1. row.override => r \in p.marked
    BY <1>3, <1>5 DEF Fits, r
  <2>2. row.due # Unscheduled => p.due[r] \in 0 .. row.due
    BY <1>3, <1>5, <1>6, <1>7, <1>8 DEF Fits
  <2>3. row.status = "SCHEDULED" => row.due # Unscheduled
    BY <1>3, <1>5, <1>6 DEF Fits
  <2>4. p.due[r] # Unscheduled => row.due # Unscheduled /\ p.due[r] <= now + Grace
    BY <1>3, <1>5, <1>6, <1>7, <1>8 DEF Fits
  <2>5. \A q \in Requests \ {r} : req'[q] = req[q]
    BY <1>1, <1>4
  <2>6. req'[r] = row
    BY <1>1, <1>2, <1>4
  <2> QED BY <1>1, <1>7, <2>1, <2>2, <2>3, <2>4, <2>5, <2>6 DEF RowsFit, Fits
<1>12. CopiesFit'
  <2>1. \A v \in Workers \ {w} : agent'[v] = agent[v] /\ agent[v].req \in Requests
    BY <1>1 DEF Agents
  <2>2. agent'[w] = next
    BY <1>1
  <2>3. \A v \in Workers \ {w} : Fits(agent[v].copy, agent[v].req)'
    <3> SUFFICES ASSUME NEW v \in Workers \ {w} PROVE Fits(agent[v].copy, agent[v].req)'
      OBVIOUS
    <3>1. Fits(agent[v].copy, agent[v].req) /\ agent[v].copy \in RequestRows
      BY <1>1 DEF CopiesFit, Agents
    <3>2. agent[v].copy.due # Unscheduled => past.due[agent[v].req] # Unscheduled
      BY <1>6, <3>1 DEF Fits
    <3> QED BY <1>7, <2>1, <3>1, <3>2 DEF Fits
  <2>4. CASE next = Resting
    <3>1. Fits(agent[w].copy, agent[w].req)'
      BY <2>2, <2>4, RestingTyped DEF Fits, Unwritten
    <3> QED BY <2>3, <3>1 DEF CopiesFit
  <2>5. CASE next.req = r /\ next.copy = new
    <3>1. new.override => r \in p.marked
      BY <1>5 DEF Fits, r
    <3>2. new.due # Unscheduled => p.due[r] \in 0 .. new.due
      BY <1>5, <1>6, <1>7, <1>8 DEF Fits
    <3>3. new.status = "SCHEDULED" => new.due # Unscheduled
      BY <1>5, <1>6 DEF Fits
    <3>4. Fits(agent[w].copy, agent[w].req)'
      BY <2>2, <2>5, <3>1, <3>2, <3>3 DEF Fits
    <3> QED BY <2>3, <3>4 DEF CopiesFit
  <2> QED BY <2>4, <2>5 DEF r
<1>13. StagesFit'
  <2>1. row.status # "ABSENT"
    BY <1>3, <1>5 DEF StageFits, r
  <2>2. \A q \in Requests : req[q].status # "ABSENT" => req'[q].status # "ABSENT"
    BY <1>1, <1>2, <1>4, <2>1
  <2>3. \A q \in Requests : past.due[q] \in 0 .. now => p.due[q] \in 0 .. now
    BY <1>6, <1>7
  <2>4. \A v \in Workers \ {w} : StageFits(agent[v])'
    <3> SUFFICES ASSUME NEW v \in Workers \ {w} PROVE StageFits(agent[v])'
      OBVIOUS
    <3>1. StageFits(agent[v]) /\ agent'[v] = agent[v] /\ agent[v].req \in Requests
      BY <1>1 DEF StagesFit, Agents
    <3> QED BY <2>2, <2>3, <3>1 DEF StageFits
  <2>5. agent'[w] = next
    BY <1>1
  <2>6. CASE next = Resting
    <3>1. StageFits(agent[w])'
      BY <2>5, <2>6, RestingTyped DEF StageFits
    <3> QED BY <2>4, <3>1 DEF StagesFit
  <2>7. CASE next.req = r /\ next.copy = new /\ next.at \in {"starting", "executing"}
    <3>1. req'[r].status # "ABSENT"
      BY <1>1, <1>2, <1>4, <2>1
    <3>2. StageFits(agent[w])'
      BY <1>2, <2>3, <2>5, <2>7, <3>1 DEF StageFits
    <3> QED BY <2>4, <3>2 DEF StagesFit
  <2> QED BY <2>6, <2>7 DEF r
<1>14. LoneCopies'
  <2> SUFFICES ASSUME NEW q \in Requests, q \notin past.overlapped,
                      NEW u \in Workers, Holds(u, q)'
               PROVE  agent'[u].copy = req'[q] /\ \A v \in Workers : Holds(v, q)' => v = u
    BY DEF LoneCopies
  <2>1. agent'[w] = next /\ \A v \in Workers \ {w} : agent'[v] = agent[v]
    BY <1>1
  <2>2. \A v \in Workers : Holds(v, q)' => Holds(v, q)
    BY <2>1, RestingTyped DEF Holds, r
  <2>3. agent[u].copy = req[q] /\ \A v \in Workers : Holds(v, q) => v = u
    BY <1>1, <2>2 DEF LoneCopies
  <2>4. CASE u = w
    <3>1. q = r /\ next.copy = new
      BY <2>1, <2>2, <2>4, RestingTyped DEF Holds, r
    <3>2. row = new
      BY <2>3, <2>4, <3>1 DEF r, row
    <3> QED BY <1>1, <1>2, <1>4, <2>1, <2>2, <2>3, <2>4, <3>1, <3>2
  <2>5. CASE u # w
    <3>1. q # r
      BY <2>3, <2>5 DEF Holds, r
    <3> QED BY <1>1, <1>4, <2>1, <2>2, <2>3, <2>5, <3>1
  <2> QED BY <2>4, <2>5
<1>15. StartedEnds'
  <2> SUFFICES ASSUME NEW q \in p.started
               PROVE  q \notin past.overlapped /\ req'[q].status \in Ended
    BY DEF StartedEnds
  <2>1. CASE q = r
    <3>1. r \notin past.overlapped /\ new.status \in Ended
      BY <1>1, <2>1 DEF StartedEnds, r
    <3>2. req[r] = agent[w].copy
      BY <1>1, <1>2, <3>1 DEF LoneCopies, Holds, r
    <3>3. row = new
      BY <3>2 DEF r, row
    <3> QED BY <1>1, <1>2, <1>4, <2>1, <3>1, <3>3
  <2>2. CASE q # r
    <3>1. q \in past.started /\ q \in Requests
      BY <1>1, <2>2 DEF r, Pasts
    <3> QED BY <1>1, <1>4, <2>2, <3>1 DEF StartedEnds
  <2> QED BY <2>1, <2>2
<1> QED BY <1>10, <1>11, <1>12, <1>13, <1>14, <1>15 DEF RemInv

-----------------------------------------------------------------------------
(* The parts of the invariant that the actions of a worker need.           *)
LEMMA Held ==
  ASSUME RemInv, NEW w \in Workers
  PROVE  /\ agent[w] \in Agents /\ agent[w].req \in Requests /\ agent[w].copy \in RequestRows
         /\ agent[w].at \in Stages /\ agent[w].bypass \in BOOLEAN
         /\ req[agent[w].req] \in RequestRows
         /\ past \in Pasts /\ now \in 0 .. MaxTime /\ finding \in [Findings -> {"OPEN", "RESOLVED"}]
         /\ Fits(agent[w].copy, agent[w].req) /\ StageFits(agent[w])
         /\ agent[w].at # "idle" /\ agent[w].req \in past.started =>
              req[agent[w].req] = agent[w].copy /\ agent[w].copy.status \in Ended
<1>1. /\ req \in [Requests -> RequestRows] /\ agent \in [Workers -> Agents]
      /\ now \in 0 .. MaxTime /\ past \in Pasts /\ finding \in [Findings -> {"OPEN", "RESOLVED"}]
      /\ RowsFit /\ CopiesFit /\ StagesFit /\ LoneCopies /\ StartedEnds
  BY RemTypes DEF RemInv
<1>2. agent[w] \in Agents
  BY <1>1
<1>3. ASSUME agent[w].at # "idle", agent[w].req \in past.started
      PROVE  req[agent[w].req] = agent[w].copy /\ agent[w].copy.status \in Ended
  BY <1>1, <1>2, <1>3 DEF StartedEnds, LoneCopies, Holds, Agents
<1> QED BY <1>1, <1>2, <1>3 DEF Agents, CopiesFit, StagesFit

(* A review by a worker.                                                   *)
LEMMA ApproveKeeps == ASSUME RemInv, NEW w \in Workers, Approve(w) PROVE RemInv'
<1> DEFINE r == agent[w].req
           old == agent[w].copy
<1>1. PICK marker \in Markers(r) :
        LET override == old.escalated \/ marker
        IN  /\ WriteNoted(r, old, [old EXCEPT !.status = "APPROVED", !.escalated = FALSE,
                                              !.override = override])
            /\ past' = [past EXCEPT !.marked = IF override THEN @ \cup {r} ELSE @]
  BY DEF Approve
<1>2. (old.escalated \/ marker) \in BOOLEAN
  OBVIOUS
<1>3. PICK override \in BOOLEAN : override = (old.escalated \/ marker)
  BY <1>2
<1>4. PICK b \in BOOLEAN : b = ~override
  OBVIOUS
<1> DEFINE new == [old EXCEPT !.status = "APPROVED", !.escalated = FALSE, !.override = override]
           copy == [old EXCEPT !.override = b]
           p == [past EXCEPT !.marked = IF override THEN @ \cup {r} ELSE @]
<1>5. /\ r \in Requests /\ old \in RequestRows /\ past \in Pasts /\ agent[w].at = "approving"
      /\ req[r] \in RequestRows /\ now' = now /\ finding' = finding
      /\ old.status \in InReview
      /\ r \notin past.started
  BY Held DEF Approve, StageFits, InReview, Ended
<1>6. /\ new \in RequestRows /\ new.status = "APPROVED" /\ new.override = override
      /\ new.due = old.due
  BY <1>5 DEF RequestRows, RequestStatuses, Waiting
<1>7. WriteNoted(r, old, new) /\ past' = p
  BY <1>1, <1>3
<1>8. new.override = override /\ b = ~new.override /\ b # new.override
  BY <1>4, <1>6
<1>9. Write(r, copy, new)
  BY <1>7, <1>8 DEF WriteNoted
<1> HIDE DEF old, new
<1>10. /\ copy \in RequestRows /\ copy.status = old.status /\ copy.due = old.due
       /\ Flushed(old, copy, new) = new
  BY <1>5, <1>6, <1>8, NotedRow
<1>11. /\ p \in Pasts /\ past.marked \subseteq p.marked /\ p.due = past.due
       /\ p.overlapped = past.overlapped /\ p.started = past.started
       /\ override => r \in p.marked
  BY <1>5 DEF Pasts
<1>12. agent' = [agent EXCEPT ![w] = Resting]
  BY DEF Approve, Done
<1> HIDE DEF r, copy, p
<1> QED
  BY <1>5, <1>6, <1>7, <1>9, <1>10, <1>11, <1>12, Held, RestingTyped, WorkerWrites DEF r, old

(* The approval of the hard-limit sweep, which goes on to execute.         *)
LEMMA SweepApproveKeeps == ASSUME RemInv, NEW w \in Workers, SweepApprove(w) PROVE RemInv'
<1> DEFINE r == agent[w].req
           old == agent[w].copy
           new == [old EXCEPT !.status = "APPROVED", !.override = FALSE]
           copy == [old EXCEPT !.override = TRUE]
           next == [agent[w] EXCEPT !.at = "starting", !.copy = new]
<1>1. /\ r \in Requests /\ old \in RequestRows /\ past \in Pasts /\ agent[w].at = "sweeping"
      /\ req[r] \in RequestRows /\ now' = now /\ finding' = finding /\ past' = past
      /\ old.status = "PENDING" /\ r \notin past.started
      /\ agent[w] \in Agents /\ agent \in [Workers -> Agents]
  BY Held, RemTypes DEF SweepApprove, StageFits, Ended, RemInv
<1>2. /\ new \in RequestRows /\ new.status = "APPROVED" /\ new.override = FALSE
      /\ new.due = old.due
  BY <1>1 DEF RequestRows, RequestStatuses, Waiting
<1>3. Write(r, [old EXCEPT !.override = ~new.override], new)
  BY DEF SweepApprove, WriteNoted
<1>4. Write(r, copy, new)
  BY <1>2, <1>3
<1>5. /\ next \in Agents /\ next.req = r /\ next.copy = new /\ next.at = "starting"
  BY <1>1, <1>2 DEF Agents, Stages
<1>6. agent' = [agent EXCEPT ![w] = next]
  BY <1>1 DEF SweepApprove
<1> HIDE DEF old, new
<1>7. /\ copy \in RequestRows /\ copy.status = old.status /\ copy.due = old.due
      /\ Flushed(old, copy, new) = new
  BY <1>1, <1>2, NotedRow
<1> HIDE DEF r, copy, next
<1> QED
  BY <1>1, <1>2, <1>4, <1>5, <1>6, <1>7, Held, WorkerWrites DEF r, old

(* An execution that fails before it has started.                          *)
LEMMA StartFailsKeeps == ASSUME RemInv, NEW w \in Workers, StartFails(w) PROVE RemInv'
<1> DEFINE r == agent[w].req
           old == agent[w].copy
           new == [old EXCEPT !.status = "FAILED"]
<1>1. /\ r \in Requests /\ old \in RequestRows /\ past \in Pasts /\ agent[w].at = "starting"
      /\ req[r] \in RequestRows /\ now' = now /\ finding' = finding /\ past' = past
  BY Held DEF StartFails, Starting
<1>2. /\ new \in RequestRows /\ new.status = "FAILED" /\ new.override = old.override
      /\ new.due = old.due
  BY <1>1 DEF RequestRows, RequestStatuses, Waiting
<1>3. Write(r, old, new) /\ agent' = [agent EXCEPT ![w] = Resting]
  BY DEF StartFails, Done
<1> HIDE DEF old, new
<1>4. Flushed(old, old, new) = new
  BY <1>1, <1>2, FlushedRow
<1> HIDE DEF r
<1> QED
  BY <1>1, <1>2, <1>3, <1>4, Held, RestingTyped, WorkerWrites DEF r, old, Ended

(* An execution the policy escalates.                                      *)
LEMMA EscalateKeeps == ASSUME RemInv, NEW w \in Workers, Escalate(w) PROVE RemInv'
<1> DEFINE r == agent[w].req
           old == agent[w].copy
           new == [old EXCEPT !.status = "PENDING_APPROVAL", !.escalated = TRUE]
<1>1. /\ r \in Requests /\ old \in RequestRows /\ past \in Pasts /\ agent[w].at = "starting"
      /\ req[r] \in RequestRows /\ now' = now /\ finding' = finding /\ past' = past
      /\ r \notin past.started
  BY Held DEF Escalate, Proceeds, Starting, MayStart, Ended
<1>2. /\ new \in RequestRows /\ new.status = "PENDING_APPROVAL" /\ new.override = old.override
      /\ new.due = old.due
  BY <1>1 DEF RequestRows, RequestStatuses, Waiting, InReview
<1>3. Write(r, old, new) /\ agent' = [agent EXCEPT ![w] = Resting]
  BY DEF Escalate, Done
<1> HIDE DEF old, new
<1>4. Flushed(old, old, new) = new
  BY <1>1, <1>2, FlushedRow
<1> HIDE DEF r
<1> QED
  BY <1>1, <1>2, <1>3, <1>4, Held, RestingTyped, WorkerWrites DEF r, old

(* An execution that is put off.                                           *)
LEMMA ScheduleKeeps == ASSUME RemInv, NEW w \in Workers, Schedule(w) PROVE RemInv'
<1> DEFINE r == agent[w].req
           old == agent[w].copy
           new == Scheduled(old)
           p == [past EXCEPT !.due[r] = IF @ = Unscheduled THEN now + Grace ELSE @]
<1>1. /\ r \in Requests /\ old \in RequestRows /\ past \in Pasts /\ agent[w].at = "starting"
      /\ req[r] \in RequestRows /\ now' = now /\ finding' = finding /\ past' = p
      /\ r \notin past.started
  BY Held DEF Schedule, Proceeds, Starting, MayStart, Ended
<1> now + Grace \in Dues
  BY Held, RemediationConstants DEF Dues
<1>2. /\ new \in RequestRows /\ new.status = "SCHEDULED" /\ new.override = old.override
      /\ new.due = now + Grace
  BY <1>1 DEF Scheduled, RequestRows, RequestStatuses, Waiting, Dues
<1>3. Write(r, old, new) /\ agent' = [agent EXCEPT ![w] = Resting]
  BY DEF Schedule, Done
<1>4. past.due \in [Requests -> Dues]
  BY <1>1 DEF Pasts
<1>5. PICK d \in Dues : d = IF past.due[r] = Unscheduled THEN now + Grace ELSE past.due[r]
  BY <1>1, <1>4
<1>6. p = [past EXCEPT !.due = [past.due EXCEPT ![r] = d]]
  BY <1>1, <1>5 DEF Pasts
<1>7. [past.due EXCEPT ![r] = d] \in [Requests -> Dues]
  BY <1>4
<1>8. /\ p \in Pasts /\ p.marked = past.marked /\ p.started = past.started
      /\ p.overlapped = past.overlapped /\ p.due = [past.due EXCEPT ![r] = d]
  BY <1>1, <1>6, <1>7 DEF Pasts
<1>9. p.due = [past.due EXCEPT ![r] = IF @ = Unscheduled THEN now + Grace ELSE @]
  BY <1>5, <1>8
<1> HIDE DEF old, new
<1>10. Flushed(old, old, new) = new
  BY <1>1, <1>2, FlushedRow
<1> HIDE DEF p
<1>11. /\ p.due = [past.due EXCEPT ![agent[w].req] = IF @ = Unscheduled THEN now + Grace ELSE @]
       /\ agent[w].req \notin p.started
       /\ p.started \in {past.started, past.started \cup ({agent[w].req} \ past.overlapped)}
  BY <1>1, <1>8, <1>9
<1> HIDE DEF r
<1>12. req[agent[w].req] = agent[w].copy => Flushed(req[agent[w].req], old, new) = new
  BY <1>10 DEF old
<1>13. /\ agent[w].at # "idle" /\ Write(agent[w].req, old, new)
       /\ old.status = agent[w].copy.status /\ old.due = agent[w].copy.due
       /\ new.override => agent[w].copy.override
       /\ past.marked \subseteq p.marked /\ p.overlapped = past.overlapped
  BY <1>1, <1>2, <1>3, <1>8 DEF r, old
<1>14. Resting.at = "idle" /\ Resting \in Agents
  BY RestingTyped
<1>15. finding' \in [Findings -> {"OPEN", "RESOLVED"}]
  BY <1>1, Held
<1> QED
  BY <1>1, <1>2, <1>3, <1>8, <1>11, <1>12, <1>13, <1>14, <1>15, WorkerWrites

(* The start of an execution: with a marker where one is required, and     *)
(* past the first time it was put off to.                                  *)
LEMMA StartKeeps == ASSUME RemInv, NEW w \in Workers, Start(w) PROVE RemInv'
<1> DEFINE r == agent[w].req
           old == agent[w].copy
           new == [old EXCEPT !.status = "EXECUTING"]
           next == [agent[w] EXCEPT !.at = "executing", !.copy = new]
           p == [past EXCEPT !.started = @ \cup ({r} \ past.overlapped)]
<1>1. /\ r \in Requests /\ old \in RequestRows /\ past \in Pasts /\ agent[w].at = "starting"
      /\ req[r] \in RequestRows /\ now' = now /\ finding' = finding /\ past' = p
      /\ agent[w] \in Agents /\ agent \in [Workers -> Agents]
      /\ Fits(old, r) /\ now \in 0 .. MaxTime
  BY Held, RemTypes DEF Start, Proceeds, Starting, RemInv
<1>2. /\ new \in RequestRows /\ new.status = "EXECUTING" /\ new.override = old.override
      /\ new.due = old.due
  BY <1>1 DEF RequestRows, RequestStatuses, Waiting
<1>3. Write(r, old, new) /\ agent' = [agent EXCEPT ![w] = next]
  BY <1>1 DEF Start
<1>4. /\ next \in Agents /\ next.req = r /\ next.copy = new /\ next.at = "executing"
      /\ next.bypass = agent[w].bypass
  BY <1>1, <1>2 DEF Agents, Stages
<1>5. r \in Sensitive => old.override
  BY DEF Start, Escalates
<1>6. ~agent[w].bypass => past.due[r] \in 0 .. now
  <2> SUFFICES ASSUME ~agent[w].bypass PROVE past.due[r] \in 0 .. now
    OBVIOUS
  <2>1. old.status = "SCHEDULED" /\ ~(now < old.due)
    BY DEF Start, Proceeds, NotYetDue
  <2>2. past.due[r] \in 0 .. old.due /\ old.due \in Int
    BY <1>1, <2>1, RemediationConstants DEF Fits, RequestRows, Unscheduled
  <2> QED BY <1>1, <2>1, <2>2
<1>7. /\ p \in Pasts /\ p.marked = past.marked /\ p.due = past.due
      /\ p.overlapped = past.overlapped
      /\ p.started = past.started \cup ({r} \ past.overlapped)
  BY <1>1 DEF Pasts
<1> HIDE DEF old, new
<1>8. Flushed(old, old, new) = new
  BY <1>1, <1>2, FlushedRow
<1> HIDE DEF next, p
<1>9. /\ next.req \in Sensitive => new.override
      /\ ~next.bypass => past.due[next.req] \in 0 .. now
      /\ new.status \in Ended
      /\ p.started \in {past.started, past.started \cup ({agent[w].req} \ past.overlapped)}
  BY <1>2, <1>4, <1>5, <1>6, <1>7 DEF Ended
<1> HIDE DEF r
<1>12. req[agent[w].req] = agent[w].copy => Flushed(req[agent[w].req], old, new) = new
  BY <1>8 DEF old
<1>13. /\ agent[w].at # "idle" /\ Write(agent[w].req, old, new)
       /\ old.status = agent[w].copy.status /\ old.due = agent[w].copy.due
       /\ new.override => agent[w].copy.override
       /\ past.marked \subseteq p.marked /\ p.overlapped = past.overlapped
       /\ next.req = agent[w].req
  BY <1>1, <1>2, <1>3, <1>4, <1>7 DEF r, old
<1>15. finding' \in [Findings -> {"OPEN", "RESOLVED"}]
  BY <1>1, Held
<1> QED
  BY <1>1, <1>2, <1>3, <1>4, <1>7, <1>9, <1>12, <1>13, <1>15, WorkerWrites

(* The outcome of an execution.                                            *)
LEMMA OutcomeKeeps == ASSUME RemInv, NEW w \in Workers, Succeed(w) \/ Fail(w) PROVE RemInv'
<1> DEFINE r == agent[w].req
           old == agent[w].copy
<1>1. /\ r \in Requests /\ old \in RequestRows /\ past \in Pasts /\ agent[w].at = "executing"
      /\ req[r] \in RequestRows /\ now' = now /\ past' = past
      /\ finding \in [Findings -> {"OPEN", "RESOLVED"}]
  BY Held DEF Succeed, Fail, Finish
<1>2. PICK new : /\ new \in {[old EXCEPT !.status = "COMPLETED", !.done = TRUE],
                             [old EXCEPT !.status = "FAILED"]}
                 /\ Write(r, old, new) /\ agent' = [agent EXCEPT ![w] = Resting]
  BY DEF Succeed, Fail, Finish, Done
<1>3. /\ new \in RequestRows /\ new.status \in Ended /\ new.override = old.override
      /\ new.due = old.due /\ new.status # "SCHEDULED" /\ new.status # "ABSENT"
  BY <1>1, <1>2 DEF RequestRows, RequestStatuses, Waiting, Ended
<1>4. finding' \in [Findings -> {"OPEN", "RESOLVED"}]
  <2>1. CASE Fail(w)
    BY <1>1, <2>1 DEF Fail
  <2>2. CASE Succeed(w)
    BY <1>1, <2>2 DEF Succeed
  <2> QED BY <2>1, <2>2
<1> HIDE DEF old
<1>5. Flushed(old, old, new) = new
  BY <1>1, <1>3, FlushedRow
<1> HIDE DEF r
<1> QED
  BY <1>1, <1>2, <1>3, <1>4, <1>5, Held, RestingTyped, WorkerWrites DEF r, old

-----------------------------------------------------------------------------
(* A request is written, as it is, by somebody who holds no copy: whoever  *)
(* holds one is no longer alone.                                           *)
LEMMA OthersWrite ==
  ASSUME RemInv, NEW r \in Requests, NEW new \in RequestRows, NEW p \in Pasts,
         req' = [req EXCEPT ![r] = new], agent' = agent, past' = p, now' = now, finding' = finding,
         new.status \notin {"ABSENT", "SCHEDULED"}, new.due = req[r].due,
         p.due = past.due, past.marked \subseteq p.marked,
         new.override => req[r].override \/ r \in p.marked,
         past.overlapped \subseteq p.overlapped, p.started \subseteq past.started \ p.overlapped,
         \A w \in Workers : Holds(w, r) => r \in p.overlapped,
         r \notin p.started
  PROVE  RemInv'
<1>1. /\ req \in [Requests -> RequestRows] /\ agent \in [Workers -> Agents]
      /\ now \in 0 .. MaxTime /\ past \in Pasts
      /\ finding \in [Findings -> {"OPEN", "RESOLVED"}]
      /\ \A q \in Requests : req[q].status = "SCHEDULED" => req[q].due # Unscheduled
      /\ RowsFit /\ CopiesFit /\ StagesFit /\ LoneCopies /\ StartedEnds
  BY RemTypes DEF RemInv
<1>2. req'[r] = new /\ \A q \in Requests \ {r} : req'[q] = req[q]
  BY <1>1
<1>3. \A w \in Workers : agent'[w] = agent[w] /\ agent[w].req \in Requests
  BY <1>1 DEF Agents
<1>4. RemTypeOK'
  <2>1. req' \in [Requests -> RequestRows]
    BY <1>1
  <2>2. \A q \in Requests : req'[q].status = "SCHEDULED" => req'[q].due # Unscheduled
    BY <1>1, <1>2
  <2> QED BY <1>1, <2>1, <2>2 DEF RemTypeOK, Agents, Stages, Pasts, Dues
<1>5. RowsFit'
  <2>1. Fits(new, r)'
    BY <1>1 DEF RowsFit, Fits
  <2> QED BY <1>1, <1>2, <2>1 DEF RowsFit, Fits
<1>6. CopiesFit'
  BY <1>1 DEF CopiesFit, Fits
<1>7. StagesFit'
  <2> SUFFICES ASSUME NEW w \in Workers PROVE StageFits(agent[w])'
    BY DEF StagesFit
  <2>1. StageFits(agent[w])
    BY <1>1 DEF StagesFit
  <2> QED BY <1>2, <1>3, <2>1 DEF StageFits
<1>8. LoneCopies'
  <2> SUFFICES ASSUME NEW q \in Requests, q \notin p.overlapped,
                      NEW u \in Workers, Holds(u, q)
               PROVE  agent[u].copy = req'[q] /\ \A v \in Workers : Holds(v, q) => v = u
    BY DEF LoneCopies, Holds
  <2>1. q # r
    OBVIOUS
  <2> QED BY <1>1, <1>2, <2>1 DEF LoneCopies
<1>9. StartedEnds'
  BY <1>1, <1>2 DEF StartedEnds, Pasts
<1> QED BY <1>4, <1>5, <1>6, <1>7, <1>8, <1>9 DEF RemInv

(* What an overlap makes of the history.                                   *)
LEMMA OverlappedPast ==
  ASSUME RemInv, NEW r \in Requests
  PROVE  /\ Overlapped(r) \in Pasts /\ Overlapped(r).due = past.due
         /\ Overlapped(r).marked = past.marked
         /\ Overlapped(r).overlapped = past.overlapped \cup Overlaps(r)
         /\ Overlapped(r).started = past.started \ Overlaps(r)
         /\ Overlaps(r) \subseteq {r}
         /\ \A w \in Workers : Holds(w, r) => Overlaps(r) = {r}
         /\ past.started \cap past.overlapped = {}
<1>1. past \in Pasts /\ StartedEnds
  BY RemTypes DEF RemInv
<1>2. Overlaps(r) \subseteq {r} /\ \A w \in Workers : Holds(w, r) => Overlaps(r) = {r}
  BY DEF Overlaps, Holds
<1> QED BY <1>1, <1>2 DEF Overlapped, Pasts, StartedEnds

(* Creation writes a request nobody can hold.                              *)
LEMMA CreateKeeps == ASSUME RemInv, NEW r \in Requests, Create(r) PROVE RemInv'
<1> DEFINE new == [req[r] EXCEPT !.status = "PENDING"]
<1>1. /\ req[r] \in RequestRows /\ past \in Pasts /\ StagesFit /\ StartedEnds
      /\ agent' = agent /\ now' = now /\ finding' = finding /\ past' = past
      /\ req[r].status = "ABSENT"
  BY RemTypes DEF RemInv, Create
<1>2. /\ new \in RequestRows /\ new.status = "PENDING" /\ new.due = req[r].due
      /\ new.override = req[r].override
  BY <1>1 DEF RequestRows, RequestStatuses, Waiting, InReview
<1>3. Write(r, req[r], new)
  BY DEF Create
<1>4. \A w \in Workers : ~Holds(w, r)
  BY <1>1 DEF StagesFit, StageFits, Holds
<1>5. r \notin past.started /\ past.started \subseteq past.started \ past.overlapped
  BY <1>1 DEF StartedEnds, Ended
<1> HIDE DEF new
<1>6. req' = [req EXCEPT ![r] = new]
  BY <1>1, <1>2, <1>3, FlushedRow DEF Write
<1> QED BY <1>1, <1>2, <1>4, <1>5, <1>6, OthersWrite

(* A rejection, which a worker that holds the request does not see.        *)
LEMMA RejectKeeps == ASSUME RemInv, NEW r \in Requests, Reject(r) PROVE RemInv'
<1>1. /\ req[r] \in RequestRows /\ past \in Pasts /\ StartedEnds
      /\ agent' = agent /\ now' = now /\ finding' = finding
      /\ req[r].status \in InReview
  BY RemTypes DEF RemInv, Reject
<1>2. PICK marker \in Markers(r) :
        /\ WriteNoted(r, req[r], [req[r] EXCEPT !.status = "REJECTED", !.escalated = FALSE,
                                                !.override = marker])
        /\ past' = [Overlapped(r) EXCEPT !.marked = IF marker THEN @ \cup {r} ELSE @]
  BY DEF Reject
<1>3. marker \in BOOLEAN
  BY DEF Markers
<1>4. PICK b \in BOOLEAN : b = ~marker
  BY <1>3
<1> DEFINE new == [req[r] EXCEPT !.status = "REJECTED", !.escalated = FALSE, !.override = marker]
           copy == [req[r] EXCEPT !.override = b]
           p == [Overlapped(r) EXCEPT !.marked = IF marker THEN @ \cup {r} ELSE @]
<1>5. /\ new \in RequestRows /\ new.status = "REJECTED" /\ new.due = req[r].due
      /\ new.override = marker
  BY <1>1, <1>3 DEF RequestRows, RequestStatuses, Waiting, InReview
<1>6. Write(r, copy, new) /\ b # new.override
  BY <1>2, <1>3, <1>4, <1>5 DEF WriteNoted
<1> HIDE DEF new
<1>7. req' = [req EXCEPT ![r] = new]
  <2>1. Flushed(req[r], copy, new) = new
    BY <1>1, <1>5, <1>6, NotedRow
  <2> HIDE DEF copy
  <2> QED BY <1>6, <2>1 DEF Write
<1>8. r \notin past.started
  BY <1>1 DEF StartedEnds, Ended, InReview
<1>9. /\ p \in Pasts /\ p.due = past.due /\ past.marked \subseteq p.marked
      /\ marker => r \in p.marked
      /\ p.overlapped = past.overlapped \cup Overlaps(r)
      /\ p.started = past.started \ Overlaps(r)
  BY <1>1, OverlappedPast DEF Pasts
<1>10. /\ past.overlapped \subseteq p.overlapped /\ p.started \subseteq past.started \ p.overlapped
       /\ r \notin p.started
       /\ \A w \in Workers : Holds(w, r) => r \in p.overlapped
  BY <1>8, <1>9, OverlappedPast
<1>11. past' = p
  BY <1>2
<1> HIDE DEF p, copy
<1> QED BY <1>1, <1>5, <1>7, <1>9, <1>10, <1>11, OthersWrite

-----------------------------------------------------------------------------
(* A worker takes a copy.                                                  *)
LEMMA LoadKeeps ==
  ASSUME RemInv, NEW w \in Workers, NEW r \in Requests, NEW bypass \in BOOLEAN,
         NEW purpose \in {"approving", "starting", "sweeping"},
         req[r].status # "ABSENT",
         purpose = "approving" => req[r].status \in InReview,
         purpose = "sweeping" => req[r].status = "PENDING",
         Load(w, r, purpose, bypass)
  PROVE  RemInv'
<1> DEFINE next == [at |-> purpose, req |-> r, copy |-> req[r], bypass |-> bypass]
<1>1. /\ req \in [Requests -> RequestRows] /\ agent \in [Workers -> Agents]
      /\ now \in 0 .. MaxTime /\ past \in Pasts
      /\ finding \in [Findings -> {"OPEN", "RESOLVED"}]
      /\ \A q \in Requests : req[q].status = "SCHEDULED" => req[q].due # Unscheduled
      /\ RowsFit /\ CopiesFit /\ StagesFit /\ LoneCopies /\ StartedEnds
  BY RemTypes DEF RemInv
<1>2. /\ req' = req /\ now' = now /\ finding' = finding /\ past' = Overlapped(r)
      /\ agent' = [agent EXCEPT ![w] = next] /\ agent[w].at = "idle"
  BY DEF Load
<1>3. /\ past' \in Pasts /\ past'.due = past.due /\ past'.marked = past.marked
      /\ past'.overlapped = past.overlapped \cup Overlaps(r)
      /\ past'.started = past.started \ Overlaps(r)
      /\ Overlaps(r) \subseteq {r}
      /\ \A v \in Workers : Holds(v, r) => Overlaps(r) = {r}
  BY <1>2, OverlappedPast
<1>4. /\ next \in Agents /\ next.at = purpose /\ next.req = r /\ next.copy = req[r]
      /\ next.bypass = bypass
  BY <1>1 DEF Agents, Stages
<1> HIDE DEF next
<1>5. agent'[w] = next /\ \A v \in Workers \ {w} : agent'[v] = agent[v]
  BY <1>1, <1>2
<1>6. RemTypeOK'
  <2>1. agent' \in [Workers -> Agents]
    BY <1>1, <1>2, <1>4
  <2> QED BY <1>1, <1>2, <1>3, <2>1 DEF RemTypeOK, Agents, Stages, Pasts, Dues
<1>7. RowsFit'
  BY <1>1, <1>2, <1>3 DEF RowsFit, Fits
<1>8. CopiesFit'
  <2>1. Fits(req[r], r)
    BY <1>1 DEF RowsFit
  <2> QED BY <1>1, <1>3, <1>4, <1>5, <2>1 DEF CopiesFit, Fits
<1>9. StagesFit'
  BY <1>1, <1>2, <1>3, <1>4, <1>5 DEF StagesFit, StageFits
<1>10. LoneCopies'
  <2> SUFFICES ASSUME NEW q \in Requests, q \notin past'.overlapped,
                      NEW u \in Workers, Holds(u, q)'
               PROVE  agent'[u].copy = req'[q] /\ \A v \in Workers : Holds(v, q)' => v = u
    BY DEF LoneCopies
  <2>1. q \notin past.overlapped
    BY <1>3
  <2>2. \A v \in Workers \ {w} : Holds(v, q)' <=> Holds(v, q)
    BY <1>5 DEF Holds
  <2>3. CASE q = r
    <3>1. \A v \in Workers : ~Holds(v, r)
      BY <1>3, <2>3
    <3> QED BY <1>2, <1>4, <1>5, <2>2, <2>3, <3>1
  <2>4. CASE q # r
    <3>1. ~Holds(w, q)'
      BY <1>4, <1>5, <2>4 DEF Holds
    <3> QED BY <1>1, <1>2, <1>5, <2>1, <2>2, <3>1 DEF LoneCopies
  <2> QED BY <2>3, <2>4
<1>11. StartedEnds'
  BY <1>1, <1>2, <1>3 DEF StartedEnds
<1> QED BY <1>6, <1>7, <1>8, <1>9, <1>10, <1>11 DEF RemInv

(* A worker leaves what it holds as it is.                                 *)
LEMMA LeaveKeeps == ASSUME RemInv, NEW w \in Workers, Leave(w) PROVE RemInv'
<1>1. /\ req \in [Requests -> RequestRows] /\ agent \in [Workers -> Agents]
      /\ now \in 0 .. MaxTime /\ past \in Pasts
      /\ finding \in [Findings -> {"OPEN", "RESOLVED"}]
      /\ \A q \in Requests : req[q].status = "SCHEDULED" => req[q].due # Unscheduled
      /\ RowsFit /\ CopiesFit /\ StagesFit /\ LoneCopies /\ StartedEnds
  BY RemTypes DEF RemInv
<1>2. /\ UNCHANGED <<req, finding, now, past>> /\ agent' = [agent EXCEPT ![w] = Resting]
  BY DEF Leave
<1>3. agent'[w] = Resting /\ \A v \in Workers \ {w} : agent'[v] = agent[v]
  BY <1>1, <1>2
<1>4. RemTypeOK'
  <2>1. agent' \in [Workers -> Agents]
    BY <1>1, <1>2, RestingTyped
  <2> QED BY <1>1, <1>2, <2>1 DEF RemTypeOK, Agents, Stages, Pasts, Dues
<1>5. RowsFit' /\ StartedEnds'
  BY <1>1, <1>2 DEF RowsFit, Fits, StartedEnds
<1>6. CopiesFit'
  BY <1>1, <1>2, <1>3, RestingTyped DEF CopiesFit, Fits, Unwritten
<1>7. StagesFit'
  BY <1>1, <1>2, <1>3, RestingTyped DEF StagesFit, StageFits
<1>8. LoneCopies'
  <2>1. \A v \in Workers, q \in Requests : Holds(v, q)' => v # w /\ Holds(v, q)
    BY <1>3, RestingTyped DEF Holds
  <2> QED BY <1>1, <1>2, <1>3, <2>1 DEF LoneCopies
<1> QED BY <1>4, <1>5, <1>6, <1>7, <1>8 DEF RemInv

(* Scans, the clock and stuttering.                                        *)
LEMMA RestKeeps ==
  ASSUME RemInv, (\E f \in Findings : Scan(f)) \/ Tick \/ UNCHANGED remVars
  PROVE  RemInv'
<1>1. /\ req \in [Requests -> RequestRows] /\ agent \in [Workers -> Agents]
      /\ now \in 0 .. MaxTime /\ past \in Pasts
      /\ finding \in [Findings -> {"OPEN", "RESOLVED"}]
      /\ \A q \in Requests : req[q].status = "SCHEDULED" => req[q].due # Unscheduled
      /\ RowsFit /\ CopiesFit /\ StagesFit /\ LoneCopies /\ StartedEnds
  BY RemTypes DEF RemInv
<1>2. UNCHANGED <<req, agent, past>>
  BY DEF Scan, Tick, remVars
<1>3. finding' \in [Findings -> {"OPEN", "RESOLVED"}] /\ now' \in 0 .. MaxTime /\ now <= now'
  <2>1. CASE \E f \in Findings : Scan(f)
    BY <1>1, <2>1 DEF Scan
  <2>2. CASE Tick
    BY <1>1, <2>2, RemediationConstants DEF Tick
  <2>3. CASE UNCHANGED remVars
    BY <1>1, <2>3 DEF remVars
  <2> QED BY <2>1, <2>2, <2>3
<1>4. RemTypeOK'
  BY <1>1, <1>2, <1>3 DEF RemTypeOK, Agents, Stages, Pasts, Dues
<1>5. RowsFit'
  BY <1>1, <1>2, <1>3, RemediationConstants DEF RowsFit, Fits, Pasts, Dues, Unscheduled
<1>6. CopiesFit' /\ LoneCopies' /\ StartedEnds'
  BY <1>1, <1>2 DEF CopiesFit, Fits, LoneCopies, Holds, StartedEnds
<1>7. StagesFit'
  <2> SUFFICES ASSUME NEW w \in Workers PROVE StageFits(agent[w])'
    BY DEF StagesFit
  <2>1. StageFits(agent[w]) /\ past.due[agent[w].req] \in Dues
    BY <1>1 DEF StagesFit, Agents, Pasts
  <2>2. past.due[agent[w].req] \in 0 .. now => past.due[agent[w].req] \in 0 .. now'
    BY <1>1, <1>3
  <2> QED BY <1>2, <2>1, <2>2 DEF StageFits
<1> QED BY <1>4, <1>5, <1>6, <1>7 DEF RemInv

(* Every step keeps the invariant.                                         *)
LEMMA RemStep == RemInv /\ [RemNext]_remVars => RemInv'
<1> SUFFICES ASSUME RemInv, [RemNext]_remVars PROVE RemInv'
  OBVIOUS
<1>1. ASSUME NEW r \in Requests, Create(r) \/ Reject(r) PROVE RemInv'
  BY <1>1, CreateKeeps, RejectKeeps
<1>2. ASSUME NEW w \in Workers, WorkerStep(w) PROVE RemInv'
  <2>1. ASSUME NEW r \in Requests, LoadToApprove(w, r) PROVE RemInv'
    <3>1. req[r].status \in InReview /\ Load(w, r, "approving", FALSE)
      BY <2>1 DEF LoadToApprove
    <3> QED BY <3>1, LoadKeeps DEF InReview
  <2>2. ASSUME NEW r \in Requests, LoadToExecute(w, r) PROVE RemInv'
    <3>1. PICK bypass \in BOOLEAN : req[r].status # "ABSENT" /\ Load(w, r, "starting", bypass)
      BY <2>2 DEF LoadToExecute
    <3> QED BY <3>1, LoadKeeps
  <2>3. ASSUME NEW r \in Requests, LoadToSweep(w, r) PROVE RemInv'
    <3>1. PICK bypass \in BOOLEAN : req[r].status = "PENDING" /\ Load(w, r, "sweeping", bypass)
      BY <2>3 DEF LoadToSweep
    <3> QED BY <3>1, LoadKeeps
  <2> QED
    BY <1>2, <2>1, <2>2, <2>3, LeaveKeeps, ApproveKeeps, SweepApproveKeeps, StartFailsKeeps,
       EscalateKeeps, ScheduleKeeps, StartKeeps, OutcomeKeeps DEF WorkerStep
<1> QED BY <1>1, <1>2, RestKeeps DEF RemNext

(* The invariant of every behaviour.                                       *)
LEMMA RemInvariant == RemSpec => []RemInv
BY RemInitial, RemStep, PTL DEF RemSpec

(* Rows, copies and findings keep their types, and a scheduled request has *)
(* its time, whatever stale copies are written over it: a time that was    *)
(* set is never taken away (RemediationRequest).                           *)
THEOREM RemediationTypeCorrect == RemSpec => []RemTypeOK
<1>1. RemInv => RemTypeOK
  BY DEF RemInv
<1> QED BY <1>1, RemInvariant, PTL

(* An escalated action is carried out only after a review with an          *)
(* override, for any number of workers with stale copies: a copy or a row  *)
(* with a marker has been reviewed (handle_policy_decision).               *)
THEOREM OverridesReviewed == RemSpec => []OverrideRequired
<1>1. RemInv => OverrideRequired
  BY Held DEF OverrideRequired, StageFits, Fits
<1> QED BY <1>1, RemInvariant, PTL

(* An execution that does not bypass the grace period starts when a        *)
(* schedule has run out (maybe_schedule_grace_period_execution).           *)
THEOREM GraceIsRespected == RemSpec => []GraceRespected
<1>1. RemInv => GraceRespected
  BY Held DEF GraceRespected, StageFits
<1> QED BY <1>1, RemInvariant, PTL

(* Only Start takes a worker to the action.                                *)
LEMMA StartsOnly ==
  ASSUME RemInv, RemNext, NEW w \in Workers, Starting(w), agent'[w].at = "executing"
  PROVE  Start(w)
<1>1. agent \in [Workers -> Agents]
  BY RemTypes DEF RemInv
<1>2. ASSUME UNCHANGED agent PROVE FALSE
  BY <1>2 DEF Starting
<1>3. PICK v \in Workers : WorkerStep(v)
  BY <1>2 DEF RemNext, Create, Reject, Scan, Tick
<1>4. ASSUME NEW a, agent' = [agent EXCEPT ![v] = a], a.at # "executing" PROVE FALSE
  BY <1>1, <1>4 DEF Starting
<1>5. ~(agent' = [agent EXCEPT ![v] = Resting])
  BY <1>4, RestingTyped
<1>6. ASSUME NEW r \in Requests, LoadToApprove(v, r) \/ LoadToExecute(v, r) \/ LoadToSweep(v, r)
      PROVE  FALSE
  <2>1. PICK purpose, bypass : purpose # "executing" /\ Load(v, r, purpose, bypass)
    BY <1>6 DEF LoadToApprove, LoadToExecute, LoadToSweep
  <2> DEFINE a == [at |-> purpose, req |-> r, copy |-> req[r], bypass |-> bypass]
  <2>2. agent' = [agent EXCEPT ![v] = a] /\ a.at = purpose
    BY <2>1 DEF Load
  <2> HIDE DEF a
  <2> QED BY <1>4, <2>1, <2>2
<1>7. ~SweepApprove(v)
  <2> SUFFICES ASSUME SweepApprove(v) PROVE FALSE
    OBVIOUS
  <2>1. PICK new : agent' = [agent EXCEPT ![v].at = "starting", ![v].copy = new]
    BY DEF SweepApprove
  <2>2. agent' = [agent EXCEPT ![v] = [agent[v] EXCEPT !.at = "starting", !.copy = new]]
    BY <1>1, <2>1
  <2>3. [agent[v] EXCEPT !.at = "starting", !.copy = new].at # "executing"
    BY <1>1 DEF Agents
  <2> QED BY <1>4, <2>2, <2>3
<1>8. Start(v)
  BY <1>3, <1>5, <1>6, <1>7
     DEF WorkerStep, Leave, Approve, StartFails, Escalate, Schedule, Succeed, Fail, Finish, Done
<1>9. v = w
  <2> SUFFICES ASSUME v # w PROVE FALSE
    OBVIOUS
  <2>1. agent'[w] = agent[w]
    BY <1>1, <1>8 DEF Start
  <2> QED BY <2>1 DEF Starting
<1> QED BY <1>8, <1>9

(* What is approved is carried out once, but for overlapping workers       *)
(* (execute_remediation_request): the copy of a lone worker is the row,    *)
(* which has ended.                                                        *)
THEOREM ExecutionsOnce == RemSpec => ExecutedOnce
<1>1. ASSUME RemInv, [RemNext]_remVars
      PROVE  [\A w \in Workers : Starting(w) /\ agent'[w].at = "executing" =>
                agent[w].req \notin past.started]_remVars
  <2> SUFFICES ASSUME RemNext, NEW w \in Workers, Starting(w), agent'[w].at = "executing"
               PROVE  agent[w].req \notin past.started
    BY <1>1
  <2>1. Start(w)
    BY <1>1, StartsOnly
  <2>2. agent[w].copy.status \in {"APPROVED", "SCHEDULED"}
    BY <2>1 DEF Start, Proceeds, MayStart
  <2> QED BY <1>1, <2>2, Held DEF Starting, Ended
<1> QED BY <1>1, RemInvariant, PTL DEF RemSpec, ExecutedOnce
=============================================================================
