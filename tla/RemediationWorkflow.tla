------------------------ MODULE RemediationWorkflow ------------------------
(***************************************************************************)
(* Remediation requests of a tenant (optimization/domain/remediation.py): *)
(* created, perhaps for a finding, reviewed, executed against the cloud.   *)
(* Every endpoint first loads the request to authorize the caller, and the *)
(* job handler to see when it is due; the SELECT ... FOR UPDATE that comes *)
(* later locks the row but leaves the object already loaded as it is.  So  *)
(* a worker judges by `copy`, its columns when it was loaded, and what it  *)
(* writes are the columns that differ from the copy.                       *)
(*                                                                         *)
(* `past` is history: the requests reviewed with an override marker, when  *)
(* each first fell due, which were worked on while a worker held a copy,   *)
(* and which others have been started.                                     *)
(***************************************************************************)
EXTENDS Integers, FiniteSets

CONSTANTS Requests, Workers, Findings, NoFinding,
          Finding,         \* the finding a request is bound to
          Sensitive,       \* requests the policy escalates without an override
          SafeActions,     \* confident, low-risk requests
          Grace, MaxTime,  \* ticks of the grace period; bound: clock
          FailureLimit     \* failures a day that open the circuit breaker

ASSUME RemediationConstants ==
  /\ IsFiniteSet(Requests) /\ Requests # {}
  /\ NoFinding \notin Findings
  /\ Finding \in [Requests -> Findings \cup {NoFinding}]
  /\ Sensitive \subseteq Requests /\ SafeActions \subseteq Requests
  /\ Grace \in Nat \ {0} /\ MaxTime \in Nat /\ FailureLimit \in Nat \ {0}

VARIABLES req, agent, finding, now, past
remVars == <<req, agent, finding, now, past>>

Unscheduled == -1

InReview == {"PENDING", "PENDING_APPROVAL"}
Waiting  == InReview \cup {"APPROVED", "SCHEDULED"}
OpenStatuses == Waiting \cup {"EXECUTING"}
RequestStatuses == Waiting \cup {"ABSENT", "EXECUTING", "COMPLETED", "FAILED", "REJECTED"}

(* `override`: the review notes carry a marker of the policy engine;       *)
(* `done`: executed_at is set, of today.                                   *)
RequestRows == [status: RequestStatuses, escalated: BOOLEAN, override: BOOLEAN,
                due: {Unscheduled} \cup (0 .. MaxTime + Grace), done: BOOLEAN]

Unwritten == [status |-> "ABSENT", escalated |-> FALSE, override |-> FALSE,
              due |-> Unscheduled, done |-> FALSE]

Resting == [at |-> "idle", req |-> CHOOSE r \in Requests : TRUE, copy |-> Unwritten, bypass |-> FALSE]

RemInit ==
  /\ req = [r \in Requests |-> Unwritten]
  /\ agent = [w \in Workers |-> Resting]
  /\ finding = [f \in Findings |-> "OPEN"]
  /\ now = 0
  /\ past = [marked |-> {}, due |-> [r \in Requests |-> Unscheduled], overlapped |-> {}, started |-> {}]

(***************************************************************************)
(* Writing a request: the changed columns only, under the unique index on  *)
(* the open requests of a finding.                                         *)
(***************************************************************************)
Flushed(row, copy, new) == [f \in DOMAIN row |-> IF new[f] = copy[f] THEN row[f] ELSE new[f]]

Bound(r) == Finding[r] # NoFinding

UniqueWith(r, status) ==
  Bound(r) /\ status \in OpenStatuses =>
    \A s \in Requests \ {r} : Finding[s] = Finding[r] => req[s].status \notin OpenStatuses

Write(r, copy, new) ==
  /\ UniqueWith(r, Flushed(req[r], copy, new).status)
  /\ req' = [req EXCEPT ![r] = Flushed(@, copy, new)]

(* create_request and create_request_from_finding.                         *)
Create(r) ==
  /\ req[r].status = "ABSENT"
  /\ Bound(r) => finding[Finding[r]] = "OPEN"
  /\ Write(r, req[r], [req[r] EXCEPT !.status = "PENDING"])
  /\ UNCHANGED <<agent, finding, now, past>>

(* A scan finds the waste again, or no longer.                             *)
Scan(f) ==
  /\ \E status \in {"OPEN", "RESOLVED"} : finding' = [finding EXCEPT ![f] = status]
  /\ UNCHANGED <<req, agent, now, past>>

(* Loading.  A review of a request that is not in review, and a sweep over *)
(* one it does not select, end without effect and are left out; whatever   *)
(* the status, an execution has one.                                       *)
Overlaps(r) == IF \E v \in Workers : agent[v].at # "idle" /\ agent[v].req = r THEN {r} ELSE {}
Overlapped(r) == [past EXCEPT !.overlapped = @ \cup Overlaps(r), !.started = @ \ Overlaps(r)]

Load(w, r, purpose, bypass) ==
  /\ agent[w].at = "idle"
  /\ past' = Overlapped(r)
  /\ agent' = [agent EXCEPT ![w] = [at |-> purpose, req |-> r, copy |-> req[r], bypass |-> bypass]]
  /\ UNCHANGED <<req, finding, now>>

LoadToApprove(w, r) == req[r].status \in InReview /\ Load(w, r, "approving", FALSE)

LoadToExecute(w, r) ==
  req[r].status # "ABSENT" /\ \E bypass \in BOOLEAN : Load(w, r, "starting", bypass)

LoadToSweep(w, r) ==
  /\ req[r].status = "PENDING" /\ r \in SafeActions
  /\ \E bypass \in BOOLEAN : Load(w, r, "sweeping", bypass)

(* The caller is not allowed, an error ends the call or the process stops. *)
Leave(w) ==
  /\ agent[w].at # "idle"
  /\ agent' = [agent EXCEPT ![w] = Resting]
  /\ UNCHANGED <<req, finding, now, past>>

Done(w) == agent' = [agent EXCEPT ![w] = Resting]

(***************************************************************************)
(* Reviewing.  An escalated request takes an owner, whose approval adds    *)
(* the marker; the notes of any reviewer may carry one, which only matters *)
(* for a sensitive request.                                                *)
(***************************************************************************)

(* The notes are new, so they are written whatever the copy had.           *)
WriteNoted(r, copy, new) == Write(r, [copy EXCEPT !.override = ~new.override], new)

Markers(r) == IF r \in Sensitive THEN BOOLEAN ELSE {FALSE}

Approve(w) ==
  LET r == agent[w].req
      copy == agent[w].copy
  IN  /\ agent[w].at = "approving"
      /\ \E owner \in BOOLEAN, marker \in Markers(r) :
           LET override == copy.escalated \/ marker
           IN  /\ copy.escalated => owner
               /\ WriteNoted(r, copy, [copy EXCEPT !.status = "APPROVED", !.escalated = FALSE,
                                                   !.override = override])
               /\ past' = [past EXCEPT !.marked = IF override THEN @ \cup {r} ELSE @]
      /\ Done(w)
      /\ UNCHANGED <<finding, now>>

Reject(r) ==
  /\ req[r].status \in InReview
  /\ \E marker \in Markers(r) :
       /\ WriteNoted(r, req[r], [req[r] EXCEPT !.status = "REJECTED", !.escalated = FALSE,
                                               !.override = marker])
       /\ past' = [Overlapped(r) EXCEPT !.marked = IF marker THEN @ \cup {r} ELSE @]
  /\ UNCHANGED <<agent, finding, now>>

(* The hard-limit sweep read this request as PENDING, approves it whatever *)
(* has become of it and goes on to execute it.                             *)
SweepApprove(w) ==
  LET copy == agent[w].copy
      new  == [copy EXCEPT !.status = "APPROVED", !.override = FALSE]
  IN  /\ agent[w].at = "sweeping"
      /\ WriteNoted(agent[w].req, copy, new)
      /\ agent' = [agent EXCEPT ![w].at = "starting", ![w].copy = new]
      /\ UNCHANGED <<finding, now, past>>

(***************************************************************************)
(* Executing, up to the commit of EXECUTING: one transaction.              *)
(***************************************************************************)
(* Only requests with an execution time of today are counted, and only a   *)
(* completed request is given one.                                         *)
BreakerOpen == Cardinality({r \in Requests : req[r].status = "FAILED" /\ req[r].done}) >= FailureLimit

NotYetDue_Ignored(copy) == FALSE
NotYetDue(copy) == copy.status = "SCHEDULED" /\ now < copy.due

MayStart_Resumes(r, copy) ==
  /\ Bound(r) => finding[Finding[r]] = "OPEN"
  /\ ~BreakerOpen
  /\ copy.status \in {"APPROVED", "SCHEDULED", "EXECUTING"}

MayStart(r, copy) ==
  /\ Bound(r) => finding[Finding[r]] = "OPEN"
  /\ ~BreakerOpen
  /\ copy.status \in {"APPROVED", "SCHEDULED"}

Escalates_Never(r, copy) == FALSE
Escalates(r, copy) == r \in Sensitive /\ ~copy.override

Starting(w) == agent[w].at = "starting"
Proceeds(w) ==
  /\ Starting(w)
  /\ MayStart(agent[w].req, agent[w].copy)
  /\ NotYetDue(agent[w].copy) => agent[w].bypass

(* Every error, the wrong status and a policy block among them, marks the  *)
(* request FAILED, unless it was as loaded.                                *)
StartFails(w) ==
  /\ Starting(w)
  /\ Write(agent[w].req, agent[w].copy, [agent[w].copy EXCEPT !.status = "FAILED"])
  /\ Done(w)
  /\ UNCHANGED <<finding, now, past>>

Escalate(w) ==
  /\ Proceeds(w)
  /\ Escalates(agent[w].req, agent[w].copy)
  /\ Write(agent[w].req, agent[w].copy,
           [agent[w].copy EXCEPT !.status = "PENDING_APPROVAL", !.escalated = TRUE])
  /\ Done(w)
  /\ UNCHANGED <<finding, now, past>>

(* The grace period: the execution, and a job for it, is put off.          *)
Scheduled_Undated(copy) == [copy EXCEPT !.status = "SCHEDULED"]
Scheduled(copy) == [copy EXCEPT !.status = "SCHEDULED", !.due = now + Grace]

Schedule(w) ==
  /\ Proceeds(w)
  /\ ~Escalates(agent[w].req, agent[w].copy)
  /\ agent[w].copy.status = "APPROVED" /\ ~agent[w].bypass
  /\ Write(agent[w].req, agent[w].copy, Scheduled(agent[w].copy))
  /\ past' = [past EXCEPT !.due[agent[w].req] = IF @ = Unscheduled THEN now + Grace ELSE @]
  /\ Done(w)
  /\ UNCHANGED <<finding, now>>

Start(w) ==
  LET new == [agent[w].copy EXCEPT !.status = "EXECUTING"]
  IN  /\ Proceeds(w)
      /\ ~Escalates(agent[w].req, agent[w].copy)
      /\ agent[w].copy.status = "SCHEDULED" \/ agent[w].bypass
      /\ Write(agent[w].req, agent[w].copy, new)
      /\ agent' = [agent EXCEPT ![w].at = "executing", ![w].copy = new]
      /\ past' = [past EXCEPT !.started = @ \cup ({agent[w].req} \ past.overlapped)]
      /\ UNCHANGED <<finding, now>>

(***************************************************************************)
(* The action itself, with no lock held, and its outcome: FAILED by the    *)
(* action or by an error after it.                                         *)
(***************************************************************************)
Finish(w, new) ==
  /\ agent[w].at = "executing"
  /\ Write(agent[w].req, agent[w].copy, new)
  /\ Done(w)
  /\ UNCHANGED <<now, past>>

Succeed(w) ==
  /\ Finish(w, [agent[w].copy EXCEPT !.status = "COMPLETED", !.done = TRUE])
  /\ finding' = IF Bound(agent[w].req)
                THEN [finding EXCEPT ![Finding[agent[w].req]] = "RESOLVED"] ELSE finding

Fail(w) ==
  /\ Finish(w, [agent[w].copy EXCEPT !.status = "FAILED"])
  /\ UNCHANGED finding

Tick ==
  /\ now < MaxTime
  /\ now' = now + 1
  /\ UNCHANGED <<req, agent, finding, past>>

WorkerStep(w) ==
  \/ \E r \in Requests : LoadToApprove(w, r) \/ LoadToExecute(w, r) \/ LoadToSweep(w, r)
  \/ Leave(w) \/ Approve(w) \/ SweepApprove(w)
  \/ StartFails(w) \/ Escalate(w) \/ Schedule(w) \/ Start(w) \/ Succeed(w) \/ Fail(w)

RemNext ==
  \/ \E r \in Requests : Create(r) \/ Reject(r)
  \/ \E w \in Workers : WorkerStep(w)
  \/ \E f \in Findings : Scan(f)
  \/ Tick

RemSpec == RemInit /\ [][RemNext]_remVars

-----------------------------------------------------------------------------
(* Types of the requests and of what the workers hold, stale copies        *)
(* written over newer rows included, and no scheduled request is without   *)
(* its time (RemediationRequest).                                          *)
RemTypeOK ==
  /\ req \in [Requests -> RequestRows]
  /\ agent \in [Workers -> [at: {"idle", "approving", "sweeping", "starting", "executing"},
                            req: Requests, copy: RequestRows, bypass: BOOLEAN]]
  /\ finding \in [Findings -> {"OPEN", "RESOLVED"}]
  /\ now \in 0 .. MaxTime
  /\ past \in [marked: SUBSET Requests, overlapped: SUBSET Requests, started: SUBSET Requests,
              due: [Requests -> {Unscheduled} \cup (0 .. MaxTime + Grace)]]
  /\ \A r \in Requests : req[r].status = "SCHEDULED" => req[r].due # Unscheduled

(* An action the policy escalates is never carried out unless a reviewer   *)
(* approved it with an override, however reviews, sweeps and executions    *)
(* with stale copies overwrite each other (handle_policy_decision).        *)
OverrideRequired ==
  \A w \in Workers : agent[w].at = "executing" /\ agent[w].req \in Sensitive =>
    agent[w].req \in past.marked

(* An execution that does not bypass the grace period starts only when a   *)
(* schedule of that very request has run out                               *)
(* (maybe_schedule_grace_period_execution).                                *)
GraceRespected ==
  \A w \in Workers : agent[w].at = "executing" /\ ~agent[w].bypass =>
    past.due[agent[w].req] \in 0 .. now

(* What is approved is carried out once: an execution that fails, is       *)
(* retried by the job, is interrupted or called for again never starts     *)
(* again.  Only a worker that holds a copy while others load or reject the *)
(* request may bring it back (execute_remediation_request).                *)
ExecutedOnce ==
  [][\A w \in Workers : Starting(w) /\ agent'[w].at = "executing" =>
       agent[w].req \notin past.started]_remVars

(* What the circuit breaker is said to do: with FailureLimit (5) requests  *)
(* FAILED, here others than the one at hand, no execution starts.          *)
FailuresOpenBreaker ==
  [][\A w \in Workers : Starting(w) /\ agent'[w].at = "executing" =>
       Cardinality({r \in Requests \ {agent[w].req} : req[r].status = "FAILED"}) < FailureLimit]_remVars
=============================================================================
