---------------------------- MODULE ActionQueue -----------------------------
(***************************************************************************)
(* The queue of approved enforcement actions (enforcement/domain/          *)
(* actions.py, actions_terminal_ops.py).  Workers lease the next due       *)
(* action and later report its end; anybody with the role may cancel.      *)
(* Every request is a session of its own: leasing is a read followed by a  *)
(* compare-and-set, while completion, failure and cancellation read and    *)
(* check a row and then write it without a condition.                      *)
(***************************************************************************)
EXTENDS Integers, Sequences

CONSTANTS Actions, Workers,
          Calls,                       \* requests in flight at a time
          MaxAttempts,                 \* max_attempts of each action
          RetryBackoff, LeaseTtl,      \* ticks
          Tries,                       \* candidates a lease call tries (5)
          MaxTime,                     \* bound of the clock
          Nobody                       \* NULL of locked_by_worker_id

ASSUME ActionConstants ==
  /\ MaxAttempts \in [Actions -> Nat \ {0}]
  /\ RetryBackoff \in Nat \ {0} /\ LeaseTtl \in Nat \ {0}
  /\ Tries \in Nat /\ MaxTime \in Nat
  /\ Nobody \notin Workers

VARIABLES action,      \* the table
          call,        \* what each request has read
          now,
          granted,     \* history: the workers an action was handed to, in order
          overlapped   \* history: actions of which two reports were in flight at once
actionVars == <<action, call, now, granted, overlapped>>

NoLease == -1
Ended   == {"SUCCEEDED", "FAILED", "CANCELLED"}

ActionRows == [status: {"ABSENT", "QUEUED", "RUNNING"} \cup Ended, attempts: Nat, next: Nat,
               lockedBy: Workers \cup {Nobody}, lease: Nat \cup {NoLease}]
NoAction   == [status |-> "ABSENT", attempts |-> 0, next |-> 0, lockedBy |-> Nobody,
               lease |-> NoLease]

Reports == {"complete", "retry", "fail", "cancel"}
NoCall  == [at |-> "none"]
Leasing == [at: {"select"}, worker: Workers, asOf: Nat, tries: 0 .. Tries]
Claiming == [at: {"claim"}, worker: Workers, asOf: Nat, tries: 0 .. Tries,
             action: Actions, copy: ActionRows]
Reporting == [at: Reports, action: Actions, copy: ActionRows]

ActionsInit ==
  /\ action = [a \in Actions |-> NoAction]
  /\ call = [c \in Calls |-> NoCall]
  /\ now = 0
  /\ granted = [a \in Actions |-> <<>>]
  /\ overlapped = {}

(***************************************************************************)
(* A request for an action that is known by its key is answered with the   *)
(* existing row.  Whether decision and approval allow it is checked        *)
(* before; neither is ever taken back.                                     *)
(***************************************************************************)
Create(a) ==
  /\ action[a].status = "ABSENT"
  /\ action' = [action EXCEPT ![a].status = "QUEUED", ![a].next = now]
  /\ UNCHANGED <<call, now, granted, overlapped>>

(***************************************************************************)
(* Leasing.                                                                *)
(***************************************************************************)
LeaseFree(row, asOf) == row.lease = NoLease \/ row.lease <= asOf

StartLease(c, w) ==
  /\ call[c] = NoCall
  /\ call' = [call EXCEPT ![c] = [at |-> "select", worker |-> w, asOf |-> now, tries |-> 0]]
  /\ UNCHANGED <<action, now, granted, overlapped>>

Candidate_PastLimit(a, asOf) ==
  action[a].status = "QUEUED" /\ action[a].next <= asOf /\ LeaseFree(action[a], asOf)

Candidate(a, asOf) ==
  /\ action[a].status = "QUEUED"
  /\ action[a].next <= asOf
  /\ action[a].attempts < MaxAttempts[a]
  /\ LeaseFree(action[a], asOf)

First(a, asOf) ==
  Candidate(a, asOf) /\ \A b \in Actions : Candidate(b, asOf) => action[a].next <= action[b].next

SelectCandidate(c) ==
  /\ call[c].at = "select" /\ call[c].tries < Tries
  /\ \E a \in Actions :
       /\ First(a, call[c].asOf)
       /\ call' = [call EXCEPT ![c] =
            [at |-> "claim", worker |-> call[c].worker, asOf |-> call[c].asOf,
             tries |-> call[c].tries, action |-> a, copy |-> action[a]]]
  /\ UNCHANGED <<action, now, granted, overlapped>>

NothingToLease(c) ==
  /\ call[c].at = "select"
  /\ call[c].tries = Tries \/ ~\E a \in Actions : Candidate(a, call[c].asOf)
  /\ call' = [call EXCEPT ![c] = NoCall]
  /\ UNCHANGED <<action, now, granted, overlapped>>

(* The WHERE of the claiming UPDATE. *)
Unclaimed_AnyAttempt(row, copy, asOf) == row.status = "QUEUED" /\ LeaseFree(row, asOf)
Unclaimed(row, copy, asOf) ==
  row.status = "QUEUED" /\ row.attempts = copy.attempts /\ LeaseFree(row, asOf)

Claim(c) ==
  /\ call[c].at = "claim"
  /\ LET a == call[c].action
         claimed == [action[a] EXCEPT !.status = "RUNNING", !.attempts = call[c].copy.attempts + 1,
                                      !.lockedBy = call[c].worker, !.lease = call[c].asOf + LeaseTtl]
         again == [at |-> "select", worker |-> call[c].worker, asOf |-> call[c].asOf,
                   tries |-> call[c].tries + 1]
     IN  IF Unclaimed(action[a], call[c].copy, call[c].asOf)
         THEN /\ action' = [action EXCEPT ![a] = claimed]
              /\ granted' = [granted EXCEPT ![a] = Append(@, call[c].worker)]
              /\ call' = [call EXCEPT ![c] = NoCall]
         ELSE /\ call' = [call EXCEPT ![c] = again]
              /\ UNCHANGED <<action, granted>>
  /\ UNCHANGED <<now, overlapped>>

(***************************************************************************)
(* Reports: the read with its checks, and the write.  The session writes   *)
(* the columns that differ from what it has read.                          *)
(***************************************************************************)
Owns(w, row) == row.lockedBy \in {w, Nobody}

Cancellable_Always(row) == row.status # "ABSENT"
Cancellable(row) == row.status \in {"QUEUED", "RUNNING"}

Read(c, a, kind) ==
  /\ call[c] = NoCall
  /\ call' = [call EXCEPT ![c] = [at |-> kind, action |-> a, copy |-> action[a]]]
  /\ overlapped' = IF \E d \in Calls : call[d].at \in Reports /\ call[d].action = a
                   THEN overlapped \cup {a} ELSE overlapped
  /\ UNCHANGED <<action, now, granted>>

ReadReport(c, w, a, kind) ==
  /\ action[a].status = "RUNNING" /\ Owns(w, action[a])
  /\ Read(c, a, kind)

ReadCancel(c, a) == Cancellable(action[a]) /\ Read(c, a, "cancel")

Unlocked(row) == [row EXCEPT !.lockedBy = Nobody, !.lease = NoLease, !.next = now]

ShouldRetry_OneMore(copy, a) == copy.attempts <= MaxAttempts[a]
ShouldRetry(copy, a) == copy.attempts < MaxAttempts[a]

Reported(kind, copy, a) ==
  CASE kind = "complete" -> [Unlocked(copy) EXCEPT !.status = "SUCCEEDED"]
    [] kind = "cancel"   -> [Unlocked(copy) EXCEPT !.status = "CANCELLED"]
    [] kind = "retry" /\ ShouldRetry(copy, a) ->
         [Unlocked(copy) EXCEPT !.status = "QUEUED", !.next = now + RetryBackoff]
    [] OTHER -> [Unlocked(copy) EXCEPT !.status = "FAILED"]

Flushed(row, copy, new) ==
  [f \in DOMAIN row |-> IF f = "next" \/ new[f] # copy[f] THEN new[f] ELSE row[f]]

WriteReport(c) ==
  /\ call[c].at \in Reports
  /\ LET a == call[c].action
         new == Reported(call[c].at, call[c].copy, a)
     IN  action' = [action EXCEPT ![a] = Flushed(@, call[c].copy, new)]
  /\ call' = [call EXCEPT ![c] = NoCall]
  /\ UNCHANGED <<now, granted, overlapped>>

(* A request that breaks off rolls back. *)
CallLost(c) ==
  /\ call[c] # NoCall
  /\ call' = [call EXCEPT ![c] = NoCall]
  /\ UNCHANGED <<action, now, granted, overlapped>>

Tick ==
  /\ now < MaxTime
  /\ now' = now + 1
  /\ UNCHANGED <<action, call, granted, overlapped>>

ActionsNext ==
  \/ \E a \in Actions : Create(a)
  \/ \E c \in Calls :
       \/ \E w \in Workers : StartLease(c, w)
       \/ SelectCandidate(c) \/ NothingToLease(c) \/ Claim(c) \/ WriteReport(c)
       \/ CallLost(c)
       \/ \E a \in Actions : ReadCancel(c, a)
       \/ \E w \in Workers, a \in Actions, kind \in {"complete", "retry", "fail"} :
            ReadReport(c, w, a, kind)
  \/ Tick

ActionsSpec == ActionsInit /\ [][ActionsNext]_actionVars

-----------------------------------------------------------------------------
(* Types of the table, with the CHECK constraints of the model             *)
(* (enforcement_approval_models.py): the UPDATEs never run into            *)
(* ck_enforcement_action_attempt_count_lte_max.                            *)
ActionTypeOK ==
  /\ action \in [Actions -> ActionRows]
  /\ \A a \in Actions : action[a].attempts <= MaxAttempts[a]
  /\ call \in [Calls -> {NoCall} \cup Leasing \cup Claiming \cup Reporting]
  /\ now \in 0 .. MaxTime
  /\ granted \in [Actions -> Seq(Workers)]
  /\ overlapped \subseteq Actions

(* Every hand-out of an action is an attempt of its own and is counted:    *)
(* two workers that chose the same candidate never both get it, also when  *)
(* the row has come back to QUEUED in between (the attempt_count of the    *)
(* claiming UPDATE in lease_next_action), and a running action is held by  *)
(* the worker it was last handed to.                                       *)
GrantsAreCounted ==
  \A a \in Actions :
    /\ action[a].attempts = Len(granted[a])
    /\ action[a].status = "RUNNING" => action[a].lockedBy = granted[a][Len(granted[a])]

(* An action that waits has an attempt to go, so that a poll will take it  *)
(* (fail_action's should_retry): only reports in flight at the same time   *)
(* can strand it.                                                          *)
WaitingHasAttempts ==
  \A a \in Actions \ overlapped :
    action[a].status = "QUEUED" => action[a].attempts < MaxAttempts[a]

(* An action that has ended stays as it is ("Terminal action cannot be     *)
(* cancelled"), whatever leases, retries and lost calls come later; only   *)
(* reports in flight at the same time can undo it.                         *)
EndedStaysEnded ==
  [][\A a \in Actions \ overlapped :
       action[a].status \in Ended => action'[a] = action[a]]_actionVars
=============================================================================
