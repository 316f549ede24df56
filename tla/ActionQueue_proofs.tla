------------------------ MODULE ActionQueue_proofs --------------------------
(***************************************************************************)
(* What the action queue keeps for any number of actions, workers and      *)
(* requests in flight, any attempt limits and any delays.                  *)
(***************************************************************************)
EXTENDS ActionQueue, TLAPS

(***************************************************************************)
(* What a request has read stays true enough.  A claim carries an attempt  *)
(* that the limit allows; a report is of a row that ran, a cancellation of *)
(* one that waited or ran.                                                 *)
(***************************************************************************)
ReadsHold ==
  \A c \in Calls :
    /\ call[c].at = "claim" => /\ call[c].copy.attempts < MaxAttempts[call[c].action]
                               /\ call[c].tries < Tries
    /\ call[c].at \in Reports => call[c].copy.status \in {"QUEUED", "RUNNING"}
    /\ call[c].at \in {"complete", "retry", "fail"} => call[c].copy.status = "RUNNING"

GrantsInv == ActionTypeOK /\ ReadsHold /\ GrantsAreCounted

Reporter(c, a) == call[c].at \in Reports /\ call[c].action = a

(***************************************************************************)
(* Where no two reports overlapped, one report at most is in flight, and   *)
(* the row is as it was read, except that one which waited may have been   *)
(* handed out since.                                                       *)
(***************************************************************************)
ReportsAlone ==
  \A a \in Actions \ overlapped :
    /\ \A c, d \in Calls : Reporter(c, a) /\ Reporter(d, a) => c = d
    /\ \A c \in Calls : Reporter(c, a) =>
         /\ action[a].status \in {"QUEUED", "RUNNING"}
         /\ call[c].copy.status = "RUNNING" => action[a] = call[c].copy

AbsentIsNew == \A a \in Actions : action[a].status = "ABSENT" => action[a].attempts = 0

AloneInv == ReportsAlone /\ AbsentIsNew /\ WaitingHasAttempts

-----------------------------------------------------------------------------
(* Where a request stands says what it has read. *)
LEMMA CallTypes ==
  ASSUME ActionTypeOK, NEW c \in Calls
  PROVE  /\ call[c].at = "select" => call[c] \in Leasing
         /\ call[c].at = "claim" => call[c] \in Claiming
         /\ call[c].at \in Reports => call[c] \in Reporting
<1>1. call[c] \in {NoCall} \cup Leasing \cup Claiming \cup Reporting
  BY DEF ActionTypeOK
<1>2. /\ NoCall.at = "none"
      /\ \A x \in Leasing : x.at = "select"
      /\ \A x \in Claiming : x.at = "claim"
      /\ \A x \in Reporting : x.at \in Reports
  BY DEF NoCall, Leasing, Claiming, Reporting
<1> QED BY <1>1, <1>2 DEF Reports

(* Giving up the lease leaves a row of the table. *)
LEMMA UnlockedRow ==
  ASSUME NEW copy \in ActionRows, now \in Nat
  PROVE  /\ Unlocked(copy) \in ActionRows
         /\ Unlocked(copy).status = copy.status /\ Unlocked(copy).attempts = copy.attempts
BY DEF Unlocked, ActionRows

(* So does handing an action out. *)
HandedOut(row, n, w, lease) ==
  [row EXCEPT !.status = "RUNNING", !.attempts = n, !.lockedBy = w, !.lease = lease]

(* What is handed out runs, under the worker and the attempts it was given.*)
LEMMA HandedOutRow ==
  ASSUME NEW row \in ActionRows, NEW n \in Nat, NEW w \in Workers, NEW lease \in Nat
  PROVE  /\ HandedOut(row, n, w, lease) \in ActionRows
         /\ HandedOut(row, n, w, lease).attempts = n
         /\ HandedOut(row, n, w, lease).lockedBy = w
         /\ HandedOut(row, n, w, lease).status = "RUNNING"
BY DEF HandedOut, ActionRows

(* A report writes a row of the table whose attempts and limit stay, and   *)
(* which does not run any more.                                            *)
LEMMA ReportedRow ==
  ASSUME NEW row \in ActionRows, NEW copy \in ActionRows, NEW a \in Actions,
         NEW kind \in Reports, now \in Nat,
         copy.status \in {"QUEUED", "RUNNING"}, kind # "cancel" => copy.status = "RUNNING"
  PROVE  LET new == Reported(kind, copy, a)
             written == Flushed(row, copy, new)
         IN  /\ new \in ActionRows
             /\ written \in ActionRows
             /\ written.attempts = row.attempts
             /\ written.status = new.status
             /\ new.status \in Ended \cup {"QUEUED"}
             /\ new.status = "QUEUED" => kind = "retry" /\ ShouldRetry(copy, a)
<1> DEFINE new == Reported(kind, copy, a)
           written == Flushed(row, copy, new)
           free == Unlocked(copy)
<1> HIDE DEF new, written, free
<1>1. free \in ActionRows /\ free.attempts = copy.attempts
  BY UnlockedRow DEF free
<1>2. /\ new \in ActionRows /\ new.attempts = copy.attempts
      /\ new.status \in Ended \cup {"QUEUED"}
      /\ new.status = "QUEUED" => kind = "retry" /\ ShouldRetry(copy, a)
  <2>1. CASE kind = "retry" /\ ShouldRetry(copy, a)
    <3>1. new = [free EXCEPT !.status = "QUEUED", !.next = now + RetryBackoff]
      BY <2>1 DEF Reported, new, free
    <3>2. now + RetryBackoff \in Nat
      BY ActionConstants
    <3> QED BY <1>1, <2>1, <3>1, <3>2 DEF ActionRows
  <2>2. CASE ~(kind = "retry" /\ ShouldRetry(copy, a))
    <3>1. \E status \in Ended : new = [free EXCEPT !.status = status]
      BY <2>2 DEF Reported, Reports, Ended, new, free
    <3> QED BY <1>1, <3>1 DEF ActionRows, Ended
  <2> QED BY <2>1, <2>2
<1>3. /\ DOMAIN written = {"status", "attempts", "next", "lockedBy", "lease"}
      /\ \A f \in {"status", "attempts", "next", "lockedBy", "lease"} :
           written[f] = IF f = "next" \/ new[f] # copy[f] THEN new[f] ELSE row[f]
      /\ written = [f \in {"status", "attempts", "next", "lockedBy", "lease"} |-> written[f]]
  BY DEF Flushed, ActionRows, written
<1>4. written \in ActionRows
  BY <1>2, <1>3 DEF ActionRows
<1>5. written.attempts = row.attempts /\ written.status = new.status
  BY <1>2, <1>3 DEF Ended
<1> QED BY <1>2, <1>4, <1>5 DEF new, written

(* What a report that is written does to the table. *)
LEMMA WrittenRow ==
  ASSUME GrantsInv, NEW c \in Calls, WriteReport(c)
  PROVE  LET a == call[c].action
             new == Reported(call[c].at, call[c].copy, a)
         IN  /\ a \in Actions /\ call[c].copy \in ActionRows
             /\ action' = [action EXCEPT ![a] = Flushed(@, call[c].copy, new)]
             /\ action'[a] \in ActionRows
             /\ action'[a].attempts = action[a].attempts
             /\ action'[a].status \in Ended \cup {"QUEUED"}
             /\ action'[a].status = "QUEUED" =>
                  call[c].copy.status = "RUNNING" /\ ShouldRetry(call[c].copy, a)
<1> DEFINE a == call[c].action
           kind == call[c].at
           new == Reported(kind, call[c].copy, a)
<1>1. call[c] \in Reporting /\ call[c].at \in Reports
  BY CallTypes DEF GrantsInv, WriteReport
<1>2. /\ a \in Actions /\ call[c].copy \in ActionRows /\ action[a] \in ActionRows /\ kind \in Reports
      /\ now \in Nat
  BY <1>1, ActionConstants DEF Reporting, GrantsInv, ActionTypeOK
<1>3. /\ call[c].copy.status \in {"QUEUED", "RUNNING"}
      /\ kind # "cancel" => call[c].copy.status = "RUNNING"
  BY <1>1 DEF GrantsInv, ReadsHold, Reports
<1>4. action' = [action EXCEPT ![a] = Flushed(@, call[c].copy, new)]
  BY DEF WriteReport
<1>5. action'[a] = Flushed(action[a], call[c].copy, new)
  BY <1>2, <1>4 DEF GrantsInv, ActionTypeOK
<1> HIDE DEF a, kind
<1>6. /\ action'[a] \in ActionRows
      /\ action'[a].attempts = action[a].attempts
      /\ action'[a].status = new.status
      /\ new.status \in Ended \cup {"QUEUED"}
      /\ new.status = "QUEUED" => kind = "retry" /\ ShouldRetry(call[c].copy, a)
  BY <1>2, <1>3, <1>5, ReportedRow
<1> HIDE DEF new
<1>7. action'[a].status = "QUEUED" =>
        call[c].copy.status = "RUNNING" /\ ShouldRetry(call[c].copy, a)
  BY <1>3, <1>6
<1> QED BY <1>2, <1>4, <1>6, <1>7 DEF a, kind, new

(***************************************************************************)
(* Types and counts are kept together.                                     *)
(***************************************************************************)
LEMMA GrantsInit == ActionsInit => GrantsInv
BY ActionConstants
   DEF ActionsInit, GrantsInv, ActionTypeOK, ReadsHold, GrantsAreCounted, NoAction, NoCall,
       ActionRows, Ended, Reports

(* Every step counts a hand-out exactly where it hands out.                *)
LEMMA GrantsStep == GrantsInv /\ [ActionsNext]_actionVars => GrantsInv'
<1> SUFFICES ASSUME GrantsInv, [ActionsNext]_actionVars PROVE GrantsInv'
  OBVIOUS
<1> USE DEF GrantsInv
<1>1. ASSUME NEW a \in Actions, Create(a) PROVE GrantsInv'
  <2> now \in Nat /\ action[a] \in ActionRows
    BY ActionConstants DEF ActionTypeOK
  <2>1. [action[a] EXCEPT !.status = "QUEUED", !.next = now] \in ActionRows
    BY DEF ActionRows
  <2>2. /\ action' = [action EXCEPT ![a] = [@ EXCEPT !.status = "QUEUED", !.next = now]]
        /\ action'[a].attempts = action[a].attempts /\ action'[a].status = "QUEUED"
    BY <1>1 DEF Create, ActionTypeOK, ActionRows
  <2>3. ActionTypeOK'
    BY <1>1, <2>1, <2>2 DEF Create, ActionTypeOK
  <2>4. ReadsHold'
    BY <1>1 DEF Create, ReadsHold
  <2>5. GrantsAreCounted'
    BY <1>1, <2>2 DEF Create, GrantsAreCounted, ActionTypeOK
  <2> QED BY <2>3, <2>4, <2>5
<1>2. ASSUME NEW c \in Calls, NEW w \in Workers, StartLease(c, w) PROVE GrantsInv'
  <2>1. [at |-> "select", worker |-> w, asOf |-> now, tries |-> 0] \in Leasing
    BY ActionConstants DEF Leasing, ActionTypeOK
  <2>2. ActionTypeOK'
    BY <1>2, <2>1 DEF StartLease, ActionTypeOK
  <2>3. ReadsHold' /\ GrantsAreCounted'
    BY <1>2 DEF StartLease, ReadsHold, Reports, GrantsAreCounted, ActionTypeOK
  <2> QED BY <2>2, <2>3
<1>3. ASSUME NEW c \in Calls, SelectCandidate(c) PROVE GrantsInv'
  <2>1. call[c] \in Leasing /\ call[c].tries < Tries
    BY <1>3, CallTypes DEF SelectCandidate
  <2>2. PICK a \in Actions :
          /\ Candidate(a, call[c].asOf)
          /\ call' = [call EXCEPT ![c] =
               [at |-> "claim", worker |-> call[c].worker, asOf |-> call[c].asOf,
                tries |-> call[c].tries, action |-> a, copy |-> action[a]]]
    BY <1>3 DEF SelectCandidate, First
  <2>3. [at |-> "claim", worker |-> call[c].worker, asOf |-> call[c].asOf,
         tries |-> call[c].tries, action |-> a, copy |-> action[a]] \in Claiming
    <3>1. action[a] \in ActionRows
      BY DEF ActionTypeOK
    <3> QED BY <2>1, <3>1 DEF Leasing, Claiming
  <2>4. ActionTypeOK'
    BY <1>3, <2>2, <2>3 DEF SelectCandidate, ActionTypeOK
  <2>5. ReadsHold'
    BY <2>1, <2>2 DEF ReadsHold, Reports, ActionTypeOK, Candidate
  <2>6. GrantsAreCounted'
    BY <1>3 DEF SelectCandidate, GrantsAreCounted
  <2> QED BY <2>4, <2>5, <2>6
<1>4. ASSUME NEW c \in Calls, NothingToLease(c) \/ CallLost(c) PROVE GrantsInv'
  <2>1. call' = [call EXCEPT ![c] = NoCall] /\ UNCHANGED <<action, now, granted, overlapped>>
    BY <1>4 DEF NothingToLease, CallLost
  <2>2. ActionTypeOK'
    BY <2>1 DEF ActionTypeOK
  <2>3. ReadsHold'
    BY <2>1 DEF ReadsHold, NoCall, Reports, ActionTypeOK
  <2>4. GrantsAreCounted'
    BY <2>1 DEF GrantsAreCounted
  <2> QED BY <2>2, <2>3, <2>4
<1>5. ASSUME NEW c \in Calls, Claim(c) PROVE GrantsInv'
  <2> DEFINE a == call[c].action
             claimed == HandedOut(action[a], call[c].copy.attempts + 1, call[c].worker,
                                  call[c].asOf + LeaseTtl)
  <2>1. call[c] \in Claiming /\ call[c].tries < Tries
    BY <1>5, CallTypes DEF Claim, ReadsHold
  <2>2. /\ a \in Actions /\ action[a] \in ActionRows /\ call[c].worker \in Workers
        /\ call[c].copy \in ActionRows /\ call[c].copy.attempts < MaxAttempts[a]
        /\ call[c].asOf + LeaseTtl \in Nat
    BY <1>5, <2>1, ActionConstants DEF Claiming, ActionTypeOK, ReadsHold, Claim
  <2>3. CASE Unclaimed(action[a], call[c].copy, call[c].asOf)
    <3>1. /\ action' = [action EXCEPT ![a] = claimed]
          /\ granted' = [granted EXCEPT ![a] = Append(@, call[c].worker)]
          /\ call' = [call EXCEPT ![c] = NoCall]
          /\ UNCHANGED <<now, overlapped>>
      BY <1>5, <2>3 DEF Claim, HandedOut
    <3>2. /\ claimed \in ActionRows /\ claimed.attempts = action[a].attempts + 1
          /\ claimed.attempts <= MaxAttempts[a] /\ claimed.lockedBy = call[c].worker
      <4>1. /\ call[c].copy.attempts \in Nat /\ MaxAttempts[a] \in Nat
            /\ action[a].attempts = call[c].copy.attempts
        BY <2>2, <2>3, ActionConstants DEF ActionRows, Unclaimed
      <4> HIDE DEF a
      <4>2. /\ claimed \in ActionRows /\ claimed.lockedBy = call[c].worker
            /\ claimed.attempts = call[c].copy.attempts + 1
        <5>1. PICK n \in Nat, lease \in Nat :
                n = call[c].copy.attempts + 1 /\ lease = call[c].asOf + LeaseTtl
          BY <2>2, <4>1
        <5>2. claimed = HandedOut(action[a], n, call[c].worker, lease)
          BY <5>1
        <5> HIDE DEF claimed
        <5>3. action[a] \in ActionRows /\ call[c].worker \in Workers
          BY <2>2
        <5>4. /\ HandedOut(action[a], n, call[c].worker, lease) \in ActionRows
              /\ HandedOut(action[a], n, call[c].worker, lease).attempts = n
              /\ HandedOut(action[a], n, call[c].worker, lease).lockedBy = call[c].worker
          BY <5>3, HandedOutRow
        <5> QED BY <5>1, <5>2, <5>4
      <4> QED BY <2>2, <4>1, <4>2
    <3> HIDE DEF a, claimed
    <3>3. ActionTypeOK'
      <4>1. action' \in [Actions -> ActionRows]
        BY <2>2, <3>1, <3>2 DEF ActionTypeOK
      <4>2. \A b \in Actions : action'[b].attempts <= MaxAttempts[b]
        BY <2>2, <3>1, <3>2 DEF ActionTypeOK
      <4>3. granted' \in [Actions -> Seq(Workers)]
        BY <2>2, <3>1 DEF ActionTypeOK
      <4>4. call' \in [Calls -> {NoCall} \cup Leasing \cup Claiming \cup Reporting]
        BY <3>1 DEF ActionTypeOK
      <4> QED BY <3>1, <4>1, <4>2, <4>3, <4>4 DEF ActionTypeOK
    <3>4. ReadsHold'
      BY <3>1 DEF ReadsHold, NoCall, Reports, ActionTypeOK
    <3>5. GrantsAreCounted'
      <4>1. \A b \in Actions \ {a} : action'[b] = action[b] /\ granted'[b] = granted[b]
        BY <3>1 DEF ActionTypeOK
      <4>2. /\ granted[a] \in Seq(Workers) /\ granted'[a] = Append(granted[a], call[c].worker)
            /\ action'[a] = claimed
        BY <2>2, <3>1 DEF ActionTypeOK
      <4>3. Len(granted'[a]) = Len(granted[a]) + 1 /\ granted'[a][Len(granted'[a])] = call[c].worker
        BY <2>2, <4>2
      <4> QED BY <2>2, <3>2, <4>1, <4>2, <4>3 DEF GrantsAreCounted
    <3> QED BY <3>3, <3>4, <3>5
  <2>4. CASE ~Unclaimed(action[a], call[c].copy, call[c].asOf)
    <3>1. /\ call' = [call EXCEPT ![c] = [at |-> "select", worker |-> call[c].worker,
                        asOf |-> call[c].asOf, tries |-> call[c].tries + 1]]
          /\ UNCHANGED <<action, now, granted, overlapped>>
      BY <1>5, <2>4 DEF Claim
    <3>2. [at |-> "select", worker |-> call[c].worker,
           asOf |-> call[c].asOf, tries |-> call[c].tries + 1] \in Leasing
      BY <2>1, ActionConstants DEF Claiming, Leasing
    <3>3. ActionTypeOK'
      BY <3>1, <3>2 DEF ActionTypeOK
    <3> QED BY <3>1, <3>3 DEF ReadsHold, Reports, GrantsAreCounted, ActionTypeOK
  <2> QED BY <2>3, <2>4
<1>6. ASSUME NEW c \in Calls, WriteReport(c) PROVE GrantsInv'
  <2> DEFINE a == call[c].action
  <2>1. /\ a \in Actions
        /\ \A b \in Actions \ {a} : action'[b] = action[b]
        /\ action'[a] \in ActionRows /\ action'[a].attempts = action[a].attempts
        /\ action'[a].status # "RUNNING"
        /\ action' \in [Actions -> ActionRows]
    BY <1>6, WrittenRow DEF ActionTypeOK, Ended
  <2>2. call' = [call EXCEPT ![c] = NoCall] /\ UNCHANGED <<now, granted, overlapped>>
    BY <1>6 DEF WriteReport
  <2> HIDE DEF a
  <2>3. ActionTypeOK'
    <3>1. \A b \in Actions : action'[b].attempts <= MaxAttempts[b]
      BY <2>1 DEF ActionTypeOK
    <3> QED BY <2>1, <2>2, <3>1 DEF ActionTypeOK
  <2>4. ReadsHold'
    BY <2>2 DEF ReadsHold, NoCall, Reports, ActionTypeOK
  <2>5. GrantsAreCounted'
    BY <2>1, <2>2 DEF GrantsAreCounted
  <2> QED BY <2>3, <2>4, <2>5
<1>7. ASSUME NEW c \in Calls, NEW a \in Actions, NEW kind \in Reports, Read(c, a, kind),
             action[a].status \in {"QUEUED", "RUNNING"}, kind # "cancel" => action[a].status = "RUNNING"
      PROVE  GrantsInv'
  <2>1. [at |-> kind, action |-> a, copy |-> action[a]] \in Reporting
    BY <1>7 DEF Reporting, ActionTypeOK
  <2>2. ActionTypeOK'
    BY <1>7, <2>1 DEF Read, ActionTypeOK
  <2>3. ReadsHold'
    BY <1>7 DEF Read, ReadsHold, Reports, ActionTypeOK
  <2>4. GrantsAreCounted'
    BY <1>7 DEF Read, GrantsAreCounted
  <2> QED BY <2>2, <2>3, <2>4
<1>8. ASSUME NEW c \in Calls, NEW a \in Actions, ReadCancel(c, a) PROVE GrantsInv'
  BY <1>7, <1>8 DEF ReadCancel, Cancellable, Reports
<1>9. ASSUME NEW c \in Calls, NEW w \in Workers, NEW a \in Actions,
             NEW kind \in {"complete", "retry", "fail"}, ReadReport(c, w, a, kind)
      PROVE  GrantsInv'
  BY <1>7, <1>9 DEF ReadReport, Reports
<1>10. CASE Tick
  BY <1>10, ActionConstants DEF Tick, ActionTypeOK, ReadsHold, GrantsAreCounted
<1>11. CASE UNCHANGED actionVars
  BY <1>11 DEF actionVars, ActionTypeOK, ReadsHold, GrantsAreCounted
<1> QED
  BY <1>1, <1>2, <1>3, <1>4, <1>5, <1>6, <1>8, <1>9, <1>10, <1>11 DEF ActionsNext

(* The attempts of an action never pass the limit of its row, and lease,   *)
(* holder and status keep their types in every step of the service.        *)
THEOREM ActionTypeCorrect == ActionsSpec => []ActionTypeOK
<1>1. GrantsInv => ActionTypeOK
  BY DEF GrantsInv
<1> QED BY GrantsInit, GrantsStep, <1>1, PTL DEF ActionsSpec

(* Every hand-out of lease_next_action is counted as an attempt, and a     *)
(* running action is held by the worker it was last handed to.             *)
THEOREM HandOutsCounted == ActionsSpec => []GrantsAreCounted
<1>1. GrantsInv => GrantsAreCounted
  BY DEF GrantsInv
<1> QED BY GrantsInit, GrantsStep, <1>1, PTL DEF ActionsSpec

-----------------------------------------------------------------------------
(* At first no report is in flight.                                        *)
LEMMA AloneInit == ActionsInit => AloneInv
BY ActionConstants
   DEF ActionsInit, AloneInv, ReportsAlone, AbsentIsNew, WaitingHasAttempts, Reporter, NoAction,
       NoCall, Reports

(* A step that adds no report and leaves the table alone keeps all of it. *)
LEMMA AloneKept ==
  ASSUME AloneInv, UNCHANGED <<action, overlapped>>,
         \A c \in Calls : call'[c].at \in Reports => call'[c] = call[c]
  PROVE  AloneInv'
BY DEF AloneInv, ReportsAlone, AbsentIsNew, WaitingHasAttempts, Reporter

(* Every step leaves a lone report the row it has read.                    *)
LEMMA AloneStep == GrantsInv /\ AloneInv /\ [ActionsNext]_actionVars => AloneInv'
<1> SUFFICES ASSUME GrantsInv, AloneInv, [ActionsNext]_actionVars PROVE AloneInv'
  OBVIOUS
<1> USE DEF GrantsInv
<1>1. ASSUME NEW a \in Actions, Create(a) PROVE AloneInv'
  <2>1. /\ \A b \in Actions \ {a} : action'[b] = action[b]
        /\ action[a].status = "ABSENT" /\ action'[a].status = "QUEUED"
        /\ action'[a].attempts = action[a].attempts
        /\ UNCHANGED <<call, overlapped>>
    BY <1>1 DEF Create, ActionTypeOK, ActionRows
  <2>2. a \in overlapped \/ \A c \in Calls : ~Reporter(c, a)
    BY <2>1 DEF AloneInv, ReportsAlone
  <2>3. ReportsAlone'
    BY <2>1, <2>2 DEF AloneInv, ReportsAlone, Reporter
  <2>4. AbsentIsNew'
    BY <2>1 DEF AloneInv, AbsentIsNew
  <2>5. WaitingHasAttempts'
    BY <2>1, ActionConstants DEF AloneInv, AbsentIsNew, WaitingHasAttempts
  <2> QED BY <2>3, <2>4, <2>5 DEF AloneInv
<1>2. ASSUME NEW c \in Calls,
             \/ \E w \in Workers : StartLease(c, w)
             \/ SelectCandidate(c) \/ NothingToLease(c) \/ CallLost(c)
      PROVE  AloneInv'
  <2>1. UNCHANGED <<action, overlapped>>
    BY <1>2 DEF StartLease, SelectCandidate, NothingToLease, CallLost
  <2>2. \A d \in Calls : call'[d].at \in Reports => call'[d] = call[d]
    BY <1>2 DEF StartLease, SelectCandidate, NothingToLease, CallLost, NoCall, Reports, ActionTypeOK
  <2> QED BY <2>1, <2>2, AloneKept
<1>3. ASSUME NEW c \in Calls, Claim(c) PROVE AloneInv'
  <2>1. call[c] \in Claiming
    BY <1>3, CallTypes DEF Claim
  <2>2. PICK a \in Actions : a = call[c].action
    BY <2>1 DEF Claiming
  <2>3. CASE Unclaimed(action[a], call[c].copy, call[c].asOf)
    <3>1. /\ \A b \in Actions \ {a} : action'[b] = action[b]
          /\ action[a].status = "QUEUED" /\ action'[a].status = "RUNNING"
          /\ call' = [call EXCEPT ![c] = NoCall] /\ UNCHANGED overlapped
      <4>1. PICK n \in Nat, lease \in Nat :
              n = call[c].copy.attempts + 1 /\ lease = call[c].asOf + LeaseTtl
        BY <2>1, ActionConstants DEF Claiming, ActionRows
      <4>2. /\ action' = [action EXCEPT ![a] = HandedOut(action[a], n, call[c].worker, lease)]
            /\ call' = [call EXCEPT ![c] = NoCall] /\ UNCHANGED overlapped
        BY <1>3, <2>2, <2>3, <4>1 DEF Claim, HandedOut
      <4>3. action[a] \in ActionRows /\ call[c].worker \in Workers /\ action[a].status = "QUEUED"
        BY <2>1, <2>3 DEF ActionTypeOK, Unclaimed, Claiming
      <4>4. HandedOut(action[a], n, call[c].worker, lease).status = "RUNNING"
        BY <4>3, HandedOutRow
      <4> QED BY <4>2, <4>3, <4>4 DEF ActionTypeOK
    <3>2. \A d \in Calls, b \in Actions : Reporter(d, b)' => Reporter(d, b) /\ call'[d] = call[d]
      BY <3>1 DEF Reporter, Reports, NoCall, ActionTypeOK
    <3>3. ASSUME a \notin overlapped, NEW d \in Calls, Reporter(d, a)
          PROVE  call[d].copy.status = "QUEUED"
      <4>1. call[d].copy.status \in {"QUEUED", "RUNNING"}
        BY <3>3 DEF ReadsHold, Reporter
      <4> QED BY <2>2, <3>1, <3>3, <4>1 DEF AloneInv, ReportsAlone
    <3>4. ReportsAlone'
      <4>1. ASSUME NEW b \in Actions \ overlapped, NEW d \in Calls, Reporter(d, b)'
            PROVE  /\ action'[b].status \in {"QUEUED", "RUNNING"}
                   /\ call'[d].copy.status = "RUNNING" => action'[b] = call'[d].copy
        BY <3>1, <3>2, <3>3, <4>1 DEF AloneInv, ReportsAlone
      <4> QED BY <3>1, <3>2, <4>1 DEF AloneInv, ReportsAlone
    <3>5. AbsentIsNew' /\ WaitingHasAttempts'
      BY <3>1 DEF AloneInv, AbsentIsNew, WaitingHasAttempts
    <3> QED BY <3>4, <3>5 DEF AloneInv
  <2>4. CASE ~Unclaimed(action[a], call[c].copy, call[c].asOf)
    <3>1. UNCHANGED <<action, overlapped>>
      BY <1>3, <2>2, <2>4 DEF Claim
    <3>2. \A d \in Calls : call'[d].at \in Reports => call'[d] = call[d]
      BY <1>3, <2>2, <2>4 DEF Claim, Reports, ActionTypeOK
    <3> QED BY <3>1, <3>2, AloneKept
  <2> QED BY <2>3, <2>4
<1>4. ASSUME NEW c \in Calls, WriteReport(c) PROVE AloneInv'
  <2>0. PICK a \in Actions : a = call[c].action
    BY <1>4, WrittenRow
  <2>1. /\ a \in Actions /\ call[c].copy \in ActionRows
        /\ \A b \in Actions \ {a} : action'[b] = action[b]
        /\ action'[a].attempts = action[a].attempts
        /\ action'[a].status \in Ended \cup {"QUEUED"}
        /\ action'[a].status = "QUEUED" =>
             call[c].copy.status = "RUNNING" /\ ShouldRetry(call[c].copy, a)
    BY <1>4, <2>0, WrittenRow DEF ActionTypeOK
  <2>2. Reporter(c, a) /\ call' = [call EXCEPT ![c] = NoCall] /\ UNCHANGED overlapped
    BY <1>4, <2>0 DEF WriteReport, Reporter
  <2>3. \A d \in Calls, b \in Actions :
          Reporter(d, b)' => d # c /\ Reporter(d, b) /\ call'[d] = call[d]
    BY <2>2 DEF Reporter, Reports, NoCall, ActionTypeOK
  <2>4. a \in overlapped \/ \A d \in Calls : ~Reporter(d, a)'
    BY <2>1, <2>2, <2>3 DEF AloneInv, ReportsAlone
  <2>5. ReportsAlone'
    <3>1. ASSUME NEW b \in Actions \ overlapped, NEW d \in Calls, Reporter(d, b)'
          PROVE  /\ action'[b].status \in {"QUEUED", "RUNNING"}
                 /\ call'[d].copy.status = "RUNNING" => action'[b] = call'[d].copy
      BY <2>1, <2>3, <2>4, <3>1 DEF AloneInv, ReportsAlone
    <3> QED BY <2>2, <2>3, <3>1 DEF AloneInv, ReportsAlone
  <2>6. AbsentIsNew'
    BY <2>1 DEF AloneInv, AbsentIsNew, Ended
  <2>7. WaitingHasAttempts'
    <3>1. ASSUME a \notin overlapped, action'[a].status = "QUEUED"
          PROVE  action'[a].attempts < MaxAttempts[a]
      <4>1. action[a] = call[c].copy
        BY <2>1, <2>2, <3>1 DEF AloneInv, ReportsAlone
      <4> QED BY <2>1, <3>1, <4>1 DEF ShouldRetry
    <3> QED BY <2>1, <2>2, <3>1 DEF AloneInv, WaitingHasAttempts
  <2> QED BY <2>5, <2>6, <2>7 DEF AloneInv
<1>5. ASSUME NEW c \in Calls, NEW a \in Actions, NEW kind \in Reports, Read(c, a, kind),
             action[a].status \in {"QUEUED", "RUNNING"}
      PROVE  AloneInv'
  <2>1. /\ call' = [call EXCEPT ![c] = [at |-> kind, action |-> a, copy |-> action[a]]]
        /\ call[c] = NoCall /\ UNCHANGED action /\ overlapped \subseteq overlapped'
        /\ a \notin overlapped' => \A d \in Calls : ~Reporter(d, a)
    BY <1>5 DEF Read, Reporter
  <2>2. \A d \in Calls, b \in Actions :
          Reporter(d, b)' =>
            \/ d = c /\ b = a /\ call'[d].copy = action[a]
            \/ d # c /\ Reporter(d, b) /\ call'[d] = call[d]
    <3>1. /\ call'[c].action = a /\ call'[c].copy = action[a]
          /\ \A d \in Calls \ {c} : call'[d] = call[d]
      BY <2>1 DEF ActionTypeOK
    <3> QED BY <3>1 DEF Reporter
  <2>3. ReportsAlone'
    <3>1. ASSUME NEW b \in Actions \ overlapped', NEW d \in Calls, Reporter(d, b)'
          PROVE  /\ action'[b].status \in {"QUEUED", "RUNNING"}
                 /\ call'[d].copy.status = "RUNNING" => action'[b] = call'[d].copy
      BY <1>5, <2>1, <2>2, <3>1 DEF AloneInv, ReportsAlone
    <3>2. ASSUME NEW b \in Actions \ overlapped', NEW d \in Calls, NEW e \in Calls,
                 Reporter(d, b)', Reporter(e, b)'
          PROVE  d = e
      BY <2>1, <2>2, <3>2 DEF AloneInv, ReportsAlone
    <3> QED BY <3>1, <3>2 DEF ReportsAlone
  <2> QED BY <2>1, <2>3 DEF AloneInv, AbsentIsNew, WaitingHasAttempts
<1>6. ASSUME NEW c \in Calls, NEW a \in Actions,
             \/ ReadCancel(c, a)
             \/ \E w \in Workers, kind \in {"complete", "retry", "fail"} : ReadReport(c, w, a, kind)
      PROVE  AloneInv'
  BY <1>5, <1>6 DEF ReadCancel, ReadReport, Cancellable, Reports
<1>7. CASE Tick \/ UNCHANGED actionVars
  BY <1>7, AloneKept DEF Tick, actionVars
<1> QED BY <1>1, <1>2, <1>3, <1>4, <1>6, <1>7 DEF ActionsNext

(* Both invariants hold always.                                            *)
LEMMA AloneAlways == ActionsSpec => [](GrantsInv /\ AloneInv)
BY GrantsInit, GrantsStep, AloneInit, AloneStep, PTL DEF ActionsSpec

(* What waits can be handed out once more, unless reports overlapped. *)
THEOREM NothingStranded == ActionsSpec => []WaitingHasAttempts
<1>1. AloneInv => WaitingHasAttempts
  BY DEF AloneInv
<1> QED BY AloneAlways, <1>1, PTL

(* What has ended is not touched again, unless reports overlapped: a new   *)
(* action, a claim and a lone report each find a row that has not ended.   *)
THEOREM EndsStand == ActionsSpec => EndedStaysEnded
<1>1. ASSUME GrantsInv, AloneInv, [ActionsNext]_actionVars
      PROVE  [\A a \in Actions \ overlapped :
                action[a].status \in Ended => action'[a] = action[a]]_actionVars
  <2> SUFFICES ASSUME NEW a \in Actions \ overlapped, action[a].status \in Ended
               PROVE  action'[a] = action[a]
    OBVIOUS
  <2> USE DEF Ended, GrantsInv
  <2>1. ASSUME NEW b \in Actions, Create(b) PROVE action'[a] = action[a]
    <3>1. a # b
      BY <2>1 DEF Create
    <3> QED BY <1>1, <2>1, <3>1 DEF Create, ActionTypeOK
  <2>2. ASSUME NEW c \in Calls, Claim(c) PROVE action'[a] = action[a]
    <3>1. CASE Unclaimed(action[call[c].action], call[c].copy, call[c].asOf)
      <4>1. a # call[c].action
        BY <3>1 DEF Unclaimed
      <4> QED BY <1>1, <2>2, <3>1, <4>1 DEF Claim, ActionTypeOK
    <3>2. CASE ~Unclaimed(action[call[c].action], call[c].copy, call[c].asOf)
      BY <2>2, <3>2 DEF Claim
    <3> QED BY <3>1, <3>2
  <2>3. ASSUME NEW c \in Calls, WriteReport(c) PROVE action'[a] = action[a]
    <3>1. Reporter(c, call[c].action)
      BY <2>3 DEF WriteReport, Reporter
    <3>2. call[c].action # a
      BY <1>1, <2>3, <3>1 DEF AloneInv, ReportsAlone
    <3>3. PICK row : action' = [action EXCEPT ![call[c].action] = row]
      BY <2>3 DEF WriteReport
    <3> QED BY <1>1, <3>2, <3>3 DEF ActionTypeOK
  <2>4. ASSUME NEW c \in Calls, NEW b \in Actions, NEW kind, Read(c, b, kind)
        PROVE  action'[a] = action[a]
    BY <2>4 DEF Read
  <2> QED
    BY <1>1, <2>1, <2>2, <2>3, <2>4
       DEF ActionsNext, StartLease, SelectCandidate, NothingToLease, CallLost, ReadCancel,
           ReadReport, Tick, actionVars
<1> QED BY AloneAlways, <1>1, PTL DEF ActionsSpec, EndedStaysEnded
=============================================================================
