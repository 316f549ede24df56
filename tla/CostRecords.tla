----------------------------- MODULE CostRecords -----------------------------
(***************************************************************************)
(* The cost ledger of one tenant: what ingestion jobs store, when a cost   *)
(* becomes final, what retention deletes, and how attribution allocates    *)
(* costs to buckets (app/modules/reporting/domain/persistence*.py,         *)
(* attribution_engine*.py, governance/domain/jobs/handlers/costs.py and    *)
(* the maintenance sweep of app/tasks/scheduler_maintenance_ops.py).       *)
(*                                                                         *)
(* A record stands for one key of uix_account_cost_granularity.  A session *)
(* is an ingestion job or a request to apply the rules: what it writes is  *)
(* its own until it commits, the rows it has written stay locked until     *)
(* then, and each of its queries sees what has been committed by that time *)
(* (READ COMMITTED).  The allocation rows that one attribution writes for  *)
(* a record are one group, known by its session and the sum of the rows.   *)
(***************************************************************************)
EXTENDS Integers, FiniteSets

CONSTANTS Records, DayOf, Costs, Sessions,
          RuleSets,       \* what the tenant's rules allot to each record
          IngestDays, AttributeDays, FinalizeDays, RetentionDays,
          MaxDay,         \* bounds the clock
          MaxId           \* bounds how often a record is deleted

ASSUME CostConstants ==
  /\ DayOf \in [Records -> Nat]
  /\ Costs \subseteq Nat
  /\ RuleSets \subseteq [Records -> Nat] /\ RuleSets # {}
  /\ {IngestDays, AttributeDays, FinalizeDays, RetentionDays, MaxDay, MaxId} \subseteq Nat
  /\ IngestDays <= AttributeDays

VARIABLES day, rules,
          record,   \* the committed CostRecord of each key
          groups,   \* the committed allocation rows that join it
          session,
          astray    \* history: records whose rows nobody promises anything of

costVars == <<day, rules, record, groups, session, astray>>

Nothing == [r \in {} |-> 0]
Idle    == [at |-> "idle", window |-> {}, backfill |-> FALSE, written |-> Nothing,
            copy |-> Nothing, old |-> Nothing, fresh |-> {}]

Live(r)       == record[r].status # "ABSENT"
Between(a, b) == {r \in Records : DayOf[r] \in a .. b}
Busy(s)       == session[s].at # "idle"

CostInit ==
  /\ day = 0
  /\ rules \in RuleSets
  /\ record = [r \in Records |-> [id |-> 0, status |-> "ABSENT", cost |-> 0]]
  /\ groups = [r \in Records |-> {}]
  /\ session = [s \in Sessions |-> Idle]
  /\ astray = {}

(***************************************************************************)
(* Ingestion.  A batch is one record here; its row is locked from the      *)
(* upsert to the end of the transaction, also when it is a new one.        *)
(***************************************************************************)

RowFree(r, s) == \A t \in Sessions \ {s} : r \notin DOMAIN session[t].written

(* Every ingestion of the code is preliminary: it keeps the status of a    *)
(* row there is.                                                           *)
Upserted_Restates(row, c) == [row EXCEPT !.cost = c, !.status = "PRELIMINARY"]
Upserted(row, c) ==
  [row EXCEPT !.cost = c, !.status = IF row.status = "FINAL" THEN "FINAL" ELSE "PRELIMINARY"]

(* A row as the session's own transaction sees it. *)
Visible(s, r) == LET w == session[s].written
                 IN IF r \in DOMAIN w THEN Upserted(record[r], w[r]) ELSE record[r]

StartIngest(s, window, backfill) ==
  /\ ~Busy(s)
  /\ session' = [session EXCEPT ![s] = [Idle EXCEPT !.at = "ingesting", !.window = window,
                                                    !.backfill = backfill]]
  /\ UNCHANGED <<day, rules, record, groups, astray>>

StartRecent(s)   == StartIngest(s, Between(day - IngestDays, day), FALSE)
StartBackfill(s) == \E a, b \in 0 .. day : a <= b /\ StartIngest(s, Between(a, b), TRUE)

SaveBatch(s) ==
  LET me == session[s] IN
  /\ me.at = "ingesting"
  /\ \E r \in me.window \ DOMAIN me.written, c \in Costs :
       /\ RowFree(r, s)
       /\ session' = [session EXCEPT ![s].written =
                        [q \in DOMAIN me.written \cup {r} |-> IF q = r THEN c ELSE me.written[q]]]
  /\ UNCHANGED <<day, rules, record, groups, astray>>

(***************************************************************************)
(* Attribution: read the records, read the rules and delete the old rows,  *)
(* insert the new ones.  The DELETE takes the rows that are committed when *)
(* it starts; it waits for those another transaction is deleting, and what *)
(* that one has inserted by then it does not see.                          *)
(***************************************************************************)

StartApply(s) ==
  /\ ~Busy(s)
  /\ \E a, b \in 0 .. day :
       /\ a <= b
       /\ session' = [session EXCEPT ![s] = [Idle EXCEPT !.at = "applying",
                                                         !.window = Between(a, b)]]
  /\ UNCHANGED <<day, rules, record, groups, astray>>

Span(s) == IF session[s].at = "ingesting" /\ ~session[s].backfill
             THEN Between(day - AttributeDays, day)
             ELSE session[s].window

SelectRecords(s) ==
  LET found == {r \in Span(s) : Visible(s, r).status # "ABSENT"} IN
  /\ session[s].at \in {"ingesting", "applying"}
  /\ session' = [session EXCEPT ![s].at = IF found = {} THEN "done" ELSE "selected",
                                ![s].window = {},
                                ![s].backfill = FALSE,
                                ![s].copy = [r \in found |-> Visible(s, r)],
                                ![s].fresh = found]
  /\ UNCHANGED <<day, rules, record, groups, astray>>

(* A direct or percentage split adds up to the cost, and so does no rule   *)
(* at all; fixed amounts may exceed it, what remains goes to Unallocated.  *)
Allotted(fixed, cost) == IF fixed > cost THEN fixed ELSE cost

Joined(s, r) == session[s].copy[r].id = record[r].id

OldGroups_Appends(s, r) == {}
OldGroups(s, r) == IF Joined(s, r) THEN groups[r] ELSE {}

StartDelete(s) ==
  LET me == session[s] IN
  /\ me.at = "selected"
  /\ session' = [session EXCEPT
       ![s].at = "deleting",
       ![s].copy = [r \in DOMAIN me.copy |->
                      [id |-> me.copy[r].id, amount |-> Allotted(rules[r], me.copy[r].cost)]],
       ![s].old = [r \in DOMAIN me.copy |-> OldGroups(s, r)]]
  /\ UNCHANGED <<day, rules, record, groups, astray>>

Deleted(t) == IF session[t].at = "inserted" THEN session[t].old ELSE Nothing

FinishDelete(s) ==
  LET old == session[s].old IN
  /\ session[s].at = "deleting"
  /\ \A t \in Sessions \ {s} :
       \A r \in DOMAIN old \cap DOMAIN Deleted(t) : old[r] \cap Deleted(t)[r] = {}
  /\ session' = [session EXCEPT ![s].at = "inserted"]
  /\ UNCHANGED <<day, rules, record, groups, astray>>

(***************************************************************************)
(* The end of a transaction.  What a commit changes under a session that   *)
(* has already read it is no longer fresh to that session.                 *)
(***************************************************************************)

Attributed(s) == IF session[s].at = "inserted" THEN DOMAIN session[s].copy ELSE {}

Disturbed(t, s) ==
  {r \in session[t].fresh :
     \/ r \in DOMAIN session[s].written
     \/ r \in Attributed(s) /\ session[t].at \in {"deleting", "inserted"}}

CommittedGroups(s, r) ==
  IF r \in Attributed(s) /\ Joined(s, r)
    THEN (groups[r] \ session[s].old[r]) \cup {[by |-> s, amount |-> session[s].copy[r].amount]}
    ELSE groups[r]

Commit(s) ==
  LET changed == DOMAIN session[s].written \cup Attributed(s)
      settled == Attributed(s) \cap session[s].fresh
  IN /\ record' = [r \in Records |-> IF r \in DOMAIN session[s].written THEN Visible(s, r)
                                                                       ELSE record[r]]
     /\ groups' = [r \in Records |-> CommittedGroups(s, r)]
     /\ session' = [t \in Sessions |->
                      IF t = s THEN Idle
                      ELSE [session[t] EXCEPT !.fresh = @ \ Disturbed(t, s)]]
     /\ astray' = (astray \ settled) \cup (changed \ settled)
     /\ UNCHANGED <<day, rules>>

Finish(s) == session[s].at \in {"done", "inserted"} /\ Commit(s)

(* The job catches errors of the attribution and commits what it has       *)
(* ingested; after the DELETE only the database can fail, and then nothing *)
(* is committed.                                                           *)
AttributionFails(s) ==
  /\ session[s].at = "ingesting" \/ (session[s].at = "selected" /\ session[s].written # Nothing)
  /\ Commit(s)

(* An error, the job's time limit or a crash undoes the transaction. *)
Abort(s) ==
  /\ Busy(s)
  /\ session' = [session EXCEPT ![s] = Idle]
  /\ UNCHANGED <<day, rules, record, groups, astray>>

(***************************************************************************)
(* The maintenance sweep, the administrator and the clock.                 *)
(***************************************************************************)

Finalizable_OnTheDay(r) == record[r].status = "PRELIMINARY" /\ DayOf[r] = day - FinalizeDays
Finalizable(r) == record[r].status = "PRELIMINARY" /\ DayOf[r] <= day - FinalizeDays

Finalize ==
  LET due == {r \in Records : Finalizable(r)} IN
  /\ due # {}
  /\ \A r \in due, s \in Sessions : r \notin DOMAIN session[s].written
  /\ record' = [r \in Records |-> IF r \in due THEN [record[r] EXCEPT !.status = "FINAL"]
                                               ELSE record[r]]
  /\ UNCHANGED <<day, rules, groups, session, astray>>

Expired(r) == Live(r) /\ DayOf[r] < day - RetentionDays /\ record[r].id < MaxId

(* The oldest first, as many as the batches of one sweep take.  No key     *)
(* refers to a cost record: its allocation rows stay behind, and join      *)
(* nothing that is stored in its place later.                              *)
Purge ==
  \E due \in SUBSET {r \in Records : Expired(r)} \ {{}} :
    /\ \A r \in due, q \in Records \ due : Expired(q) => DayOf[r] <= DayOf[q]
    /\ \A r \in due, s \in Sessions : r \notin DOMAIN session[s].written
    /\ record' = [r \in Records |->
                    IF r \in due THEN [id |-> record[r].id + 1, status |-> "ABSENT", cost |-> 0]
                                 ELSE record[r]]
    /\ groups' = [r \in Records |-> IF r \in due THEN {} ELSE groups[r]]
    /\ UNCHANGED <<day, rules, session, astray>>

ChangeRules ==
  /\ rules' \in RuleSets \ {rules}
  /\ UNCHANGED <<day, record, groups, session, astray>>

Tick == day < MaxDay /\ day' = day + 1
        /\ UNCHANGED <<rules, record, groups, session, astray>>

(* What a session does once it has started; it ends in any case, because a *)
(* job has a time limit and a request answers or fails.                    *)
GoOn(s) ==
  \/ SaveBatch(s) \/ SelectRecords(s) \/ StartDelete(s) \/ FinishDelete(s)
  \/ Finish(s) \/ AttributionFails(s) \/ Abort(s)

CostNext ==
  \/ \E s \in Sessions : StartRecent(s) \/ StartBackfill(s) \/ StartApply(s) \/ GoOn(s)
  \/ Finalize \/ Purge \/ ChangeRules \/ Tick

CostSpec == CostInit /\ [][CostNext]_costVars

(* Days pass, sessions go on, and the finalizing UPDATE of a sweep that is *)
(* run again and again gets its row locks: it queues for them, and whoever *)
(* holds one ends.                                                         *)
FairCosts ==
  /\ CostSpec
  /\ WF_costVars(Tick) /\ SF_costVars(Finalize)
  /\ \A s \in Sessions : WF_costVars(GoOn(s))

(***************************************************************************)
(* Properties.                                                             *)
(***************************************************************************)

(* Where the last attribution of a record overlapped with no change of its *)
(* cost and no other attribution, and no ingestion was committed without   *)
(* one, the record is allocated exactly once and to the full amount of the *)
(* cost it has now: apply_rules_to_tenant leaves nothing stale behind and  *)
(* counts nothing twice, and puts right what earlier overlaps have broken. *)
AllocationsFollowCost ==
  \A r \in Records : Live(r) /\ r \notin astray =>
    \E g \in groups[r] :
      groups[r] = {g} /\ \E rs \in RuleSets : g.amount = Allotted(rs[r], record[r].cost)

(* Whatever is ingested late, again or after it has been deleted: in the   *)
(* end every cost older than the restatement window is final, and no later *)
(* ingestion makes it preliminary (bulk_upsert and finalize_batch).        *)
CostsBecomeFinal ==
  \A r \in Records :
    <>[](Live(r) /\ DayOf[r] <= day - FinalizeDays => record[r].status = "FINAL")
=============================================================================
