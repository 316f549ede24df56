----------------------------- MODULE LlmBudget -----------------------------
(***************************************************************************)
(* The LLM budget of one tenant (shared/llm/budget_execution_runtime_ops). *)
(* A call counts the usage rows of the day, takes one of the in-flight     *)
(* slots of its process, locks the budget row (or inserts it), adds its    *)
(* estimate to the pending reservations and, without committing, asks the  *)
(* provider; recording the usage then moves the estimate to the spend and  *)
(* commits.  The row lock is therefore kept while the provider answers,    *)
(* and `draft` is the row as the call's open transaction sees it.          *)
(*                                                                         *)
(* The row is shared by all processes; the slots and the blocked flag are  *)
(* not.  The managed profile has no cache and counts slots in a variable   *)
(* of the process, the other profiles count them in a cache that is local  *)
(* to the process too and cannot fail as a remote one would.               *)
(*                                                                         *)
(* `book` is history: the highest limit, the cost beyond the estimates and *)
(* the cost of all usage rows since the row was last reset.                *)
(***************************************************************************)
EXTENDS Integers, FiniteSets

CONSTANTS Processes,
          Calls, ProcessOf,
          Cached,          \* this profile has a cache
          Estimates,       \* reserved for a call
          Prices,          \* of the tokens a call really used
          Limits,          \* monthly limits an administrator may set
          DefaultLimit,    \* that of a row made by the first call
          SlotCap, DailyLimit,
          LastMonth        \* bound: months counted

ASSUME LlmConstants ==
  /\ IsFiniteSet(Calls) /\ ProcessOf \in [Calls -> Processes] /\ Cached \in BOOLEAN
  /\ Estimates \subseteq Nat /\ Prices \subseteq Nat
  /\ Limits \subseteq Nat /\ DefaultLimit \in Nat
  /\ SlotCap \in Nat \ {0} /\ DailyLimit \in Nat \ {0}
  /\ LastMonth \in Nat

VARIABLES budget, call,
          slots,           \* the slot counter of each process
          today,           \* usage rows of this day
          blocked,         \* budget_blocked is in the cache of the process
          month, book
llmVars == <<budget, call, slots, today, blocked, month, book>>

Rows == [present: BOOLEAN, limit: Nat, hard: BOOLEAN, spend: Nat, pending: Nat, month: 0 .. LastMonth]

NoRow == [present |-> FALSE, limit |-> 0, hard |-> FALSE, spend |-> 0, pending |-> 0, month |-> 0]

NewRow(limit, hard) ==
  [NoRow EXCEPT !.present = TRUE, !.limit = limit, !.hard = hard, !.month = month]

(* `dated`: the call's transaction, whose start dates its usage row, began *)
(* on this day.                                                            *)
Resting == [at |-> "idle", est |-> 0, draft |-> NoRow, dated |-> FALSE]

(* `leased`: the counter has a time to expire at; `lapsed` is history, it  *)
(* has expired while slots were taken.                                     *)
Counters == [count: Nat, leased: BOOLEAN, lapsed: BOOLEAN]
Unused   == [count |-> 0, leased |-> FALSE, lapsed |-> FALSE]

LlmInit ==
  /\ budget = NoRow
  /\ call = [c \in Calls |-> Resting]
  /\ slots = [p \in Processes |-> Unused]
  /\ blocked = [p \in Processes |-> FALSE]
  /\ today = 0 /\ month = 0
  /\ book = [peak |-> 0, overrun |-> 0, billed |-> 0]

(* The row, or the key of its insertion, is locked by an open transaction. *)
Unlocked_Always == TRUE
Unlocked == \A c \in Calls : call[c].at # "reserved"

HasSlot(c) == call[c].at \in {"slotted", "inserting", "reserved"}
Holders(p) == {c \in Calls : ProcessOf[c] = p /\ HasSlot(c)}

(***************************************************************************)
(* Before the lock: the daily quota and the slots.                         *)
(***************************************************************************)
WithinQuota_OneMore == today <= DailyLimit
WithinQuota == today < DailyLimit

PassQuota(c) ==
  /\ call[c].at = "idle"
  /\ WithinQuota
  /\ call' = [call EXCEPT ![c].at = "admitted", ![c].dated = TRUE]
  /\ UNCHANGED <<budget, slots, today, blocked, month, book>>

(* The counter is raised, compared with the cap and, of a call that is     *)
(* turned down, lowered again, with no other call of the process between.  *)
(* In the cache raising sets the time to expire, and lowering drops it.    *)
SlotTaken_OneMore(p) == slots[p].count <= SlotCap
SlotTaken(p) == slots[p].count < SlotCap

Acquire(c) ==
  LET p == ProcessOf[c]
  IN  /\ call[c].at = "admitted"
      /\ IF SlotTaken(p)
         THEN /\ call' = [call EXCEPT ![c].at = "slotted"]
              /\ slots' = [slots EXCEPT ![p].count = @ + 1, ![p].leased = Cached]
         ELSE /\ call' = [call EXCEPT ![c] = Resting]
              /\ slots' = [slots EXCEPT ![p].leased = FALSE]
      /\ UNCHANGED <<budget, today, blocked, month, book>>

(* A count that falls below zero is set to zero.                           *)
Released(p) ==
  [slots EXCEPT ![p].count = IF @ > 0 THEN @ - 1 ELSE 0, ![p].leased = FALSE]

(* A cached counter expires when its process has neither taken nor given   *)
(* back a slot for the lease time, however long the calls in flight take.  *)
SlotsExpire(p) ==
  /\ slots[p].leased
  /\ slots' = [slots EXCEPT ![p] = [count |-> 0, leased |-> FALSE,
                                    lapsed |-> @.lapsed \/ Holders(p) # {}]]
  /\ UNCHANGED <<budget, call, today, blocked, month, book>>

(* A process ends: its counter, its cache and its transactions are lost.   *)
Restart(p) ==
  /\ slots' = [slots EXCEPT ![p] = Unused]
  /\ blocked' = [blocked EXCEPT ![p] = FALSE]
  /\ call' = [c \in Calls |-> IF ProcessOf[c] = p THEN Resting ELSE call[c]]
  /\ UNCHANGED <<budget, today, month, book>>

(***************************************************************************)
(* Reserving.  A row that is absent is nothing to lock: the call inserts   *)
(* it, waits for another insertion to end, and fails if that one commits.  *)
(***************************************************************************)
FindNoRow(c) ==
  /\ call[c].at = "slotted"
  /\ ~budget.present
  /\ call' = [call EXCEPT ![c].at = "inserting"]
  /\ UNCHANGED <<budget, slots, today, blocked, month, book>>

InsertFails(c) ==
  /\ call[c].at = "inserting"
  /\ Unlocked
  /\ budget.present
  /\ call' = [call EXCEPT ![c] = Resting]
  /\ slots' = Released(ProcessOf[c])
  /\ UNCHANGED <<budget, today, blocked, month, book>>

(* The row this month: the first call of a month resets it.                *)
Current ==
  IF ~budget.present THEN NewRow(DefaultLimit, TRUE)
  ELSE IF budget.month = month THEN budget
  ELSE [budget EXCEPT !.spend = 0, !.pending = 0, !.month = month]

Remaining_OfSpend(row) == row.limit - row.spend
Remaining(row) == row.limit - (row.spend + row.pending)

Reserve(c) ==
  /\ \/ call[c].at = "slotted" /\ budget.present
     \/ call[c].at = "inserting" /\ ~budget.present
  /\ Unlocked
  /\ \E est \in Estimates :
       \/ /\ est <= Remaining(Current)
          /\ call' = [call EXCEPT ![c].at = "reserved", ![c].est = est,
                                  ![c].draft = [Current EXCEPT !.pending = @ + est]]
          /\ UNCHANGED slots
       \/ /\ est > Remaining(Current)
          /\ call' = [call EXCEPT ![c] = Resting]
          /\ slots' = Released(ProcessOf[c])
  /\ UNCHANGED <<budget, today, blocked, month, book>>

(* What a commit of the row adds to the history.                           *)
Booked(row, extra, cost) ==
  IF budget.present /\ budget.month = row.month
  THEN [book EXCEPT !.overrun = @ + extra, !.billed = @ + cost]
  ELSE [peak |-> row.limit, overrun |-> extra, billed |-> cost]

(***************************************************************************)
(* Recording: the release is the price of the tokens really used, not the  *)
(* amount that was reserved; a call with the tenant's own key costs 0.     *)
(***************************************************************************)
Settled_Unclamped(row, price, cost) ==
  [row EXCEPT !.pending = @ - price, !.spend = @ + cost]
Settled(row, price, cost) ==
  [row EXCEPT !.pending = IF @ > price THEN @ - price ELSE 0, !.spend = @ + cost]

Record(c) ==
  /\ call[c].at = "reserved"
  /\ \E price \in Prices : \E cost \in {0, price} :
       /\ budget' = Settled(call[c].draft, price, cost)
       /\ book' = Booked(call[c].draft, IF cost > call[c].est THEN cost - call[c].est ELSE 0, cost)
  /\ today' = today + (IF call[c].dated THEN 1 ELSE 0)
  /\ slots' = Released(ProcessOf[c])
  /\ call' = [call EXCEPT ![c] = Resting]
  /\ UNCHANGED <<blocked, month>>

(* An error while recording is swallowed: rolled back, the slot released.  *)
RecordFails(c) ==
  /\ call[c].at = "reserved"
  /\ slots' = Released(ProcessOf[c])
  /\ call' = [call EXCEPT ![c] = Resting]
  /\ UNCHANGED <<budget, today, blocked, month, book>>

(* The provider, or the preparation of the data, fails: nothing releases   *)
(* the slot.  Callers that let the error pass roll back; one that catches  *)
(* it and goes on with the next provider commits the reservation.          *)
CallFails(c) ==
  /\ call[c].at = "reserved"
  /\ call' = [call EXCEPT ![c] = Resting]
  /\ UNCHANGED <<budget, slots, today, blocked, month, book>>

CallFailsAndCommits(c) ==
  /\ call[c].at = "reserved"
  /\ budget' = call[c].draft
  /\ book' = Booked(call[c].draft, 0, 0)
  /\ call' = [call EXCEPT ![c] = Resting]
  /\ UNCHANGED <<slots, today, blocked, month>>

(* Once it has reserved, the analyzer checks the state of the budget, its  *)
(* own reservation included: one that leaves nothing is turned away.       *)
Exhausted(row) == row.present /\ row.spend + row.pending >= row.limit /\ row.hard

TurnAway(c) ==
  /\ call[c].at = "reserved"
  /\ blocked[ProcessOf[c]] \/ Exhausted(call[c].draft)
  /\ blocked' = [blocked EXCEPT ![ProcessOf[c]] = Cached]
  /\ call' = [call EXCEPT ![c] = Resting]
  /\ UNCHANGED <<budget, slots, today, month, book>>

(* The remediation sweep asks for the state as well.                       *)
CheckState(p) ==
  /\ Cached /\ ~blocked[p]
  /\ Exhausted(budget)
  /\ blocked' = [blocked EXCEPT ![p] = TRUE]
  /\ UNCHANGED <<budget, call, slots, today, month, book>>

BlockExpires(p) ==
  /\ blocked[p]
  /\ blocked' = [blocked EXCEPT ![p] = FALSE]
  /\ UNCHANGED <<budget, call, slots, today, month, book>>

(* The settings endpoint updates or inserts the row, after open reservations. *)
SetLimit ==
  /\ Unlocked
  /\ \E limit \in Limits, hard \in BOOLEAN :
       IF budget.present
       THEN /\ budget' = [budget EXCEPT !.limit = limit, !.hard = hard]
            /\ book' = [book EXCEPT !.peak = IF limit > @ THEN limit ELSE @]
       ELSE /\ budget' = NewRow(limit, hard)
            /\ book' = [peak |-> limit, overrun |-> 0, billed |-> 0]
  /\ UNCHANGED <<call, slots, today, blocked, month>>

Midnight ==
  /\ \E m \in {month, month + 1} : m <= LastMonth /\ month' = m
  /\ today' = 0
  /\ call' = [c \in Calls |-> [call[c] EXCEPT !.dated = FALSE]]
  /\ UNCHANGED <<budget, slots, blocked, book>>

CallStep(c) ==
  \/ PassQuota(c) \/ Acquire(c) \/ FindNoRow(c) \/ InsertFails(c) \/ Reserve(c)
  \/ Record(c) \/ RecordFails(c) \/ CallFails(c) \/ CallFailsAndCommits(c) \/ TurnAway(c)

LlmNext ==
  \/ \E c \in Calls : CallStep(c)
  \/ \E p \in Processes : SlotsExpire(p) \/ Restart(p) \/ CheckState(p) \/ BlockExpires(p)
  \/ SetLimit \/ Midnight

LlmSpec == LlmInit /\ [][LlmNext]_llmVars

-----------------------------------------------------------------------------
(* Types of the row, the calls and the counters (LLMBudget).  The amounts  *)
(* of the row never go below zero.                                         *)
LlmTypeOK ==
  /\ budget \in Rows
  /\ call \in [Calls -> [at: {"idle", "admitted", "slotted", "inserting", "reserved"},
                         est: Estimates \cup {0}, draft: Rows, dated: BOOLEAN]]
  /\ slots \in [Processes -> Counters] /\ blocked \in [Processes -> BOOLEAN]
  /\ today \in Nat /\ month \in 0 .. LastMonth
  /\ book \in [peak: Nat, overrun: Nat, billed: Nat]

(* The spend of the row is the cost of the usage rows written since its    *)
(* reset: no recording is lost to a concurrent one, to a change of the     *)
(* settings or to the turn of the month (record_usage_entry).              *)
SpendMatchesUsage == budget.present => budget.spend = book.billed

(* What is spent and reserved never exceeds the highest limit there was    *)
(* this month by more than the calls cost beyond their estimates, with any *)
(* number of calls at a time and whatever becomes of them                  *)
(* (check_and_reserve_budget: "prevent double-spending").                  *)
SpendWithinLimit ==
  budget.present => budget.spend + budget.pending <= book.peak + book.overrun

(* No process has more calls in flight than the cap, as long as its        *)
(* counter does not expire under them, with failed calls that never give   *)
(* their slot back and restarts; the processes do not know of each other,  *)
(* so a tenant may have the cap in each (acquire_fair_use_inflight_slot).  *)
SlotsHeld == \A p \in Processes : slots[p].lapsed \/ Cardinality(Holders(p)) <= SlotCap

(* The quota is checked long before the row that counts for it is written: *)
(* it can be passed, by no more than the calls under way at a time         *)
(* (enforce_daily_analysis_limit).                                         *)
QuotaOvershoot == today < DailyLimit + Cardinality(Calls)
=============================================================================
