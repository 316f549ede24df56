--------------------------- MODULE Spending_proofs ---------------------------
(***************************************************************************)
(* What a tenant spends: the budget, the slots and the quota of its LLM    *)
(* calls, for any number of calls, estimates, prices, limits and months;   *)
(* and the ledger of its cloud costs, for any records, days, rules and     *)
(* sessions.  The two components share nothing.                            *)
(***************************************************************************)
EXTENDS LlmBudget, CostRecords, FiniteSetTheorems, TLAPS

(***************************************************************************)
(* The LLM budget.                                                         *)
(***************************************************************************)

CallStates == [at: {"idle", "admitted", "slotted", "inserting", "reserved"},
               est: Estimates \cup {0}, draft: Rows, dated: BOOLEAN]

SlotTypes == slots \in [Processes -> Counters] /\ blocked \in [Processes -> BOOLEAN]

(* The rows a step may write are rows. *)
LEMMA RowTypes ==
  ASSUME LlmTypeOK
  PROVE  /\ NoRow \in Rows /\ Current \in Rows /\ Resting \in CallStates
         /\ \A limit \in Nat, hard \in BOOLEAN : NewRow(limit, hard) \in Rows
<1>1. month \in 0 .. LastMonth /\ budget \in Rows /\ 0 \in 0 .. LastMonth
  BY LlmConstants DEF LlmTypeOK
<1>2. NoRow \in Rows
  BY <1>1 DEF NoRow, Rows
<1>3. \A limit \in Nat, hard \in BOOLEAN : NewRow(limit, hard) \in Rows
  BY <1>1 DEF NewRow, NoRow, Rows
<1>4. NewRow(DefaultLimit, TRUE) \in Rows
  BY <1>3, LlmConstants
<1>5. Current \in Rows
  BY <1>1, <1>4 DEF Current, Rows
<1>6. Resting \in CallStates
  BY <1>2 DEF Resting, CallStates
<1> QED BY <1>2, <1>3, <1>5, <1>6

(* What a settled draft and its booking are. *)
LEMMA SettledTypes ==
  ASSUME LlmTypeOK, NEW row \in Rows, NEW price \in Nat, NEW cost \in Nat, NEW extra \in Nat
  PROVE  /\ Settled(row, price, cost) \in Rows
         /\ Booked(row, extra, cost) \in [peak: Nat, overrun: Nat, billed: Nat]
<1>1. /\ row.pending \in Nat /\ row.spend \in Nat /\ row.limit \in Nat
      /\ book \in [peak: Nat, overrun: Nat, billed: Nat]
  BY DEF Rows, LlmTypeOK
<1>2. (IF row.pending > price THEN row.pending - price ELSE 0) \in Nat
  BY <1>1
<1>3. Settled(row, price, cost) \in Rows
  <2> DEFINE left == IF row.pending > price THEN row.pending - price ELSE 0
  <2>1. Settled(row, price, cost) = [row EXCEPT !.pending = left, !.spend = row.spend + cost]
    BY DEF Settled, Rows
  <2>2. left \in Nat /\ row.spend + cost \in Nat
    BY <1>1, <1>2
  <2> HIDE DEF left
  <2> QED BY <2>1, <2>2 DEF Rows
<1>4. Booked(row, extra, cost) \in [peak: Nat, overrun: Nat, billed: Nat]
  <2>1. [peak |-> row.limit, overrun |-> extra, billed |-> cost]
          \in [peak: Nat, overrun: Nat, billed: Nat]
    BY <1>1
  <2>2. [book EXCEPT !.overrun = @ + extra, !.billed = @ + cost]
          \in [peak: Nat, overrun: Nat, billed: Nat]
    <3> DEFINE beyond == book.overrun + extra
               billed == book.billed + cost
    <3>1. beyond \in Nat /\ billed \in Nat
      BY <1>1
    <3>2. [book EXCEPT !.overrun = @ + extra, !.billed = @ + cost]
            = [book EXCEPT !.overrun = beyond, !.billed = billed]
      BY <1>1
    <3> HIDE DEF beyond, billed
    <3> QED BY <1>1, <3>1, <3>2
  <2>3. CASE budget.present /\ budget.month = row.month
    BY <2>2, <2>3 DEF Booked
  <2>4. CASE ~(budget.present /\ budget.month = row.month)
    BY <2>1, <2>4 DEF Booked
  <2> QED BY <2>3, <2>4
<1> QED BY <1>3, <1>4

(* A slot given back. *)
LEMMA ReleasedTypes ==
  ASSUME slots \in [Processes -> Counters], NEW p \in Processes
  PROVE  /\ Released(p) \in [Processes -> Counters]
         /\ \A q \in Processes \ {p} : Released(p)[q] = slots[q]
         /\ Released(p)[p].lapsed = slots[p].lapsed
         /\ Released(p)[p].count = IF slots[p].count > 0 THEN slots[p].count - 1 ELSE 0
<1>1. slots[p] \in Counters /\ slots[p].count \in Nat
  BY DEF Counters
<1>2. PICK n \in Nat : n = IF slots[p].count > 0 THEN slots[p].count - 1 ELSE 0
  BY <1>1
<1> DEFINE after == [slots[p] EXCEPT !.count = n, !.leased = FALSE]
<1>3. after \in Counters /\ after.count = n /\ after.lapsed = slots[p].lapsed
  BY <1>1 DEF Counters
<1>4. Released(p) = [slots EXCEPT ![p] = after]
  BY <1>1, <1>2 DEF Released, Counters
<1> HIDE DEF after
<1> QED BY <1>2, <1>3, <1>4

(* A slot asked for: the counter is one more, or as it was.                *)
LEMMA AcquiredTypes ==
  ASSUME LlmTypeOK, NEW c \in Calls, Acquire(c)
  PROVE  LET p == ProcessOf[c]
         IN  /\ p \in Processes /\ slots' \in [Processes -> Counters]
             /\ \A q \in Processes \ {p} : slots'[q] = slots[q]
             /\ slots'[p].lapsed = slots[p].lapsed
             /\ \/ /\ slots[p].count < SlotCap /\ slots'[p].count = slots[p].count + 1
                   /\ call' = [call EXCEPT ![c].at = "slotted"]
                \/ slots'[p].count = slots[p].count /\ call' = [call EXCEPT ![c] = Resting]
<1>1. PICK p \in Processes : p = ProcessOf[c]
  BY LlmConstants
<1>2. slots[p] \in Counters /\ slots \in [Processes -> Counters] /\ Cached \in BOOLEAN
  BY LlmConstants DEF LlmTypeOK
<1>3. PICK n \in Nat : n = slots[p].count + 1
  BY <1>2 DEF Counters
<1> DEFINE taken == [slots[p] EXCEPT !.count = n, !.leased = Cached]
           same  == [slots[p] EXCEPT !.leased = FALSE]
<1>4. /\ taken \in Counters /\ taken.count = n /\ taken.lapsed = slots[p].lapsed
      /\ same \in Counters /\ same.count = slots[p].count /\ same.lapsed = slots[p].lapsed
  BY <1>2 DEF Counters
<1>5. CASE SlotTaken(p)
  <2>1. slots' = [slots EXCEPT ![p] = taken] /\ call' = [call EXCEPT ![c].at = "slotted"]
    BY <1>1, <1>2, <1>3, <1>5 DEF Acquire, Counters
  <2> HIDE DEF taken
  <2> QED BY <1>1, <1>2, <1>3, <1>4, <1>5, <2>1 DEF SlotTaken
<1>6. CASE ~SlotTaken(p)
  <2>1. slots' = [slots EXCEPT ![p] = same] /\ call' = [call EXCEPT ![c] = Resting]
    BY <1>1, <1>2, <1>6 DEF Acquire, Counters
  <2> HIDE DEF same
  <2> QED BY <1>1, <1>2, <1>4, <2>1
<1> QED BY <1>5, <1>6

(* Every step writes values of the right types.                            *)
LEMMA LlmTypesKept == LlmTypeOK /\ [LlmNext]_llmVars => LlmTypeOK'
<1> SUFFICES ASSUME LlmTypeOK, [LlmNext]_llmVars PROVE LlmTypeOK'
  OBVIOUS
<1>1. /\ budget \in Rows /\ call \in [Calls -> CallStates]
      /\ SlotTypes /\ today \in Nat /\ month \in 0 .. LastMonth
      /\ book \in [peak: Nat, overrun: Nat, billed: Nat]
  BY DEF LlmTypeOK, CallStates, SlotTypes
<1>2. /\ Current \in Rows /\ Resting \in CallStates
      /\ \A limit \in Nat, hard \in BOOLEAN : NewRow(limit, hard) \in Rows
  BY RowTypes
<1>3. ASSUME NEW c \in Calls
      PROVE  ProcessOf[c] \in Processes /\ Released(ProcessOf[c]) \in [Processes -> Counters]
  <2>1. ProcessOf[c] \in Processes
    BY LlmConstants
  <2> QED BY <1>1, <2>1, ReleasedTypes DEF SlotTypes
<1>4. ASSUME NEW c \in Calls, CallStep(c) PROVE LlmTypeOK'
  <2>1. call[c] \in CallStates
    BY <1>1
  <2>2. CASE PassQuota(c)
    <3>1. [call[c] EXCEPT !.at = "admitted", !.dated = TRUE] \in CallStates
      BY <2>1 DEF CallStates
    <3>2. call' \in [Calls -> CallStates]
      BY <1>1, <2>2, <3>1 DEF PassQuota
    <3> QED BY <1>1, <2>2, <3>2 DEF PassQuota, LlmTypeOK, CallStates, SlotTypes
  <2>3. CASE Acquire(c)
    <3>1. [call[c] EXCEPT !.at = "slotted"] \in CallStates
      BY <2>1 DEF CallStates
    <3>2. call' \in [Calls -> CallStates] /\ slots' \in [Processes -> Counters]
      BY <1>1, <1>2, <2>3, <3>1, AcquiredTypes
    <3>3. UNCHANGED <<budget, today, blocked, month, book>>
      BY <2>3 DEF Acquire
    <3> QED BY <1>1, <3>2, <3>3 DEF LlmTypeOK, CallStates, SlotTypes
  <2>4. CASE FindNoRow(c)
    <3>1. [call[c] EXCEPT !.at = "inserting"] \in CallStates
      BY <2>1 DEF CallStates
    <3>2. call' \in [Calls -> CallStates]
      BY <1>1, <2>4, <3>1 DEF FindNoRow
    <3> QED BY <1>1, <2>4, <3>2 DEF FindNoRow, LlmTypeOK, CallStates, SlotTypes
  <2>5. ASSUME call' = [call EXCEPT ![c] = Resting] PROVE call' \in [Calls -> CallStates]
    BY <1>1, <1>2, <2>5
  <2>6. CASE InsertFails(c) \/ RecordFails(c) \/ CallFails(c) \/ TurnAway(c)
    <3>1. /\ call' = [call EXCEPT ![c] = Resting] /\ SlotTypes'
          /\ UNCHANGED <<budget, today, month, book>>
      <4>1. CASE InsertFails(c) \/ RecordFails(c) \/ CallFails(c)
        BY <1>1, <1>3, <4>1 DEF InsertFails, RecordFails, CallFails, SlotTypes
      <4>2. CASE TurnAway(c)
        <5>1. [blocked EXCEPT ![ProcessOf[c]] = Cached] \in [Processes -> BOOLEAN]
          BY <1>1, LlmConstants DEF SlotTypes
        <5> QED BY <1>1, <4>2, <5>1 DEF TurnAway, SlotTypes
      <4> QED BY <2>6, <4>1, <4>2
    <3> QED BY <1>1, <2>5, <3>1 DEF LlmTypeOK, CallStates, SlotTypes
  <2>7. CASE Reserve(c)
    <3>1. PICK est \in Estimates :
            \/ /\ call' = [call EXCEPT ![c].at = "reserved", ![c].est = est,
                                       ![c].draft = [Current EXCEPT !.pending = @ + est]]
               /\ UNCHANGED slots
            \/ call' = [call EXCEPT ![c] = Resting] /\ slots' = Released(ProcessOf[c])
      BY <2>7 DEF Reserve
    <3>2. [Current EXCEPT !.pending = @ + est] \in Rows
      <4>1. est \in Nat /\ Current \in Rows
        BY <1>2, LlmConstants
      <4> HIDE DEF Current
      <4> QED BY <4>1 DEF Rows
    <3>3. [call[c] EXCEPT !.at = "reserved", !.est = est,
                          !.draft = [Current EXCEPT !.pending = @ + est]] \in CallStates
      BY <2>1, <3>2 DEF CallStates
    <3>4. call' \in [Calls -> CallStates]
      BY <1>1, <2>5, <3>1, <3>3
    <3>5. SlotTypes' /\ UNCHANGED <<budget, today, month, book>>
      BY <1>1, <1>3, <2>7, <3>1 DEF Reserve, SlotTypes
    <3> QED BY <1>1, <3>4, <3>5 DEF LlmTypeOK, CallStates, SlotTypes
  <2>8. CASE Record(c)
    <3>0. Prices \subseteq Nat /\ 0 \in Nat
      BY LlmConstants
    <3>1. PICK price \in Prices, cost \in Nat :
            /\ cost \in {0, price}
            /\ budget' = Settled(call[c].draft, price, cost)
            /\ book' = Booked(call[c].draft,
                              IF cost > call[c].est THEN cost - call[c].est ELSE 0, cost)
      BY <2>8, <3>0 DEF Record
    <3>2. /\ price \in Nat /\ cost \in Nat /\ call[c].draft \in Rows /\ call[c].est \in Nat
      <4>1. Estimates \cup {0} \subseteq Nat
        BY LlmConstants
      <4>2. call[c].draft \in Rows /\ call[c].est \in Estimates \cup {0}
        BY <2>1 DEF CallStates
      <4> QED BY <3>0, <3>1, <4>1, <4>2
    <3>3. (IF cost > call[c].est THEN cost - call[c].est ELSE 0) \in Nat
      BY <3>2
    <3>4. budget' \in Rows /\ book' \in [peak: Nat, overrun: Nat, billed: Nat]
      BY <3>1, <3>2, <3>3, SettledTypes
    <3>5. /\ call' = [call EXCEPT ![c] = Resting] /\ SlotTypes' /\ today' \in Nat
          /\ UNCHANGED month
      BY <1>1, <1>3, <2>8 DEF Record, SlotTypes
    <3> QED BY <1>1, <2>5, <3>4, <3>5 DEF LlmTypeOK, CallStates, SlotTypes
  <2>9. CASE CallFailsAndCommits(c)
    <3>1. budget' \in Rows /\ book' \in [peak: Nat, overrun: Nat, billed: Nat]
      <4>1. call[c].draft \in Rows
        BY <2>1 DEF CallStates
      <4> QED BY <2>9, <4>1, SettledTypes DEF CallFailsAndCommits
    <3>2. /\ call' = [call EXCEPT ![c] = Resting]
          /\ UNCHANGED <<slots, today, blocked, month>>
      BY <2>9 DEF CallFailsAndCommits
    <3> QED BY <1>1, <2>5, <3>1, <3>2 DEF LlmTypeOK, CallStates, SlotTypes
  <2> QED BY <1>4, <2>2, <2>3, <2>4, <2>6, <2>7, <2>8, <2>9 DEF CallStep
<1>5. CASE SetLimit
  <2>1. PICK limit \in Limits, hard \in BOOLEAN :
          IF budget.present
          THEN /\ budget' = [budget EXCEPT !.limit = limit, !.hard = hard]
               /\ book' = [book EXCEPT !.peak = IF limit > @ THEN limit ELSE @]
          ELSE /\ budget' = NewRow(limit, hard)
               /\ book' = [peak |-> limit, overrun |-> 0, billed |-> 0]
    BY <1>5 DEF SetLimit
  <2>2. limit \in Nat
    BY LlmConstants
  <2>3. budget' \in Rows
    <3>1. [budget EXCEPT !.limit = limit, !.hard = hard] \in Rows
      BY <1>1, <2>2 DEF Rows
    <3> QED BY <1>2, <2>1, <2>2, <3>1
  <2>4. book' \in [peak: Nat, overrun: Nat, billed: Nat]
    BY <1>1, <2>1, <2>2
  <2> QED BY <1>1, <1>5, <2>3, <2>4 DEF SetLimit, LlmTypeOK, CallStates, SlotTypes
<1>6. CASE Midnight
  <2>1. \A c \in Calls : [call[c] EXCEPT !.dated = FALSE] \in CallStates
    <3> SUFFICES ASSUME NEW c \in Calls PROVE [call[c] EXCEPT !.dated = FALSE] \in CallStates
      OBVIOUS
    <3>1. call[c] \in CallStates
      BY <1>1
    <3> QED BY <3>1 DEF CallStates
  <2>2. call' \in [Calls -> CallStates]
    BY <1>6, <2>1 DEF Midnight
  <2>3. month' \in 0 .. LastMonth
    BY <1>1, <1>6, LlmConstants DEF Midnight
  <2>4. today' \in Nat /\ UNCHANGED <<budget, slots, blocked, book>>
    BY <1>6 DEF Midnight
  <2> QED BY <1>1, <2>2, <2>3, <2>4 DEF LlmTypeOK, CallStates, SlotTypes
<1>7. ASSUME NEW p \in Processes, SlotsExpire(p) \/ Restart(p) \/ CheckState(p) \/ BlockExpires(p)
      PROVE  LlmTypeOK'
  <2>1. SlotTypes' /\ call' \in [Calls -> CallStates] /\ UNCHANGED <<budget, today, month, book>>
    <3>1. CASE CheckState(p) \/ BlockExpires(p)
      BY <1>1, <3>1 DEF CheckState, BlockExpires, SlotTypes
    <3>2. CASE SlotsExpire(p)
      <4>1. (slots[p].lapsed \/ Holders(p) # {}) \in BOOLEAN
        OBVIOUS
      <4>2. [count |-> 0, leased |-> FALSE, lapsed |-> slots[p].lapsed \/ Holders(p) # {}] \in Counters
        BY <4>1 DEF Counters
      <4>3. slots' \in [Processes -> Counters]
        BY <1>1, <3>2, <4>2 DEF SlotsExpire, SlotTypes
      <4> QED BY <1>1, <3>2, <4>3 DEF SlotsExpire, SlotTypes
    <3>3. CASE Restart(p)
      <4>1. Unused \in Counters
        BY DEF Unused, Counters
      <4>2. call' \in [Calls -> CallStates]
        BY <1>1, <1>2, <3>3 DEF Restart
      <4> QED BY <1>1, <3>3, <4>1, <4>2 DEF Restart, SlotTypes
    <3> QED BY <1>7, <3>1, <3>2, <3>3
  <2> QED BY <1>1, <2>1 DEF LlmTypeOK, CallStates, SlotTypes
<1>8. CASE UNCHANGED llmVars
  BY <1>1, <1>8 DEF llmVars, LlmTypeOK, CallStates, SlotTypes
<1> QED BY <1>4, <1>5, <1>6, <1>7, <1>8 DEF LlmNext

(* So does the start.                                                     *)
LEMMA LlmTypesAtStart == LlmInit => LlmTypeOK
<1> SUFFICES ASSUME LlmInit PROVE LlmTypeOK
  OBVIOUS
<1>1. 0 \in 0 .. LastMonth
  BY LlmConstants
<1>2. NoRow \in Rows
  BY <1>1 DEF NoRow, Rows
<1>3. Resting \in CallStates
  BY <1>2 DEF Resting, CallStates
<1>4. call \in [Calls -> CallStates]
  BY <1>3 DEF LlmInit
<1>5. book \in [peak: Nat, overrun: Nat, billed: Nat]
  BY DEF LlmInit
<1>6. budget \in Rows
  BY <1>2 DEF LlmInit
<1>7. slots \in [Processes -> Counters] /\ blocked \in [Processes -> BOOLEAN]
  BY DEF LlmInit, Unused, Counters
<1>8. today = 0 /\ month = 0
  BY DEF LlmInit
<1>9. today \in Nat /\ month \in 0 .. LastMonth
  BY <1>1, <1>8
<1> QED BY <1>4, <1>5, <1>6, <1>7, <1>9 DEF LlmTypeOK, CallStates

(***************************************************************************)
(* Rows, calls and counters keep their types; no amount of the row falls   *)
(* below zero.                                                             *)
(***************************************************************************)
THEOREM LlmTypeCorrect == LlmSpec => []LlmTypeOK
BY LlmTypesAtStart, LlmTypesKept, PTL DEF LlmSpec

-----------------------------------------------------------------------------
(***************************************************************************)
(* The money.  Only one call at a time holds the lock; the row its         *)
(* transaction sees has room for its estimate, and differs from the        *)
(* committed one only in what is pending, or is this month's new one.      *)
(***************************************************************************)
OneOpen == \A c, d \in Calls : call[c].at = "reserved" /\ call[d].at = "reserved" => c = d

Follows(row, est) ==
  /\ row.present /\ est <= row.pending /\ row.spend + row.pending <= row.limit
  /\ (budget.present /\ budget.month = row.month)
       => row.limit = budget.limit /\ row.spend = budget.spend
  /\ ~(budget.present /\ budget.month = row.month) => row.spend = 0

Drafts == \A c \in Calls : call[c].at = "reserved" => Follows(call[c].draft, call[c].est)

Balanced(row, history) ==
  row.present => /\ row.limit <= history.peak
                 /\ row.spend = history.billed
                 /\ row.spend + row.pending <= history.peak + history.overrun

Money == LlmTypeOK /\ OneOpen /\ Drafts /\ Balanced(budget, book)

(* A commit of the open draft, whatever the call cost, keeps the row in    *)
(* balance with the history: what it cost beyond its estimate is booked,   *)
(* and its estimate is still among what is pending.                        *)
LEMMA CommitBalanced ==
  ASSUME LlmTypeOK, Balanced(budget, book), NEW row \in Rows, NEW est \in Nat, Follows(row, est),
         NEW price \in Nat, NEW cost \in {0, price}, NEW extra \in Nat,
         extra = IF cost > est THEN cost - est ELSE 0
  PROVE  Balanced(Settled(row, price, cost), Booked(row, extra, cost))
<1> DEFINE left == IF row.pending > price THEN row.pending - price ELSE 0
           now == Settled(row, price, cost)
           history == Booked(row, extra, cost)
<1>1. /\ row.spend \in Nat /\ row.pending \in Nat /\ row.limit \in Nat /\ row.present
      /\ budget.limit \in Nat /\ budget.spend \in Nat /\ budget.pending \in Nat
      /\ book.peak \in Nat /\ book.overrun \in Nat /\ book.billed \in Nat
  BY DEF Rows, LlmTypeOK, Follows
<1>2. /\ now.limit = row.limit /\ now.spend = row.spend + cost /\ now.pending = left
  BY DEF Settled, Rows
<1>3. left \in Nat /\ cost \in Nat
  BY <1>1
<1>4. row.spend + cost + left <= row.limit + extra
  <2>1. est <= row.pending /\ row.spend + row.pending <= row.limit
    BY DEF Follows
  <2>2. CASE row.pending > price
    <3>1. left = row.pending - price /\ cost <= price
      BY <1>1, <2>2
    <3> HIDE DEF left
    <3> QED BY <1>1, <1>3, <2>1, <3>1
  <2>3. CASE ~(row.pending > price)
    <3>1. left = 0 /\ cost <= est + extra
      BY <1>1, <1>3, <2>3
    <3> HIDE DEF left
    <3> QED BY <1>1, <1>3, <2>1, <3>1
  <2> QED BY <2>2, <2>3
<1> HIDE DEF left
<1> SUFFICES Balanced(now, history)
  OBVIOUS
<1>5. CASE budget.present /\ budget.month = row.month
  <2>1. /\ history.peak = book.peak /\ history.overrun = book.overrun + extra
        /\ history.billed = book.billed + cost
    BY <1>5 DEF Booked, LlmTypeOK
  <2>2. row.limit = budget.limit /\ row.spend = budget.spend
    BY <1>5 DEF Follows
  <2>3. budget.limit <= book.peak /\ budget.spend = book.billed
    BY <1>5 DEF Balanced
  <2> HIDE DEF now, history
  <2> QED BY <1>1, <1>2, <1>3, <1>4, <2>1, <2>2, <2>3 DEF Balanced
<1>6. CASE ~(budget.present /\ budget.month = row.month)
  <2>1. history.peak = row.limit /\ history.overrun = extra /\ history.billed = cost
    BY <1>6 DEF Booked
  <2>2. row.spend = 0
    BY <1>6 DEF Follows
  <2> HIDE DEF now, history
  <2> QED BY <1>1, <1>2, <1>3, <1>4, <2>1, <2>2 DEF Balanced
<1> QED BY <1>5, <1>6

(* A reservation that is let through follows the row.                      *)
LEMMA ReservationFollows ==
  ASSUME LlmTypeOK, Balanced(budget, book), NEW est \in Nat, est <= Remaining(Current)
  PROVE  Follows([Current EXCEPT !.pending = @ + est], est)
<1>1. Current \in Rows /\ Current.present
  <2>1. CASE ~budget.present
    BY <2>1, RowTypes DEF Current, NewRow, NoRow
  <2>2. CASE budget.present
    BY <2>2, RowTypes DEF Current, LlmTypeOK, Rows
  <2> QED BY <2>1, <2>2
<1>2. /\ (budget.present /\ budget.month = Current.month)
           => Current.limit = budget.limit /\ Current.spend = budget.spend
      /\ ~(budget.present /\ budget.month = Current.month) => Current.spend = 0
  <2>1. CASE ~budget.present
    BY <2>1 DEF Current, NewRow, NoRow
  <2>2. CASE budget.present /\ budget.month = month
    BY <2>2 DEF Current
  <2>3. CASE budget.present /\ budget.month # month
    BY <2>3 DEF Current, LlmTypeOK, Rows
  <2> QED BY <2>1, <2>2, <2>3
<1> DEFINE row == Current
           draft == [row EXCEPT !.pending = @ + est]
<1>3. est <= row.limit - (row.spend + row.pending)
  BY DEF Remaining
<1> HIDE DEF row
<1>4. row \in Rows /\ row.present
  BY <1>1 DEF row
<1>5. /\ draft.present /\ draft.limit = row.limit /\ draft.spend = row.spend
      /\ draft.month = row.month /\ draft.pending = row.pending + est
  BY <1>4 DEF Rows
<1>6. row.spend \in Nat /\ row.pending \in Nat /\ row.limit \in Nat
  BY <1>4 DEF Rows
<1> HIDE DEF draft
<1>7. est <= draft.pending /\ draft.spend + draft.pending <= draft.limit
  BY <1>3, <1>5, <1>6
<1>8. Follows(draft, est)
  BY <1>2, <1>5, <1>7 DEF Follows, row
<1> QED BY <1>8 DEF draft, row

(* The calls that hold the lock after a step.                              *)
LEMMA LockPasses ==
  ASSUME LlmTypeOK, OneOpen, [LlmNext]_llmVars, NEW d \in Calls, call'[d].at = "reserved"
  PROVE  \/ /\ call[d].at = "reserved"
            /\ call'[d].draft = call[d].draft /\ call'[d].est = call[d].est
            /\ UNCHANGED <<budget, book>>
         \/ /\ Unlocked /\ UNCHANGED <<budget, book>>
            /\ \A e \in Calls : call'[e].at = "reserved" => e = d
            /\ \E est \in Estimates :
                 /\ est <= Remaining(Current)
                 /\ call'[d].est = est /\ call'[d].draft = [Current EXCEPT !.pending = @ + est]
<1>1. call \in [Calls -> CallStates]
  BY DEF LlmTypeOK, CallStates
<1>2. ASSUME NEW c \in Calls, CallStep(c)
      PROVE  \/ /\ call[d].at = "reserved"
                /\ call'[d].draft = call[d].draft /\ call'[d].est = call[d].est
                /\ UNCHANGED <<budget, book>>
             \/ Reserve(c) /\ c = d
  <2>1. CASE PassQuota(c) \/ FindNoRow(c)
    BY <1>1, <2>1 DEF PassQuota, FindNoRow, CallStates
  <2>2. CASE Acquire(c) \/ InsertFails(c)
    <3>1. /\ \/ call' = [call EXCEPT ![c].at = "slotted"]
             \/ call' = [call EXCEPT ![c] = Resting]
          /\ UNCHANGED <<budget, book>>
      BY <2>2 DEF Acquire, InsertFails
    <3> QED BY <1>1, <3>1 DEF CallStates, Resting
  <2>3. CASE RecordFails(c) \/ CallFails(c) \/ TurnAway(c)
    BY <1>1, <2>3 DEF RecordFails, CallFails, TurnAway, Resting
  <2>4. CASE Record(c) \/ CallFailsAndCommits(c)
    <3>1. call[c].at = "reserved" /\ call' = [call EXCEPT ![c] = Resting]
      BY <2>4 DEF Record, CallFailsAndCommits
    <3>2. c # d
      BY <1>1, <3>1 DEF Resting
    <3>3. call'[d] = call[d]
      BY <1>1, <3>1, <3>2
    <3> QED BY <3>1, <3>2, <3>3 DEF OneOpen
  <2>5. CASE Reserve(c) /\ c # d
    <3>1. call'[d] = call[d] /\ UNCHANGED <<budget, book>>
      BY <1>1, <2>5 DEF Reserve
    <3> QED BY <3>1
  <2> QED BY <1>2, <2>1, <2>2, <2>3, <2>4, <2>5 DEF CallStep
<1>3. ASSUME Reserve(d)
      PROVE  /\ Unlocked /\ UNCHANGED <<budget, book>>
             /\ \A e \in Calls : call'[e].at = "reserved" => e = d
             /\ \E est \in Estimates :
                  /\ est <= Remaining(Current)
                  /\ call'[d].est = est /\ call'[d].draft = [Current EXCEPT !.pending = @ + est]
  <2>1. PICK est \in Estimates :
          \/ /\ est <= Remaining(Current)
             /\ call' = [call EXCEPT ![d].at = "reserved", ![d].est = est,
                                     ![d].draft = [Current EXCEPT !.pending = @ + est]]
          \/ call' = [call EXCEPT ![d] = Resting]
    BY <1>3 DEF Reserve
  <2>2. call' # [call EXCEPT ![d] = Resting]
    BY <1>1 DEF Resting
  <2>3. Unlocked /\ UNCHANGED <<budget, book>>
    BY <1>3 DEF Reserve
  <2> DEFINE draft == [Current EXCEPT !.pending = @ + est]
  <2>4. /\ est <= Remaining(Current)
        /\ call' = [call EXCEPT ![d].at = "reserved", ![d].est = est, ![d].draft = draft]
    BY <2>1, <2>2
  <2> HIDE DEF draft
  <2>5. \A e \in Calls : e # d => call'[e] = call[e]
    BY <1>1, <2>4
  <2>6. call'[d].est = est /\ call'[d].draft = draft
    BY <1>1, <2>4 DEF CallStates
  <2> QED BY <2>3, <2>4, <2>5, <2>6 DEF Unlocked, draft
<1>4. CASE SetLimit
  BY <1>1, <1>4 DEF SetLimit, Unlocked
<1>5. CASE Midnight
  BY <1>1, <1>5 DEF Midnight, CallStates
<1>6. ASSUME NEW p \in Processes, Restart(p)
      PROVE  call[d].at = "reserved" /\ call'[d] = call[d] /\ UNCHANGED <<budget, book>>
  <2>1. call'[d] = (IF ProcessOf[d] = p THEN Resting ELSE call[d]) /\ UNCHANGED <<budget, book>>
    BY <1>6 DEF Restart
  <2> QED BY <2>1 DEF Resting
<1>7. ASSUME NEW p \in Processes, SlotsExpire(p) \/ CheckState(p) \/ BlockExpires(p)
      PROVE  UNCHANGED <<budget, call, book>>
  BY <1>7 DEF CheckState, BlockExpires, SlotsExpire
<1>8. CASE UNCHANGED llmVars
  BY <1>8 DEF llmVars
<1> QED BY <1>2, <1>3, <1>4, <1>5, <1>6, <1>7, <1>8 DEF LlmNext

(* Every step keeps the money in order.                                    *)
LEMMA MoneyKept == Money /\ [LlmNext]_llmVars => Money'
<1> SUFFICES ASSUME Money, [LlmNext]_llmVars PROVE Money'
  OBVIOUS
<1>0. LlmTypeOK /\ OneOpen /\ Drafts /\ Balanced(budget, book)
  BY DEF Money
<1>1. LlmTypeOK'
  BY <1>0, LlmTypesKept
<1>2. OneOpen'
  <2> SUFFICES ASSUME NEW c \in Calls, NEW d \in Calls,
                      call'[c].at = "reserved", call'[d].at = "reserved"
               PROVE  c = d
    BY DEF OneOpen
  <2>1. CASE call[c].at = "reserved" /\ call[d].at = "reserved"
    BY <1>0, <2>1 DEF OneOpen
  <2>2. CASE call[c].at # "reserved"
    BY <1>0, <2>2, LockPasses
  <2>3. CASE call[d].at # "reserved"
    BY <1>0, <2>3, LockPasses
  <2> QED BY <2>1, <2>2, <2>3
<1>3. Drafts'
  <2> SUFFICES ASSUME NEW d \in Calls, call'[d].at = "reserved"
               PROVE  Follows(call[d].draft, call[d].est)'
    BY DEF Drafts
  <2>1. CASE /\ call[d].at = "reserved"
             /\ call'[d].draft = call[d].draft /\ call'[d].est = call[d].est
             /\ UNCHANGED <<budget, book>>
    <3>1. Follows(call[d].draft, call[d].est)
      BY <1>0, <2>1 DEF Drafts
    <3> QED BY <2>1, <3>1 DEF Follows
  <2>2. CASE /\ UNCHANGED <<budget, book>>
             /\ \E est \in Estimates :
                  /\ est <= Remaining(Current)
                  /\ call'[d].est = est /\ call'[d].draft = [Current EXCEPT !.pending = @ + est]
    <3>1. PICK est \in Estimates :
            /\ est <= Remaining(Current)
            /\ call'[d].est = est /\ call'[d].draft = [Current EXCEPT !.pending = @ + est]
      BY <2>2
    <3>2. est \in Nat
      BY LlmConstants
    <3>3. Follows([Current EXCEPT !.pending = @ + est], est)
      BY <1>0, <3>1, <3>2, ReservationFollows
    <3> DEFINE draft == [Current EXCEPT !.pending = @ + est]
    <3>4. Follows(draft, est) /\ call'[d].est = est /\ call'[d].draft = draft
      BY <3>1, <3>3
    <3> HIDE DEF draft
    <3> QED BY <2>2, <3>4 DEF Follows
  <2> QED BY <1>0, <2>1, <2>2, LockPasses
<1>4. Balanced(budget, book)'
  <2>1. ASSUME NEW c \in Calls, CallStep(c) PROVE Balanced(budget, book)'
    <3>1. /\ call[c].at = "reserved"
             => /\ call[c].draft \in Rows /\ call[c].est \in Nat
                /\ Follows(call[c].draft, call[c].est)
      <4>1. Estimates \cup {0} \subseteq Nat
        BY LlmConstants
      <4>2. call[c].draft \in Rows /\ call[c].est \in Estimates \cup {0}
        BY <1>0 DEF LlmTypeOK
      <4> QED BY <1>0, <4>1, <4>2 DEF Drafts
    <3>2. CASE Record(c)
      <4>1. PICK price \in Prices : \E cost \in {0, price} :
              /\ budget' = Settled(call[c].draft, price, cost)
              /\ book' = Booked(call[c].draft,
                                IF cost > call[c].est THEN cost - call[c].est ELSE 0, cost)
        BY <3>2 DEF Record
      <4>2. PICK cost \in {0, price} :
              /\ budget' = Settled(call[c].draft, price, cost)
              /\ book' = Booked(call[c].draft,
                                IF cost > call[c].est THEN cost - call[c].est ELSE 0, cost)
        BY <4>1
      <4>3. price \in Nat /\ cost \in Nat /\ call[c].at = "reserved"
        BY <3>2, LlmConstants DEF Record
      <4>4. PICK extra \in Nat : extra = IF cost > call[c].est THEN cost - call[c].est ELSE 0
        BY <3>1, <4>3
      <4>5. Balanced(Settled(call[c].draft, price, cost), Booked(call[c].draft, extra, cost))
        BY <1>0, <3>1, <4>3, <4>4, CommitBalanced
      <4> QED BY <4>2, <4>4, <4>5 DEF Balanced
    <3>3. CASE CallFailsAndCommits(c)
      <4>1. /\ call[c].at = "reserved" /\ budget' = call[c].draft
            /\ book' = Booked(call[c].draft, 0, 0)
        BY <3>3 DEF CallFailsAndCommits
      <4>2. Settled(call[c].draft, 0, 0) = call[c].draft
        <5>1. PICK row \in Rows : row = call[c].draft
          BY <3>1, <4>1
        <5>2. (IF row.pending > 0 THEN row.pending - 0 ELSE 0) = row.pending
          BY DEF Rows
        <5>3. row.spend + 0 = row.spend
          BY DEF Rows
        <5>4. Settled(row, 0, 0) = [row EXCEPT !.pending = row.pending, !.spend = row.spend]
          BY <5>2, <5>3 DEF Settled, Rows
        <5>5. Settled(row, 0, 0) = row
          BY <5>4 DEF Rows
        <5> QED BY <5>1, <5>5
      <4>3. 0 = IF 0 > call[c].est THEN 0 - call[c].est ELSE 0
        BY <3>1, <4>1
      <4>4. Balanced(Settled(call[c].draft, 0, 0), Booked(call[c].draft, 0, 0))
        BY <1>0, <3>1, <4>1, <4>3, CommitBalanced
      <4> QED BY <4>1, <4>2, <4>4 DEF Balanced
    <3>4. CASE ~Record(c) /\ ~CallFailsAndCommits(c)
      <4>1. UNCHANGED <<budget, book>>
        BY <2>1, <3>4 DEF CallStep, PassQuota, Acquire, FindNoRow, InsertFails, Reserve,
                          RecordFails, CallFails, TurnAway
      <4> QED BY <1>0, <4>1 DEF Balanced
    <3> QED BY <3>2, <3>3, <3>4
  <2>2. CASE SetLimit
    <3>1. PICK limit \in Limits, hard \in BOOLEAN :
            IF budget.present
            THEN /\ budget' = [budget EXCEPT !.limit = limit, !.hard = hard]
                 /\ book' = [book EXCEPT !.peak = IF limit > @ THEN limit ELSE @]
            ELSE /\ budget' = NewRow(limit, hard)
                 /\ book' = [peak |-> limit, overrun |-> 0, billed |-> 0]
      BY <2>2 DEF SetLimit
    <3>2. limit \in Nat
      BY LlmConstants
    <3>3. CASE ~budget.present
      <4>1. /\ budget'.spend = 0 /\ budget'.pending = 0 /\ budget'.limit = limit
            /\ book'.peak = limit /\ book'.overrun = 0 /\ book'.billed = 0
        <5>1. /\ budget' = NewRow(limit, hard)
              /\ book' = [peak |-> limit, overrun |-> 0, billed |-> 0]
          BY <3>1, <3>3
        <5>2. /\ NewRow(limit, hard).spend = 0 /\ NewRow(limit, hard).pending = 0
              /\ NewRow(limit, hard).limit = limit
          BY DEF NewRow, NoRow
        <5> QED BY <5>1, <5>2
      <4> QED BY <3>2, <4>1 DEF Balanced
    <3>4. CASE budget.present
      <4>1. /\ budget.limit \in Nat /\ budget.spend \in Nat /\ budget.pending \in Nat
            /\ book.peak \in Nat /\ book.overrun \in Nat /\ book.billed \in Nat
        BY <1>0 DEF LlmTypeOK, Rows
      <4>2. /\ budget'.spend = budget.spend /\ budget'.pending = budget.pending
            /\ budget'.limit = limit
        BY <1>0, <3>1, <3>4 DEF LlmTypeOK, Rows
      <4>3. /\ book'.peak = (IF limit > book.peak THEN limit ELSE book.peak)
            /\ book'.overrun = book.overrun /\ book'.billed = book.billed
        BY <1>0, <3>1, <3>4 DEF LlmTypeOK
      <4>4. limit <= book'.peak /\ book.peak <= book'.peak /\ book'.peak \in Nat
        BY <3>2, <4>1, <4>3
      <4> QED BY <1>0, <3>2, <3>4, <4>1, <4>2, <4>3, <4>4 DEF Balanced
    <3> QED BY <3>3, <3>4
  <2>3. CASE \/ Midnight \/ UNCHANGED llmVars
             \/ \E p \in Processes : SlotsExpire(p) \/ Restart(p) \/ CheckState(p) \/ BlockExpires(p)
    <3>1. UNCHANGED <<budget, book>>
      BY <2>3 DEF CheckState, BlockExpires, SlotsExpire, Restart, Midnight, llmVars
    <3> QED BY <1>0, <3>1 DEF Balanced
  <2> QED BY <2>1, <2>2, <2>3 DEF LlmNext
<1> QED BY <1>1, <1>2, <1>3, <1>4 DEF Money

(* It is in order at the start: there is no row and nobody has called.     *)
LEMMA MoneyAtStart == LlmInit => Money
<1> SUFFICES ASSUME LlmInit PROVE Money
  OBVIOUS
<1>1. LlmTypeOK
  BY LlmTypesAtStart
<1>2. ~budget.present /\ \A c \in Calls : call[c].at # "reserved"
  BY DEF LlmInit, NoRow, Resting
<1> QED BY <1>1, <1>2 DEF Money, OneOpen, Drafts, Balanced

(***************************************************************************)
(* What the row says was spent is the cost of the usage rows written since *)
(* its reset (record_usage_entry).                                         *)
(***************************************************************************)
THEOREM UsageIsSpent == LlmSpec => []SpendMatchesUsage
<1>1. Money => SpendMatchesUsage
  BY DEF Money, Balanced, SpendMatchesUsage
<1> QED BY <1>1, MoneyAtStart, MoneyKept, PTL DEF LlmSpec

(***************************************************************************)
(* Spend and reservations pass the highest limit of the month by no more   *)
(* than the calls cost beyond their estimates (check_and_reserve_budget).  *)
(***************************************************************************)
THEOREM LimitHolds == LlmSpec => []SpendWithinLimit
<1>1. Money => SpendWithinLimit
  BY DEF Money, Balanced, SpendWithinLimit
<1> QED BY <1>1, MoneyAtStart, MoneyKept, PTL DEF LlmSpec

-----------------------------------------------------------------------------
(***************************************************************************)
(* The slots.  Until the counter of a process expires under a call, it is  *)
(* no less than the calls of the process that hold a slot: failed calls    *)
(* leave it too high, a restart takes its calls with it.                   *)
(***************************************************************************)
SlotsCounted ==
  \A p \in Processes : \/ slots[p].lapsed
                       \/ /\ Cardinality(Holders(p)) <= slots[p].count
                          /\ Cardinality(Holders(p)) <= SlotCap

(* Sets of calls are finite: one call more or less is one more or less.    *)
LEMMA CallSets ==
  ASSUME NEW S \in SUBSET Calls, NEW c \in Calls
  PROVE  /\ Cardinality(S) \in Nat /\ Cardinality({}) = 0
         /\ c \notin S => Cardinality(S \cup {c}) = Cardinality(S) + 1
         /\ c \in S => Cardinality(S \ {c}) = Cardinality(S) - 1 /\ Cardinality(S) >= 1
         /\ Cardinality(S) <= Cardinality(Calls)
<1>1. IsFiniteSet(Calls)
  BY LlmConstants
<1>2. IsFiniteSet(S) /\ Cardinality(S) <= Cardinality(Calls)
  BY <1>1, FS_Subset
<1>3. Cardinality(S) \in Nat
  BY <1>2, FS_CardinalityType
<1>4. c \notin S => Cardinality(S \cup {c}) = Cardinality(S) + 1
  BY <1>2, FS_AddElement
<1>5. c \in S => Cardinality(S \ {c}) = Cardinality(S) - 1
  BY <1>2, FS_RemoveElement
<1>6. c \in S => Cardinality(S) # 0
  BY <1>2, FS_EmptySet
<1>7. Cardinality({}) = 0
  BY FS_EmptySet
<1> QED BY <1>2, <1>3, <1>4, <1>5, <1>6, <1>7

(* Who holds a slot of a process after a step of a call, and how the       *)
(* counter has moved.                                                      *)
LEMMA CountingSteps ==
  ASSUME LlmTypeOK, NEW c \in Calls, CallStep(c), NEW p \in Processes
  PROVE  /\ slots'[p].lapsed = slots[p].lapsed
         /\ \/ /\ c \notin Holders(p) /\ Holders(p)' = Holders(p) \cup {c}
               /\ slots[p].count < SlotCap /\ slots'[p].count = slots[p].count + 1
            \/ /\ c \in Holders(p) /\ Holders(p)' = Holders(p) \ {c}
               /\ \/ slots'[p].count = slots[p].count
                  \/ slots'[p].count = IF slots[p].count > 0 THEN slots[p].count - 1 ELSE 0
            \/ Holders(p)' = Holders(p) /\ slots'[p].count = slots[p].count
<1>1. call \in [Calls -> CallStates] /\ slots \in [Processes -> Counters] /\ ProcessOf[c] \in Processes
  BY LlmConstants DEF LlmTypeOK, CallStates
<1> DEFINE kept == UNCHANGED slots \/ slots' = Released(ProcessOf[c])
<1>2. kept => /\ slots'[p].lapsed = slots[p].lapsed
              /\ \/ slots'[p].count = slots[p].count
                 \/ slots'[p].count = IF slots[p].count > 0 THEN slots[p].count - 1 ELSE 0
              /\ ProcessOf[c] # p => slots'[p].count = slots[p].count
  BY <1>1, ReleasedTypes
<1>3. ASSUME \A d \in Calls : d # c => call'[d] = call[d]
      PROVE  /\ ProcessOf[c] # p => Holders(p)' = Holders(p)
             /\ HasSlot(c) /\ HasSlot(c)' => Holders(p)' = Holders(p)
             /\ ~HasSlot(c) /\ ~HasSlot(c)' => Holders(p)' = Holders(p)
             /\ ProcessOf[c] = p /\ ~HasSlot(c) /\ HasSlot(c)'
                  => c \notin Holders(p) /\ Holders(p)' = Holders(p) \cup {c}
             /\ ProcessOf[c] = p /\ HasSlot(c) /\ ~HasSlot(c)'
                  => c \in Holders(p) /\ Holders(p)' = Holders(p) \ {c}
  BY <1>3 DEF Holders, HasSlot
<1>4. CASE PassQuota(c) \/ FindNoRow(c)
  <2>1. UNCHANGED slots /\ \A d \in Calls : d # c => call'[d] = call[d]
    BY <1>1, <1>4 DEF PassQuota, FindNoRow
  <2>2. HasSlot(c)' <=> HasSlot(c)
    BY <1>1, <1>4 DEF PassQuota, FindNoRow, HasSlot, CallStates
  <2> QED BY <1>3, <2>1, <2>2
<1>5. CASE Acquire(c)
  <2>1. ~HasSlot(c)
    BY <1>5 DEF Acquire, HasSlot
  <2>2. slots'[p].lapsed = slots[p].lapsed /\ (ProcessOf[c] # p => slots'[p] = slots[p])
    BY <1>5, AcquiredTypes
  <2>3. CASE /\ slots[ProcessOf[c]].count < SlotCap
             /\ slots'[ProcessOf[c]].count = slots[ProcessOf[c]].count + 1
             /\ call' = [call EXCEPT ![c].at = "slotted"]
    <3>1. HasSlot(c)' /\ \A d \in Calls : d # c => call'[d] = call[d]
      BY <1>1, <2>3 DEF HasSlot, CallStates
    <3> QED BY <1>3, <2>1, <2>2, <2>3, <3>1
  <2>4. CASE /\ slots'[ProcessOf[c]].count = slots[ProcessOf[c]].count
             /\ call' = [call EXCEPT ![c] = Resting]
    <3>1. ~HasSlot(c)' /\ \A d \in Calls : d # c => call'[d] = call[d]
      BY <1>1, <2>4 DEF HasSlot, Resting
    <3> QED BY <1>3, <2>1, <2>2, <2>4, <3>1
  <2> QED BY <1>5, <2>3, <2>4, AcquiredTypes
<1>6. ASSUME HasSlot(c), kept, call' = [call EXCEPT ![c] = Resting]
      PROVE  /\ slots'[p].lapsed = slots[p].lapsed
             /\ \/ /\ c \in Holders(p) /\ Holders(p)' = Holders(p) \ {c}
                   /\ \/ slots'[p].count = slots[p].count
                      \/ slots'[p].count = IF slots[p].count > 0 THEN slots[p].count - 1 ELSE 0
                \/ Holders(p)' = Holders(p) /\ slots'[p].count = slots[p].count
  <2>1. ~HasSlot(c)' /\ \A d \in Calls : d # c => call'[d] = call[d]
    BY <1>1, <1>6 DEF HasSlot, Resting
  <2> QED BY <1>2, <1>3, <1>6, <2>1
<1>7. CASE InsertFails(c) \/ Record(c) \/ RecordFails(c) \/ CallFails(c)
             \/ CallFailsAndCommits(c) \/ TurnAway(c)
  <2>1. HasSlot(c) /\ kept /\ call' = [call EXCEPT ![c] = Resting]
    BY <1>7 DEF InsertFails, Record, RecordFails, CallFails, CallFailsAndCommits, TurnAway, HasSlot
  <2> QED BY <1>6, <2>1
<1>8. CASE Reserve(c)
  <2>1. HasSlot(c)
    BY <1>8 DEF Reserve, HasSlot
  <2>2. PICK est \in Estimates :
          \/ /\ call' = [call EXCEPT ![c].at = "reserved", ![c].est = est,
                                     ![c].draft = [Current EXCEPT !.pending = @ + est]]
             /\ UNCHANGED slots
          \/ call' = [call EXCEPT ![c] = Resting] /\ slots' = Released(ProcessOf[c])
    BY <1>8 DEF Reserve
  <2>3. CASE call' = [call EXCEPT ![c] = Resting] /\ slots' = Released(ProcessOf[c])
    BY <1>6, <2>1, <2>3
  <2>4. CASE /\ call' = [call EXCEPT ![c].at = "reserved", ![c].est = est,
                                     ![c].draft = [Current EXCEPT !.pending = @ + est]]
             /\ UNCHANGED slots
    <3>1. call'[c].at = "reserved" /\ \A d \in Calls : d # c => call'[d] = call[d]
      BY <1>1, <2>4 DEF CallStates
    <3>2. HasSlot(c)'
      BY <3>1 DEF HasSlot
    <3> QED BY <1>3, <2>1, <2>4, <3>1, <3>2
  <2> QED BY <2>2, <2>3, <2>4
<1> QED BY <1>4, <1>5, <1>7, <1>8 DEF CallStep

(* Every step keeps the slots counted.                                     *)
LEMMA SlotsKept ==
  ASSUME LlmTypeOK, SlotsCounted, [LlmNext]_llmVars PROVE SlotsCounted'
<1> SUFFICES ASSUME NEW p \in Processes, ~slots'[p].lapsed
             PROVE  /\ Cardinality(Holders(p)') <= slots'[p].count
                    /\ Cardinality(Holders(p)') <= SlotCap
  BY DEF SlotsCounted
<1>1. /\ Holders(p) \in SUBSET Calls /\ SlotCap \in Nat /\ slots[p].count \in Nat
      /\ slots \in [Processes -> Counters] /\ Cardinality({}) = 0
  BY LlmConstants, FS_EmptySet DEF Holders, LlmTypeOK, Counters
<1>2. slots[p].lapsed \/ (Cardinality(Holders(p)) <= slots[p].count /\ Cardinality(Holders(p)) <= SlotCap)
  BY DEF SlotsCounted
<1>3. ASSUME NEW c \in Calls, CallStep(c)
      PROVE  /\ Cardinality(Holders(p)') <= slots'[p].count
             /\ Cardinality(Holders(p)') <= SlotCap
  <2>1. /\ Cardinality(Holders(p)) \in Nat
        /\ c \notin Holders(p) => Cardinality(Holders(p) \cup {c}) = Cardinality(Holders(p)) + 1
        /\ c \in Holders(p) => /\ Cardinality(Holders(p) \ {c}) = Cardinality(Holders(p)) - 1
                               /\ Cardinality(Holders(p)) >= 1
    BY <1>1, CallSets
  <2>2. Cardinality(Holders(p)) <= slots[p].count /\ Cardinality(Holders(p)) <= SlotCap
    BY <1>2, <1>3, CountingSteps
  <2>3. CASE /\ c \notin Holders(p) /\ Holders(p)' = Holders(p) \cup {c}
             /\ slots[p].count < SlotCap /\ slots'[p].count = slots[p].count + 1
    BY <1>1, <2>1, <2>2, <2>3
  <2>4. CASE /\ c \in Holders(p) /\ Holders(p)' = Holders(p) \ {c}
             /\ \/ slots'[p].count = slots[p].count
                \/ slots'[p].count = IF slots[p].count > 0 THEN slots[p].count - 1 ELSE 0
    <3>1. slots'[p].count >= slots[p].count - 1 /\ slots'[p].count \in Nat
      BY <1>1, <2>4
    <3> QED BY <1>1, <2>1, <2>2, <2>4, <3>1
  <2>5. CASE Holders(p)' = Holders(p) /\ slots'[p].count = slots[p].count
    BY <2>2, <2>5
  <2> QED BY <1>3, <2>3, <2>4, <2>5, CountingSteps
<1>4. ASSUME NEW q \in Processes, SlotsExpire(q)
      PROVE  /\ Cardinality(Holders(p)') <= slots'[p].count
             /\ Cardinality(Holders(p)') <= SlotCap
  <2>1. Holders(p)' = Holders(p)
    BY <1>4 DEF SlotsExpire, Holders, HasSlot
  <2>2. CASE q = p
    <3>1. slots'[p] = [count |-> 0, leased |-> FALSE, lapsed |-> slots[p].lapsed \/ Holders(p) # {}]
      BY <1>1, <1>4, <2>2 DEF SlotsExpire
    <3>2. PICK gone \in BOOLEAN : gone = (slots[p].lapsed \/ Holders(p) # {})
      BY <1>1 DEF Counters
    <3>3. slots'[p] = [count |-> 0, leased |-> FALSE, lapsed |-> gone]
      BY <3>1, <3>2
    <3>4. slots'[p].count = 0 /\ slots'[p].lapsed = gone
      BY <3>3
    <3>5. ~gone
      BY <3>4
    <3>6. Holders(p) = {}
      BY <3>2, <3>5
    <3> QED BY <1>1, <2>1, <3>4, <3>6
  <2>3. CASE q # p
    <3>1. slots'[p] = slots[p]
      BY <1>1, <1>4, <2>3 DEF SlotsExpire
    <3> QED BY <1>2, <2>1, <3>1
  <2> QED BY <2>2, <2>3
<1>5. ASSUME NEW q \in Processes, Restart(q)
      PROVE  /\ Cardinality(Holders(p)') <= slots'[p].count
             /\ Cardinality(Holders(p)') <= SlotCap
  <2>1. call' = [c \in Calls |-> IF ProcessOf[c] = q THEN Resting ELSE call[c]]
    BY <1>5 DEF Restart
  <2>2. CASE q = p
    <3>1. slots'[p].count = 0
      BY <1>1, <1>5, <2>2 DEF Restart, Unused
    <3>2. Holders(p)' = {}
      BY <2>1, <2>2 DEF Holders, HasSlot, Resting
    <3> QED BY <1>1, <3>1, <3>2
  <2>3. CASE q # p
    <3>1. slots'[p] = slots[p]
      BY <1>1, <1>5, <2>3 DEF Restart
    <3>2. \A c \in Calls : ProcessOf[c] = p => call'[c] = call[c]
      BY <2>1, <2>3
    <3>3. Holders(p)' = Holders(p)
      BY <3>2 DEF Holders, HasSlot
    <3> QED BY <1>2, <3>1, <3>3
  <2> QED BY <2>2, <2>3
<1>6. CASE \/ SetLimit \/ Midnight \/ UNCHANGED llmVars
           \/ \E q \in Processes : CheckState(q) \/ BlockExpires(q)
  <2>1. UNCHANGED slots /\ \A c \in Calls : call'[c].at = call[c].at
    <3>1. CASE Midnight
      BY <3>1 DEF Midnight, LlmTypeOK
    <3>2. CASE SetLimit \/ UNCHANGED llmVars \/ \E q \in Processes : CheckState(q) \/ BlockExpires(q)
      BY <3>2 DEF SetLimit, CheckState, BlockExpires, llmVars
    <3> QED BY <1>6, <3>1, <3>2
  <2>2. Holders(p)' = Holders(p)
    BY <2>1 DEF Holders, HasSlot
  <2> QED BY <1>2, <2>1, <2>2
<1> QED BY <1>3, <1>4, <1>5, <1>6 DEF LlmNext

(***************************************************************************)
(* As long as the counter of a process does not expire under its calls, no *)
(* more of them than the cap are in flight, with and without a cache,      *)
(* whatever fails or restarts (acquire_fair_use_inflight_slot).  Nothing   *)
(* bounds the calls of a tenant over several processes.                    *)
(***************************************************************************)
THEOREM SlotsAreHeld == LlmSpec => []SlotsHeld
<1>1. LlmInit => SlotsCounted
  <2> SUFFICES ASSUME LlmInit, NEW p \in Processes
               PROVE  /\ Cardinality(Holders(p)) <= slots[p].count
                      /\ Cardinality(Holders(p)) <= SlotCap
    BY DEF SlotsCounted
  <2>1. Holders(p) = {} /\ slots[p].count = 0
    BY DEF LlmInit, Holders, HasSlot, Resting, Unused
  <2>2. Cardinality({}) = 0 /\ SlotCap \in Nat
    BY FS_EmptySet, LlmConstants
  <2> QED BY <2>1, <2>2
<1>2. LlmTypeOK /\ SlotsCounted /\ [LlmNext]_llmVars => SlotsCounted'
  BY SlotsKept
<1>3. SlotsCounted => SlotsHeld
  BY DEF SlotsCounted, SlotsHeld
<1> QED BY <1>1, <1>2, <1>3, LlmTypeCorrect, PTL DEF LlmSpec

-----------------------------------------------------------------------------
(***************************************************************************)
(* The quota.  A call that began today may still write its usage row, so   *)
(* the calls under way are counted with the rows there are.                *)
(***************************************************************************)
Dated == {c \in Calls : call[c].dated}
QuotaCounted == today + Cardinality(Dated) < DailyLimit + Cardinality(Calls)

(* Every step keeps the quota counted.                                     *)
LEMMA QuotaKept ==
  ASSUME LlmTypeOK, QuotaCounted, [LlmNext]_llmVars PROVE QuotaCounted'
<1>1. /\ Dated \in SUBSET Calls /\ Dated' \in SUBSET Calls
      /\ today \in Nat /\ DailyLimit \in Nat \ {0}
      /\ call \in [Calls -> CallStates]
  BY LlmConstants DEF Dated, LlmTypeOK, CallStates
<1>2. /\ Cardinality(Dated) \in Nat /\ Cardinality(Dated') \in Nat /\ Cardinality(Calls) \in Nat
      /\ Cardinality(Dated') <= Cardinality(Calls)
  <2>1. IsFiniteSet(Calls)
    BY LlmConstants
  <2> QED BY <1>1, <2>1, FS_Subset, FS_CardinalityType
<1>3. ASSUME NEW c \in Calls, CallStep(c) PROVE QuotaCounted'
  <2>1. CASE PassQuota(c)
    <3>1. today' < DailyLimit /\ today' = today
      BY <2>1 DEF PassQuota, WithinQuota
    <3> QED BY <1>1, <1>2, <3>1 DEF QuotaCounted
  <2>2. ASSUME call' = [call EXCEPT ![c] = Resting],
               today' = today \/ (today' = today + 1 /\ c \in Dated)
        PROVE  QuotaCounted'
    <3>1. Dated' = Dated \ {c}
      BY <1>1, <2>2 DEF Dated, Resting
    <3>2. c \in Dated => Cardinality(Dated') = Cardinality(Dated) - 1
      BY <1>1, <3>1, CallSets
    <3>3. c \notin Dated => Dated' = Dated
      BY <3>1
    <3> QED BY <1>1, <1>2, <2>2, <3>2, <3>3 DEF QuotaCounted
  <2>3. CASE Record(c)
    <3>1. /\ call' = [call EXCEPT ![c] = Resting]
          /\ today' = today + (IF call[c].dated THEN 1 ELSE 0)
      BY <2>3 DEF Record
    <3>2. today' = today \/ (today' = today + 1 /\ c \in Dated)
      BY <1>1, <3>1 DEF Dated
    <3> QED BY <2>2, <3>1, <3>2
  <2>4. CASE InsertFails(c) \/ RecordFails(c) \/ CallFails(c)
               \/ CallFailsAndCommits(c) \/ TurnAway(c)
    BY <2>2, <2>4 DEF InsertFails, RecordFails, CallFails, CallFailsAndCommits, TurnAway
  <2>5. ASSUME UNCHANGED today, \A d \in Calls : call'[d].dated <=> call[d].dated
        PROVE  QuotaCounted'
    <3>1. Dated' = Dated
      BY <2>5 DEF Dated
    <3> QED BY <2>5, <3>1 DEF QuotaCounted
  <2>6. CASE Acquire(c)
    <3>1. UNCHANGED today /\ \/ call' = [call EXCEPT ![c].at = "slotted"]
                             \/ call' = [call EXCEPT ![c] = Resting]
      BY <2>6 DEF Acquire
    <3>2. CASE call' = [call EXCEPT ![c].at = "slotted"]
      BY <1>1, <2>5, <3>1, <3>2 DEF CallStates
    <3> QED BY <2>2, <3>1, <3>2
  <2>7. CASE FindNoRow(c)
    BY <1>1, <2>5, <2>7 DEF FindNoRow, CallStates
  <2>8. CASE Reserve(c)
    <3>1. PICK est \in Estimates :
            \/ call' = [call EXCEPT ![c].at = "reserved", ![c].est = est,
                                    ![c].draft = [Current EXCEPT !.pending = @ + est]]
            \/ call' = [call EXCEPT ![c] = Resting]
      BY <2>8 DEF Reserve
    <3>2. UNCHANGED today
      BY <2>8 DEF Reserve
    <3>3. CASE call' = [call EXCEPT ![c].at = "reserved", ![c].est = est,
                                    ![c].draft = [Current EXCEPT !.pending = @ + est]]
      BY <1>1, <2>5, <3>2, <3>3 DEF CallStates
    <3> QED BY <2>2, <3>1, <3>2, <3>3
  <2> QED BY <1>3, <2>1, <2>3, <2>4, <2>6, <2>7, <2>8 DEF CallStep
<1>4. CASE Midnight
  <2>1. Dated' = {} /\ today' = 0
    BY <1>1, <1>4 DEF Midnight, Dated, CallStates
  <2>2. Cardinality({}) = 0
    BY FS_EmptySet
  <2> QED BY <1>1, <1>2, <2>1, <2>2 DEF QuotaCounted
<1>5. CASE \/ SetLimit \/ UNCHANGED llmVars
           \/ \E p \in Processes : SlotsExpire(p) \/ CheckState(p) \/ BlockExpires(p)
  <2>1. UNCHANGED <<call, today>>
    BY <1>5 DEF SetLimit, CheckState, BlockExpires, SlotsExpire, llmVars
  <2> QED BY <2>1 DEF QuotaCounted, Dated
<1>6. ASSUME NEW p \in Processes, Restart(p) PROVE QuotaCounted'
  <2>1. Dated' \subseteq Dated /\ today' = today
    BY <1>1, <1>6 DEF Restart, Dated, Resting
  <2>2. IsFiniteSet(Dated)
    BY <1>1, LlmConstants, FS_Subset
  <2>3. Cardinality(Dated') <= Cardinality(Dated)
    BY <2>1, <2>2, FS_Subset
  <2> QED BY <1>1, <1>2, <2>1, <2>3 DEF QuotaCounted
<1> QED BY <1>3, <1>4, <1>5, <1>6 DEF LlmNext

(***************************************************************************)
(* The daily quota is passed by fewer usage rows than the tenant has calls *)
(* under way at a time (enforce_daily_analysis_limit).                     *)
(***************************************************************************)
THEOREM QuotaIsBounded == LlmSpec => []QuotaOvershoot
<1>1. /\ Cardinality(Calls) \in Nat /\ DailyLimit \in Nat \ {0} /\ Cardinality({}) = 0
  BY LlmConstants, FS_CardinalityType, FS_EmptySet
<1>2. LlmInit => QuotaCounted
  <2> SUFFICES ASSUME LlmInit PROVE QuotaCounted
    OBVIOUS
  <2>1. Dated = {} /\ today = 0
    BY DEF LlmInit, Dated, Resting
  <2> QED BY <1>1, <2>1 DEF QuotaCounted
<1>3. LlmTypeOK /\ QuotaCounted /\ [LlmNext]_llmVars => QuotaCounted'
  BY QuotaKept
<1>4. LlmTypeOK /\ QuotaCounted => QuotaOvershoot
  <2> SUFFICES ASSUME LlmTypeOK, QuotaCounted PROVE QuotaOvershoot
    OBVIOUS
  <2>1. IsFiniteSet(Dated) /\ today \in Nat
    BY LlmConstants, FS_Subset DEF Dated, LlmTypeOK
  <2>2. Cardinality(Dated) \in Nat
    BY <2>1, FS_CardinalityType
  <2> QED BY <1>1, <2>1, <2>2 DEF QuotaCounted, QuotaOvershoot
<1> QED BY <1>2, <1>3, <1>4, LlmTypeCorrect, PTL DEF LlmSpec

-----------------------------------------------------------------------------
(***************************************************************************)
(* The cost ledger.                                                        *)
(*                                                                         *)
(* While an attribution is under way, what it has read of a record that    *)
(* nothing has disturbed is still true, or the record has been deleted     *)
(* and what it writes joins nothing (FreshFits); so at its commit a record *)
(* that was fresh to it has exactly its rows, of the cost it has then.     *)
(***************************************************************************)

(* The fields of rows and sessions.                                        *)
Parts == {"at", "window", "backfill", "written", "copy", "old", "fresh"}

Shaped ==
  /\ record = [r \in Records |-> record[r]] /\ groups = [r \in Records |-> groups[r]]
  /\ session = [s \in Sessions |-> session[s]]
  /\ \A r \in Records : DOMAIN record[r] = {"id", "status", "cost"} /\ record[r].id \in Nat
  /\ \A s \in Sessions : DOMAIN session[s] = Parts
  /\ rules \in RuleSets

Ends == {"deleting", "inserted"}

(* What a session has in hand at each stage: no two have written the same  *)
(* record.                                                                 *)
SessionFits(t) ==
  /\ DOMAIN session[t].written \subseteq Records
  /\ session[t].window \subseteq Records
  /\ session[t].fresh \subseteq DOMAIN session[t].copy
  /\ DOMAIN session[t].copy \subseteq Records
  /\ session[t].at \notin {"selected"} \cup Ends => session[t].fresh = {}
  /\ session[t].at \in Ends => DOMAIN session[t].old = DOMAIN session[t].copy
  /\ \A s \in Sessions \ {t} : DOMAIN session[t].written \cap DOMAIN session[s].written = {}

Gone(t, r) == /\ record[r].id > session[t].copy[r].id /\ session[t].copy[r].id \in Nat
              /\ ~Live(r) /\ r \notin DOMAIN session[t].written

Same(t, r) ==
  /\ Joined(t, r)
  /\ session[t].at = "selected" => session[t].copy[r].cost = Visible(t, r).cost
  /\ session[t].at \in Ends =>
       /\ session[t].old[r] = groups[r]
       /\ \E rs \in RuleSets : session[t].copy[r].amount = Allotted(rs[r], Visible(t, r).cost)

FreshFits == \A t \in Sessions : \A r \in session[t].fresh : Gone(t, r) \/ Same(t, r)

CostInv == Shaped /\ (\A t \in Sessions : SessionFits(t)) /\ FreshFits /\ AllocationsFollowCost

-----------------------------------------------------------------------------
(* A row as a transaction sees it: its own cost where it has written one.  *)
LEMMA VisibleRow ==
  ASSUME Shaped, NEW s \in Sessions, NEW r \in Records
  PROVE  /\ DOMAIN Visible(s, r) = {"id", "status", "cost"}
         /\ Visible(s, r).id = record[r].id
         /\ Visible(s, r).cost = IF r \in DOMAIN session[s].written THEN session[s].written[r]
                                                                     ELSE record[r].cost
<1>1. DOMAIN record[r] = {"id", "status", "cost"}
  BY DEF Shaped
<1>2. CASE r \in DOMAIN session[s].written
  BY <1>1, <1>2 DEF Visible, Upserted
<1>3. CASE r \notin DOMAIN session[s].written
  BY <1>1, <1>3 DEF Visible
<1> QED BY <1>2, <1>3

(* An idle session has nothing in hand.                                    *)
LEMMA IdleShape ==
  /\ Idle.at = "idle" /\ Idle.window = {} /\ Idle.fresh = {}
  /\ DOMAIN Idle.written = {} /\ DOMAIN Idle.copy = {} /\ DOMAIN Idle.old = {}
  /\ DOMAIN Idle = Parts
BY DEF Idle, Nothing, Parts

(* Initially nothing is stored.                                            *)
LEMMA CostInitial == CostInit => CostInv
<1> SUFFICES ASSUME CostInit PROVE CostInv
  OBVIOUS
<1>1. Shaped
  BY IdleShape DEF CostInit, Shaped
<1>2. \A t \in Sessions : session[t] = Idle
  BY DEF CostInit
<1>3. \A t \in Sessions : SessionFits(t)
  BY <1>2, IdleShape DEF SessionFits, Ends
<1>4. FreshFits
  BY <1>2, IdleShape DEF FreshFits
<1>5. AllocationsFollowCost
  BY DEF CostInit, AllocationsFollowCost, Live
<1> QED BY <1>1, <1>3, <1>4, <1>5 DEF CostInv

-----------------------------------------------------------------------------
(* A session goes on by itself: the table stays as it is.                  *)
LEMMA SessionMoves ==
  ASSUME CostInv, NEW s \in Sessions, NEW me, DOMAIN me = Parts,
         session' = [session EXCEPT ![s] = me],
         UNCHANGED <<rules, record, groups, astray>>,
         DOMAIN me.written \subseteq Records, me.window \subseteq Records,
         me.fresh \subseteq DOMAIN me.copy, DOMAIN me.copy \subseteq Records,
         me.at \notin {"selected"} \cup Ends => me.fresh = {},
         me.at \in Ends => DOMAIN me.old = DOMAIN me.copy,
         \A t \in Sessions \ {s} : DOMAIN me.written \cap DOMAIN session[t].written = {},
         \A r \in me.fresh : Gone(s, r)' \/ Same(s, r)'
  PROVE  CostInv'
<1>1. Shaped /\ (\A t \in Sessions : SessionFits(t)) /\ FreshFits /\ AllocationsFollowCost
  BY DEF CostInv
<1>2. /\ session'[s] = me /\ \A t \in Sessions \ {s} : session'[t] = session[t]
      /\ session' = [t \in Sessions |-> session'[t]]
  BY <1>1 DEF Shaped
<1>4. Shaped'
  BY <1>1, <1>2 DEF Shaped
<1>5. ASSUME NEW t \in Sessions PROVE SessionFits(t)'
  <2>1. CASE t = s
    BY <1>2, <2>1 DEF SessionFits
  <2>2. CASE t # s
    <3>1. SessionFits(t) /\ session'[t] = session[t]
      BY <1>1, <1>2, <2>2
    <3>2. ASSUME NEW u \in Sessions \ {t}
          PROVE  DOMAIN session'[t].written \cap DOMAIN session'[u].written = {}
      <4>1. CASE u = s
        BY <1>2, <2>2, <3>1, <4>1
      <4>2. CASE u # s
        BY <1>2, <3>1, <4>2 DEF SessionFits
      <4> QED BY <4>1, <4>2
    <3> QED BY <3>1, <3>2 DEF SessionFits
  <2> QED BY <2>1, <2>2
<1>6. FreshFits'
  <2> SUFFICES ASSUME NEW t \in Sessions, NEW r \in session'[t].fresh
               PROVE  Gone(t, r)' \/ Same(t, r)'
    BY DEF FreshFits
  <2>1. CASE t = s
    BY <1>2, <2>1
  <2>2. CASE t # s
    <3>1. session'[t] = session[t]
      BY <1>2, <2>2
    <3>2. Gone(t, r) \/ Same(t, r)
      BY <1>1, <3>1 DEF FreshFits
    <3> QED BY <3>1, <3>2 DEF Gone, Same, Live, Joined, Visible
  <2> QED BY <2>1, <2>2
<1>7. AllocationsFollowCost'
  BY <1>1 DEF AllocationsFollowCost, Live
<1> QED BY <1>4, <1>5, <1>6, <1>7 DEF CostInv

(* A transaction starts, or ends, with nothing read and nothing written.   *)
LEMMA StartsFresh ==
  ASSUME CostInv, NEW s \in Sessions, NEW me, DOMAIN me = Parts,
         session' = [session EXCEPT ![s] = me],
         UNCHANGED <<rules, record, groups, astray>>,
         me.at \in {"idle", "ingesting", "applying"}, me.window \subseteq Records,
         me.fresh = {}, DOMAIN me.written = {}, DOMAIN me.copy = {}
  PROVE  CostInv'
<1>1. me.at \notin {"selected"} \cup Ends
  BY DEF Ends
<1>2. /\ DOMAIN me.written \subseteq Records /\ me.window \subseteq Records
      /\ me.fresh \subseteq DOMAIN me.copy /\ DOMAIN me.copy \subseteq Records
      /\ me.at \notin {"selected"} \cup Ends => me.fresh = {}
      /\ me.at \in Ends => DOMAIN me.old = DOMAIN me.copy
      /\ \A t \in Sessions \ {s} : DOMAIN me.written \cap DOMAIN session[t].written = {}
      /\ \A r \in me.fresh : Gone(s, r)' \/ Same(s, r)'
  BY <1>1
<1> QED BY <1>2, SessionMoves

(* The three ways a transaction starts.                                    *)
LEMMA StartKeeps ==
  ASSUME CostInv, NEW s \in Sessions,
         StartRecent(s) \/ StartBackfill(s) \/ StartApply(s)
  PROVE  CostInv'
<1>1. ASSUME NEW window \in SUBSET Records, NEW backfill, StartIngest(s, window, backfill)
      PROVE  CostInv'
  <2> DEFINE me == [Idle EXCEPT !.at = "ingesting", !.window = window, !.backfill = backfill]
  <2>1. /\ DOMAIN me = Parts /\ me.at = "ingesting" /\ me.window = window /\ me.fresh = {}
        /\ DOMAIN me.written = {} /\ DOMAIN me.copy = {}
    BY IdleShape DEF Parts
  <2>2. session' = [session EXCEPT ![s] = me] /\ UNCHANGED <<rules, record, groups, astray>>
    BY <1>1 DEF StartIngest
  <2> HIDE DEF me
  <2> QED BY <2>1, <2>2, StartsFresh
<1>2. \A a, b : Between(a, b) \in SUBSET Records
  BY DEF Between
<1>3. CASE StartRecent(s)
  BY <1>1, <1>2, <1>3 DEF StartRecent
<1>4. CASE StartBackfill(s)
  BY <1>1, <1>2, <1>4 DEF StartBackfill
<1>5. CASE StartApply(s)
  <2>1. PICK a, b : /\ session' = [session EXCEPT ![s] = [Idle EXCEPT !.at = "applying",
                                                         !.window = Between(a, b)]]
                    /\ UNCHANGED <<rules, record, groups, astray>>
    BY <1>5 DEF StartApply
  <2> DEFINE me == [Idle EXCEPT !.at = "applying", !.window = Between(a, b)]
  <2>2. /\ DOMAIN me = Parts /\ me.at = "applying" /\ me.window = Between(a, b) /\ me.fresh = {}
        /\ DOMAIN me.written = {} /\ DOMAIN me.copy = {}
    BY IdleShape DEF Parts
  <2>3. session' = [session EXCEPT ![s] = me]
    BY <2>1
  <2>4. me.window \subseteq Records /\ me.at \in {"idle", "ingesting", "applying"}
    BY <1>2, <2>2
  <2> HIDE DEF me
  <2> QED BY <2>1, <2>2, <2>3, <2>4, StartsFresh
<1> QED BY <1>3, <1>4, <1>5

(* An error, a time limit or a crash: nothing of the session remains.      *)
LEMMA AbortKeeps ==
  ASSUME CostInv, NEW s \in Sessions, Abort(s)
  PROVE  CostInv'
BY IdleShape, StartsFresh DEF Abort

(* A batch is stored once its row is free.                                 *)
LEMMA SaveKeeps ==
  ASSUME CostInv, NEW s \in Sessions, SaveBatch(s)
  PROVE  CostInv'
<1>1. Shaped /\ (\A t \in Sessions : SessionFits(t)) /\ FreshFits
  BY DEF CostInv
<1> DEFINE now == session[s]
<1>2. PICK r \in now.window \ DOMAIN now.written, c \in Costs :
        /\ RowFree(r, s)
        /\ session' = [session EXCEPT ![s].written =
                        [q \in DOMAIN now.written \cup {r} |-> IF q = r THEN c ELSE now.written[q]]]
  BY DEF SaveBatch
<1> DEFINE w == [q \in DOMAIN now.written \cup {r} |-> IF q = r THEN c ELSE now.written[q]]
<1>12. PICK me : me = [now EXCEPT !.written = w]
  OBVIOUS
<1>3. now.at = "ingesting" /\ UNCHANGED <<rules, record, groups, astray>>
  BY DEF SaveBatch
<1>4. DOMAIN w = DOMAIN now.written \cup {r}
  OBVIOUS
<1>5. session' = [session EXCEPT ![s] = me]
  BY <1>2, <1>12
<1>6. DOMAIN now = Parts
  BY <1>1 DEF Shaped
<1> HIDE DEF w
<1>7. /\ DOMAIN me = Parts /\ me.at = now.at /\ me.window = now.window /\ me.written = w
      /\ me.copy = now.copy /\ me.old = now.old /\ me.fresh = now.fresh
  BY <1>6, <1>12 DEF Parts
<1>8. /\ now.fresh = {} /\ now.window \subseteq Records /\ DOMAIN now.written \subseteq Records
      /\ DOMAIN now.copy \subseteq Records /\ now.at \notin Ends
      /\ \A t \in Sessions \ {s} : DOMAIN now.written \cap DOMAIN session[t].written = {}
  BY <1>1, <1>3 DEF SessionFits, Ends
<1>9. \A t \in Sessions \ {s} : r \notin DOMAIN session[t].written
  BY <1>2 DEF RowFree
<1> HIDE DEF now
<1>10. /\ DOMAIN me.written \subseteq Records /\ me.window \subseteq Records
       /\ me.fresh \subseteq DOMAIN me.copy /\ DOMAIN me.copy \subseteq Records
       /\ me.at \notin {"selected"} \cup Ends => me.fresh = {}
       /\ me.at \in Ends => DOMAIN me.old = DOMAIN me.copy
       /\ \A t \in Sessions \ {s} : DOMAIN me.written \cap DOMAIN session[t].written = {}
       /\ \A q \in me.fresh : Gone(s, q)' \/ Same(s, q)'
  BY <1>2, <1>4, <1>7, <1>8, <1>9
<1>11. DOMAIN me = Parts /\ UNCHANGED <<rules, record, groups, astray>>
  BY <1>3, <1>7
<1> QED BY <1>5, <1>10, <1>11, SessionMoves

(* The records an attribution reads are fresh to it.                       *)
LEMMA SelectKeeps ==
  ASSUME CostInv, NEW s \in Sessions, SelectRecords(s)
  PROVE  CostInv'
<1>1. Shaped /\ SessionFits(s) /\ DOMAIN session[s] = Parts
  BY DEF CostInv, Shaped
<1> DEFINE found == {r \in Span(s) : Visible(s, r).status # "ABSENT"}
<1>2. PICK me : me = [session[s] EXCEPT !.at = IF found = {} THEN "done" ELSE "selected",
                                        !.window = {}, !.backfill = FALSE,
                                        !.copy = [r \in found |-> Visible(s, r)],
                                        !.fresh = found]
  OBVIOUS
<1>3. session' = [session EXCEPT ![s] = me]
  BY <1>2 DEF SelectRecords
<1>4. UNCHANGED <<rules, record, groups, astray>>
  BY DEF SelectRecords
<1>5. found \subseteq Records
  BY <1>1 DEF SessionFits, Span, Between
<1>6. /\ DOMAIN me = Parts /\ me.at = (IF found = {} THEN "done" ELSE "selected")
      /\ me.window = {} /\ me.written = session[s].written
      /\ me.copy = [r \in found |-> Visible(s, r)] /\ me.fresh = found
  BY <1>1, <1>2 DEF Parts
<1>7. session'[s] = me
  BY <1>1, <1>3 DEF Shaped
<1>8. ASSUME NEW r \in found PROVE Same(s, r)'
  <2>1. /\ session'[s].copy[r] = Visible(s, r) /\ r \in Records
        /\ session'[s].written = session[s].written
    BY <1>5, <1>6, <1>7
  <2>2. Visible(s, r)' = Visible(s, r)
    BY <1>4, <2>1 DEF Visible
  <2>3. Joined(s, r)'
    BY <1>1, <1>4, <2>1, VisibleRow DEF Joined
  <2>4. session'[s].at \notin Ends
    BY <1>6, <1>7 DEF Ends
  <2> QED BY <2>1, <2>2, <2>3, <2>4 DEF Same
<1> HIDE DEF found
<1>9. /\ DOMAIN me.written \subseteq Records /\ me.window \subseteq Records
      /\ me.fresh \subseteq DOMAIN me.copy /\ DOMAIN me.copy \subseteq Records
      /\ \A t \in Sessions \ {s} : DOMAIN me.written \cap DOMAIN session[t].written = {}
  BY <1>1, <1>5, <1>6 DEF SessionFits
<1>10. me.at \in {"done", "selected"} /\ (me.at = "done" => me.fresh = {})
  BY <1>6
<1>11. /\ me.at \notin {"selected"} \cup Ends => me.fresh = {}
       /\ me.at \in Ends => DOMAIN me.old = DOMAIN me.copy
  BY <1>10 DEF Ends
<1>12. \A r \in me.fresh : Gone(s, r)' \/ Same(s, r)'
  BY <1>6, <1>8
<1>13. DOMAIN me = Parts
  BY <1>6
<1> QED BY <1>3, <1>4, <1>9, <1>11, <1>12, <1>13, SessionMoves

(* The rules are read, and the rows to delete are those that join now.     *)
LEMMA StartDeleteKeeps ==
  ASSUME CostInv, NEW s \in Sessions, StartDelete(s)
  PROVE  CostInv'
<1>1. Shaped /\ SessionFits(s) /\ FreshFits /\ DOMAIN session[s] = Parts
  BY DEF CostInv, Shaped
<1> DEFINE now == session[s]
           copied == [r \in DOMAIN now.copy |->
                        [id |-> now.copy[r].id, amount |-> Allotted(rules[r], now.copy[r].cost)]]
           doomed == [r \in DOMAIN now.copy |-> OldGroups(s, r)]
<1>2. PICK me : me = [session[s] EXCEPT !.at = "deleting", !.copy = copied, !.old = doomed]
  OBVIOUS
<1>3. session' = [session EXCEPT ![s] = me]
  BY <1>2 DEF StartDelete
<1>4. UNCHANGED <<rules, record, groups, astray>> /\ now.at = "selected"
  BY DEF StartDelete
<1>5. /\ DOMAIN me = Parts /\ me.at = "deleting"
      /\ me.window = now.window /\ me.written = now.written
      /\ me.copy = copied /\ me.old = doomed /\ me.fresh = now.fresh
  BY <1>1, <1>2 DEF Parts
<1>6. session'[s] = me
  BY <1>1, <1>3 DEF Shaped
<1>7. ASSUME NEW r \in now.fresh PROVE Gone(s, r)' \/ Same(s, r)'
  <2>1. r \in DOMAIN now.copy
    BY <1>1 DEF SessionFits
  <2>2. /\ session'[s].copy[r].id = now.copy[r].id
        /\ session'[s].copy[r].amount = Allotted(rules[r], now.copy[r].cost)
        /\ session'[s].old[r] = OldGroups(s, r)
        /\ session'[s].written = now.written /\ session'[s].at = "deleting"
    BY <1>5, <1>6, <2>1
  <2>3. Visible(s, r)' = Visible(s, r)
    BY <1>4, <2>2 DEF Visible
  <2>4. CASE Gone(s, r)
    BY <1>4, <2>2, <2>4 DEF Gone, Live
  <2>5. CASE Same(s, r)
    <3>1. Joined(s, r) /\ now.copy[r].cost = Visible(s, r).cost
      BY <1>4, <2>5 DEF Same
    <3>2. OldGroups(s, r) = groups[r]
      BY <3>1 DEF OldGroups
    <3>3. Joined(s, r)'
      BY <1>4, <2>2, <3>1 DEF Joined
    <3>4. session'[s].old[r] = groups'[r]
      BY <1>4, <2>2, <3>2
    <3>5. \E rs \in RuleSets : session'[s].copy[r].amount = Allotted(rs[r], Visible(s, r)'.cost)
      <4>1. rules \in RuleSets
        BY <1>1 DEF Shaped
      <4> QED BY <2>2, <2>3, <3>1, <4>1
    <3> QED BY <2>2, <3>3, <3>4, <3>5 DEF Same
  <2> QED BY <1>1, <2>4, <2>5 DEF FreshFits
<1>8. /\ DOMAIN copied = DOMAIN now.copy /\ DOMAIN doomed = DOMAIN now.copy
  OBVIOUS
<1> HIDE DEF copied, doomed
<1>9. /\ DOMAIN me.written \subseteq Records /\ me.window \subseteq Records
      /\ me.fresh \subseteq DOMAIN me.copy /\ DOMAIN me.copy \subseteq Records
      /\ DOMAIN me.old = DOMAIN me.copy
      /\ \A t \in Sessions \ {s} : DOMAIN me.written \cap DOMAIN session[t].written = {}
  BY <1>1, <1>5, <1>8 DEF SessionFits
<1>10. /\ me.at \notin {"selected"} \cup Ends => me.fresh = {}
       /\ me.at \in Ends => DOMAIN me.old = DOMAIN me.copy
  BY <1>5, <1>9 DEF Ends
<1>11. \A r \in me.fresh : Gone(s, r)' \/ Same(s, r)'
  BY <1>5, <1>7
<1>12. DOMAIN me = Parts
  BY <1>5
<1> QED BY <1>3, <1>4, <1>9, <1>10, <1>11, <1>12, SessionMoves

(* The old rows are gone and the new ones are there.                       *)
LEMMA FinishDeleteKeeps ==
  ASSUME CostInv, NEW s \in Sessions, FinishDelete(s)
  PROVE  CostInv'
<1>1. Shaped /\ SessionFits(s) /\ FreshFits /\ DOMAIN session[s] = Parts
  BY DEF CostInv, Shaped
<1> DEFINE now == session[s]
<1>2. PICK me : me = [session[s] EXCEPT !.at = "inserted"]
  OBVIOUS
<1>3. session' = [session EXCEPT ![s] = me]
  BY <1>2 DEF FinishDelete
<1>4. UNCHANGED <<rules, record, groups, astray>> /\ now.at = "deleting"
  BY DEF FinishDelete
<1>5. /\ DOMAIN me = Parts /\ me.at = "inserted"
      /\ me.window = now.window /\ me.written = now.written
      /\ me.copy = now.copy /\ me.old = now.old /\ me.fresh = now.fresh
  BY <1>1, <1>2 DEF Parts
<1>6. session'[s] = me
  BY <1>1, <1>3 DEF Shaped
<1>7. ASSUME NEW r \in now.fresh PROVE Gone(s, r)' \/ Same(s, r)'
  <2>1. Visible(s, r)' = Visible(s, r)
    BY <1>4, <1>5, <1>6 DEF Visible
  <2>2. CASE Gone(s, r)
    BY <1>4, <1>5, <1>6, <2>2 DEF Gone, Live
  <2>3. CASE Same(s, r)
    BY <1>4, <1>5, <1>6, <2>1, <2>3 DEF Same, Joined, Ends
  <2> QED BY <1>1, <2>2, <2>3 DEF FreshFits
<1>9. /\ DOMAIN me.written \subseteq Records /\ me.window \subseteq Records
      /\ me.fresh \subseteq DOMAIN me.copy /\ DOMAIN me.copy \subseteq Records
      /\ DOMAIN me.old = DOMAIN me.copy
      /\ \A t \in Sessions \ {s} : DOMAIN me.written \cap DOMAIN session[t].written = {}
  BY <1>1, <1>4, <1>5 DEF SessionFits, Ends
<1>10. /\ me.at \notin {"selected"} \cup Ends => me.fresh = {}
       /\ me.at \in Ends => DOMAIN me.old = DOMAIN me.copy
  BY <1>5, <1>9 DEF Ends
<1>11. \A r \in me.fresh : Gone(s, r)' \/ Same(s, r)'
  BY <1>5, <1>7
<1>12. DOMAIN me = Parts
  BY <1>5
<1> QED BY <1>3, <1>4, <1>9, <1>10, <1>11, <1>12, SessionMoves

-----------------------------------------------------------------------------
(* What a step of the table leaves to a session that goes on: a record     *)
(* that is deleted stays deleted under the identity that was read.         *)
LEMMA OthersSee ==
  ASSUME NEW t \in Sessions, NEW r \in session[t].fresh,
         Gone(t, r) \/ Same(t, r),
         record'[r] = record[r], groups'[r] = groups[r] \/ session[t].at \notin Ends,
         session'[t].at = session[t].at, session'[t].copy = session[t].copy,
         session'[t].old = session[t].old, session'[t].written = session[t].written
  PROVE  Gone(t, r)' \/ Same(t, r)'
<1>1. Visible(t, r)' = Visible(t, r)
  BY DEF Visible
<1>2. CASE Gone(t, r)
  BY <1>2 DEF Gone, Live
<1>3. CASE Same(t, r)
  BY <1>1, <1>3 DEF Same, Joined
<1> QED BY <1>2, <1>3

(* A commit: what it changes under another session is no longer fresh to   *)
(* that session, and what was fresh to this one is allocated.              *)
LEMMA CommitKeeps ==
  ASSUME CostInv, NEW s \in Sessions, Commit(s)
  PROVE  CostInv'
<1>1. /\ Shaped /\ \A t \in Sessions : SessionFits(t) /\ DOMAIN session[t] = Parts
      /\ FreshFits /\ AllocationsFollowCost
  BY DEF CostInv, Shaped
<1> DEFINE written == DOMAIN session[s].written
<1>2. \A r \in Records : /\ r \in written => record'[r] = Visible(s, r)
                         /\ r \notin written => record'[r] = record[r]
                         /\ groups'[r] = CommittedGroups(s, r)
  BY DEF Commit
<1>3. /\ session'[s] = Idle
      /\ \A t \in Sessions \ {s} :
           session'[t] = [session[t] EXCEPT !.fresh = session[t].fresh \ Disturbed(t, s)]
  BY DEF Commit
<1>4. ASSUME NEW t \in Sessions \ {s}
      PROVE  /\ session'[t].at = session[t].at /\ session'[t].window = session[t].window
             /\ session'[t].written = session[t].written /\ session'[t].copy = session[t].copy
             /\ session'[t].old = session[t].old /\ DOMAIN session'[t] = Parts
             /\ session'[t].fresh = session[t].fresh \ Disturbed(t, s)
  <2>1. DOMAIN session[t] = Parts
    BY <1>1
  <2> QED BY <1>3, <2>1 DEF Parts
<1>5. Shaped'
  <2>1. \A t \in Sessions : DOMAIN session'[t] = Parts
    BY <1>3, <1>4, IdleShape
  <2>2. /\ record' = [r \in Records |-> record'[r]] /\ groups' = [r \in Records |-> groups'[r]]
        /\ session' = [t \in Sessions |-> session'[t]] /\ rules' = rules
    BY DEF Commit
  <2>3. \A r \in Records : /\ DOMAIN record'[r] = {"id", "status", "cost"}
                           /\ record'[r].id = record[r].id
    <3> TAKE r \in Records
    <3>1. CASE r \in written
      BY <1>1, <1>2, <3>1, VisibleRow
    <3>2. CASE r \notin written
      BY <1>1, <1>2, <3>2 DEF Shaped
    <3> QED BY <3>1, <3>2
  <2> QED BY <1>1, <2>1, <2>2, <2>3 DEF Shaped
<1>6. ASSUME NEW t \in Sessions PROVE SessionFits(t)'
  <2>1. \A u \in Sessions : /\ u = s => DOMAIN session'[u].written = {}
                            /\ u # s => session'[u].written = session[u].written
    BY <1>3, <1>4, IdleShape
  <2>2. CASE t = s
    BY <1>3, <2>2, IdleShape DEF SessionFits, Ends
  <2>3. CASE t # s
    <3>1. SessionFits(t)
      BY <1>1
    <3>2. session'[t].fresh \subseteq session[t].fresh
      BY <1>4, <2>3
    <3>3. \A u \in Sessions \ {t} :
            DOMAIN session'[t].written \cap DOMAIN session'[u].written = {}
      BY <2>1, <2>3, <3>1 DEF SessionFits
    <3> QED BY <1>4, <2>3, <3>1, <3>2, <3>3 DEF SessionFits
  <2> QED BY <2>2, <2>3
<1>7. FreshFits'
  <2> SUFFICES ASSUME NEW t \in Sessions, NEW r \in session'[t].fresh
               PROVE  Gone(t, r)' \/ Same(t, r)'
    BY DEF FreshFits
  <2>1. t # s
    BY <1>3, IdleShape
  <2>2. r \in session[t].fresh /\ r \notin Disturbed(t, s)
    BY <1>4, <2>1
  <2>3. r \in Records /\ r \notin written /\ (r \in Attributed(s) => session[t].at \notin Ends)
    BY <1>1, <2>2 DEF Disturbed, SessionFits, Ends
  <2>4. record'[r] = record[r] /\ (groups'[r] = groups[r] \/ session[t].at \notin Ends)
    BY <1>2, <2>3 DEF CommittedGroups
  <2>5. Gone(t, r) \/ Same(t, r)
    BY <1>1, <2>2 DEF FreshFits
  <2> QED BY <1>4, <2>1, <2>2, <2>4, <2>5, OthersSee
<1>8. AllocationsFollowCost'
  <2> SUFFICES ASSUME NEW r \in Records, Live(r)', r \notin astray'
               PROVE  \E g \in groups'[r] :
                        /\ groups'[r] = {g}
                        /\ \E rs \in RuleSets : g.amount = Allotted(rs[r], record'[r].cost)
    BY DEF AllocationsFollowCost
  <2>1. CASE r \in Attributed(s) \cap session[s].fresh
    <3>1. r \in Attributed(s) /\ session[s].at = "inserted" /\ r \in session[s].fresh
      BY <2>1 DEF Attributed
    <3>2. record'[r].cost = Visible(s, r).cost
      BY <1>1, <1>2, VisibleRow
    <3>3. CASE Gone(s, r)
      BY <1>2, <3>3 DEF Gone, Live
    <3>4. CASE Same(s, r)
      <4>1. /\ Joined(s, r) /\ session[s].old[r] = groups[r]
            /\ \E rs \in RuleSets : session[s].copy[r].amount = Allotted(rs[r], Visible(s, r).cost)
        BY <3>1, <3>4 DEF Same, Ends
      <4> DEFINE g == [by |-> s, amount |-> session[s].copy[r].amount]
      <4>2. groups'[r] = {g}
        BY <1>2, <3>1, <4>1 DEF CommittedGroups
      <4>3. g.amount = session[s].copy[r].amount
        OBVIOUS
      <4> QED BY <3>2, <4>1, <4>2, <4>3
    <3> QED BY <1>1, <3>1, <3>3, <3>4 DEF FreshFits
  <2>2. CASE r \notin Attributed(s) \cap session[s].fresh
    <3>1. r \notin astray /\ r \notin written /\ r \notin Attributed(s)
      BY <2>2 DEF Commit
    <3>2. record'[r] = record[r] /\ groups'[r] = groups[r]
      BY <1>2, <3>1 DEF CommittedGroups
    <3> QED BY <1>1, <3>1, <3>2 DEF AllocationsFollowCost, Live
  <2> QED BY <2>1, <2>2
<1> QED BY <1>5, <1>6, <1>7, <1>8 DEF CostInv

(* The sweep makes costs final: their identity and amount stay.            *)
LEMMA FinalizeKeeps ==
  ASSUME CostInv, Finalize
  PROVE  CostInv'
<1>1. /\ Shaped /\ (\A t \in Sessions : SessionFits(t)) /\ FreshFits /\ AllocationsFollowCost
  BY DEF CostInv
<1> DEFINE due == {r \in Records : Finalizable(r)}
<1>2. /\ \A r \in due, t \in Sessions : r \notin DOMAIN session[t].written
      /\ UNCHANGED <<rules, groups, session, astray>>
      /\ record' = [r \in Records |-> IF r \in due THEN [record[r] EXCEPT !.status = "FINAL"]
                                                   ELSE record[r]]
  BY DEF Finalize
<1>3. \A r \in Records : /\ r \in due => record[r].status = "PRELIMINARY"
                         /\ r \notin due => record'[r] = record[r]
                         /\ DOMAIN record'[r] = {"id", "status", "cost"}
                         /\ record'[r].id = record[r].id /\ record'[r].cost = record[r].cost
                         /\ Live(r)' <=> Live(r)
  <2> TAKE r \in Records
  <2>1. DOMAIN record[r] = {"id", "status", "cost"}
    BY <1>1 DEF Shaped
  <2>2. CASE r \in due
    BY <1>2, <2>1, <2>2 DEF Finalizable, Live
  <2>3. CASE r \notin due
    BY <1>2, <2>1, <2>3 DEF Live
  <2> QED BY <2>2, <2>3
<1>4. Shaped'
  BY <1>1, <1>2, <1>3 DEF Shaped
<1>5. \A t \in Sessions : SessionFits(t)'
  BY <1>1, <1>2 DEF SessionFits
<1>6. FreshFits'
  <2> SUFFICES ASSUME NEW t \in Sessions, NEW r \in session[t].fresh
               PROVE  Gone(t, r)' \/ Same(t, r)'
    BY <1>2 DEF FreshFits
  <2>1. r \in Records /\ (Gone(t, r) \/ Same(t, r))
    BY <1>1 DEF FreshFits, SessionFits
  <2>2. CASE r \in due
    <3>1. Same(t, r)
      BY <1>3, <2>1, <2>2 DEF Gone, Live
    <3>2. Visible(t, r)'.cost = Visible(t, r).cost
      <4>1. Visible(t, r).cost = record[r].cost /\ Visible(t, r)'.cost = record'[r].cost
        BY <1>2, <2>2 DEF Visible
      <4> QED BY <1>3, <2>1, <4>1
    <3> QED BY <1>2, <1>3, <2>1, <3>1, <3>2 DEF Same, Joined
  <2>3. CASE r \notin due
    BY <1>2, <1>3, <2>1, <2>3, OthersSee
  <2> QED BY <2>2, <2>3
<1>7. AllocationsFollowCost'
  <2> SUFFICES ASSUME NEW r \in Records, Live(r)', r \notin astray'
               PROVE  \E g \in groups'[r] :
                        /\ groups'[r] = {g}
                        /\ \E rs \in RuleSets : g.amount = Allotted(rs[r], record'[r].cost)
    BY DEF AllocationsFollowCost
  <2>1. Live(r) /\ record'[r].cost = record[r].cost
    BY <1>3
  <2>2. groups'[r] = groups[r] /\ r \notin astray
    BY <1>2
  <2> QED BY <1>1, <2>1, <2>2 DEF AllocationsFollowCost
<1> QED BY <1>4, <1>5, <1>6, <1>7 DEF CostInv

(* Retention: what a session has read of a deleted record joins nothing.   *)
LEMMA PurgeKeeps ==
  ASSUME CostInv, Purge
  PROVE  CostInv'
<1>1. /\ Shaped /\ (\A t \in Sessions : SessionFits(t)) /\ FreshFits /\ AllocationsFollowCost
  BY DEF CostInv
<1>2. PICK due \in SUBSET {r \in Records : Expired(r)} :
        /\ \A r \in due, t \in Sessions : r \notin DOMAIN session[t].written
        /\ record' = [r \in Records |->
             IF r \in due THEN [id |-> record[r].id + 1, status |-> "ABSENT", cost |-> 0]
                          ELSE record[r]]
        /\ groups' = [r \in Records |-> IF r \in due THEN {} ELSE groups[r]]
        /\ UNCHANGED <<rules, session, astray>>
  BY DEF Purge
<1>3. \A r \in Records :
        /\ r \in due => Live(r) /\ ~Live(r)' /\ record'[r].id = record[r].id + 1
        /\ r \notin due => record'[r] = record[r] /\ groups'[r] = groups[r]
        /\ DOMAIN record'[r] = {"id", "status", "cost"} /\ record'[r].id \in Nat
  <2> TAKE r \in Records
  <2>1. DOMAIN record[r] = {"id", "status", "cost"} /\ record[r].id \in Nat
    BY <1>1 DEF Shaped
  <2>2. CASE r \in due
    <3>1. PICK n \in Nat : n = record[r].id + 1
      BY <2>1
    <3>2. record'[r] = [id |-> n, status |-> "ABSENT", cost |-> 0] /\ Live(r)
      BY <1>2, <2>2, <3>1 DEF Expired
    <3> QED BY <2>2, <3>1, <3>2 DEF Live
  <2>3. CASE r \notin due
    BY <1>2, <2>1, <2>3
  <2> QED BY <2>2, <2>3
<1>4. Shaped'
  BY <1>1, <1>2, <1>3 DEF Shaped
<1>5. \A t \in Sessions : SessionFits(t)'
  BY <1>1, <1>2 DEF SessionFits
<1>6. FreshFits'
  <2> SUFFICES ASSUME NEW t \in Sessions, NEW r \in session[t].fresh
               PROVE  Gone(t, r)' \/ Same(t, r)'
    BY <1>2 DEF FreshFits
  <2>1. r \in Records /\ (Gone(t, r) \/ Same(t, r))
    BY <1>1 DEF FreshFits, SessionFits
  <2>2. CASE r \in due
    <3>1. Same(t, r)
      BY <1>3, <2>1, <2>2 DEF Gone
    <3>2. session[t].copy[r].id = record[r].id /\ record[r].id \in Nat
      BY <1>1, <2>1, <3>1 DEF Same, Joined, Shaped
    <3>3. record'[r].id = record[r].id + 1 /\ ~Live(r)'
      BY <1>3, <2>1, <2>2
    <3>4. record'[r].id > session[t].copy[r].id
      BY <3>2, <3>3
    <3> QED BY <1>2, <2>2, <3>2, <3>3, <3>4 DEF Gone
  <2>3. CASE r \notin due
    BY <1>2, <1>3, <2>1, <2>3, OthersSee
  <2> QED BY <2>2, <2>3
<1>7. AllocationsFollowCost'
  <2> SUFFICES ASSUME NEW r \in Records, Live(r)', r \notin astray'
               PROVE  \E g \in groups'[r] :
                        /\ groups'[r] = {g}
                        /\ \E rs \in RuleSets : g.amount = Allotted(rs[r], record'[r].cost)
    BY DEF AllocationsFollowCost
  <2>1. record'[r] = record[r] /\ groups'[r] = groups[r] /\ r \notin astray
    BY <1>2, <1>3
  <2> QED BY <1>1, <2>1 DEF AllocationsFollowCost, Live
<1> QED BY <1>4, <1>5, <1>6, <1>7 DEF CostInv

(* The rules change, or a day passes.                                      *)
LEMMA RestKeeps ==
  ASSUME CostInv, ChangeRules \/ Tick \/ UNCHANGED costVars
  PROVE  CostInv'
<1>1. /\ rules' \in RuleSets /\ UNCHANGED <<record, groups, session, astray>>
  BY DEF CostInv, Shaped, ChangeRules, Tick, costVars
<1>2. Shaped' /\ \A t \in Sessions : SessionFits(t)'
  BY <1>1 DEF CostInv, Shaped, SessionFits
<1>3. FreshFits'
  BY <1>1 DEF CostInv, FreshFits, Gone, Same, Live, Joined, Visible
<1>4. AllocationsFollowCost'
  BY <1>1 DEF CostInv, AllocationsFollowCost, Live
<1> QED BY <1>2, <1>3, <1>4 DEF CostInv

(* Every step.                                                             *)
LEMMA CostStep == CostInv /\ [CostNext]_costVars => CostInv'
<1> SUFFICES ASSUME CostInv, [CostNext]_costVars PROVE CostInv'
  OBVIOUS
<1>1. ASSUME NEW s \in Sessions, StartRecent(s) \/ StartBackfill(s) \/ StartApply(s) \/ GoOn(s)
      PROVE  CostInv'
  BY <1>1, StartKeeps, AbortKeeps, SaveKeeps, SelectKeeps, StartDeleteKeeps, FinishDeleteKeeps,
     CommitKeeps DEF GoOn, Finish, AttributionFails
<1> QED BY <1>1, FinalizeKeeps, PurgeKeeps, RestKeeps DEF CostNext

(* A record whose last attribution overlapped with nothing is allocated    *)
(* once and in full, whatever sessions, sweeps and rule changes there are. *)
THEOREM AllocationsFollow == CostSpec => []AllocationsFollowCost
<1>1. CostInv => AllocationsFollowCost
  BY DEF CostInv
<1> QED BY <1>1, CostInitial, CostStep, PTL DEF CostSpec
=============================================================================
