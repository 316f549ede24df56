--------------------------- MODULE WaterfallCalls ---------------------------
(***************************************************************************)
(* Calls of the funding waterfall on every combination of inputs drawn     *)
(* from Amounts, with what a correct answer must satisfy.                  *)
(***************************************************************************)
EXTENDS EntitlementWaterfall, FiniteSets

CONSTANT Amounts                  \* the amounts the inputs are drawn from

ASSUME AmountsAreNaturals == Amounts \subseteq Nat

VARIABLES call, result            \* the call's arguments and its answer

vars == <<call, result>>

Limits == Amounts \cup {Unbounded}

Calls == [mode : Modes, requested : Amounts, plan : Limits, allocation : Limits,
          reserved : Amounts, emergency : Amounts, enterprise : Limits]

Answer(c) == Waterfall(c.mode, c.requested, c.plan, c.allocation, c.reserved,
                       c.emergency, c.enterprise)

Unanswered == [decision |-> "DENY", alloc |-> 0, reserved |-> 0, emergency |-> 0,
               reason |-> "unanswered"]

Answered == result # Unanswered

Evaluate == ~Answered /\ result' = Answer(call) /\ UNCHANGED call

Init == call \in Calls /\ result = Unanswered
Next == Evaluate
Spec == Init /\ [][Next]_vars

-----------------------------------------------------------------------------
TypeOK ==
  /\ call \in Calls
  /\ result \in [decision : Outcomes, alloc : Nat, reserved : Nat, emergency : Nat,
                 reason : {"none", "plan_limit_exceeded", "budget_exceeded",
                           "enterprise_ceiling_exceeded", "unanswered"}]

Reserves == result.alloc + result.reserved + result.emergency

(***************************************************************************)
(* Whatever the mode and the order of the stages, the reserves taken never *)
(* exceed a source's headroom, the request, the plan limit or the          *)
(* enterprise ceiling: the escalated (SOFT) request included.              *)
(***************************************************************************)
NeverOverdrawn ==
  /\ Fits(result.alloc, call.allocation)
  /\ result.reserved <= call.reserved
  /\ result.emergency <= call.emergency
  /\ Reserves <= call.requested
  /\ Fits(Reserves, call.plan)
  /\ Fits(Reserves, call.enterprise)

(***************************************************************************)
(* In SOFT and HARD mode a request is let through only when it fits every  *)
(* limit and its whole cost is reserved (with no budget configured the     *)
(* allocation stage takes any cost and reserves nothing).                  *)
(***************************************************************************)
AllowedIsFunded ==
  (result.decision \in {"ALLOW", "ALLOW_WITH_CREDITS"} /\ call.mode # "SHADOW") =>
     /\ Fits(call.requested, call.plan)
     /\ Fits(call.requested, call.enterprise)
     /\ Reserves = IF call.allocation = Unbounded THEN 0 ELSE call.requested

(***************************************************************************)
(* The answer, stated without stages: of the ways to split what may be     *)
(* funded over the three sources, the one that draws most, and of those    *)
(* the one that spares emergency credits first and reserved ones next.     *)
(***************************************************************************)
BestSplit(c) ==
  LET target == UpTo(c.requested, c.enterprise)
      splits == {s \in (0..target) \X (0..target) \X (0..target) :
                   /\ s[1] + s[2] + s[3] <= target
                   /\ Fits(s[1], c.allocation) /\ s[2] <= c.reserved /\ s[3] <= c.emergency}
      drawn(s) == s[1] + s[2] + s[3]
      most   == {s \in splits : \A t \in splits : drawn(t) <= drawn(s)}
      frugal == {s \in most : \A t \in most : s[3] <= t[3]}
  IN  CHOOSE s \in frugal : \A t \in frugal : s[2] <= t[2]

(***************************************************************************)
(* The staged computation draws exactly the best split, refuses exactly    *)
(* the requests that split cannot pay in full or that break a limit, and   *)
(* names the first reason in the order plan, budget, enterprise.           *)
(***************************************************************************)
MatchesReference ==
  LET best   == BestSplit(call)
      paid   == call.allocation = Unbounded
                  \/ best[1] + best[2] + best[3] = UpTo(call.requested, call.enterprise)
      reason == IF ~Fits(call.requested, call.plan) THEN "plan_limit_exceeded"
                ELSE IF ~paid THEN "budget_exceeded"
                ELSE IF ~Fits(call.requested, call.enterprise)
                     THEN "enterprise_ceiling_exceeded" ELSE "none"
      kept   == /\ call.allocation # Unbounded
                /\ \/ reason = "none"
                   \/ reason # "plan_limit_exceeded" /\ call.mode = "SOFT"
  IN  Answered =>
      /\ result.reason = reason
      /\ <<result.alloc, result.reserved, result.emergency>>
            = IF kept THEN best ELSE <<0, 0, 0>>
      /\ reason # "none" => result.decision = ModeViolationDecision(call.mode)

(***************************************************************************)
(* More headroom never turns an allowed request away: a grant, a release   *)
(* or a raised limit cannot make the gate stricter in HARD mode.           *)
(***************************************************************************)
HeadroomNeverHurts ==
  LET richer == {[call EXCEPT ![f] = @ + 1] : f \in {"reserved", "emergency"}}
                  \cup {[call EXCEPT ![f] = IF @ = Unbounded THEN @ ELSE @ + 1] :
                          f \in {"plan", "allocation", "enterprise"}}
  IN  (Answered /\ call.mode = "HARD" /\ result.decision # "DENY") =>
         \A c \in richer : Answer(c).decision # "DENY"
=============================================================================
