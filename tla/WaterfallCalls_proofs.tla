----------------------- MODULE WaterfallCalls_proofs ------------------------
(***************************************************************************)
(* For every set of amounts, not only the small ones TLC enumerates: the   *)
(* waterfall answers with natural reserves, overdraws no source and no     *)
(* limit, and lets a request through only when it is funded.               *)
(***************************************************************************)
EXTENDS WaterfallCalls, Operators_proofs

(* The fields of a call have the types the waterfall expects. *)
LEMMA CallTypes ==
  ASSUME NEW c \in Calls
  PROVE  /\ c.mode \in Modes /\ c.requested \in Nat /\ c.plan \in Headrooms
         /\ c.allocation \in Headrooms /\ c.reserved \in Nat /\ c.emergency \in Nat
         /\ c.enterprise \in Headrooms
  BY AmountsAreNaturals DEF Calls, Limits, Headrooms

(***************************************************************************)
(* What the three theorems below have in common: a call and its answer.    *)
(***************************************************************************)
Inv == /\ call \in Calls
       /\ result = Unanswered \/ result = Answer(call)

(* Every state holds a call and its answer, or a call not yet answered. *)
LEMMA Invariance == Spec => []Inv
<1>1. Init => Inv
  BY DEF Init, Inv
<1>2. Inv /\ [Next]_vars => Inv'
  BY DEF Inv, Next, Evaluate, vars, Answer
<1> QED BY <1>1, <1>2, PTL DEF Spec

(* Such a state has the three properties, because the waterfall is sound. *)
LEMMA InvImplies == Inv => TypeOK /\ NeverOverdrawn /\ AllowedIsFunded
<1> SUFFICES ASSUME Inv PROVE TypeOK /\ NeverOverdrawn /\ AllowedIsFunded
  OBVIOUS
<1>1. CASE result = Unanswered
  BY <1>1, CallTypes
     DEF Inv, Unanswered, TypeOK, Outcomes, NeverOverdrawn, AllowedIsFunded, Reserves,
         Fits, Headrooms, Unbounded
<1>2. CASE result = Answer(call)
  <2>1. call \in Calls
    BY DEF Inv
  <2>2. /\ call.mode \in Modes /\ call.requested \in Nat /\ call.plan \in Headrooms
        /\ call.allocation \in Headrooms /\ call.reserved \in Nat
        /\ call.emergency \in Nat /\ call.enterprise \in Headrooms
    BY <2>1, CallTypes
  <2>3. result = Waterfall(call.mode, call.requested, call.plan, call.allocation,
                           call.reserved, call.emergency, call.enterprise)
    BY <1>2 DEF Answer
  <2>4. Sound(result, call.mode, call.requested, call.plan, call.allocation,
              call.reserved, call.emergency, call.enterprise)
    BY <2>2, <2>3, WaterfallAnswer
  <2>5. TypeOK
    BY <2>1, <2>4 DEF Sound, TypeOK
  <2>6. NeverOverdrawn /\ AllowedIsFunded
    BY <2>4 DEF Sound, NeverOverdrawn, AllowedIsFunded, Reserves
  <2> QED BY <2>5, <2>6
<1> QED BY <1>1, <1>2 DEF Inv

(* evaluate_entitlement_waterfall answers with an outcome and natural amounts. *)
THEOREM TypeCorrect == Spec => []TypeOK
  BY Invariance, InvImplies, PTL

(* No stage order, mode or early return overdraws a source or a limit. *)
THEOREM WaterfallNeverOverdraws == Spec => []NeverOverdrawn
  BY Invariance, InvImplies, PTL

(* ALLOW and ALLOW_WITH_CREDITS mean the whole cost was funded. *)
THEOREM WaterfallAllowsOnlyFunded == Spec => []AllowedIsFunded
  BY Invariance, InvImplies, PTL

-----------------------------------------------------------------------------
(* What a call may fund, and the stages' shares of it. *)
Target(c)         == FundingTarget(c.requested, c.enterprise)
AllocShare(c)     == Least(Target(c), c.allocation)
ReservedShare(c)  == Least(Target(c) - AllocShare(c), c.reserved)
EmergencyShare(c) == Least(Target(c) - AllocShare(c) - ReservedShare(c), c.emergency)
Shares(c)         == <<AllocShare(c), ReservedShare(c), EmergencyShare(c)>>

(* The shares are natural amounts within the target. *)
LEMMA ShareTypes ==
  ASSUME NEW c \in Calls, c.allocation # Unbounded
  PROVE  /\ Target(c) \in Nat /\ c.allocation \in Nat
         /\ AllocShare(c) \in Nat /\ ReservedShare(c) \in Nat /\ EmergencyShare(c) \in Nat
         /\ AllocShare(c) + ReservedShare(c) + EmergencyShare(c) <= Target(c)
         /\ Target(c) = UpTo(c.requested, c.enterprise)
<1>1. c.allocation \in Nat /\ c.reserved \in Nat /\ c.emergency \in Nat
  BY CallTypes DEF Headrooms
<1>2. Target(c) \in Nat
  BY CallTypes DEF Target, FundingTarget, UpTo, Fits, Headrooms, Unbounded
<1>3. AllocShare(c) \in Nat /\ AllocShare(c) <= Target(c)
  BY <1>1, <1>2 DEF AllocShare, Least
<1>4. ReservedShare(c) \in Nat /\ AllocShare(c) + ReservedShare(c) <= Target(c)
  BY <1>1, <1>2, <1>3 DEF ReservedShare, Least
<1>5. EmergencyShare(c) \in Nat
      /\ AllocShare(c) + ReservedShare(c) + EmergencyShare(c) <= Target(c)
  BY <1>1, <1>2, <1>3, <1>4 DEF EmergencyShare, Least
<1> QED BY <1>1, <1>2, <1>3, <1>4, <1>5 DEF Target, FundingTarget

(***************************************************************************)
(* With a budget, the shares of the stages are the best split: no split    *)
(* draws more, none that draws as much uses less emergency credit, and of  *)
(* those none uses less reserved credit.                                   *)
(***************************************************************************)
LEMMA StagesAreBest ==
  ASSUME NEW c \in Calls, c.allocation # Unbounded
  PROVE  BestSplit(c) = Shares(c)
<1> DEFINE target == UpTo(c.requested, c.enterprise)
           splits == {s \in (0..target) \X (0..target) \X (0..target) :
                        /\ s[1] + s[2] + s[3] <= target
                        /\ Fits(s[1], c.allocation) /\ s[2] <= c.reserved
                        /\ s[3] <= c.emergency}
           drawn(s) == s[1] + s[2] + s[3]
           most   == {s \in splits : \A t \in splits : drawn(t) <= drawn(s)}
           frugal == {s \in most : \A t \in most : s[3] <= t[3]}
           least(s) == \A t \in frugal : s[2] <= t[2]
           best   == Shares(c)
<1>1. BestSplit(c) = CHOOSE s \in frugal : least(s)
  BY DEF BestSplit
<1>2. /\ target \in Nat /\ c.allocation \in Nat /\ c.reserved \in Nat /\ c.emergency \in Nat
      /\ target = Target(c)
  BY ShareTypes, CallTypes
<1>3. /\ best[1] = AllocShare(c) /\ best[2] = ReservedShare(c) /\ best[3] = EmergencyShare(c)
      /\ best \in Nat \X Nat \X Nat /\ best = <<best[1], best[2], best[3]>>
      /\ drawn(best) <= target
  BY ShareTypes, <1>2 DEF Shares
<1>4. /\ best[1] = Least(target, c.allocation)
      /\ best[2] = Least(target - best[1], c.reserved)
      /\ best[3] = Least(target - best[1] - best[2], c.emergency)
  BY <1>2, <1>3 DEF AllocShare, ReservedShare, EmergencyShare
<1> HIDE DEF target, best
<1>5. ASSUME NEW s \in splits
      PROVE  /\ s[1] \in Nat /\ s[2] \in Nat /\ s[3] \in Nat /\ s = <<s[1], s[2], s[3]>>
             /\ drawn(s) <= target /\ s[1] <= c.allocation /\ s[2] <= c.reserved
             /\ s[3] <= c.emergency
  BY <1>2 DEF Fits, Unbounded
<1>6. best \in splits
  <2>1. best[1] \in 0 .. target /\ best[2] \in 0 .. target /\ best[3] \in 0 .. target
    BY <1>2, <1>3, <1>4 DEF Least
  <2>2. best[1] <= c.allocation /\ best[2] <= c.reserved /\ best[3] <= c.emergency
    BY <1>2, <1>3, <1>4 DEF Least
  <2>3. best \in (0..target) \X (0..target) \X (0..target)
    BY <1>3, <2>1
  <2> QED BY <1>3, <2>2, <2>3 DEF Fits
<1> HIDE DEF splits
<1>7. ASSUME NEW s \in splits
      PROVE  /\ drawn(s) <= drawn(best)
             /\ drawn(s) = drawn(best) => best[3] <= s[3]
             /\ drawn(s) = drawn(best) /\ s[3] = best[3] => best[2] <= s[2]
             /\ (drawn(s) = drawn(best) /\ s[3] = best[3] /\ s[2] = best[2]) => s = best
  <2> DEFINE a == best[1]
             b == best[2]
             d == best[3]
             x == s[1]
             y == s[2]
             z == s[3]
  <2>1. /\ a \in Nat /\ b \in Nat /\ d \in Nat /\ a + b + d <= target
        /\ a = Least(target, c.allocation) /\ b = Least(target - a, c.reserved)
        /\ d = Least(target - a - b, c.emergency)
    BY <1>3, <1>4
  <2>2. /\ x \in Nat /\ y \in Nat /\ z \in Nat /\ x + y + z <= target /\ x <= c.allocation
        /\ y <= c.reserved /\ z <= c.emergency
    BY <1>5
  <2>3. s = <<x, y, z>> /\ best = <<a, b, d>>
    BY <1>3, <1>5
  <2> HIDE DEF a, b, d, x, y, z
  <2>4. /\ x + y + z <= a + b + d
        /\ x + y + z = a + b + d => d <= z
        /\ (x + y + z = a + b + d /\ z = d) => b <= y
        /\ (x + y + z = a + b + d /\ z = d /\ y = b) => x = a
    <3>1. /\ c.allocation \in Nat /\ c.reserved \in Nat /\ c.emergency \in Nat
          /\ target \in Nat
      BY <1>2
    <3>2. a = target \/ a = c.allocation
      BY <2>1 DEF Least
    <3>3. a + b = target \/ b = c.reserved
      BY <2>1, <3>1 DEF Least
    <3>4. a + b + d = target \/ d = c.emergency
      BY <2>1, <3>1 DEF Least
    <3>5. x <= a
      BY <2>1, <2>2, <3>1, <3>2
    <3>6. x + y <= a + b
      BY <2>1, <2>2, <3>1, <3>3, <3>5
    <3>7. x + y + z <= a + b + d
      BY <2>1, <2>2, <3>1, <3>4, <3>6
    <3> QED BY <2>1, <2>2, <3>5, <3>6, <3>7
  <2> QED BY <2>3, <2>4 DEF a, b, d, x, y, z
<1> HIDE DEF drawn
<1>8. best \in most /\ \A s \in most : s \in splits /\ drawn(s) = drawn(best)
  <2>1. best \in most
    BY <1>6, <1>7
  <2>2. ASSUME NEW s \in most PROVE s \in splits /\ drawn(s) = drawn(best)
    <3>1. s \in splits /\ drawn(best) <= drawn(s) /\ drawn(s) <= drawn(best)
      BY <1>6, <1>7
    <3>2. drawn(s) \in Int /\ drawn(best) \in Int
      BY <1>5, <1>6, <3>1 DEF drawn
    <3> QED BY <3>1, <3>2
  <2> QED BY <2>1, <2>2
<1> HIDE DEF most
<1>9. best \in frugal /\ \A s \in frugal : s \in splits /\ drawn(s) = drawn(best) /\ s[3] = best[3]
  <2>1. best \in frugal
    BY <1>7, <1>8
  <2>2. ASSUME NEW s \in frugal
        PROVE  s \in splits /\ drawn(s) = drawn(best) /\ s[3] = best[3]
    <3>1. s \in most /\ s \in splits /\ drawn(s) = drawn(best) /\ s[3] <= best[3]
      BY <1>8
    <3>2. best[3] <= s[3] /\ s[3] \in Nat /\ best[3] \in Nat
      BY <1>3, <1>5, <1>7, <3>1
    <3> QED BY <3>1, <3>2
  <2> QED BY <2>1, <2>2
<1> HIDE DEF frugal
<1>10. best \in frugal /\ least(best)
  BY <1>7, <1>9
<1>11. ASSUME NEW s \in frugal, least(s) PROVE s = best
  <2>1. s \in splits /\ drawn(s) = drawn(best) /\ s[3] = best[3]
    BY <1>9
  <2>2. best[2] <= s[2] /\ s[2] <= best[2] /\ s[2] \in Nat /\ best[2] \in Nat
    BY <1>3, <1>5, <1>7, <1>9, <1>11, <2>1
  <2> QED BY <1>7, <2>1, <2>2
<1> HIDE DEF least
<1> QED BY <1>1, <1>10, <1>11 DEF best

(***************************************************************************)
(* What the waterfall funds of a call: nothing without a budget, and with  *)
(* one the shares; it is in full exactly if they add up to the target.     *)
(***************************************************************************)
Funds(c) == IF c.allocation = Unbounded THEN <<0, 0, 0>> ELSE Shares(c)
Paid(c)  == \/ c.allocation = Unbounded
            \/ AllocShare(c) + ReservedShare(c) + EmergencyShare(c) = Target(c)

(* The four ways the waterfall answers, in terms of those. *)
LEMMA AnswerCases ==
  ASSUME NEW c \in Calls
  PROVE  LET f == Funds(c)
             a == Answer(c)
             violates(reason) == a = Violation(c.mode, reason, f[1], f[2], f[3])
         IN  IF ~Fits(c.requested, c.plan)
             THEN a = Violation(c.mode, "plan_limit_exceeded", 0, 0, 0)
             ELSE IF ~Paid(c) THEN violates("budget_exceeded")
             ELSE IF ~Fits(c.requested, c.enterprise) THEN violates("enterprise_ceiling_exceeded")
             ELSE /\ a.reason = "none" /\ <<a.alloc, a.reserved, a.emergency>> = f
<1> DEFINE target     == FundingTarget(c.requested, c.enterprise)
           alloc      == IF c.allocation = Unbounded THEN 0 ELSE Least(target, c.allocation)
           afterAlloc == IF c.allocation = Unbounded THEN 0 ELSE target - alloc
           reserved   == Least(afterAlloc, c.reserved)
           emergency  == Least(afterAlloc - reserved, c.emergency)
           unfunded   == afterAlloc - reserved - emergency
<1>1. c.reserved \in Nat /\ c.emergency \in Nat
  BY CallTypes
<1>2. /\ Funds(c) = <<alloc, reserved, emergency>> /\ unfunded \in Nat
      /\ unfunded = 0 <=> Paid(c)
  <2>1. CASE c.allocation = Unbounded
    <3>1. alloc = 0 /\ reserved = 0 /\ emergency = 0
      BY <1>1, <2>1 DEF Least
    <3>2. unfunded = 0
      BY <2>1, <3>1
    <3> HIDE DEF alloc, reserved, emergency, unfunded
    <3> QED BY <2>1, <3>1, <3>2 DEF Funds, Paid
  <2>2. CASE c.allocation # Unbounded
    <3>1. /\ alloc = AllocShare(c) /\ reserved = ReservedShare(c)
          /\ emergency = EmergencyShare(c) /\ target = Target(c)
          /\ unfunded = target - alloc - reserved - emergency
      BY <2>2 DEF AllocShare, ReservedShare, EmergencyShare, Target
    <3>2. /\ AllocShare(c) \in Nat /\ ReservedShare(c) \in Nat /\ EmergencyShare(c) \in Nat
          /\ Target(c) \in Nat
          /\ AllocShare(c) + ReservedShare(c) + EmergencyShare(c) <= Target(c)
      BY <2>2, ShareTypes
    <3> HIDE DEF alloc, reserved, emergency, unfunded, target
    <3> QED BY <2>2, <3>1, <3>2 DEF Funds, Paid, Shares
  <2> QED BY <2>1, <2>2
<1>3. CASE ~Fits(c.requested, c.plan)
  BY <1>3 DEF Answer, Waterfall
<1>4. CASE Fits(c.requested, c.plan) /\ unfunded > 0
  <2>1. Answer(c) = Violation(c.mode, "budget_exceeded", alloc, reserved, emergency)
    BY <1>4 DEF Answer, Waterfall
  <2> HIDE DEF alloc, reserved, emergency, unfunded
  <2> QED BY <1>2, <1>4, <2>1
<1>5. CASE Fits(c.requested, c.plan) /\ unfunded = 0 /\ ~Fits(c.requested, c.enterprise)
  <2>1. Answer(c) = Violation(c.mode, "enterprise_ceiling_exceeded", alloc, reserved, emergency)
    BY <1>5 DEF Answer, Waterfall
  <2> HIDE DEF alloc, reserved, emergency, unfunded
  <2> QED BY <1>2, <1>5, <2>1
<1>6. CASE Fits(c.requested, c.plan) /\ unfunded = 0 /\ Fits(c.requested, c.enterprise)
  <2>1. Answer(c) = [decision  |-> IF reserved + emergency = 0 THEN "ALLOW"
                                   ELSE "ALLOW_WITH_CREDITS",
                     alloc     |-> alloc, reserved |-> reserved, emergency |-> emergency,
                     reason    |-> "none"]
    BY <1>6 DEF Answer, Waterfall
  <2> HIDE DEF alloc, reserved, emergency, unfunded
  <2> QED BY <1>2, <1>6, <2>1
<1> HIDE DEF unfunded
<1> QED BY <1>2, <1>3, <1>4, <1>5, <1>6

(* A state with an answer agrees with the reference. *)
LEMMA AnswersMatch == Inv => MatchesReference
<1> SUFFICES ASSUME Inv, Answered PROVE MatchesReference
  BY DEF MatchesReference
<1> DEFINE c      == call
           best   == BestSplit(c)
           paid   == c.allocation = Unbounded
                       \/ best[1] + best[2] + best[3] = UpTo(c.requested, c.enterprise)
           reason == IF ~Fits(c.requested, c.plan) THEN "plan_limit_exceeded"
                     ELSE IF ~paid THEN "budget_exceeded"
                     ELSE IF ~Fits(c.requested, c.enterprise)
                          THEN "enterprise_ceiling_exceeded" ELSE "none"
           kept   == /\ c.allocation # Unbounded
                     /\ \/ reason = "none"
                        \/ reason # "plan_limit_exceeded" /\ c.mode = "SOFT"
<1>1. c \in Calls /\ result = Answer(c) /\ c.mode \in Modes
  BY CallTypes DEF Inv, Answered
<1>2. paid <=> Paid(c)
  <2>1. CASE c.allocation = Unbounded
    BY <2>1 DEF Paid
  <2>2. CASE c.allocation # Unbounded
    <3>1. best = Shares(c) /\ Target(c) = UpTo(c.requested, c.enterprise)
      BY <1>1, <2>2, StagesAreBest, ShareTypes
    <3> HIDE DEF best
    <3> QED BY <2>2, <3>1 DEF Paid, Shares
  <2> QED BY <2>1, <2>2
<1>3. Funds(c) = IF c.allocation = Unbounded THEN <<0, 0, 0>> ELSE best
  BY <1>1, StagesAreBest DEF Funds
<1>4. Funds(c) = <<Funds(c)[1], Funds(c)[2], Funds(c)[3]>>
  BY DEF Funds, Shares
<1> HIDE DEF best, paid, c
<1>5. /\ result.reason = reason
      /\ <<result.alloc, result.reserved, result.emergency>> = IF kept THEN best ELSE <<0, 0, 0>>
      /\ reason # "none" => result.decision = ModeViolationDecision(c.mode)
  <2>1. CASE ~Fits(c.requested, c.plan)
    <3>1. result = Violation(c.mode, "plan_limit_exceeded", 0, 0, 0)
      BY <1>1, <2>1, AnswerCases
    <3> QED BY <2>1, <3>1 DEF Violation
  <2>2. ASSUME NEW why, why # "none", why # "plan_limit_exceeded", reason = why,
               result = Violation(c.mode, why, Funds(c)[1], Funds(c)[2], Funds(c)[3])
        PROVE  /\ result.reason = reason
               /\ <<result.alloc, result.reserved, result.emergency>>
                     = IF kept THEN best ELSE <<0, 0, 0>>
               /\ reason # "none" => result.decision = ModeViolationDecision(c.mode)
    <3>1. kept <=> c.allocation # Unbounded /\ c.mode = "SOFT"
      BY <2>2
    <3>2. <<result.alloc, result.reserved, result.emergency>>
             = IF c.mode = "SOFT" THEN Funds(c) ELSE <<0, 0, 0>>
      BY <1>4, <2>2 DEF Violation
    <3>3. result.reason = why /\ result.decision = ModeViolationDecision(c.mode)
      BY <2>2 DEF Violation
    <3> HIDE DEF kept
    <3> QED BY <1>3, <2>2, <3>1, <3>2, <3>3
  <2>3. CASE Fits(c.requested, c.plan) /\ ~Paid(c)
    BY <1>1, <1>2, <2>2, <2>3, AnswerCases
  <2>4. CASE Fits(c.requested, c.plan) /\ Paid(c) /\ ~Fits(c.requested, c.enterprise)
    BY <1>1, <1>2, <2>2, <2>4, AnswerCases
  <2>5. CASE Fits(c.requested, c.plan) /\ Paid(c) /\ Fits(c.requested, c.enterprise)
    <3>1. result.reason = "none" /\ <<result.alloc, result.reserved, result.emergency>> = Funds(c)
      BY <1>1, <2>5, AnswerCases
    <3> QED BY <1>2, <1>3, <2>5, <3>1
  <2> QED BY <2>1, <2>3, <2>4, <2>5
<1> QED BY <1>5 DEF MatchesReference, best, paid, c

(***************************************************************************)
(* The staged computation is the best split: for all amounts, the answer   *)
(* names the first reason to refuse and draws what the reference draws.    *)
(***************************************************************************)
THEOREM WaterfallMatchesReference == Spec => []MatchesReference
  BY Invariance, AnswersMatch, PTL

-----------------------------------------------------------------------------
(* A call in HARD mode is let through if its limits and sources cover it. *)
Affordable(c) ==
  /\ Fits(c.requested, c.plan) /\ Fits(c.requested, c.enterprise)
  /\ c.allocation = Unbounded \/ c.requested <= c.allocation + c.reserved + c.emergency

(* Calls with any natural amounts, such as one with more headroom. *)
AnyCalls == [mode : Modes, requested : Nat, plan : Headrooms, allocation : Headrooms,
             reserved : Nat, emergency : Nat, enterprise : Headrooms]

(* The waterfall lets through what is affordable, and nothing else. *)
LEMMA HardAnswer ==
  ASSUME NEW c \in AnyCalls, c.mode = "HARD"
  PROVE  Answer(c).decision # "DENY" <=> Affordable(c)
<1>1. Answer(c) = Waterfall("HARD", c.requested, c.plan, c.allocation, c.reserved, c.emergency,
                            c.enterprise)
  BY DEF Answer
<1>2. /\ c.requested \in Nat /\ c.plan \in Headrooms /\ c.allocation \in Headrooms
      /\ c.reserved \in Nat /\ c.emergency \in Nat /\ c.enterprise \in Headrooms
  BY DEF AnyCalls
<1>3. Waterfall("HARD", c.requested, c.plan, c.allocation, c.reserved, c.emergency,
                c.enterprise).decision # "DENY"
        <=> /\ Fits(c.requested, c.plan) /\ Fits(c.requested, c.enterprise)
            /\ \/ c.allocation = Unbounded
               \/ c.requested <= c.allocation + c.reserved + c.emergency
  BY <1>2, HardRefuses
<1> QED BY <1>1, <1>3 DEF Affordable

(* More of one headroom leaves an affordable call affordable. *)
LEMMA RicherAffordable ==
  ASSUME NEW c \in AnyCalls, Affordable(c),
         NEW d \in {[c EXCEPT ![f] = @ + 1] : f \in {"reserved", "emergency"}}
                     \cup {[c EXCEPT ![f] = IF @ = Unbounded THEN @ ELSE @ + 1] :
                             f \in {"plan", "allocation", "enterprise"}}
  PROVE  d \in AnyCalls /\ d.mode = c.mode /\ Affordable(d)
<1> USE DEF AnyCalls, Affordable, Fits, Headrooms, Unbounded
<1>1. CASE d = [c EXCEPT !.reserved = @ + 1]
  BY <1>1
<1>2. CASE d = [c EXCEPT !.emergency = @ + 1]
  BY <1>2
<1>3. CASE d = [c EXCEPT !.plan = IF @ = Unbounded THEN @ ELSE @ + 1]
  BY <1>3
<1>4. CASE d = [c EXCEPT !.allocation = IF @ = Unbounded THEN @ ELSE @ + 1]
  BY <1>4
<1>5. CASE d = [c EXCEPT !.enterprise = IF @ = Unbounded THEN @ ELSE @ + 1]
  BY <1>5
<1> QED BY <1>1, <1>2, <1>3, <1>4, <1>5

(* So no headroom turns an allowed call away. *)
LEMMA RicherAllowed == Inv => HeadroomNeverHurts
<1> SUFFICES ASSUME Inv, Answered, call.mode = "HARD", result.decision # "DENY",
                    NEW d \in {[call EXCEPT ![f] = @ + 1] : f \in {"reserved", "emergency"}}
                                \cup {[call EXCEPT ![f] = IF @ = Unbounded THEN @ ELSE @ + 1] :
                                        f \in {"plan", "allocation", "enterprise"}}
             PROVE  Answer(d).decision # "DENY"
  BY DEF HeadroomNeverHurts
<1>1. call \in AnyCalls /\ result = Answer(call)
  BY AmountsAreNaturals DEF Inv, Answered, Calls, AnyCalls, Limits, Headrooms
<1>2. Affordable(call)
  BY <1>1, HardAnswer
<1> QED BY <1>1, <1>2, HardAnswer, RicherAffordable

(***************************************************************************)
(* A grant, a release or a raised limit never turns away a request that    *)
(* the gate lets through in HARD mode.                                     *)
(***************************************************************************)
THEOREM WaterfallMonotone == Spec => []HeadroomNeverHurts
  BY Invariance, RicherAllowed, PTL
=============================================================================
