------------------------ MODULE EntitlementWaterfall ------------------------
(***************************************************************************)
(* The pure part of the enforcement gate: how the cost of a request is     *)
(* funded, in order, from the project's allocation, the reserved credits   *)
(* and the emergency credits, below the plan limit and the enterprise      *)
(* ceiling (domain/waterfall_ops.py).                                      *)
(*                                                                         *)
(* Amounts are naturals in units of 0.0001 USD: every amount the code      *)
(* compares here has been quantized to that unit.  The Python None of a    *)
(* headroom or of a limit is Unbounded.                                    *)
(***************************************************************************)
EXTENDS Integers

Modes    == {"SHADOW", "SOFT", "HARD"}
Outcomes == {"ALLOW", "ALLOW_WITH_CREDITS", "REQUIRE_APPROVAL", "DENY"}

Unbounded == -1
Headrooms == Nat \cup {Unbounded}

Least(a, b) == IF a <= b THEN a ELSE b
Positive(a) == IF a > 0 THEN a ELSE 0          \* max(0, a)

(* Variants with a plausible slip, for the mutation runs: a limit of zero  *)
(* read as "no limit", and a missing limit read as a number.               *)
Fits_ZeroMeansNone(amount, headroom) == headroom \in {Unbounded, 0} \/ amount <= headroom

Fits(amount, headroom) == headroom = Unbounded \/ amount <= headroom
UpTo(amount, headroom) == IF Fits(amount, headroom) THEN amount ELSE headroom

(* What is left below a limit once `used` is reserved; no limit, no bound. *)
Below(limit, used) == IF limit = Unbounded THEN Unbounded ELSE Positive(limit - used)

ModeViolationDecision_SoftAllows(mode) == IF mode = "HARD" THEN "DENY" ELSE "ALLOW"

(* What the tenant's mode makes of a request that breaks a rule. *)
ModeViolationDecision(mode) ==
  CASE mode = "SHADOW" -> "ALLOW"
    [] mode = "SOFT"   -> "REQUIRE_APPROVAL"
    [] OTHER           -> "DENY"

(* A violation as it would be if every mode kept what had been funded. *)
Violation_AlwaysKeeps(mode, reason, alloc, reserved, emergency) ==
  [decision |-> ModeViolationDecision(mode), alloc |-> alloc, reserved |-> reserved,
   emergency |-> emergency, reason |-> reason]

(***************************************************************************)
(* A violation keeps the amounts the waterfall had funded only in SOFT     *)
(* mode, where the request waits for an approval.                          *)
(***************************************************************************)
Violation(mode, reason, alloc, reserved, emergency) ==
  LET keep(amount) == IF mode = "SOFT" THEN amount ELSE 0
  IN  [decision |-> ModeViolationDecision(mode), alloc |-> keep(alloc),
       reserved |-> keep(reserved), emergency |-> keep(emergency), reason |-> reason]

(* Without the enterprise ceiling, for the mutation runs. *)
FundingTarget_IgnoresEnterprise(requested, enterprise) == requested
FundingTarget(requested, enterprise) == UpTo(requested, enterprise)

(* evaluate_entitlement_waterfall: the decision and the three reserves. *)
Waterfall(mode, requested, plan, allocation, reservedCredit, emergencyCredit, enterprise) ==
  LET target       == FundingTarget(requested, enterprise)
      alloc        == IF allocation = Unbounded THEN 0 ELSE Least(target, allocation)
      afterAlloc   == IF allocation = Unbounded THEN 0 ELSE target - alloc
      reserved     == Least(afterAlloc, reservedCredit)
      emergency    == Least(afterAlloc - reserved, emergencyCredit)
      unfunded     == afterAlloc - reserved - emergency
      fail(reason) == Violation(mode, reason, alloc, reserved, emergency)
  IN  CASE ~Fits(requested, plan)       -> Violation(mode, "plan_limit_exceeded", 0, 0, 0)
        [] Fits(requested, plan) /\ unfunded > 0 -> fail("budget_exceeded")
        [] Fits(requested, plan) /\ unfunded = 0 /\ ~Fits(requested, enterprise) ->
             fail("enterprise_ceiling_exceeded")
        [] OTHER ->
             [decision  |-> IF reserved + emergency = 0 THEN "ALLOW" ELSE "ALLOW_WITH_CREDITS",
              alloc     |-> alloc, reserved |-> reserved, emergency |-> emergency,
              reason    |-> "none"]
=============================================================================
