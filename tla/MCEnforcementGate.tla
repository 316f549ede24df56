------------------------- MODULE MCEnforcementGate --------------------------
(***************************************************************************)
(* Instances of the gate for TLC.  Each .cfg picks the definitions of one  *)
(* scenario; an amount is a small number of USD 0.0001 units.              *)
(***************************************************************************)
EXTENDS GateProperties, TLC

CONSTANTS r1, r2, k1, k2, p1, g1, g2

Both(m)  == [e \in Envs |-> m]
PolicyOf(mode, approvals, plan, enterprise) ==
  [mode |-> mode, approvalEnvs |-> approvals, autoApproveBelow |-> 0, hardDenyAbove |-> 3,
   planCeiling |-> plan, enterpriseCeiling |-> enterprise]
Ask(k, p, c, env, dry) == [key |-> k, project |-> p, cost |-> c, env |-> env, dryRun |-> dry]

TwoRequests   == {r1, r2}
Symmetry2     == Permutations({r1, r2})

NoGrants    == {}
NoGrantInfo == [g \in {} |-> 0]

(* Budget: two calls with keys of their own and no credits, over a month's *)
(* end, while limits and policies change.                                  *)
BudgetInputs   == {Ask(k1, p1, 2, "prod", FALSE), Ask(k2, p1, 1, "prod", FALSE),
                   Ask(k2, p1, 2, "prod", FALSE)}
BudgetPolicies == {PolicyOf(Both("HARD"), {}, 3, Unbounded),
                   PolicyOf(Both("SOFT"), {}, Unbounded, 2)}
BudgetLimitSet == {2, 3}

(* Credits: a reserved grant, and an emergency grant issued later that     *)
(* expires; the budget pays nothing or one unit.                           *)
CreditGrants == {g1, g2}
CreditInfo   == (g1 :> [pool |-> "RESERVED", scope |-> p1, total |-> 2, expires |-> 9,
                        created |-> 1])
             @@ (g2 :> [pool |-> "EMERGENCY", scope |-> "default", total |-> 2, expires |-> 1,
                        created |-> 2])
CreditInputs   == {Ask(k1, p1, 2, "prod", FALSE), Ask(k2, p1, 3, "prod", FALSE)}
CreditPolicies == {PolicyOf(Both("HARD"), {}, Unbounded, Unbounded)}

(* Reviews: two calls with the same key, one of them perhaps a dry run, in *)
(* an environment whose decisions need an approval.                        *)
ReviewGrants == {g1}
ReviewInfo   == g1 :> [pool |-> "RESERVED", scope |-> "default", total |-> 1, expires |-> 9,
                       created |-> 1]
ReviewInputs   == {Ask(k1, p1, 2, "prod", FALSE), Ask(k1, p1, 2, "prod", TRUE),
                   Ask(k1, p1, 2, "nonprod", FALSE)}
ReviewPolicies == {PolicyOf([e \in Envs |-> IF e = "prod" THEN "SOFT" ELSE "SHADOW"], {"prod"},
                            Unbounded, Unbounded),
                   PolicyOf(Both("HARD"), {}, Unbounded, Unbounded)}

(* Liveness: two calls whose reservations can both become overdue, more    *)
(* than one sweep takes.                                                   *)
LivenessInputs == {Ask(k1, p1, 2, "prod", FALSE), Ask(k2, p1, 1, "prod", FALSE)}
=============================================================================
