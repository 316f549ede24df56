----------------------------- MODULE MCBilling ------------------------------
(***************************************************************************)
(* An instance of the subscription for TLC: one paid tier beside the free  *)
(* one, two checkouts, two unlocked handlers in flight beside the charging *)
(* jobs, two days.  A failure is retried once, on the same day, and a      *)
(* webhook can count one more failure than there are attempts; a new       *)
(* tenant becomes active when the first checkout is paid after the second  *)
(* has been opened.                                                        *)
(***************************************************************************)
EXTENDS Billing, TLC

CONSTANTS h1, h2, c1, c2

MCRetryDays    == <<0, 1>>
MCRetention    == [COMPLETED |-> 1, DEAD_LETTER |-> 0]
MCJobAttempts  == [dunning |-> 1, renewal |-> 1]
MCCheckoutTier == [c \in Checkouts |-> "pro"]
Symmetry       == Permutations({h1, h2}) \cup Permutations({c1, c2})
=============================================================================
