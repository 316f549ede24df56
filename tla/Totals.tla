------------------------------- MODULE Totals -------------------------------
(***************************************************************************)
(* The sum of a function with a finite domain and natural values, as SQL's *)
(* coalesce(sum(...), 0) computes it.  It is written as a cardinality and  *)
(* not as a fold so that its laws follow from those of finite sets, which  *)
(* TLAPS can use.                                                          *)
(***************************************************************************)
EXTENDS Integers, FiniteSets

Units(f) == UNION {{x} \X (1 .. f[x]) : x \in DOMAIN f}
Total(f) == Cardinality(Units(f))
=============================================================================
