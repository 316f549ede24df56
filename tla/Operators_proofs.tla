-------------------------- MODULE Operators_proofs --------------------------
(***************************************************************************)
(* Laws of the operators the models are built from: the sum Total, the     *)
(* greedy draw on amounts in a fixed order, and the answers of the funding *)
(* waterfall.  The theorems about single calls of the waterfall and those  *)
(* about the gate both rest on it.                                         *)
(***************************************************************************)
EXTENDS Totals, EntitlementWaterfall, FiniteSetTheorems, TLAPS

(***************************************************************************)
(* The units of a natural-valued function with a finite domain are a       *)
(* finite set: the union of one interval for each point of the domain.     *)
(***************************************************************************)
LEMMA UnitsFinite ==
  ASSUME NEW S, IsFiniteSet(S), NEW f \in [S -> Nat]
  PROVE  IsFiniteSet(Units(f))
<1> DEFINE part(x) == {x} \X (1 .. f[x])
<1> DEFINE parts == {part(x) : x \in S}
<1>1. IsFiniteSet(parts)
  <2> DEFINE onto == [x \in S |-> part(x)]
  <2>1. onto \in Surjection(S, parts)
    BY DEF Surjection
  <2> QED BY <2>1, FS_Surjection
<1>2. ASSUME NEW x \in S PROVE IsFiniteSet(part(x))
  <2>1. IsFiniteSet({x})
    BY FS_Singleton
  <2>2. f[x] \in Int
    OBVIOUS
  <2>3. IsFiniteSet(1 .. f[x])
    BY <2>2, FS_Interval
  <2> QED BY <2>1, <2>3, FS_Product
<1>3. \A T \in parts : IsFiniteSet(T)
  BY <1>2
<1>4. IsFiniteSet(UNION parts)
  BY <1>1, <1>3, FS_UNION
<1> QED
  BY <1>4 DEF Units

(***************************************************************************)
(* A total of natural amounts is a natural number.                         *)
(***************************************************************************)
LEMMA TotalType ==
  ASSUME NEW S, IsFiniteSet(S), NEW f \in [S -> Nat]
  PROVE  Total(f) \in Nat
BY UnitsFinite, FS_CardinalityType DEF Total

(* The units of a function are pairs of a point and a count up to its value. *)
LEMMA UnitsMember ==
  ASSUME NEW S, NEW f \in [S -> Nat]
  PROVE  /\ \A x, n : <<x, n>> \in Units(f) <=> x \in S /\ n \in 1 .. f[x]
         /\ \A u \in Units(f) : u = <<u[1], u[2]>> /\ u[1] \in S /\ u[2] \in 1 .. f[u[1]]
BY DEF Units

(* Zeros do not count: a sum over part of the domain is one over all of it. *)
LEMMA TotalRestrict ==
  ASSUME NEW S, NEW T \in SUBSET S, NEW f \in [T -> Nat]
  PROVE  Total(f) = Total([x \in S |-> IF x \in T THEN f[x] ELSE 0])
<1> DEFINE all == [x \in S |-> IF x \in T THEN f[x] ELSE 0]
<1>1. all \in [S -> Nat]
  OBVIOUS
<1>2. ASSUME NEW u \in Units(f) PROVE u \in Units(all)
  <2>1. u = <<u[1], u[2]>> /\ u[1] \in T /\ u[2] \in 1 .. f[u[1]]
    BY UnitsMember
  <2>2. all[u[1]] = f[u[1]]
    BY <2>1
  <2> HIDE DEF all
  <2>3. <<u[1], u[2]>> \in Units(all)
    BY <1>1, <2>1, <2>2, UnitsMember
  <2> QED BY <2>1, <2>3
<1>3. ASSUME NEW u \in Units(all) PROVE u \in Units(f)
  <2>1. u = <<u[1], u[2]>> /\ u[1] \in S /\ u[2] \in 1 .. all[u[1]]
    <3> HIDE DEF all
    <3> QED BY <1>1, UnitsMember
  <2>2. u[1] \in T /\ all[u[1]] = f[u[1]]
    BY <2>1
  <2> HIDE DEF all
  <2>3. <<u[1], u[2]>> \in Units(f)
    BY <2>1, <2>2, UnitsMember
  <2> QED BY <2>1, <2>3
<1> HIDE DEF all
<1>4. Units(f) = Units(all)
  BY <1>2, <1>3
<1> QED BY <1>4 DEF Total, all

(* A sum of zeros is zero. *)
LEMMA TotalZero ==
  ASSUME NEW S, NEW f \in [S -> Nat], \A x \in S : f[x] = 0
  PROVE  Total(f) = 0
<1>1. Units(f) = {}
  BY UnitsMember
<1> QED BY <1>1, FS_EmptySet DEF Total

(* A sum grows with its terms. *)
LEMMA TotalMonotone ==
  ASSUME NEW S, IsFiniteSet(S), NEW f \in [S -> Nat], NEW g \in [S -> Nat],
         \A x \in S : f[x] <= g[x]
  PROVE  Total(f) <= Total(g)
<1>1. ASSUME NEW u \in Units(f) PROVE u \in Units(g)
  <2>1. u = <<u[1], u[2]>> /\ u[1] \in S /\ u[2] \in 1 .. f[u[1]]
    BY UnitsMember
  <2>2. f[u[1]] \in Nat /\ g[u[1]] \in Nat /\ f[u[1]] <= g[u[1]]
    BY <2>1
  <2>3. u[2] \in 1 .. g[u[1]]
    BY <2>1, <2>2
  <2>4. <<u[1], u[2]>> \in Units(g)
    BY <2>1, <2>3, UnitsMember
  <2> QED BY <2>1, <2>4
<1>2. Units(f) \in SUBSET Units(g)
  BY <1>1
<1> QED BY <1>2, UnitsFinite, FS_Subset DEF Total

(* The sum of a pointwise sum: the units of g, counted on from those of f. *)
LEMMA TotalSum ==
  ASSUME NEW S, IsFiniteSet(S), NEW f \in [S -> Nat], NEW g \in [S -> Nat],
         NEW h \in [S -> Nat], \A x \in S : h[x] = f[x] + g[x]
  PROVE  Total(h) = Total(f) + Total(g)
<1> DEFINE shift   == [u \in Units(g) |-> <<u[1], f[u[1]] + u[2]>>]
           shifted == {shift[u] : u \in Units(g)}
<1>1. \A u \in Units(g) : /\ u = <<u[1], u[2]>> /\ u[1] \in S /\ u[2] \in 1 .. g[u[1]]
                          /\ shift[u] = <<u[1], f[u[1]] + u[2]>>
                          /\ f[u[1]] \in Nat /\ g[u[1]] \in Nat
                          /\ h[u[1]] = f[u[1]] + g[u[1]]
  BY UnitsMember
<1>2. IsFiniteSet(shifted) /\ Cardinality(shifted) = Total(g)
  <2>1. shift \in Surjection(Units(g), shifted)
    BY DEF Surjection
  <2>2. ASSUME NEW u \in Units(g), NEW v \in Units(g), shift[u] = shift[v] PROVE u = v
    <3>1. u[1] = v[1] /\ f[u[1]] + u[2] = f[v[1]] + v[2]
      BY <1>1, <2>2
    <3>2. u[2] = v[2]
      <4>1. f[u[1]] \in Nat /\ u[2] \in 1 .. g[u[1]] /\ v[2] \in 1 .. g[v[1]]
        BY <1>1
      <4> QED BY <3>1, <4>1
    <3> QED BY <1>1, <3>1, <3>2
  <2>3. shift \in [Units(g) -> shifted]
    BY DEF Surjection
  <2>4. shift \in Injection(Units(g), shifted)
    <3> HIDE DEF shift, shifted
    <3> QED BY <2>2, <2>3 DEF Injection, IsInjective
  <2>5. ExistsBijection(Units(g), shifted)
    BY <2>1, <2>4 DEF Bijection, ExistsBijection
  <2> HIDE DEF shift, shifted
  <2> QED BY <2>5, UnitsFinite, FS_Bijection DEF Total
<1>3. Units(f) \cap shifted = {}
  <2> SUFFICES ASSUME NEW u \in Units(g), shift[u] \in Units(f) PROVE FALSE
    OBVIOUS
  <2>1. f[u[1]] + u[2] \in 1 .. f[u[1]]
    BY <1>1, UnitsMember
  <2> HIDE DEF shift
  <2>2. f[u[1]] \in Nat /\ u[2] \in Int /\ u[2] >= 1
    BY <1>1
  <2> QED BY <2>1, <2>2
<1>4. Units(h) = Units(f) \cup shifted
  <2>1. ASSUME NEW v \in Units(f) PROVE v \in Units(h)
    <3>1. v = <<v[1], v[2]>> /\ v[1] \in S /\ v[2] \in 1 .. f[v[1]]
      BY UnitsMember
    <3>2. h[v[1]] = f[v[1]] + g[v[1]] /\ f[v[1]] \in Nat /\ g[v[1]] \in Nat
      BY <3>1
    <3>3. v[2] \in 1 .. h[v[1]]
      BY <3>1, <3>2
    <3>4. <<v[1], v[2]>> \in Units(h)
      BY <3>1, <3>3, UnitsMember
    <3> QED BY <3>1, <3>4
  <2>2. ASSUME NEW u \in Units(g) PROVE shift[u] \in Units(h)
    <3>1. f[u[1]] + u[2] \in 1 .. h[u[1]]
      <4> HIDE DEF shift
      <4>1. /\ f[u[1]] \in Nat /\ g[u[1]] \in Nat /\ u[2] \in Int /\ u[2] >= 1
            /\ u[2] <= g[u[1]] /\ h[u[1]] = f[u[1]] + g[u[1]]
        BY <1>1
      <4> QED BY <4>1
    <3> QED BY <1>1, <3>1, UnitsMember
  <2>3. ASSUME NEW v \in Units(h), v \notin Units(f) PROVE v \in shifted
    <3> DEFINE u == <<v[1], v[2] - f[v[1]]>>
    <3>1. v = <<v[1], v[2]>> /\ v[1] \in S /\ v[2] \in 1 .. h[v[1]]
      BY UnitsMember
    <3>2. h[v[1]] = f[v[1]] + g[v[1]] /\ f[v[1]] \in Nat /\ g[v[1]] \in Nat
      BY <3>1
    <3>3. v[2] \notin 1 .. f[v[1]]
      BY <2>3, <3>1, UnitsMember
    <3>4. v[2] - f[v[1]] \in 1 .. g[v[1]] /\ f[v[1]] + (v[2] - f[v[1]]) = v[2]
      BY <3>1, <3>2, <3>3
    <3>5. u \in Units(g)
      BY <3>1, <3>4, UnitsMember
    <3>6. shift[u] = v
      BY <3>1, <3>4, <3>5
    <3> QED BY <3>5, <3>6
  <2> QED BY <2>1, <2>2, <2>3
<1> HIDE DEF shifted
<1>5. IsFiniteSet(Units(f)) /\ Total(f) \in Nat /\ Total(g) \in Nat
  BY UnitsFinite, TotalType
<1>6. Cardinality(Units(h)) = Cardinality(Units(f)) + Cardinality(shifted) - Cardinality({})
  BY <1>2, <1>3, <1>4, <1>5, FS_Union
<1> QED BY <1>2, <1>5, <1>6, FS_EmptySet DEF Total

(* The sum of a function that is zero but at one point. *)
LEMMA TotalSingle ==
  ASSUME NEW S, NEW f \in [S -> Nat], NEW x \in S, \A y \in S \ {x} : f[y] = 0
  PROVE  Total(f) = f[x]
<1> DEFINE v == f[x]
<1>1. v \in Nat
  OBVIOUS
<1>2. ASSUME NEW u \in Units(f) PROVE u \in {x} \X (1 .. v)
  <2>1. u = <<u[1], u[2]>> /\ u[1] \in S /\ u[2] \in 1 .. f[u[1]]
    BY <1>1, UnitsMember
  <2>2. u[1] = x
    BY <2>1
  <2> QED BY <1>1, <2>1, <2>2
<1>3. ASSUME NEW u \in {x} \X (1 .. v) PROVE u \in Units(f)
  <2>1. u = <<x, u[2]>> /\ u[2] \in 1 .. f[x]
    BY <1>1
  <2>2. <<x, u[2]>> \in Units(f)
    BY <1>1, <2>1, UnitsMember
  <2> QED BY <2>1, <2>2
<1>4. Units(f) = {x} \X (1 .. v)
  BY <1>2, <1>3
<1>5. IsFiniteSet({x}) /\ Cardinality({x}) = 1
  BY FS_Singleton
<1>6. IsFiniteSet(1 .. v) /\ Cardinality(1 .. v) = v
  BY <1>1, FS_Interval
<1>7. Cardinality({x} \X (1 .. v)) = v
  <2> HIDE DEF v
  <2>1. Cardinality({x} \X (1 .. v)) = Cardinality({x}) * Cardinality(1 .. v)
    BY <1>5, <1>6, FS_Product
  <2> QED BY <1>1, <1>5, <1>6, <2>1
<1> QED BY <1>4, <1>7 DEF Total

(* Two functions that differ at most at x: so do their sums. *)
LEMMA TotalUpdate ==
  ASSUME NEW S, IsFiniteSet(S), NEW f \in [S -> Nat], NEW g \in [S -> Nat], NEW x \in S,
         \A y \in S \ {x} : f[y] = g[y]
  PROVE  Total(g) + f[x] = Total(f) + g[x]
<1> DEFINE rest == [y \in S |-> IF y = x THEN 0 ELSE f[y]]
           old  == [y \in S |-> IF y = x THEN f[x] ELSE 0]
           new  == [y \in S |-> IF y = x THEN g[x] ELSE 0]
<1>1. rest \in [S -> Nat] /\ old \in [S -> Nat] /\ new \in [S -> Nat]
  OBVIOUS
<1>2. \A y \in S : f[y] = rest[y] + old[y]
  OBVIOUS
<1>3. \A y \in S : g[y] = rest[y] + new[y]
  OBVIOUS
<1>4. f[x] \in Nat /\ g[x] \in Nat
  OBVIOUS
<1>5. Total(old) = f[x] /\ Total(new) = g[x]
  BY <1>1, TotalSingle
<1> HIDE DEF rest, old, new
<1>6. Total(f) = Total(rest) + Total(old)
  BY <1>1, <1>2, TotalSum
<1>7. Total(g) = Total(rest) + Total(new)
  BY <1>1, <1>3, TotalSum
<1>8. Total(rest) \in Nat
  BY <1>1, TotalType
<1> QED BY <1>4, <1>5, <1>6, <1>7, <1>8

(* A term is at most the sum. *)
LEMMA TotalBound ==
  ASSUME NEW S, IsFiniteSet(S), NEW f \in [S -> Nat], NEW x \in S
  PROVE  f[x] <= Total(f)
<1> DEFINE at == [y \in S |-> IF y = x THEN f[x] ELSE 0]
<1>1. at \in [S -> Nat] /\ \A y \in S : at[y] <= f[y]
  OBVIOUS
<1>2. Total(at) = f[x]
  BY TotalSingle
<1> HIDE DEF at
<1> QED BY <1>1, <1>2, TotalMonotone

(* A sum of natural amounts is zero only if every amount is. *)
LEMMA TotalPositive ==
  ASSUME NEW S, IsFiniteSet(S), NEW f \in [S -> Nat], Total(f) > 0
  PROVE  \E x \in S : f[x] > 0
<1> SUFFICES ASSUME \A x \in S : f[x] = 0 PROVE FALSE
  OBVIOUS
<1> QED BY TotalZero

-----------------------------------------------------------------------------
(***************************************************************************)
(* Taking `need` from the amounts `av`, each as far as those before it in  *)
(* a total order do not cover it, takes the whole need, or all there is.   *)
(* The order is given by the sets of what comes before.  The argument      *)
(* numbers the units along the order: those taken are the first ones.      *)
(***************************************************************************)
LEMMA GreedyTotal ==
  ASSUME NEW S, IsFiniteSet(S), NEW av \in [S -> Nat], NEW need \in Nat,
         NEW before \in [S -> SUBSET S],
         \A x \in S : x \notin before[x],
         \A x, y \in S : x \in before[y] => before[x] \subseteq before[y],
         \A x, y \in S : x = y \/ x \in before[y] \/ y \in before[x],
         NEW d \in [S -> Nat],
         \A x \in S : d[x] = Least(av[x], Positive(need - Total([y \in before[x] |-> av[y]])))
  PROVE  Total(d) = Least(need, Total(av))
<1> DEFINE pre    == [x \in S |-> Total([y \in before[x] |-> av[y]])]
           upto(x) == [y \in S |-> IF y \in before[x] THEN av[y] ELSE 0]
           all    == Total(av)
           pos    == [u \in Units(av) |-> pre[u[1]] + u[2]]
           most   == Least(need, all)
<1>1. all \in Nat /\ most \in Nat /\ most <= need /\ most <= all
  BY TotalType DEF Least
<1>2. ASSUME NEW x \in S
      PROVE  upto(x) \in [S -> Nat] /\ pre[x] = Total(upto(x)) /\ pre[x] \in Nat
  <2>1. [y \in before[x] |-> av[y]] \in [before[x] -> Nat]
    OBVIOUS
  <2>2. upto(x) = [y \in S |-> IF y \in before[x] THEN [z \in before[x] |-> av[z]][y] ELSE 0]
    OBVIOUS
  <2>3. upto(x) \in [S -> Nat]
    OBVIOUS
  <2>4. Total(upto(x)) \in Nat
    BY <2>3, TotalType
  <2>5. pre[x] = Total(upto(x))
    BY <2>1, <2>2, TotalRestrict
  <2> QED BY <2>3, <2>4, <2>5
<1>3. ASSUME NEW x \in S, NEW f \in [S -> Nat], \A y \in S : upto(x)[y] <= f[y], av[x] <= f[x]
      PROVE  pre[x] + av[x] <= Total(f)
  <2> DEFINE at  == [y \in S |-> IF y = x THEN av[x] ELSE 0]
             sum == [y \in S |-> upto(x)[y] + at[y]]
  <2>1. at \in [S -> Nat] /\ sum \in [S -> Nat] /\ \A y \in S : sum[y] <= f[y]
    BY <1>3
  <2>2. Total(at) = av[x]
    BY TotalSingle
  <2>3. \A y \in S : sum[y] = upto(x)[y] + at[y]
    OBVIOUS
  <2> DEFINE ahead == upto(x)
  <2>4. ahead \in [S -> Nat] /\ \A y \in S : sum[y] = ahead[y] + at[y]
    BY <1>2, <2>3
  <2> HIDE DEF ahead, at, sum
  <2>5. Total(sum) = Total(ahead) + Total(at)
    BY <2>1, <2>4, TotalSum
  <2> HIDE DEF pre, upto
  <2>6. Total(sum) <= Total(f)
    BY <2>1, TotalMonotone
  <2> QED BY <1>2, <2>2, <2>5, <2>6 DEF ahead
<1>4. ASSUME NEW x \in S PROVE pre[x] + av[x] <= all
  BY <1>3
<1>5. ASSUME NEW x \in S, NEW y \in S, x \in before[y] PROVE pre[x] + av[x] <= pre[y]
  <2>1. \A z \in S : upto(x)[z] <= upto(y)[z]
    BY <1>5
  <2>2. av[x] <= upto(y)[x]
    BY <1>5
  <2> HIDE DEF upto, pre
  <2> QED BY <1>2, <1>3, <2>1, <2>2
<1> HIDE DEF pre, upto, all, most
<1>6. ASSUME NEW u \in Units(av)
      PROVE  /\ u = <<u[1], u[2]>> /\ u[1] \in S /\ u[2] \in 1 .. av[u[1]]
             /\ av[u[1]] \in Nat /\ pre[u[1]] \in Nat
             /\ pos[u] = pre[u[1]] + u[2] /\ pos[u] \in 1 .. all
             /\ pos[u] <= need <=> u[2] <= need - pre[u[1]]
  <2>1. u = <<u[1], u[2]>> /\ u[1] \in S /\ u[2] \in 1 .. av[u[1]]
    BY UnitsMember
  <2>2. av[u[1]] \in Nat /\ pre[u[1]] \in Nat /\ pre[u[1]] + av[u[1]] <= all
    BY <1>2, <1>4, <2>1
  <2>3. pos[u] = pre[u[1]] + u[2]
    OBVIOUS
  <2> HIDE DEF pos
  <2> QED BY <1>1, <2>1, <2>2, <2>3
<1>7. ASSUME NEW u \in Units(av), NEW v \in Units(av), pos[u] = pos[v] PROVE u = v
  <2> HIDE DEF pos
  <2>1. PICK x \in S, m \in Int : /\ m \in 1 .. av[x] /\ u = <<x, m>>
                                   /\ av[x] \in Nat /\ pre[x] \in Nat /\ pos[u] = pre[x] + m
    BY <1>6
  <2>2. PICK y \in S, n \in Int : /\ n \in 1 .. av[y] /\ v = <<y, n>>
                                   /\ av[y] \in Nat /\ pre[y] \in Nat /\ pos[v] = pre[y] + n
    BY <1>6
  <2>3. pre[x] + m = pre[y] + n /\ m \in 1 .. av[x] /\ n \in 1 .. av[y]
    BY <1>7, <2>1, <2>2
  <2>4. CASE x = y
    BY <2>1, <2>2, <2>3, <2>4
  <2>5. x \notin before[y]
    BY <1>5, <2>1, <2>2, <2>3
  <2>6. y \notin before[x]
    BY <1>5, <2>1, <2>2, <2>3
  <2> QED BY <2>4, <2>5, <2>6
<1>8. ASSUME NEW n \in 1 .. all PROVE \E u \in Units(av) : pos[u] = n
  <2>1. pos \in [Units(av) -> 1 .. all]
    BY <1>6
  <2>2. pos \in Injection(Units(av), 1 .. all)
    <3> HIDE DEF pos
    <3> QED BY <1>7, <2>1 DEF Injection, IsInjective
  <2>3. IsFiniteSet(1 .. all) /\ Cardinality(1 .. all) = all
    BY <1>1, FS_Interval
  <2>4. Cardinality(Units(av)) = all
    BY DEF all, Total
  <2> HIDE DEF pos
  <2>5. pos \in Surjection(Units(av), 1 .. all)
    BY <2>2, <2>3, <2>4, FS_Injection
  <2> QED BY <2>5 DEF Surjection
<1>9. ASSUME NEW u PROVE u \in Units(d) <=> u \in Units(av) /\ pos[u] <= need
  <2>1. ASSUME NEW x \in S
        PROVE  /\ d[x] \in Nat /\ d[x] <= av[x]
               /\ \A n \in 1 .. av[x] : n <= d[x] <=> n <= need - pre[x]
    <3>1. d[x] = Least(av[x], Positive(need - pre[x])) /\ av[x] \in Nat /\ d[x] \in Nat
      BY DEF pre
    <3>2. pre[x] \in Nat
      BY <1>2
    <3> QED BY <3>1, <3>2 DEF Least, Positive
  <2>2. ASSUME u \in Units(d) PROVE u \in Units(av) /\ pos[u] <= need
    <3>1. u = <<u[1], u[2]>> /\ u[1] \in S /\ u[2] \in 1 .. d[u[1]]
      BY <2>2, UnitsMember
    <3>2. u[2] \in 1 .. av[u[1]] /\ u[2] <= need - pre[u[1]]
      BY <2>1, <3>1
    <3>3. <<u[1], u[2]>> \in Units(av)
      BY <3>1, <3>2, UnitsMember
    <3>4. u \in Units(av)
      BY <3>1, <3>3
    <3> HIDE DEF pos
    <3> QED BY <1>6, <3>2, <3>4
  <2>3. ASSUME u \in Units(av), pos[u] <= need PROVE u \in Units(d)
    <3> HIDE DEF pos
    <3>1. /\ u = <<u[1], u[2]>> /\ u[1] \in S /\ u[2] \in 1 .. av[u[1]]
          /\ u[2] <= need - pre[u[1]]
      BY <1>6, <2>3
    <3>2. u[2] \in 1 .. d[u[1]]
      BY <2>1, <3>1
    <3>3. <<u[1], u[2]>> \in Units(d)
      BY <3>1, <3>2, UnitsMember
    <3> QED BY <3>1, <3>3
  <2> QED BY <2>2, <2>3
<1> DEFINE taken == [u \in Units(d) |-> pos[u]]
<1>10. taken \in Bijection(Units(d), 1 .. most)
  <2> HIDE DEF pos
  <2>1. ASSUME NEW u \in Units(d) PROVE taken[u] = pos[u] /\ taken[u] \in 1 .. most
    <3>1. u \in Units(av) /\ pos[u] <= need /\ pos[u] \in 1 .. all
      BY <1>6, <1>9
    <3> QED BY <1>1, <3>1 DEF most, Least
  <2>2. ASSUME NEW n \in 1 .. most PROVE \E u \in Units(d) : taken[u] = n
    <3>1. n \in 1 .. all /\ n <= need
      BY <1>1
    <3>2. PICK u \in Units(av) : pos[u] = n
      BY <1>8, <3>1
    <3>3. u \in Units(d)
      BY <1>9, <3>1, <3>2
    <3> QED BY <2>1, <3>2, <3>3
  <2>3. taken \in [Units(d) -> 1 .. most]
    BY <2>1
  <2>4. ASSUME NEW u \in Units(d), NEW v \in Units(d), taken[u] = taken[v] PROVE u = v
    BY <1>7, <1>9, <2>1, <2>4
  <2> HIDE DEF taken
  <2> QED BY <2>2, <2>3, <2>4 DEF Bijection, Injection, Surjection, IsInjective
<1>11. Cardinality(1 .. most) = Cardinality(Units(d))
  <2> HIDE DEF taken
  <2> QED BY <1>10, UnitsFinite, FS_Bijection DEF ExistsBijection
<1>12. Cardinality(1 .. most) = most
  BY <1>1, FS_Interval
<1> QED BY <1>11, <1>12 DEF Total, most, all

-----------------------------------------------------------------------------
(***************************************************************************)
(* The waterfall as a function of natural amounts: its answer is well      *)
(* typed, draws each source within its headroom, the sum within the        *)
(* request and both limits, and allows only what it has funded.            *)
(***************************************************************************)
Sound(w, mode, requested, plan, allocation, reservedCredit, emergencyCredit, enterprise) ==
  /\ w \in [decision : Outcomes, alloc : Nat, reserved : Nat, emergency : Nat,
            reason : {"none", "plan_limit_exceeded", "budget_exceeded",
                      "enterprise_ceiling_exceeded"}]
  /\ Fits(w.alloc, allocation) /\ w.reserved <= reservedCredit
  /\ allocation = Unbounded => w.alloc = 0
  /\ w.emergency <= emergencyCredit
  /\ w.alloc + w.reserved + w.emergency <= requested
  /\ Fits(w.alloc + w.reserved + w.emergency, plan)
  /\ Fits(w.alloc + w.reserved + w.emergency, enterprise)
  /\ (w.decision \in {"ALLOW", "ALLOW_WITH_CREDITS"} /\ mode # "SHADOW") =>
        /\ Fits(requested, plan) /\ Fits(requested, enterprise)
        /\ w.alloc + w.reserved + w.emergency
             = IF allocation = Unbounded THEN 0 ELSE requested

(* Stage by stage, each of the four ways the waterfall returns is sound. *)
LEMMA WaterfallAnswer ==
  ASSUME NEW mode \in Modes, NEW requested \in Nat, NEW plan \in Headrooms,
         NEW allocation \in Headrooms, NEW reservedCredit \in Nat,
         NEW emergencyCredit \in Nat, NEW enterprise \in Headrooms
  PROVE  Sound(Waterfall(mode, requested, plan, allocation, reservedCredit,
                         emergencyCredit, enterprise),
               mode, requested, plan, allocation, reservedCredit, emergencyCredit,
               enterprise)
<1> DEFINE w == Waterfall(mode, requested, plan, allocation, reservedCredit,
                          emergencyCredit, enterprise)
<1> DEFINE target     == FundingTarget(requested, enterprise)
           alloc      == IF allocation = Unbounded THEN 0 ELSE Least(target, allocation)
           afterAlloc == IF allocation = Unbounded THEN 0 ELSE target - alloc
           reserved   == Least(afterAlloc, reservedCredit)
           emergency  == Least(afterAlloc - reserved, emergencyCredit)
           unfunded   == afterAlloc - reserved - emergency
           sum        == alloc + reserved + emergency
<1>1. /\ target \in Nat /\ target <= requested /\ Fits(target, enterprise)
      /\ Fits(requested, enterprise) => target = requested
  BY DEF FundingTarget, UpTo, Fits, Headrooms, Unbounded
<1>2. /\ alloc \in Nat /\ reserved \in Nat /\ emergency \in Nat /\ unfunded \in Nat
      /\ Fits(alloc, allocation) /\ reserved <= reservedCredit
      /\ emergency <= emergencyCredit /\ sum <= target
      /\ allocation = Unbounded => alloc = 0 /\ sum = 0
      /\ allocation # Unbounded => sum + unfunded = target
  <2> HIDE DEF target
  <2> QED BY <1>1 DEF Least, Fits, Headrooms, Unbounded
<1>3. Fits(sum, enterprise) /\ sum <= requested
  <2> HIDE DEF target, sum
  <2>1. sum \in Nat /\ sum <= target
    BY <1>2 DEF sum
  <2> QED BY <1>1, <2>1 DEF Fits, Headrooms, Unbounded
<1>4. CASE ~Fits(requested, plan)
  <2>1. w = Violation(mode, "plan_limit_exceeded", 0, 0, 0)
    BY <1>4 DEF Waterfall
  <2> QED
    BY <2>1, <1>4 DEF Sound, Violation, ModeViolationDecision, Modes, Outcomes, Fits, Headrooms,
                      Unbounded
<1>5. CASE Fits(requested, plan) /\ unfunded > 0
  <2>1. w = Violation(mode, "budget_exceeded", alloc, reserved, emergency)
    BY <1>5 DEF Waterfall
  <2> HIDE DEF alloc, reserved, emergency, target
  <2> QED
    BY <2>1, <1>2, <1>3, <1>5
       DEF Sound, Violation, ModeViolationDecision, Modes, Outcomes, Fits, Headrooms, Unbounded
<1>6. CASE Fits(requested, plan) /\ unfunded = 0 /\ ~Fits(requested, enterprise)
  <2>1. w = Violation(mode, "enterprise_ceiling_exceeded", alloc, reserved, emergency)
    BY <1>6 DEF Waterfall
  <2> HIDE DEF alloc, reserved, emergency, target
  <2> QED
    BY <2>1, <1>2, <1>3, <1>6
       DEF Sound, Violation, ModeViolationDecision, Modes, Outcomes, Fits, Headrooms, Unbounded
<1>7. CASE Fits(requested, plan) /\ unfunded = 0 /\ Fits(requested, enterprise)
  <2>1. w = [decision |-> IF reserved + emergency = 0 THEN "ALLOW" ELSE "ALLOW_WITH_CREDITS",
             alloc |-> alloc, reserved |-> reserved, emergency |-> emergency,
             reason |-> "none"]
    BY <1>7 DEF Waterfall
  <2>2. unfunded = 0 /\ target = requested
    BY <1>7, <1>1
  <2> HIDE DEF alloc, reserved, emergency, target
  <2> QED
    BY <2>1, <2>2, <1>2, <1>3, <1>7 DEF Sound, Outcomes, Fits, Headrooms, Unbounded
<1>8. unfunded > 0 \/ unfunded = 0
  BY <1>2
<1> QED
  BY <1>4, <1>5, <1>6, <1>7, <1>8

(***************************************************************************)
(* In HARD mode a request is refused exactly if it breaks a limit or the   *)
(* three sources together do not cover it.                                 *)
(***************************************************************************)
LEMMA HardRefuses ==
  ASSUME NEW requested \in Nat, NEW plan \in Headrooms, NEW allocation \in Headrooms,
         NEW reservedCredit \in Nat, NEW emergencyCredit \in Nat, NEW enterprise \in Headrooms
  PROVE  Waterfall("HARD", requested, plan, allocation, reservedCredit, emergencyCredit,
                   enterprise).decision # "DENY"
           <=> /\ Fits(requested, plan) /\ Fits(requested, enterprise)
               /\ \/ allocation = Unbounded
                  \/ requested <= allocation + reservedCredit + emergencyCredit
<1> DEFINE w == Waterfall("HARD", requested, plan, allocation, reservedCredit, emergencyCredit,
                          enterprise)
           target     == FundingTarget(requested, enterprise)
           alloc      == IF allocation = Unbounded THEN 0 ELSE Least(target, allocation)
           afterAlloc == IF allocation = Unbounded THEN 0 ELSE target - alloc
           reserved   == Least(afterAlloc, reservedCredit)
           emergency  == Least(afterAlloc - reserved, emergencyCredit)
           unfunded   == afterAlloc - reserved - emergency
           covered    == allocation = Unbounded
                           \/ target <= allocation + reservedCredit + emergencyCredit
<1>1. target \in Nat /\ (Fits(requested, enterprise) => target = requested)
  BY DEF FundingTarget, UpTo, Fits, Headrooms, Unbounded
<1>2. unfunded \in Nat /\ (unfunded = 0 <=> covered)
  <2> HIDE DEF target
  <2> QED BY <1>1 DEF Least, Headrooms, Unbounded
<1>3. CASE ~Fits(requested, plan)
  <2>1. w = Violation("HARD", "plan_limit_exceeded", 0, 0, 0)
    BY <1>3 DEF Waterfall
  <2> QED BY <1>3, <2>1 DEF Violation, ModeViolationDecision
<1>4. CASE Fits(requested, plan) /\ unfunded > 0
  <2>1. w = Violation("HARD", "budget_exceeded", alloc, reserved, emergency)
    BY <1>4 DEF Waterfall
  <2>2. w.decision = "DENY"
    BY <2>1 DEF Violation, ModeViolationDecision
  <2>3. ~covered
    <3> HIDE DEF unfunded, covered
    <3> QED BY <1>2, <1>4
  <2> HIDE DEF w
  <2>4. Fits(requested, enterprise) => target = requested
    BY <1>1
  <2> HIDE DEF target
  <2> QED BY <2>2, <2>3, <2>4 DEF w
<1>5. CASE Fits(requested, plan) /\ unfunded = 0 /\ ~Fits(requested, enterprise)
  <2>1. w = Violation("HARD", "enterprise_ceiling_exceeded", alloc, reserved, emergency)
    BY <1>5 DEF Waterfall
  <2> QED BY <1>5, <2>1 DEF Violation, ModeViolationDecision
<1>6. CASE Fits(requested, plan) /\ unfunded = 0 /\ Fits(requested, enterprise)
  <2>1. w = [decision |-> IF reserved + emergency = 0 THEN "ALLOW" ELSE "ALLOW_WITH_CREDITS",
             alloc |-> alloc, reserved |-> reserved, emergency |-> emergency,
             reason |-> "none"]
    BY <1>6 DEF Waterfall
  <2>2. w.decision # "DENY"
    BY <2>1
  <2>3. covered
    <3> HIDE DEF unfunded, covered
    <3> QED BY <1>2, <1>6
  <2> HIDE DEF w
  <2>4. target = requested
    BY <1>1, <1>6
  <2> HIDE DEF target
  <2> QED BY <1>6, <2>2, <2>3, <2>4 DEF w
<1> HIDE DEF unfunded
<1> QED BY <1>2, <1>3, <1>4, <1>5, <1>6
=============================================================================
