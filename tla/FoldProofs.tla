----------------------------- MODULE FoldProofs -----------------------------
(***************************************************************************)
(* Facts about the sums and products of the values of a function that the  *)
(* models take from the community modules.  The library defines both by    *)
(* recursion over sets and states nothing about them; here the recursion   *)
(* is shown to be well defined and each fact proved for all finite sets by *)
(* looking at a smallest set without it.                                   *)
(***************************************************************************)
EXTENDS Integers, FiniteSets, Functions, FiniteSetTheorems, TLAPS

-----------------------------------------------------------------------------
(* The recursion, for sums and products *)

Base(kind) == IF kind = "sum" THEN 0 ELSE 1
Combined(kind, a, b) == IF kind = "sum" THEN a + b ELSE a * b
Some(s) == CHOOSE x \in s : TRUE

StepOf(kind, f, g, s) ==
  IF s = {} THEN Base(kind) ELSE Combined(kind, f[Some(s)], g[s \ {Some(s)}])

(* g gives the result for f on each subset of S. *)
Defines(kind, g, f, S) == g = [s \in SUBSET S |-> StepOf(kind, f, g, s)]

ResultOf(kind, f, S) == (CHOOSE g : Defines(kind, g, f, S))[S]

Product(f, S) == FoldFunctionOnSet(LAMBDA x, y : x * y, 1, f, S)

LEMMA SumIsResult ==
  ASSUME NEW f, NEW S
  PROVE  SumFunctionOnSet(f, S) = ResultOf("sum", f, S)
  BY DEF SumFunctionOnSet, FoldFunctionOnSet, MapThenFoldSet, ResultOf, Defines, StepOf,
         Base, Combined, Some

LEMMA ProductIsResult ==
  ASSUME NEW f, NEW S
  PROVE  Product(f, S) = ResultOf("product", f, S)
  BY DEF Product, FoldFunctionOnSet, MapThenFoldSet, ResultOf, Defines, StepOf,
         Base, Combined, Some

(* A family of subsets of a finite set that is not empty has a smallest. *)
LEMMA SmallestSet ==
  ASSUME NEW S, IsFiniteSet(S), NEW T, T \subseteq SUBSET S, T # {}
  PROVE  \E t \in T : \A u \in T : u \subseteq t => u = t
<1>1. IsWellFoundedOn(StrictSubsetOrdering(S), SUBSET S)
  BY FS_StrictSubsetOrderingWellFounded, FS_FiniteSubsetsOfFinite
<1>2. PICK t \in T : \A u \in T : ~(<<u, t>> \in StrictSubsetOrdering(S))
  BY <1>1, WFMin
<1>3. \A u \in T : u \subseteq t => u = t
  BY <1>2 DEF StrictSubsetOrdering
<1> QED BY <1>3

LEMMA SomeMember ==
  ASSUME NEW s, s # {}
  PROVE  Some(s) \in s
  BY DEF Some

(* Two functions defined by the recursion agree where both are defined. *)
LEMMA DefinesUnique ==
  ASSUME NEW kind, NEW f, NEW S, IsFiniteSet(S), NEW t \in SUBSET S,
         NEW g, Defines(kind, g, f, S), NEW h, Defines(kind, h, f, t)
  PROVE  \A s \in SUBSET t : g[s] = h[s]
<1> DEFINE Bad == {s \in SUBSET t : g[s] # h[s]}
<1> SUFFICES ASSUME Bad # {} PROVE FALSE
  OBVIOUS
<1>1. IsFiniteSet(t)
  BY FS_Subset
<1>2. Bad \subseteq SUBSET t
  OBVIOUS
<1>3. PICK s \in Bad : \A u \in Bad : u \subseteq s => u = s
  <2> HIDE DEF Bad
  <2> QED BY <1>1, <1>2, SmallestSet
<1>4. s \in SUBSET t /\ s \in SUBSET S /\ g[s] # h[s]
  OBVIOUS
<1>5. g[s] = StepOf(kind, f, g, s) /\ h[s] = StepOf(kind, f, h, s)
  BY <1>4 DEF Defines
<1>6. s # {}
  BY <1>4, <1>5 DEF StepOf
<1>7. s \ {Some(s)} \in SUBSET t /\ s \ {Some(s)} \subseteq s /\ s \ {Some(s)} # s
  BY <1>4, <1>6, SomeMember
<1>8. g[s \ {Some(s)}] = h[s \ {Some(s)}]
  BY <1>3, <1>7
<1> QED BY <1>4, <1>5, <1>6, <1>8 DEF StepOf

(* There is such a function, on all the subsets of a finite set. *)
LEMMA DefinesExists ==
  ASSUME NEW kind, NEW f, NEW S, IsFiniteSet(S)
  PROVE  \E g : Defines(kind, g, f, S)
<1> DEFINE Bad == {s \in SUBSET S : ~\E g : Defines(kind, g, f, s)}
<1> SUFFICES ASSUME Bad # {} PROVE FALSE
  OBVIOUS
<1>1. Bad \subseteq SUBSET S
  OBVIOUS
<1>2. PICK s \in Bad : \A u \in Bad : u \subseteq s => u = s
  <2> HIDE DEF Bad
  <2> QED BY <1>1, SmallestSet
<1>3. s \in SUBSET S /\ ~\E g : Defines(kind, g, f, s)
  OBVIOUS
<1>4. \A u \in SUBSET s : u # s => \E g : Defines(kind, g, f, u)
  BY <1>2, <1>3
<1> HIDE DEF Bad
<1> DEFINE G(u) == (CHOOSE g : Defines(kind, g, f, u))[u]
           below == [u \in SUBSET s |-> G(u)]
           new == [u \in SUBSET s |-> IF u = s THEN StepOf(kind, f, below, s) ELSE G(u)]
<1>5. ASSUME NEW u \in SUBSET s
      PROVE  new[u] = StepOf(kind, f, new, u)
  <2>1. CASE u = s
    <3>1. new[s] = StepOf(kind, f, below, s)
      OBVIOUS
    <3>2. CASE s = {}
      BY <2>1, <3>1, <3>2 DEF StepOf
    <3>3. CASE s # {}
      <4>1. s \ {Some(s)} \in SUBSET s /\ s \ {Some(s)} # s
        BY <3>3, SomeMember
      <4>2. new[s \ {Some(s)}] = below[s \ {Some(s)}]
        BY <4>1
      <4> HIDE DEF new, below
      <4> QED BY <2>1, <3>1, <3>3, <4>2 DEF StepOf
    <3> QED BY <3>2, <3>3
  <2>2. CASE u # s
    <3> DEFINE gu == CHOOSE g : Defines(kind, g, f, u)
    <3>1. Defines(kind, gu, f, u)
      BY <1>4, <2>2
    <3>2. new[u] = gu[u]
      BY <2>2
    <3> HIDE DEF gu
    <3>3. gu[u] = StepOf(kind, f, gu, u)
      <4>1. gu = [v \in SUBSET u |-> StepOf(kind, f, gu, v)]
        BY <3>1 DEF Defines
      <4>2. u \in SUBSET u
        OBVIOUS
      <4> QED BY <4>1, <4>2
    <3>4. CASE u = {}
      BY <3>2, <3>3, <3>4 DEF StepOf
    <3>5. CASE u # {}
      <4> DEFINE v == u \ {Some(u)}
                 gv == CHOOSE g : Defines(kind, g, f, v)
      <4>1. v \in SUBSET s /\ v # s /\ v \in SUBSET u /\ v \in SUBSET v
        BY <2>2, <3>5, SomeMember
      <4>2. Defines(kind, gv, f, v)
        BY <1>4, <4>1
      <4>3. new[v] = gv[v]
        BY <4>1
      <4>4. IsFiniteSet(u)
        BY <1>3, FS_Subset
      <4> HIDE DEF gv, new
      <4>5. gu[v] = gv[v]
        <5> HIDE DEF v
        <5> QED BY <3>1, <4>1, <4>2, <4>4, DefinesUnique
      <4>6. new[v] = gu[v]
        BY <4>3, <4>5
      <4> QED BY <3>2, <3>3, <3>5, <4>6 DEF StepOf
    <3> QED BY <3>4, <3>5
  <2> QED BY <2>1, <2>2
<1>6. Defines(kind, new, f, s)
  <2>1. new = [u \in SUBSET s |-> new[u]]
    OBVIOUS
  <2> HIDE DEF new
  <2>2. [u \in SUBSET s |-> new[u]] = [u \in SUBSET s |-> StepOf(kind, f, new, u)]
    BY <1>5
  <2> QED BY <2>1, <2>2 DEF Defines
<1> HIDE DEF new
<1> QED BY <1>3, <1>6

(* The result for a finite set, from that for one element less. *)
LEMMA ResultStep ==
  ASSUME NEW kind, NEW f, NEW S, IsFiniteSet(S)
  PROVE  ResultOf(kind, f, S) =
           IF S = {} THEN Base(kind)
           ELSE Combined(kind, f[Some(S)], ResultOf(kind, f, S \ {Some(S)}))
<1> DEFINE g == CHOOSE x : Defines(kind, x, f, S)
           t == S \ {Some(S)}
           h == CHOOSE x : Defines(kind, x, f, t)
<1>1. t \in SUBSET S /\ IsFiniteSet(t)
  BY FS_Subset
<1>2. Defines(kind, g, f, S)
  BY DefinesExists
<1>3. Defines(kind, h, f, t)
  <2> HIDE DEF t
  <2> QED BY <1>1, DefinesExists
<1>4. ResultOf(kind, f, S) = g[S] /\ ResultOf(kind, f, t) = h[t]
  BY DEF ResultOf
<1> HIDE DEF g, h
<1>5. g[S] = StepOf(kind, f, g, S)
  BY <1>2 DEF Defines
<1>6. g[t] = h[t]
  <2> HIDE DEF t
  <2> QED BY <1>1, <1>2, <1>3, DefinesUnique
<1> QED BY <1>4, <1>5, <1>6 DEF StepOf


-----------------------------------------------------------------------------
(* Sums and products of integers: the order does not matter *)

LEMMA CombinedOrder ==
  ASSUME NEW kind, NEW a \in Int, NEW b \in Int, NEW c \in Int
  PROVE  /\ Combined(kind, a, b) \in Int
         /\ Combined(kind, a, Combined(kind, b, c)) = Combined(kind, b, Combined(kind, a, c))
<1>1. a + (b + c) = b + (a + c) /\ a + b \in Int
  OBVIOUS
<1>2. a * (b * c) = b * (a * c) /\ a * b \in Int
  BY SMT
<1> QED BY <1>1, <1>2 DEF Combined

LEMMA ResultAny ==
  ASSUME NEW kind, NEW f, NEW S, IsFiniteSet(S), \A x \in S : f[x] \in Int
  PROVE  /\ ResultOf(kind, f, S) \in Int
         /\ \A x \in S : ResultOf(kind, f, S) = Combined(kind, f[x], ResultOf(kind, f, S \ {x}))
<1> DEFINE OK(s) ==
             /\ ResultOf(kind, f, s) \in Int
             /\ \A x \in s : ResultOf(kind, f, s) = Combined(kind, f[x], ResultOf(kind, f, s \ {x}))
           Bad == {s \in SUBSET S : ~OK(s)}
<1> SUFFICES ASSUME Bad # {} PROVE FALSE
  OBVIOUS
<1> HIDE DEF OK
<1>1. PICK s \in Bad : \A u \in Bad : u \subseteq s => u = s
  <2>1. Bad \subseteq SUBSET S
    OBVIOUS
  <2> HIDE DEF Bad
  <2> QED BY <2>1, SmallestSet
<1>2. s \in SUBSET S /\ ~OK(s)
  OBVIOUS
<1>3. ASSUME NEW u \in SUBSET s, u # s PROVE OK(u)
  BY <1>1, <1>2, <1>3
<1> HIDE DEF Bad
<1>4. IsFiniteSet(s)
  BY <1>2, FS_Subset
<1>5. CASE s = {}
  <2>1. ResultOf(kind, f, s) = Base(kind)
    BY <1>4, <1>5, ResultStep
  <2>2. Base(kind) \in Int
    BY DEF Base
  <2> QED BY <1>2, <1>5, <2>1, <2>2 DEF OK
<1>6. CASE s # {}
  <2> DEFINE y == Some(s)
             rest == ResultOf(kind, f, s \ {y})
  <2>1. y \in s
    BY <1>6, SomeMember
  <2>2. ResultOf(kind, f, s) = Combined(kind, f[y], rest)
    BY <1>4, <1>6, ResultStep
  <2> HIDE DEF y
  <2>3. OK(s \ {y}) /\ f[y] \in Int
    <3>1. s \ {y} \in SUBSET s /\ s \ {y} # s
      BY <2>1
    <3> QED BY <1>2, <1>3, <2>1, <3>1
  <2>4. rest \in Int
    BY <2>3 DEF OK
  <2>5. ResultOf(kind, f, s) \in Int
    BY <2>2, <2>3, <2>4, CombinedOrder
  <2>6. ASSUME NEW x \in s
        PROVE  ResultOf(kind, f, s) = Combined(kind, f[x], ResultOf(kind, f, s \ {x}))
    <3>1. CASE x = y
      BY <2>2, <3>1
    <3>2. CASE x # y
      <4> DEFINE both == ResultOf(kind, f, (s \ {y}) \ {x})
      <4>1. rest = Combined(kind, f[x], both)
        BY <2>3, <3>2 DEF OK
      <4>2. ResultOf(kind, f, s \ {x}) = Combined(kind, f[y], ResultOf(kind, f, (s \ {x}) \ {y}))
        <5>1. OK(s \ {x}) /\ y \in s \ {x}
          <6>1. s \ {x} \in SUBSET s /\ s \ {x} # s
            OBVIOUS
          <6> QED BY <1>3, <2>1, <3>2, <6>1
        <5> QED BY <5>1 DEF OK
      <4>3. (s \ {x}) \ {y} = (s \ {y}) \ {x}
        OBVIOUS
      <4>4. both \in Int
        <5>1. (s \ {y}) \ {x} \in SUBSET s /\ (s \ {y}) \ {x} # s
          OBVIOUS
        <5> QED BY <1>3, <5>1 DEF OK
      <4>5. f[x] \in Int
        BY <1>2
      <4> HIDE DEF both, rest
      <4>6. Combined(kind, f[y], Combined(kind, f[x], both))
              = Combined(kind, f[x], Combined(kind, f[y], both))
        BY <2>3, <4>4, <4>5, CombinedOrder
      <4>7. ResultOf(kind, f, s \ {x}) = Combined(kind, f[y], both)
        BY <4>2, <4>3 DEF both
      <4> QED BY <2>2, <4>1, <4>6, <4>7
    <3> QED BY <3>1, <3>2
  <2> QED BY <1>2, <2>5, <2>6 DEF OK
<1> QED BY <1>5, <1>6

(* The sum over a finite set of integers: nothing for the empty set, and   *)
(* for any member its value and the sum over the others.                   *)
LEMMA SumOfInts ==
  ASSUME NEW f, NEW S, IsFiniteSet(S), \A x \in S : f[x] \in Int
  PROVE  /\ SumFunctionOnSet(f, S) \in Int
         /\ SumFunctionOnSet(f, {}) = 0
         /\ \A x \in S : SumFunctionOnSet(f, S) = f[x] + SumFunctionOnSet(f, S \ {x})
<1>1. SumFunctionOnSet(f, {}) = 0
  <2>1. IsFiniteSet({})
    BY FS_EmptySet
  <2>2. ResultOf("sum", f, {}) = Base("sum")
    BY <2>1, ResultStep
  <2> QED BY <2>2, SumIsResult DEF Base
<1>2. /\ ResultOf("sum", f, S) \in Int
      /\ \A x \in S :
           ResultOf("sum", f, S) = Combined("sum", f[x], ResultOf("sum", f, S \ {x}))
  BY ResultAny
<1>3. \A x \in S : SumFunctionOnSet(f, S \ {x}) = ResultOf("sum", f, S \ {x})
  BY SumIsResult
<1>4. SumFunctionOnSet(f, S) = ResultOf("sum", f, S)
  BY SumIsResult
<1> QED BY <1>1, <1>2, <1>3, <1>4 DEF Combined

(* The product in the same way. *)
LEMMA ProductOfInts ==
  ASSUME NEW f, NEW S, IsFiniteSet(S), \A x \in S : f[x] \in Int
  PROVE  /\ Product(f, S) \in Int
         /\ Product(f, {}) = 1
         /\ \A x \in S : Product(f, S) = f[x] * Product(f, S \ {x})
<1>1. Product(f, {}) = 1
  <2>1. IsFiniteSet({})
    BY FS_EmptySet
  <2>2. ResultOf("product", f, {}) = Base("product")
    BY <2>1, ResultStep
  <2> QED BY <2>2, ProductIsResult DEF Base
<1>2. /\ ResultOf("product", f, S) \in Int
      /\ \A x \in S :
           ResultOf("product", f, S) = Combined("product", f[x], ResultOf("product", f, S \ {x}))
  BY ResultAny
<1>3. \A x \in S : Product(f, S \ {x}) = ResultOf("product", f, S \ {x})
  BY ProductIsResult
<1>4. Product(f, S) = ResultOf("product", f, S)
  BY ProductIsResult
<1> QED BY <1>1, <1>2, <1>3, <1>4 DEF Combined

-----------------------------------------------------------------------------
(* Induction over a finite set, for a family of its subsets *)

(* A family with the empty set that is closed under adding an element      *)
(* holds the whole set.                                                    *)
LEMMA SetGrows ==
  ASSUME NEW S, IsFiniteSet(S), NEW T, {} \in T,
         \A t \in SUBSET S : \A x \in t : t \ {x} \in T => t \in T
  PROVE  S \in T
<1> DEFINE Bad == {s \in SUBSET S : s \notin T}
<1> SUFFICES ASSUME S \notin T PROVE FALSE
  OBVIOUS
<1>1. Bad \subseteq SUBSET S /\ Bad # {}
  OBVIOUS
<1>2. PICK s \in Bad : \A u \in Bad : u \subseteq s => u = s
  <2> HIDE DEF Bad
  <2> QED BY <1>1, SmallestSet
<1>3. s \in SUBSET S /\ s \notin T /\ s # {}
  OBVIOUS
<1>4. PICK x \in s : TRUE
  BY <1>3
<1>5. s \ {x} \in SUBSET S /\ s \ {x} \subseteq s /\ s \ {x} # s
  BY <1>3, <1>4
<1>6. s \ {x} \in T
  BY <1>2, <1>5
<1> QED BY <1>3, <1>6


(* Of nothing the sum is 0 and the product 1. *)
LEMMA OfNothing ==
  ASSUME NEW f
  PROVE  SumFunctionOnSet(f, {}) = 0 /\ Product(f, {}) = 1
<1>1. IsFiniteSet({}) /\ \A x \in {} : f[x] \in Int
  BY FS_EmptySet
<1>2. SumFunctionOnSet(f, {}) = 0
  BY <1>1, SumOfInts
<1>3. Product(f, {}) = 1
  BY <1>1, ProductOfInts
<1> QED BY <1>2, <1>3

(* Sum and product of a subset of a finite set of integers. *)
LEMMA SumOfSubset ==
  ASSUME NEW f, NEW S, IsFiniteSet(S), \A x \in S : f[x] \in Int, NEW t \in SUBSET S
  PROVE  /\ SumFunctionOnSet(f, t) \in Int
         /\ \A x \in t : SumFunctionOnSet(f, t) = f[x] + SumFunctionOnSet(f, t \ {x})
<1>1. IsFiniteSet(t) /\ \A x \in t : f[x] \in Int
  BY FS_Subset
<1> QED BY <1>1, SumOfInts

LEMMA SumNat ==
  ASSUME NEW f, NEW S, IsFiniteSet(S), \A x \in S : f[x] \in Nat
  PROVE  SumFunctionOnSet(f, S) \in Nat
<1> DEFINE T == {t \in SUBSET S : SumFunctionOnSet(f, t) \in Nat}
<1>1. \A x \in S : f[x] \in Int
  OBVIOUS
<1>2. {} \in T
  BY OfNothing
<1>3. ASSUME NEW t \in SUBSET S, NEW x \in t, t \ {x} \in T PROVE t \in T
  <2>1. SumFunctionOnSet(f, t) = f[x] + SumFunctionOnSet(f, t \ {x})
    BY <1>1, SumOfSubset
  <2>2. f[x] \in Nat /\ SumFunctionOnSet(f, t \ {x}) \in Nat
    BY <1>3
  <2> QED BY <2>1, <2>2
<1>4. \A t \in SUBSET S : \A x \in t : t \ {x} \in T => t \in T
  BY <1>3
<1>5. S \in T
  <2> HIDE DEF T
  <2> QED BY <1>2, <1>4, SetGrows
<1> QED BY <1>5

(* No value is more than the sum of all, if none is negative. *)
LEMMA PartOfSum ==
  ASSUME NEW f, NEW S, IsFiniteSet(S), \A x \in S : f[x] \in Nat, NEW x \in S
  PROVE  SumFunctionOnSet(f, S) \in Nat /\ f[x] <= SumFunctionOnSet(f, S)
<1>1. \A y \in S : f[y] \in Int
  OBVIOUS
<1>2. SumFunctionOnSet(f, S) = f[x] + SumFunctionOnSet(f, S \ {x})
  BY <1>1, SumOfInts
<1> DEFINE rest == S \ {x}
<1>3. SumFunctionOnSet(f, rest) \in Nat
  <2>1. IsFiniteSet(rest)
    BY FS_Subset
  <2>2. \A y \in rest : f[y] \in Nat
    OBVIOUS
  <2> HIDE DEF rest
  <2> QED BY <2>1, <2>2, SumNat
<1>4. f[x] \in Nat
  OBVIOUS
<1> QED BY <1>2, <1>3, <1>4

LEMMA ProductPositive ==
  ASSUME NEW f, NEW S, IsFiniteSet(S), \A x \in S : f[x] \in Nat \ {0}
  PROVE  Product(f, S) \in Nat \ {0}
<1> DEFINE T == {t \in SUBSET S : Product(f, t) \in Nat \ {0}}
<1>1. \A x \in S : f[x] \in Int
  OBVIOUS
<1>2. {} \in T
  <2>1. 1 \in Nat \ {0}
    OBVIOUS
  <2> QED BY <2>1, OfNothing
<1>3. ASSUME NEW t \in SUBSET S, NEW x \in t, t \ {x} \in T PROVE t \in T
  <2>1. IsFiniteSet(t) /\ \A y \in t : f[y] \in Int
    BY FS_Subset
  <2>2. Product(f, t) = f[x] * Product(f, t \ {x})
    BY <2>1, ProductOfInts
  <2>3. f[x] \in Nat \ {0} /\ Product(f, t \ {x}) \in Nat \ {0}
    BY <1>3
  <2>4. \A a, b \in Nat \ {0} : a * b \in Nat \ {0}
    BY SMT
  <2> QED BY <2>2, <2>3, <2>4
<1>4. \A t \in SUBSET S : \A x \in t : t \ {x} \in T => t \in T
  BY <1>3
<1>5. S \in T
  <2> HIDE DEF T
  <2> QED BY <1>2, <1>4, SetGrows
<1> QED BY <1>5

(* Shares of r in proportion to the weights w, rounded down: their sum is  *)
(* short by less than one for each.  m is what the weights are divided by. *)
LEMMA SumOfShares ==
  ASSUME NEW S, IsFiniteSet(S), NEW m \in Nat, m > 0, NEW r \in Nat, NEW w, NEW q,
         \A x \in S : /\ w[x] \in Nat /\ q[x] \in Nat
                      /\ m * q[x] <= w[x] * r /\ w[x] * r <= m * q[x] + (m - 1)
  PROVE  /\ m * SumFunctionOnSet(q, S) <= SumFunctionOnSet(w, S) * r
         /\ SumFunctionOnSet(w, S) * r <= m * SumFunctionOnSet(q, S) + Cardinality(S) * (m - 1)
<1> DEFINE OK(t) ==
             /\ m * SumFunctionOnSet(q, t) <= SumFunctionOnSet(w, t) * r
             /\ SumFunctionOnSet(w, t) * r
                  <= m * SumFunctionOnSet(q, t) + Cardinality(t) * (m - 1)
           T == {t \in SUBSET S : OK(t)}
<1>1. (\A x \in S : w[x] \in Int) /\ (\A x \in S : q[x] \in Int)
  OBVIOUS
<1>2. {} \in T
  <2>1. SumFunctionOnSet(w, {}) = 0 /\ SumFunctionOnSet(q, {}) = 0 /\ Cardinality({}) = 0
    BY OfNothing, FS_EmptySet
  <2>2. m * 0 <= 0 * r /\ 0 * r <= m * 0 + 0 * (m - 1)
    OBVIOUS
  <2>3. OK({})
    BY <2>1, <2>2
  <2> HIDE DEF OK
  <2> QED BY <2>3
<1>3. ASSUME NEW t \in SUBSET S, NEW x \in t, t \ {x} \in T PROVE t \in T
  <2> DEFINE a == SumFunctionOnSet(q, t \ {x})
             b == SumFunctionOnSet(w, t \ {x})
             n == Cardinality(t \ {x})
  <2>1. SumFunctionOnSet(q, t) = q[x] + a /\ SumFunctionOnSet(w, t) = w[x] + b
    <3>1. SumFunctionOnSet(q, t) = q[x] + SumFunctionOnSet(q, t \ {x})
      BY <1>1, SumOfSubset
    <3>2. SumFunctionOnSet(w, t) = w[x] + SumFunctionOnSet(w, t \ {x})
      BY <1>1, SumOfSubset
    <3> QED BY <3>1, <3>2
  <2>2. a \in Int /\ b \in Int
    <3>1. t \ {x} \in SUBSET S
      OBVIOUS
    <3> QED BY <1>1, <3>1, SumOfSubset
  <2>3. Cardinality(t) = n + 1 /\ n \in Nat
    <3>1. IsFiniteSet(t)
      BY FS_Subset
    <3>2. IsFiniteSet(t \ {x}) /\ Cardinality(t \ {x}) = Cardinality(t) - 1
      BY <3>1, FS_RemoveElement
    <3>3. Cardinality(t) \in Nat /\ n \in Nat
      BY <3>1, <3>2, FS_CardinalityType
    <3> QED BY <3>2, <3>3
  <2>4. m * a <= b * r /\ b * r <= m * a + n * (m - 1)
    BY <1>3
  <2>5. /\ w[x] \in Nat /\ q[x] \in Nat
        /\ m * q[x] <= w[x] * r /\ w[x] * r <= m * q[x] + (m - 1)
    OBVIOUS
  <2> HIDE DEF a, b, n
  <2>6. /\ m * (q[x] + a) = m * q[x] + m * a
        /\ (w[x] + b) * r = w[x] * r + b * r
        /\ (n + 1) * (m - 1) = n * (m - 1) + (m - 1)
        /\ m * q[x] \in Int /\ m * a \in Int /\ w[x] * r \in Int /\ b * r \in Int
        /\ n * (m - 1) \in Int
    BY <2>2, <2>3, <2>5
  <2>7. /\ m * (q[x] + a) <= (w[x] + b) * r
        /\ (w[x] + b) * r <= m * (q[x] + a) + (n + 1) * (m - 1)
    BY <2>4, <2>5, <2>6
  <2>8. OK(t)
    BY <2>1, <2>3, <2>7
  <2> HIDE DEF OK
  <2> QED BY <2>8
<1>4. \A t \in SUBSET S : \A x \in t : t \ {x} \in T => t \in T
  BY <1>3
<1>5. S \in T
  <2> HIDE DEF T
  <2> QED BY <1>2, <1>4, SetGrows
<1> QED BY <1>5


(* The sum of a constant. *)
LEMMA SumOfConstant ==
  ASSUME NEW S, IsFiniteSet(S), NEW k \in Nat, NEW f, \A x \in S : f[x] = k
  PROVE  SumFunctionOnSet(f, S) = Cardinality(S) * k
<1> DEFINE T == {t \in SUBSET S : SumFunctionOnSet(f, t) = Cardinality(t) * k}
<1>1. \A x \in S : f[x] \in Int
  OBVIOUS
<1>2. {} \in T
  <2>1. SumFunctionOnSet(f, {}) = 0 /\ Cardinality({}) = 0
    BY OfNothing, FS_EmptySet
  <2>2. 0 * k = 0
    OBVIOUS
  <2> QED BY <2>1, <2>2
<1>3. ASSUME NEW t \in SUBSET S, NEW x \in t, t \ {x} \in T PROVE t \in T
  <2> DEFINE n == Cardinality(t \ {x})
  <2>1. SumFunctionOnSet(f, t) = k + SumFunctionOnSet(f, t \ {x})
    BY <1>1, SumOfSubset
  <2>2. Cardinality(t) = n + 1 /\ n \in Nat
    <3>1. IsFiniteSet(t)
      BY FS_Subset
    <3>2. IsFiniteSet(t \ {x}) /\ Cardinality(t \ {x}) = Cardinality(t) - 1
      BY <3>1, FS_RemoveElement
    <3>3. Cardinality(t) \in Nat /\ n \in Nat
      BY <3>1, <3>2, FS_CardinalityType
    <3> QED BY <3>2, <3>3
  <2>3. SumFunctionOnSet(f, t \ {x}) = n * k
    BY <1>3
  <2> HIDE DEF n
  <2>4. k + n * k = (n + 1) * k
    BY <2>2
  <2> QED BY <2>1, <2>2, <2>3, <2>4
<1>4. \A t \in SUBSET S : \A x \in t : t \ {x} \in T => t \in T
  BY <1>3
<1>5. S \in T
  <2> HIDE DEF T
  <2> QED BY <1>2, <1>4, SetGrows
<1> QED BY <1>5

=============================================================================
