-------------------------- MODULE CountingLemmas --------------------------
(***************************************************************************)
(* Least and greatest numbers, induction over the subsets of a finite set, *)
(* and the sums of the community modules.  These replace the induction     *)
(* rules that take an operator, which the provers cannot instantiate: to   *)
(* show that all numbers have a property, look at the least that has not;  *)
(* to show that all subsets have one, give the set of those that have it.  *)
(***************************************************************************)
EXTENDS Integers, Functions, FiniteSetTheorems, WellFoundedInduction, TLAPS

\* A set of natural numbers that is not empty has a least element.
LEMMA Least ==
  ASSUME NEW S \in SUBSET Nat, S # {}
  PROVE  \E x \in S : \A y \in S : x <= y
<1>1. OpToRel(<, Nat) = {ss \in Nat \X Nat : ss[1] < ss[2]}
  BY DEF OpToRel
<1>2. \E x \in S : \A y \in S : ~ (<<y, x>> \in OpToRel(<, Nat))
  BY NatLessThanWellFounded, WFMin
<1>3. PICK x \in S : \A y \in S : ~ (<<y, x>> \in {ss \in Nat \X Nat : ss[1] < ss[2]})
  BY <1>1, <1>2
<1>4. \A y \in S : ~ (y < x)
  BY <1>3
<1>5. QED BY <1>4

\* A bounded one has a greatest.
LEMMA Greatest ==
  ASSUME NEW n \in Nat, NEW S \in SUBSET (1..n), S # {}
  PROVE  \E x \in S : \A y \in S : y <= x
<1> DEFINE T == {n - x : x \in S}
<1>1. T \in SUBSET Nat
  <2>1. \A x \in S : x \in 1..n
    OBVIOUS
  <2>2. \A x \in 1..n : n - x \in Nat
    OBVIOUS
  <2>3. QED BY <2>1, <2>2
<1>2. T # {}
  OBVIOUS
<1>3. \E x \in T : \A y \in T : x <= y
  BY <1>1, <1>2, Least
<1>4. PICK x \in S : \A y \in S : n - x <= n - y
  BY <1>3
<1>5. \A y \in S : y \in Nat
  OBVIOUS
<1>6. QED BY <1>4, <1>5

\* Counting up: what holds of 0, and of a number when of the one before it,
\* holds of every number up to n.
LEMMA CountUp ==
  ASSUME NEW n \in Nat, NEW Good, 0 \in Good,
         \A m \in 1 .. n : m - 1 \in Good => m \in Good
  PROVE  \A m \in 0 .. n : m \in Good
<1> DEFINE bad == (0 .. n) \ Good
<1>1. SUFFICES ASSUME bad # {} PROVE FALSE
  OBVIOUS
<1>2. bad \in SUBSET Nat
  OBVIOUS
<1>3. PICK m \in bad : \A k \in bad : m <= k
  BY <1>1, <1>2, Least
<1>4. m \in 1 .. n
  OBVIOUS
<1>5. m - 1 \in 0 .. n /\ m - 1 \notin bad
  BY <1>3, <1>4
<1>6. QED BY <1>4, <1>5

-----------------------------------------------------------------------------
(* Finite sets.                                                            *)

\* Induction over the subsets of a finite set, the property being the set of
\* those that have it: a subset has it when it does without any one element.
LEMMA SubsetInduction ==
  ASSUME NEW S, IsFiniteSet(S), NEW Good,
         \A T \in SUBSET S : (\A x \in T : T \ {x} \in Good) => T \in Good
  PROVE  \A T \in SUBSET S : T \in Good
<1> DEFINE bad == {Cardinality(T) : T \in (SUBSET S) \ Good}
<1>1. SUFFICES ASSUME (SUBSET S) \ Good # {} PROVE FALSE
  OBVIOUS
<1>2. \A T \in SUBSET S : IsFiniteSet(T) /\ Cardinality(T) \in Nat
  BY FS_Subset, FS_CardinalityType
<1>3. bad \in SUBSET Nat /\ bad # {}
  BY <1>1, <1>2
<1>4. \E n \in bad : \A m \in bad : n <= m
  BY <1>3, Least
<1>5. PICK T \in (SUBSET S) \ Good : \A U \in (SUBSET S) \ Good : Cardinality(T) <= Cardinality(U)
  BY <1>4
<1>6. ASSUME NEW x \in T PROVE T \ {x} \in Good
  <2>1. Cardinality(T \ {x}) = Cardinality(T) - 1
    BY <1>2, FS_RemoveElement
  <2>2. QED BY <1>2, <1>5, <2>1
<1>7. QED BY <1>5, <1>6

\* At least two when there are two that differ.
LEMMA AtLeastTwo ==
  ASSUME NEW S, IsFiniteSet(S)
  PROVE  Cardinality(S) >= 2 <=> \E x, y \in S : x # y
<1>1. Cardinality(S) \in Nat /\ (Cardinality(S) = 0 <=> S = {})
  BY FS_CardinalityType, FS_EmptySet
<1>2. Cardinality(S) = 1 <=> \E x : S = {x}
  BY FS_Singleton
<1>3. CASE Cardinality(S) >= 2
  <2>1. S # {} /\ \A x : S # {x}
    BY <1>1, <1>2, <1>3
  <2>2. PICK x \in S : TRUE
    BY <2>1
  <2>3. \E y \in S : y # x
    BY <2>1, <2>2
  <2>4. QED BY <1>3, <2>3
<1>4. CASE ~ Cardinality(S) >= 2
  <2>1. Cardinality(S) = 0 \/ Cardinality(S) = 1
    BY <1>1, <1>4
  <2>2. S = {} \/ \E x : S = {x}
    BY <1>1, <1>2, <2>1
  <2>3. QED BY <1>4, <2>2
<1>5. QED BY <1>3, <1>4

-----------------------------------------------------------------------------
(* Sums.                                                                   *)

\* What the sum of the community modules is: a function on the subsets.
IsSum(f, S, g) ==
  g = [s \in SUBSET S |->
        IF s = {} THEN 0 ELSE f[CHOOSE x \in s : TRUE] + g[s \ {CHOOSE x \in s : TRUE}]]

LEMMA SumIsChosen ==
  ASSUME NEW f, NEW S
  PROVE  SumFunctionOnSet(f, S) = (CHOOSE g : IsSum(f, S, g))[S]
BY DEF SumFunctionOnSet, FoldFunctionOnSet, MapThenFoldSet, IsSum

\* One exists: grow it over the subsets of at most n elements.
LEMMA SumExists ==
  ASSUME NEW S, IsFiniteSet(S), NEW f, \A x \in S : f[x] \in Int
  PROVE  \E g \in [SUBSET S -> Int] : IsSum(f, S, g)
<1> DEFINE pick(s) == CHOOSE x \in s : TRUE
           upTo(n) == {s \in SUBSET S : Cardinality(s) <= n}
           value(g, s) == IF s = {} THEN 0 ELSE f[pick(s)] + g[s \ {pick(s)}]
           sums(n) == {g \in [upTo(n) -> Int] : \A s \in upTo(n) : g[s] = value(g, s)}
           bad == {n \in Nat : sums(n) = {}}
<1>1. ASSUME NEW s \in SUBSET S
      PROVE  /\ IsFiniteSet(s) /\ Cardinality(s) \in Nat
             /\ s = {} <=> Cardinality(s) = 0
             /\ s # {} => /\ pick(s) \in s /\ f[pick(s)] \in Int
                          /\ s \ {pick(s)} \in SUBSET S
                          /\ Cardinality(s \ {pick(s)}) = Cardinality(s) - 1
  <2>1. IsFiniteSet(s) /\ Cardinality(s) \in Nat /\ (s = {} <=> Cardinality(s) = 0)
    BY FS_Subset, FS_CardinalityType, FS_EmptySet
  <2>2. s # {} => pick(s) \in s
    OBVIOUS
  <2>3. s # {} => Cardinality(s \ {pick(s)}) = Cardinality(s) - 1
    BY <2>1, <2>2, FS_RemoveElement
  <2> HIDE DEF pick
  <2>4. QED BY <2>1, <2>2, <2>3
<1> HIDE DEF pick
<1>2. ASSUME NEW n \in Nat, n > 0, NEW g \in sums(n - 1)
      PROVE  sums(n) # {}
  <2> DEFINE h == [s \in upTo(n) |-> IF s \in upTo(n - 1) THEN g[s] ELSE value(g, s)]
  <2>1. ASSUME NEW s \in upTo(n), s # {}
        PROVE  s \ {pick(s)} \in upTo(n - 1)
    BY <1>1, <1>2, <2>1
  <2>2. ASSUME NEW s \in upTo(n - 1)
        PROVE  g[s] \in Int /\ g[s] = value(g, s) /\ s \in upTo(n)
    <3>1. s \in SUBSET S /\ Cardinality(s) <= n - 1
      OBVIOUS
    <3>2. Cardinality(s) \in Nat
      BY <1>1, <3>1
    <3>3. Cardinality(s) <= n
      BY <3>1, <3>2
    <3>4. QED BY <3>3
  <2>3. {} \in upTo(n - 1)
    <3>1. Cardinality({}) = 0
      BY FS_EmptySet
    <3>2. QED BY <1>2, <3>1
  <2>4. ASSUME NEW s \in upTo(n)
        PROVE  h[s] \in Int /\ h[s] = value(h, s)
    <3>1. CASE s = {}
      BY <2>2, <2>3, <3>1
    <3>2. CASE s # {}
      <4> DEFINE r == s \ {pick(s)}
      <4>1. r \in upTo(n - 1) /\ f[pick(s)] \in Int
        BY <1>1, <2>1, <3>2
      <4>2. g[r] \in Int /\ h[r] = g[r]
        BY <2>2, <4>1
      <4>3. h[s] = f[pick(s)] + g[r]
        BY <2>2, <3>2
      <4>4. QED BY <3>2, <4>1, <4>2, <4>3
    <3>3. QED BY <3>1, <3>2
  <2>5. h \in sums(n)
    <3>1. h \in [upTo(n) -> Int]
      BY <2>4
    <3> HIDE DEF h
    <3>2. QED BY <2>4, <3>1
  <2>6. QED BY <2>5
<1>3. sums(0) # {}
  <2> DEFINE g == [s \in upTo(0) |-> 0]
  <2>1. ASSUME NEW s \in upTo(0) PROVE s = {}
    <3>1. Cardinality(s) <= 0 /\ Cardinality(s) \in Nat
      BY <1>1
    <3>2. Cardinality(s) = 0
      BY <3>1
    <3>3. QED BY <1>1, <3>2
  <2>2. g \in sums(0)
    BY <2>1
  <2>3. QED BY <2>2
<1>4. bad = {}
  <2> SUFFICES ASSUME bad # {} PROVE FALSE
    OBVIOUS
  <2> HIDE DEF sums
  <2>1. PICK n \in bad : \A m \in bad : n <= m
    BY Least
  <2>2. n \in Nat /\ n # 0 /\ n - 1 \in Nat /\ n - 1 \notin bad
    BY <1>3, <2>1
  <2>3. QED BY <1>2, <2>1, <2>2
<1>5. Cardinality(S) \in Nat /\ upTo(Cardinality(S)) = SUBSET S
  <2>1. \A s \in SUBSET S : Cardinality(s) <= Cardinality(S)
    BY FS_Subset
  <2>2. QED BY <1>1, <2>1
<1>6. PICK g \in sums(Cardinality(S)) : TRUE
  <2> HIDE DEF sums
  <2>1. QED BY <1>4, <1>5
<1>7. g \in [SUBSET S -> Int] /\ \A s \in SUBSET S : g[s] = value(g, s)
  BY <1>5, <1>6
<1>8. g = [s \in SUBSET S |-> value(g, s)]
  BY <1>7
<1>9. QED BY <1>7, <1>8 DEF IsSum, pick


Sum(f, S) == SumFunctionOnSet(f, S)

Chosen(f, S) == CHOOSE g : IsSum(f, S, g)

\* All such functions agree where both are defined.
LEMMA SumsAgree ==
  ASSUME NEW S, IsFiniteSet(S), NEW f, NEW g, IsSum(f, S, g),
         NEW R \in SUBSET S, NEW h, IsSum(f, R, h)
  PROVE  g[R] = h[R]
<1> DEFINE Good == {T \in SUBSET R : g[T] = h[T]}
<1>1. ASSUME NEW T \in SUBSET R, \A x \in T : T \ {x} \in Good
      PROVE  T \in Good
  <2> DEFINE x == CHOOSE y \in T : TRUE
  <2>1. T \in SUBSET S
    OBVIOUS
  <2>2. T # {} => x \in T
    OBVIOUS
  <2>3. g[T] = IF T = {} THEN 0 ELSE f[x] + g[T \ {x}]
    BY <2>1 DEF IsSum
  <2>4. h[T] = IF T = {} THEN 0 ELSE f[x] + h[T \ {x}]
    BY DEF IsSum
  <2> HIDE DEF x
  <2>5. QED BY <1>1, <2>2, <2>3, <2>4
<1>2. IsFiniteSet(R)
  BY FS_Subset
<1> HIDE DEF Good
<1>3. \A T \in SUBSET R : T \in Good
  BY <1>1, <1>2, SubsetInduction
<1>4. QED BY <1>3 DEF Good

\* The sum by its equation.
LEMMA SumStep ==
  ASSUME NEW S, IsFiniteSet(S), NEW f, \A x \in S : f[x] \in Int
  PROVE  /\ Sum(f, S) \in Int
         /\ S = {} => Sum(f, S) = 0
         /\ LET x == CHOOSE y \in S : TRUE IN
            S # {} => Sum(f, S) = f[x] + Sum(f, S \ {x})
<1>1. ASSUME NEW T \in SUBSET S
      PROVE  IsSum(f, T, Chosen(f, T)) /\ Sum(f, T) = Chosen(f, T)[T]
  <2>1. IsFiniteSet(T)
    BY FS_Subset
  <2>2. \E g : IsSum(f, T, g)
    BY <2>1, SumExists
  <2>3. QED BY <2>2, SumIsChosen DEF Chosen, Sum
<1>2. PICK g \in [SUBSET S -> Int] : IsSum(f, S, g)
  BY SumExists
<1>3. \A T \in SUBSET S : Sum(f, T) = g[T]
  BY <1>1, <1>2, SumsAgree
<1>4. \A T \in SUBSET S : g[T] = IF T = {} THEN 0 ELSE
         f[CHOOSE x \in T : TRUE] + g[T \ {CHOOSE x \in T : TRUE}]
  BY <1>2 DEF IsSum
<1>5. QED BY <1>2, <1>3, <1>4

\* Any element may be taken out first.
LEMMA SumRemove ==
  ASSUME NEW S, IsFiniteSet(S), NEW f, \A x \in S : f[x] \in Int, NEW x \in S
  PROVE  Sum(f, S) = f[x] + Sum(f, S \ {x})
<1> DEFINE Good == {T \in SUBSET S : \A y \in T : Sum(f, T) = f[y] + Sum(f, T \ {y})}
<1>1. \A T \in SUBSET S : IsFiniteSet(T) /\ Sum(f, T) \in Int
  BY FS_Subset, SumStep
<1>2. ASSUME NEW T \in SUBSET S, \A y \in T : T \ {y} \in Good
      PROVE  T \in Good
  <2> SUFFICES ASSUME NEW y \in T PROVE Sum(f, T) = f[y] + Sum(f, T \ {y})
    OBVIOUS
  <2> DEFINE c == CHOOSE z \in T : TRUE
  <2>1. c \in T
    OBVIOUS
  <2>2. Sum(f, T) = f[c] + Sum(f, T \ {c})
    BY <1>1, SumStep
  <2> HIDE DEF c
  <2>3. CASE y # c
    <3>1. Sum(f, T \ {c}) = f[y] + Sum(f, (T \ {c}) \ {y})
      BY <1>2, <2>1, <2>3
    <3>2. Sum(f, T \ {y}) = f[c] + Sum(f, (T \ {y}) \ {c})
      BY <1>2, <2>1, <2>3
    <3> DEFINE rest == (T \ {y}) \ {c}
    <3>3. (T \ {c}) \ {y} = rest
      OBVIOUS
    <3>4. f[y] \in Int /\ f[c] \in Int /\ Sum(f, rest) \in Int
      BY <1>1, <2>1
    <3>5. Sum(f, T \ {c}) = f[y] + Sum(f, rest) /\ Sum(f, T \ {y}) = f[c] + Sum(f, rest)
      BY <3>1, <3>2, <3>3
    <3> HIDE DEF rest
    <3>6. QED BY <2>2, <3>4, <3>5
  <2>4. QED BY <2>2, <2>3
<1> HIDE DEF Good
<1>3. \A T \in SUBSET S : T \in Good
  BY <1>2, SubsetInduction
<1>4. QED BY <1>3 DEF Good

\* One element more.
LEMMA SumAdd ==
  ASSUME NEW S, IsFiniteSet(S), NEW y, y \notin S,
         NEW f, \A x \in S \cup {y} : f[x] \in Int
  PROVE  Sum(f, S \cup {y}) = f[y] + Sum(f, S)
<1>1. IsFiniteSet(S \cup {y})
  BY FS_AddElement
<1>2. (S \cup {y}) \ {y} = S
  OBVIOUS
<1>3. y \in S \cup {y}
  OBVIOUS
<1> DEFINE T == S \cup {y}
<1>4. Sum(f, T) = f[y] + Sum(f, T \ {y})
  <2> HIDE DEF T
  <2>1. IsFiniteSet(T) /\ y \in T /\ \A x \in T : f[x] \in Int
    BY <1>1 DEF T
  <2>2. QED BY <2>1, SumRemove
<1>5. QED BY <1>2, <1>4

\* The sum depends on the values in the set alone.
LEMMA SumCongruence ==
  ASSUME NEW S, IsFiniteSet(S), NEW f, NEW g,
         \A x \in S : f[x] \in Int /\ g[x] = f[x]
  PROVE  Sum(f, S) = Sum(g, S)
<1> DEFINE Good == {T \in SUBSET S : Sum(f, T) = Sum(g, T)}
<1>1. ASSUME NEW T \in SUBSET S, \A y \in T : T \ {y} \in Good
      PROVE  T \in Good
  <2>1. IsFiniteSet(T)
    BY FS_Subset
  <2>2. CASE T = {}
    BY <2>1, <2>2, SumStep
  <2>3. CASE T # {}
    <3>1. PICK y \in T : TRUE
      BY <2>3
    <3>2. Sum(f, T) = f[y] + Sum(f, T \ {y}) /\ Sum(g, T) = g[y] + Sum(g, T \ {y})
      BY <2>1, SumRemove
    <3>3. QED BY <1>1, <3>2
  <2>4. QED BY <2>2, <2>3
<1> HIDE DEF Good
<1>2. \A T \in SUBSET S : T \in Good
  BY <1>1, SubsetInduction
<1>3. QED BY <1>2 DEF Good

\* Greater values, a greater sum.
LEMMA SumMonotone ==
  ASSUME NEW S, IsFiniteSet(S), NEW f, NEW g,
         \A x \in S : f[x] \in Int /\ g[x] \in Int /\ f[x] <= g[x]
  PROVE  Sum(f, S) <= Sum(g, S)
<1> DEFINE Good == {T \in SUBSET S : Sum(f, T) <= Sum(g, T)}
<1>1. ASSUME NEW T \in SUBSET S, \A y \in T : T \ {y} \in Good
      PROVE  T \in Good
  <2>1. IsFiniteSet(T)
    BY FS_Subset
  <2>2. CASE T = {}
    BY <2>1, <2>2, SumStep
  <2>3. CASE T # {}
    <3>1. PICK y \in T : TRUE
      BY <2>3
    <3>2. Sum(f, T) = f[y] + Sum(f, T \ {y}) /\ Sum(g, T) = g[y] + Sum(g, T \ {y})
      BY <2>1, SumRemove
    <3>3. Sum(f, T \ {y}) \in Int /\ Sum(g, T \ {y}) \in Int
      BY <2>1, SumStep, FS_Subset
    <3>4. Sum(f, T \ {y}) <= Sum(g, T \ {y}) /\ f[y] \in Int /\ g[y] \in Int /\ f[y] <= g[y]
      BY <1>1
    <3>5. QED BY <3>2, <3>3, <3>4
  <2>4. QED BY <2>2, <2>3
<1> HIDE DEF Good
<1>2. \A T \in SUBSET S : T \in Good
  BY <1>1, SubsetInduction
<1>3. QED BY <1>2 DEF Good

\* A combination of two sums is the sum of the combinations.
LEMMA SumLinear ==
  ASSUME NEW S, IsFiniteSet(S), NEW f, NEW g,
         \A x \in S : f[x] \in Int /\ g[x] \in Int,
         NEW j \in Int, NEW k \in Int,
         NEW h, \A x \in S : h[x] = j * f[x] + k * g[x]
  PROVE  Sum(h, S) = j * Sum(f, S) + k * Sum(g, S)
<1> DEFINE Good == {T \in SUBSET S : Sum(h, T) = j * Sum(f, T) + k * Sum(g, T)}
<1>0. \A x \in S : h[x] \in Int
  OBVIOUS
<1>1. ASSUME NEW T \in SUBSET S, \A y \in T : T \ {y} \in Good
      PROVE  T \in Good
  <2>1. IsFiniteSet(T)
    BY FS_Subset
  <2>2. CASE T = {}
    <3>1. Sum(f, T) = 0 /\ Sum(g, T) = 0 /\ Sum(h, T) = 0
      BY <1>0, <2>1, <2>2, SumStep
    <3>2. 0 = j * 0 + k * 0
      OBVIOUS
    <3>3. QED BY <3>1, <3>2, Zenon
  <2>3. CASE T # {}
    <3>1. PICK y \in T : TRUE
      BY <2>3
    <3>2. /\ Sum(f, T) = f[y] + Sum(f, T \ {y}) /\ Sum(g, T) = g[y] + Sum(g, T \ {y})
          /\ Sum(h, T) = h[y] + Sum(h, T \ {y})
      BY <1>0, <2>1, SumRemove
    <3>3. Sum(f, T \ {y}) \in Int /\ Sum(g, T \ {y}) \in Int
      BY <2>1, SumStep, FS_Subset
    <3>4. /\ Sum(h, T \ {y}) = j * Sum(f, T \ {y}) + k * Sum(g, T \ {y})
          /\ f[y] \in Int /\ g[y] \in Int /\ h[y] = j * f[y] + k * g[y]
      BY <1>1
    <3> DEFINE F == Sum(f, T \ {y})
               G == Sum(g, T \ {y})
    <3>5. Sum(h, T) = (j * f[y] + k * g[y]) + (j * F + k * G)
      BY <3>2, <3>4
    <3>6. F \in Int /\ G \in Int /\ Sum(f, T) = f[y] + F /\ Sum(g, T) = g[y] + G
      BY <3>2, <3>3
    <3> HIDE DEF F, G
    <3>7. (j * f[y] + k * g[y]) + (j * F + k * G) = j * (f[y] + F) + k * (g[y] + G)
      BY <3>4, <3>6
    <3>8. Sum(h, T) = j * Sum(f, T) + k * Sum(g, T)
      BY <3>5, <3>6, <3>7
    <3>9. QED BY <3>8, Zenon
  <2>4. QED BY <2>2, <2>3
<1> HIDE DEF Good
<1>2. \A T \in SUBSET S : T \in Good
  BY <1>1, SubsetInduction
<1>3. QED BY <1>2 DEF Good

\* The difference of two sums is the sum of the differences.
LEMMA SumDifference ==
  ASSUME NEW S, IsFiniteSet(S), NEW f, NEW g,
         \A x \in S : f[x] \in Int /\ g[x] \in Int,
         NEW h, \A x \in S : h[x] = f[x] - g[x]
  PROVE  Sum(h, S) = Sum(f, S) - Sum(g, S)
<1> DEFINE j == 1
           k == -1
<1>1. \A x \in S : h[x] = j * f[x] + k * g[x]
  OBVIOUS
<1>2. j \in Int /\ k \in Int
  OBVIOUS
<1> HIDE DEF j, k
<1>3. Sum(h, S) = j * Sum(f, S) + k * Sum(g, S)
  BY <1>1, <1>2, SumLinear
<1>4. Sum(f, S) \in Int /\ Sum(g, S) \in Int
  BY SumStep
<1>5. QED BY <1>3, <1>4 DEF j, k

\* The sum of one number over and over.
LEMMA SumConstant ==
  ASSUME NEW S, IsFiniteSet(S), NEW n \in Int, NEW f, \A x \in S : f[x] = n
  PROVE  Sum(f, S) = n * Cardinality(S)
<1> DEFINE Good == {T \in SUBSET S : Sum(f, T) = n * Cardinality(T)}
<1>1. ASSUME NEW T \in SUBSET S, \A y \in T : T \ {y} \in Good
      PROVE  T \in Good
  <2>1. IsFiniteSet(T)
    BY FS_Subset
  <2>2. CASE T = {}
    <3>1. Cardinality(T) = 0
      BY <2>2, FS_EmptySet
    <3>2. Sum(f, T) = 0
      BY <2>1, <2>2, SumStep
    <3>3. QED BY <3>1, <3>2
  <2>3. CASE T # {}
    <3>1. PICK y \in T : TRUE
      BY <2>3
    <3>2. Sum(f, T) = f[y] + Sum(f, T \ {y})
      BY <2>1, SumRemove
    <3>3. Sum(f, T \ {y}) = n * Cardinality(T \ {y})
      BY <1>1
    <3>4. Cardinality(T \ {y}) = Cardinality(T) - 1 /\ Cardinality(T) \in Nat
      BY <2>1, FS_RemoveElement, FS_CardinalityType
    <3>5. Sum(f, T) = n + n * (Cardinality(T) - 1)
      BY <3>2, <3>3, <3>4
    <3>6. QED BY <3>4, <3>5
  <2>4. QED BY <2>2, <2>3
<1> HIDE DEF Good
<1>2. \A T \in SUBSET S : T \in Good
  BY <1>1, SubsetInduction
<1>3. QED BY <1>2 DEF Good

\* If no value reaches the mean, neither does their sum; and likewise below.
LEMMA SumBounded ==
  ASSUME NEW S, IsFiniteSet(S), NEW f, \A x \in S : f[x] \in Int,
         NEW k \in Int, NEW n \in Int
  PROVE  /\ (\A x \in S : k * f[x] <= n) => k * Sum(f, S) <= n * Cardinality(S)
         /\ (\A x \in S : k * f[x] >= n) => k * Sum(f, S) >= n * Cardinality(S)
<1> DEFINE g == [x \in S |-> k * f[x]]
           h == [x \in S |-> n]
<1>1. /\ \A x \in S : g[x] = k * f[x] /\ g[x] \in Int
      /\ \A x \in S : h[x] = n /\ h[x] \in Int
  OBVIOUS
<1> DEFINE zero == 0
<1>2. zero \in Int /\ \A x \in S : g[x] = k * f[x] + zero * f[x]
  OBVIOUS
<1> HIDE DEF g, h, zero
<1>3. Sum(g, S) = k * Sum(f, S) + zero * Sum(f, S)
  BY <1>2, SumLinear
<1>4. Sum(f, S) \in Int
  BY SumStep
<1>5. Sum(g, S) = k * Sum(f, S)
  BY <1>3, <1>4 DEF zero
<1>6. Sum(h, S) = n * Cardinality(S)
  BY <1>1, SumConstant
<1>7. (\A x \in S : g[x] <= h[x]) => Sum(g, S) <= Sum(h, S)
  BY <1>1, SumMonotone
<1>8. (\A x \in S : h[x] <= g[x]) => Sum(h, S) <= Sum(g, S)
  BY <1>1, SumMonotone
<1>9. Sum(g, S) \in Int /\ Sum(h, S) \in Int
  BY <1>1, SumStep
<1>10. QED BY <1>1, <1>5, <1>6, <1>7, <1>8, <1>9

\* The sum over two sets that share nothing.
LEMMA SumUnion ==
  ASSUME NEW S, IsFiniteSet(S), NEW R, IsFiniteSet(R), S \cap R = {},
         NEW f, \A x \in S \cup R : f[x] \in Int
  PROVE  Sum(f, S \cup R) = Sum(f, S) + Sum(f, R)
<1> DEFINE Good == {T \in SUBSET R : Sum(f, S \cup T) = Sum(f, S) + Sum(f, T)}
<1>1. ASSUME NEW T \in SUBSET R, \A y \in T : T \ {y} \in Good
      PROVE  T \in Good
  <2>1. IsFiniteSet(T) /\ IsFiniteSet(S \cup T)
    BY FS_Subset, FS_Union
  <2>2. CASE T = {}
    <3>1. S \cup T = S
      BY <2>2
    <3>2. Sum(f, T) = 0 /\ Sum(f, S) \in Int
      BY <2>1, <2>2, SumStep
    <3>3. Sum(f, S \cup T) = Sum(f, S)
      BY <3>1
    <3>4. Sum(f, S \cup T) = Sum(f, S) + Sum(f, T)
      BY <3>2, <3>3
    <3>5. QED BY <3>4
  <2>3. CASE T # {}
    <3>1. PICK y \in T : TRUE
      BY <2>3
    <3>2. Sum(f, T) = f[y] + Sum(f, T \ {y})
      BY <2>1, SumRemove
    <3>3. Sum(f, S \cup T) = f[y] + Sum(f, (S \cup T) \ {y})
      BY <2>1, SumRemove
    <3>4. (S \cup T) \ {y} = S \cup (T \ {y})
      OBVIOUS
    <3>5. Sum(f, S \cup (T \ {y})) = Sum(f, S) + Sum(f, T \ {y})
      BY <1>1
    <3>6. Sum(f, S) \in Int /\ f[y] \in Int
      BY SumStep
    <3>7. IsFiniteSet(T \ {y})
      BY <2>1, FS_Subset
    <3>8. Sum(f, T \ {y}) \in Int
      BY <3>7, SumStep
    <3>9. Sum(f, (S \cup T) \ {y}) = Sum(f, S) + Sum(f, T \ {y})
      BY <3>4, <3>5
    <3>10. Sum(f, S \cup T) = Sum(f, S) + Sum(f, T)
      BY <3>2, <3>3, <3>6, <3>8, <3>9
    <3>11. QED BY <3>10
  <2>4. QED BY <2>2, <2>3
<1> HIDE DEF Good
<1>2. \A T \in SUBSET R : T \in Good
  BY <1>1, SubsetInduction
<1>3. QED BY <1>2 DEF Good

\* A sum of natural numbers, and that of fewer of them.
LEMMA SumOfFewer ==
  ASSUME NEW S, IsFiniteSet(S), NEW R \in SUBSET S, NEW f, \A x \in S : f[x] \in Nat
  PROVE  Sum(f, S) \in Nat /\ Sum(f, R) \in Nat /\ Sum(f, R) <= Sum(f, S)
<1>1. ASSUME NEW T \in SUBSET S
      PROVE  IsFiniteSet(T) /\ Sum(f, T) \in Nat
  <2> DEFINE one == 1
             zero == 0
  <2>1. one \in Int /\ zero \in Int /\ \A x \in T : one * f[x] >= zero
    OBVIOUS
  <2>2. IsFiniteSet(T) /\ \A x \in T : f[x] \in Int
    BY FS_Subset
  <2> HIDE DEF one, zero
  <2>3. one * Sum(f, T) >= zero * Cardinality(T)
    BY <2>1, <2>2, SumBounded
  <2>4. Sum(f, T) \in Int /\ Cardinality(T) \in Nat
    BY <2>2, SumStep, FS_CardinalityType
  <2>5. QED BY <2>2, <2>3, <2>4 DEF one, zero
<1> DEFINE rest == S \ R
<1>2. rest \in SUBSET S /\ R \cap rest = {} /\ R \cup rest = S
  OBVIOUS
<1> HIDE DEF rest
<1>3. \A x \in R \cup rest : f[x] \in Int
  BY <1>2
<1>4. Sum(f, R \cup rest) = Sum(f, R) + Sum(f, rest)
  BY <1>1, <1>2, <1>3, SumUnion
<1>5. Sum(f, R) \in Nat /\ Sum(f, rest) \in Nat /\ Sum(f, S) \in Nat
  BY <1>1, <1>2
<1>6. QED BY <1>2, <1>4, <1>5

\* The sum under other names: e names each element once.
LEMMA SumRenamed ==
  ASSUME NEW S, IsFiniteSet(S), NEW e, \A x, y \in S : e[x] = e[y] => x = y,
         NEW f, NEW g, \A x \in S : g[x] = f[e[x]] /\ f[e[x]] \in Int
  PROVE  Sum(g, S) = Sum(f, {e[x] : x \in S})
<1> DEFINE named(T) == {e[x] : x \in T}
           Good == {T \in SUBSET S : Sum(g, T) = Sum(f, named(T))}
<1>1. ASSUME NEW T \in SUBSET S, \A y \in T : T \ {y} \in Good
      PROVE  T \in Good
  <2>1. IsFiniteSet(T)
    BY FS_Subset
  <2>2. IsFiniteSet(named(T)) /\ \A z \in named(T) : f[z] \in Int
    <3> DEFINE h == [x \in T |-> e[x]]
    <3>1. h \in Surjection(T, named(T))
      BY DEF Surjection
    <3>2. QED BY <2>1, <3>1, FS_Surjection
  <2>3. CASE T = {}
    <3>1. named(T) = {}
      BY <2>3
    <3>2. Sum(g, T) = 0
      BY <2>1, <2>3, SumStep
    <3>3. Sum(f, named(T)) = 0
      BY <2>2, <3>1, SumStep
    <3>4. QED BY <3>2, <3>3
  <2>4. CASE T # {}
    <3>1. PICK y \in T : TRUE
      BY <2>4
    <3>2. Sum(g, T) = g[y] + Sum(g, T \ {y})
      BY <2>1, SumRemove
    <3>3. e[y] \in named(T)
      OBVIOUS
    <3> DEFINE N == named(T)
    <3>4. IsFiniteSet(N) /\ (\A z \in N : f[z] \in Int) /\ e[y] \in N
      BY <2>2, <3>3
    <3>5. N \ {e[y]} = named(T \ {y})
      OBVIOUS
    <3>6. Sum(f, N) = f[e[y]] + Sum(f, N \ {e[y]})
      <4> HIDE DEF N
      <4>1. QED BY <3>4, SumRemove
    <3>7. Sum(g, T \ {y}) = Sum(f, named(T \ {y}))
      BY <1>1
    <3>8. QED BY <3>2, <3>5, <3>6, <3>7
  <2>5. QED BY <2>3, <2>4
<1> HIDE DEF Good
<1>2. \A T \in SUBSET S : T \in Good
  BY <1>1, SubsetInduction
<1>3. QED BY <1>2 DEF Good

\* The elements of a finite set, counted kind by kind.
LEMMA SumOfKinds ==
  ASSUME NEW S, IsFiniteSet(S), NEW F, IsFiniteSet(F), NEW kind,
         \A x \in S : kind[x] \in F,
         NEW c, \A f \in F, W \in SUBSET S :
                   (\A x \in S : x \in W <=> kind[x] = f) => c[f] = Cardinality(W)
  PROVE  Sum(c, F) = Cardinality(S)
<1> DEFINE of(T) == {x \in S : kind[x] \in T}
           fibre(f) == {x \in S : kind[x] = f}
           Good == {T \in SUBSET F : Sum(c, T) = Cardinality(of(T))}
<1>1. /\ \A T : IsFiniteSet(of(T)) /\ Cardinality(of(T)) \in Nat
      /\ \A f : IsFiniteSet(fibre(f)) /\ Cardinality(fibre(f)) \in Nat
  BY FS_Subset, FS_CardinalityType
<1>2. \A f \in F : c[f] = Cardinality(fibre(f)) /\ c[f] \in Int
  BY <1>1
<1>3. ASSUME NEW T \in SUBSET F, \A x \in T : T \ {x} \in Good
      PROVE  T \in Good
  <2>1. IsFiniteSet(T) /\ \A x \in T : c[x] \in Int
    BY <1>2, FS_Subset
  <2>2. CASE T = {}
    <3>1. of(T) = {}
      BY <2>2
    <3>2. Sum(c, T) = 0
      BY <2>1, <2>2, SumStep
    <3>3. QED BY <3>1, <3>2, FS_EmptySet
  <2>3. CASE T # {}
    <3>1. PICK k \in T : TRUE
      BY <2>3
    <3> DEFINE U == T \ {k}
               V == of(U)
               W == fibre(k)
    <3>2. Sum(c, U) = Cardinality(V)
      BY <1>3, <3>1
    <3>3. Sum(c, T) = c[k] + Sum(c, U)
      BY <2>1, <3>1, SumRemove
    <3>4. of(T) = W \cup V /\ W \cap V = {}
      BY <3>1
    <3>5. c[k] = Cardinality(W)
      BY <1>2, <3>1
    <3>6. /\ IsFiniteSet(V) /\ Cardinality(V) \in Nat
          /\ IsFiniteSet(W) /\ Cardinality(W) \in Nat
      BY <1>1
    <3> HIDE DEF V, W, U
    <3>7. Cardinality(W \cup V) = Cardinality(W) + Cardinality(V) - Cardinality(W \cap V)
      BY <3>6, FS_Union
    <3>8. Cardinality(W \cap V) = 0
      BY <3>4, FS_EmptySet
    <3>9. Sum(c, T) = Cardinality(of(T))
      <4> HIDE DEF of
      <4>1. QED BY <3>2, <3>3, <3>4, <3>5, <3>6, <3>7, <3>8
    <3>10. QED BY <3>9
  <2>4. QED BY <2>2, <2>3
<1> HIDE DEF Good
<1>4. \A T \in SUBSET F : T \in Good
  BY <1>3, SubsetInduction
<1>5. F \in Good
  BY <1>4
<1>6. of(F) = S
  OBVIOUS
<1>7. QED BY <1>5, <1>6 DEF Good

-----------------------------------------------------------------------------
(* Quotients.                                                              *)

\* What a quotient rounded down is.
LEMMA DivBounds ==
  ASSUME NEW a \in Int, NEW n \in Nat, n > 0
  PROVE  a \div n \in Int /\ (a \div n) * n <= a /\ a < (a \div n) * n + n
OBVIOUS

\* A quotient of twice as much by twice as many.
LEMMA DivTwice ==
  ASSUME NEW a \in Int, NEW n \in Nat, n > 0
  PROVE  (2 * a) \div (2 * n) = a \div n
<1> DEFINE p == a \div n
           m == 2 * n
           b == 2 * a
           q == b \div m
<1>1. p \in Int /\ p * n <= a /\ a < p * n + n
  BY DivBounds
<1>2. m \in Nat /\ m > 0 /\ b \in Int
  OBVIOUS
<1> HIDE DEF m, b
<1>3. q \in Int /\ q * m <= b /\ b < q * m + m
  BY <1>2, DivBounds
<1> HIDE DEF p, q
<1>4. q * m = 2 * (q * n) /\ q * n \in Int /\ p * n \in Int
  BY <1>1, <1>3 DEF m
<1>5. q * n <= a /\ a < q * n + n
  BY <1>2, <1>3, <1>4 DEF m, b
<1>6. p * n < (q + 1) * n /\ q * n < (p + 1) * n
  BY <1>1, <1>3, <1>4, <1>5
<1>7. p < q + 1 /\ q < p + 1
  BY <1>1, <1>3, <1>6
<1>8. p = q
  BY <1>1, <1>3, <1>7
<1>9. QED BY <1>8 DEF p, q, m, b

=============================================================================
