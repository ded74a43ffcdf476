----------------------------- MODULE DataLemmas -----------------------------
(***************************************************************************)
(* Facts about numbers, lists and sums over finite sets that the proofs of *)
(* several components need.  The inductions behind them are arguments by a *)
(* least counterexample.                                                   *)
(***************************************************************************)
EXTENDS Lists, Integers, FiniteSets, Functions, FiniteSetTheorems, WellFoundedInduction, TLAPS

-----------------------------------------------------------------------------
(* Least counterexamples *)

\* A set of numbers that is not empty has a least one.
LEMMA LeastNat ==
  ASSUME NEW T \in SUBSET Nat, T # {}
  PROVE  \E m \in T : \A k \in T : m <= k
<1>1. IsWellFoundedOn(OpToRel(<, Nat), Nat)
  BY NatLessThanWellFounded
<1>2. PICK m \in T : \A k \in T : <<k, m>> \notin OpToRel(<, Nat)
  BY <1>1, WFMin
<1>3. \A k \in T : ~(k < m)
  BY <1>2 DEF OpToRel
<1> QED BY <1>3

\* Of numbers below a bound, if any, one is the greatest.
LEMMA GreatestNat ==
  ASSUME NEW n \in Nat, NEW S \in SUBSET (0..n), S # {}
  PROVE  \E x \in S : \A y \in S : x >= y
<1> DEFINE T == {m \in Nat : \A y \in S : y <= m}
<1>1. n \in T
  OBVIOUS
<1>2. PICK x \in T : \A m \in T : x <= m
  <2> HIDE DEF T
  <2>1. T \in SUBSET Nat
    BY DEF T
  <2> QED BY <1>1, <2>1, LeastNat
<1>3. x \in S
  <2>1. SUFFICES ASSUME x \notin S PROVE FALSE
    OBVIOUS
  <2>2. PICK y \in S : TRUE
    OBVIOUS
  <2>3. x - 1 \in T
    BY <2>1, <2>2
  <2> QED BY <1>2, <2>3
<1> QED BY <1>2, <1>3

\* Of finite sets, some, one is such that no element can be taken from it.
LEMMA LeastSet ==
  ASSUME NEW B, B # {}, \A S \in B : IsFiniteSet(S)
  PROVE  \E S \in B : \A x \in S : S \ {x} \notin B
<1> DEFINE T == {n \in Nat : \E S \in B : Cardinality(S) = n}
<1>1. T \in SUBSET Nat
  OBVIOUS
<1>2. T # {}
  BY FS_CardinalityType
<1>3. PICK m \in T : \A k \in T : m <= k
  <2> HIDE DEF T
  <2> QED BY <1>1, <1>2, LeastNat
<1>4. PICK S \in B : Cardinality(S) = m
  OBVIOUS
<1>5. ASSUME NEW x \in S, S \ {x} \in B PROVE FALSE
  <2>1. IsFiniteSet(S) /\ Cardinality(S) \in Nat
    BY FS_CardinalityType
  <2>2. Cardinality(S \ {x}) = Cardinality(S) - 1
    BY <2>1, <1>5, FS_RemoveElement
  <2>3. Cardinality(S \ {x}) \in Nat
    BY <1>5, FS_CardinalityType
  <2>4. Cardinality(S \ {x}) \in T
    BY <2>3, <1>5
  <2> HIDE DEF T
  <2>5. m <= Cardinality(S \ {x})
    BY <2>4, <1>3
  <2> QED BY <2>1, <2>2, <2>5, <1>4
<1> QED BY <1>5

-----------------------------------------------------------------------------
(* Without *)

Elements(s) == {s[i] : i \in 1..Len(s)}

\* What is appended is one element more.
LEMMA AppendElements ==
  ASSUME NEW R, NEW s \in Seq(R), NEW x \in R
  PROVE  Append(s, x) \in Seq(R) /\ Elements(Append(s, x)) = Elements(s) \cup {x}
<1>1. Append(s, x) \in Seq(R) /\ Len(Append(s, x)) = Len(s) + 1 /\ Len(s) \in Nat
  OBVIOUS
<1>2. \A i \in 1..Len(s) : Append(s, x)[i] = s[i]
  OBVIOUS
<1>3. Append(s, x)[Len(s) + 1] = x
  OBVIOUS
<1> QED BY <1>1, <1>2, <1>3 DEF Elements

\* The elements are the first one and those after it.
LEMMA TailElements ==
  ASSUME NEW R, NEW s \in Seq(R), s # <<>>
  PROVE  /\ Head(s) \in R /\ Tail(s) \in Seq(R)
         /\ Elements(s) = {Head(s)} \cup Elements(Tail(s))
<1>1. Head(s) = s[1] /\ Head(s) \in R /\ Tail(s) \in Seq(R)
      /\ Len(s) \in Nat \ {0} /\ Len(Tail(s)) = Len(s) - 1
  OBVIOUS
<1>2. \A i \in 1..(Len(s) - 1) : Tail(s)[i] = s[i + 1]
  OBVIOUS
<1>3. \A i \in 1..Len(s) : i = 1 \/ (i - 1 \in 1..(Len(s) - 1) /\ s[i] = Tail(s)[i - 1])
  BY <1>1, <1>2
<1> QED BY <1>1, <1>2, <1>3 DEF Elements

\* One step of Without: what is kept of the first n rows.
KeepStep(s, D, g, n) ==
  IF n = 0 THEN <<>>
  ELSE IF s[n] \in D THEN g[n - 1] ELSE Append(g[n - 1], s[n])

Keeps(s, D, g, m) == g = [n \in 0..m |-> KeepStep(s, D, g, n)]

\* The recursion is well defined: every prefix has a function that keeps it.
LEMMA KeepsExists ==
  ASSUME NEW R, NEW s \in Seq(R), NEW D
  PROVE  \E g : Keeps(s, D, g, Len(s))
<1> DEFINE Bad == {m \in 0..Len(s) : ~\E g : Keeps(s, D, g, m)}
<1>0. Len(s) \in 0..Len(s) /\ Bad \in SUBSET Nat
  OBVIOUS
<1>1. SUFFICES ASSUME Bad # {} PROVE FALSE
  BY <1>0
<1>2. PICK m \in Bad : \A k \in Bad : m <= k
  <2> HIDE DEF Bad
  <2> QED BY <1>0, <1>1, LeastNat
<1>3. m \in 0..Len(s) /\ ~\E g : Keeps(s, D, g, m)
  OBVIOUS
<1>4. CASE m = 0
  <2> DEFINE h == [n \in 0..0 |-> <<>>]
  <2>1. h = [n \in 0..0 |-> KeepStep(s, D, h, n)]
    BY DEF KeepStep
  <2> HIDE DEF h
  <2> QED BY <2>1, <1>3, <1>4 DEF Keeps
<1>5. CASE m # 0
  <2>1. m - 1 \in 0..Len(s) /\ m \in Nat /\ ~(m <= m - 1)
    BY <1>3, <1>5
  <2>2. PICK g : Keeps(s, D, g, m - 1)
    BY <1>2, <2>1
  <2> DEFINE h == [n \in 0..m |-> IF n = m THEN KeepStep(s, D, g, m) ELSE g[n]]
  <2>3. ASSUME NEW n \in 0..m PROVE h[n] = KeepStep(s, D, h, n)
    <3>1. CASE n = 0
      BY <3>1, <2>1, <2>2, <1>5 DEF Keeps, KeepStep
    <3>2. CASE n # 0
      <4>1. n - 1 \in 0..(m - 1) /\ n - 1 # m /\ n - 1 \in 0..m
        BY <3>2, <2>1
      <4>2. h[n - 1] = g[n - 1]
        BY <4>1
      <4>3. KeepStep(s, D, h, n) = KeepStep(s, D, g, n)
        BY <3>2, <4>2 DEF KeepStep
      <4>4. CASE n = m
        BY <4>3, <4>4
      <4>5. CASE n # m
        <5>1. n \in 0..(m - 1)
          BY <4>5, <2>1
        <5>2. g[n] = KeepStep(s, D, g, n)
          BY <5>1, <2>2 DEF Keeps
        <5> QED BY <5>2, <4>3, <4>5
      <4> QED BY <4>4, <4>5
    <3> QED BY <3>1, <3>2
  <2>4. h = [n \in 0..m |-> h[n]]
    OBVIOUS
  <2>5. Keeps(s, D, h, m)
    <3> HIDE DEF h
    <3>1. [n \in 0..m |-> h[n]] = [n \in 0..m |-> KeepStep(s, D, h, n)]
      BY <2>3
    <3> QED BY <3>1, <2>4 DEF Keeps
  <2> QED BY <2>5, <1>3
<1> QED BY <1>4, <1>5

\* Without leaves the elements that are not among those it is without, and no others.
LEMMA WithoutIs ==
  ASSUME NEW R, NEW s \in Seq(R), NEW D
  PROVE  Without(s, D) \in Seq(R) /\ Elements(Without(s, D)) = Elements(s) \ D
<1> DEFINE g == CHOOSE g : Keeps(s, D, g, Len(s))
<1>1. Without(s, D) = g[Len(s)]
  BY DEF Without, Keeps, KeepStep
<1>2. Keeps(s, D, g, Len(s))
  BY KeepsExists
<1> HIDE DEF g
<1> DEFINE First(n) == {s[i] : i \in 1..n}
           Good(n) == g[n] \in Seq(R) /\ Elements(g[n]) = First(n) \ D
           Bad == {n \in 0..Len(s) : ~Good(n)}
<1>3. ASSUME Bad # {} PROVE FALSE
  <2>1. PICK n \in Bad : \A k \in Bad : n <= k
    <3>1. Bad \in SUBSET Nat
      OBVIOUS
    <3> HIDE DEF Bad
    <3> QED BY <3>1, <1>3, LeastNat
  <2>2. g[n] = KeepStep(s, D, g, n) /\ n \in 0..Len(s) /\ ~Good(n)
    BY <1>2, <2>1 DEF Keeps
  <2>3. CASE n = 0
    BY <2>2, <2>3 DEF KeepStep, Elements
  <2>4. CASE n # 0
    <3>1. n - 1 \in 0..Len(s) /\ ~(n <= n - 1) /\ n \in 1..Len(s)
      BY <2>2, <2>4
    <3>2. Good(n - 1)
      BY <2>1, <3>1
    <3>3. First(n) = First(n - 1) \cup {s[n]}
      BY <3>1
    <3> HIDE DEF First
    <3>4. CASE s[n] \in D
      BY <2>2, <2>4, <3>2, <3>3, <3>4 DEF KeepStep
    <3>5. CASE s[n] \notin D
      <4>1. g[n] = Append(g[n - 1], s[n]) /\ s[n] \in R
        BY <2>2, <2>4, <3>1, <3>5 DEF KeepStep
      <4>2. g[n] \in Seq(R) /\ Elements(g[n]) = Elements(g[n - 1]) \cup {s[n]}
        BY <4>1, <3>2, AppendElements
      <4> QED BY <2>2, <3>2, <3>3, <3>5, <4>2
    <3> QED BY <3>4, <3>5
  <2> QED BY <2>3, <2>4
<1>4. Len(s) \in 0..Len(s)
  OBVIOUS
<1>5. Good(Len(s))
  BY <1>3, <1>4
<1> QED BY <1>1, <1>5 DEF Elements

-----------------------------------------------------------------------------
(* SumFunctionOnSet *)

\* One step of the sum: some element, and the rest.
SumBody(f, g, s) ==
  IF s = {} THEN 0 ELSE f[CHOOSE x \in s : TRUE] + g[s \ {CHOOSE x \in s : TRUE}]

Sums(f, g, S) == g = [s \in SUBSET S |-> SumBody(f, g, s)]

\* The recursion of the sum is well defined on a finite set: it is so on its
\* subsets of each size.
UpTo(S, n) == {s \in SUBSET S : Cardinality(s) <= n}

SumsUpTo(f, g, S, n) == g = [s \in UpTo(S, n) |-> SumBody(f, g, s)]

\* A function satisfies the recursion of the sum on a finite set.
LEMMA SumsExist ==
  ASSUME NEW f, NEW S, IsFiniteSet(S)
  PROVE  \E g : Sums(f, g, S)
<1>0. \A s \in SUBSET S : IsFiniteSet(s) /\ Cardinality(s) \in Nat /\ Cardinality(s) <= Cardinality(S)
  BY FS_Subset, FS_CardinalityType
<1> DEFINE Bad == {n \in Nat : ~\E g : SumsUpTo(f, g, S, n)}
<1>1. ASSUME Bad # {} PROVE FALSE
  <2>1. PICK n \in Bad : \A k \in Bad : n <= k
    <3>1. Bad \in SUBSET Nat
      OBVIOUS
    <3> HIDE DEF Bad
    <3> QED BY <3>1, <1>1, LeastNat
  <2>2. n \in Nat /\ ~\E g : SumsUpTo(f, g, S, n)
    OBVIOUS
  <2>3. CASE n = 0
    <3> DEFINE h == [s \in UpTo(S, 0) |-> 0]
    <3>1. \A s \in UpTo(S, 0) : s = {}
      <4> SUFFICES ASSUME NEW s \in UpTo(S, 0) PROVE s = {}
        OBVIOUS
      <4>1. Cardinality(s) = 0 /\ IsFiniteSet(s)
        BY <1>0 DEF UpTo
      <4> QED BY <4>1, FS_EmptySet
    <3>2. \A s \in UpTo(S, 0) : SumBody(f, h, s) = 0
      BY <3>1 DEF SumBody
    <3>3. h = [s \in UpTo(S, 0) |-> SumBody(f, h, s)]
      BY <3>2
    <3> HIDE DEF h
    <3> QED BY <3>3, <2>2, <2>3 DEF SumsUpTo
  <2>4. CASE n # 0
    <3>1. n - 1 \in Nat /\ ~(n <= n - 1)
      BY <2>2, <2>4
    <3>2. PICK g : SumsUpTo(f, g, S, n - 1)
      BY <2>1, <3>1
    <3> DEFINE h == [s \in UpTo(S, n) |-> SumBody(f, g, s)]
    <3>3. ASSUME NEW s \in UpTo(S, n) PROVE h[s] = SumBody(f, h, s)
      <4>1. CASE s = {}
        BY <4>1 DEF SumBody
      <4>2. CASE s # {}
        <5> DEFINE x == CHOOSE x \in s : TRUE
                   r == s \ {x}
        <5>1. x \in s
          BY <4>2
        <5>2. s \in SUBSET S /\ Cardinality(s) <= n
          BY DEF UpTo
        <5>3. Cardinality(r) = Cardinality(s) - 1 /\ Cardinality(s) \in Nat
          BY <1>0, <5>1, <5>2, FS_RemoveElement
        <5>4. r \in UpTo(S, n - 1) /\ r \in UpTo(S, n)
          BY <2>2, <5>2, <5>3 DEF UpTo
        <5>5. g[r] = SumBody(f, g, r)
          BY <5>4, <3>2 DEF SumsUpTo
        <5>6. h[r] = SumBody(f, g, r)
          BY <5>4
        <5>7. SumBody(f, g, s) = f[x] + g[r] /\ SumBody(f, h, s) = f[x] + h[r]
          BY <4>2 DEF SumBody
        <5>8. h[s] = SumBody(f, g, s)
          OBVIOUS
        <5> HIDE DEF h, r, x
        <5> QED BY <5>5, <5>6, <5>7, <5>8
      <4> QED BY <4>1, <4>2
    <3>4. SumsUpTo(f, h, S, n)
      <4>1. h = [s \in UpTo(S, n) |-> h[s]]
        OBVIOUS
      <4> HIDE DEF h
      <4>2. [s \in UpTo(S, n) |-> h[s]] = [s \in UpTo(S, n) |-> SumBody(f, h, s)]
        BY <3>3
      <4> QED BY <4>1, <4>2 DEF SumsUpTo
    <3> QED BY <3>4, <2>2
  <2> QED BY <2>3, <2>4
<1>2. PICK g : SumsUpTo(f, g, S, Cardinality(S))
  <2>1. Cardinality(S) \in Nat
    BY FS_CardinalityType
  <2> QED BY <1>1, <2>1
<1>3. UpTo(S, Cardinality(S)) = SUBSET S
  BY <1>0 DEF UpTo
<1> QED BY <1>2, <1>3 DEF SumsUpTo, Sums

SumOf(f, S) == CHOOSE g : Sums(f, g, S)

\* What the operator of the library is.
LEMMA SumIsFold ==
  ASSUME NEW f, NEW S, IsFiniteSet(S)
  PROVE  /\ SumFunctionOnSet(f, S) = SumOf(f, S)[S]
         /\ Sums(f, SumOf(f, S), S)
<1>1. SumFunctionOnSet(f, S) = SumOf(f, S)[S]
  BY DEF SumFunctionOnSet, FoldFunctionOnSet, MapThenFoldSet, SumOf, Sums, SumBody
<1>2. Sums(f, SumOf(f, S), S)
  BY SumsExist DEF SumOf
<1> QED BY <1>1, <1>2

\* The sum of a subset does not depend on the set it was part of.
LEMMA SumsAgree ==
  ASSUME NEW f, NEW S, NEW T, NEW g, NEW h, IsFiniteSet(S), T \subseteq S,
         Sums(f, g, S), Sums(f, h, T)
  PROVE  g[T] = h[T]
<1> DEFINE B == {s \in SUBSET T : g[s] # h[s]}
<1>1. SUFFICES ASSUME B # {} PROVE FALSE
  OBVIOUS
<1>2. \A s \in B : IsFiniteSet(s)
  BY FS_Subset
<1>3. PICK s \in B : \A x \in s : s \ {x} \notin B
  <2> HIDE DEF B
  <2> QED BY <1>1, <1>2, LeastSet
<1> DEFINE x == CHOOSE x \in s : TRUE
<1>4. s \in SUBSET T /\ s \in SUBSET S /\ g[s] # h[s]
  OBVIOUS
<1>5. g[s] = SumBody(f, g, s) /\ h[s] = SumBody(f, h, s)
  BY <1>4 DEF Sums
<1>6. s # {} /\ x \in s
  BY <1>4, <1>5 DEF SumBody
<1>7. g[s \ {x}] = h[s \ {x}]
  BY <1>3, <1>6
<1> HIDE DEF B
<1> QED BY <1>4, <1>5, <1>6, <1>7 DEF SumBody

\* The sum of no values.
LEMMA SumEmpty == \A f : SumFunctionOnSet(f, {}) = 0
<1> TAKE f
<1>1. IsFiniteSet({}) /\ {} \in SUBSET {}
  BY FS_EmptySet
<1> DEFINE g == SumOf(f, {})
<1>2. SumFunctionOnSet(f, {}) = g[{}] /\ Sums(f, g, {})
  BY <1>1, SumIsFold
<1> HIDE DEF g
<1>3. g[{}] = SumBody(f, g, {})
  BY <1>1, <1>2 DEF Sums
<1> QED BY <1>2, <1>3 DEF SumBody

\* The element the sum takes first.
Some(S) == CHOOSE x \in S : TRUE

\* The sum of some values is that of one and of the others.
LEMMA SumChosen ==
  ASSUME NEW f, NEW S, IsFiniteSet(S), S # {}
  PROVE  /\ Some(S) \in S
         /\ SumFunctionOnSet(f, S) = f[Some(S)] + SumFunctionOnSet(f, S \ {Some(S)})
<1> DEFINE g == SumOf(f, S)
           T == S \ {Some(S)}
<1>1. Some(S) \in S /\ T \subseteq S /\ T \in SUBSET S /\ S \in SUBSET S
  BY DEF Some
<1>2. IsFiniteSet(T)
  BY FS_RemoveElement
<1>3. Sums(f, g, S) /\ Sums(f, SumOf(f, T), T)
  BY <1>2, SumIsFold
<1>6. SumFunctionOnSet(f, S) = g[S] /\ SumFunctionOnSet(f, T) = SumOf(f, T)[T]
  BY <1>2, SumIsFold
<1> HIDE DEF g
<1>4. g[S] = SumBody(f, g, S)
  BY <1>1, <1>3 DEF Sums
<1>5. g[S] = f[Some(S)] + g[T]
  BY <1>4 DEF SumBody, Some
<1> HIDE DEF T
<1>7. g[T] = SumOf(f, T)[T]
  BY <1>1, <1>3, SumsAgree
<1> QED BY <1>1, <1>5, <1>6, <1>7 DEF T

\* A sum of numbers is a number.
LEMMA SumType ==
  ASSUME NEW f, NEW S, IsFiniteSet(S), \A x \in S : f[x] \in Nat
  PROVE  SumFunctionOnSet(f, S) \in Nat
<1> DEFINE B == {s \in SUBSET S : SumFunctionOnSet(f, s) \notin Nat}
<1>1. SUFFICES ASSUME B # {} PROVE FALSE
  OBVIOUS
<1>2. \A s \in B : IsFiniteSet(s)
  BY FS_Subset
<1>3. PICK s \in B : \A x \in s : s \ {x} \notin B
  <2> HIDE DEF B
  <2> QED BY <1>1, <1>2, LeastSet
<1>4. s \in SUBSET S /\ SumFunctionOnSet(f, s) \notin Nat /\ IsFiniteSet(s)
  BY <1>2
<1>5. CASE s = {}
  BY <1>4, <1>5, SumEmpty
<1>6. CASE s # {}
  <2>1. PICK x \in s : SumFunctionOnSet(f, s) = f[x] + SumFunctionOnSet(f, s \ {x})
    BY <1>4, <1>6, SumChosen
  <2>2. s \ {x} \in SUBSET S /\ f[x] \in Nat
    BY <1>4
  <2>3. SumFunctionOnSet(f, s \ {x}) \in Nat
    BY <1>3, <2>2
  <2> QED BY <1>4, <2>1, <2>2, <2>3
<1> QED BY <1>5, <1>6

\* Any element may be taken out of a sum.
LEMMA SumRemove ==
  ASSUME NEW f, NEW S, IsFiniteSet(S), \A x \in S : f[x] \in Nat, NEW y \in S
  PROVE  SumFunctionOnSet(f, S) = f[y] + SumFunctionOnSet(f, S \ {y})
<1> DEFINE Sum(s) == SumFunctionOnSet(f, s)
           B == {s \in SUBSET S : ~\A z \in s : Sum(s) = f[z] + Sum(s \ {z})}
<1> HIDE DEF Sum
<1>1. SUFFICES ASSUME B # {} PROVE FALSE
  BY DEF Sum
<1>2. \A s \in B : IsFiniteSet(s)
  BY FS_Subset
<1>3. PICK s \in B : \A x \in s : s \ {x} \notin B
  <2> HIDE DEF B
  <2> QED BY <1>1, <1>2, LeastSet
<1>4. PICK z \in s : Sum(s) # f[z] + Sum(s \ {z})
  OBVIOUS
<1>5. s \in SUBSET S /\ IsFiniteSet(s) /\ s # {}
  BY <1>2
<1>6. PICK x \in s : Sum(s) = f[x] + Sum(s \ {x})
  BY <1>5, SumChosen DEF Sum
<1>7. x # z
  BY <1>4, <1>6
<1>8. s \ {x} \in SUBSET S /\ s \ {z} \in SUBSET S /\ z \in s \ {x} /\ x \in s \ {z}
  BY <1>5, <1>7
<1>9. Sum(s \ {x}) = f[z] + Sum((s \ {x}) \ {z})
  BY <1>3, <1>8
<1>10. Sum(s \ {z}) = f[x] + Sum((s \ {z}) \ {x})
  BY <1>3, <1>8
<1>11. (s \ {x}) \ {z} = (s \ {z}) \ {x}
  OBVIOUS
<1>12. Sum((s \ {x}) \ {z}) \in Nat
  <2>1. IsFiniteSet((s \ {x}) \ {z})
    BY <1>5, FS_RemoveElement
  <2>2. \A i \in (s \ {x}) \ {z} : f[i] \in Nat
    BY <1>5
  <2> QED BY <2>1, <2>2, SumType DEF Sum
<1>13. f[x] \in Nat /\ f[z] \in Nat
  BY <1>5
<1> HIDE DEF B
<1> QED BY <1>4, <1>6, <1>9, <1>10, <1>11, <1>12, <1>13

\* One element more.
LEMMA SumAdd ==
  ASSUME NEW f, NEW S, IsFiniteSet(S), NEW y, y \notin S, \A x \in S \cup {y} : f[x] \in Nat
  PROVE  SumFunctionOnSet(f, S \cup {y}) = f[y] + SumFunctionOnSet(f, S)
<1>1. IsFiniteSet(S \cup {y}) /\ y \in S \cup {y} /\ (S \cup {y}) \ {y} = S
  BY FS_AddElement
<1> QED BY <1>1, SumRemove

\* A sum depends on the values it adds only.
LEMMA SumSame ==
  ASSUME NEW f, NEW g, NEW S, IsFiniteSet(S), \A x \in S : f[x] = g[x]
  PROVE  SumFunctionOnSet(f, S) = SumFunctionOnSet(g, S)
<1> DEFINE B == {s \in SUBSET S : SumFunctionOnSet(f, s) # SumFunctionOnSet(g, s)}
<1>1. SUFFICES ASSUME B # {} PROVE FALSE
  OBVIOUS
<1>2. \A s \in B : IsFiniteSet(s)
  BY FS_Subset
<1>3. PICK s \in B : \A x \in s : s \ {x} \notin B
  <2> HIDE DEF B
  <2> QED BY <1>1, <1>2, LeastSet
<1>4. s \in SUBSET S /\ SumFunctionOnSet(f, s) # SumFunctionOnSet(g, s) /\ IsFiniteSet(s)
  BY <1>2
<1>5. s # {}
  BY <1>4, SumEmpty
<1> DEFINE x == Some(s)
<1>6. /\ x \in s
      /\ SumFunctionOnSet(f, s) = f[x] + SumFunctionOnSet(f, s \ {x})
      /\ SumFunctionOnSet(g, s) = g[x] + SumFunctionOnSet(g, s \ {x})
  BY <1>4, <1>5, SumChosen
<1>7. s \ {x} \in SUBSET S /\ f[x] = g[x]
  BY <1>4, <1>6
<1>8. SumFunctionOnSet(f, s \ {x}) = SumFunctionOnSet(g, s \ {x})
  BY <1>3, <1>6, <1>7
<1> HIDE DEF B, x
<1> QED BY <1>4, <1>6, <1>7, <1>8

\* A sum of parts is no larger than the whole.
LEMMA SumSubset ==
  ASSUME NEW f, NEW S, IsFiniteSet(S), \A x \in S : f[x] \in Nat, NEW T \in SUBSET S
  PROVE  SumFunctionOnSet(f, T) <= SumFunctionOnSet(f, S)
<1> DEFINE Sum(s) == SumFunctionOnSet(f, s)
           B == {d \in SUBSET (S \ T) : ~(Sum(T) <= Sum(T \cup d))}
<1>0. \A s \in SUBSET S : IsFiniteSet(s) /\ Sum(s) \in Nat
  BY FS_Subset, SumType
<1>1. ASSUME B # {} PROVE FALSE
  <2>1. \A d \in B : IsFiniteSet(d)
    BY FS_Subset
  <2>2. PICK d \in B : \A x \in d : d \ {x} \notin B
    <3> HIDE DEF B
    <3> QED BY <1>1, <2>1, LeastSet
  <2>3. d \in SUBSET (S \ T) /\ ~(Sum(T) <= Sum(T \cup d))
    OBVIOUS
  <2>4. PICK x : x \in d
    <3>1. CASE d = {}
      <4>1. T \cup d = T
        BY <3>1
      <4> QED BY <1>0, <2>3, <4>1
    <3> QED BY <3>1
  <2>5. d \ {x} \in SUBSET (S \ T) /\ Sum(T) <= Sum(T \cup (d \ {x}))
    BY <2>2, <2>3, <2>4
  <2> DEFINE U == T \cup (d \ {x})
  <2>6. U \in SUBSET S /\ x \notin U /\ U \cup {x} = T \cup d /\ T \cup d \in SUBSET S /\ x \in S
    BY <2>3, <2>4
  <2>7. Sum(U \cup {x}) = f[x] + Sum(U)
    <3>1. IsFiniteSet(U) /\ \A y \in U \cup {x} : f[y] \in Nat
      BY <1>0, <2>6
    <3> HIDE DEF U, B
    <3>2. SumFunctionOnSet(f, U \cup {x}) = f[x] + SumFunctionOnSet(f, U)
      BY <2>6, <3>1, SumAdd
    <3> QED BY <3>2
  <2>8. f[x] \in Nat /\ Sum(U) \in Nat /\ Sum(T) \in Nat
    BY <1>0, <2>6
  <2>9. Sum(T) <= Sum(U)
    BY <2>5
  <2>10. ~(Sum(T) <= Sum(U \cup {x}))
    BY <2>3, <2>6
  <2> HIDE DEF Sum, B, U
  <2> QED BY <2>7, <2>8, <2>9, <2>10
<1>2. S \ T \in SUBSET (S \ T) /\ T \cup (S \ T) = S
  OBVIOUS
<1>3. Sum(T) <= Sum(T \cup (S \ T))
  BY <1>1, <1>2
<1> QED BY <1>2, <1>3

\* What adds nothing may be left out of a sum.
LEMMA SumZero ==
  ASSUME NEW f, NEW S, IsFiniteSet(S), \A x \in S : f[x] \in Nat, NEW T \in SUBSET S,
         \A x \in S \ T : f[x] = 0
  PROVE  SumFunctionOnSet(f, S) = SumFunctionOnSet(f, T)
<1> DEFINE Sum(s) == SumFunctionOnSet(f, s)
           B == {d \in SUBSET (S \ T) : Sum(T) # Sum(T \cup d)}
<1>0. \A s \in SUBSET S : IsFiniteSet(s) /\ Sum(s) \in Nat
  BY FS_Subset, SumType
<1>1. ASSUME B # {} PROVE FALSE
  <2>1. \A d \in B : IsFiniteSet(d)
    BY FS_Subset
  <2>2. PICK d \in B : \A x \in d : d \ {x} \notin B
    <3> HIDE DEF B
    <3> QED BY <1>1, <2>1, LeastSet
  <2>3. d \in SUBSET (S \ T) /\ Sum(T) # Sum(T \cup d)
    OBVIOUS
  <2>4. PICK x : x \in d
    <3>1. CASE d = {}
      <4>1. T \cup d = T
        BY <3>1
      <4> QED BY <2>3, <4>1
    <3> QED BY <3>1
  <2>5. d \ {x} \in SUBSET (S \ T) /\ Sum(T) = Sum(T \cup (d \ {x}))
    BY <2>2, <2>3, <2>4
  <2> DEFINE U == T \cup (d \ {x})
  <2>6. U \in SUBSET S /\ x \notin U /\ U \cup {x} = T \cup d /\ x \in S /\ f[x] = 0
    BY <2>3, <2>4
  <2>7. Sum(U \cup {x}) = f[x] + Sum(U)
    <3>1. IsFiniteSet(U) /\ \A y \in U \cup {x} : f[y] \in Nat
      BY <1>0, <2>6
    <3> HIDE DEF U, B
    <3>2. SumFunctionOnSet(f, U \cup {x}) = f[x] + SumFunctionOnSet(f, U)
      BY <2>6, <3>1, SumAdd
    <3> QED BY <3>2
  <2>8. Sum(U) \in Nat
    BY <1>0, <2>6
  <2>9. Sum(T) = Sum(U)
    BY <2>5
  <2>10. Sum(T) # Sum(U \cup {x})
    BY <2>3, <2>6
  <2>11. f[x] = 0
    BY <2>6
  <2> HIDE DEF Sum, B, U
  <2> QED BY <2>7, <2>8, <2>9, <2>10, <2>11
<1>2. S \ T \in SUBSET (S \ T) /\ T \cup (S \ T) = S
  OBVIOUS
<1>3. Sum(T) = Sum(T \cup (S \ T))
  BY <1>1, <1>2
<1> QED BY <1>2, <1>3

\* One of the values grows by one.
LEMMA SumBump ==
  ASSUME NEW f, NEW g, NEW S, IsFiniteSet(S), \A x \in S : f[x] \in Nat,
         NEW y \in S, g[y] = f[y] + 1, \A x \in S \ {y} : g[x] = f[x]
  PROVE  SumFunctionOnSet(g, S) = SumFunctionOnSet(f, S) + 1
<1> DEFINE R == S \ {y}
<1>1. \A x \in S : g[x] \in Nat
  OBVIOUS
<1>2. IsFiniteSet(R) /\ (\A x \in R : f[x] \in Nat) /\ \A x \in R : f[x] = g[x]
  BY FS_RemoveElement
<1>3. SumFunctionOnSet(f, S) = f[y] + SumFunctionOnSet(f, R)
  BY SumRemove
<1>4. SumFunctionOnSet(g, S) = g[y] + SumFunctionOnSet(g, R)
  BY <1>1, SumRemove
<1>5. f[y] \in Nat
  OBVIOUS
<1> HIDE DEF R
<1>6. SumFunctionOnSet(g, R) = SumFunctionOnSet(f, R) /\ SumFunctionOnSet(f, R) \in Nat
  BY <1>2, SumSame, SumType
<1> QED BY <1>3, <1>4, <1>5, <1>6
=============================================================================
