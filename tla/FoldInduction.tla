----------------------------- MODULE FoldInduction -----------------------------
(***************************************************************************)
(* Induction over the natural numbers and the equations of FoldLeft, for   *)
(* a predicate P and an operation op that a module names when it           *)
(* instantiates this one.  Both rest on the least element of a set of      *)
(* natural numbers: a least number without the property, or the shortest   *)
(* prefix on which two folds differ, cannot be.                            *)
(***************************************************************************)
EXTENDS SequencesExt, FiniteSetTheorems, WellFoundedInduction, TLAPS

CONSTANTS
    P(_),       \* the predicate an induction is about
    op(_, _)    \* the operation that is folded over a sequence

-----------------------------------------------------------------------------
(* Natural numbers. *)

\* A set of natural numbers has a least element.
LEMMA LeastNumber ==
  ASSUME NEW T \in SUBSET Nat, T # {}
  PROVE  \E x \in T : \A y \in T : x <= y
<1>1. PICK R : R = OpToRel(<, Nat)
  OBVIOUS
<1>2. IsWellFoundedOn(R, Nat)
  BY <1>1, NatLessThanWellFounded, Zenon
<1>3. PICK x \in T : \A y \in T : ~(<<y, x>> \in R)
  BY <1>2, WFMin
<1>4. \A i, j \in Nat : i < j => <<i, j>> \in OpToRel(<, Nat)
  BY DEF OpToRel
<1>5. \A i, j \in Nat : i < j => <<i, j>> \in R
  BY <1>1, <1>4, Zenon
<1>6. \A y \in T : ~(y < x)
  BY <1>3, <1>5
<1> QED
  BY <1>6

\* What holds of 0, and of the next number with each, holds of all.
THEOREM Induction ==
  ASSUME P(0), \A n \in Nat : P(n) => P(n + 1)
  PROVE  \A n \in Nat : P(n)
<1> SUFFICES ASSUME NEW m \in Nat, ~P(m) PROVE FALSE
  OBVIOUS
<1> DEFINE T == {n \in Nat : ~P(n)}
<1>1. PICK x \in T : \A y \in T : x <= y
  BY LeastNumber
<1>2. x # 0 /\ x \in Nat
  BY <1>1
<1>3. x - 1 \in Nat /\ ~P(x - 1)
  BY <1>2
<1> QED
  BY <1>1, <1>3

\* A set of numbers up to n has a greatest element.
LEMMA GreatestNumber ==
  ASSUME NEW n \in Nat, NEW x \in SUBSET (1 .. n), x # {}
  PROVE  Max(x) \in x /\ \A y \in x : y <= Max(x)
<1> DEFINE T == {k \in Nat : \E y \in x : k = n - y}
<1>1. PICK y \in x : TRUE
  OBVIOUS
<1>2. n - y \in T
  BY <1>1
<1>3. PICK k \in T : \A j \in T : k <= j
  BY <1>2, LeastNumber
<1>4. PICK z \in x : k = n - z
  BY <1>3
<1>5. \A w \in x : n - w \in T /\ w \in Nat
  OBVIOUS
<1>6. \A w \in x : w <= z
  BY <1>3, <1>4, <1>5
<1> QED
  BY <1>6 DEF Max

-----------------------------------------------------------------------------
(* Folds. *)

\* g folds op over the elements of q at each set of positions in D, from the least.
Steps(g, D, b, q) ==
    g = [x \in SUBSET D |-> IF x = {} THEN b ELSE op(g[x \ {Max(x)}], q[Max(x)])]

\* Such a g exists for the positions 1 .. n.
LEMMA StepsExist ==
  ASSUME NEW b, NEW q, NEW m \in Nat
  PROVE  \E g : Steps(g, 1 .. m, b, q)
<1> SUFFICES ASSUME ~\E g : Steps(g, 1 .. m, b, q) PROVE FALSE
  OBVIOUS
<1> DEFINE T == {k \in Nat : ~\E g : Steps(g, 1 .. k, b, q)}
<1>1. PICK n \in T : \A k \in T : n <= k
  BY LeastNumber
<1>2. CASE n = 0
  <2>1. 1 .. 0 = {} /\ SUBSET {} = {{}}
    OBVIOUS
  <2>2. Steps([x \in {{}} |-> b], {}, b, q)
    BY <2>1 DEF Steps
  <2> QED
    BY <1>1, <1>2, <2>1, <2>2
<1>3. CASE n # 0
  <2>1. n \in Nat /\ n - 1 \in Nat /\ n - 1 \notin T
    BY <1>1, <1>3
  <2>2. PICK g : Steps(g, 1 .. n - 1, b, q)
    BY <2>1
  <2>3. /\ \A x \in SUBSET (1 .. n - 1) : x # {} => g[x] = op(g[x \ {Max(x)}], q[Max(x)])
        /\ g[{}] = b
    BY <2>2 DEF Steps
  <2> DEFINE h == [x \in SUBSET (1 .. n) |-> IF n \in x THEN op(g[x \ {n}], q[n]) ELSE g[x]]
  <2>4. ASSUME NEW x \in SUBSET (1 .. n)
        PROVE  h[x] = IF x = {} THEN b ELSE op(h[x \ {Max(x)}], q[Max(x)])
    <3>1. CASE x = {}
      BY <2>3, <3>1
    <3>2. CASE n \in x
      <4>1. Max(x) = n
        <5>1. PICK y : y = Max(x) /\ y \in x /\ \A z \in x : z <= y
          BY <2>1, <3>2, GreatestNumber
        <5>2. y <= n /\ n <= y /\ y \in Nat
          BY <2>1, <3>2, <5>1
        <5> QED
          BY <2>1, <5>1, <5>2
      <4>2. x \ {n} \in SUBSET (1 .. n) /\ n \notin x \ {n}
        OBVIOUS
      <4>3. h[x \ {n}] = g[x \ {n}] /\ h[x] = op(g[x \ {n}], q[n])
        BY <3>2, <4>2
      <4> QED
        BY <3>2, <4>1, <4>3
    <3>3. CASE x # {} /\ n \notin x
      <4>1. x \in SUBSET (1 .. n - 1)
        BY <2>1, <3>3
      <4>2. PICK y : y = Max(x)
        OBVIOUS
      <4>3. x \ {y} \in SUBSET (1 .. n) /\ n \notin x \ {y}
        BY <3>3
      <4>4. h[x \ {y}] = g[x \ {y}] /\ h[x] = g[x]
        BY <3>3, <4>3
      <4> QED
        BY <2>3, <3>3, <4>1, <4>2, <4>4
    <3> QED
      BY <3>1, <3>2, <3>3
  <2>5. Steps(h, 1 .. n, b, q)
    <3> DEFINE r == [x \in SUBSET (1 .. n) |-> IF x = {} THEN b ELSE op(h[x \ {Max(x)}], q[Max(x)])]
    <3>1. \A x \in SUBSET (1 .. n) : h[x] = r[x]
      BY <2>4
    <3>2. h = r
      BY <3>1
    <3> QED
      BY <3>2 DEF Steps
  <2> QED
    BY <1>1, <2>5
<1> QED
  BY <1>2, <1>3

\* Two of them agree as far as their sequences do.
LEMMA StepsAgree ==
  \A b, q, r, g, h : \A n, m \in Nat :
      /\ n <= m /\ \A i \in 1 .. n : q[i] = r[i]
      /\ Steps(g, 1 .. n, b, q) /\ Steps(h, 1 .. m, b, r)
      => \A x \in SUBSET (1 .. n) : g[x] = h[x]
<1> TAKE b, q, r, g, h
<1> TAKE n, m \in Nat
<1> HAVE /\ n <= m /\ \A i \in 1 .. n : q[i] = r[i]
         /\ Steps(g, 1 .. n, b, q) /\ Steps(h, 1 .. m, b, r)
<1> SUFFICES ASSUME NEW w \in SUBSET (1 .. n), g[w] # h[w] PROVE FALSE
  OBVIOUS
<1> DEFINE T == {k \in Nat : k <= n /\ \E x \in SUBSET (1 .. k) : g[x] # h[x]}
<1>1. n \in T
  OBVIOUS
<1>2. PICK k \in T : \A j \in T : k <= j
  BY <1>1, LeastNumber
<1>3. PICK x \in SUBSET (1 .. k) : g[x] # h[x]
  BY <1>2
<1>4. k \in Nat /\ k <= n /\ x \in SUBSET (1 .. n) /\ x \in SUBSET (1 .. m)
  BY <1>2, <1>3
<1>5. x # {}
  <2>1. {} \in SUBSET (1 .. n) /\ {} \in SUBSET (1 .. m)
    OBVIOUS
  <2>2. g[{}] = b /\ h[{}] = b
    BY <2>1 DEF Steps
  <2> QED
    BY <1>3, <2>2
<1>6. PICK y : y = Max(x) /\ y \in x /\ \A z \in x : z <= y
  BY <1>4, <1>5, GreatestNumber
<1>7. g[x] = op(g[x \ {y}], q[y]) /\ h[x] = op(h[x \ {y}], r[y])
  BY <1>4, <1>5, <1>6 DEF Steps
<1>8. q[y] = r[y] /\ y \in 1 .. k
  BY <1>3, <1>4, <1>6
<1>9. x \ {y} \in SUBSET (1 .. k - 1)
  <2>1. ASSUME NEW z \in x, z # y PROVE z \in 1 .. k - 1
    <3>1. z \in 1 .. k /\ z <= y /\ y \in 1 .. k /\ k \in Nat
      BY <1>4, <1>6, <1>8
    <3> QED
      BY <2>1, <3>1
  <2> QED
    BY <2>1
<1>10. k - 1 \in Nat /\ k - 1 <= n /\ ~(k <= k - 1)
  BY <1>4, <1>8
<1>11. g[x \ {y}] = h[x \ {y}]
  BY <1>2, <1>9, <1>10
<1> QED
  BY <1>3, <1>7, <1>8, <1>11

\* FoldLeft is the value of such a g at all positions.
LEMMA FoldOfSteps ==
  ASSUME NEW b, NEW S, NEW q \in Seq(S)
  PROVE  \E g : Steps(g, 1 .. Len(q), b, q) /\ FoldLeft(op, b, q) = g[1 .. Len(q)]
<1> DEFINE g == CHOOSE f : Steps(f, DOMAIN q, b, q)
<1>1. DOMAIN q = 1 .. Len(q) /\ Len(q) \in Nat
  OBVIOUS
<1>2. \E f : Steps(f, DOMAIN q, b, q)
  BY <1>1, StepsExist
<1>3. Steps(g, DOMAIN q, b, q)
  BY <1>2
<1>4. FoldLeft(op, b, q) = g[DOMAIN q]
  BY DEF FoldLeft, MapThenFoldSet, Steps
<1> QED
  BY <1>1, <1>3, <1>4

\* Folding nothing.
THEOREM FoldEmpty == \A b : FoldLeft(op, b, <<>>) = b
<1> TAKE b
<1>1. PICK g : Steps(g, 1 .. Len(<<>>), b, <<>>) /\ FoldLeft(op, b, <<>>) = g[1 .. Len(<<>>)]
  <2>1. <<>> \in Seq({})
    OBVIOUS
  <2> QED
    BY <2>1, FoldOfSteps
<1>2. 1 .. Len(<<>>) = {}
  OBVIOUS
<1> QED
  BY <1>1, <1>2 DEF Steps

\* Folding one element more.
THEOREM FoldAppend ==
  ASSUME NEW b, NEW S, NEW s \in Seq(S), NEW e \in S
  PROVE  FoldLeft(op, b, Append(s, e)) = op(FoldLeft(op, b, s), e)
<1> DEFINE t == Append(s, e)
           n == Len(s)
<1>1. /\ t \in Seq(S) /\ n \in Nat /\ Len(t) = n + 1 /\ t[n + 1] = e
      /\ \A i \in 1 .. n : s[i] = t[i]
  OBVIOUS
<1>2. PICK g : Steps(g, 1 .. n, b, s) /\ FoldLeft(op, b, s) = g[1 .. n]
  BY FoldOfSteps
<1> HIDE DEF t, n
<1>3. PICK h : Steps(h, 1 .. n + 1, b, t) /\ FoldLeft(op, b, t) = h[1 .. n + 1]
  BY <1>1, FoldOfSteps
<1>4. g[1 .. n] = h[1 .. n]
  <2>1. PICK k \in Nat, m \in Nat : k = n /\ m = n + 1 /\ k <= m
    BY <1>1
  <2>2. PICK u : u = t
    OBVIOUS
  <2>3. Steps(g, 1 .. k, b, s) /\ Steps(h, 1 .. m, b, u) /\ \A i \in 1 .. k : s[i] = u[i]
    BY <1>1, <1>2, <1>3, <2>1, <2>2
  <2>4. \A x \in SUBSET (1 .. k) : g[x] = h[x]
    BY <2>1, <2>3, StepsAgree
  <2> QED
    BY <2>1, <2>4
<1>5. Max(1 .. n + 1) = n + 1
  <2>1. 1 .. n + 1 # {} /\ n + 1 \in 1 .. n + 1 /\ n + 1 \in Nat
    BY <1>1
  <2>2. PICK y : y = Max(1 .. n + 1) /\ y \in 1 .. n + 1 /\ \A z \in 1 .. n + 1 : z <= y
    BY <2>1, GreatestNumber
  <2> QED
    BY <1>1, <2>1, <2>2
<1>6. (1 .. n + 1) \ {n + 1} = 1 .. n /\ 1 .. n + 1 # {}
  <2>1. n \in Nat
    BY <1>1
  <2>2. \A i : i \in 1 .. n + 1 /\ i # n + 1 <=> i \in 1 .. n
    BY <2>1
  <2>3. n + 1 \in 1 .. n + 1
    BY <2>1
  <2> QED
    BY <2>2, <2>3
<1>7. h[1 .. n + 1] = op(h[1 .. n], t[n + 1])
  BY <1>3, <1>5, <1>6 DEF Steps
<1> QED
  BY <1>1, <1>2, <1>3, <1>4, <1>7 DEF t

-----------------------------------------------------------------------------
(* Folds over finite sets. *)

First(x) == CHOOSE e \in x : TRUE

\* f folds op over each subset of S with at most n elements.
SetSteps(f, S, n, b) ==
    \A x \in SUBSET S : Cardinality(x) <= n =>
        f[x] = IF x = {} THEN b ELSE op(First(x), f[x \ {First(x)}])

\* A set without one of its elements.
LEMMA OneLess ==
  ASSUME NEW S, IsFiniteSet(S), NEW x \in SUBSET S, x # {}
  PROVE  /\ First(x) \in x /\ x \ {First(x)} \in SUBSET S
         /\ Cardinality(x) \in Nat /\ Cardinality(x) # 0
         /\ Cardinality(x \ {First(x)}) = Cardinality(x) - 1
<1>1. First(x) \in x
  BY DEF First
<1>2. IsFiniteSet(x)
  BY FS_Subset
<1>3. Cardinality(x) \in Nat /\ Cardinality(x \ {First(x)}) = Cardinality(x) - 1
  BY <1>1, <1>2, FS_CardinalityType, FS_RemoveElement
<1>4. Cardinality(x) # 0
  BY <1>2, FS_EmptySet
<1> QED
  BY <1>1, <1>3, <1>4

\* Such an f exists for every n.
LEMMA SetStepsExist ==
  ASSUME NEW S, IsFiniteSet(S), NEW b, NEW m \in Nat
  PROVE  \E f : SetSteps(f, S, m, b)
<1> SUFFICES ASSUME ~\E f : SetSteps(f, S, m, b) PROVE FALSE
  OBVIOUS
<1> DEFINE T == {k \in Nat : ~\E f : SetSteps(f, S, k, b)}
<1>1. PICK n \in T : \A k \in T : n <= k
  BY LeastNumber
<1>2. \A x \in SUBSET S : Cardinality(x) \in Nat /\ (Cardinality(x) = 0 <=> x = {})
  <2> TAKE x \in SUBSET S
  <2>1. IsFiniteSet(x)
    BY FS_Subset
  <2> QED
    BY <2>1, FS_EmptySet, FS_CardinalityType
<1>3. CASE n = 0
  <2>1. SetSteps([x \in {{}} |-> b], S, 0, b)
    BY <1>2 DEF SetSteps
  <2> QED
    BY <1>1, <1>3, <2>1
<1>4. CASE n # 0
  <2>1. n \in Nat /\ n - 1 \in Nat /\ n - 1 \notin T
    BY <1>1, <1>4
  <2>2. PICK f : SetSteps(f, S, n - 1, b)
    BY <2>1
  <2> DEFINE h == [x \in SUBSET S |-> IF Cardinality(x) <= n - 1 THEN f[x]
                                      ELSE op(First(x), f[x \ {First(x)}])]
  <2>3. ASSUME NEW x \in SUBSET S, Cardinality(x) <= n
        PROVE  h[x] = IF x = {} THEN b ELSE op(First(x), h[x \ {First(x)}])
    <3>1. CASE x = {}
      <4>1. Cardinality(x) <= n - 1
        BY <1>2, <2>1, <3>1
      <4> QED
        BY <2>2, <3>1, <4>1 DEF SetSteps
    <3>2. CASE x # {}
      <4>1. PICK y : y = x \ {First(x)}
        OBVIOUS
      <4>2. y \in SUBSET S /\ Cardinality(y) = Cardinality(x) - 1 /\ Cardinality(x) \in Nat
        BY <3>2, <4>1, OneLess
      <4>3. Cardinality(y) <= n - 1
        BY <2>1, <2>3, <4>2
      <4>4. h[y] = f[y]
        BY <4>2, <4>3
      <4>5. CASE Cardinality(x) <= n - 1
        BY <2>2, <3>2, <4>1, <4>4, <4>5 DEF SetSteps
      <4>6. CASE ~(Cardinality(x) <= n - 1)
        BY <3>2, <4>1, <4>4, <4>6
      <4> QED
        BY <4>5, <4>6
    <3> QED
      BY <3>1, <3>2
  <2>4. SetSteps(h, S, n, b)
    BY <2>3 DEF SetSteps
  <2> QED
    BY <1>1, <2>4
<1> QED
  BY <1>3, <1>4

\* FoldSet is the value of such a function at the whole set.
THEOREM FoldSetSteps ==
  ASSUME NEW S, IsFiniteSet(S), NEW b
  PROVE  \E f : /\ f[{}] = b
                /\ \A x \in SUBSET S :
                      x # {} => First(x) \in x /\ f[x] = op(First(x), f[x \ {First(x)}])
                /\ FoldSet(op, b, S) = f[S]
<1> DEFINE Folds(f) == f = [x \in SUBSET S |-> IF x = {} THEN b
                                               ELSE op(First(x), f[x \ {First(x)}])]
           f == CHOOSE g : Folds(g)
<1>1. PICK g : SetSteps(g, S, Cardinality(S), b)
  BY SetStepsExist, FS_CardinalityType
<1>2. \A x \in SUBSET S : Cardinality(x) <= Cardinality(S)
  BY FS_Subset
<1>3. \A x \in SUBSET S : g[x] = IF x = {} THEN b ELSE op(First(x), g[x \ {First(x)}])
  BY <1>1, <1>2 DEF SetSteps
<1>4. \A x \in SUBSET S : x # {} => First(x) \in x
  BY DEF First
<1>5. \E h : Folds(h)
  <2> DEFINE h == [x \in SUBSET S |-> g[x]]
  <2>1. \A x \in SUBSET S : x # {} => h[x \ {First(x)}] = g[x \ {First(x)}]
    OBVIOUS
  <2>2. \A x \in SUBSET S : h[x] = IF x = {} THEN b ELSE op(First(x), h[x \ {First(x)}])
    BY <1>3, <2>1
  <2>3. Folds(h)
    BY <2>2
  <2> QED
    BY <2>3
<1>6. Folds(f)
  BY <1>5
<1>7. FoldSet(op, b, S) = f[S]
  BY DEF FoldSet, MapThenFoldSet, First
<1> HIDE DEF f
<1>8. f[{}] = b /\ \A x \in SUBSET S : x # {} => f[x] = op(First(x), f[x \ {First(x)}])
  BY <1>6
<1> QED
  BY <1>4, <1>7, <1>8

\* What op keeps, its fold over a set keeps.
THEOREM FoldSetKeeps ==
  ASSUME NEW S, IsFiniteSet(S), NEW R, NEW b \in R, \A a \in R : \A e \in S : op(e, a) \in R
  PROVE  FoldSet(op, b, S) \in R
<1>1. PICK f : /\ f[{}] = b
               /\ \A x \in SUBSET S :
                     x # {} => First(x) \in x /\ f[x] = op(First(x), f[x \ {First(x)}])
               /\ FoldSet(op, b, S) = f[S]
  BY FoldSetSteps
<1> SUFFICES ASSUME f[S] \notin R PROVE FALSE
  BY <1>1
<1> DEFINE T == {k \in Nat : \E x \in SUBSET S : Cardinality(x) = k /\ f[x] \notin R}
<1>2. Cardinality(S) \in T
  BY FS_CardinalityType
<1>3. PICK k \in T : \A j \in T : k <= j
  BY <1>2, LeastNumber
<1>4. PICK x \in SUBSET S : Cardinality(x) = k /\ f[x] \notin R
  BY <1>3
<1>5. x # {}
  BY <1>1, <1>4
<1>6. PICK e : e = First(x)
  OBVIOUS
<1>7. PICK y : y = x \ {e}
  OBVIOUS
<1>8. e \in x /\ y \in SUBSET S /\ Cardinality(y) = k - 1 /\ k \in Nat /\ k # 0
  BY <1>4, <1>5, <1>6, <1>7, OneLess
<1>9. f[x] = op(e, f[y])
  BY <1>1, <1>5, <1>6, <1>7
<1>10. k - 1 \in Nat /\ k - 1 \notin T
  BY <1>3, <1>8
<1>11. f[y] \in R
  BY <1>8, <1>10
<1> QED
  BY <1>4, <1>8, <1>9, <1>11
=============================================================================
