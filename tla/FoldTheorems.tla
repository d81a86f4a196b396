---------------------------- MODULE FoldTheorems ----------------------------
(***************************************************************************)
(* Facts about the folds that the models are written with: sums over a     *)
(* finite set (SumFunctionOnSet) and folds over a sequence (FoldLeft), with *)
(* products (ProductSet), and the extreme values of a finite set.          *)
(* Induction is used in the form "a set of numbers that holds 0 and the    *)
(* successor of each member holds every number", which needs no operator   *)
(* as a parameter.                                                         *)
(***************************************************************************)
EXTENDS Integers, SequencesExt, FiniteSetTheorems, WellFoundedInduction, TLAPS

-----------------------------------------------------------------------------
(* Induction                                                               *)

\* A set of natural numbers has a least element.
LEMMA LeastNumber ==
    ASSUME NEW T \in SUBSET Nat, T # {}
    PROVE  \E n \in T : \A m \in T : n <= m
  <1> DEFINE R == {ss \in Nat \X Nat : ss[1] < ss[2]}
  <1>1. IsWellFoundedOn(R, Nat)
    BY NatLessThanWellFounded, Zenon DEF OpToRel
  <1>2. \A x, y \in Nat : <<y, x>> \in R <=> y < x
    OBVIOUS
  <1> HIDE DEF R
  <1>3. PICK x \in T : \A y \in T : ~ (<<y, x>> \in R)
    BY <1>1, WFMin
  <1>4. ASSUME NEW m \in T PROVE x <= m
    <2>1. x \in Nat /\ m \in Nat /\ ~(m < x)
      BY <1>2, <1>3
    <2> QED
      BY <2>1
  <1> QED
    BY <1>3, <1>4

\* Induction over the natural numbers, for the members of a set.
LEMMA SetInduction ==
    ASSUME NEW T, 0 \in T, \A n \in Nat : n \in T => n + 1 \in T
    PROVE  \A n \in Nat : n \in T
  <1> SUFFICES ASSUME Nat \ T # {} PROVE FALSE
    OBVIOUS
  <1>1. PICK n \in Nat \ T : \A m \in Nat \ T : n <= m
    BY LeastNumber
  <1>2. n - 1 \in Nat /\ n - 1 \in T
    BY <1>1
  <1> QED
    BY <1>1, <1>2

\* Induction over the subsets of a finite set, by their number of elements: a
\* family that holds every subset whose smaller subsets it holds, holds them all.
LEMMA SubsetInduction ==
    ASSUME NEW S, IsFiniteSet(S), NEW F,
           \A s \in SUBSET S :
               (\A t \in SUBSET S : Cardinality(t) < Cardinality(s) => t \in F)
                   => s \in F
    PROVE  \A s \in SUBSET S : s \in F
  <1> DEFINE T == {n \in Nat : \A s \in SUBSET S : Cardinality(s) < n => s \in F}
  <1>1. \A s \in SUBSET S : Cardinality(s) \in Nat
    BY FS_Subset, FS_CardinalityType
  <1>2. 0 \in T
    BY <1>1
  <1>3. \A n \in Nat : n \in T => n + 1 \in T
    <2> SUFFICES ASSUME NEW n \in Nat, n \in T, NEW s \in SUBSET S, Cardinality(s) < n + 1
                 PROVE  s \in F
      OBVIOUS
    <2>1. \A t \in SUBSET S : Cardinality(t) < Cardinality(s) => t \in F
      BY <1>1
    <2> QED
      BY <2>1
  <1> HIDE DEF T
  <1>4. \A n \in Nat : n \in T
    BY <1>2, <1>3, SetInduction
  <1>5. ASSUME NEW s \in SUBSET S PROVE s \in F
    <2>1. Cardinality(s) + 1 \in T /\ Cardinality(s) < Cardinality(s) + 1
      BY <1>1, <1>4
    <2> QED
      BY <2>1 DEF T
  <1> QED
    BY <1>5

-----------------------------------------------------------------------------
(* Recursion over the subsets of a finite set, an element at a time        *)

\* Without one element a finite set is smaller.
LEMMA RemoveSmaller ==
    ASSUME NEW S, IsFiniteSet(S), NEW s \in SUBSET S, NEW x \in s
    PROVE  /\ s \ {x} \in SUBSET S
           /\ Cardinality(s) \in Nat /\ Cardinality(s \ {x}) \in Nat
           /\ Cardinality(s \ {x}) = Cardinality(s) - 1
  <1>1. IsFiniteSet(s) /\ Cardinality(s) \in Nat
    BY FS_Subset, FS_CardinalityType
  <1> QED
    BY <1>1, FS_RemoveElement, FS_CardinalityType

\* The equation of a fold: pick[s] is the element that is taken from s, op what
\* is done with it and the result for the others.
Recurs(S, base, op, pick, g) ==
    \A s \in SUBSET S :
        g[s] = IF s = {} THEN base ELSE op[<<g[s \ {pick[s]}], pick[s]>>]

\* The equation has a solution.
LEMMA RecursionExists ==
    ASSUME NEW S, IsFiniteSet(S), NEW V, NEW base \in V,
           NEW op \in [V \X S -> V], NEW pick,
           \A s \in SUBSET S : s # {} => pick[s] \in s
    PROVE  \E g \in [SUBSET S -> V] : Recurs(S, base, op, pick, g)
  <1> DEFINE Upto(n, g) == \A s \in SUBSET S : Cardinality(s) <= n =>
                 g[s] = IF s = {} THEN base ELSE op[<<g[s \ {pick[s]}], pick[s]>>]
             T == {n \in Nat : \E g \in [SUBSET S -> V] : Upto(n, g)}
  <1>0. Cardinality({}) = 0 /\ \A s \in SUBSET S : Cardinality(s) = 0 => s = {}
    BY FS_EmptySet, FS_Subset
  <1>1. 0 \in T
    <2> DEFINE g == [s \in SUBSET S |-> base]
    <2>1. \A s \in SUBSET S : Cardinality(s) \in Nat
      BY FS_Subset, FS_CardinalityType
    <2>2. g \in [SUBSET S -> V] /\ Upto(0, g)
      BY <1>0, <2>1
    <2> HIDE DEF g
    <2> QED
      BY <2>2
  <1>2. ASSUME NEW n \in Nat, n \in T PROVE n + 1 \in T
    <2>0. PICK g \in [SUBSET S -> V] : Upto(n, g)
      BY <1>2
    <2> DEFINE h == [s \in SUBSET S |-> IF Cardinality(s) = n + 1
                          THEN op[<<g[s \ {pick[s]}], pick[s]>>] ELSE g[s]]
    <2>1. h \in [SUBSET S -> V]
      <3>0. ASSUME NEW s \in SUBSET S, Cardinality(s) = n + 1
            PROVE  op[<<g[s \ {pick[s]}], pick[s]>>] \in V
        <4>1. s # {}
          <5>1. n + 1 # 0
            OBVIOUS
          <5> QED
            BY <1>0, <3>0, <5>1
        <4>2. pick[s] \in S /\ s \ {pick[s]} \in SUBSET S
          BY <4>1
        <4>3. <<g[s \ {pick[s]}], pick[s]>> \in V \X S
          BY <2>0, <4>2
        <4> QED
          BY <4>3
      <3> QED
        BY <2>0, <3>0
    <2>2. ASSUME NEW s \in SUBSET S, Cardinality(s) <= n + 1
          PROVE  h[s] = IF s = {} THEN base ELSE op[<<h[s \ {pick[s]}], pick[s]>>]
      <3>1. CASE s = {}
        <4>1. Cardinality(s) = 0 /\ 0 # n + 1 /\ 0 <= n
          BY <1>0, <3>1
        <4>2. h[s] = g[s]
          BY <4>1
        <4>3. g[s] = base
          BY <2>0, <3>1, <4>1
        <4> QED
          BY <3>1, <4>2, <4>3
      <3>2. CASE s # {}
        <4>1. pick[s] \in s
          BY <3>2
        <4> DEFINE rest == s \ {pick[s]}
        <4>2. /\ rest \in SUBSET S /\ Cardinality(s) \in Nat
              /\ Cardinality(rest) \in Nat /\ Cardinality(rest) = Cardinality(s) - 1
          BY <4>1, RemoveSmaller
        <4>3. h[rest] = g[rest]
          <5>1. Cardinality(rest) # n + 1
            BY <2>2, <4>2
          <5> HIDE DEF rest
          <5> QED
            BY <4>2, <5>1
        <4>4. h[s] = op[<<g[rest], pick[s]>>]
          <5>1. CASE Cardinality(s) = n + 1
            BY <5>1
          <5>2. CASE Cardinality(s) # n + 1
            <6>1. Cardinality(s) <= n /\ h[s] = g[s]
              BY <2>2, <4>2, <5>2
            <6> HIDE DEF h
            <6> QED
              BY <2>0, <3>2, <6>1
          <5> QED
            BY <5>1, <5>2
        <4> QED
          BY <3>2, <4>3, <4>4
      <3> QED
        BY <3>1, <3>2
    <2>3. Upto(n + 1, h)
      BY <2>2
    <2> HIDE DEF h
    <2>4. \E k \in [SUBSET S -> V] : Upto(n + 1, k)
      BY <2>1, <2>3
    <2> HIDE DEF Upto
    <2> QED
      BY <2>4
  <1> HIDE DEF T
  <1>3. Cardinality(S) \in T
    BY <1>1, <1>2, SetInduction, FS_CardinalityType
  <1>4. PICK g \in [SUBSET S -> V] : Upto(Cardinality(S), g)
    BY <1>3 DEF T
  <1>5. \A s \in SUBSET S : Cardinality(s) <= Cardinality(S)
    BY FS_Subset
  <1> QED
    BY <1>4, <1>5 DEF Recurs

-----------------------------------------------------------------------------
(* Sums                                                                    *)

\* The element that a sum over s takes first.
First(s) == CHOOSE x \in s : TRUE

\* g sums f over every subset of S.
Sums(f, S, g) ==
    \A s \in SUBSET S : g[s] = IF s = {} THEN 0 ELSE f[First(s)] + g[s \ {First(s)}]

\* First picks one of the elements.
LEMMA FirstIn ==
    ASSUME NEW s, s # {}
    PROVE  First(s) \in s
    BY DEF First

\* There is a function that sums f over the subsets of a finite set.
LEMMA SumsExist ==
    ASSUME NEW S, IsFiniteSet(S), NEW f, \A x \in S : f[x] \in Int
    PROVE  \E g \in [SUBSET S -> Int] : Sums(f, S, g)
  <1> DEFINE op == [vx \in Int \X S |-> f[vx[2]] + vx[1]]
             pick == [s \in SUBSET S |-> First(s)]
  <1>1. op \in [Int \X S -> Int]
    OBVIOUS
  <1>2. \A s \in SUBSET S : s # {} => pick[s] \in s
    BY FirstIn
  <1> HIDE DEF op, pick
  <1>3. PICK g \in [SUBSET S -> Int] : Recurs(S, 0, op, pick, g)
    BY <1>1, <1>2, RecursionExists, 0 \in Int
  <1>4. ASSUME NEW s \in SUBSET S
        PROVE  g[s] = IF s = {} THEN 0 ELSE f[First(s)] + g[s \ {First(s)}]
    <2>1. CASE s = {}
      BY <1>3, <2>1 DEF Recurs
    <2>2. CASE s # {}
      <3>1. pick[s] = First(s) /\ First(s) \in S
        BY <2>2, FirstIn DEF pick
      <3>2. g[s \ {First(s)}] \in Int
        BY <1>3
      <3>3. g[s] = op[<<g[s \ {First(s)}], First(s)>>]
        BY <1>3, <2>2, <3>1 DEF Recurs
      <3>4. op[<<g[s \ {First(s)}], First(s)>>] = f[First(s)] + g[s \ {First(s)}]
        BY <3>1, <3>2 DEF op
      <3> QED
        BY <2>2, <3>3, <3>4
    <2> QED
      BY <2>1, <2>2
  <1> QED
    BY <1>3, <1>4 DEF Sums

\* SumFunctionOnSet is the value of such a function at the whole set.
LEMMA SumIsSums ==
    ASSUME NEW S, IsFiniteSet(S), NEW f, \A x \in S : f[x] \in Int
    PROVE  \E g : Sums(f, S, g) /\ SumFunctionOnSet(f, S) = g[S]
  <1> DEFINE Step(g) == [s \in SUBSET S |-> IF s = {} THEN 0
                 ELSE f[CHOOSE x \in s : TRUE] + g[s \ {CHOOSE x \in s : TRUE}]]
             g == CHOOSE iter : iter = Step(iter)
  <1>1. SumFunctionOnSet(f, S) = g[S]
    BY DEF SumFunctionOnSet, FoldFunctionOnSet, MapThenFoldSet
  <1>2. PICK h \in [SUBSET S -> Int] : Sums(f, S, h)
    BY SumsExist
  <1>3. h = Step(h)
    BY <1>2 DEF Sums, First
  <1>4. g = Step(g)
    <2> HIDE DEF Step
    <2> QED
      BY <1>3
  <1>5. Sums(f, S, g)
    <2> SUFFICES ASSUME NEW s \in SUBSET S
                 PROVE  g[s] = IF s = {} THEN 0 ELSE f[First(s)] + g[s \ {First(s)}]
      BY DEF Sums
    <2>1. g[s] = Step(g)[s]
      BY <1>4
    <2> HIDE DEF g
    <2> QED
      BY <2>1 DEF First
  <1> QED
    BY <1>1, <1>5

\* Two functions that sum the same over the same subsets agree on them.
LEMMA SumsUnique ==
    ASSUME NEW S, IsFiniteSet(S), NEW T \in SUBSET S,
           NEW f, NEW g, NEW d, NEW h, \A x \in T : f[x] = d[x],
           Sums(f, S, g), Sums(d, T, h)
    PROVE  \A s \in SUBSET T : g[s] = h[s]
  <1> DEFINE F == {s \in SUBSET T : g[s] = h[s]}
  <1>1. IsFiniteSet(T)
    BY FS_Subset
  <1>2. ASSUME NEW s \in SUBSET T,
               \A t \in SUBSET T : Cardinality(t) < Cardinality(s) => t \in F
        PROVE  s \in F
    <2>1. CASE s = {}
      BY <2>1 DEF Sums
    <2>2. CASE s # {}
      <3> DEFINE rest == s \ {First(s)}
      <3>1. First(s) \in s
        BY <2>2, FirstIn
      <3>2. /\ rest \in SUBSET T /\ Cardinality(rest) < Cardinality(s)
        BY <1>1, <3>1, RemoveSmaller
      <3>3. g[rest] = h[rest]
        BY <1>2, <3>2
      <3>4. s \in SUBSET S
        OBVIOUS
      <3>5. g[s] = f[First(s)] + g[rest] /\ h[s] = d[First(s)] + h[rest]
        BY <2>2, <3>4, Zenon DEF Sums
      <3>6. f[First(s)] = d[First(s)]
        BY <3>1
      <3> QED
        BY <3>3, <3>5, <3>6
    <2> QED
      BY <2>1, <2>2
  <1> HIDE DEF F
  <1>3. \A s \in SUBSET T : s \in F
    BY <1>1, <1>2, SubsetInduction
  <1> QED
    BY <1>3 DEF F

\* A sum only depends on the values that are summed.
LEMMA SumSame ==
    ASSUME NEW S, IsFiniteSet(S), NEW f, NEW d,
           \A x \in S : f[x] \in Int /\ f[x] = d[x]
    PROVE  SumFunctionOnSet(f, S) = SumFunctionOnSet(d, S)
  <1>1. PICK g : Sums(f, S, g) /\ SumFunctionOnSet(f, S) = g[S]
    BY SumIsSums
  <1>2. PICK h : Sums(d, S, h) /\ SumFunctionOnSet(d, S) = h[S]
    BY SumIsSums
  <1> QED
    BY <1>1, <1>2, SumsUnique

\* What a sum is, one element at a time.
LEMMA SumFirst ==
    ASSUME NEW S, IsFiniteSet(S), NEW f, \A x \in S : f[x] \in Int
    PROVE  SumFunctionOnSet(f, S) =
               IF S = {} THEN 0
               ELSE f[First(S)] + SumFunctionOnSet(f, S \ {First(S)})
  <1>1. PICK g : Sums(f, S, g) /\ SumFunctionOnSet(f, S) = g[S]
    BY SumIsSums
  <1>2. CASE S = {}
    BY <1>1, <1>2 DEF Sums
  <1>3. CASE S # {}
    <2> DEFINE rest == S \ {First(S)}
    <2>1. rest \in SUBSET S /\ IsFiniteSet(rest)
      BY FS_Subset
    <2>2. PICK h : Sums(f, rest, h) /\ SumFunctionOnSet(f, rest) = h[rest]
      BY <2>1, SumIsSums
    <2>3. g[rest] = h[rest]
      BY <1>1, <2>1, <2>2, SumsUnique
    <2>4. g[S] = f[First(S)] + g[rest]
      BY <1>1, <1>3, Zenon DEF Sums
    <2> QED
      BY <1>1, <1>3, <2>2, <2>3, <2>4
  <1> QED
    BY <1>2, <1>3

\* Sums of integers are integers, of natural numbers natural numbers.
LEMMA SumType ==
    ASSUME NEW S, IsFiniteSet(S), NEW f, \A x \in S : f[x] \in Int
    PROVE  /\ SumFunctionOnSet(f, S) \in Int
           /\ (\A x \in S : f[x] \in Nat) => SumFunctionOnSet(f, S) \in Nat
  <1> DEFINE Good(s) == /\ SumFunctionOnSet(f, s) \in Int
                        /\ (\A x \in s : f[x] \in Nat) => SumFunctionOnSet(f, s) \in Nat
             F == {s \in SUBSET S : Good(s)}
  <1>1. ASSUME NEW s \in SUBSET S,
               \A t \in SUBSET S : Cardinality(t) < Cardinality(s) => t \in F
        PROVE  s \in F
    <2>1. IsFiniteSet(s)
      BY FS_Subset
    <2>2. SumFunctionOnSet(f, s) = IF s = {} THEN 0
               ELSE f[First(s)] + SumFunctionOnSet(f, s \ {First(s)})
      BY <2>1, SumFirst
    <2>3. CASE s = {}
      BY <2>2, <2>3
    <2>4. CASE s # {}
      <3> DEFINE rest == s \ {First(s)}
      <3>1. First(s) \in s
        BY <2>4, FirstIn
      <3>2. rest \in SUBSET S /\ Cardinality(rest) < Cardinality(s)
        BY <3>1, RemoveSmaller
      <3>3. Good(rest)
        BY <1>1, <3>2
      <3>4. SumFunctionOnSet(f, s) = f[First(s)] + SumFunctionOnSet(f, rest)
        BY <2>2, <2>4
      <3> QED
        BY <3>1, <3>3, <3>4
    <2> QED
      BY <2>3, <2>4
  <1> HIDE DEF F
  <1>2. \A s \in SUBSET S : s \in F
    BY <1>1, SubsetInduction
  <1>3. S \in F
    BY <1>2
  <1> QED
    BY <1>3 DEF F

\* Any element can be taken out of a sum.
LEMMA SumRemove ==
    ASSUME NEW S, IsFiniteSet(S), NEW f, \A x \in S : f[x] \in Int, NEW y \in S
    PROVE  /\ SumFunctionOnSet(f, S) = f[y] + SumFunctionOnSet(f, S \ {y})
           /\ SumFunctionOnSet(f, S \ {y}) \in Int
  <1> DEFINE Sum(s) == SumFunctionOnSet(f, s)
             F == {s \in SUBSET S : \A x \in s : Sum(s) = f[x] + Sum(s \ {x})}
  <1>1. \A s \in SUBSET S : IsFiniteSet(s) /\ Sum(s) \in Int
    BY FS_Subset, SumType
  <1>2. ASSUME NEW s \in SUBSET S,
               \A t \in SUBSET S : Cardinality(t) < Cardinality(s) => t \in F,
               NEW x \in s
        PROVE  Sum(s) = f[x] + Sum(s \ {x})
    <2> DEFINE c == First(s)
    <2>1. c \in s /\ c \in S /\ x \in S
      BY FirstIn
    <2>2. Sum(s) = f[c] + Sum(s \ {c})
      BY <1>1, <2>1, SumFirst
    <2>3. CASE c = x
      BY <2>2, <2>3
    <2>4. CASE c # x
      <3> HIDE DEF c
      <3>1. /\ s \ {c} \in SUBSET S /\ Cardinality(s \ {c}) < Cardinality(s)
            /\ s \ {x} \in SUBSET S /\ Cardinality(s \ {x}) < Cardinality(s)
        BY <2>1, RemoveSmaller
      <3>2. s \ {c} \in F /\ s \ {x} \in F
        BY <1>2, <3>1
      <3>3. x \in s \ {c} /\ c \in s \ {x}
        BY <2>1, <2>4
      <3>4. /\ Sum(s \ {c}) = f[x] + Sum((s \ {c}) \ {x})
            /\ Sum(s \ {x}) = f[c] + Sum((s \ {x}) \ {c})
        BY <3>2, <3>3
      <3>5. (s \ {c}) \ {x} = (s \ {x}) \ {c}
        OBVIOUS
      <3>6. /\ f[c] \in Int /\ f[x] \in Int /\ Sum((s \ {x}) \ {c}) \in Int
        BY <1>1, <2>1
      <3>7. /\ Sum(s \ {c}) = f[x] + Sum((s \ {x}) \ {c})
            /\ Sum(s \ {x}) = f[c] + Sum((s \ {x}) \ {c})
        BY <3>4, <3>5, Zenon
      <3> HIDE DEF Sum
      <3>8. Sum(s) = f[x] + Sum(s \ {x})
        BY <2>2, <3>6, <3>7
      <3> QED
        BY <3>8
    <2> QED
      BY <2>3, <2>4
  <1>3. \A s \in SUBSET S :
            (\A t \in SUBSET S : Cardinality(t) < Cardinality(s) => t \in F) => s \in F
    BY <1>2
  <1> HIDE DEF F
  <1>4. S \in F
    BY <1>3, SubsetInduction
  <1> QED
    BY <1>1, <1>4 DEF F

\* A change of one value changes the sum by as much.
LEMMA SumUpdate ==
    ASSUME NEW S, IsFiniteSet(S), NEW f, NEW d, NEW y \in S,
           \A x \in S : f[x] \in Int /\ d[x] \in Int,
           \A x \in S \ {y} : d[x] = f[x]
    PROVE  SumFunctionOnSet(d, S) = SumFunctionOnSet(f, S) + (d[y] - f[y])
  <1>1. IsFiniteSet(S \ {y})
    BY FS_Subset
  <1>2. /\ SumFunctionOnSet(f, S) = f[y] + SumFunctionOnSet(f, S \ {y})
        /\ SumFunctionOnSet(d, S) = d[y] + SumFunctionOnSet(d, S \ {y})
        /\ SumFunctionOnSet(f, S \ {y}) \in Int
    BY SumRemove
  <1>3. SumFunctionOnSet(f, S \ {y}) = SumFunctionOnSet(d, S \ {y})
    BY <1>1, SumSame
  <1>4. f[y] \in Int /\ d[y] \in Int
    OBVIOUS
  <1> QED
    BY <1>2, <1>3, <1>4

\* d has the values of f over S, except at y.
DiffersAt(f, d, S, y) ==
    /\ \A x \in S : f[x] \in Int /\ d[x] \in Int
    /\ \A x \in S \ {y} : d[x] = f[x]

\* The same, for functions that differ in one value.
LEMMA SumDiffers ==
    ASSUME NEW S, IsFiniteSet(S), NEW f, NEW d, NEW y \in S, DiffersAt(f, d, S, y)
    PROVE  SumFunctionOnSet(d, S) = SumFunctionOnSet(f, S) + (d[y] - f[y])
  BY SumUpdate DEF DiffersAt

\* No natural number of a sum exceeds it.
LEMMA SumBounds ==
    ASSUME NEW S, IsFiniteSet(S), NEW f, \A x \in S : f[x] \in Nat, NEW y \in S
    PROVE  f[y] <= SumFunctionOnSet(f, S) /\ SumFunctionOnSet(f, S) \in Nat
  <1>1. IsFiniteSet(S \ {y})
    BY FS_Subset
  <1>2. SumFunctionOnSet(f, S \ {y}) \in Nat /\ SumFunctionOnSet(f, S) \in Nat
    BY <1>1, SumType
  <1>3. SumFunctionOnSet(f, S) = f[y] + SumFunctionOnSet(f, S \ {y})
    BY SumRemove
  <1> QED
    BY <1>2, <1>3

\* A sum of zeros is zero.
LEMMA SumZero ==
    ASSUME NEW S, IsFiniteSet(S), NEW f, \A x \in S : f[x] = 0
    PROVE  SumFunctionOnSet(f, S) = 0
  <1> DEFINE F == {s \in SUBSET S : SumFunctionOnSet(f, s) = 0}
  <1>1. ASSUME NEW s \in SUBSET S,
               \A t \in SUBSET S : Cardinality(t) < Cardinality(s) => t \in F
        PROVE  s \in F
    <2>1. IsFiniteSet(s)
      BY FS_Subset
    <2>0. \A x \in s : f[x] \in Int
      OBVIOUS
    <2>2. SumFunctionOnSet(f, s) = IF s = {} THEN 0
               ELSE f[First(s)] + SumFunctionOnSet(f, s \ {First(s)})
      BY <2>0, <2>1, SumFirst
    <2>3. CASE s # {}
      <3> DEFINE rest == s \ {First(s)}
      <3>1. First(s) \in s /\ f[First(s)] = 0
        BY <2>3, FirstIn
      <3>2. rest \in SUBSET S /\ Cardinality(rest) < Cardinality(s)
        BY <3>1, RemoveSmaller
      <3>3. SumFunctionOnSet(f, rest) = 0
        BY <1>1, <3>2
      <3> QED
        BY <2>2, <2>3, <3>1, <3>3
    <2> QED
      BY <2>2, <2>3
  <1> HIDE DEF F
  <1>2. S \in F
    BY <1>1, SubsetInduction
  <1> QED
    BY <1>2 DEF F

\* The sum of a linear combination is that of the sums.
LEMMA SumLinear ==
    ASSUME NEW S, IsFiniteSet(S), NEW f, NEW d, NEW h, NEW a \in Int, NEW b \in Int,
           \A x \in S : f[x] \in Int /\ d[x] \in Int /\ h[x] = a * f[x] + b * d[x]
    PROVE  SumFunctionOnSet(h, S)
               = a * SumFunctionOnSet(f, S) + b * SumFunctionOnSet(d, S)
  <1> DEFINE F == {s \in SUBSET S : SumFunctionOnSet(h, s)
                       = a * SumFunctionOnSet(f, s) + b * SumFunctionOnSet(d, s)}
  <1>0. \A x \in S : h[x] \in Int
    OBVIOUS
  <1>1. ASSUME NEW s \in SUBSET S,
               \A t \in SUBSET S : Cardinality(t) < Cardinality(s) => t \in F
        PROVE  s \in F
    <2>1. IsFiniteSet(s)
      BY FS_Subset
    <2>2. /\ \A x \in s : f[x] \in Int
          /\ \A x \in s : d[x] \in Int
          /\ \A x \in s : h[x] \in Int
      BY <1>0
    <2>3. CASE s = {}
      <3>1. /\ SumFunctionOnSet(f, s) = 0 /\ SumFunctionOnSet(d, s) = 0
            /\ SumFunctionOnSet(h, s) = 0
        BY <2>1, <2>3, SumZero
      <3> QED
        BY <3>1
    <2>4. CASE s # {}
      <3> DEFINE x == First(s)
                 rest == s \ {x}
                 u == SumFunctionOnSet(f, rest)
                 v == SumFunctionOnSet(d, rest)
      <3>1. x \in s
        BY <2>4, FirstIn
      <3>2. rest \in SUBSET S /\ Cardinality(rest) < Cardinality(s)
        BY <3>1, RemoveSmaller
      <3>3. SumFunctionOnSet(h, rest) = a * u + b * v
        BY <1>1, <3>2
      <3>4. /\ SumFunctionOnSet(f, s) = f[x] + u /\ u \in Int
            /\ SumFunctionOnSet(d, s) = d[x] + v /\ v \in Int
            /\ SumFunctionOnSet(h, s) = h[x] + SumFunctionOnSet(h, rest)
        BY <2>1, <2>2, <3>1, SumRemove
      <3>5. h[x] = a * f[x] + b * d[x] /\ f[x] \in Int /\ d[x] \in Int
        BY <3>1
      <3> HIDE DEF u, v, x, rest
      <3>6. (a * f[x] + b * d[x]) + (a * u + b * v) = a * (f[x] + u) + b * (d[x] + v)
        BY <3>4, <3>5
      <3> QED
        BY <3>3, <3>4, <3>5, <3>6
    <2> QED
      BY <2>3, <2>4
  <1> HIDE DEF F
  <1>2. S \in F
    BY <1>1, SubsetInduction
  <1> QED
    BY <1>2 DEF F

\* A sum of ones is the number of them.
LEMMA SumOnes ==
    ASSUME NEW S, IsFiniteSet(S), NEW f, \A x \in S : f[x] = 1
    PROVE  SumFunctionOnSet(f, S) = Cardinality(S)
  <1> DEFINE F == {s \in SUBSET S : SumFunctionOnSet(f, s) = Cardinality(s)}
  <1>1. ASSUME NEW s \in SUBSET S,
               \A t \in SUBSET S : Cardinality(t) < Cardinality(s) => t \in F
        PROVE  s \in F
    <2>1. IsFiniteSet(s) /\ \A x \in s : f[x] \in Int
      BY FS_Subset
    <2>2. CASE s = {}
      BY <2>1, <2>2, SumZero, FS_EmptySet
    <2>3. CASE s # {}
      <3> DEFINE rest == s \ {First(s)}
      <3>1. First(s) \in s
        BY <2>3, FirstIn
      <3>2. /\ rest \in SUBSET S /\ Cardinality(s) \in Nat
            /\ Cardinality(rest) = Cardinality(s) - 1
        BY <3>1, RemoveSmaller
      <3>3. SumFunctionOnSet(f, rest) = Cardinality(rest)
        BY <1>1, <3>2
      <3>4. SumFunctionOnSet(f, s) = f[First(s)] + SumFunctionOnSet(f, rest)
        BY <2>1, <3>1, SumRemove
      <3> QED
        BY <3>1, <3>2, <3>3, <3>4
    <2> QED
      BY <2>2, <2>3
  <1> HIDE DEF F
  <1>2. S \in F
    BY <1>1, SubsetInduction
  <1> QED
    BY <1>2 DEF F

\* The sum over two disjoint sets is the sum of both.
LEMMA SumUnion ==
    ASSUME NEW S, IsFiniteSet(S), NEW T, IsFiniteSet(T), S \cap T = {}, NEW f,
           \A x \in S \cup T : f[x] \in Int
    PROVE  SumFunctionOnSet(f, S \cup T)
               = SumFunctionOnSet(f, S) + SumFunctionOnSet(f, T)
  <1> DEFINE F == {t \in SUBSET T : SumFunctionOnSet(f, S \cup t)
                                = SumFunctionOnSet(f, S) + SumFunctionOnSet(f, t)}
  <1>1. ASSUME NEW t \in SUBSET T,
               \A u \in SUBSET T : Cardinality(u) < Cardinality(t) => u \in F
        PROVE  t \in F
    <2>1. IsFiniteSet(t) /\ IsFiniteSet(S \cup t)
      BY FS_Subset, FS_Union
    <2>2. /\ \A x \in S : f[x] \in Int
          /\ \A x \in t : f[x] \in Int
          /\ \A x \in S \cup t : f[x] \in Int
      OBVIOUS
    <2>3. SumFunctionOnSet(f, S) \in Int
      BY <2>2, SumType
    <2>4. CASE t = {}
      <3>1. SumFunctionOnSet(f, t) = 0
        BY <2>1, <2>4, SumZero
      <3>2. S \cup t = S
        BY <2>4
      <3>3. SumFunctionOnSet(f, S \cup t) = SumFunctionOnSet(f, S)
        BY <3>2
      <3> QED
        BY <2>3, <3>1, <3>3
    <2>5. CASE t # {}
      <3>1. PICK x \in t : TRUE
        BY <2>5
      <3> DEFINE u == t \ {x}
      <3>2. u \in SUBSET T /\ Cardinality(u) < Cardinality(t)
        BY RemoveSmaller
      <3>3. SumFunctionOnSet(f, S \cup u) = SumFunctionOnSet(f, S) + SumFunctionOnSet(f, u)
        BY <1>1, <3>2
      <3>4. (S \cup t) \ {x} = S \cup u
        OBVIOUS
      <3>5. SumFunctionOnSet(f, t) = f[x] + SumFunctionOnSet(f, u) /\ SumFunctionOnSet(f, u) \in Int
        BY <2>1, <2>2, SumRemove
      <3>6. SumFunctionOnSet(f, S \cup t) = f[x] + SumFunctionOnSet(f, (S \cup t) \ {x})
        BY <2>1, <2>2, SumRemove
      <3>8. SumFunctionOnSet(f, S \cup t) = f[x] + SumFunctionOnSet(f, S \cup u)
        BY <3>4, <3>6
      <3>7. f[x] \in Int
        BY <2>2
      <3> HIDE DEF u
      <3>9. SumFunctionOnSet(f, S \cup t) = SumFunctionOnSet(f, S) + SumFunctionOnSet(f, t)
        BY <2>3, <3>3, <3>5, <3>7, <3>8
      <3> QED
        BY <3>9
    <2> QED
      BY <2>4, <2>5
  <1> HIDE DEF F
  <1>2. T \in F
    BY <1>1, SubsetInduction
  <1> QED
    BY <1>2 DEF F

\* h takes S one to one, and f is d along h.
Along(f, d, h, S) ==
    /\ \A x, y \in S : h[x] = h[y] => x = y
    /\ \A x \in S : f[x] = d[h[x]] /\ f[x] \in Int

\* A sum can be taken over the images.
LEMMA SumAlong ==
    ASSUME NEW S, IsFiniteSet(S), NEW f, NEW d, NEW h, Along(f, d, h, S)
    PROVE  SumFunctionOnSet(f, S) = SumFunctionOnSet(d, {h[x] : x \in S})
  <1> DEFINE Image(s) == {h[x] : x \in s}
             F == {s \in SUBSET S :
                      SumFunctionOnSet(f, s) = SumFunctionOnSet(d, Image(s))}
  <1>1. ASSUME NEW s \in SUBSET S,
               \A u \in SUBSET S : Cardinality(u) < Cardinality(s) => u \in F
        PROVE  s \in F
    <2>1. IsFiniteSet(s) /\ IsFiniteSet(Image(s))
      <3> DEFINE g == [x \in s |-> h[x]]
      <3>1. IsFiniteSet(s)
        BY FS_Subset
      <3>2. g \in Surjection(s, Image(s))
        BY DEF Surjection
      <3> QED
        BY <3>1, <3>2, FS_Surjection
    <2>2. /\ \A x \in s : f[x] \in Int /\ f[x] = d[h[x]]
          /\ \A y \in Image(s) : d[y] \in Int
          /\ \A x, y \in s : h[x] = h[y] => x = y
      BY DEF Along
    <2>3. CASE s = {}
      <3>1. Image(s) = {}
        BY <2>3
      <3>2. SumFunctionOnSet(f, s) = 0
        BY <2>1, <2>3, SumZero
      <3>3. SumFunctionOnSet(d, Image(s)) = 0
        BY <2>1, <3>1, SumZero
      <3> QED
        BY <3>2, <3>3
    <2>4. CASE s # {}
      <3>1. PICK x \in s : TRUE
        BY <2>4
      <3> DEFINE u == s \ {x}
      <3>2. u \in SUBSET S /\ Cardinality(u) < Cardinality(s)
        BY RemoveSmaller
      <3>3. SumFunctionOnSet(f, u) = SumFunctionOnSet(d, Image(u))
        BY <1>1, <3>2
      <3>4. Image(s) \ {h[x]} = Image(u) /\ h[x] \in Image(s)
        BY <2>2
      <3>5. SumFunctionOnSet(f, s) = f[x] + SumFunctionOnSet(f, u)
        BY <2>1, <2>2, SumRemove
      <3> HIDE DEF u, Image
      <3>6. SumFunctionOnSet(d, Image(s))
                = d[h[x]] + SumFunctionOnSet(d, Image(s) \ {h[x]})
        BY <2>1, <2>2, <3>4, SumRemove
      <3>7. SumFunctionOnSet(f, s) = SumFunctionOnSet(d, Image(s))
        BY <2>2, <3>3, <3>4, <3>5, <3>6
      <3> QED
        BY <3>7
    <2> QED
      BY <2>3, <2>4
  <1> HIDE DEF F
  <1>2. S \in F
    BY <1>1, SubsetInduction
  <1> QED
    BY <1>2 DEF F

-----------------------------------------------------------------------------
(* Products and extreme values                                             *)

\* A product of finitely many numbers is a number.
LEMMA ProductIsNumber ==
    ASSUME NEW S \in SUBSET Int, IsFiniteSet(S)
    PROVE  ProductSet(S) \in Int
  <1> DEFINE Step(g) == [s \in SUBSET S |-> IF s = {} THEN 1
                 ELSE (CHOOSE x \in s : TRUE) * g[s \ {CHOOSE x \in s : TRUE}]]
             g == CHOOSE iter : iter = Step(iter)
             op == [vx \in Int \X S |-> vx[2] * vx[1]]
             pick == [s \in SUBSET S |-> First(s)]
             F == {s \in SUBSET S : g[s] \in Int}
  <1>1. ProductSet(S) = g[S]
    BY DEF ProductSet, FoldSet, MapThenFoldSet
  <1>2. op \in [Int \X S -> Int]
    <2>1. \A u, w \in Int : w * u \in Int
      OBVIOUS
    <2> QED
      BY <2>1
  <1>3. \A s \in SUBSET S : s # {} => pick[s] \in s
    BY FirstIn
  <1>4. PICK h \in [SUBSET S -> Int] : Recurs(S, 1, op, pick, h)
    <2> HIDE DEF op, pick
    <2> QED
      BY <1>2, <1>3, RecursionExists, 1 \in Int
  <1>5. ASSUME NEW s \in SUBSET S, s # {}
        PROVE  /\ First(s) \in S /\ s \ {First(s)} \in SUBSET S
               /\ h[s] = First(s) * h[s \ {First(s)}]
    <2>1. pick[s] = First(s) /\ First(s) \in S
      BY <1>5, FirstIn
    <2>2. h[s \ {First(s)}] \in Int
      BY <1>4
    <2>3. h[s] = op[<<h[s \ {First(s)}], First(s)>>]
      BY <1>4, <1>5, <2>1 DEF Recurs
    <2>4. op[<<h[s \ {First(s)}], First(s)>>] = First(s) * h[s \ {First(s)}]
      BY <2>1, <2>2
    <2> QED
      BY <2>1, <2>3, <2>4
  <1>6. h[{}] = 1
    BY <1>4 DEF Recurs
  <1>7. h = Step(h)
    <2>1. \A s \in SUBSET S : h[s] = Step(h)[s]
      BY <1>5, <1>6 DEF First
    <2>2. DOMAIN h = SUBSET S /\ DOMAIN Step(h) = SUBSET S
      BY <1>4
    <2> HIDE DEF Step
    <2>3. h = [s \in SUBSET S |-> h[s]]
      BY <1>4
    <2>4. Step(h) = [s \in SUBSET S |-> Step(h)[s]]
      BY DEF Step
    <2> QED
      BY <2>1, <2>3, <2>4
  <1>8. g = Step(g)
    <2> HIDE DEF Step
    <2> QED
      BY <1>7
  <1> HIDE DEF g, op, pick
  <1>9. ASSUME NEW s \in SUBSET S, s # {}
        PROVE  g[s] = First(s) * g[s \ {First(s)}]
    <2>1. g[s] = Step(g)[s]
      BY <1>8
    <2> QED
      BY <1>9, <2>1 DEF First
  <1>10. g[{}] = 1
    <2>1. g[{}] = Step(g)[{}]
      BY <1>8
    <2> QED
      BY <2>1
  <1> HIDE DEF Step
  <1>11. ASSUME NEW s \in SUBSET S,
                \A r \in SUBSET S : Cardinality(r) < Cardinality(s) => r \in F
         PROVE  s \in F
    <2>1. CASE s = {}
      BY <1>10, <2>1
    <2>2. CASE s # {}
      <3>1. First(s) \in s /\ First(s) \in Int
        BY <2>2, FirstIn
      <3>2. s \ {First(s)} \in SUBSET S /\ Cardinality(s \ {First(s)}) < Cardinality(s)
        <4> DEFINE x == First(s)
        <4>1. x \in s
          BY <3>1
        <4> HIDE DEF x
        <4>2. /\ s \ {x} \in SUBSET S
              /\ Cardinality(s) \in Nat /\ Cardinality(s \ {x}) \in Nat
              /\ Cardinality(s \ {x}) = Cardinality(s) - 1
          BY <4>1, RemoveSmaller
        <4>3. Cardinality(s \ {x}) < Cardinality(s)
          BY <4>2
        <4> QED
          BY <4>2, <4>3 DEF x
      <3>3. g[s \ {First(s)}] \in Int
        BY <1>11, <3>2
      <3>4. \A u, w \in Int : u * w \in Int
        OBVIOUS
      <3>5. First(s) * g[s \ {First(s)}] \in Int
        BY <3>1, <3>3, <3>4
      <3> QED
        BY <1>9, <2>2, <3>5
    <2> QED
      BY <2>1, <2>2
  <1> HIDE DEF F
  <1>12. \A s \in SUBSET S : s \in F
    BY <1>11, SubsetInduction
  <1>13. S \in F
    BY <1>12
  <1> QED
    BY <1>1, <1>13 DEF F

\* A function on a finite set has a least value.
LEMMA LeastValue ==
    ASSUME NEW D, IsFiniteSet(D), NEW v, \A i \in D : v[i] \in Int, D # {}
    PROVE  \E i \in D : \A j \in D : v[i] <= v[j]
  <1> DEFINE Least(A) == A # {} => \E i \in A : \A j \in A : v[i] <= v[j]
             F == {A \in SUBSET D : Least(A)}
  <1>1. ASSUME NEW A \in SUBSET D,
               \A B \in SUBSET D : Cardinality(B) < Cardinality(A) => B \in F
        PROVE  A \in F
    <2> SUFFICES ASSUME A # {} PROVE \E i \in A : \A j \in A : v[i] <= v[j]
      OBVIOUS
    <2>1. PICK x \in A : TRUE
      OBVIOUS
    <2>2. /\ A \ {x} \in SUBSET D /\ Cardinality(A \ {x}) < Cardinality(A)
      BY <2>1, RemoveSmaller
    <2>3. Least(A \ {x})
      BY <1>1, <2>2
    <2>4. CASE A \ {x} = {}
      <3>1. \A j \in A : j = x
        BY <2>4
      <3> QED
        BY <2>1, <3>1
    <2>5. CASE A \ {x} # {}
      <3>1. PICK i \in A \ {x} : \A j \in A \ {x} : v[i] <= v[j]
        BY <2>3, <2>5
      <3>2. v[i] \in Int /\ v[x] \in Int /\ \A j \in A : v[j] \in Int
        OBVIOUS
      <3>3. CASE v[i] <= v[x]
        BY <3>1, <3>3
      <3>4. CASE v[x] <= v[i]
        <4>1. \A j \in A : v[x] <= v[j]
          BY <3>1, <3>2, <3>4
        <4> QED
          BY <4>1
      <3> QED
        BY <3>2, <3>3, <3>4
    <2> QED
      BY <2>4, <2>5
  <1> HIDE DEF F
  <1>2. D \in F
    BY <1>1, SubsetInduction
  <1> QED
    BY <1>2 DEF F

\* And a greatest one.
LEMMA GreatestValue ==
    ASSUME NEW D, IsFiniteSet(D), NEW v, \A i \in D : v[i] \in Int, D # {}
    PROVE  \E i \in D : \A j \in D : v[j] <= v[i]
  <1> DEFINE w == [i \in D |-> -v[i]]
  <1>1. \A i \in D : w[i] \in Int /\ w[i] = -v[i]
    OBVIOUS
  <1> HIDE DEF w
  <1>2. PICK i \in D : \A j \in D : w[i] <= w[j]
    BY <1>1, LeastValue
  <1>3. \A j \in D : v[j] <= v[i]
    BY <1>1, <1>2
  <1> QED
    BY <1>3

-----------------------------------------------------------------------------
(* Folds over a sequence                                                   *)

\* The last position of the first i ones.
LEMMA LastOfInterval ==
    ASSUME NEW i \in Nat \ {0}
    PROVE  Max(1..i) = i /\ (1..i) \ {i} = 1..(i - 1) /\ 1..i # {}
  <1>1. i \in 1..i /\ \A y \in 1..i : i >= y
    OBVIOUS
  <1>2. \A x \in 1..i : (\A y \in 1..i : x >= y) => x = i
    OBVIOUS
  <1>3. Max(1..i) = i
    BY <1>1, <1>2 DEF Max
  <1>4. (1..i) \ {i} = 1..(i - 1)
    OBVIOUS
  <1> QED
    BY <1>1, <1>3, <1>4

\* Numbers that are bounded have a largest one.
LEMMA LargestIn ==
    ASSUME NEW s \in SUBSET Nat, s # {}, NEW n \in Nat, \A x \in s : x <= n
    PROVE  Max(s) \in s /\ \A y \in s : y <= Max(s)
  <1> DEFINE T == {m \in Nat : \A x \in s : x <= m}
  <1>1. T \in SUBSET Nat /\ n \in T
    OBVIOUS
  <1>2. PICK m \in T : \A k \in T : m <= k
    BY <1>1, LeastNumber
  <1>3. m \in Nat /\ \A x \in s : x <= m
    OBVIOUS
  <1>4. m \in s
    <2>1. CASE m = 0
      <3>1. PICK x \in s : TRUE
        OBVIOUS
      <3>2. x \in Nat /\ x <= 0
        BY <1>3, <2>1
      <3>3. x = m
        BY <2>1, <3>2
      <3> QED
        BY <3>3
    <2>2. CASE m # 0
      <3>1. m - 1 \in Nat /\ m - 1 \notin T
        BY <1>2, <1>3, <2>2
      <3>2. PICK x \in s : ~(x <= m - 1)
        BY <3>1
      <3>3. x \in Nat /\ x <= m
        BY <1>3
      <3> QED
        BY <1>3, <3>2, <3>3
    <2> QED
      BY <2>1, <2>2
  <1>5. \E x \in s : \A y \in s : x >= y
    BY <1>3, <1>4
  <1>6. Max(s) \in s /\ \A y \in s : Max(s) >= y
    BY <1>5 DEF Max
  <1> QED
    BY <1>6

\* What a fold may do at its positions 1 to n, with values of V.
FoldSteps(V, n) == [V \X (1..n) -> V]

\* g solves the equation of FoldLeft over n positions.
Folds(g, V, n, base, op) ==
    /\ g \in [SUBSET (1..n) -> V]
    /\ \A s \in SUBSET (1..n) :
         g[s] = IF s = {} THEN base ELSE op[<<g[s \ {Max(s)}], Max(s)>>]

\* h[i] is the value of the fold after its first i positions.
Traces(h, V, n, base, op) ==
    /\ h \in [0..n -> V] /\ h[0] = base
    /\ \A i \in 1..n : h[i] = op[<<h[i - 1], i>>]

\* The equation of FoldLeft has a solution.
LEMMA FoldExists ==
    ASSUME NEW n \in Nat, NEW V, NEW base \in V, NEW op \in FoldSteps(V, n)
    PROVE  \E g : Folds(g, V, n, base, op)
  <1> DEFINE pick == [s \in SUBSET (1..n) |-> Max(s)]
  <1>1. IsFiniteSet(1..n)
    BY FS_Interval
  <1>2. ASSUME NEW s \in SUBSET (1..n), s # {}
        PROVE  Max(s) \in s
    <2>1. s \in SUBSET Nat /\ \A x \in s : x <= n
      OBVIOUS
    <2> QED
      BY <1>2, <2>1, LargestIn
  <1>3. \A s \in SUBSET (1..n) : s # {} => pick[s] \in s
    BY <1>2
  <1>4. \A s \in SUBSET (1..n) : pick[s] = Max(s)
    OBVIOUS
  <1> HIDE DEF pick
  <1>5. PICK g \in [SUBSET (1..n) -> V] : Recurs(1..n, base, op, pick, g)
    BY <1>1, <1>3, RecursionExists DEF FoldSteps
  <1> QED
    BY <1>4, <1>5 DEF Recurs, Folds

\* A fold that takes a step of op at each of n positions, whatever c is elsewhere:
\* h[i] is its value after i of them.
LEMMA FoldTrace ==
    ASSUME NEW n \in Nat, NEW V, NEW base \in V, NEW op \in FoldSteps(V, n),
           NEW c, c[{}] = base,
           \A i \in 1..n :
               c[1..(i - 1)] \in V => c[1..i] = op[<<c[1..(i - 1)], i>>]
    PROVE  \E h : Traces(h, V, n, base, op) /\ h[n] = c[1..n]
  <1> DEFINE T == {i \in Nat : i <= n => c[1..i] \in V}
             h == [i \in 0..n |-> c[1..i]]
  <1>1. 1..0 = {} /\ c[1..0] = base
    OBVIOUS
  <1>2. 0 \in T
    BY <1>1
  <1>3. ASSUME NEW i \in Nat, i \in T PROVE i + 1 \in T
    <2>1. CASE i + 1 <= n
      <3>1. i + 1 \in 1..n /\ (i + 1) - 1 = i /\ c[1..i] \in V
        BY <1>3, <2>1
      <3>2. c[1..(i + 1)] = op[<<c[1..i], i + 1>>]
        BY <3>1
      <3> QED
        BY <3>1, <3>2 DEF FoldSteps
    <2> QED
      BY <2>1
  <1>4. \A i \in Nat : i \in T
    <2> HIDE DEF T
    <2> QED
      BY <1>2, <1>3, SetInduction
  <1>5. \A i \in 0..n : c[1..i] \in V
    BY <1>4
  <1>6. ASSUME NEW i \in 1..n
        PROVE  h[i] = op[<<h[i - 1], i>>]
    <2>1. i \in 0..n /\ i - 1 \in 0..n
      OBVIOUS
    <2>2. c[1..i] = op[<<c[1..(i - 1)], i>>]
      BY <1>5, <2>1
    <2> QED
      BY <2>1, <2>2
  <1>7. h \in [0..n -> V] /\ h[0] = base /\ h[n] = c[1..n]
    BY <1>1, <1>5
  <1> HIDE DEF h
  <1> QED
    BY <1>6, <1>7 DEF Traces

\* h[i] has the members of seq at those of its first i positions that are in K.
Gathers(h, seq, K) ==
    /\ h[0] = <<>>
    /\ \A i \in DOMAIN seq :
         h[i] = IF i \in K THEN Append(h[i - 1], seq[i]) ELSE h[i - 1]

\* e has the members of seq at the positions of K up to n, in the order of seq.
Picks(e, A, seq, K, n) ==
    /\ e \in Seq(A)
    /\ \E pos \in [1..Len(e) -> K] :
         /\ \A i \in 1..Len(e) : e[i] = seq[pos[i]]
         /\ \A i, j \in 1..Len(e) : i < j => pos[i] < pos[j]
         /\ \A k \in K : k <= n => \E i \in 1..Len(e) : pos[i] = k
         /\ \A i \in 1..Len(e) : pos[i] <= n

\* What is gathered one by one is picked: a subsequence, in its order.
LEMMA Collected ==
    ASSUME NEW A, NEW seq \in Seq(A), NEW K \in SUBSET DOMAIN seq, NEW h,
           Gathers(h, seq, K), NEW n \in 0..Len(seq)
    PROVE  Picks(h[n], A, seq, K, n)
  <1>0. /\ h[0] = <<>>
        /\ \A i \in DOMAIN seq :
             h[i] = IF i \in K THEN Append(h[i - 1], seq[i]) ELSE h[i - 1]
    BY DEF Gathers
  <1> DEFINE At(e, m, pos) ==
                 /\ \A i \in 1..Len(e) : e[i] = seq[pos[i]]
                 /\ \A i, j \in 1..Len(e) : i < j => pos[i] < pos[j]
                 /\ \A k \in K : k <= m => \E i \in 1..Len(e) : pos[i] = k
                 /\ \A i \in 1..Len(e) : pos[i] <= m
             Good(e, m) == e \in Seq(A) /\ \E pos \in [1..Len(e) -> K] : At(e, m, pos)
             T == {m \in Nat : m <= Len(seq) => Good(h[m], m)}
  <1>1. 0 \in T
    <2> DEFINE none == [i \in 1..0 |-> i]
    <2>1. Len(<<>>) = 0 /\ <<>> \in Seq(A)
      OBVIOUS
    <2>2. none \in [1..0 -> K] /\ At(<<>>, 0, none)
      OBVIOUS
    <2> HIDE DEF none
    <2>3. Good(<<>>, 0)
      BY <2>1, <2>2, Zenon
    <2> HIDE DEF Good
    <2> QED
      BY <1>0, <2>3
  <1>2. ASSUME NEW m \in Nat, m \in T PROVE m + 1 \in T
    <2>1. SUFFICES ASSUME m + 1 <= Len(seq) PROVE Good(h[m + 1], m + 1)
      OBVIOUS
    <2>2. m + 1 \in DOMAIN seq /\ (m + 1) - 1 = m /\ m <= Len(seq)
      BY <2>1
    <2>3. Good(h[m], m)
      BY <1>2, <2>2
    <2> DEFINE e == h[m]
    <2>4. h[m + 1] = IF m + 1 \in K THEN Append(e, seq[m + 1]) ELSE e
      BY <1>0, <2>2
    <2> HIDE DEF e
    <2>5. e \in Seq(A) /\ Len(e) \in Nat
      BY <2>3 DEF e
    <2>6. PICK pos \in [1..Len(e) -> K] : At(e, m, pos)
      BY <2>3 DEF e
    <2>7. CASE m + 1 \notin K
      <3>1. At(e, m + 1, pos)
        <4>1. \A k \in K : k <= m + 1 => k <= m
          BY <2>7
        <4> QED
          BY <2>6, <4>1
      <3> QED
        BY <2>4, <2>5, <2>7, <3>1
    <2>8. CASE m + 1 \in K
      <3> DEFINE x == Append(e, seq[m + 1])
                 p == [i \in 1..Len(x) |-> IF i = Len(e) + 1 THEN m + 1 ELSE pos[i]]
      <3>1. /\ x \in Seq(A) /\ Len(x) = Len(e) + 1
            /\ x[Len(e) + 1] = seq[m + 1]
            /\ \A i \in 1..Len(e) : x[i] = e[i]
        BY <2>2, <2>5
      <3> HIDE DEF x
      <3>2. p \in [1..Len(x) -> K]
        BY <2>5, <2>8, <3>1
      <3>3. /\ p[Len(e) + 1] = m + 1
            /\ \A i \in 1..Len(e) : p[i] = pos[i] /\ p[i] <= m /\ p[i] \in Nat
        <4>1. p[Len(e) + 1] = m + 1
          BY <2>5, <3>1
        <4>2. ASSUME NEW i \in 1..Len(e)
              PROVE  p[i] = pos[i] /\ pos[i] <= m /\ pos[i] \in Nat
          <5>1. i # Len(e) + 1 /\ i \in 1..Len(x)
            BY <2>5, <3>1
          <5>2. pos[i] \in K /\ pos[i] <= m
            BY <2>6
          <5> QED
            BY <5>1, <5>2
        <4> HIDE DEF p
        <4> QED
          BY <4>1, <4>2
      <3> HIDE DEF p
      <3>4. \A i \in 1..Len(x) : i \in 1..Len(e) \/ i = Len(e) + 1
        BY <2>5, <3>1
      <3>5. \A i \in 1..Len(x) : x[i] = seq[p[i]] /\ p[i] <= m + 1
        <4> SUFFICES ASSUME NEW i \in 1..Len(x)
                     PROVE  x[i] = seq[p[i]] /\ p[i] <= m + 1
          OBVIOUS
        <4>1. CASE i = Len(e) + 1
          BY <3>1, <3>3, <4>1
        <4>2. CASE i \in 1..Len(e)
          <5>1. x[i] = e[i] /\ p[i] = pos[i] /\ p[i] <= m /\ p[i] \in Nat
            BY <3>1, <3>3, <4>2
          <5>2. e[i] = seq[pos[i]]
            BY <2>6, <4>2
          <5> QED
            BY <5>1, <5>2
        <4> QED
          BY <3>4, <4>1, <4>2
      <3>6. \A i, j \in 1..Len(x) : i < j => p[i] < p[j]
        <4> SUFFICES ASSUME NEW i \in 1..Len(x), NEW j \in 1..Len(x), i < j
                     PROVE  p[i] < p[j]
          OBVIOUS
        <4>1. i \in 1..Len(e)
          BY <2>5, <3>1
        <4>2. CASE j = Len(e) + 1
          BY <3>3, <4>1, <4>2
        <4>3. CASE j \in 1..Len(e)
          BY <2>6, <3>3, <4>1, <4>3
        <4> QED
          BY <3>4, <4>2, <4>3
      <3>7. \A k \in K : k <= m + 1 => \E i \in 1..Len(x) : p[i] = k
        <4> SUFFICES ASSUME NEW k \in K, k <= m + 1
                     PROVE  \E i \in 1..Len(x) : p[i] = k
          OBVIOUS
        <4>1. CASE k = m + 1
          BY <2>5, <3>1, <3>3, <4>1
        <4>2. CASE k <= m
          <5>1. PICK i \in 1..Len(e) : pos[i] = k
            BY <2>6, <4>2
          <5> QED
            BY <2>5, <3>1, <3>3, <5>1
        <4> QED
          BY <4>1, <4>2
      <3>8. At(x, m + 1, p)
        BY <3>5, <3>6, <3>7
      <3>9. h[m + 1] = x
        BY <2>4, <2>8 DEF x
      <3> QED
        BY <3>1, <3>2, <3>8, <3>9
    <2> QED
      BY <2>7, <2>8
  <1> HIDE DEF T
  <1>3. n \in T
    BY <1>1, <1>2, SetInduction
  <1> QED
    BY <1>3 DEF T, Picks

-----------------------------------------------------------------------------
(* Concatenation of all members of a sequence of sequences                 *)

\* h[i] is what the first i members give.
Joins(h, seqs) ==
    /\ h[1] = seqs[1]
    /\ \A i \in 2..Len(seqs) : h[i] = h[i - 1] \o seqs[i]

\* They can be joined one by one.
LEMMA JoinsExist ==
    ASSUME NEW S, NEW seqs \in Seq(Seq(S))
    PROVE  \E h \in [1..Len(seqs) -> Seq(S)] : seqs # <<>> => Joins(h, seqs)
  <1> DEFINE n == Len(seqs)
             V == Seq(S)
             op == [p \in V \X (1..n) |-> p[1] \o seqs[p[2]]]
  <1>1. n \in Nat /\ <<>> \in V /\ DOMAIN seqs = 1..n /\ \A i \in 1..n : seqs[i] \in V
    OBVIOUS
  <1>2. op \in FoldSteps(V, n)
    <2>1. ASSUME NEW p \in V \X (1..n) PROVE p[1] \o seqs[p[2]] \in V
      BY <1>1, <2>1
    <2> QED
      BY <2>1 DEF FoldSteps
  <1>3. ASSUME NEW v \in V, NEW i \in 1..n
        PROVE  op[<<v, i>>] = v \o seqs[i]
    OBVIOUS
  <1> HIDE DEF op, n, V
  <1>4. PICK g : Folds(g, V, n, <<>>, op)
    BY <1>1, <1>2, FoldExists
  <1> DEFINE h == [i \in 1..n |-> g[1..i]]
  <1>5. ASSUME NEW i \in 1..n
        PROVE  /\ g[1..i] \in V /\ g[1..(i - 1)] \in V
               /\ g[1..i] = g[1..(i - 1)] \o seqs[i]
    <2>1. 1..i \in SUBSET (1..n) /\ 1..(i - 1) \in SUBSET (1..n) /\ i \in Nat \ {0}
      BY <1>1
    <2>2. g[1..i] \in V /\ g[1..(i - 1)] \in V
      BY <1>4, <2>1 DEF Folds
    <2>3. g[1..i] = op[<<g[1..(i - 1)], i>>]
      BY <1>4, <2>1, LastOfInterval DEF Folds
    <2> QED
      BY <1>3, <2>2, <2>3
  <1>6. h \in [1..n -> V]
    BY <1>5
  <1>7. ASSUME seqs # <<>> PROVE h[1] = seqs[1]
    <2>1. 1 \in 1..n
      BY <1>1, <1>7 DEF n
    <2>2. 1..(1 - 1) = {} /\ {} \in SUBSET (1..n)
      OBVIOUS
    <2>3. g[{}] = <<>>
      BY <1>4, <2>2, Zenon DEF Folds
    <2>4. h[1] = g[1..(1 - 1)] \o seqs[1]
      BY <1>5, <2>1
    <2>5. seqs[1] \in V
      BY <1>1, <2>1
    <2>6. ASSUME NEW v \in V PROVE <<>> \o v = v
      BY <2>6 DEF V
    <2>7. h[1] = <<>> \o seqs[1]
      BY <2>2, <2>3, <2>4
    <2> QED
      BY <2>5, <2>6, <2>7
  <1>8. ASSUME NEW i \in 2..n PROVE h[i] = h[i - 1] \o seqs[i]
    <2>1. i \in 1..n /\ i - 1 \in 1..n
      BY <1>1
    <2> QED
      BY <1>5, <2>1
  <1> HIDE DEF h
  <1>9. seqs # <<>> => Joins(h, seqs)
    BY <1>7, <1>8 DEF Joins, n
  <1> QED
    BY <1>6, <1>9 DEF n, V

\* Whichever way it is described, what is joined is the concatenation.
LEMMA FlattenIsJoined ==
    ASSUME NEW S, NEW seqs \in Seq(Seq(S)), seqs # <<>>,
           NEW h \in [1..Len(seqs) -> Seq(S)], Joins(h, seqs)
    PROVE  FlattenSeq(seqs) = h[Len(seqs)]
  <1> DEFINE n == Len(seqs)
             E(f) == f = [i \in 1..n |-> IF i = 1 THEN seqs[i] ELSE f[i - 1] \o seqs[i]]
             flatten == CHOOSE f : E(f)
  <1>1. n \in Nat \ {0}
    OBVIOUS
  <1>2. E(h)
    <2>1. ASSUME NEW i \in 1..n
          PROVE  h[i] = IF i = 1 THEN seqs[i] ELSE h[i - 1] \o seqs[i]
      <3>1. i # 1 => i \in 2..n
        BY <1>1
      <3> QED
        BY <3>1 DEF Joins
    <2>2. h = [i \in 1..n |-> h[i]]
      OBVIOUS
    <2> QED
      BY <2>1, <2>2
  <1>3. E(flatten)
    <2> HIDE DEF E
    <2> QED
      BY <1>2
  <1>4. FlattenSeq(seqs) = flatten[n]
    BY <1>1 DEF FlattenSeq
  <1> HIDE DEF flatten
  <1>5. \A i \in 1..n : flatten[i] = IF i = 1 THEN seqs[i] ELSE flatten[i - 1] \o seqs[i]
    BY <1>3
  <1> DEFINE T == {i \in Nat : i + 1 <= n => flatten[i + 1] = h[i + 1]}
  <1>6. 0 \in T
    BY <1>1, <1>5 DEF Joins
  <1>7. ASSUME NEW i \in Nat, i \in T PROVE i + 1 \in T
    <2>1. ASSUME (i + 1) + 1 <= n PROVE flatten[(i + 1) + 1] = h[(i + 1) + 1]
      <3>1. /\ (i + 1) + 1 \in 2..n /\ (i + 1) + 1 \in 1..n /\ (i + 1) + 1 # 1
            /\ ((i + 1) + 1) - 1 = i + 1 /\ i + 1 <= n
        BY <1>1, <2>1
      <3>2. flatten[i + 1] = h[i + 1]
        BY <1>7, <3>1
      <3>3. h[(i + 1) + 1] = h[i + 1] \o seqs[(i + 1) + 1]
        BY <3>1 DEF Joins
      <3>4. flatten[(i + 1) + 1] = flatten[i + 1] \o seqs[(i + 1) + 1]
        BY <1>5, <3>1
      <3> QED
        BY <3>2, <3>3, <3>4
    <2> QED
      BY <2>1
  <1>8. \A i \in Nat : i \in T
    <2> HIDE DEF T
    <2> QED
      BY <1>6, <1>7, SetInduction
  <1>9. n - 1 \in Nat /\ (n - 1) + 1 = n /\ n <= n
    <2> HIDE DEF n
    <2> QED
      BY <1>1
  <1>10. n - 1 \in T
    <2> HIDE DEF T
    <2> QED
      BY <1>8, <1>9
  <1>11. flatten[n] = h[n]
    <2> HIDE DEF n
    <2> QED
      BY <1>9, <1>10
  <1> QED
    BY <1>4, <1>11

\* A last member comes at the end of the concatenation.
LEMMA FlattenAppend ==
    ASSUME NEW S, NEW seqs \in Seq(Seq(S)), NEW x \in Seq(S)
    PROVE  /\ FlattenSeq(seqs) \in Seq(S)
           /\ FlattenSeq(Append(seqs, x)) = FlattenSeq(seqs) \o x
  <1> DEFINE n == Len(seqs)
             all == Append(seqs, x)
  <1>1. /\ n \in Nat /\ all \in Seq(Seq(S)) /\ Len(all) = n + 1 /\ all # <<>>
        /\ all[n + 1] = x /\ \A i \in 1..n : all[i] = seqs[i]
    <2>1. ASSUME NEW V, NEW s \in Seq(V), NEW v \in V
          PROVE  /\ Append(s, v) \in Seq(V) /\ Len(Append(s, v)) = Len(s) + 1
                 /\ Len(s) \in Nat /\ Append(s, v)[Len(s) + 1] = v
                 /\ \A i \in 1..Len(s) : Append(s, v)[i] = s[i]
      OBVIOUS
    <2> DEFINE V == Seq(S)
    <2>2. /\ all \in Seq(V) /\ Len(all) = n + 1
          /\ n \in Nat /\ all[n + 1] = x
          /\ \A i \in 1..n : all[i] = seqs[i]
      <3>1. seqs \in Seq(V) /\ x \in V
        OBVIOUS
      <3> HIDE DEF V
      <3> QED
        BY <2>1, <3>1
    <2> HIDE DEF all, n
    <2>3. all # <<>>
      BY <2>2
    <2> QED
      BY <2>2, <2>3
  <1> HIDE DEF all
  <1>2. PICK h \in [1..(n + 1) -> Seq(S)] : Joins(h, all)
    BY <1>1, JoinsExist
  <1>3. FlattenSeq(all) = h[n + 1]
    BY <1>1, <1>2, FlattenIsJoined
  <1>4. CASE seqs = <<>>
    <2>1. FlattenSeq(seqs) = <<>> /\ n = 0
      BY <1>4 DEF FlattenSeq
    <2>2. h[1] = x
      BY <1>1, <1>2, <2>1 DEF Joins
    <2> QED
      BY <1>3, <2>1, <2>2 DEF all
  <1>5. CASE seqs # <<>>
    <2> DEFINE k == [i \in 1..n |-> h[i]]
    <2>1. k \in [1..n -> Seq(S)] /\ n \in Nat \ {0}
      BY <1>1, <1>5
    <2>2. k[1] = seqs[1]
      BY <1>1, <1>2, <2>1 DEF Joins
    <2>3. ASSUME NEW i \in 2..n PROVE k[i] = k[i - 1] \o seqs[i]
      <3>1. i \in 2..(n + 1) /\ i \in 1..n /\ i - 1 \in 1..n
        BY <1>1
      <3>2. h[i] = h[i - 1] \o all[i]
        BY <1>1, <1>2, <3>1 DEF Joins
      <3> QED
        BY <1>1, <3>1, <3>2
    <2>4. k[n] = h[n] /\ h[n] \in Seq(S)
      BY <1>2, <2>1
    <2> HIDE DEF k
    <2>5. FlattenSeq(seqs) = k[n]
      BY <1>5, <2>1, <2>2, <2>3, FlattenIsJoined DEF Joins
    <2>6. n + 1 \in 2..(n + 1) /\ (n + 1) - 1 = n
      BY <2>1
    <2>7. h[n + 1] = h[n] \o x
      BY <1>1, <1>2, <2>6 DEF Joins
    <2> QED
      BY <1>3, <2>4, <2>5, <2>7 DEF all
  <1> QED
    BY <1>4, <1>5

=============================================================================
