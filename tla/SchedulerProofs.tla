-------------------------- MODULE SchedulerProofs --------------------------
(***************************************************************************)
(* What the event loop of SimScheduler and the report of SimReport keep,    *)
(* proved for every workload, number of drafts, warmup, stall limit and     *)
(* latency.                                                                *)
(***************************************************************************)
EXTENDS SimReport, FoldTheorems

\* No two requests have the same request_id.
DistinctIds == \A r, q \in Req : Id[r] = Id[q] => r = q

-----------------------------------------------------------------------------
(* Order and identity of the requests of a sequence                        *)

\* The requests of a sequence arrive in its order.
Ordered(seq) == \A i, j \in DOMAIN seq : i < j => Arrival[seq[i]] <= Arrival[seq[j]]

\* No two places of a sequence hold requests of one id.
Apart(seq) == \A i, j \in DOMAIN seq : Id[seq[i]] = Id[seq[j]] => i = j

\* There are finitely many requests, all of them loaded.
LEMMA FiniteReq == IsFiniteSet(Req)
  <1>1. Loaded \in Seq(Req) /\ Range(Loaded) = Req
    BY RequestsAssumption
  <1>2. IsFiniteSet(DOMAIN Loaded)
    BY <1>1, FS_Interval
  <1>3. Req = {Loaded[i] : i \in DOMAIN Loaded}
    BY <1>1 DEF Range
  <1>4. IsFiniteSet({Loaded[i] : i \in DOMAIN Loaded})
    <2> DEFINE f == [i \in DOMAIN Loaded |-> Loaded[i]]
    <2>1. f \in Surjection(DOMAIN Loaded, Req)
      BY <1>3 DEF Surjection
    <2> HIDE DEF f
    <2> QED
      BY <1>2, <1>3, <2>1, FS_Surjection
  <1> QED
    BY <1>3, <1>4

\* The places of the loaded requests, counted from 1, are a permutation.
LEMMA PlacesAreDistinct ==
    /\ \A i \in DOMAIN Loaded : Place(i) \in DOMAIN Loaded
    /\ \A i, j \in DOMAIN Loaded : Precedes(i, j) => Place(i) < Place(j)
    /\ \A k \in DOMAIN Loaded : \E i \in DOMAIN Loaded : Place(i) = k
    /\ \A i, j \in DOMAIN Loaded : Place(i) = Place(j) => i = j
  <1> DEFINE D == DOMAIN Loaded
             Before(i) == {j \in D : Precedes(j, i)}
             n == Len(Loaded)
  <1>1. D = 1..n /\ n \in Nat
    BY RequestsAssumption
  <1>2. IsFiniteSet(D) /\ Cardinality(D) = n
    <2>1. IsFiniteSet(1..n) /\ Cardinality(1..n) = IF 1 > n THEN 0 ELSE n - 1 + 1
      BY <1>1, FS_Interval, 1 \in Int
    <2> HIDE DEF n, D
    <2> QED
      BY <1>1, <2>1
  <1>3. \A i \in D : Loaded[i] \in Req /\ Arrival[Loaded[i]] \in Nat /\ i \in Nat
    BY <1>1, RequestsAssumption
  <1>4. \A i \in D : /\ Before(i) \in SUBSET D /\ i \notin Before(i)
                     /\ Place(i) = 1 + Cardinality(Before(i))
    BY <1>3 DEF Precedes, Place
  <1>5. \A i, j \in D : i # j => Precedes(i, j) \/ Precedes(j, i)
    BY <1>3 DEF Precedes
  <1>6. \A i, j \in D : Precedes(i, j) => Before(i) \cup {i} \in SUBSET Before(j)
    BY <1>3 DEF Precedes
  <1> HIDE DEF Before, D, n
  <1>7. \A i \in D : /\ IsFiniteSet(Before(i))
                     /\ Cardinality(Before(i)) \in Nat
                     /\ Cardinality(Before(i) \cup {i}) = Cardinality(Before(i)) + 1
    BY <1>2, <1>4, FS_Subset, FS_CardinalityType, FS_AddElement
  <1>8. \A i \in D : Place(i) \in 1..n
    <2> SUFFICES ASSUME NEW i \in D PROVE Place(i) \in 1..n
      OBVIOUS
    <2>1. Before(i) \cup {i} \in SUBSET D
      BY <1>4
    <2>2. Cardinality(Before(i) \cup {i}) <= n
      BY <1>2, <2>1, FS_Subset
    <2> QED
      BY <1>1, <1>4, <1>7, <2>2
  <1>9. \A i, j \in D : Precedes(i, j) => Place(i) < Place(j)
    <2> SUFFICES ASSUME NEW i \in D, NEW j \in D, Precedes(i, j)
                 PROVE  Place(i) < Place(j)
      OBVIOUS
    <2>1. Cardinality(Before(i) \cup {i}) <= Cardinality(Before(j))
      BY <1>6, <1>7, FS_Subset
    <2>2. Cardinality(Before(i)) + 1 <= Cardinality(Before(j))
      BY <1>7, <2>1
    <2>3. Cardinality(Before(i)) \in Nat /\ Cardinality(Before(j)) \in Nat
      BY <1>7
    <2>4. /\ Place(i) = 1 + Cardinality(Before(i))
          /\ Place(j) = 1 + Cardinality(Before(j))
      BY <1>4
    <2> QED
      BY <2>2, <2>3, <2>4
  <1>10. \A i, j \in D : Place(i) = Place(j) => i = j
    <2> SUFFICES ASSUME NEW i \in D, NEW j \in D, Place(i) = Place(j), i # j
                 PROVE  FALSE
      OBVIOUS
    <2>1. Place(i) < Place(j) \/ Place(j) < Place(i)
      BY <1>5, <1>9
    <2>2. Place(i) \in Int /\ Place(j) \in Int
      BY <1>8
    <2> QED
      BY <2>1, <2>2
  <1>11. \A k \in D : \E i \in D : Place(i) = k
    <2> DEFINE f == [i \in D |-> Place(i)]
    <2>1. f \in Injection(D, D)
      BY <1>1, <1>8, <1>10 DEF Injection, IsInjective
    <2>2. f \in Surjection(D, D)
      BY <1>2, <2>1, FS_Injection
    <2>3. f = [i \in D |-> Place(i)]
      OBVIOUS
    <2> HIDE DEF f
    <2> QED
      BY <2>2, <2>3 DEF Surjection
  <1> QED
    BY <1>1, <1>8, <1>9, <1>10, <1>11 DEF D

\* load() queues every request once, in the order of arrival.
LEMMA Sorting ==
    /\ ByArrival \in Seq(Req) /\ Range(ByArrival) = Req
    /\ \A i, j \in DOMAIN ByArrival : ByArrival[i] = ByArrival[j] => i = j
    /\ Ordered(ByArrival)
  <1> DEFINE D == DOMAIN Loaded
             at == [k \in D |-> CHOOSE i \in D : Place(i) = k]
  <1>1. D = 1..Len(Loaded) /\ Len(Loaded) \in Nat /\ \A i \in D : Loaded[i] \in Req
    BY RequestsAssumption
  <1>2. \A k \in D : at[k] \in D /\ Place(at[k]) = k
    BY PlacesAreDistinct
  <1>3. ByArrival = [k \in D |-> Loaded[at[k]]]
    BY DEF ByArrival
  <1> HIDE DEF at, D
  <1>4. ByArrival \in Seq(Req) /\ DOMAIN ByArrival = D
    BY <1>1, <1>2, <1>3
  <1>5. \A i, j \in D : Loaded[i] = Loaded[j] => i = j
    BY RequestsAssumption DEF IsInjective, D
  <1>6. \A i, j \in D : ByArrival[i] = ByArrival[j] => i = j
    BY <1>2, <1>3, <1>5
  <1>7. Range(ByArrival) = Req
    <2>1. ASSUME NEW r \in Req PROVE \E k \in D : ByArrival[k] = r
      <3>1. PICK i \in D : Loaded[i] = r
        BY RequestsAssumption DEF Range, D
      <3>2. Place(i) \in D
        BY PlacesAreDistinct DEF D
      <3>3. at[Place(i)] = i
        BY <1>2, <3>2, PlacesAreDistinct DEF D
      <3> QED
        BY <1>3, <3>1, <3>2, <3>3
    <2> QED
      BY <1>1, <1>2, <1>3, <1>4, <2>1 DEF Range
  <1>8. Ordered(ByArrival)
    <2> SUFFICES ASSUME NEW i \in D, NEW j \in D, i < j
                 PROVE  Arrival[ByArrival[i]] <= Arrival[ByArrival[j]]
      BY <1>4 DEF Ordered
    <2>1. ~Precedes(at[j], at[i])
      <3>1. Precedes(at[j], at[i]) => j < i
        BY <1>2, PlacesAreDistinct DEF D
      <3>2. i \in Nat /\ j \in Nat
        BY <1>1
      <3> QED
        BY <3>1, <3>2
    <2>2. /\ Arrival[Loaded[at[i]]] \in Nat /\ Arrival[Loaded[at[j]]] \in Nat
      BY <1>1, <1>2, RequestsAssumption
    <2> QED
      BY <1>3, <2>1, <2>2 DEF Precedes
  <1> QED
    BY <1>4, <1>6, <1>7, <1>8

-----------------------------------------------------------------------------
(* Admission and cleanup, request by request                               *)

\* _admit takes the requests at the head of the queue that have arrived, and
\* stops at one that has not.
LEMMA DueSplits ==
    ASSUME waiting \in Seq(Req), simTime \in Nat
    PROVE  /\ Due \in 0..Len(waiting)
           /\ \A i \in 1..Due : Arrival[waiting[i]] <= simTime
           /\ Due < Len(waiting) => Arrival[waiting[Due + 1]] > simTime
  <1> DEFINE later == {i \in DOMAIN waiting : Arrival[waiting[i]] > simTime}
  <1>1. /\ Due = IF later = {} THEN Len(waiting) ELSE Min(later) - 1
        /\ DOMAIN waiting = 1..Len(waiting) /\ Len(waiting) \in Nat
    BY DEF Due
  <1>2. \A i \in DOMAIN waiting : Arrival[waiting[i]] \in Nat
    BY <1>1, RequestsAssumption
  <1>3. CASE later = {}
    BY <1>1, <1>2, <1>3
  <1>4. CASE later # {}
    <2>1. later \in SUBSET Nat
      BY <1>1
    <2>2. \E n \in later : \A m \in later : n <= m
      BY <1>4, <2>1, LeastNumber
    <2>3. Min(later) \in later /\ \A m \in later : Min(later) <= m
      BY <2>2 DEF Min
    <2>4. /\ Due = Min(later) - 1 /\ Min(later) \in 1..Len(waiting)
          /\ Arrival[waiting[Min(later)]] > simTime
      BY <1>1, <1>4, <2>3
    <2> HIDE DEF later
    <2>5. \A i \in 1..Due : i \in DOMAIN waiting /\ i \notin later
      BY <1>1, <2>3, <2>4
    <2>6. Due \in 0..Len(waiting) /\ Due + 1 = Min(later)
      BY <1>1, <2>4
    <2> QED
      BY <1>2, <2>4, <2>5, <2>6 DEF later
  <1> QED
    BY <1>3, <1>4

\* The requests adm enter _running one after the other: h[i] is _running when i
\* of them have entered.
LEMMA Entering ==
    ASSUME NEW run \in Seq(Req), NEW adm \in Seq(Req)
    PROVE  \E h \in [0..Len(adm) -> Seq(Req)] :
               /\ h[0] = run
               /\ \A i \in 1..Len(adm) : h[i] = Entered(h[i - 1], adm[i])
               /\ FoldLeft(Entered, run, adm) = h[Len(adm)]
  <1> DEFINE V == Seq(Req)
             n == Len(adm)
             Step(g) == [s \in SUBSET (1..n) |->
                 IF s = {} THEN run ELSE Entered(g[s \ {Max(s)}], adm[Max(s)])]
             c == CHOOSE g : g = Step(g)
             op == [x \in V \X (1..n) |-> Entered(x[1], adm[x[2]])]
  <1>1. n \in Nat /\ DOMAIN adm = 1..n /\ \A i \in 1..n : adm[i] \in Req
    OBVIOUS
  <1>2. FoldLeft(Entered, run, adm) = c[1..n]
    BY <1>1 DEF FoldLeft, MapThenFoldSet
  <1>3. ASSUME NEW x \in V, NEW i \in 1..n
        PROVE  Entered(x, adm[i]) \in V
    <2>1. adm[i] \in Req
      BY <1>1
    <2> HIDE DEF n
    <2> QED
      BY <2>1 DEF Entered
  <1>4. op \in FoldSteps(V, n)
    BY <1>3 DEF FoldSteps
  <1>5. \A x \in V, i \in 1..n : op[<<x, i>>] = Entered(x, adm[i])
    OBVIOUS
  <1> HIDE DEF op, V, n
  <1>6. n \in Nat /\ run \in V
    BY <1>1 DEF V
  <1>7. PICK g : Folds(g, V, n, run, op)
    BY <1>4, <1>6, FoldExists
  <1>8. ASSUME NEW s \in SUBSET (1..n), s # {}
        PROVE  g[s] = Entered(g[s \ {Max(s)}], adm[Max(s)])
    <2>1. s \in SUBSET Nat /\ \A x \in s : x <= n
      BY <1>6
    <2>2. Max(s) \in 1..n
      BY <1>6, <1>8, <2>1, LargestIn
    <2>3. g[s \ {Max(s)}] \in V
      BY <1>7 DEF Folds
    <2> QED
      BY <1>5, <1>7, <1>8, <2>2, <2>3 DEF Folds
  <1>9. g = Step(g)
    BY <1>7, <1>8 DEF Folds
  <1>10. c = Step(c)
    BY <1>9
  <1> HIDE DEF c
  <1>11. c[{}] = run
    BY <1>10
  <1>12. ASSUME NEW i \in 1..n, c[1..(i - 1)] \in V
         PROVE  c[1..i] = op[<<c[1..(i - 1)], i>>]
    <2>1. i \in Nat \ {0} /\ 1..i \in SUBSET (1..n)
      BY <1>6
    <2>2. Max(1..i) = i /\ (1..i) \ {i} = 1..(i - 1) /\ 1..i # {}
      BY <2>1, LastOfInterval
    <2>3. c[1..i] = Entered(c[1..(i - 1)], adm[i])
      BY <1>10, <2>1, <2>2
    <2> QED
      BY <1>5, <1>12, <2>3
  <1>13. PICK h : Traces(h, V, n, run, op) /\ h[n] = c[1..n]
    BY <1>4, <1>6, <1>11, <1>12, FoldTrace
  <1>14. \A i \in 1..n : h[i] = Entered(h[i - 1], adm[i])
    <2> SUFFICES ASSUME NEW i \in 1..n
                 PROVE  h[i] = Entered(h[i - 1], adm[i])
      OBVIOUS
    <2>1. i - 1 \in 0..n
      BY <1>6
    <2>2. h[i - 1] \in V
      BY <1>13, <2>1 DEF Traces
    <2> QED
      BY <1>5, <1>13, <2>2 DEF Traces
  <1> QED
    BY <1>2, <1>13, <1>14 DEF n, V, Traces

\* _cleanup's way through _running, for the finished requests: h[i] has those
\* of the first i.
LEMMA WithFinishedCollects ==
    ASSUME running \in Seq(Req)
    PROVE  \E h \in [0..Len(running) -> Seq(Req)] :
               /\ h[0] = <<>>
               /\ \A i \in 1..Len(running) : h[i] = WithFinished(h[i - 1], running[i])
               /\ FoldLeft(WithFinished, <<>>, running) = h[Len(running)]
  <1> DEFINE V == Seq(Req)
             n == Len(running)
             Step(g) == [s \in SUBSET (1..n) |->
                 IF s = {} THEN <<>>
                 ELSE WithFinished(g[s \ {Max(s)}], running[Max(s)])]
             c == CHOOSE g : g = Step(g)
             op == [x \in V \X (1..n) |-> WithFinished(x[1], running[x[2]])]
  <1>1. n \in Nat /\ DOMAIN running = 1..n /\ \A i \in 1..n : running[i] \in Req
    OBVIOUS
  <1>2. FoldLeft(WithFinished, <<>>, running) = c[1..n]
    BY <1>1 DEF FoldLeft, MapThenFoldSet
  <1>3. ASSUME NEW x \in V, NEW i \in 1..n
        PROVE  WithFinished(x, running[i]) \in V
    <2>1. running[i] \in Req
      BY <1>1
    <2> HIDE DEF n
    <2> QED
      BY <2>1 DEF WithFinished
  <1>4. op \in FoldSteps(V, n)
    BY <1>3 DEF FoldSteps
  <1>5. \A x \in V, i \in 1..n : op[<<x, i>>] = WithFinished(x, running[i])
    OBVIOUS
  <1> HIDE DEF op, V, n
  <1>6. n \in Nat /\ <<>> \in V
    BY <1>1 DEF V
  <1>7. PICK g : Folds(g, V, n, <<>>, op)
    BY <1>4, <1>6, FoldExists
  <1>8. ASSUME NEW s \in SUBSET (1..n), s # {}
        PROVE  g[s] = WithFinished(g[s \ {Max(s)}], running[Max(s)])
    <2>1. s \in SUBSET Nat /\ \A x \in s : x <= n
      BY <1>6
    <2>2. Max(s) \in 1..n
      BY <1>6, <1>8, <2>1, LargestIn
    <2>3. g[s \ {Max(s)}] \in V
      BY <1>7 DEF Folds
    <2> QED
      BY <1>5, <1>7, <1>8, <2>2, <2>3 DEF Folds
  <1>9. g = Step(g)
    BY <1>7, <1>8 DEF Folds
  <1>10. c = Step(c)
    BY <1>9
  <1> HIDE DEF c
  <1>11. c[{}] = <<>>
    BY <1>10
  <1>12. ASSUME NEW i \in 1..n, c[1..(i - 1)] \in V
         PROVE  c[1..i] = op[<<c[1..(i - 1)], i>>]
    <2>1. i \in Nat \ {0} /\ 1..i \in SUBSET (1..n)
      BY <1>6
    <2>2. Max(1..i) = i /\ (1..i) \ {i} = 1..(i - 1) /\ 1..i # {}
      BY <2>1, LastOfInterval
    <2>3. c[1..i] = WithFinished(c[1..(i - 1)], running[i])
      BY <1>10, <2>1, <2>2
    <2> QED
      BY <1>5, <1>12, <2>3
  <1>13. PICK h : Traces(h, V, n, <<>>, op) /\ h[n] = c[1..n]
    BY <1>4, <1>6, <1>11, <1>12, FoldTrace
  <1>14. \A i \in 1..n : h[i] = WithFinished(h[i - 1], running[i])
    <2> SUFFICES ASSUME NEW i \in 1..n
                 PROVE  h[i] = WithFinished(h[i - 1], running[i])
      OBVIOUS
    <2>1. i - 1 \in 0..n
      BY <1>6
    <2>2. h[i - 1] \in V
      BY <1>13, <2>1 DEF Traces
    <2> QED
      BY <1>5, <1>13, <2>2 DEF Traces
  <1> QED
    BY <1>2, <1>13, <1>14 DEF n, V, Traces

\* _cleanup's way through _running, for the unfinished requests: h[i] has those
\* of the first i.
LEMMA WithUnfinishedCollects ==
    ASSUME running \in Seq(Req)
    PROVE  \E h \in [0..Len(running) -> Seq(Req)] :
               /\ h[0] = <<>>
               /\ \A i \in 1..Len(running) : h[i] = WithUnfinished(h[i - 1], running[i])
               /\ FoldLeft(WithUnfinished, <<>>, running) = h[Len(running)]
  <1> DEFINE V == Seq(Req)
             n == Len(running)
             Step(g) == [s \in SUBSET (1..n) |->
                 IF s = {} THEN <<>>
                 ELSE WithUnfinished(g[s \ {Max(s)}], running[Max(s)])]
             c == CHOOSE g : g = Step(g)
             op == [x \in V \X (1..n) |-> WithUnfinished(x[1], running[x[2]])]
  <1>1. n \in Nat /\ DOMAIN running = 1..n /\ \A i \in 1..n : running[i] \in Req
    OBVIOUS
  <1>2. FoldLeft(WithUnfinished, <<>>, running) = c[1..n]
    BY <1>1 DEF FoldLeft, MapThenFoldSet
  <1>3. ASSUME NEW x \in V, NEW i \in 1..n
        PROVE  WithUnfinished(x, running[i]) \in V
    <2>1. running[i] \in Req
      BY <1>1
    <2> HIDE DEF n
    <2> QED
      BY <2>1 DEF WithUnfinished
  <1>4. op \in FoldSteps(V, n)
    BY <1>3 DEF FoldSteps
  <1>5. \A x \in V, i \in 1..n : op[<<x, i>>] = WithUnfinished(x, running[i])
    OBVIOUS
  <1> HIDE DEF op, V, n
  <1>6. n \in Nat /\ <<>> \in V
    BY <1>1 DEF V
  <1>7. PICK g : Folds(g, V, n, <<>>, op)
    BY <1>4, <1>6, FoldExists
  <1>8. ASSUME NEW s \in SUBSET (1..n), s # {}
        PROVE  g[s] = WithUnfinished(g[s \ {Max(s)}], running[Max(s)])
    <2>1. s \in SUBSET Nat /\ \A x \in s : x <= n
      BY <1>6
    <2>2. Max(s) \in 1..n
      BY <1>6, <1>8, <2>1, LargestIn
    <2>3. g[s \ {Max(s)}] \in V
      BY <1>7 DEF Folds
    <2> QED
      BY <1>5, <1>7, <1>8, <2>2, <2>3 DEF Folds
  <1>9. g = Step(g)
    BY <1>7, <1>8 DEF Folds
  <1>10. c = Step(c)
    BY <1>9
  <1> HIDE DEF c
  <1>11. c[{}] = <<>>
    BY <1>10
  <1>12. ASSUME NEW i \in 1..n, c[1..(i - 1)] \in V
         PROVE  c[1..i] = op[<<c[1..(i - 1)], i>>]
    <2>1. i \in Nat \ {0} /\ 1..i \in SUBSET (1..n)
      BY <1>6
    <2>2. Max(1..i) = i /\ (1..i) \ {i} = 1..(i - 1) /\ 1..i # {}
      BY <2>1, LastOfInterval
    <2>3. c[1..i] = WithUnfinished(c[1..(i - 1)], running[i])
      BY <1>10, <2>1, <2>2
    <2> QED
      BY <1>5, <1>12, <2>3
  <1>13. PICK h : Traces(h, V, n, <<>>, op) /\ h[n] = c[1..n]
    BY <1>4, <1>6, <1>11, <1>12, FoldTrace
  <1>14. \A i \in 1..n : h[i] = WithUnfinished(h[i - 1], running[i])
    <2> SUFFICES ASSUME NEW i \in 1..n
                 PROVE  h[i] = WithUnfinished(h[i - 1], running[i])
      OBVIOUS
    <2>1. i - 1 \in 0..n
      BY <1>6
    <2>2. h[i - 1] \in V
      BY <1>13, <2>1 DEF Traces
    <2> QED
      BY <1>5, <1>13, <2>2 DEF Traces
  <1> QED
    BY <1>2, <1>13, <1>14 DEF n, V, Traces

\* Whoever enters, _running holds requests of different ids, each of them there
\* before or admitted.
LEMMA EnteringKeepsApart ==
    ASSUME NEW run \in Seq(Req), NEW adm \in Seq(Req), Apart(run)
    PROVE  LET e == FoldLeft(Entered, run, adm)
           IN /\ e \in Seq(Req) /\ Apart(e)
              /\ Range(e) \in SUBSET (Range(run) \cup Range(adm))
  <1> DEFINE n == Len(adm)
             All == Range(run) \cup Range(adm)
             Good(e) == /\ e \in Seq(Req) /\ Apart(e)
                        /\ \A k \in DOMAIN e : e[k] \in All
  <1>1. n \in Nat /\ \A i \in 1..n : adm[i] \in Req /\ adm[i] \in All
    BY DEF Range
  <1>2. PICK h \in [0..n -> Seq(Req)] :
            /\ h[0] = run
            /\ \A i \in 1..n : h[i] = Entered(h[i - 1], adm[i])
            /\ FoldLeft(Entered, run, adm) = h[n]
    BY Entering
  <1>3. Good(run)
    BY DEF Range
  <1>4. ASSUME NEW e, Good(e), NEW r \in Req, r \in All
        PROVE  Good(Entered(e, r))
    <2>1. CASE \E i \in DOMAIN e : Id[e[i]] = Id[r]
      <3> DEFINE x == [i \in DOMAIN e |-> IF Id[e[i]] = Id[r] THEN r ELSE e[i]]
      <3>1. Entered(e, r) = x
        BY <2>1 DEF Entered
      <3>2. x \in Seq(Req) /\ DOMAIN x = DOMAIN e
        BY <1>4
      <3>3. \A i \in DOMAIN e : Id[x[i]] = Id[e[i]] /\ x[i] \in All
        BY <1>4
      <3> HIDE DEF x, All
      <3>4. Apart(x)
        BY <1>4, <3>2, <3>3 DEF Apart
      <3> QED
        BY <3>1, <3>2, <3>3, <3>4
    <2>2. CASE ~\E i \in DOMAIN e : Id[e[i]] = Id[r]
      <3> DEFINE x == Append(e, r)
      <3>1. Entered(e, r) = x
        BY <2>2 DEF Entered
      <3>2. /\ x \in Seq(Req) /\ DOMAIN x = 1..(Len(e) + 1) /\ Len(e) \in Nat
            /\ DOMAIN e = 1..Len(e)
            /\ x[Len(e) + 1] = r /\ \A i \in DOMAIN e : x[i] = e[i]
        BY <1>4
      <3> HIDE DEF x, All
      <3>3. \A i \in DOMAIN x : i \in DOMAIN e \/ i = Len(e) + 1
        BY <3>2
      <3>4. \A i \in DOMAIN x : x[i] \in All
        BY <1>4, <3>2, <3>3
      <3>5. Apart(x)
        <4> SUFFICES ASSUME NEW i \in DOMAIN x, NEW j \in DOMAIN x,
                            Id[x[i]] = Id[x[j]]
                     PROVE  i = j
          BY DEF Apart
        <4> QED
          BY <1>4, <2>2, <3>2, <3>3 DEF Apart
      <3> QED
        BY <3>1, <3>2, <3>4, <3>5
    <2> QED
      BY <2>1, <2>2
  <1> HIDE DEF n, All, Good
  <1> DEFINE T == {i \in Nat : i <= n => Good(h[i])}
  <1>5. 0 \in T
    BY <1>2, <1>3
  <1>6. ASSUME NEW i \in Nat, i \in T PROVE i + 1 \in T
    <2>1. CASE i + 1 <= n
      <3>1. i + 1 \in 1..n /\ (i + 1) - 1 = i /\ Good(h[i])
        BY <1>1, <1>6, <2>1
      <3>2. h[i + 1] = Entered(h[i], adm[i + 1])
        BY <1>2, <3>1
      <3> QED
        BY <1>1, <1>4, <3>1, <3>2
    <2> QED
      BY <1>1, <2>1
  <1> HIDE DEF T
  <1>7. n \in T
    BY <1>1, <1>5, <1>6, SetInduction
  <1> QED
    <2>1. FoldLeft(Entered, run, adm) = h[n] /\ Good(h[n])
      BY <1>1, <1>2, <1>7 DEF T
    <2>2. /\ h[n] \in Seq(Req) /\ Apart(h[n])
          /\ \A k \in DOMAIN h[n] : h[n][k] \in All
      BY <2>1 DEF Good
    <2>3. Range(h[n]) \in SUBSET All
      BY <2>2 DEF Range
    <2> QED
      BY <2>1, <2>2, <2>3 DEF All

\* With distinct ids the requests join the batch in the order of the queue.
LEMMA EnteringAppends ==
    ASSUME DistinctIds, NEW run \in Seq(Req), NEW adm \in Seq(Req),
           \A i, j \in DOMAIN adm : adm[i] = adm[j] => i = j,
           Range(run) \cap Range(adm) = {}
    PROVE  LET e == FoldLeft(Entered, run, adm)
           IN /\ e \in Seq(Req) /\ Len(e) = Len(run) + Len(adm)
              /\ \A k \in 1..Len(run) : e[k] = run[k]
              /\ \A k \in 1..Len(adm) : e[Len(run) + k] = adm[k]
  <1> DEFINE n == Len(adm)
             m == Len(run)
             Good(e, i) == /\ e \in Seq(Req) /\ Len(e) = m + i
                           /\ \A k \in 1..m : e[k] = run[k]
                           /\ \A k \in 1..i : e[m + k] = adm[k]
  <1>1. /\ n \in Nat /\ DOMAIN adm = 1..n /\ \A i \in 1..n : adm[i] \in Req
        /\ m \in Nat /\ \A i \in 1..m : run[i] \in Req
        /\ \A i \in 1..n, j \in 1..m : adm[i] # run[j]
        /\ \A i, j \in 1..n : adm[i] = adm[j] => i = j
    BY DEF Range
  <1>2. PICK h \in [0..n -> Seq(Req)] :
            /\ h[0] = run
            /\ \A i \in 1..n : h[i] = Entered(h[i - 1], adm[i])
            /\ FoldLeft(Entered, run, adm) = h[n]
    BY Entering
  <1>3. Good(run, 0)
    OBVIOUS
  <1> HIDE DEF n, m
  <1>4. ASSUME NEW i \in 0..n, i + 1 <= n, NEW e, Good(e, i)
        PROVE  Good(Entered(e, adm[i + 1]), i + 1)
    <2> DEFINE r == adm[i + 1]
               x == Append(e, r)
    <2>1. i + 1 \in 1..n /\ r \in Req
      BY <1>1, <1>4
    <2>2. /\ e \in Seq(Req) /\ DOMAIN e = 1..(m + i)
          /\ \A k \in 1..m : e[k] = run[k]
          /\ \A k \in 1..i : e[m + k] = adm[k]
      BY <1>1, <1>4
    <2> HIDE DEF r
    <2>3. ASSUME NEW k \in DOMAIN e PROVE Id[e[k]] # Id[r]
      <3>1. CASE k <= m
        <4>1. k \in 1..m
          BY <1>1, <2>2, <3>1
        <4>2. e[k] = run[k] /\ e[k] # r /\ e[k] \in Req
          BY <1>1, <2>1, <2>2, <4>1 DEF r
        <4> QED
          BY <2>1, <4>2 DEF DistinctIds
      <3>2. CASE k > m
        <4>1. k - m \in 1..i /\ m + (k - m) = k /\ k - m # i + 1 /\ k - m \in 1..n
          BY <1>1, <1>4, <2>2, <3>2
        <4>2. e[k] = adm[k - m] /\ e[k] # r /\ e[k] \in Req
          BY <1>1, <2>1, <2>2, <4>1 DEF r
        <4> QED
          BY <2>1, <4>2 DEF DistinctIds
      <3> QED
        BY <1>1, <2>2, <3>1, <3>2
    <2>4. Entered(e, r) = x
      BY <2>3 DEF Entered
    <2>5. /\ x \in Seq(Req) /\ Len(x) = m + (i + 1) /\ x[m + (i + 1)] = r
          /\ \A k \in 1..(m + i) : x[k] = e[k]
      <3>1. Len(e) = m + i /\ m + i \in Nat /\ (m + i) + 1 = m + (i + 1)
        BY <1>1, <1>4
      <3>2. /\ x \in Seq(Req) /\ Len(x) = Len(e) + 1 /\ x[Len(e) + 1] = r
            /\ \A k \in 1..Len(e) : x[k] = e[k]
        BY <2>1, <2>2
      <3> QED
        BY <3>1, <3>2
    <2> HIDE DEF x
    <2>6. \A k \in 1..m : x[k] = run[k]
      BY <1>1, <2>2, <2>5
    <2>7. \A k \in 1..(i + 1) : x[m + k] = adm[k]
      <3> SUFFICES ASSUME NEW k \in 1..(i + 1) PROVE x[m + k] = adm[k]
        OBVIOUS
      <3>1. CASE k = i + 1
        BY <2>5, <3>1 DEF r
      <3>2. CASE k # i + 1
        <4>1. k \in 1..i /\ m + k \in 1..(m + i)
          BY <1>1, <3>2
        <4> QED
          BY <2>2, <2>5, <4>1
      <3> QED
        BY <3>1, <3>2
    <2> QED
      BY <2>4, <2>5, <2>6, <2>7 DEF r
  <1> HIDE DEF Good
  <1> DEFINE T == {i \in Nat : i <= n => Good(h[i], i)}
  <1>5. 0 \in T
    BY <1>2, <1>3
  <1>6. ASSUME NEW i \in Nat, i \in T PROVE i + 1 \in T
    <2>1. CASE i + 1 <= n
      <3>1. i + 1 \in 1..n /\ (i + 1) - 1 = i /\ i \in 0..n /\ Good(h[i], i)
        BY <1>1, <1>6, <2>1
      <3>2. h[i + 1] = Entered(h[i], adm[i + 1])
        BY <1>2, <3>1
      <3> QED
        BY <1>4, <2>1, <3>1, <3>2
    <2> QED
      BY <1>1, <2>1
  <1> HIDE DEF T
  <1>7. n \in T
    BY <1>1, <1>5, <1>6, SetInduction
  <1> QED
    BY <1>1, <1>2, <1>7 DEF T, Good, n, m

\* What is picked has the requests picked, and keeps order and identity.
LEMMA PicksKeep ==
    ASSUME NEW seq \in Seq(Req), NEW K \in SUBSET DOMAIN seq, NEW e,
           Picks(e, Req, seq, K, Len(seq))
    PROVE  /\ e \in Seq(Req) /\ Range(e) = {seq[k] : k \in K}
           /\ Apart(seq) => Apart(e)
           /\ Ordered(seq) => Ordered(e)
  <1>1. PICK pos \in [1..Len(e) -> K] :
            /\ \A i \in 1..Len(e) : e[i] = seq[pos[i]]
            /\ \A i, j \in 1..Len(e) : i < j => pos[i] < pos[j]
            /\ \A k \in K : \E i \in 1..Len(e) : pos[i] = k
    <2>1. \A k \in K : k <= Len(seq)
      OBVIOUS
    <2> QED
      BY <2>1 DEF Picks
  <1>2. e \in Seq(Req) /\ DOMAIN e = 1..Len(e) /\ Len(e) \in Nat
    BY DEF Picks
  <1>3. \A i \in 1..Len(e) : pos[i] \in K /\ pos[i] \in DOMAIN seq /\ pos[i] \in Nat
    OBVIOUS
  <1>4. Range(e) = {seq[k] : k \in K}
    BY <1>1, <1>2, <1>3 DEF Range
  <1>5. ASSUME Apart(seq) PROVE Apart(e)
    <2> SUFFICES ASSUME NEW i \in 1..Len(e), NEW j \in 1..Len(e), Id[e[i]] = Id[e[j]]
                 PROVE  i = j
      BY <1>2 DEF Apart
    <2>1. pos[i] = pos[j]
      BY <1>1, <1>3, <1>5 DEF Apart
    <2>2. ~(i < j) /\ ~(j < i)
      BY <1>1, <1>3, <2>1
    <2> QED
      BY <2>2
  <1>6. ASSUME Ordered(seq) PROVE Ordered(e)
    BY <1>1, <1>2, <1>3, <1>6 DEF Ordered
  <1> QED
    BY <1>2, <1>4, <1>5, <1>6

\* _cleanup takes the finished requests, in the order of _running.
LEMMA FinishedPicked ==
    ASSUME running \in Seq(Req)
    PROVE  Picks(FoldLeft(WithFinished, <<>>, running), Req, running,
                 {i \in DOMAIN running : status[running[i]] = "finished"},
                 Len(running))
  <1> DEFINE K == {i \in DOMAIN running : status[running[i]] = "finished"}
             n == Len(running)
  <1>1. n \in 0..n /\ DOMAIN running = 1..n /\ K \in SUBSET DOMAIN running
    OBVIOUS
  <1>2. PICK h \in [0..n -> Seq(Req)] :
            /\ h[0] = <<>>
            /\ \A i \in 1..n : h[i] = WithFinished(h[i - 1], running[i])
            /\ FoldLeft(WithFinished, <<>>, running) = h[n]
    BY WithFinishedCollects
  <1>3. Gathers(h, running, K)
    BY <1>1, <1>2 DEF WithFinished, Gathers
  <1> HIDE DEF K
  <1>4. Picks(h[n], Req, running, K, n)
    BY <1>1, <1>3, Collected
  <1> QED
    BY <1>2, <1>4 DEF K

\* _cleanup leaves the unfinished requests, in the order of _running.
LEMMA UnfinishedPicked ==
    ASSUME running \in Seq(Req)
    PROVE  Picks(FoldLeft(WithUnfinished, <<>>, running), Req, running,
                 {i \in DOMAIN running : status[running[i]] # "finished"},
                 Len(running))
  <1> DEFINE K == {i \in DOMAIN running : status[running[i]] # "finished"}
             n == Len(running)
  <1>1. n \in 0..n /\ DOMAIN running = 1..n /\ K \in SUBSET DOMAIN running
    OBVIOUS
  <1>2. PICK h \in [0..n -> Seq(Req)] :
            /\ h[0] = <<>>
            /\ \A i \in 1..n : h[i] = WithUnfinished(h[i - 1], running[i])
            /\ FoldLeft(WithUnfinished, <<>>, running) = h[n]
    BY WithUnfinishedCollects
  <1>3. Gathers(h, running, K)
    BY <1>1, <1>2 DEF WithUnfinished, Gathers
  <1> HIDE DEF K
  <1>4. Picks(h[n], Req, running, K, n)
    BY <1>1, <1>3, Collected
  <1> QED
    BY <1>2, <1>4 DEF K

-----------------------------------------------------------------------------
(* Types                                                                   *)

Counters == [loaded : Nat, computed : Nat, accepted : Nat, generated : Nat]

Record == [req : Req, ttft : Int \cup {NoTime}, latency : Int, output : Nat,
           hits : Nat, accepted : Nat, rejected : Nat]

TypeOK ==
    /\ phase \in {"idle", "process", "cleanup", "raised_oom", "raised_stall", "done"}
    /\ step \in Nat /\ simTime \in Nat /\ stallCount \in Nat
    /\ waiting \in Seq(Req) /\ running \in Seq(Req) /\ todo \in Seq(Req)
    /\ totals \in Counters /\ firsts \in SUBSET Req
    /\ status \in [Req -> {"queued", "prefill", "decoding", "finished"}]
    /\ numComputed \in [Req -> Nat] /\ outLen \in [Req -> Nat]
    /\ hits \in [Req -> Nat] /\ held \in [Req -> Nat]
    /\ numAccepted \in [Req -> Nat] /\ numRejected \in [Req -> Nat]
    /\ firstToken \in [Req -> Nat \cup {NoTime}]
    /\ specSteps \in Nat /\ perPos \in [1..NumSpec -> Nat]
    /\ recorded \in [totals : Counters, busy : Nat, wallClock : Nat]
    /\ records \in Seq(Record)

\* The decode of r with k drafts, of which it accepts a and rejects j.
Decodes(r, k, a, j) ==
    /\ r \in Req /\ k \in 0..NumSpec /\ a \in 0..k /\ j \in Nat
    /\ r = Head(todo) /\ status[r] = "decoding"
    /\ Evaluate(r, k, a)
    /\ numComputed' = [numComputed EXCEPT ![r] = numComputed[r] + 1 + a]
    /\ held' = [held EXCEPT ![r] = held[r] + 1 + a]
    /\ outLen' = [outLen EXCEPT ![r] = outLen[r] + (Bonus(r) + a)]
    /\ numAccepted' = [numAccepted EXCEPT ![r] = numAccepted[r] + a]
    /\ numRejected' = [numRejected EXCEPT ![r] = numRejected[r] + j]
    /\ totals' = Counted(numComputed[r], 1 + k, a, Bonus(r) + a)
    /\ firsts' = IF outLen[r] = 0 /\ Bonus(r) + a > 0 THEN firsts \cup {r} ELSE firsts
    /\ status' = [status EXCEPT ![r] = IF outLen[r] + (Bonus(r) + a) >= OutLen[r]
                                       THEN "finished" ELSE "decoding"]

\* A request in the list of the step is a request; the rest is shorter.
LEMMA TodoHead ==
    ASSUME todo \in Seq(Req), todo # <<>>
    PROVE  /\ Head(todo) \in Req /\ Tail(todo) \in Seq(Req)
           /\ Head(todo) = todo[1] /\ 1 \in DOMAIN todo
           /\ Len(Tail(todo)) = Len(todo) - 1
           /\ \A i \in 1..(Len(todo) - 1) : Tail(todo)[i] = todo[i + 1]
  OBVIOUS

\* What is computed for drafts that are not accepted is given back.
LEMMA DecodeEffect ==
    ASSUME TypeOK, HandleDecode
    PROVE  \E r, k, a, j : Decodes(r, k, a, j)
  <1> DEFINE r == Head(todo)
             k == Drafts(r)
  <1>1. r \in Req /\ status[r] = "decoding"
    BY TodoHead DEF HandleDecode, TypeOK
  <1>2. PICK v \in Verdicts(r, k) :
            /\ Evaluate(r, k, v.accepted)
            /\ numComputed' = [numComputed EXCEPT ![r] = @ + 1 + k - Rollback(v)]
            /\ held' = [held EXCEPT ![r] = HeldAfter(r, k, v)]
            /\ outLen' = [outLen EXCEPT ![r] = @ + (Bonus(r) + v.accepted)]
            /\ numAccepted' = [numAccepted EXCEPT ![r] = @ + v.accepted]
            /\ numRejected' = [numRejected EXCEPT ![r] = @ + v.rejected]
            /\ totals' = Counted(numComputed[r], 1 + k, v.accepted,
                                 Bonus(r) + v.accepted)
            /\ firsts' = IF outLen[r] = 0 /\ Bonus(r) + v.accepted > 0
                         THEN firsts \cup {r} ELSE firsts
    BY DEF HandleDecode
  <1>3. status' = [status EXCEPT ![r] = IF outLen'[r] >= OutLen[r] THEN "finished" ELSE @]
    BY DEF HandleDecode
  <1> HIDE DEF r
  <1>4. /\ outLen[r] \in Nat /\ OutLen[r] \in Nat /\ numComputed[r] \in Nat
        /\ held[r] \in Nat /\ NumSpec \in Nat
        /\ status \in [Req -> {"queued", "prefill", "decoding", "finished"}]
        /\ outLen \in [Req -> Nat]
    BY <1>1, RequestsAssumption, ConfigAssumption DEF TypeOK
  <1>5. Draftable(r) \in Nat /\ k \in 0..NumSpec
    BY <1>4 DEF Draftable, Drafts, Earlier
  <1> HIDE DEF k
  <1>6. PICK a \in 0..Earlier(k, Draftable(r)) :
            v = LET beyond == IF a = Draftable(r) THEN k - a ELSE 0
                IN [accepted |-> a, rejected |-> k - a - beyond, beyond |-> beyond]
    BY DEF Verdicts
  <1>7. a \in 0..k
    BY <1>5, <1>6 DEF Earlier
  <1>8. v.accepted = a /\ v.rejected \in Nat /\ Rollback(v) = k - a
    BY <1>5, <1>6, <1>7 DEF Rollback
  <1>9. /\ numComputed[r] + 1 + k - Rollback(v) = numComputed[r] + 1 + a
        /\ HeldAfter(r, k, v) = held[r] + 1 + a
    BY <1>4, <1>5, <1>7, <1>8 DEF HeldAfter
  <1>10. outLen'[r] = outLen[r] + (Bonus(r) + a)
    BY <1>1, <1>2, <1>4, <1>8
  <1> DEFINE j == v.rejected
  <1>11. /\ Evaluate(r, k, a)
         /\ numComputed' = [numComputed EXCEPT ![r] = numComputed[r] + 1 + a]
         /\ held' = [held EXCEPT ![r] = held[r] + 1 + a]
         /\ outLen' = [outLen EXCEPT ![r] = outLen[r] + (Bonus(r) + a)]
         /\ numAccepted' = [numAccepted EXCEPT ![r] = numAccepted[r] + a]
         /\ numRejected' = [numRejected EXCEPT ![r] = numRejected[r] + j]
         /\ totals' = Counted(numComputed[r], 1 + k, a, Bonus(r) + a)
         /\ firsts' = IF outLen[r] = 0 /\ Bonus(r) + a > 0
                      THEN firsts \cup {r} ELSE firsts
    <2>1. /\ numComputed' = [numComputed EXCEPT ![r] = numComputed[r] + 1 + k - Rollback(v)]
          /\ outLen' = [outLen EXCEPT ![r] = outLen[r] + (Bonus(r) + v.accepted)]
          /\ numAccepted' = [numAccepted EXCEPT ![r] = numAccepted[r] + v.accepted]
          /\ numRejected' = [numRejected EXCEPT ![r] = numRejected[r] + v.rejected]
      BY <1>2
    <2> QED
      BY <1>2, <1>8, <1>9, <2>1
  <1>12. status' = [status EXCEPT ![r] = IF outLen[r] + (Bonus(r) + a) >= OutLen[r]
                                        THEN "finished" ELSE "decoding"]
    BY <1>1, <1>3, <1>4, <1>10
  <1>13. Decodes(r, k, a, j)
    BY <1>1, <1>5, <1>7, <1>8, <1>11, <1>12 DEF Decodes, r
  <1> QED
    BY <1>13

\* The bonus token is one at most.
LEMMA BonusType == \A r : Bonus(r) \in 0..1
  BY DEF Bonus

\* The counters of a step are numbers.
LEMMA CountedType ==
    ASSUME totals \in Counters, NEW a \in Nat, NEW b \in Nat, NEW c \in Nat, NEW d \in Nat
    PROVE  /\ Counted(a, b, c, d) \in Counters
           /\ Counted(a, b, c, d).loaded = totals.loaded + a
           /\ Counted(a, b, c, d).computed = totals.computed + b
           /\ Counted(a, b, c, d).accepted = totals.accepted + c
           /\ Counted(a, b, c, d).generated = totals.generated + d
  BY DEF Counted, Counters

\* Every request is in a sequence once.
Once(seq) == \A i, j \in DOMAIN seq : seq[i] = seq[j] => i = j

\* The admission of adm, with rest still waiting.
Admits(adm, rest) ==
    /\ adm \in Seq(Req) /\ rest \in Seq(Req)
    /\ Range(waiting) = Range(adm) \cup Range(rest)
    /\ Once(waiting) => /\ Once(adm) /\ Once(rest)
                        /\ Range(adm) \cap Range(rest) = {}
    /\ Ordered(waiting) =>
         /\ Ordered(adm) /\ Ordered(rest)
         /\ \A r \in Range(adm), q \in Range(rest) : Arrival[r] <= Arrival[q]
         /\ \A q \in Range(rest) : Arrival[q] > simTime
    /\ \A r \in Range(adm) : Arrival[r] <= simTime
    /\ waiting' = rest
    /\ running' = FoldLeft(Entered, running, adm)
    /\ running' \in Seq(Req)
    /\ Apart(running) => /\ Apart(running')
                         /\ Range(running') \in SUBSET (Range(running) \cup Range(adm))
    /\ status' = [r \in Req |-> IF r \in Range(adm) THEN "prefill" ELSE status[r]]

\* A step admits the head of the queue, those that have arrived.
LEMMA StartEffect ==
    ASSUME TypeOK, StartStep
    PROVE  \E adm, rest : Admits(adm, rest)
  <1> DEFINE adm == SubSeq(waiting, 1, Due)
             rest == SubSeq(waiting, Due + 1, Len(waiting))
             n == Len(waiting)
             d == Due
  <1>1. waiting \in Seq(Req) /\ simTime \in Nat /\ running \in Seq(Req)
    BY DEF TypeOK
  <1>2. /\ Due \in 0..Len(waiting)
        /\ \A i \in 1..Due : Arrival[waiting[i]] <= simTime
        /\ Due < Len(waiting) => Arrival[waiting[Due + 1]] > simTime
    BY <1>1, DueSplits
  <1>3. /\ waiting' = rest /\ running' = FoldLeft(Entered, running, adm)
        /\ status' = [r \in Req |-> IF r \in Range(adm) THEN "prefill" ELSE status[r]]
    BY DEF StartStep
  <1>4. n \in Nat /\ DOMAIN waiting = 1..n /\ \A i \in 1..n : waiting[i] \in Req
    BY <1>1
  <1>5. /\ adm \in Seq(Req) /\ DOMAIN adm = 1..d
        /\ \A i \in 1..d : adm[i] = waiting[i]
    BY <1>1, <1>2
  <1>6. /\ rest \in Seq(Req) /\ DOMAIN rest = 1..(n - d)
        /\ \A i \in 1..(n - d) : rest[i] = waiting[d + i]
    BY <1>1, <1>2
  <1>7. /\ d \in 0..n /\ \A i \in 1..d : Arrival[waiting[i]] <= simTime
        /\ d < n => Arrival[waiting[d + 1]] > simTime
    BY <1>2
  <1> HIDE DEF adm, rest, n, d
  <1>8. /\ \A i \in 1..n : i \in 1..d \/ (i - d \in 1..(n - d) /\ d + (i - d) = i)
        /\ \A i \in 1..d : i \in 1..n
        /\ \A i \in 1..(n - d) : d + i \in 1..n /\ d + i > d
    BY <1>4, <1>7
  <1>9. Range(waiting) = Range(adm) \cup Range(rest)
    <2>1. ASSUME NEW i \in 1..n PROVE waiting[i] \in Range(adm) \cup Range(rest)
      BY <1>5, <1>6, <1>8 DEF Range
    <2>2. ASSUME NEW i \in 1..d PROVE adm[i] \in Range(waiting)
      BY <1>4, <1>5, <1>8 DEF Range
    <2>3. ASSUME NEW i \in 1..(n - d) PROVE rest[i] \in Range(waiting)
      BY <1>4, <1>6, <1>8 DEF Range
    <2> QED
      BY <1>4, <1>5, <1>6, <2>1, <2>2, <2>3 DEF Range
  <1>10. ASSUME Once(waiting)
         PROVE  Once(adm) /\ Once(rest) /\ Range(adm) \cap Range(rest) = {}
    <2>1. \A i, j \in 1..n : waiting[i] = waiting[j] => i = j
      BY <1>4, <1>10 DEF Once
    <2>2. Once(adm)
      BY <1>5, <1>8, <2>1 DEF Once
    <2>3. Once(rest)
      <3> SUFFICES ASSUME NEW i \in 1..(n - d), NEW j \in 1..(n - d), rest[i] = rest[j]
                   PROVE  i = j
        BY <1>6 DEF Once
      <3>1. d + i = d + j
        BY <1>6, <1>8, <2>1
      <3> QED
        BY <1>7, <3>1
    <2>4. ASSUME NEW i \in 1..d, NEW j \in 1..(n - d) PROVE adm[i] # rest[j]
      <3>1. i # d + j /\ i \in 1..n /\ d + j \in 1..n
        BY <1>7, <1>8
      <3> QED
        BY <1>5, <1>6, <2>1, <3>1
    <2> QED
      BY <1>5, <1>6, <2>2, <2>3, <2>4 DEF Range
  <1>11. ASSUME Ordered(waiting)
         PROVE  /\ Ordered(adm) /\ Ordered(rest)
                /\ \A r \in Range(adm), q \in Range(rest) : Arrival[r] <= Arrival[q]
                /\ \A q \in Range(rest) : Arrival[q] > simTime
    <2>1. \A i, j \in 1..n : i < j => Arrival[waiting[i]] <= Arrival[waiting[j]]
      BY <1>4, <1>11 DEF Ordered
    <2>2. Ordered(adm)
      BY <1>5, <1>8, <2>1 DEF Ordered
    <2>3. Ordered(rest)
      <3> SUFFICES ASSUME NEW i \in 1..(n - d), NEW j \in 1..(n - d), i < j
                   PROVE  Arrival[rest[i]] <= Arrival[rest[j]]
        BY <1>6 DEF Ordered
      <3>1. d + i < d + j /\ d + i \in 1..n /\ d + j \in 1..n
        BY <1>7, <1>8
      <3> QED
        BY <1>6, <2>1, <3>1
    <2>4. ASSUME NEW i \in 1..d, NEW j \in 1..(n - d)
          PROVE  Arrival[adm[i]] <= Arrival[rest[j]]
      <3>1. i < d + j /\ i \in 1..n /\ d + j \in 1..n
        BY <1>7, <1>8
      <3> QED
        BY <1>5, <1>6, <2>1, <3>1
    <2>5. ASSUME NEW j \in 1..(n - d) PROVE Arrival[rest[j]] > simTime
      <3>1. d < n /\ d + 1 \in 1..n /\ d + j \in 1..n /\ (j = 1 \/ d + 1 < d + j)
        BY <1>4, <1>7, <1>8
      <3>2. Arrival[waiting[d + 1]] <= Arrival[waiting[d + j]]
        <4>1. Arrival[waiting[d + 1]] \in Nat
          BY <1>4, <3>1, RequestsAssumption
        <4> QED
          BY <2>1, <3>1, <4>1
      <3>3. /\ Arrival[waiting[d + 1]] \in Nat /\ Arrival[waiting[d + j]] \in Nat
            /\ Arrival[waiting[d + 1]] > simTime
        BY <1>4, <1>7, <3>1, RequestsAssumption
      <3> QED
        BY <1>1, <1>6, <3>2, <3>3
    <2>6. \A r \in Range(adm), q \in Range(rest) : Arrival[r] <= Arrival[q]
      BY <1>5, <1>6, <2>4 DEF Range
    <2>7. \A q \in Range(rest) : Arrival[q] > simTime
      BY <1>6, <2>5 DEF Range
    <2> QED
      BY <2>2, <2>3, <2>6, <2>7
  <1>12. \A r \in Range(adm) : Arrival[r] <= simTime
    BY <1>5, <1>7 DEF Range
  <1>13. running' \in Seq(Req)
    <2>1. PICK h \in [0..Len(adm) -> Seq(Req)] :
              FoldLeft(Entered, running, adm) = h[Len(adm)]
      BY <1>1, <1>5, Entering
    <2>2. Len(adm) \in 0..Len(adm)
      BY <1>5
    <2> QED
      BY <1>3, <2>1, <2>2
  <1>14. Apart(running) => /\ Apart(running')
                           /\ Range(running') \in SUBSET (Range(running) \cup Range(adm))
    BY <1>1, <1>3, <1>5, EnteringKeepsApart
  <1>15. Admits(adm, rest)
    BY <1>3, <1>5, <1>6, <1>9, <1>10, <1>11, <1>12, <1>13, <1>14 DEF Admits
  <1> QED
    BY <1>15

\* The cleanup that takes done out of _running and keeps left.
Cleans(done, left) ==
    /\ done \in Seq(Req) /\ left \in Seq(Req)
    /\ Range(done) = {r \in Range(running) : status[r] = "finished"}
    /\ Range(left) = {r \in Range(running) : status[r] # "finished"}
    /\ Apart(running) => Apart(done) /\ Apart(left)
    /\ Ordered(running) => Ordered(left)
    /\ running' = left
    /\ held' = [r \in Req |-> IF r \in Range(done) THEN 0 ELSE held[r]]
    /\ rngs' = Forget(done)
    /\ records' = IF step > Warmup
                  THEN records \o [i \in DOMAIN done |-> RequestRecord(done[i])]
                  ELSE records
    /\ simTime' = FastForward(left)
    /\ phase' = IF Remain(left) THEN "idle" ELSE "done"

\* The finished requests go, the others stay in their order.
LEMMA FinishEffect ==
    ASSUME TypeOK, FinishStep
    PROVE  \E done, left : Cleans(done, left)
  <1> DEFINE done == FoldLeft(WithFinished, <<>>, running)
             left == FoldLeft(WithUnfinished, <<>>, running)
             K == {i \in DOMAIN running : status[running[i]] = "finished"}
             L == {i \in DOMAIN running : status[running[i]] # "finished"}
  <1>1. running \in Seq(Req)
    BY DEF TypeOK
  <1>2. /\ Picks(done, Req, running, K, Len(running))
        /\ Picks(left, Req, running, L, Len(running))
    BY <1>1, FinishedPicked, UnfinishedPicked
  <1>3. /\ running' = left
        /\ held' = [r \in Req |-> IF r \in Range(done) THEN 0 ELSE held[r]]
        /\ rngs' = Forget(done)
        /\ records' = IF step > Warmup
                      THEN records \o [i \in DOMAIN done |-> RequestRecord(done[i])]
                      ELSE records
        /\ simTime' = FastForward(left)
        /\ phase' = IF Remain(left) THEN "idle" ELSE "done"
    BY DEF FinishStep
  <1>4. K \in SUBSET DOMAIN running /\ L \in SUBSET DOMAIN running
    OBVIOUS
  <1>5. /\ {running[i] : i \in K} = {r \in Range(running) : status[r] = "finished"}
        /\ {running[i] : i \in L} = {r \in Range(running) : status[r] # "finished"}
    BY DEF Range
  <1> HIDE DEF done, left, K, L
  <1>6. /\ done \in Seq(Req) /\ Range(done) = {running[i] : i \in K}
        /\ Apart(running) => Apart(done)
    BY <1>1, <1>2, <1>4, PicksKeep
  <1>7. /\ left \in Seq(Req) /\ Range(left) = {running[i] : i \in L}
        /\ Apart(running) => Apart(left)
        /\ Ordered(running) => Ordered(left)
    BY <1>1, <1>2, <1>4, PicksKeep
  <1>8. Cleans(done, left)
    BY <1>3, <1>5, <1>6, <1>7 DEF Cleans
  <1> QED
    BY <1>8

\* The latency that closes a step: none for a step that computes nothing.
Takes(l) ==
    /\ l \in Nat /\ (totals.computed > 0 => l \in Latencies)
    /\ simTime' = simTime + l
    /\ firstToken' = Stamp(l)
    /\ stallCount' = StallCount
    /\ \/ phase' = "raised_stall" /\ recorded' = recorded /\ stallCount' >= StallLimit
       \/ /\ phase' = "cleanup"
          /\ recorded' = IF step > Warmup THEN RecordStep(l) ELSE recorded

\* A step takes the latency predicted for it.
LEMMA AccountEffect ==
    ASSUME TypeOK, Account
    PROVE  \E l : Takes(l)
  <1>1. PICK l \in IF totals.computed > 0 THEN Latencies ELSE {0} :
            /\ simTime' = simTime + l
            /\ firstToken' = Stamp(l)
            /\ stallCount' = StallCount
            /\ IF GivesUp(stallCount')
               THEN phase' = "raised_stall" /\ UNCHANGED recorded
               ELSE /\ phase' = "cleanup"
                    /\ recorded' = IF step > Warmup THEN RecordStep(l) ELSE recorded
    BY DEF Account
  <1>2. l \in Nat /\ (totals.computed > 0 => l \in Latencies)
    BY <1>1, ConfigAssumption
  <1> QED
    BY <1>1, <1>2 DEF Takes, GivesUp

\* The shortest pass is the least of the latencies.
LEMMA ShortestPass ==
    Min(Latencies) \in Nat /\ \A l \in Latencies : Min(Latencies) <= l
  <1>1. PICK m \in Latencies : \A l \in Latencies : m <= l
    BY ConfigAssumption, LeastNumber
  <1>2. \E x \in Latencies : \A y \in Latencies : x <= y
    BY <1>1
  <1> QED
    BY <1>2, ConfigAssumption DEF Min

\* The initial state has the types.
LEMMA InitTypes == Init => TypeOK
  <1> SUFFICES ASSUME Init PROVE TypeOK
    OBVIOUS
  <1>1. ByArrival \in Seq(Req)
    BY Sorting
  <1>2. Zero \in Counters
    BY DEF Zero, Counters
  <1>3. 1..NumSpec \in SUBSET Int
    BY ConfigAssumption
  <1> QED
    BY <1>1, <1>2, <1>3 DEF Init, TypeOK

\* Each action keeps the types.
LEMMA NextTypes == TypeOK /\ [Next]_vars => TypeOK'
  <1> SUFFICES ASSUME TypeOK, [Next]_vars PROVE TypeOK'
    OBVIOUS
  <1> USE ConfigAssumption
  <1>1. CASE StartStep
    <2>1. PICK adm, rest : Admits(adm, rest)
      BY <1>1, StartEffect
    <2>2. /\ waiting' \in Seq(Req) /\ running' \in Seq(Req)
          /\ status' \in [Req -> {"queued", "prefill", "decoding", "finished"}]
      BY <2>1 DEF Admits, TypeOK
    <2>3. step' \in Nat /\ totals' \in Counters
      BY <1>1 DEF StartStep, Earlier, Fresh, Zero, Counters, TypeOK
    <2>4. /\ phase' = "process" /\ todo' = running' /\ firsts' = {}
          /\ UNCHANGED <<simTime, stallCount, numComputed, outLen, firstToken, hits,
                         numAccepted, numRejected, held, acceptVars, recorderVars>>
      BY <1>1 DEF StartStep
    <2> QED
      BY <2>2, <2>3, <2>4 DEF TypeOK, acceptVars, recorderVars
  <1>2. CASE HandlePrefill
    <2> DEFINE r == Head(todo)
    <2>1. r \in Req /\ Tail(todo) \in Seq(Req)
      BY <1>2, TodoHead DEF HandlePrefill, TypeOK
    <2>2. PICK h \in Hits[r] :
              /\ hits' = [hits EXCEPT ![r] = h]
              /\ numComputed' = [numComputed EXCEPT ![r] = PromptLen[r]]
              /\ held' = [held EXCEPT ![r] = PromptLen[r]]
              /\ status' = [status EXCEPT ![r] = "decoding"]
              /\ totals' = Counted(h, PromptLen[r] - h, 0, 0)
      BY <1>2 DEF HandlePrefill
    <2>3. /\ todo' = Tail(todo)
          /\ UNCHANGED <<phase, step, simTime, waiting, running, firsts, stallCount,
                   outLen, firstToken, numAccepted, numRejected, acceptVars,
                   recorderVars>>
      BY <1>2 DEF HandlePrefill
    <2> HIDE DEF r
    <2>4. h \in Nat /\ PromptLen[r] \in Nat /\ PromptLen[r] - h \in Nat
      BY <2>1, <2>2, RequestsAssumption
    <2>5. totals' \in Counters
      BY <2>2, <2>4, CountedType, 0 \in Nat DEF TypeOK
    <2> QED
      BY <2>1, <2>2, <2>3, <2>4, <2>5 DEF TypeOK, acceptVars, recorderVars
  <1>3. CASE PrefillOutOfMemory
    <2> DEFINE r == Head(todo)
    <2>1. PICK h \in Hits[r] :
              /\ hits' = [hits EXCEPT ![r] = h]
              /\ numComputed' = [numComputed EXCEPT ![r] = h]
      BY <1>3 DEF PrefillOutOfMemory
    <2>2. r \in Req
      BY <1>3, TodoHead DEF PrefillOutOfMemory, TypeOK
    <2> HIDE DEF r
    <2>3. h \in Nat
      BY <2>1, <2>2, RequestsAssumption
    <2> QED
      BY <1>3, <2>1, <2>3 DEF PrefillOutOfMemory, TypeOK, acceptVars, recorderVars
  <1>4. CASE HandleDecode
    <2>1. PICK r, k, a, j : Decodes(r, k, a, j)
      BY <1>4, DecodeEffect
    <2>2. /\ todo' = Tail(todo) /\ Tail(todo) \in Seq(Req)
          /\ UNCHANGED <<phase, step, simTime, waiting, running, stallCount,
                         firstToken, hits, recorderVars>>
      BY <1>4, TodoHead DEF HandleDecode, TypeOK
    <2>3. /\ r \in Req /\ k \in Nat /\ a \in Nat /\ j \in Nat /\ Bonus(r) \in Nat
          /\ numComputed[r] \in Nat
      <3>1. r \in Req /\ k \in 0..NumSpec /\ a \in 0..k /\ j \in Nat
        BY <2>1 DEF Decodes
      <3>2. numComputed[r] \in Nat /\ Bonus(r) \in 0..1
        BY <3>1, BonusType DEF TypeOK
      <3> QED
        BY <3>1, <3>2
    <2>4. totals' \in Counters
      <3>1. 1 + k \in Nat /\ Bonus(r) + a \in Nat
        BY <2>3
      <3> QED
        BY <2>1, <2>3, <3>1, CountedType DEF Decodes, TypeOK
    <2>5. specSteps' \in Nat /\ perPos' \in [1..NumSpec -> Nat]
      <3>1. /\ specSteps' = IF k > 0 THEN specSteps + 1 ELSE specSteps
            /\ perPos' = [i \in 1..NumSpec |->
                              IF i <= a THEN perPos[i] + 1 ELSE perPos[i]]
        BY <2>1 DEF Decodes, Evaluate
      <3>2. specSteps \in Nat /\ \A i \in 1..NumSpec : perPos[i] \in Nat
        BY DEF TypeOK
      <3> QED
        BY <3>1, <3>2
    <2>6. firsts' \in SUBSET Req
      BY <2>1, <2>3 DEF Decodes, TypeOK
    <2>7. /\ numComputed' \in [Req -> Nat] /\ held' \in [Req -> Nat]
          /\ outLen' \in [Req -> Nat] /\ numAccepted' \in [Req -> Nat]
          /\ numRejected' \in [Req -> Nat]
      <3>1. /\ numComputed' = [numComputed EXCEPT ![r] = numComputed[r] + 1 + a]
            /\ held' = [held EXCEPT ![r] = held[r] + 1 + a]
            /\ outLen' = [outLen EXCEPT ![r] = outLen[r] + (Bonus(r) + a)]
            /\ numAccepted' = [numAccepted EXCEPT ![r] = numAccepted[r] + a]
            /\ numRejected' = [numRejected EXCEPT ![r] = numRejected[r] + j]
        BY <2>1 DEF Decodes
      <3>2. /\ numComputed \in [Req -> Nat] /\ held \in [Req -> Nat]
            /\ outLen \in [Req -> Nat] /\ numAccepted \in [Req -> Nat]
            /\ numRejected \in [Req -> Nat]
        BY DEF TypeOK
      <3> DEFINE b == Bonus(r)
      <3>3. b \in Nat
        BY <2>3
      <3> HIDE DEF b
      <3>4. outLen' = [outLen EXCEPT ![r] = outLen[r] + (b + a)]
        BY <3>1 DEF b
      <3> QED
        BY <2>3, <3>1, <3>2, <3>3, <3>4
    <2>8. status' \in [Req -> {"queued", "prefill", "decoding", "finished"}]
      BY <2>1, <2>3 DEF Decodes, TypeOK
    <2> QED
      BY <2>2, <2>4, <2>5, <2>6, <2>7, <2>8 DEF TypeOK, recorderVars
  <1>5. CASE DecodeSkipped
    <2>1. Tail(todo) \in Seq(Req)
      BY <1>5, TodoHead DEF DecodeSkipped, TypeOK
    <2> QED
      BY <1>5, <2>1 DEF DecodeSkipped, TypeOK, acceptVars, recorderVars, requestVars
  <1>6. CASE Account
    <2>1. PICK l : Takes(l)
      BY <1>6, AccountEffect
    <2>2. /\ simTime' \in Nat /\ stallCount' \in Nat
          /\ phase' \in {"cleanup", "raised_stall"}
      BY <2>1 DEF Takes, StallCount, TypeOK
    <2>3. firstToken' \in [Req -> Nat \cup {NoTime}]
      BY <2>1 DEF Takes, Stamp, TypeOK
    <2>4. recorded' \in [totals : Counters, busy : Nat, wallClock : Nat]
      <3>1. RecordStep(l) \in [totals : Counters, busy : Nat, wallClock : Nat]
        <4>1. /\ recorded.totals \in Counters /\ totals \in Counters
              /\ recorded.busy \in Nat /\ simTime \in Nat /\ l \in Nat
          BY <2>1 DEF TypeOK, Takes
        <4>2. DOMAIN Zero = {"loaded", "computed", "accepted", "generated"}
          BY DEF Zero
        <4>3. [f \in DOMAIN Zero |-> recorded.totals[f] + totals[f]] \in Counters
          BY <4>1, <4>2 DEF Counters
        <4> QED
          BY <4>1, <4>3 DEF RecordStep
      <3> QED
        BY <2>1, <3>1 DEF Takes, TypeOK
    <2>5. UNCHANGED <<step, waiting, running, todo, totals, firsts, status,
                      numComputed, outLen, hits, numAccepted, numRejected, held,
                      acceptVars, records>>
      BY <1>6 DEF Account
    <2> QED
      BY <2>2, <2>3, <2>4, <2>5 DEF TypeOK, acceptVars
  <1>7. CASE FinishStep
    <2>1. PICK done, left : Cleans(done, left)
      BY <1>7, FinishEffect
    <2>2. /\ running' \in Seq(Req) /\ phase' \in {"idle", "done"}
          /\ held' \in [Req -> Nat]
      BY <2>1 DEF Cleans, TypeOK
    <2>3. simTime' \in Nat
      <3>1. waiting # <<>> => Head(waiting) \in Req
        BY DEF TypeOK
      <3> QED
        BY <2>1, <3>1, RequestsAssumption DEF Cleans, FastForward, TypeOK
    <2>4. records' \in Seq(Record)
      <3> DEFINE new == [i \in DOMAIN done |-> RequestRecord(done[i])]
      <3>1. ASSUME NEW r \in Req PROVE RequestRecord(r) \in Record
        <4>1. /\ firstToken[r] \in Nat \cup {NoTime} /\ Arrival[r] \in Nat
              /\ simTime \in Nat /\ outLen[r] \in Nat /\ hits[r] \in Nat
              /\ numAccepted[r] \in Nat /\ numRejected[r] \in Nat
          BY RequestsAssumption DEF TypeOK
        <4> QED
          BY <4>1 DEF RequestRecord, Record
      <3>2. done \in Seq(Req)
        BY <2>1 DEF Cleans
      <3>3. new \in Seq(Record)
        BY <3>1, <3>2
      <3>4. records' = IF step > Warmup THEN records \o new ELSE records
        BY <2>1 DEF Cleans
      <3>5. records \in Seq(Record)
        BY DEF TypeOK
      <3> HIDE DEF new
      <3> QED
        BY <3>3, <3>4, <3>5
    <2>5. UNCHANGED <<step, waiting, todo, totals, firsts, stallCount, status,
                      numComputed, outLen, firstToken, hits, numAccepted,
                      numRejected, specSteps, perPos, recorded>>
      BY <1>7 DEF FinishStep
    <2> QED
      BY <2>2, <2>3, <2>4, <2>5 DEF TypeOK
  <1>8. CASE UNCHANGED vars
    BY <1>8 DEF vars, loopVars, requestVars, acceptVars, recorderVars, TypeOK
  <1> QED
    BY <1>1, <1>2, <1>3, <1>4, <1>5, <1>6, <1>7, <1>8 DEF Next

\* Every state has the types.
THEOREM SchedulerTypes == Spec => []TypeOK
  <1> QED
    BY InitTypes, NextTypes, PTL DEF Spec

-----------------------------------------------------------------------------
(* The acceptance counters                                                 *)

\* What one request gains, the sum over the requests gains.
LEMMA RequestGains ==
    ASSUME NEW f \in [Req -> Nat], NEW r \in Req, NEW n \in Nat, NEW d,
           d = [f EXCEPT ![r] = f[r] + n]
    PROVE  /\ SumOver(d) = SumOver(f) + n
           /\ SumOver(f) \in Nat /\ SumOver(d) \in Nat
  <1>1. IsFiniteSet(Req) /\ DOMAIN f = Req /\ DOMAIN d = Req
    BY FiniteReq
  <1>2. \A q \in Req : f[q] \in Nat /\ d[q] \in Nat /\ f[q] \in Int /\ d[q] \in Int
    OBVIOUS
  <1>3. d[r] = f[r] + n /\ \A q \in Req \ {r} : d[q] = f[q]
    OBVIOUS
  <1>4. SumFunctionOnSet(d, Req) = SumFunctionOnSet(f, Req) + (d[r] - f[r])
    <2>1. DiffersAt(f, d, Req, r)
      BY <1>2, <1>3 DEF DiffersAt
    <2>2. \A g, e : DiffersAt(g, e, Req, r) =>
              SumFunctionOnSet(e, Req) = SumFunctionOnSet(g, Req) + (e[r] - g[r])
      BY FiniteReq, SumDiffers
    <2> QED
      BY <2>1, <2>2
  <1>5. SumFunctionOnSet(f, Req) \in Nat
    BY <1>1, <1>2, SumType
  <1>6. f[r] \in Nat
    BY <1>2
  <1> QED
    BY <1>1, <1>3, <1>4, <1>5, <1>6 DEF SumOver

\* A chain of a accepted drafts adds a to the sum over the positions.
LEMMA ChainCounted ==
    ASSUME NEW N \in Nat, NEW f \in [1..N -> Nat], NEW a \in 0..N
    PROVE  /\ SumFunctionOnSet([i \in 1..N |-> IF i <= a THEN f[i] + 1 ELSE f[i]], 1..N)
                  = SumFunctionOnSet(f, 1..N) + a
           /\ SumFunctionOnSet(f, 1..N) \in Nat
  <1> DEFINE Chain(m) == [i \in 1..N |-> IF i <= m THEN f[i] + 1 ELSE f[i]]
             Sum(g) == SumFunctionOnSet(g, 1..N)
             T == {m \in Nat : m <= N => Sum(Chain(m)) = Sum(f) + m}
  <1>1. IsFiniteSet(1..N)
    BY FS_Interval
  <1>2. Sum(f) \in Nat
    BY <1>1, SumType
  <1>3. \A m \in Nat : Chain(m) \in [1..N -> Nat]
    OBVIOUS
  <1>4. 0 \in T
    <2>1. Chain(0) = f
      OBVIOUS
    <2> QED
      BY <1>2, <2>1
  <1>5. ASSUME NEW m \in Nat, m \in T PROVE m + 1 \in T
    <2>1. CASE m + 1 <= N
      <3> DEFINE c == Chain(m)
                 d == Chain(m + 1)
      <3>1. m + 1 \in 1..N /\ Sum(c) = Sum(f) + m
        BY <1>5, <2>1
      <3>2. /\ \A i \in 1..N : c[i] \in Int /\ d[i] \in Int
            /\ \A i \in (1..N) \ {m + 1} : d[i] = c[i]
            /\ d[m + 1] = f[m + 1] + 1 /\ c[m + 1] = f[m + 1]
        BY <3>1
      <3> HIDE DEF c, d
      <3>3. Sum(d) = Sum(c) + (d[m + 1] - c[m + 1])
        <4>1. m + 1 \in 1..N /\ DiffersAt(c, d, 1..N, m + 1)
          BY <3>1, <3>2 DEF DiffersAt
        <4> QED
          BY <1>1, <4>1, SumDiffers
      <3>4. f[m + 1] \in Nat
        BY <3>1
      <3>5. Sum(d) = Sum(f) + (m + 1)
        BY <1>2, <3>1, <3>2, <3>3, <3>4
      <3> QED
        BY <3>5 DEF d
    <2> QED
      BY <2>1
  <1> HIDE DEF T
  <1>6. \A m \in Nat : m \in T
    BY <1>4, <1>5, SetInduction
  <1>7. Sum(Chain(a)) = Sum(f) + a
    BY <1>6 DEF T
  <1> QED
    BY <1>2, <1>7

\* The first state has counted nothing.
LEMMA AcceptanceInit == Init => AcceptanceAccounted
  <1> SUFFICES ASSUME Init PROVE AcceptanceAccounted
    OBVIOUS
  <1>1. /\ DOMAIN perPos = 1..NumSpec /\ \A i \in 1..NumSpec : perPos[i] = 0
        /\ DOMAIN numAccepted = Req /\ \A r \in Req : numAccepted[r] = 0
        /\ specSteps = 0 /\ NumSpec \in Nat
    BY ConfigAssumption DEF Init
  <1>2. IsFiniteSet(1..NumSpec) /\ IsFiniteSet(Req)
    BY <1>1, FS_Interval, FiniteReq
  <1>3. SumOver(perPos) = 0 /\ SumOver(numAccepted) = 0
    BY <1>1, <1>2, SumZero DEF SumOver
  <1>4. \A i \in DOMAIN perPos : perPos[i] <= IF i = 1 THEN specSteps ELSE perPos[i - 1]
    BY <1>1
  <1> QED
    BY <1>3, <1>4 DEF AcceptanceAccounted

\* A verdict of a drafts is counted at the first a positions, and for one request.
LEMMA AcceptanceNext ==
    TypeOK /\ AcceptanceAccounted /\ [Next]_vars => AcceptanceAccounted'
  <1> SUFFICES ASSUME TypeOK, AcceptanceAccounted, [Next]_vars
               PROVE  AcceptanceAccounted'
    OBVIOUS
  <1>1. CASE HandleDecode
    <2>1. PICK r, k, a, j : Decodes(r, k, a, j)
      BY <1>1, DecodeEffect
    <2>2. /\ r \in Req /\ k \in 0..NumSpec /\ a \in 0..k
          /\ numAccepted' = [numAccepted EXCEPT ![r] = numAccepted[r] + a]
          /\ specSteps' = IF k > 0 THEN specSteps + 1 ELSE specSteps
          /\ perPos' = [i \in 1..NumSpec |-> IF i <= a THEN perPos[i] + 1 ELSE perPos[i]]
      BY <2>1 DEF Decodes, Evaluate
    <2>3. /\ NumSpec \in Nat /\ perPos \in [1..NumSpec -> Nat] /\ specSteps \in Nat
          /\ numAccepted \in [Req -> Nat] /\ a \in 0..NumSpec /\ a \in Nat
      BY <2>2, ConfigAssumption DEF TypeOK
    <2>4. SumOver(numAccepted') = SumOver(numAccepted) + a
      BY <2>2, <2>3, RequestGains
    <2>5. SumOver(perPos') = SumOver(perPos) + a
      BY <2>2, <2>3, ChainCounted DEF SumOver
    <2>6. SumOver(perPos) = SumOver(numAccepted)
      BY DEF AcceptanceAccounted
    <2>7. \A i \in 1..NumSpec : perPos[i] <= IF i = 1 THEN specSteps ELSE perPos[i - 1]
      BY <2>3 DEF AcceptanceAccounted
    <2>8. ASSUME NEW i \in 1..NumSpec
          PROVE  perPos'[i] <= IF i = 1 THEN specSteps' ELSE perPos'[i - 1]
      <3>1. perPos[i] \in Nat /\ perPos'[i] = IF i <= a THEN perPos[i] + 1 ELSE perPos[i]
        BY <2>2, <2>3
      <3>2. CASE i = 1
        BY <2>2, <2>3, <2>7, <3>1, <3>2
      <3>3. CASE i # 1
        <4>1. i - 1 \in 1..NumSpec
          BY <2>3, <3>3
        <4>2. /\ perPos[i - 1] \in Nat /\ perPos[i] <= perPos[i - 1]
              /\ perPos'[i - 1] = IF i - 1 <= a THEN perPos[i - 1] + 1 ELSE perPos[i - 1]
          BY <2>2, <2>3, <2>7, <3>3, <4>1
        <4> QED
          BY <2>3, <3>1, <3>3, <4>2
      <3> QED
        BY <3>2, <3>3
    <2>9. DOMAIN perPos' = 1..NumSpec
      BY <2>2
    <2> QED
      BY <2>4, <2>5, <2>6, <2>8, <2>9 DEF AcceptanceAccounted
  <1>2. CASE UNCHANGED <<specSteps, perPos, numAccepted>>
    BY <1>2 DEF AcceptanceAccounted
  <1>3. StartStep \/ HandlePrefill \/ PrefillOutOfMemory \/ DecodeSkipped \/ Account
          \/ FinishStep \/ UNCHANGED vars => UNCHANGED <<specSteps, perPos, numAccepted>>
    BY DEF StartStep, HandlePrefill, PrefillOutOfMemory, DecodeSkipped, Account,
           FinishStep, vars, acceptVars, requestVars
  <1> QED
    BY <1>1, <1>2, <1>3 DEF Next

\* The acceptance counters agree with the requests, whatever is accepted of
\* whatever is drafted: the reported marginals are those of the accepted drafts.
THEOREM AcceptanceIsCounted == Spec => []AcceptanceAccounted
  <1>1. TypeOK /\ AcceptanceAccounted /\ [Next]_vars => TypeOK' /\ AcceptanceAccounted'
    BY NextTypes, AcceptanceNext
  <1> QED
    BY InitTypes, AcceptanceInit, <1>1, PTL DEF Spec

-----------------------------------------------------------------------------
(* The sums of the recorder                                                *)

\* What TokensRecorded needs to be kept: the busy time is within the clock, and a
\* draft that is accepted is generated.
CountInv ==
    /\ recorded.busy <= recorded.wallClock /\ recorded.wallClock <= simTime
    /\ totals.accepted <= totals.generated

\* Nothing is counted or recorded at first.
LEMMA CountInit == Init => CountInv
  BY DEF Init, Zero, CountInv

\* The sums as numbers.
LEMMA SumsAreNumbers ==
    ASSUME TypeOK
    PROVE  SumOver(outLen) \in Nat /\ SumOver(numAccepted) \in Nat
  <1>1. /\ DOMAIN outLen = Req /\ \A r \in Req : outLen[r] \in Nat /\ outLen[r] \in Int
        /\ DOMAIN numAccepted = Req
        /\ \A r \in Req : numAccepted[r] \in Nat /\ numAccepted[r] \in Int
    BY DEF TypeOK
  <1> QED
    BY <1>1, FiniteReq, SumType DEF SumOver

\* The tokens that are in no record, before and after a step.
LEMMA UnrecordedFields ==
    /\ Unrecorded["generated"] =
         SumOver(outLen) - recorded.totals.generated - Pending("generated")
    /\ Unrecorded["accepted"] =
         SumOver(numAccepted) - recorded.totals.accepted - Pending("accepted")
    /\ Unrecorded'["generated"] =
         SumOver(outLen') - recorded'.totals.generated - Pending("generated")'
    /\ Unrecorded'["accepted"] =
         SumOver(numAccepted') - recorded'.totals.accepted - Pending("accepted")'
  BY DEF Unrecorded

\* Steps that add to the requests what they add to the counters of the step.
LEMMA TokensKept ==
    ASSUME Unrecorded'["generated"] = Unrecorded["generated"],
           Unrecorded'["accepted"] = Unrecorded["accepted"],
           Unrecorded["generated"] \in Int, Unrecorded["accepted"] \in Int,
           CountInv'
    PROVE  TokensRecorded
  BY DEF TokensRecorded, CountInv

\* Each action keeps the records and the counters of the requests together.
LEMMA CountNext ==
    TypeOK /\ TypeOK' /\ CountInv /\ [Next]_vars => CountInv' /\ [TokensRecorded]_vars
  <1> SUFFICES ASSUME TypeOK, TypeOK', CountInv, [Next]_vars
               PROVE  CountInv' /\ [TokensRecorded]_vars
    OBVIOUS
  <1>0. /\ recorded.totals.generated \in Nat /\ recorded.totals.accepted \in Nat
        /\ totals.generated \in Nat /\ totals.accepted \in Nat
        /\ recorded.busy \in Nat /\ recorded.wallClock \in Nat /\ simTime \in Nat
        /\ SumOver(outLen) \in Nat /\ SumOver(numAccepted) \in Nat
        /\ totals \in Counters /\ step \in Nat /\ Warmup \in Nat
    BY SumsAreNumbers, ConfigAssumption DEF TypeOK, Counters
  <1>1. /\ recorded.busy <= recorded.wallClock /\ recorded.wallClock <= simTime
        /\ totals.accepted <= totals.generated
    BY DEF CountInv
  <1>2. /\ Pending("generated") \in Nat /\ Pending("accepted") \in Nat
        /\ Unrecorded["generated"] \in Int /\ Unrecorded["accepted"] \in Int
    <2>1. Pending("generated") \in Nat /\ Pending("accepted") \in Nat
      BY <1>0 DEF Pending
    <2> QED
      BY <1>0, <2>1, UnrecordedFields
  <1>3. CASE StartStep
    <2>1. /\ phase = "idle" /\ phase' = "process" /\ totals' = Zero
          /\ UNCHANGED <<recorded, outLen, numAccepted, simTime>>
      BY <1>3 DEF StartStep, Fresh, recorderVars
    <2>2. /\ Pending("generated") = 0 /\ Pending("accepted") = 0
          /\ Pending("generated")' = 0 /\ Pending("accepted")' = 0
      BY <2>1 DEF Pending, Zero
    <2>3. CountInv'
      BY <1>1, <2>1 DEF CountInv, Zero
    <2>4. /\ Unrecorded'["generated"] = Unrecorded["generated"]
          /\ Unrecorded'["accepted"] = Unrecorded["accepted"]
      BY <2>1, <2>2, UnrecordedFields
    <2> QED
      BY <1>2, <2>3, <2>4, TokensKept
  <1>4. CASE HandlePrefill
    <2>1. PICK h \in Hits[Head(todo)] :
              totals' = Counted(h, PromptLen[Head(todo)] - h, 0, 0)
      BY <1>4 DEF HandlePrefill
    <2>2. UNCHANGED <<phase, recorded, outLen, numAccepted, simTime>>
      BY <1>4 DEF HandlePrefill, recorderVars
    <2>3. totals'.accepted = totals.accepted /\ totals'.generated = totals.generated
      BY <1>0, <2>1 DEF Counted
    <2>4. Pending("generated")' = Pending("generated")
          /\ Pending("accepted")' = Pending("accepted")
      BY <2>2, <2>3 DEF Pending
    <2>5. CountInv'
      BY <1>1, <2>2, <2>3 DEF CountInv
    <2>6. /\ Unrecorded'["generated"] = Unrecorded["generated"]
          /\ Unrecorded'["accepted"] = Unrecorded["accepted"]
      BY <2>2, <2>4, UnrecordedFields
    <2> QED
      BY <1>2, <2>5, <2>6, TokensKept
  <1>5. CASE PrefillOutOfMemory
    <2>1. /\ phase = "process" /\ phase' = "raised_oom"
          /\ UNCHANGED <<totals, recorded, outLen, numAccepted, simTime>>
      BY <1>5 DEF PrefillOutOfMemory, recorderVars
    <2>2. Pending("generated")' = Pending("generated")
          /\ Pending("accepted")' = Pending("accepted")
      BY <2>1 DEF Pending
    <2>3. CountInv'
      BY <1>1, <2>1 DEF CountInv
    <2>4. /\ Unrecorded'["generated"] = Unrecorded["generated"]
          /\ Unrecorded'["accepted"] = Unrecorded["accepted"]
      BY <2>1, <2>2, UnrecordedFields
    <2> QED
      BY <1>2, <2>3, <2>4, TokensKept
  <1>6. CASE HandleDecode
    <2>1. PICK r, k, a, j : Decodes(r, k, a, j)
      BY <1>6, DecodeEffect
    <2> DEFINE n == Bonus(r) + a
    <2>2. /\ phase = "process"
          /\ UNCHANGED <<phase, recorded, simTime>>
      BY <1>6 DEF HandleDecode, recorderVars
    <2>3. /\ r \in Req /\ k \in Nat /\ a \in Nat /\ n \in Nat /\ a <= n
      <3>1. r \in Req /\ k \in 0..NumSpec /\ a \in 0..k
        BY <2>1 DEF Decodes
      <3>2. Bonus(r) \in 0..1
        BY BonusType
      <3> QED
        BY <3>1, <3>2
    <2>4. /\ outLen' = [outLen EXCEPT ![r] = outLen[r] + n]
          /\ numAccepted' = [numAccepted EXCEPT ![r] = numAccepted[r] + a]
          /\ totals' = Counted(numComputed[r], 1 + k, a, n)
      BY <2>1 DEF Decodes
    <2> HIDE DEF n
    <2>5. /\ SumOver(outLen') = SumOver(outLen) + n
          /\ SumOver(numAccepted') = SumOver(numAccepted) + a
      BY <2>3, <2>4, RequestGains DEF TypeOK
    <2>6. /\ totals'.accepted = totals.accepted + a
          /\ totals'.generated = totals.generated + n
      BY <2>4 DEF Counted
    <2>7. /\ Pending("generated") = totals.generated
          /\ Pending("accepted") = totals.accepted
          /\ Pending("generated")' = totals.generated + n
          /\ Pending("accepted")' = totals.accepted + a
      BY <2>2, <2>6 DEF Pending
    <2>8. totals'.accepted <= totals'.generated
      BY <1>0, <1>1, <2>3, <2>6
    <2>9. CountInv'
      BY <1>1, <2>2, <2>8 DEF CountInv
    <2>10. /\ Unrecorded'["generated"] = Unrecorded["generated"]
           /\ Unrecorded'["accepted"] = Unrecorded["accepted"]
      BY <1>0, <2>2, <2>3, <2>5, <2>7, UnrecordedFields
    <2> QED
      BY <1>2, <2>9, <2>10, TokensKept
  <1>7. CASE DecodeSkipped
    <2>1. UNCHANGED <<phase, totals, recorded, outLen, numAccepted, simTime>>
      BY <1>7 DEF DecodeSkipped, recorderVars, requestVars
    <2>2. CountInv'
      BY <1>1, <2>1 DEF CountInv
    <2>3. /\ Unrecorded'["generated"] = Unrecorded["generated"]
          /\ Unrecorded'["accepted"] = Unrecorded["accepted"]
      BY <2>1, UnrecordedFields DEF Pending
    <2> QED
      BY <1>2, <2>2, <2>3, TokensKept
  <1>8. CASE Account
    <2>1. PICK l : Takes(l)
      BY <1>8, AccountEffect
    <2>2. phase = "process" /\ UNCHANGED <<step, totals, outLen, numAccepted>>
      BY <1>8 DEF Account
    <2>3. l \in Nat /\ simTime' = simTime + l /\ phase' \in {"raised_stall", "cleanup"}
      BY <2>1 DEF Takes
    <2>4. /\ Pending("generated") = totals.generated
          /\ Pending("accepted") = totals.accepted
          /\ Pending("generated")' = 0 /\ Pending("accepted")' = 0
      BY <2>2, <2>3 DEF Pending
    <2>5. CASE phase' = "raised_stall"
      <3>1. recorded' = recorded /\ StallCount >= StallLimit
        BY <2>1, <2>5 DEF Takes
      <3>2. totals.generated = 0
        BY <3>1, ConfigAssumption DEF StallCount, Stalls
      <3>3. totals.accepted = 0
        BY <1>0, <1>1, <3>2
      <3>4. CountInv'
        BY <1>0, <1>1, <2>2, <2>3, <3>1 DEF CountInv
      <3>5. /\ Unrecorded'["generated"] = Unrecorded["generated"]
            /\ Unrecorded'["accepted"] = Unrecorded["accepted"]
        BY <2>2, <2>4, <3>1, <3>2, <3>3, UnrecordedFields
      <3> QED
        BY <1>2, <3>4, <3>5, TokensKept
    <2>6. CASE phase' = "cleanup" /\ step > Warmup
      <3>1. recorded' = RecordStep(l)
        BY <2>1, <2>6 DEF Takes
      <3>2. /\ recorded'.totals.generated = recorded.totals.generated + totals.generated
            /\ recorded'.totals.accepted = recorded.totals.accepted + totals.accepted
            /\ recorded'.busy = recorded.busy + l /\ recorded'.wallClock = simTime + l
        BY <3>1 DEF RecordStep, Zero
      <3>3. recorded'.busy <= recorded'.wallClock /\ recorded'.wallClock <= simTime'
        BY <1>0, <1>1, <2>3, <3>2
      <3>4. CountInv'
        BY <1>1, <2>2, <3>3 DEF CountInv
      <3>5. /\ Unrecorded'["generated"] = Unrecorded["generated"]
            /\ Unrecorded'["accepted"] = Unrecorded["accepted"]
        BY <1>0, <2>2, <2>4, <3>2, UnrecordedFields
      <3> QED
        BY <1>2, <3>4, <3>5, TokensKept
    <2>7. CASE phase' = "cleanup" /\ ~(step > Warmup)
      <3>1. recorded' = recorded
        BY <2>1, <2>7 DEF Takes
      <3>2. CountInv'
        BY <1>0, <1>1, <2>2, <2>3, <3>1 DEF CountInv
      <3>3. /\ Unrecorded["generated"] <= Unrecorded'["generated"]
            /\ Unrecorded["accepted"] <= Unrecorded'["accepted"]
        BY <1>0, <2>2, <2>4, <3>1, UnrecordedFields
      <3>4. ~(step' > Warmup)
        BY <2>2, <2>7
      <3> QED
        BY <3>2, <3>3, <3>4 DEF TokensRecorded, CountInv
    <2> QED
      BY <2>3, <2>5, <2>6, <2>7
  <1>9. CASE FinishStep
    <2>1. PICK done, left : Cleans(done, left)
      BY <1>9, FinishEffect
    <2>2. /\ phase = "cleanup" /\ phase' \in {"idle", "done"}
          /\ UNCHANGED <<totals, outLen, numAccepted, recorded>>
      BY <1>9, <2>1 DEF FinishStep, Cleans
    <2>3. simTime <= simTime'
      <3>1. waiting # <<>> => Head(waiting) \in Req
        BY DEF TypeOK
      <3> QED
        BY <1>0, <2>1, <3>1, RequestsAssumption DEF Cleans, FastForward
    <2>4. /\ Pending("generated") = 0 /\ Pending("accepted") = 0
          /\ Pending("generated")' = 0 /\ Pending("accepted")' = 0
      BY <2>2 DEF Pending
    <2>5. simTime' \in Nat
      BY DEF TypeOK
    <2>6. recorded.wallClock <= simTime'
      BY <1>0, <1>1, <2>3, <2>5
    <2>7. CountInv'
      BY <1>1, <2>2, <2>6 DEF CountInv
    <2>8. /\ Unrecorded'["generated"] = Unrecorded["generated"]
          /\ Unrecorded'["accepted"] = Unrecorded["accepted"]
      BY <2>2, <2>4, UnrecordedFields
    <2> QED
      BY <1>2, <2>7, <2>8, TokensKept
  <1>10. CASE UNCHANGED vars
    BY <1>1, <1>10 DEF vars, loopVars, recorderVars, CountInv
  <1> QED
    BY <1>3, <1>4, <1>5, <1>6, <1>7, <1>8, <1>9, <1>10 DEF Next

\* The report's numerators add up: past the warmup every token a request gains is
\* recorded for its step, once, and the busy time never exceeds the clock.
THEOREM ThroughputAddsUp == Spec => ThroughputAccounted
  <1>1. TypeOK /\ CountInv /\ [Next]_vars => TypeOK' /\ CountInv'
    BY NextTypes, CountNext
  <1>2. TypeOK /\ TypeOK' /\ CountInv /\ [Next]_vars => [TokensRecorded]_vars
    BY CountNext
  <1> QED
    BY InitTypes, CountInit, <1>1, <1>2, PTL DEF Spec, ThroughputAccounted

-----------------------------------------------------------------------------
(* The queue and the batch                                                 *)

Queued(r) == status[r] = "queued"

\* The queue is in order and holds the requests not yet admitted, each once; the
\* batch has at most one request of an id; what a step has left to do is part of
\* the batch, without repetition.
BatchInv ==
    /\ Once(waiting) /\ Ordered(waiting)
    /\ \A r \in Req : r \in Range(waiting) <=> Queued(r)
    /\ \A r \in Req : ~Queued(r) => Arrival[r] <= simTime
    /\ phase = "process" => \A r \in Range(waiting) : Arrival[r] > simTime
    /\ Apart(running)
    /\ \A r \in Range(running) : ~Queued(r)
    /\ Once(todo) /\ Range(todo) \in SUBSET Range(running)
    /\ phase \notin {"process", "raised_oom"} => todo = <<>>

\* Requests of different ids are different.
LEMMA ApartOnce ==
    ASSUME NEW seq \in Seq(Req), Apart(seq)
    PROVE  Once(seq)
  BY DEF Apart, Once

\* What is left of the list of the step, after its head.
LEMMA TodoRest ==
    ASSUME TypeOK, BatchInv, todo # <<>>
    PROVE  /\ Head(todo) \in Range(todo) /\ Head(todo) \in Range(running)
           /\ Head(todo) \in Req
           /\ Once(Tail(todo)) /\ Range(Tail(todo)) \in SUBSET Range(todo)
           /\ Head(todo) \notin Range(Tail(todo))
  <1> DEFINE n == Len(todo)
             t == Tail(todo)
  <1>1. todo \in Seq(Req) /\ Once(todo) /\ Range(todo) \in SUBSET Range(running)
    BY DEF TypeOK, BatchInv
  <1>2. /\ t \in Seq(Req) /\ DOMAIN todo = 1..n /\ n \in Nat \ {0}
        /\ DOMAIN t = 1..(n - 1) /\ \A i \in 1..(n - 1) : t[i] = todo[i + 1]
        /\ Head(todo) = todo[1] /\ Head(todo) \in Req /\ 1 \in DOMAIN todo
    BY <1>1
  <1> HIDE DEF n, t
  <1>3. \A i \in 1..(n - 1) : i + 1 \in 1..n /\ i + 1 # 1
    BY <1>2
  <1>4. \A i, j \in 1..n : todo[i] = todo[j] => i = j
    BY <1>1, <1>2 DEF Once
  <1>5. Head(todo) \in Range(todo)
    BY <1>2 DEF Range
  <1>6. Once(t)
    <2> SUFFICES ASSUME NEW i \in 1..(n - 1), NEW j \in 1..(n - 1), t[i] = t[j]
                 PROVE  i = j
      BY <1>2 DEF Once
    <2>1. i + 1 = j + 1
      BY <1>2, <1>3, <1>4
    <2> QED
      BY <2>1
  <1>7. \A i \in 1..(n - 1) : t[i] \in Range(todo) /\ t[i] # Head(todo)
    BY <1>2, <1>3, <1>4 DEF Range
  <1>8. Range(t) \in SUBSET Range(todo) /\ Head(todo) \notin Range(t)
    BY <1>2, <1>7 DEF Range
  <1> QED
    BY <1>1, <1>2, <1>5, <1>6, <1>8 DEF t

\* load() queues everything, and nothing runs yet.
LEMMA BatchInit == Init => BatchInv
  <1> SUFFICES ASSUME Init PROVE BatchInv
    OBVIOUS
  <1>1. /\ waiting = ByArrival /\ running = <<>> /\ todo = <<>> /\ phase = "idle"
        /\ \A r \in Req : status[r] = "queued"
    BY DEF Init
  <1>2. /\ Once(waiting) /\ Ordered(waiting) /\ Range(waiting) = Req
    BY <1>1, Sorting DEF Once
  <1>3. Range(running) = {} /\ Range(todo) = {} /\ Apart(running) /\ Once(todo)
    BY <1>1 DEF Range, Apart, Once
  <1> QED
    BY <1>1, <1>2, <1>3 DEF BatchInv, Queued

\* An action that leaves the queue and the batch alone and takes the head of the
\* list, if anything, keeps them in order.
LEMMA BatchHandler ==
    ASSUME TypeOK, BatchInv, UNCHANGED <<waiting, running, simTime>>,
           \A r \in Req : Queued(r)' <=> Queued(r),
           phase = "process" /\ phase' \in {"process", "raised_oom"},
           todo # <<>> /\ todo' \in {todo, Tail(todo)}
    PROVE  BatchInv'
  <1>1. Once(todo') /\ Range(todo') \in SUBSET Range(running)
    BY TodoRest DEF BatchInv
  <1>2. Range(running) \in SUBSET Req
    BY DEF TypeOK, Range
  <1> QED
    BY <1>1, <1>2 DEF BatchInv

\* Each action keeps the queue and the batch in order.
LEMMA BatchNext == TypeOK /\ TypeOK' /\ BatchInv /\ [Next]_vars => BatchInv'
  <1> SUFFICES ASSUME TypeOK, TypeOK', BatchInv, [Next]_vars
               PROVE  BatchInv'
    OBVIOUS
  <1>0. /\ simTime \in Nat /\ simTime' \in Nat /\ \A r \in Req : Arrival[r] \in Nat
        /\ Range(running) \in SUBSET Req /\ Range(running') \in SUBSET Req
        /\ Range(waiting) \in SUBSET Req
    BY RequestsAssumption DEF TypeOK, Range
  <1>1. CASE StartStep
    <2>1. PICK adm, rest : Admits(adm, rest)
      BY <1>1, StartEffect
    <2>2. phase' = "process" /\ todo' = running' /\ simTime' = simTime
      BY <1>1 DEF StartStep
    <2>3. /\ waiting' = rest /\ Once(rest) /\ Ordered(rest)
          /\ Range(waiting) = Range(adm) \cup Range(rest)
          /\ Range(adm) \cap Range(rest) = {}
          /\ \A q \in Range(rest) : Arrival[q] > simTime
          /\ \A r \in Range(adm) : Arrival[r] <= simTime
          /\ Apart(running')
          /\ Range(running') \in SUBSET (Range(running) \cup Range(adm))
          /\ status' = [r \in Req |-> IF r \in Range(adm) THEN "prefill" ELSE status[r]]
      BY <2>1 DEF Admits, BatchInv
    <2>4. \A r \in Req : Queued(r)' <=> Queued(r) /\ r \notin Range(adm)
      BY <2>3 DEF Queued
    <2>5. \A r \in Req : r \in Range(waiting') <=> Queued(r)'
      BY <2>3, <2>4 DEF BatchInv
    <2>6. \A r \in Req : ~Queued(r)' => Arrival[r] <= simTime'
      BY <2>2, <2>3, <2>4 DEF BatchInv
    <2>7. \A r \in Range(running') : ~Queued(r)'
      BY <1>0, <2>3, <2>4 DEF BatchInv
    <2>8. Once(running')
      BY <2>3, ApartOnce DEF TypeOK
    <2> QED
      BY <2>2, <2>3, <2>5, <2>6, <2>7, <2>8 DEF BatchInv
  <1>2. CASE HandlePrefill
    <2>1. /\ UNCHANGED <<waiting, running, simTime>> /\ phase = "process"
          /\ phase' = "process" /\ todo # <<>> /\ todo' = Tail(todo)
          /\ status[Head(todo)] = "prefill"
          /\ status' = [status EXCEPT ![Head(todo)] = "decoding"]
      BY <1>2 DEF HandlePrefill
    <2>2. \A r \in Req : Queued(r)' <=> Queued(r)
      BY <2>1, TodoRest DEF Queued, TypeOK
    <2> QED
      BY <2>1, <2>2, BatchHandler
  <1>3. CASE PrefillOutOfMemory
    <2>1. /\ UNCHANGED <<waiting, running, simTime, status, todo>> /\ phase = "process"
          /\ phase' = "raised_oom" /\ todo # <<>>
      BY <1>3 DEF PrefillOutOfMemory
    <2>2. \A r \in Req : Queued(r)' <=> Queued(r)
      BY <2>1 DEF Queued
    <2> QED
      BY <2>1, <2>2, BatchHandler
  <1>4. CASE HandleDecode
    <2>1. PICK r, k, a, j : Decodes(r, k, a, j)
      BY <1>4, DecodeEffect
    <2>2. /\ UNCHANGED <<waiting, running, simTime>> /\ phase = "process"
          /\ phase' = "process" /\ todo # <<>> /\ todo' = Tail(todo)
      BY <1>4 DEF HandleDecode
    <2>3. \A q \in Req : Queued(q)' <=> Queued(q)
      BY <2>1 DEF Decodes, Queued, TypeOK
    <2> QED
      BY <2>2, <2>3, BatchHandler
  <1>5. CASE DecodeSkipped
    <2>1. /\ UNCHANGED <<waiting, running, simTime, status>> /\ phase = "process"
          /\ phase' = "process" /\ todo # <<>> /\ todo' = Tail(todo)
      BY <1>5 DEF DecodeSkipped, requestVars
    <2>2. \A r \in Req : Queued(r)' <=> Queued(r)
      BY <2>1 DEF Queued
    <2> QED
      BY <2>1, <2>2, BatchHandler
  <1>6. CASE Account
    <2>1. PICK l : Takes(l)
      BY <1>6, AccountEffect
    <2>2. /\ UNCHANGED <<waiting, running, status, todo>> /\ todo = <<>>
      BY <1>6 DEF Account
    <2>3. simTime <= simTime' /\ phase' \in {"cleanup", "raised_stall"}
      BY <1>0, <2>1 DEF Takes
    <2>4. \A r \in Req : ~Queued(r) => Arrival[r] <= simTime'
      BY <1>0, <2>3 DEF BatchInv
    <2> QED
      BY <2>2, <2>3, <2>4 DEF BatchInv, Queued
  <1>7. CASE FinishStep
    <2>1. PICK done, left : Cleans(done, left)
      BY <1>7, FinishEffect
    <2>2. /\ UNCHANGED <<waiting, status, todo>> /\ phase = "cleanup"
      BY <1>7 DEF FinishStep
    <2>3. /\ running' = left /\ phase' \in {"idle", "done"}
          /\ simTime' = FastForward(left)
          /\ Range(left) \in SUBSET Range(running) /\ Apart(left)
      BY <2>1 DEF Cleans, BatchInv
    <2>4. simTime <= simTime'
      <3>1. waiting # <<>> => Head(waiting) \in Req
        BY DEF TypeOK
      <3> QED
        BY <1>0, <2>3, <3>1 DEF FastForward
    <2>5. \A r \in Req : ~Queued(r) => Arrival[r] <= simTime'
      BY <1>0, <2>4 DEF BatchInv
    <2>6. todo = <<>> /\ Range(todo) = {}
      BY <2>2 DEF BatchInv, Range
    <2> QED
      BY <2>2, <2>3, <2>5, <2>6 DEF BatchInv, Queued
  <1>8. CASE UNCHANGED vars
    BY <1>8 DEF vars, loopVars, requestVars, BatchInv, Queued
  <1> QED
    BY <1>1, <1>2, <1>3, <1>4, <1>5, <1>6, <1>7, <1>8 DEF Next

-----------------------------------------------------------------------------
(* The order of service, with distinct ids                                 *)

\* The batch is in order of arrival, and ahead of the queue.
OrderInv ==
    /\ Ordered(running)
    /\ \A r \in Range(running), q \in Range(waiting) : Arrival[r] <= Arrival[q]

\* With distinct ids the admitted requests join the batch at its end and none of
\* it is lost.
LEMMA AdmitsAppend ==
    ASSUME DistinctIds, TypeOK, BatchInv, NEW adm, NEW rest, Admits(adm, rest)
    PROVE  /\ Range(running') = Range(running) \cup Range(adm)
           /\ OrderInv => Ordered(running')
  <1> DEFINE m == Len(running)
             n == Len(adm)
             e == running'
  <1>1. /\ running \in Seq(Req) /\ adm \in Seq(Req) /\ Once(adm)
        /\ e = FoldLeft(Entered, running, adm)
        /\ Range(waiting) = Range(adm) \cup Range(rest)
        /\ Ordered(adm)
    BY DEF TypeOK, BatchInv, Admits
  <1>2. Range(running) \cap Range(adm) = {}
    <2>1. \A r \in Range(adm) : r \in Req
      BY <1>1 DEF Range
    <2> QED
      BY <1>1, <2>1 DEF BatchInv
  <1>3. \A i, j \in DOMAIN adm : adm[i] = adm[j] => i = j
    BY <1>1 DEF Once
  <1>4. /\ e \in Seq(Req) /\ Len(e) = m + n
        /\ \A k \in 1..m : e[k] = running[k]
        /\ \A k \in 1..n : e[m + k] = adm[k]
    BY <1>1, <1>2, <1>3, EnteringAppends
  <1>5. /\ m \in Nat /\ n \in Nat /\ DOMAIN running = 1..m /\ DOMAIN adm = 1..n
        /\ DOMAIN e = 1..(m + n)
    BY <1>1, <1>4
  <1> HIDE DEF m, n, e
  <1>6. /\ \A i \in 1..(m + n) : i \in 1..m \/ (i - m \in 1..n /\ m + (i - m) = i)
        /\ \A i \in 1..m : i \in 1..(m + n)
        /\ \A i \in 1..n : m + i \in 1..(m + n)
    BY <1>5
  <1>7. Range(e) = Range(running) \cup Range(adm)
    <2>1. ASSUME NEW i \in 1..(m + n) PROVE e[i] \in Range(running) \cup Range(adm)
      BY <1>4, <1>5, <1>6 DEF Range
    <2>2. ASSUME NEW i \in 1..m PROVE running[i] \in Range(e)
      BY <1>4, <1>5, <1>6 DEF Range
    <2>3. ASSUME NEW i \in 1..n PROVE adm[i] \in Range(e)
      BY <1>4, <1>5, <1>6 DEF Range
    <2> QED
      BY <1>5, <2>1, <2>2, <2>3 DEF Range
  <1>8. ASSUME OrderInv PROVE Ordered(e)
    <2> SUFFICES ASSUME NEW i \in 1..(m + n), NEW j \in 1..(m + n), i < j
                 PROVE  Arrival[e[i]] <= Arrival[e[j]]
      BY <1>5 DEF Ordered
    <2>1. CASE j \in 1..m
      <3>1. i \in 1..m
        BY <1>5, <2>1
      <3> QED
        BY <1>4, <1>5, <1>8, <2>1, <3>1 DEF OrderInv, Ordered
    <2>2. CASE i \in 1..m /\ j - m \in 1..n /\ m + (j - m) = j
      <3>1. e[i] = running[i] /\ e[j] = adm[j - m]
        BY <1>4, <2>2
      <3>2. running[i] \in Range(running) /\ adm[j - m] \in Range(waiting)
        BY <1>1, <1>5, <2>2 DEF Range
      <3> QED
        BY <1>8, <3>1, <3>2 DEF OrderInv
    <2>3. CASE /\ i - m \in 1..n /\ m + (i - m) = i
               /\ j - m \in 1..n /\ m + (j - m) = j
      <3>1. e[i] = adm[i - m] /\ e[j] = adm[j - m] /\ i - m < j - m
        BY <1>4, <1>5, <2>3
      <3> QED
        BY <1>1, <1>5, <2>3, <3>1 DEF Ordered
    <2> QED
      BY <1>6, <2>1, <2>2, <2>3
  <1> QED
    BY <1>7, <1>8 DEF e

\* Nothing runs at first.
LEMMA OrderInit == Init => OrderInv
  BY DEF Init, OrderInv, Ordered, Range

\* Each action keeps the batch in order and ahead of the queue.
LEMMA OrderNext ==
    ASSUME DistinctIds
    PROVE  TypeOK /\ BatchInv /\ OrderInv /\ [Next]_vars => OrderInv'
  <1> SUFFICES ASSUME TypeOK, BatchInv, OrderInv, [Next]_vars
               PROVE  OrderInv'
    OBVIOUS
  <1>1. CASE StartStep
    <2>1. PICK adm, rest : Admits(adm, rest)
      BY <1>1, StartEffect
    <2>2. Range(running') = Range(running) \cup Range(adm) /\ Ordered(running')
      BY <2>1, AdmitsAppend
    <2>3. /\ waiting' = rest /\ Range(waiting) = Range(adm) \cup Range(rest)
          /\ \A r \in Range(adm), q \in Range(rest) : Arrival[r] <= Arrival[q]
      BY <2>1 DEF Admits, BatchInv
    <2> QED
      BY <2>2, <2>3 DEF OrderInv
  <1>2. CASE FinishStep
    <2>1. PICK done, left : Cleans(done, left)
      BY <1>2, FinishEffect
    <2>2. waiting' = waiting
      BY <1>2 DEF FinishStep
    <2>3. running' = left /\ Range(left) \in SUBSET Range(running) /\ Ordered(left)
      BY <2>1 DEF Cleans, OrderInv
    <2> QED
      BY <2>2, <2>3 DEF OrderInv
  <1>3. CASE UNCHANGED <<running, waiting>>
    BY <1>3 DEF OrderInv
  <1>4. HandlePrefill \/ PrefillOutOfMemory \/ HandleDecode \/ DecodeSkipped \/ Account
            \/ UNCHANGED vars => UNCHANGED <<running, waiting>>
    BY DEF HandlePrefill, PrefillOutOfMemory, HandleDecode, DecodeSkipped, Account,
           vars, loopVars
  <1> QED
    BY <1>1, <1>2, <1>3, <1>4 DEF Next

\* Where ids are distinct, requests are served in the order they arrive: nobody
\* before its arrival, nobody left waiting in a step that starts at or after it,
\* and the batch in order.  (A repeated id puts the later request in the place of
\* the earlier one, out of order.)
THEOREM ServiceInOrder ==
    ASSUME DistinctIds
    PROVE  Spec => []ServedInArrivalOrder
  <1>1. TypeOK /\ BatchInv /\ OrderInv /\ [Next]_vars => TypeOK' /\ BatchInv' /\ OrderInv'
    BY NextTypes, BatchNext, OrderNext
  <1>2. TypeOK /\ BatchInv /\ OrderInv => ServedInArrivalOrder
    BY DEF BatchInv, OrderInv, Ordered, Queued, ServedInArrivalOrder
  <1> QED
    BY InitTypes, BatchInit, OrderInit, <1>1, <1>2, PTL DEF Spec

-----------------------------------------------------------------------------
(* Stalled steps                                                           *)

\* Whoever has a prefill to run is still to be handled in the step.  While the
\* stall counter is not zero nobody has; somebody is left for the next step, so
\* the clock does not jump; and a step that has computed nothing has loaded nothing.
StallInv ==
    /\ phase = "process" =>
         \A r \in Range(running) : status[r] = "prefill" => r \in Range(todo)
    /\ stallCount > 0 =>
         /\ \A r \in Range(running) : status[r] # "prefill"
         /\ \A r \in Range(waiting) : Arrival[r] > simTime
         /\ phase # "raised_oom"
         /\ phase = "cleanup" => \E r \in Range(running) : status[r] # "finished"
         /\ phase = "process" /\ totals.computed = 0 => totals.loaded = 0
         /\ stallCount > 1 /\ phase # "process" =>
              totals.loaded = 0 /\ totals.computed = 0

\* Who is not the head of the list is in the rest of it.
LEMMA TodoSplits ==
    ASSUME todo \in Seq(Req), todo # <<>>
    PROVE  \A r \in Range(todo) : r = Head(todo) \/ r \in Range(Tail(todo))
  <1> DEFINE n == Len(todo)
             t == Tail(todo)
  <1>1. /\ DOMAIN todo = 1..n /\ n \in Nat /\ DOMAIN t = 1..(n - 1)
        /\ \A i \in 1..(n - 1) : t[i] = todo[i + 1]
        /\ Head(todo) = todo[1]
    OBVIOUS
  <1> HIDE DEF n, t
  <1>2. ASSUME NEW i \in 1..n, i # 1
        PROVE  todo[i] \in Range(t)
    <2>1. i - 1 \in 1..(n - 1) /\ (i - 1) + 1 = i
      BY <1>1, <1>2
    <2>2. t[i - 1] = todo[i]
      BY <1>1, <2>1
    <2> QED
      BY <1>1, <2>1, <2>2 DEF Range
  <1>3. \A i \in 1..n : todo[i] = Head(todo) \/ todo[i] \in Range(t)
    BY <1>1, <1>2
  <1> QED
    BY <1>1, <1>3 DEF Range, t

\* A handler of the head of the list, after which it has no prefill to run.
LEMMA StallHandler ==
    ASSUME TypeOK, BatchInv, StallInv, phase = "process", todo # <<>>,
           todo' = Tail(todo), UNCHANGED <<phase, running, waiting, simTime, stallCount>>,
           \A q \in Req : q # Head(todo) => status'[q] = status[q],
           status'[Head(todo)] # "prefill",
           stallCount > 0 /\ totals'.computed = 0 => totals'.loaded = 0
    PROVE  StallInv'
  <1>1. Range(running) \in SUBSET Req /\ todo \in Seq(Req)
    BY DEF TypeOK, Range
  <1>2. \A q \in Range(running) :
          status'[q] = "prefill" => status[q] = "prefill" /\ q # Head(todo)
    BY <1>1
  <1>3. \A q \in Range(running) : status'[q] = "prefill" => q \in Range(todo')
    BY <1>1, <1>2, TodoSplits DEF StallInv
  <1> QED
    BY <1>2, <1>3 DEF StallInv

\* Each action keeps that.
LEMMA StallNext ==
    TypeOK /\ TypeOK' /\ BatchInv /\ StallInv /\ [Next]_vars => StallInv'
  <1> SUFFICES ASSUME TypeOK, TypeOK', BatchInv, StallInv, [Next]_vars
               PROVE  StallInv'
    OBVIOUS
  <1>0. /\ simTime \in Nat /\ stallCount \in Nat /\ \A r \in Req : Arrival[r] \in Nat
        /\ Range(running) \in SUBSET Req /\ Range(waiting) \in SUBSET Req
        /\ totals.computed \in Nat
        /\ status \in [Req -> {"queued", "prefill", "decoding", "finished"}]
    <2>1. totals.computed \in Nat
      <3>1. totals \in Counters
        BY DEF TypeOK
      <3> QED
        BY <3>1 DEF Counters
    <2>2. Range(running) \in SUBSET Req /\ Range(waiting) \in SUBSET Req
      <3>1. running \in Seq(Req) /\ waiting \in Seq(Req)
        BY DEF TypeOK
      <3>2. \A s \in Seq(Req) : Range(s) \in SUBSET Req
        BY DEF Range
      <3> QED
        BY <3>1, <3>2
    <2>3. \A r \in Req : Arrival[r] \in Nat
      BY RequestsAssumption
    <2> QED
      BY <2>1, <2>2, <2>3 DEF TypeOK
  <1>1. CASE StartStep
    <2>1. PICK adm, rest : Admits(adm, rest)
      BY <1>1, StartEffect
    <2>2. /\ phase' = "process" /\ todo' = running' /\ totals' = Zero
          /\ UNCHANGED <<simTime, stallCount>>
      BY <1>1 DEF StartStep, Fresh
    <2>3. /\ waiting' = rest /\ Range(waiting) = Range(adm) \cup Range(rest)
          /\ \A r \in Range(adm) : Arrival[r] <= simTime
          /\ Range(running') \in SUBSET (Range(running) \cup Range(adm))
          /\ status' = [r \in Req |-> IF r \in Range(adm) THEN "prefill" ELSE status[r]]
      BY <2>1 DEF Admits, BatchInv
    <2>4. ASSUME stallCount > 0
          PROVE  /\ \A r \in Range(running') : status'[r] # "prefill"
                 /\ \A r \in Range(waiting') : Arrival[r] > simTime
      <3>1. \A r \in Range(waiting) : Arrival[r] > simTime
        BY <2>4 DEF StallInv
      <3>2. Range(adm) = {}
        <4>1. ASSUME NEW r \in Range(adm) PROVE FALSE
          <5>1. r \in Range(waiting) /\ r \in Req /\ Arrival[r] \in Nat
            BY <1>0, <2>3
          <5> QED
            BY <1>0, <2>3, <3>1, <5>1
        <4> QED
          BY <4>1
      <3>3. \A r \in Range(running') : r \in Range(running) /\ r \in Req
        BY <1>0, <2>3, <3>2
      <3> QED
        BY <2>3, <2>4, <3>1, <3>2, <3>3 DEF StallInv
    <2> QED
      BY <2>2, <2>4 DEF StallInv, Zero
  <1>2. CASE HandlePrefill
    <2>1. /\ UNCHANGED <<phase, running, waiting, simTime, stallCount>>
          /\ phase = "process" /\ todo # <<>> /\ todo' = Tail(todo)
          /\ status[Head(todo)] = "prefill"
          /\ status' = [status EXCEPT ![Head(todo)] = "decoding"]
      BY <1>2 DEF HandlePrefill
    <2>2. Head(todo) \in Range(running) /\ Head(todo) \in Req
      BY <2>1, TodoRest
    <2>3. ~(stallCount > 0)
      BY <2>1, <2>2 DEF StallInv
    <2>4. /\ \A q \in Req : q # Head(todo) => status'[q] = status[q]
          /\ status'[Head(todo)] # "prefill"
      BY <1>0, <2>1, <2>2
    <2> QED
      BY <2>1, <2>3, <2>4, StallHandler
  <1>3. CASE PrefillOutOfMemory
    <2>1. /\ phase = "process" /\ phase' = "raised_oom" /\ todo # <<>>
          /\ status[Head(todo)] = "prefill" /\ stallCount' = stallCount
      BY <1>3 DEF PrefillOutOfMemory
    <2>2. Head(todo) \in Range(running)
      BY <2>1, TodoRest
    <2>3. ~(stallCount > 0)
      BY <2>1, <2>2 DEF StallInv
    <2> QED
      BY <2>1, <2>3 DEF StallInv
  <1>4. CASE HandleDecode
    <2>1. PICK r, k, a, j : Decodes(r, k, a, j)
      BY <1>4, DecodeEffect
    <2>2. /\ UNCHANGED <<phase, running, waiting, simTime, stallCount>>
          /\ phase = "process" /\ todo # <<>> /\ todo' = Tail(todo)
      BY <1>4 DEF HandleDecode
    <2>3. /\ r = Head(todo) /\ r \in Req /\ k \in Nat
          /\ \A q \in Req : q # r => status'[q] = status[q]
          /\ status'[r] # "prefill"
      BY <1>0, <2>1 DEF Decodes
    <2>4. totals'.computed = totals.computed + (1 + k)
      BY <2>1 DEF Decodes, Counted
    <2>5. totals'.computed # 0
      BY <1>0, <2>3, <2>4
    <2> QED
      BY <2>2, <2>3, <2>5, StallHandler
  <1>5. CASE DecodeSkipped
    <2>1. /\ UNCHANGED <<phase, running, waiting, simTime, stallCount, status, totals>>
          /\ phase = "process" /\ todo # <<>> /\ todo' = Tail(todo)
          /\ status[Head(todo)] = "decoding"
      BY <1>5 DEF DecodeSkipped, requestVars
    <2>2. stallCount > 0 /\ totals'.computed = 0 => totals'.loaded = 0
      BY <2>1 DEF StallInv
    <2> QED
      BY <2>1, <2>2, StallHandler
  <1>6. CASE Account
    <2>1. /\ phase = "process" /\ todo = <<>> /\ phase' \in {"raised_stall", "cleanup"}
          /\ UNCHANGED <<running, waiting, status, totals>>
          /\ stallCount' = StallCount
          /\ totals.computed = 0 => simTime' = simTime
      <3>1. PICK l \in IF totals.computed > 0 THEN Latencies ELSE {0} :
                simTime' = simTime + l
        BY <1>6 DEF Account
      <3>2. totals.computed = 0 => simTime' = simTime
        BY <1>0, <3>1
      <3> QED
        BY <1>6, <3>2 DEF Account
    <2>2. \A r \in Range(running) : status[r] # "prefill"
      <3>1. Range(todo) = {}
        BY <2>1 DEF Range
      <3> QED
        BY <2>1, <3>1 DEF StallInv
    <2>3. \A r \in Range(waiting) : Arrival[r] > simTime
      BY <2>1 DEF BatchInv
    <2>4. stallCount' > 0 =>
            /\ totals.computed = 0 /\ stallCount' = stallCount + 1
            /\ \E r \in Range(running) : status[r] # "finished"
      BY <2>1 DEF StallCount, Stalls, Active
    <2>5. stallCount' > 1 => stallCount > 0
      BY <1>0, <2>1 DEF StallCount
    <2>6. stallCount' > 1 => totals.loaded = 0 /\ totals.computed = 0
      <3>1. stallCount' > 1 => stallCount' > 0
        BY <1>0, <2>1 DEF StallCount
      <3> QED
        BY <2>1, <2>4, <2>5, <3>1 DEF StallInv
    <2> QED
      BY <2>1, <2>2, <2>3, <2>4, <2>6 DEF StallInv
  <1>7. CASE FinishStep
    <2>1. PICK done, left : Cleans(done, left)
      BY <1>7, FinishEffect
    <2>2. /\ phase = "cleanup" /\ UNCHANGED <<waiting, status, totals, stallCount>>
      BY <1>7 DEF FinishStep
    <2>3. /\ running' = left /\ phase' \in {"idle", "done"}
          /\ Range(left) = {r \in Range(running) : status[r] # "finished"}
          /\ simTime' = FastForward(left)
      BY <2>1 DEF Cleans
    <2>4. stallCount > 0 => simTime' = simTime
      <3>1. stallCount > 0 => Range(left) # {}
        BY <2>2, <2>3 DEF StallInv
      <3>2. left = <<>> => Range(left) = {}
        BY DEF Range
      <3> QED
        BY <2>3, <3>1, <3>2 DEF FastForward
    <2> QED
      BY <2>2, <2>3, <2>4 DEF StallInv
  <1>8. CASE UNCHANGED vars
    BY <1>8 DEF vars, loopVars, requestVars, StallInv
  <1> QED
    BY <1>1, <1>2, <1>3, <1>4, <1>5, <1>6, <1>7, <1>8 DEF Next

\* The stall counter is about refused decodes: while it is not zero everybody who
\* has arrived is in the batch and past its prefill, and from the second step in
\* a row on nothing was read or computed, prompts cached as a whole included (the
\* first of them may be such a prefill).
THEOREM StallsAreDecodes == Spec => []StallsAwaitDecodes
  <1>1. Init => StallInv
    BY DEF Init, StallInv
  <1>2. TypeOK /\ BatchInv /\ StallInv /\ [Next]_vars => TypeOK' /\ BatchInv' /\ StallInv'
    BY NextTypes, BatchNext, StallNext
  <1>3. StallInv => StallsAwaitDecodes
    BY DEF StallInv, StallsAwaitDecodes
  <1> QED
    BY InitTypes, BatchInit, <1>1, <1>2, <1>3, PTL DEF Spec

-----------------------------------------------------------------------------
(* The text of the requests, with distinct ids                             *)

\* A request is queued, in the batch or finished; what the backend holds for it
\* is its text; a request that still decodes has output to come.
TextInv ==
    /\ HeldMatchesText
    /\ DoneMeansAllFinished
    /\ \A r \in Req :
         /\ status[r] \in {"prefill", "decoding"} => r \in Range(running)
         /\ status[r] \in {"queued", "prefill"} => outLen[r] = 0
         /\ status[r] = "decoding" /\ OutLen[r] > 0 => outLen[r] < OutLen[r]

\* What TextInv says of one request, with n tokens computed for it, h held and o
\* put out in status s, in the batch or not.
TextOf(r, s, n, h, o, in) ==
    /\ s \in {"decoding", "finished"} /\ OutLen[r] > 0 => n = PromptLen[r] + o
    /\ in /\ s \in {"decoding", "finished"} => h = n
    /\ ~in => h = 0
    /\ s \in {"prefill", "decoding"} => in
    /\ s \in {"queued", "prefill"} => o = 0
    /\ s = "decoding" /\ OutLen[r] > 0 => o < OutLen[r]

\* TextInv, request by request.
LEMMA TextUnfolded ==
    TextInv <=> /\ DoneMeansAllFinished
                /\ \A r \in Req : TextOf(r, status[r], numComputed[r], held[r],
                                         outLen[r], r \in Range(running))
  BY DEF TextInv, TextOf, HeldMatchesText

\* The same for the next state.
LEMMA TextUnfoldedNext ==
    TextInv' <=> /\ DoneMeansAllFinished'
                 /\ \A r \in Req : TextOf(r, status'[r], numComputed'[r], held'[r],
                                          outLen'[r], r \in Range(running'))
  BY DEF TextInv, TextOf, HeldMatchesText

\* Nothing is held at first.
LEMMA TextInit == Init => TextInv
  <1> SUFFICES ASSUME Init PROVE TextInv
    OBVIOUS
  <1>1. /\ \A r \in Req : status[r] = "queued" /\ held[r] = 0 /\ outLen[r] = 0
        /\ phase = "idle"
    BY DEF Init
  <1> QED
    BY <1>1, TextUnfolded DEF TextOf, DoneMeansAllFinished

\* Each action keeps text and tokens together.
LEMMA TextNext ==
    ASSUME DistinctIds
    PROVE  TypeOK /\ TypeOK' /\ BatchInv /\ TextInv /\ [Next]_vars => TextInv'
  <1> SUFFICES ASSUME TypeOK, TypeOK', BatchInv, TextInv, [Next]_vars
               PROVE  TextInv'
    OBVIOUS
  <1>0. \A r \in Req : TextOf(r, status[r], numComputed[r], held[r], outLen[r],
                              r \in Range(running))
    BY TextUnfolded
  <1>1. CASE StartStep
    <2>1. PICK adm, rest : Admits(adm, rest)
      BY <1>1, StartEffect
    <2>2. Range(running') = Range(running) \cup Range(adm)
      BY <2>1, AdmitsAppend
    <2>3. /\ status' = [r \in Req |-> IF r \in Range(adm) THEN "prefill" ELSE status[r]]
          /\ Range(adm) \in SUBSET Range(waiting)
      BY <2>1 DEF Admits
    <2>4. UNCHANGED <<numComputed, held, outLen>> /\ phase' = "process"
      BY <1>1 DEF StartStep
    <2>5. ASSUME NEW r \in Req
          PROVE  TextOf(r, status'[r], numComputed[r], held[r], outLen[r],
                        r \in Range(running'))
      <3>1. CASE r \in Range(adm)
        <4>1. status[r] = "queued" /\ status'[r] = "prefill" /\ r \in Range(running')
          BY <2>2, <2>3, <3>1 DEF BatchInv, Queued
        <4>2. outLen[r] = 0
          BY <1>0, <4>1 DEF TextOf
        <4> QED
          BY <4>1, <4>2 DEF TextOf
      <3>2. CASE r \notin Range(adm)
        <4>1. status'[r] = status[r] /\ (r \in Range(running') <=> r \in Range(running))
          BY <2>2, <2>3, <3>2
        <4> QED
          BY <1>0, <4>1 DEF TextOf
      <3> QED
        BY <3>1, <3>2
    <2> QED
      BY <2>4, <2>5, TextUnfoldedNext DEF DoneMeansAllFinished
  <1>2. CASE HandlePrefill
    <2> DEFINE q == Head(todo)
    <2>1. /\ numComputed' = [numComputed EXCEPT ![q] = PromptLen[q]]
          /\ held' = [held EXCEPT ![q] = PromptLen[q]]
          /\ status' = [status EXCEPT ![q] = "decoding"]
          /\ status[q] = "prefill" /\ phase' = "process"
          /\ UNCHANGED <<outLen, running>>
      BY <1>2 DEF HandlePrefill
    <2>2. q \in Req /\ q \in Range(running)
      BY <1>2, TodoRest DEF HandlePrefill
    <2> HIDE DEF q
    <2>3. outLen[q] = 0 /\ PromptLen[q] \in Nat /\ OutLen[q] \in Nat
      BY <1>0, <2>1, <2>2, RequestsAssumption DEF TextOf
    <2>4. ASSUME NEW r \in Req
          PROVE  TextOf(r, status'[r], numComputed'[r], held'[r], outLen[r],
                        r \in Range(running))
      <3>1. CASE r = q
        <4>1. /\ status'[r] = "decoding" /\ numComputed'[r] = PromptLen[r]
              /\ held'[r] = PromptLen[r] /\ outLen[r] = 0 /\ r \in Range(running)
              /\ PromptLen[r] = PromptLen[r] + 0
          <5>1. r \in Range(running) /\ outLen[r] = 0 /\ PromptLen[r] = PromptLen[r] + 0
            BY <2>2, <2>3, <3>1
          <5>2. /\ status'[r] = "decoding" /\ numComputed'[r] = PromptLen[r]
                /\ held'[r] = PromptLen[r]
            BY <2>1, <3>1 DEF TypeOK
          <5> QED
            BY <5>1, <5>2
        <4> QED
          BY <4>1 DEF TextOf
      <3>2. CASE r # q
        <4>1. /\ status'[r] = status[r] /\ numComputed'[r] = numComputed[r]
              /\ held'[r] = held[r]
          BY <2>1, <3>2 DEF TypeOK
        <4> QED
          BY <1>0, <4>1
      <3> QED
        BY <3>1, <3>2
    <2> QED
      BY <2>1, <2>4, TextUnfoldedNext DEF DoneMeansAllFinished
  <1>3. CASE PrefillOutOfMemory
    <2> DEFINE q == Head(todo)
    <2>1. PICK n : numComputed' = [numComputed EXCEPT ![q] = n]
      BY <1>3 DEF PrefillOutOfMemory
    <2>2. /\ status[q] = "prefill" /\ phase' = "raised_oom"
          /\ UNCHANGED <<status, held, outLen, running>>
      BY <1>3 DEF PrefillOutOfMemory
    <2> HIDE DEF q
    <2>3. ASSUME NEW r \in Req
          PROVE  TextOf(r, status[r], numComputed'[r], held[r], outLen[r],
                        r \in Range(running))
      <3>1. CASE r = q
        BY <1>0, <2>2, <3>1 DEF TextOf
      <3>2. CASE r # q
        <4>1. numComputed'[r] = numComputed[r]
          BY <2>1, <3>2 DEF TypeOK
        <4> QED
          BY <1>0, <4>1
      <3> QED
        BY <3>1, <3>2
    <2> QED
      BY <2>2, <2>3, TextUnfoldedNext DEF DoneMeansAllFinished
  <1>4. CASE HandleDecode
    <2>1. PICK q, k, a, j : Decodes(q, k, a, j)
      BY <1>4, DecodeEffect
    <2> DEFINE n == Bonus(q) + a
    <2>2. /\ q = Head(todo) /\ q \in Req /\ status[q] = "decoding" /\ a \in 0..k /\ k \in Nat
          /\ numComputed' = [numComputed EXCEPT ![q] = numComputed[q] + 1 + a]
          /\ held' = [held EXCEPT ![q] = held[q] + 1 + a]
          /\ outLen' = [outLen EXCEPT ![q] = outLen[q] + n]
          /\ status' = [status EXCEPT ![q] = IF outLen[q] + n >= OutLen[q]
                                             THEN "finished" ELSE "decoding"]
      BY <2>1 DEF Decodes
    <2>3. phase' = "process" /\ running' = running /\ q \in Range(running)
      BY <1>4, <2>2, TodoRest DEF HandleDecode
    <2>4. /\ numComputed[q] \in Nat /\ outLen[q] \in Nat /\ held[q] \in Nat
          /\ PromptLen[q] \in Nat /\ OutLen[q] \in Nat /\ a \in Nat
      <3>1. q \in Req /\ a \in Nat
        BY <2>2
      <3> QED
        BY <3>1, RequestsAssumption DEF TypeOK
    <2>5. OutLen[q] > 0 => n = 1 + a
      BY <1>0, <2>2, <2>4 DEF TextOf, Bonus
    <2>6. n \in Nat
      BY <2>4, BonusType
    <2> HIDE DEF n
    <2>7. ASSUME NEW r \in Req
          PROVE  TextOf(r, status'[r], numComputed'[r], held'[r], outLen'[r],
                        r \in Range(running))
      <3>1. CASE r = q
        <4>1. /\ numComputed'[r] = numComputed[r] + 1 + a
              /\ held'[r] = held[r] + 1 + a /\ outLen'[r] = outLen[r] + n
              /\ status'[r] = IF outLen[r] + n >= OutLen[r] THEN "finished" ELSE "decoding"
          BY <2>2, <3>1 DEF TypeOK
        <4>2. /\ OutLen[r] > 0 => numComputed[r] = PromptLen[r] + outLen[r]
              /\ held[r] = numComputed[r] /\ r \in Range(running)
          BY <1>0, <2>2, <2>3, <3>1 DEF TextOf
        <4>3. OutLen[r] > 0 => numComputed'[r] = PromptLen[r] + outLen'[r]
          BY <2>4, <2>5, <3>1, <4>1, <4>2
        <4>4. status'[r] = "decoding" => outLen'[r] < OutLen[r]
          BY <2>4, <2>6, <3>1, <4>1
        <4>5. status'[r] \in {"decoding", "finished"} /\ held'[r] = numComputed'[r]
          BY <4>1, <4>2
        <4> QED
          BY <4>2, <4>3, <4>4, <4>5 DEF TextOf
      <3>2. CASE r # q
        <4>1. /\ status'[r] = status[r] /\ numComputed'[r] = numComputed[r]
              /\ held'[r] = held[r] /\ outLen'[r] = outLen[r]
          BY <2>2, <3>2 DEF TypeOK
        <4> QED
          BY <1>0, <4>1
      <3> QED
        BY <3>1, <3>2
    <2> QED
      BY <2>3, <2>7, TextUnfoldedNext DEF DoneMeansAllFinished
  <1>5. CASE FinishStep
    <2>1. PICK done, left : Cleans(done, left)
      BY <1>5, FinishEffect
    <2>2. UNCHANGED <<waiting, status, outLen, numComputed>>
      BY <1>5 DEF FinishStep
    <2>3. /\ running' = left
          /\ Range(done) = {r \in Range(running) : status[r] = "finished"}
          /\ Range(left) = {r \in Range(running) : status[r] # "finished"}
          /\ held' = [r \in Req |-> IF r \in Range(done) THEN 0 ELSE held[r]]
          /\ phase' = IF Remain(left) THEN "idle" ELSE "done"
      BY <2>1 DEF Cleans
    <2>4. ASSUME NEW r \in Req
          PROVE  TextOf(r, status[r], numComputed[r], held'[r], outLen[r],
                        r \in Range(left))
      <3>1. CASE r \in Range(done)
        <4>1. held'[r] = 0 /\ status[r] = "finished" /\ r \notin Range(left)
          BY <2>3, <3>1
        <4> QED
          BY <1>0, <4>1 DEF TextOf
      <3>2. CASE r \notin Range(done)
        <4>1. held'[r] = held[r] /\ (r \in Range(left) <=> r \in Range(running))
          BY <2>3, <3>2
        <4> QED
          BY <1>0, <4>1
      <3> QED
        BY <3>1, <3>2
    <2>5. DoneMeansAllFinished'
      <3> SUFFICES ASSUME phase' = "done", NEW r \in Req
                   PROVE  status[r] = "finished"
        BY <2>2 DEF DoneMeansAllFinished
      <3>1. left = <<>> /\ waiting = <<>>
        BY <2>3 DEF Remain
      <3>2. r \notin Range(left) /\ r \notin Range(waiting)
        BY <3>1 DEF Range
      <3>3. status[r] # "queued"
        BY <3>2 DEF BatchInv, Queued
      <3>4. status[r] \in {"prefill", "decoding"} => r \in Range(running)
        BY <1>0 DEF TextOf
      <3>5. status[r] \in {"queued", "prefill", "decoding", "finished"}
        BY DEF TypeOK
      <3> QED
        BY <2>3, <3>2, <3>3, <3>4, <3>5
    <2> QED
      BY <2>2, <2>3, <2>4, <2>5, TextUnfoldedNext
  <1>6. CASE /\ UNCHANGED <<status, numComputed, held, outLen, running>>
             /\ phase' = "done" => phase = "done"
    BY <1>0, <1>6, TextUnfoldedNext DEF DoneMeansAllFinished, TextInv
  <1>7. DecodeSkipped \/ Account \/ UNCHANGED vars =>
            /\ UNCHANGED <<status, numComputed, held, outLen, running>>
            /\ phase' = "done" => phase = "done"
    <2>1. Account => phase' \in {"raised_stall", "cleanup"}
      BY DEF Account
    <2> QED
      BY <2>1 DEF DecodeSkipped, Account, vars, loopVars, requestVars
  <1> QED
    BY <1>1, <1>2, <1>3, <1>4, <1>5, <1>6, <1>7 DEF Next

\* With distinct ids, what the batch and the queue keep and what is held is
\* inductive.
LEMMA TextInductive ==
    ASSUME DistinctIds
    PROVE  Spec => [](TypeOK /\ BatchInv /\ TextInv)
  <1>1. TypeOK /\ BatchInv /\ TextInv /\ [Next]_vars => TypeOK' /\ BatchInv' /\ TextInv'
    BY NextTypes, BatchNext, TextNext
  <1> QED
    BY InitTypes, BatchInit, TextInit, <1>1, PTL DEF Spec

\* Where ids are distinct, the backend holds between handlers exactly the tokens
\* the scheduler counts as computed for a request, which are those of its text,
\* and nothing for a request that is gone.
THEOREM HoldingsAreText ==
    ASSUME DistinctIds
    PROVE  Spec => []HeldMatchesText
  <1>1. TextInv => HeldMatchesText
    BY DEF TextInv
  <1> QED
    BY TextInductive, <1>1, PTL

\* Where ids are distinct, step() returns False only when every loaded request is
\* finished.  (With a repeated id it does not hold: sched_duplicate_id.)
THEOREM DoneAfterAll ==
    ASSUME DistinctIds
    PROVE  Spec => []DoneMeansAllFinished
  <1>1. TextInv => DoneMeansAllFinished
    BY DEF TextInv
  <1> QED
    BY TextInductive, <1>1, PTL

-----------------------------------------------------------------------------
(* First tokens                                                            *)

Live == phase \in {"idle", "process", "cleanup"}

\* The pass that a prompt costs, unless it was cached as a whole
PrefillCost(r) == IF hits[r] < PromptLen[r] THEN Min(Latencies) ELSE 0

\* The clock has seen the prefill of r.
Paid(r) == Arrival[r] + PrefillCost(r) <= simTime

\* The prefill of r is in the step that is not closed yet.
Closing(r) == /\ phase = "process" /\ totals.computed > 0
              /\ r \notin Range(todo) /\ outLen[r] = 0

\* The first token of r came after its prefill and its first decode.
Timed(r) ==
    /\ firstToken[r] \in Nat /\ firstToken[r] <= simTime
    /\ Arrival[r] + PrefillCost(r) + Min(Latencies) <= firstToken[r]

FirstOf(r) ==
    /\ status[r] \in {"queued", "prefill"} => outLen[r] = 0
    /\ outLen[r] = 0 => firstToken[r] = NoTime /\ r \notin firsts
    /\ Live =>
         /\ status[r] \in {"decoding", "finished"} => Paid(r) \/ Closing(r)
         /\ outLen[r] > 0 => Timed(r) \/ (phase = "process" /\ r \in firsts)
         /\ phase = "process" /\ r \in firsts => Paid(r) /\ totals.computed > 0

\* A request decodes in a later step than it is prefilled in, so its first token
\* has paid for both.
FirstInv == FirstTokenPaid /\ \A r \in Req : FirstOf(r)

\* What the times are made of.
LEMMA TimesAreNumbers ==
    ASSUME TypeOK, NEW r \in Req
    PROVE  /\ Arrival[r] \in Nat /\ PromptLen[r] \in Nat /\ hits[r] \in Nat
           /\ PrefillCost(r) \in Nat /\ PrefillCost(r) \in {0, Min(Latencies)}
           /\ simTime \in Nat /\ outLen[r] \in Nat /\ totals.computed \in Nat
           /\ Min(Latencies) \in Nat
           /\ firstToken[r] \in Nat \cup {NoTime} /\ NoTime \notin Nat
  <1>1. /\ Arrival[r] \in Nat /\ PromptLen[r] \in Nat /\ NoTime \notin Nat
        /\ Min(Latencies) \in Nat
    BY RequestsAssumption, ConfigAssumption, ShortestPass
  <1>2. /\ hits[r] \in Nat /\ simTime \in Nat /\ outLen[r] \in Nat
        /\ totals.computed \in Nat /\ firstToken[r] \in Nat \cup {NoTime}
    BY DEF TypeOK, Counters
  <1> QED
    BY <1>1, <1>2 DEF PrefillCost

\* A request that the handler of another one leaves alone.
Bystander(r) ==
    /\ status'[r] = status[r] /\ outLen'[r] = outLen[r] /\ hits'[r] = hits[r]
    /\ firstToken'[r] = firstToken[r] /\ simTime' = simTime
    /\ r \in firsts' <=> r \in firsts
    /\ phase' = phase /\ phase = "process"
    /\ Range(todo') \in SUBSET Range(todo)
    /\ totals'.computed >= totals.computed

\* For it nothing changes, even if more is computed in the step.
LEMMA FirstOfBystander ==
    ASSUME TypeOK, TypeOK', NEW r \in Req, FirstOf(r), Bystander(r)
    PROVE  FirstOf(r)'
  <1>1. totals.computed \in Nat /\ totals'.computed \in Nat
    BY DEF TypeOK, Counters
  <1>2. /\ status'[r] = status[r] /\ outLen'[r] = outLen[r] /\ hits'[r] = hits[r]
        /\ firstToken'[r] = firstToken[r] /\ simTime' = simTime
        /\ r \in firsts' <=> r \in firsts
        /\ phase' = phase /\ phase = "process"
        /\ r \notin Range(todo) => r \notin Range(todo')
        /\ totals.computed > 0 => totals'.computed > 0
    BY <1>1 DEF Bystander
  <1>3. (Paid(r) => Paid(r)') /\ (Timed(r) => Timed(r)')
    BY <1>2 DEF Paid, Timed, PrefillCost
  <1>4. Closing(r) => Closing(r)'
    BY <1>2 DEF Closing
  <1> QED
    BY <1>2, <1>3, <1>4 DEF FirstOf, Live

\* Nobody has a token at first.
LEMMA FirstInit == Init => FirstInv
  <1> SUFFICES ASSUME Init PROVE FirstInv
    OBVIOUS
  <1>1. /\ records = <<>> /\ firsts = {} /\ phase = "idle"
        /\ \A r \in Req : status[r] = "queued" /\ outLen[r] = 0 /\ firstToken[r] = NoTime
    BY DEF Init
  <1>2. FirstTokenPaid
    BY <1>1 DEF FirstTokenPaid
  <1>3. \A r \in Req : FirstOf(r)
    BY <1>1 DEF FirstOf
  <1> QED
    BY <1>2, <1>3 DEF FirstInv

\* A step starts with the times of the last one.
LEMMA FirstStart ==
    ASSUME TypeOK, BatchInv, FirstInv, StartStep, NEW r \in Req
    PROVE  FirstOf(r)'
  <1>1. PICK adm, rest : Admits(adm, rest)
    BY StartEffect
  <1>2. /\ status' = [q \in Req |-> IF q \in Range(adm) THEN "prefill" ELSE status[q]]
        /\ Range(adm) \in SUBSET Range(waiting)
    BY <1>1 DEF Admits
  <1>3. /\ phase = "idle" /\ phase' = "process" /\ firsts' = {}
        /\ UNCHANGED <<simTime, outLen, firstToken, hits>>
    BY DEF StartStep
  <1>4. status[r] = "queued" => status'[r] \in {"queued", "prefill"}
    BY <1>2
  <1>5. status[r] # "queued" => status'[r] = status[r]
    BY <1>2 DEF BatchInv, Queued
  <1>6. FirstOf(r)
    BY DEF FirstInv
  <1>7. status[r] \in {"decoding", "finished"} => Paid(r)'
    BY <1>3, <1>6 DEF FirstOf, Live, Closing, Paid, PrefillCost
  <1>8. outLen[r] > 0 => Timed(r)'
    BY <1>3, <1>6 DEF FirstOf, Live, Timed, PrefillCost
  <1> QED
    BY <1>3, <1>4, <1>5, <1>6, <1>7, <1>8 DEF FirstOf

\* A prefill is in the step that is not closed, unless its prompt was cached.
LEMMA FirstPrefill ==
    ASSUME TypeOK, TypeOK', BatchInv, FirstInv, HandlePrefill, NEW r \in Req
    PROVE  FirstOf(r)'
  <1> DEFINE q == Head(todo)
  <1>1. PICK h \in Hits[q] :
            /\ hits' = [hits EXCEPT ![q] = h]
            /\ status' = [status EXCEPT ![q] = "decoding"]
            /\ totals' = Counted(h, PromptLen[q] - h, 0, 0)
    BY DEF HandlePrefill
  <1>2. /\ phase = "process" /\ phase' = "process" /\ status[q] = "prefill"
        /\ todo # <<>> /\ todo' = Tail(todo)
        /\ UNCHANGED <<simTime, firsts, outLen, firstToken>>
    BY DEF HandlePrefill
  <1>3. /\ q \in Req /\ q \notin Range(todo')
        /\ Range(todo') \in SUBSET Range(todo)
    BY <1>2, TodoRest
  <1> HIDE DEF q
  <1>4. /\ h \in Nat /\ PromptLen[q] \in Nat /\ PromptLen[q] - h \in Nat
    BY <1>1, <1>3, RequestsAssumption
  <1>5. totals'.computed = totals.computed + (PromptLen[q] - h)
    BY <1>1 DEF Counted
  <1>6. totals.computed \in Nat
    BY DEF TypeOK, Counters
  <1>7. FirstOf(r)
    BY DEF FirstInv
  <1>8. CASE r # q
    <2>1. status'[r] = status[r] /\ hits'[r] = hits[r]
      BY <1>1, <1>8 DEF TypeOK
    <2>2. totals'.computed >= totals.computed
      BY <1>4, <1>5, <1>6
    <2>3. Bystander(r)
      BY <1>2, <1>3, <2>1, <2>2 DEF Bystander
    <2> QED
      BY <1>7, <2>3, FirstOfBystander
  <1>9. CASE r = q
    <2>1. status'[r] = "decoding" /\ hits'[r] = h
      BY <1>1, <1>3, <1>9 DEF TypeOK
    <2>2. outLen[r] = 0 /\ firstToken[r] = NoTime /\ r \notin firsts
      BY <1>2, <1>7, <1>9 DEF FirstOf
    <2>3. CASE h < PromptLen[r]
      <3>1. totals'.computed > 0
        BY <1>4, <1>5, <1>6, <1>9, <2>3
      <3>2. Closing(r)'
        BY <1>2, <1>3, <1>9, <2>2, <3>1 DEF Closing
      <3> QED
        BY <1>2, <2>1, <2>2, <3>2 DEF FirstOf
    <2>4. CASE ~(h < PromptLen[r])
      <3>1. status[r] = "prefill" => Arrival[r] <= simTime
        BY DEF BatchInv, Queued
      <3>2. PrefillCost(r)' = 0
        BY <2>1, <2>4 DEF PrefillCost
      <3>3. Arrival[r] \in Nat /\ Arrival[r] + 0 = Arrival[r]
        BY RequestsAssumption
      <3>4. Paid(r)'
        BY <1>2, <1>9, <3>1, <3>2, <3>3 DEF Paid
      <3> QED
        BY <1>2, <2>1, <2>2, <3>4 DEF FirstOf
    <2> QED
      BY <2>3, <2>4
  <1> QED
    BY <1>8, <1>9

\* A request that decodes has paid for its prefill in an earlier step.
LEMMA FirstDecode ==
    ASSUME TypeOK, TypeOK', BatchInv, FirstInv, HandleDecode, NEW r \in Req
    PROVE  FirstOf(r)'
  <1>1. PICK q, k, a, j : Decodes(q, k, a, j)
    BY DecodeEffect
  <1> DEFINE n == Bonus(q) + a
  <1>2. /\ q = Head(todo) /\ q \in Req /\ status[q] = "decoding" /\ k \in Nat /\ a \in Nat
        /\ outLen' = [outLen EXCEPT ![q] = outLen[q] + n]
        /\ totals' = Counted(numComputed[q], 1 + k, a, n)
        /\ firsts' = IF outLen[q] = 0 /\ n > 0 THEN firsts \cup {q} ELSE firsts
        /\ status' = [status EXCEPT ![q] = IF outLen[q] + n >= OutLen[q]
                                           THEN "finished" ELSE "decoding"]
    BY <1>1 DEF Decodes
  <1>3. /\ phase = "process" /\ phase' = "process"
        /\ todo # <<>> /\ todo' = Tail(todo)
        /\ UNCHANGED <<simTime, firstToken, hits>>
    BY DEF HandleDecode
  <1>4. /\ q \in Range(todo) /\ Range(todo') \in SUBSET Range(todo)
    BY <1>2, <1>3, TodoRest
  <1>5. n \in Nat
    <2>1. Bonus(q) \in 0..1
      BY BonusType
    <2> QED
      BY <1>2, <2>1
  <1> HIDE DEF n
  <1>6. totals'.computed = totals.computed + (1 + k) /\ totals.computed \in Nat
    BY <1>2 DEF Counted, TypeOK, Counters
  <1>7. totals'.computed > 0 /\ totals'.computed >= totals.computed
    BY <1>2, <1>6
  <1>8. FirstOf(r)
    BY DEF FirstInv
  <1>9. CASE r # q
    <2>1. /\ status'[r] = status[r] /\ outLen'[r] = outLen[r]
          /\ r \in firsts' <=> r \in firsts
      BY <1>2, <1>9 DEF TypeOK
    <2>2. Bystander(r)
      BY <1>3, <1>4, <1>7, <2>1 DEF Bystander
    <2> QED
      BY <1>8, <2>2, FirstOfBystander
  <1>10. CASE r = q
    <2>1. /\ status'[r] \in {"decoding", "finished"} /\ outLen'[r] = outLen[r] + n
          /\ outLen[r] \in Nat
      BY <1>2, <1>10 DEF TypeOK
    <2>2. Paid(r)
      BY <1>2, <1>3, <1>4, <1>8, <1>10 DEF FirstOf, Live, Closing
    <2>3. Paid(r)' /\ (Timed(r) => Timed(r)')
      BY <1>3, <2>2 DEF Paid, Timed, PrefillCost
    <2>4. outLen'[r] = 0 => firstToken'[r] = NoTime /\ r \notin firsts'
      <3> SUFFICES ASSUME outLen'[r] = 0
                   PROVE  firstToken'[r] = NoTime /\ r \notin firsts'
        OBVIOUS
      <3>1. outLen[r] = 0 /\ ~(n > 0)
        BY <1>5, <2>1
      <3>2. firsts' = firsts
        BY <1>2, <3>1
      <3>3. firstToken[r] = NoTime /\ r \notin firsts
        BY <1>8, <3>1 DEF FirstOf
      <3> QED
        BY <1>3, <3>2, <3>3
    <2>5. outLen'[r] > 0 => Timed(r)' \/ r \in firsts'
      <3>1. CASE outLen[r] = 0
        BY <1>2, <1>5, <1>10, <2>1, <3>1
      <3>2. CASE outLen[r] > 0
        BY <1>2, <1>3, <1>8, <2>3, <3>2 DEF FirstOf, Live
      <3> QED
        BY <2>1, <3>1, <3>2
    <2> QED
      BY <1>3, <1>7, <2>1, <2>3, <2>4, <2>5 DEF FirstOf, Live
  <1> QED
    BY <1>9, <1>10

\* The latency of the step pays for what it computed.
LEMMA FirstAccount ==
    ASSUME TypeOK, TypeOK', BatchInv, FirstInv, Account, NEW r \in Req
    PROVE  FirstOf(r)'
  <1>1. PICK l : Takes(l)
    BY AccountEffect
  <1>2. /\ phase = "process" /\ UNCHANGED <<totals, firsts, status, outLen, hits>>
    BY DEF Account
  <1>3. /\ l \in Nat /\ (totals.computed > 0 => Min(Latencies) <= l)
        /\ simTime' = simTime + l /\ firstToken' = Stamp(l)
        /\ phase' \in {"cleanup", "raised_stall"}
    BY <1>1, ShortestPass DEF Takes
  <1>4. FirstOf(r)
    BY DEF FirstInv
  <1>5. /\ Arrival[r] \in Nat /\ PrefillCost(r) \in Nat
        /\ PrefillCost(r) \in {0, Min(Latencies)}
        /\ simTime \in Nat /\ outLen[r] \in Nat /\ totals.computed \in Nat
        /\ Min(Latencies) \in Nat
        /\ firstToken[r] \in Nat \cup {NoTime} /\ NoTime \notin Nat
    BY TimesAreNumbers
  <1>6. firstToken'[r] = IF r \in firsts THEN simTime + l ELSE firstToken[r]
    BY <1>3 DEF Stamp
  <1>7. PrefillCost(r)' = PrefillCost(r)
    BY <1>2 DEF PrefillCost
  <1>8. Paid(r) => Paid(r)'
    BY <1>3, <1>5, <1>7 DEF Paid
  <1>9. Closing(r) /\ status[r] # "queued" => Paid(r)'
    <2> SUFFICES ASSUME Closing(r), status[r] # "queued" PROVE Paid(r)'
      OBVIOUS
    <2>1. Arrival[r] <= simTime /\ Min(Latencies) <= l
      BY <1>3 DEF Closing, BatchInv, Queued
    <2> QED
      BY <1>3, <1>5, <1>7, <2>1 DEF Paid
  <1>10. outLen[r] = 0 => firstToken'[r] = NoTime /\ r \notin firsts
    BY <1>4, <1>6 DEF FirstOf
  <1>11. outLen[r] > 0 => Timed(r)'
    <2> SUFFICES ASSUME outLen[r] > 0 PROVE Timed(r)'
      OBVIOUS
    <2>1. CASE r \in firsts
      <3>1. Paid(r) /\ totals.computed > 0
        BY <1>2, <1>4, <2>1 DEF FirstOf, Live
      <3>2. /\ firstToken'[r] = simTime + l /\ Min(Latencies) <= l
            /\ Arrival[r] + PrefillCost(r) <= simTime
        BY <1>3, <1>6, <2>1, <3>1 DEF Paid
      <3> QED
        BY <1>3, <1>5, <1>7, <3>2 DEF Timed
    <2>2. CASE r \notin firsts
      <3>1. Timed(r) /\ firstToken'[r] = firstToken[r]
        BY <1>2, <1>4, <1>6, <2>2 DEF FirstOf, Live
      <3> QED
        BY <1>3, <1>5, <1>7, <3>1 DEF Timed
    <2> QED
      BY <2>1, <2>2
  <1> QED
    BY <1>2, <1>3, <1>4, <1>8, <1>9, <1>10, <1>11 DEF FirstOf, Live

\* A cleanup after the warmup appends a record of each finished request.
LEMMA RecordsAppended ==
    ASSUME TypeOK, NEW done, NEW left, Cleans(done, left), step > Warmup
    PROVE  /\ done \in Seq(Req) /\ Len(done) \in Nat /\ Len(records) \in Nat
           /\ DOMAIN done = 1..Len(done) /\ DOMAIN records = 1..Len(records)
           /\ DOMAIN records' = 1..(Len(records) + Len(done))
           /\ \A k \in 1..Len(records) : records'[k] = records[k]
           /\ \A k \in (Len(records) + 1)..(Len(records) + Len(done)) :
                /\ k - Len(records) \in 1..Len(done)
                /\ records'[k] = RequestRecord(done[k - Len(records)])
  <1> DEFINE new == [k \in DOMAIN done |-> RequestRecord(done[k])]
  <1>1. /\ done \in Seq(Req) /\ Len(done) \in Nat /\ DOMAIN done = 1..Len(done)
        /\ records \in Seq(Record) /\ Len(records) \in Nat
        /\ DOMAIN records = 1..Len(records)
    BY DEF Cleans, TypeOK
  <1>2. records' = records \o new
    BY DEF Cleans
  <1>3. /\ DOMAIN new = 1..Len(done) /\ Len(new) = Len(done)
        /\ new \in Seq(Range(new))
    <2>1. DOMAIN new = 1..Len(done) /\ \A k \in DOMAIN new : new[k] \in Range(new)
      BY <1>1 DEF Range
    <2>2. new = [k \in 1..Len(done) |-> new[k]]
      BY <1>1
    <2> HIDE DEF new
    <2> QED
      BY <1>1, <2>1, <2>2
  <1>4. \A k \in 1..Len(done) : new[k] = RequestRecord(done[k])
    BY <1>1
  <1> HIDE DEF new
  <1>5. /\ DOMAIN (records \o new) = 1..(Len(records) + Len(done))
        /\ \A k \in 1..(Len(records) + Len(done)) :
             (records \o new)[k] = IF k <= Len(records) THEN records[k]
                                   ELSE new[k - Len(records)]
    BY <1>1, <1>3
  <1>6. /\ \A k \in 1..Len(records) : records'[k] = records[k]
        /\ \A k \in (Len(records) + 1)..(Len(records) + Len(done)) :
             k - Len(records) \in 1..Len(done) /\ records'[k] = new[k - Len(records)]
    BY <1>1, <1>2, <1>5
  <1> QED
    BY <1>1, <1>2, <1>4, <1>5, <1>6

\* What the cleanup records, it records of requests that are finished.
LEMMA RecordsGained ==
    ASSUME TypeOK, NEW done, NEW left, Cleans(done, left), NEW i \in DOMAIN records'
    PROVE  \/ i \in DOMAIN records /\ records'[i] = records[i]
           \/ \E r \in Req : /\ status[r] = "finished" /\ r \in Range(running)
                             /\ records'[i] = RequestRecord(r)
  <1>1. CASE ~(step > Warmup)
    BY <1>1 DEF Cleans
  <1>2. CASE step > Warmup
    <2>1. /\ done \in Seq(Req) /\ Len(done) \in Nat /\ Len(records) \in Nat
          /\ DOMAIN done = 1..Len(done) /\ DOMAIN records = 1..Len(records)
          /\ DOMAIN records' = 1..(Len(records) + Len(done))
          /\ \A k \in 1..Len(records) : records'[k] = records[k]
          /\ \A k \in (Len(records) + 1)..(Len(records) + Len(done)) :
               /\ k - Len(records) \in 1..Len(done)
               /\ records'[k] = RequestRecord(done[k - Len(records)])
      BY <1>2, RecordsAppended
    <2>2. CASE i <= Len(records)
      BY <2>1, <2>2
    <2>3. CASE ~(i <= Len(records))
      <3>1. i \in (Len(records) + 1)..(Len(records) + Len(done))
        BY <2>1, <2>3
      <3> DEFINE r == done[i - Len(records)]
      <3>2. r \in Range(done) /\ records'[i] = RequestRecord(r)
        BY <2>1, <3>1 DEF Range
      <3>3. r \in Range(running) /\ status[r] = "finished"
        BY <3>2 DEF Cleans
      <3>4. r \in Req
        BY <3>3 DEF TypeOK, Range
      <3> HIDE DEF r
      <3> QED
        BY <3>2, <3>3, <3>4
    <2> QED
      BY <2>2, <2>3
  <1> QED
    BY <1>1, <1>2

\* The cleanup moves the clock forward, if at all, and goes back to "idle".
LEMMA CleanupClock ==
    ASSUME TypeOK, FinishStep
    PROVE  /\ simTime <= simTime' /\ simTime \in Nat /\ simTime' \in Nat
           /\ phase = "cleanup" /\ phase' \in {"idle", "done"}
  <1>1. PICK done, left : Cleans(done, left)
    BY FinishEffect
  <1>2. waiting # <<>> => Head(waiting) \in Req
    BY DEF TypeOK
  <1>3. simTime \in Nat
    BY DEF TypeOK
  <1>4. waiting # <<>> => Arrival[Head(waiting)] \in Nat
    BY <1>2, RequestsAssumption
  <1>5. simTime' = IF left = <<>> /\ waiting # <<>> /\ Arrival[Head(waiting)] > simTime
                   THEN Arrival[Head(waiting)] ELSE simTime
    BY <1>1 DEF Cleans, FastForward
  <1>6. simTime' \in Nat /\ simTime <= simTime'
    BY <1>3, <1>4, <1>5
  <1>7. phase = "cleanup" /\ phase' \in {"idle", "done"}
    BY <1>1 DEF FinishStep, Cleans
  <1> QED
    BY <1>3, <1>6, <1>7

\* One record of FirstTokenPaid.
PaidRecord(q) ==
    LET passes == IF q.hits < PromptLen[q.req] THEN 2 ELSE 1
    IN IF q.output = 0 THEN q.ttft = NoTime
       ELSE passes * Min(Latencies) <= q.ttft /\ q.ttft <= q.latency

\* A request that finishes between the steps is recorded with the time it took.
LEMMA RecordIsPaid ==
    ASSUME TypeOK, NEW r \in Req, FirstOf(r), phase = "cleanup"
    PROVE  PaidRecord(RequestRecord(r))
  <1>1. /\ Arrival[r] \in Nat /\ PromptLen[r] \in Nat /\ hits[r] \in Nat
        /\ PrefillCost(r) = IF hits[r] < PromptLen[r] THEN Min(Latencies) ELSE 0
        /\ simTime \in Nat /\ outLen[r] \in Nat /\ Min(Latencies) \in Nat
        /\ NoTime \notin Nat
    BY TimesAreNumbers DEF PrefillCost
  <1> DEFINE q == RequestRecord(r)
  <1>2. /\ q.req = r /\ q.hits = hits[r] /\ q.output = outLen[r]
        /\ q.ttft = IF firstToken[r] = NoTime THEN NoTime
                    ELSE firstToken[r] - Arrival[r]
        /\ q.latency = simTime - Arrival[r]
    BY DEF RequestRecord
  <1> HIDE DEF q
  <1>3. CASE outLen[r] = 0
    <2>1. firstToken[r] = NoTime
      BY <1>3 DEF FirstOf
    <2> QED
      BY <1>2, <1>3, <2>1 DEF PaidRecord, q
  <1>4. CASE outLen[r] > 0
    <2>1. Timed(r)
      BY <1>4 DEF FirstOf, Live
    <2>2. /\ firstToken[r] \in Nat /\ firstToken[r] <= simTime
          /\ Arrival[r] + PrefillCost(r) + Min(Latencies) <= firstToken[r]
      BY <2>1 DEF Timed
    <2>3. q.ttft = firstToken[r] - Arrival[r] /\ q.ttft <= q.latency
      BY <1>1, <1>2, <2>2
    <2>4. PrefillCost(r) + Min(Latencies) <= q.ttft
      BY <1>1, <2>2, <2>3
    <2>5. CASE hits[r] < PromptLen[r]
      <3>1. 2 * Min(Latencies) <= q.ttft
        BY <1>1, <2>4, <2>5
      <3> QED
        BY <1>2, <1>4, <2>3, <2>5, <3>1 DEF PaidRecord, q
    <2>6. CASE ~(hits[r] < PromptLen[r])
      <3>1. 1 * Min(Latencies) <= q.ttft
        BY <1>1, <2>4, <2>6
      <3> QED
        BY <1>2, <1>4, <2>3, <2>6, <3>1 DEF PaidRecord, q
    <2> QED
      BY <2>5, <2>6
  <1> QED
    BY <1>1, <1>3, <1>4

\* Each action keeps the times of the first tokens, and of the records.
LEMMA FirstNext ==
    TypeOK /\ TypeOK' /\ BatchInv /\ FirstInv /\ [Next]_vars => FirstInv'
  <1> SUFFICES ASSUME TypeOK, TypeOK', BatchInv, FirstInv, [Next]_vars
               PROVE  FirstInv'
    OBVIOUS
  <1>1. \A r \in Req : FirstOf(r)
    BY DEF FirstInv
  <1>2. \A i \in DOMAIN records : PaidRecord(records[i])
    BY DEF FirstInv, FirstTokenPaid, PaidRecord
  <1>3. ASSUME \A r \in Req : FirstOf(r)',
               \A i \in DOMAIN records' : PaidRecord(records'[i])
        PROVE  FirstInv'
    BY <1>3 DEF FirstInv, FirstTokenPaid, PaidRecord
  <1>4. ASSUME \A r \in Req : FirstOf(r)', records' = records
        PROVE  FirstInv'
    BY <1>2, <1>3, <1>4
  <1>5. CASE StartStep
    <2>1. records' = records
      BY <1>5 DEF StartStep, recorderVars
    <2> QED
      BY <1>4, <1>5, <2>1, FirstStart
  <1>6. CASE HandlePrefill
    <2>1. records' = records
      BY <1>6 DEF HandlePrefill, recorderVars
    <2> QED
      BY <1>4, <1>6, <2>1, FirstPrefill
  <1>7. CASE PrefillOutOfMemory
    <2>1. /\ UNCHANGED <<status, outLen, firstToken, firsts, records>>
          /\ phase' = "raised_oom"
      BY <1>7 DEF PrefillOutOfMemory, recorderVars
    <2>2. \A r \in Req : FirstOf(r)'
      BY <1>1, <2>1 DEF FirstOf, Live
    <2> QED
      BY <1>4, <2>1, <2>2
  <1>8. CASE HandleDecode
    <2>1. records' = records
      BY <1>8 DEF HandleDecode, recorderVars
    <2> QED
      BY <1>4, <1>8, <2>1, FirstDecode
  <1>9. CASE DecodeSkipped
    <2>1. /\ todo # <<>> /\ todo' = Tail(todo) /\ phase = "process"
          /\ UNCHANGED <<phase, simTime, totals, firsts, status, outLen, hits,
                         firstToken, records>>
      BY <1>9 DEF DecodeSkipped, requestVars, recorderVars
    <2>2. Range(todo') \in SUBSET Range(todo)
      BY <2>1, TodoRest
    <2>3. totals'.computed >= totals.computed
      BY <2>1 DEF TypeOK, Counters
    <2>4. \A r \in Req : Bystander(r)
      BY <2>1, <2>2, <2>3 DEF Bystander
    <2>5. \A r \in Req : FirstOf(r)'
      BY <1>1, <2>4, FirstOfBystander
    <2> QED
      BY <1>4, <2>1, <2>5
  <1>10. CASE Account
    <2>1. records' = records
      BY <1>10 DEF Account
    <2> QED
      BY <1>4, <1>10, <2>1, FirstAccount
  <1>11. CASE FinishStep
    <2>1. PICK done, left : Cleans(done, left)
      BY <1>11, FinishEffect
    <2>2. /\ simTime <= simTime' /\ simTime \in Nat /\ simTime' \in Nat
          /\ phase = "cleanup" /\ phase' \in {"idle", "done"}
          /\ UNCHANGED <<status, outLen, firstToken, firsts, hits>>
      BY <1>11, CleanupClock DEF FinishStep
    <2>3. ASSUME NEW r \in Req PROVE FirstOf(r)'
      <3>1. /\ FirstOf(r) /\ Arrival[r] \in Nat /\ PrefillCost(r) \in Nat
            /\ firstToken[r] \in Nat \cup {NoTime}
        BY <1>1, TimesAreNumbers
      <3>2. PrefillCost(r)' = PrefillCost(r)
        BY <2>2 DEF PrefillCost
      <3>3. (Paid(r) => Paid(r)') /\ (Timed(r) => Timed(r)')
        BY <2>2, <3>1, <3>2 DEF Paid, Timed
      <3> QED
        BY <2>2, <3>1, <3>3 DEF FirstOf, Live, Closing
    <2>4. ASSUME NEW i \in DOMAIN records' PROVE PaidRecord(records'[i])
      <3>1. CASE i \in DOMAIN records /\ records'[i] = records[i]
        BY <1>2, <3>1
      <3>2. CASE \E r \in Req : /\ status[r] = "finished" /\ r \in Range(running)
                                /\ records'[i] = RequestRecord(r)
        BY <1>1, <2>2, <3>2, RecordIsPaid
      <3> QED
        BY <2>1, <2>4, <3>1, <3>2, RecordsGained
    <2> QED
      BY <1>3, <2>3, <2>4
  <1>12. CASE UNCHANGED vars
    <2>1. UNCHANGED <<phase, todo, simTime, totals, firsts, status, outLen, hits,
                      firstToken, records>>
      BY <1>12 DEF vars, loopVars, requestVars, recorderVars
    <2>2. ASSUME NEW r \in Req PROVE FirstOf(r)'
      <3>1. /\ FirstOf(r) /\ (Paid(r)' <=> Paid(r)) /\ (Timed(r)' <=> Timed(r))
            /\ Closing(r)' <=> Closing(r)
        BY <1>1, <2>1 DEF Paid, Timed, Closing, PrefillCost
      <3> QED
        BY <2>1, <3>1 DEF FirstOf, Live
    <2> QED
      BY <1>4, <2>1, <2>2
  <1> QED
    BY <1>5, <1>6, <1>7, <1>8, <1>9, <1>10, <1>11, <1>12 DEF Next

\* A first token costs the forward passes it took, whatever the ids, the hits and
\* the refusals: a prefill unless the whole prompt was cached, and a decode.
THEOREM FirstTokensPaid == Spec => []FirstTokenPaid
  <1>1. TypeOK /\ BatchInv /\ FirstInv /\ [Next]_vars
            => TypeOK' /\ BatchInv' /\ FirstInv'
    BY NextTypes, BatchNext, FirstNext
  <1>2. FirstInv => FirstTokenPaid
    BY DEF FirstInv
  <1> QED
    BY InitTypes, BatchInit, FirstInit, <1>1, <1>2, PTL DEF Spec

-----------------------------------------------------------------------------
(* The pace of the decodes                                                 *)

\* Products of the least latency: the facts about them that the provers need.
LEMMA PaceArithmetic ==
    ASSUME NEW m \in Nat, NEW p \in Nat, NEW o \in Int, NEW t \in Int, m * o <= t * p
    PROVE  /\ \A n \in 0..p : m * (o + n) <= (t + m) * p
           /\ \A l \in Nat : m * o <= (t + l) * p
  <1>1. ASSUME NEW n \in 0..p PROVE m * (o + n) <= (t + m) * p
    <2>1. m * (o + n) = m * o + m * n /\ (t + m) * p = t * p + m * p
      OBVIOUS
    <2>2. m * n <= m * p
      <3>1. p - n \in Nat /\ m * (p - n) \in Nat
        OBVIOUS
      <3>2. m * (p - n) = m * p - m * n
        OBVIOUS
      <3> QED
        BY <3>1, <3>2
    <2>3. m * o \in Int /\ m * n \in Int /\ t * p \in Int /\ m * p \in Int
      OBVIOUS
    <2> QED
      BY <2>1, <2>2, <2>3
  <1>2. ASSUME NEW l \in Nat PROVE m * o <= (t + l) * p
    <2>1. (t + l) * p = t * p + l * p /\ l * p \in Nat
      OBVIOUS
    <2>2. m * o \in Int /\ t * p \in Int
      OBVIOUS
    <2> QED
      BY <2>1, <2>2
  <1> QED
    BY <1>1, <1>2

PerPass == 1 + NumSpec

\* At a time, the tokens of r after those of one pass have had a pass for every
\* PerPass of them.
Behind(r, time) ==
    Min(Latencies) * (outLen[r] - PerPass) <= (time - firstToken[r]) * PerPass

\* So they have now, or when the step takes one more pass.
Slow(r) == Behind(r, simTime)
NearlySlow(r) == Behind(r, simTime + Min(Latencies))

\* A request that has decoded in the step not closed yet may be one pass ahead
\* of the clock, a request without a time is in its first pass.
PaceOf(r) ==
    /\ Live /\ firstToken[r] # NoTime =>
         \/ Slow(r)
         \/ /\ phase = "process" /\ r \notin Range(todo) /\ totals.computed > 0
            /\ NearlySlow(r)
    /\ phase = "process" /\ r \in firsts => outLen[r] <= PerPass /\ r \notin Range(todo)

\* One record of DecodePace.
PaceRecord(q) ==
    q.output > 1 => Min(Latencies) * (q.output - PerPass)
                        <= (q.latency - q.ttft) * PerPass

\* Every request keeps the pace, and so does every record.
PaceInv == DecodePace /\ \A r \in Req : PaceOf(r)

\* A later time is an earlier one and what has passed since.
LEMMA LaterBy ==
    ASSUME NEW now \in Nat, NEW then \in Nat, now <= then
    PROVE  \E l \in Nat : now + l = then
  <1>1. then - now \in Nat /\ now + (then - now) = then
    OBVIOUS
  <1> QED
    BY <1>1

\* PaceArithmetic, for a request with a first token.
LEMMA PaceSteps ==
    ASSUME TypeOK, NEW r \in Req, firstToken[r] # NoTime, NEW time \in Int, Behind(r, time)
    PROVE  /\ \A n \in 0..PerPass :
                 Min(Latencies) * ((outLen[r] + n) - PerPass)
                     <= ((time + Min(Latencies)) - firstToken[r]) * PerPass
           /\ \A l \in Nat :
                 Min(Latencies) * (outLen[r] - PerPass)
                     <= ((time + l) - firstToken[r]) * PerPass
  <1> DEFINE m == Min(Latencies)
             o == outLen[r] - PerPass
             t == time - firstToken[r]
  <1>1. m \in Nat /\ PerPass \in Nat /\ outLen[r] \in Nat /\ firstToken[r] \in Nat
    BY TimesAreNumbers, ConfigAssumption DEF PerPass
  <1>2. o \in Int /\ t \in Int
    BY <1>1
  <1>3. m * o <= t * PerPass
    BY DEF Behind
  <1>4. \A n \in 0..PerPass : (outLen[r] + n) - PerPass = o + n
    BY <1>1
  <1>5. /\ (time + m) - firstToken[r] = t + m
        /\ \A l \in Nat : (time + l) - firstToken[r] = t + l
    BY <1>1
  <1> HIDE DEF m, o, t
  <1>6. /\ \A n \in 0..PerPass : m * (o + n) <= (t + m) * PerPass
        /\ \A l \in Nat : m * o <= (t + l) * PerPass
    BY <1>1, <1>2, <1>3, PaceArithmetic
  <1>7. \A n \in 0..PerPass : m * ((outLen[r] + n) - PerPass)
                                  <= ((time + m) - firstToken[r]) * PerPass
    BY <1>4, <1>5, <1>6
  <1>8. \A l \in Nat : m * o <= ((time + l) - firstToken[r]) * PerPass
    BY <1>5, <1>6
  <1> QED
    BY <1>7, <1>8 DEF m, o

\* A request that finishes between the steps is recorded with its pace.
LEMMA RecordIsSlow ==
    ASSUME TypeOK, NEW r \in Req, FirstOf(r), PaceOf(r), phase = "cleanup"
    PROVE  PaceRecord(RequestRecord(r))
  <1> DEFINE q == RequestRecord(r)
  <1>1. /\ Arrival[r] \in Nat /\ simTime \in Nat /\ outLen[r] \in Nat
        /\ NoTime \notin Nat
    BY TimesAreNumbers
  <1>2. /\ q.output = outLen[r] /\ q.latency = simTime - Arrival[r]
        /\ q.ttft = IF firstToken[r] = NoTime THEN NoTime
                    ELSE firstToken[r] - Arrival[r]
    BY DEF RequestRecord
  <1> HIDE DEF q
  <1>3. CASE outLen[r] > 1
    <2>1. firstToken[r] \in Nat
      <3>1. outLen[r] > 0
        BY <1>1, <1>3
      <3>2. Timed(r)
        BY <3>1 DEF FirstOf, Live
      <3> QED
        BY <3>2 DEF Timed
    <2>2. Behind(r, simTime)
      BY <1>1, <2>1 DEF PaceOf, Live, Slow
    <2>3. q.latency - q.ttft = simTime - firstToken[r]
      BY <1>1, <1>2, <2>1
    <2> QED
      BY <1>2, <2>2, <2>3 DEF PaceRecord, Behind, q
  <1>4. CASE ~(outLen[r] > 1)
    BY <1>2, <1>4 DEF PaceRecord, q
  <1> QED
    BY <1>3, <1>4

\* For a request that another one's handler leaves alone nothing changes.
LEMMA PaceOfBystander ==
    ASSUME TypeOK, TypeOK', NEW r \in Req, PaceOf(r), Bystander(r)
    PROVE  PaceOf(r)'
  <1>1. totals.computed \in Nat /\ totals'.computed \in Nat
    BY DEF TypeOK, Counters
  <1>2. /\ outLen'[r] = outLen[r] /\ firstToken'[r] = firstToken[r]
        /\ simTime' = simTime /\ (r \in firsts' <=> r \in firsts)
        /\ phase' = phase /\ phase = "process"
        /\ r \notin Range(todo) => r \notin Range(todo')
        /\ totals.computed > 0 => totals'.computed > 0
    BY <1>1 DEF Bystander
  <1>3. (Slow(r) => Slow(r)') /\ (NearlySlow(r) => NearlySlow(r)')
    BY <1>2 DEF Slow, NearlySlow, Behind
  <1> QED
    BY <1>2, <1>3 DEF PaceOf, Live

\* A decode is at most PerPass tokens ahead of the clock, once in a step.
LEMMA PaceDecode ==
    ASSUME TypeOK, TypeOK', BatchInv, FirstInv, HandleDecode, NEW r \in Req, PaceOf(r)
    PROVE  PaceOf(r)'
  <1>1. PICK q, k, a, j : Decodes(q, k, a, j)
    BY DecodeEffect
  <1> DEFINE n == Bonus(q) + a
  <1>2. /\ q = Head(todo) /\ q \in Req /\ status[q] = "decoding"
        /\ k \in 0..NumSpec /\ a \in 0..k
        /\ outLen' = [outLen EXCEPT ![q] = outLen[q] + n]
        /\ totals' = Counted(numComputed[q], 1 + k, a, n)
        /\ firsts' = IF outLen[q] = 0 /\ n > 0 THEN firsts \cup {q} ELSE firsts
        /\ status' = [status EXCEPT ![q] = IF outLen[q] + n >= OutLen[q]
                                           THEN "finished" ELSE "decoding"]
    BY <1>1 DEF Decodes
  <1>3. /\ phase = "process" /\ phase' = "process"
        /\ todo # <<>> /\ todo' = Tail(todo)
        /\ UNCHANGED <<simTime, firstToken, hits>>
    BY DEF HandleDecode
  <1>4. /\ q \in Range(todo) /\ Range(todo') \in SUBSET Range(todo)
        /\ q \notin Range(todo')
    BY <1>2, <1>3, TodoRest
  <1>5. n \in 0..PerPass /\ PerPass \in Nat
    <2>1. Bonus(q) \in 0..1
      BY BonusType
    <2> QED
      BY <1>2, <2>1, ConfigAssumption DEF PerPass
  <1> HIDE DEF n
  <1>6. totals'.computed = totals.computed + (1 + k) /\ totals.computed \in Nat
    BY <1>2 DEF Counted, TypeOK, Counters
  <1>7. totals'.computed > 0 /\ totals'.computed >= totals.computed
    BY <1>2, <1>6, ConfigAssumption
  <1>8. CASE r # q
    <2>1. /\ status'[r] = status[r] /\ outLen'[r] = outLen[r]
          /\ r \in firsts' <=> r \in firsts
      BY <1>2, <1>8 DEF TypeOK
    <2>2. Bystander(r)
      BY <1>3, <1>4, <1>7, <2>1 DEF Bystander
    <2> QED
      BY <2>2, PaceOfBystander
  <1>9. CASE r = q
    <2>1. outLen'[r] = outLen[r] + n /\ outLen[r] \in Nat
      BY <1>2, <1>9 DEF TypeOK
    <2>2. r \notin firsts
      BY <1>3, <1>4, <1>9 DEF PaceOf
    <2>3. r \in firsts' => outLen'[r] <= PerPass
      <3> SUFFICES ASSUME r \in firsts' PROVE outLen'[r] <= PerPass
        OBVIOUS
      <3>1. outLen[r] = 0
        BY <1>2, <1>9, <2>2
      <3> QED
        BY <1>5, <2>1, <3>1
    <2>4. firstToken[r] # NoTime => NearlySlow(r)'
      <3> SUFFICES ASSUME firstToken[r] # NoTime PROVE NearlySlow(r)'
        OBVIOUS
      <3>1. Slow(r)
        BY <1>3, <1>4, <1>9 DEF PaceOf, Live
      <3>2. simTime \in Int
        BY DEF TypeOK
      <3>3. Min(Latencies) * ((outLen[r] + n) - PerPass)
                <= ((simTime + Min(Latencies)) - firstToken[r]) * PerPass
        BY <1>5, <3>1, <3>2, PaceSteps DEF Slow
      <3> QED
        BY <1>3, <2>1, <3>3 DEF NearlySlow, Behind
    <2> QED
      BY <1>3, <1>4, <1>7, <1>9, <2>3, <2>4 DEF PaceOf, Live
  <1> QED
    BY <1>8, <1>9

\* The latency of the step pays for the pass that was ahead of the clock.
LEMMA PaceAccount ==
    ASSUME TypeOK, TypeOK', BatchInv, FirstInv, Account, NEW r \in Req, PaceOf(r)
    PROVE  PaceOf(r)'
  <1>1. PICK l : Takes(l)
    BY AccountEffect
  <1>2. /\ phase = "process" /\ UNCHANGED <<totals, firsts, outLen>>
    BY DEF Account
  <1>3. /\ l \in Nat /\ (totals.computed > 0 => Min(Latencies) <= l)
        /\ simTime' = simTime + l /\ firstToken' = Stamp(l)
        /\ phase' \in {"cleanup", "raised_stall"}
    BY <1>1, ShortestPass DEF Takes
  <1>4. firstToken'[r] = IF r \in firsts THEN simTime + l ELSE firstToken[r]
    BY <1>3 DEF Stamp
  <1>5. /\ simTime \in Nat /\ outLen[r] \in Nat /\ Min(Latencies) \in Nat
        /\ firstToken[r] \in Nat \cup {NoTime} /\ PerPass \in Nat
    BY TimesAreNumbers, ConfigAssumption DEF PerPass
  <1>6. CASE r \in firsts
    <2>1. outLen[r] - PerPass <= 0
      BY <1>2, <1>5, <1>6 DEF PaceOf
    <2>2. Min(Latencies) * (outLen[r] - PerPass) <= 0
      <3> DEFINE m == Min(Latencies)
                 o == PerPass - outLen[r]
      <3>1. m \in Nat /\ o \in Nat /\ outLen[r] - PerPass = -o
        BY <1>5, <2>1
      <3> HIDE DEF m, o
      <3>2. m * o \in Nat /\ m * (-o) = -(m * o)
        BY <3>1
      <3>3. m * (-o) <= 0
        BY <3>2
      <3> QED
        BY <3>1, <3>3 DEF m
    <2>3. simTime' - firstToken'[r] = 0 /\ 0 * PerPass = 0
      BY <1>3, <1>4, <1>5, <1>6
    <2>4. Slow(r)'
      BY <1>2, <2>2, <2>3 DEF Slow, Behind
    <2> QED
      BY <1>3, <2>4 DEF PaceOf, Live
  <1>7. CASE r \notin firsts
    <2> SUFFICES ASSUME firstToken[r] # NoTime PROVE Slow(r)'
      BY <1>3, <1>4, <1>7 DEF PaceOf, Live
    <2>1. CASE Slow(r)
      <3>1. Min(Latencies) * (outLen[r] - PerPass)
                <= ((simTime + l) - firstToken[r]) * PerPass
        BY <1>3, <1>5, <2>1, PaceSteps DEF Slow
      <3> QED
        BY <1>2, <1>3, <1>4, <1>7, <3>1 DEF Slow, Behind
    <2>2. CASE totals.computed > 0 /\ NearlySlow(r)
      <3> DEFINE more == l - Min(Latencies)
                 ahead == simTime + Min(Latencies)
      <3>1. more \in Nat /\ ahead \in Int /\ ahead + more = simTime + l
        BY <1>3, <1>5, <2>2
      <3>2. Behind(r, ahead)
        BY <2>2 DEF NearlySlow
      <3> HIDE DEF more, ahead
      <3>3. Min(Latencies) * (outLen[r] - PerPass)
                <= ((ahead + more) - firstToken[r]) * PerPass
        BY <3>1, <3>2, PaceSteps
      <3> QED
        BY <1>2, <1>3, <1>4, <1>7, <3>1, <3>3 DEF Slow, Behind
    <2> QED
      BY <1>2, <2>1, <2>2 DEF PaceOf, Live
  <1> QED
    BY <1>6, <1>7

\* Nobody has a time at first.
LEMMA PaceInit == Init => PaceInv
  <1> SUFFICES ASSUME Init PROVE PaceInv
    OBVIOUS
  <1>1. /\ records = <<>> /\ firsts = {} /\ phase = "idle"
        /\ \A r \in Req : firstToken[r] = NoTime
    BY DEF Init
  <1>2. DecodePace
    BY <1>1 DEF DecodePace
  <1>3. \A r \in Req : PaceOf(r)
    BY <1>1 DEF PaceOf
  <1> QED
    BY <1>2, <1>3 DEF PaceInv

\* Each action keeps the pace.
LEMMA PaceNext ==
    TypeOK /\ TypeOK' /\ BatchInv /\ FirstInv /\ PaceInv /\ [Next]_vars => PaceInv'
  <1> SUFFICES ASSUME TypeOK, TypeOK', BatchInv, FirstInv, PaceInv, [Next]_vars
               PROVE  PaceInv'
    OBVIOUS
  <1>1. \A r \in Req : PaceOf(r) /\ FirstOf(r)
    BY DEF PaceInv, FirstInv
  <1>2. \A i \in DOMAIN records : PaceRecord(records[i])
    BY DEF PaceInv, DecodePace, PaceRecord, PerPass
  <1>3. ASSUME \A r \in Req : PaceOf(r)',
               \A i \in DOMAIN records' : PaceRecord(records'[i])
        PROVE  PaceInv'
    BY <1>3 DEF PaceInv, DecodePace, PaceRecord, PerPass
  <1>4. ASSUME \A r \in Req : PaceOf(r)', records' = records
        PROVE  PaceInv'
    BY <1>2, <1>3, <1>4
  <1>5. CASE StartStep
    <2>1. /\ phase = "idle" /\ firsts' = {}
          /\ UNCHANGED <<simTime, outLen, firstToken, records>>
      BY <1>5 DEF StartStep, recorderVars
    <2>2. ASSUME NEW r \in Req PROVE PaceOf(r)'
      <3>1. PaceOf(r) /\ (Slow(r) => Slow(r)')
        BY <1>1, <2>1 DEF Slow, Behind
      <3> QED
        BY <2>1, <3>1 DEF PaceOf, Live
    <2> QED
      BY <1>4, <2>1, <2>2
  <1>6. CASE HandlePrefill
    <2>1. /\ todo # <<>> /\ todo' = Tail(todo) /\ phase = "process"
          /\ UNCHANGED <<phase, simTime, outLen, firstToken, firsts, records>>
      BY <1>6 DEF HandlePrefill, recorderVars
    <2>2. Range(todo') \in SUBSET Range(todo)
      BY <2>1, TodoRest
    <2>3. totals.computed > 0 => totals'.computed > 0
      <3>1. PICK h \in Hits[Head(todo)] :
               totals' = Counted(h, PromptLen[Head(todo)] - h, 0, 0)
        BY <1>6 DEF HandlePrefill
      <3>2. Head(todo) \in Req
        BY <2>1, TodoRest
      <3>3. h \in 0..PromptLen[Head(todo)] /\ PromptLen[Head(todo)] \in Nat
        BY <3>1, <3>2, RequestsAssumption
      <3>4. PromptLen[Head(todo)] - h \in Nat
        BY <3>3
      <3>5. totals'.computed = totals.computed + (PromptLen[Head(todo)] - h)
        BY <3>1 DEF Counted
      <3>6. totals.computed \in Nat
        BY DEF TypeOK, Counters
      <3> QED
        BY <3>4, <3>5, <3>6
    <2>4. ASSUME NEW r \in Req PROVE PaceOf(r)'
      <3>1. /\ PaceOf(r) /\ (Slow(r) => Slow(r)') /\ (NearlySlow(r) => NearlySlow(r)')
        BY <1>1, <2>1 DEF Slow, NearlySlow, Behind
      <3> QED
        BY <2>1, <2>2, <2>3, <3>1 DEF PaceOf, Live
    <2> QED
      BY <1>4, <2>1, <2>4
  <1>7. CASE PrefillOutOfMemory
    <2>1. phase' = "raised_oom" /\ records' = records
      BY <1>7 DEF PrefillOutOfMemory, recorderVars
    <2>2. \A r \in Req : PaceOf(r)'
      BY <2>1 DEF PaceOf, Live
    <2> QED
      BY <1>4, <2>1, <2>2
  <1>8. CASE HandleDecode
    <2>1. records' = records
      BY <1>8 DEF HandleDecode, recorderVars
    <2> QED
      BY <1>1, <1>4, <1>8, <2>1, PaceDecode
  <1>9. CASE DecodeSkipped
    <2>1. /\ todo # <<>> /\ todo' = Tail(todo) /\ phase = "process"
          /\ UNCHANGED <<phase, simTime, totals, firsts, status, outLen, hits,
                         firstToken, records>>
      BY <1>9 DEF DecodeSkipped, requestVars, recorderVars
    <2>2. Range(todo') \in SUBSET Range(todo)
      BY <2>1, TodoRest
    <2>3. totals'.computed >= totals.computed
      BY <2>1 DEF TypeOK, Counters
    <2>4. \A r \in Req : Bystander(r)
      BY <2>1, <2>2, <2>3 DEF Bystander
    <2>5. \A r \in Req : PaceOf(r)'
      BY <1>1, <2>4, PaceOfBystander
    <2> QED
      BY <1>4, <2>1, <2>5
  <1>10. CASE Account
    <2>1. records' = records
      BY <1>10 DEF Account
    <2> QED
      BY <1>1, <1>4, <1>10, <2>1, PaceAccount
  <1>11. CASE FinishStep
    <2>1. PICK done, left : Cleans(done, left)
      BY <1>11, FinishEffect
    <2>2. /\ simTime <= simTime' /\ simTime \in Nat /\ simTime' \in Nat
          /\ phase = "cleanup" /\ phase' \in {"idle", "done"}
          /\ UNCHANGED <<outLen, firstToken, firsts>>
      BY <1>11, CleanupClock DEF FinishStep
    <2>3. ASSUME NEW r \in Req PROVE PaceOf(r)'
      <3>1. PaceOf(r)
        BY <1>1
      <3>2. ASSUME firstToken[r] # NoTime PROVE Slow(r)'
        <4>1. PICK later \in Nat : simTime + later = simTime'
          BY <2>2, LaterBy
        <4>2. Behind(r, simTime) /\ simTime \in Int
          BY <2>2, <3>1, <3>2 DEF PaceOf, Live, Slow
        <4>3. Min(Latencies) * (outLen[r] - PerPass)
                  <= ((simTime + later) - firstToken[r]) * PerPass
          BY <3>2, <4>1, <4>2, PaceSteps
        <4> QED
          BY <2>2, <4>1, <4>3 DEF Slow, Behind
      <3> QED
        BY <2>2, <3>2 DEF PaceOf
    <2>4. ASSUME NEW i \in DOMAIN records' PROVE PaceRecord(records'[i])
      <3>1. CASE i \in DOMAIN records /\ records'[i] = records[i]
        BY <1>2, <3>1
      <3>2. CASE \E r \in Req : /\ status[r] = "finished" /\ r \in Range(running)
                                /\ records'[i] = RequestRecord(r)
        BY <1>1, <2>2, <3>2, RecordIsSlow
      <3> QED
        BY <2>1, <2>4, <3>1, <3>2, RecordsGained
    <2> QED
      BY <1>3, <2>3, <2>4
  <1>12. CASE UNCHANGED vars
    <2>1. UNCHANGED <<phase, todo, simTime, totals, firsts, outLen, firstToken, records>>
      BY <1>12 DEF vars, loopVars, requestVars, recorderVars
    <2>2. ASSUME NEW r \in Req PROVE PaceOf(r)'
      <3>1. PaceOf(r) /\ (Slow(r)' <=> Slow(r)) /\ (NearlySlow(r)' <=> NearlySlow(r))
        BY <1>1, <2>1 DEF Slow, NearlySlow, Behind
      <3> QED
        BY <2>1, <3>1 DEF PaceOf, Live
    <2> QED
      BY <1>4, <2>1, <2>2
  <1> QED
    BY <1>5, <1>6, <1>7, <1>8, <1>9, <1>10, <1>11, <1>12 DEF Next

\* No request is reported faster than a pass for every 1 + NumSpec tokens after
\* those of its first pass, whatever was drafted, accepted, refused or repeated.
THEOREM PaceIsKept == Spec => []DecodePace
  <1>1. TypeOK /\ BatchInv /\ FirstInv /\ PaceInv /\ [Next]_vars
            => TypeOK' /\ BatchInv' /\ FirstInv' /\ PaceInv'
    BY NextTypes, BatchNext, FirstNext, PaceNext
  <1>2. PaceInv => DecodePace
    BY DEF PaceInv
  <1> QED
    BY InitTypes, BatchInit, FirstInit, PaceInit, <1>1, <1>2, PTL DEF Spec

-----------------------------------------------------------------------------
(* The tokens of the report, with distinct ids                             *)

\* The tokens of requests that are in the batch, not yet recorded.
InBatch == SumFunctionOnSet(outLen, Range(running))

\* The tokens of the step that will be recorded.
ToRecord == IF phase = "process" /\ step > Warmup THEN totals.generated ELSE 0

\* What is recorded of the steps, or will be, belongs to requests that are
\* recorded or still in the batch.  Nothing is recorded during the warmup, which
\* may leave requests out of the report that had tokens.
ReportInv ==
    /\ step <= Warmup => recorded.totals.generated = 0
    /\ recorded.totals.generated + ToRecord <= TotalGenerated + InBatch
    /\ phase = "done" => running = <<>>

\* What a list of records says is put out.
LEMMA RecordedOutputs ==
    ASSUME NEW seq \in Seq(Record)
    PROVE  \A i \in DOMAIN seq : seq[i].output \in Nat
  <1>1. ASSUME NEW q \in Record PROVE q.output \in Nat
    BY DEF Record
  <1> QED
    BY <1>1

\* The sums are natural numbers, over finite sets.
LEMMA ReportNumbers ==
    ASSUME TypeOK
    PROVE  /\ IsFiniteSet(Range(running)) /\ Range(running) \in SUBSET Req
           /\ \A r \in Req : outLen[r] \in Nat
           /\ InBatch \in Nat /\ TotalGenerated \in Nat
           /\ recorded.totals.generated \in Nat /\ totals.generated \in Nat
           /\ step \in Nat /\ Warmup \in Nat
  <1>1. Range(running) \in SUBSET Req
    BY DEF TypeOK, Range
  <1>2. IsFiniteSet(Range(running))
    BY <1>1, FiniteReq, FS_Subset
  <1>3. \A r \in Req : outLen[r] \in Nat
    BY DEF TypeOK
  <1>4. InBatch \in Nat
    BY <1>1, <1>2, <1>3, SumType DEF InBatch
  <1>5. TotalGenerated \in Nat
    <2> DEFINE f == [i \in DOMAIN records |-> records[i].output]
    <2>1. \A i \in DOMAIN records : records[i].output \in Nat
      BY RecordedOutputs DEF TypeOK
    <2>2. DOMAIN f = DOMAIN records /\ \A i \in DOMAIN f : f[i] \in Nat
      BY <2>1
    <2>3. IsFiniteSet(DOMAIN f)
      <3>1. DOMAIN records = 1..Len(records) /\ Len(records) \in Nat
        BY DEF TypeOK
      <3> QED
        BY <2>2, <3>1, FS_Interval
    <2> HIDE DEF f
    <2>4. SumFunctionOnSet(f, DOMAIN f) \in Nat
      BY <2>2, <2>3, SumType
    <2> QED
      BY <2>4 DEF TotalGenerated, SumOver, f
  <1>6. /\ recorded.totals.generated \in Nat /\ totals.generated \in Nat
        /\ step \in Nat /\ Warmup \in Nat
    BY ConfigAssumption DEF TypeOK, Counters
  <1> QED
    BY <1>1, <1>2, <1>3, <1>4, <1>5, <1>6

\* The records of the finished requests take their tokens out of the batch.
LEMMA CleanupMovesTokens ==
    ASSUME TypeOK, TypeOK', BatchInv, NEW done, NEW left, Cleans(done, left),
           step > Warmup, outLen' = outLen
    PROVE  TotalGenerated' + InBatch' = TotalGenerated + InBatch
  <1> DEFINE m == Len(records)
             n == Len(done)
             f == [i \in DOMAIN records |-> records[i].output]
             g == [i \in DOMAIN records' |-> records'[i].output]
             h == [i \in (m + 1)..(m + n) |-> done[i - m]]
             A == 1..m
             B == (m + 1)..(m + n)
  <1>1. /\ Apart(running) => Apart(done)
        /\ running' = left
        /\ Range(done) = {r \in Range(running) : status[r] = "finished"}
        /\ Range(left) = {r \in Range(running) : status[r] # "finished"}
    BY DEF Cleans
  <1>2. /\ done \in Seq(Req) /\ n \in Nat /\ m \in Nat
        /\ DOMAIN done = 1..n /\ DOMAIN records = A
        /\ DOMAIN records' = 1..(m + n)
        /\ \A i \in A : records'[i] = records[i]
        /\ \A i \in B : i - m \in 1..n /\ records'[i] = RequestRecord(done[i - m])
    BY RecordsAppended
  <1>3. Once(done)
    BY <1>1, <1>2, ApartOnce DEF BatchInv
  <1>4. /\ DOMAIN records' = A \cup B /\ A \cap B = {}
        /\ IsFiniteSet(A) /\ IsFiniteSet(B)
    <2>1. 1..(m + n) = A \cup B /\ A \cap B = {}
      BY <1>2
    <2>2. IsFiniteSet(A) /\ IsFiniteSet(B)
      BY <1>2, FS_Interval
    <2> QED
      BY <1>2, <2>1, <2>2
  <1>5. \A i \in A \cup B : g[i] = records'[i].output /\ g[i] \in Int
    <2>1. \A i \in DOMAIN records' : records'[i].output \in Nat
      BY RecordedOutputs DEF TypeOK
    <2> QED
      BY <1>4, <2>1
  <1>6. \A i \in A : g[i] = f[i]
    BY <1>2, <1>5
  <1>7. Along(g, outLen, h, B)
    <2>1. ASSUME NEW i \in B PROVE g[i] = outLen[h[i]]
      <3>1. h[i] = done[i - m] /\ g[i] = RequestRecord(done[i - m]).output
        BY <1>2, <1>5
      <3> QED
        BY <3>1 DEF RequestRecord
    <2>2. ASSUME NEW i \in B, NEW j \in B, h[i] = h[j] PROVE i = j
      <3>1. i - m = j - m
        BY <1>2, <1>3, <2>2 DEF Once
      <3> QED
        BY <1>2, <3>1
    <2> QED
      BY <1>5, <2>1, <2>2 DEF Along
  <1>8. {h[i] : i \in B} = Range(done)
    <2>1. \A i \in B : h[i] \in Range(done)
      BY <1>2 DEF Range
    <2>2. ASSUME NEW k \in 1..n PROVE \E i \in B : h[i] = done[k]
      <3>1. m + k \in B /\ (m + k) - m = k
        BY <1>2
      <3> QED
        BY <3>1
    <2> QED
      BY <1>2, <2>1, <2>2 DEF Range
  <1>9. /\ TotalGenerated = SumFunctionOnSet(f, A)
        /\ TotalGenerated' = SumFunctionOnSet(g, A \cup B)
    <2>1. DOMAIN f = A /\ DOMAIN g = A \cup B
      BY <1>2, <1>4
    <2> QED
      BY <2>1 DEF TotalGenerated, SumOver
  <1> HIDE DEF f, g, h, A, B, m, n
  <1>10. SumFunctionOnSet(g, A \cup B) = SumFunctionOnSet(g, A) + SumFunctionOnSet(g, B)
    BY <1>4, <1>5, SumUnion
  <1>11. SumFunctionOnSet(g, A) = SumFunctionOnSet(f, A)
    BY <1>4, <1>5, <1>6, SumSame
  <1>12. SumFunctionOnSet(g, B) = SumFunctionOnSet(outLen, Range(done))
    BY <1>4, <1>7, <1>8, SumAlong
  <1>13. InBatch = SumFunctionOnSet(outLen, Range(done))
                    + SumFunctionOnSet(outLen, Range(left))
    <2>1. /\ Range(running) = Range(done) \cup Range(left)
          /\ Range(done) \cap Range(left) = {}
      BY <1>1
    <2>2. /\ IsFiniteSet(Range(done)) /\ IsFiniteSet(Range(left))
          /\ \A r \in Range(done) \cup Range(left) : outLen[r] \in Int
      BY <2>1, ReportNumbers, FS_Subset
    <2>3. SumFunctionOnSet(outLen, Range(done) \cup Range(left))
              = SumFunctionOnSet(outLen, Range(done))
                  + SumFunctionOnSet(outLen, Range(left))
      BY <2>1, <2>2, SumUnion
    <2> QED
      BY <2>1, <2>3 DEF InBatch
  <1>14. InBatch' = SumFunctionOnSet(outLen, Range(left))
    BY <1>1 DEF InBatch
  <1>15. /\ SumFunctionOnSet(g, A) \in Int /\ SumFunctionOnSet(g, B) \in Int
         /\ SumFunctionOnSet(outLen, Range(left)) \in Int
    <2>1. /\ \A i \in A : g[i] \in Int
          /\ \A i \in B : g[i] \in Int
      BY <1>5
    <2>2. IsFiniteSet(Range(left)) /\ \A r \in Range(left) : outLen[r] \in Int
      BY <1>1, ReportNumbers, FS_Subset
    <2> QED
      BY <1>4, <2>1, <2>2, SumType
  <1> QED
    BY <1>9, <1>10, <1>11, <1>12, <1>13, <1>14, <1>15

\* The tokens of the requests of a sequence are a natural number.
LEMMA TokensOfSequence ==
    ASSUME NEW seq \in Seq(Req), NEW f \in [Req -> Nat]
    PROVE  /\ IsFiniteSet(Range(seq)) /\ SumFunctionOnSet(f, Range(seq)) \in Nat
  <1>1. Range(seq) \in SUBSET Req
    BY DEF Range
  <1>2. IsFiniteSet(Range(seq)) /\ \A r \in Range(seq) : f[r] \in Nat
    BY <1>1, FiniteReq, FS_Subset
  <1> QED
    BY <1>2, SumType

\* A sum of natural numbers is not negative.
LEMMA NaturalSum == \A a, b \in Nat : 0 <= a + b
  OBVIOUS

\* Nothing is recorded at first.
LEMMA ReportInit == Init => ReportInv
  <1> SUFFICES ASSUME Init PROVE ReportInv
    OBVIOUS
  <1>1. /\ recorded.totals.generated = 0 /\ phase = "idle"
    BY DEF Init, Zero
  <1>2. InBatch \in Nat /\ TotalGenerated \in Nat
    BY InitTypes, ReportNumbers
  <1> QED
    BY <1>1, <1>2 DEF ReportInv, ToRecord

\* ReportInv of the next state, with its sums as numbers.
ReportNumbersNext(in) ==
    /\ TotalGenerated' = TotalGenerated
    /\ step' <= Warmup => recorded'.totals.generated = 0
    /\ recorded'.totals.generated + ToRecord' <= TotalGenerated + in
    /\ InBatch' = in
    /\ phase' # "done"

\* Every other action than the cleanup leaves the records alone.
LEMMA ReportKept ==
    ASSUME NEW in, ReportNumbersNext(in)
    PROVE  ReportInv'
  BY DEF ReportNumbersNext, ReportInv

\* With distinct ids no request leaves the batch without being recorded.
LEMMA ReportNext ==
    ASSUME DistinctIds
    PROVE  TypeOK /\ TypeOK' /\ BatchInv /\ ReportInv /\ [Next]_vars => ReportInv'
  <1> SUFFICES ASSUME TypeOK, TypeOK', BatchInv, ReportInv, [Next]_vars
               PROVE  ReportInv'
    OBVIOUS
  <1>1. /\ InBatch \in Nat /\ TotalGenerated \in Nat
        /\ recorded.totals.generated \in Nat /\ totals.generated \in Nat
        /\ step \in Nat /\ Warmup \in Nat
        /\ \A r \in Req : outLen[r] \in Nat
        /\ IsFiniteSet(Range(running)) /\ Range(running) \in SUBSET Req
    BY ReportNumbers
  <1>2. /\ step <= Warmup => recorded.totals.generated = 0
        /\ recorded.totals.generated + ToRecord <= TotalGenerated + InBatch
        /\ phase = "done" => running = <<>>
    BY DEF ReportInv
  <1>3. ToRecord \in Nat
    BY <1>1 DEF ToRecord
  <1>4. ASSUME records' = records PROVE TotalGenerated' = TotalGenerated
    BY <1>4 DEF TotalGenerated
  <1>5. ASSUME running' = running, outLen' = outLen PROVE InBatch' = InBatch
    BY <1>5 DEF InBatch
  <1>6. CASE StartStep
    <2>1. PICK adm, rest : Admits(adm, rest)
      BY <1>6, StartEffect
    <2>2. Range(running') = Range(running) \cup Range(adm)
      BY <2>1, AdmitsAppend
    <2>3. /\ phase = "idle" /\ phase' = "process" /\ totals'.generated = 0
          /\ step' = Earlier(step + 1, Warmup + 1)
          /\ UNCHANGED <<outLen, recorded, records>>
      BY <1>6 DEF StartStep, Fresh, Zero, recorderVars
    <2>4. (step' <= Warmup => step <= Warmup) /\ ToRecord = 0 /\ ToRecord' = 0
      BY <1>1, <2>3 DEF Earlier, ToRecord
    <2>5. InBatch <= InBatch' /\ InBatch' \in Nat
      <3> DEFINE S == Range(running)
                 T == Range(running') \ Range(running)
      <3>1. IsFiniteSet(Range(running')) /\ \A r \in Range(running') : outLen[r] \in Nat
        <4>1. running' \in Seq(Req) /\ outLen \in [Req -> Nat]
          BY DEF TypeOK
        <4>2. \A r \in Range(running') : r \in Req
          BY <4>1 DEF Range
        <4> QED
          BY <4>1, <4>2, TokensOfSequence
      <3>2. /\ S \cup T = Range(running') /\ S \cap T = {}
            /\ IsFiniteSet(S) /\ IsFiniteSet(T)
            /\ \A r \in T : outLen[r] \in Nat
        BY <1>1, <2>2, <3>1, FS_Subset
      <3>3. \A r \in S \cup T : outLen[r] \in Int
        BY <3>1, <3>2
      <3> HIDE DEF S, T
      <3>4. /\ SumFunctionOnSet(outLen, S \cup T)
                   = SumFunctionOnSet(outLen, S) + SumFunctionOnSet(outLen, T)
        BY <3>2, <3>3, SumUnion
      <3>5. SumFunctionOnSet(outLen, T) \in Nat
        BY <3>2, SumType
      <3>6. InBatch = SumFunctionOnSet(outLen, S)
        BY DEF InBatch, S
      <3>7. InBatch' = SumFunctionOnSet(outLen, S \cup T)
        BY <2>3, <3>2 DEF InBatch
      <3> QED
        BY <1>1, <3>4, <3>5, <3>6, <3>7
    <2>6. TotalGenerated' = TotalGenerated /\ recorded' = recorded
      BY <1>4, <2>3
    <2>7. recorded.totals.generated + 0 <= TotalGenerated + InBatch'
      BY <1>1, <1>2, <2>4, <2>5
    <2> QED
      BY <1>2, <2>3, <2>4, <2>6, <2>7, ReportKept DEF ReportNumbersNext
  <1>7. CASE HandlePrefill
    <2>1. PICK h \in Hits[Head(todo)] :
             totals' = Counted(h, PromptLen[Head(todo)] - h, 0, 0)
      BY <1>7 DEF HandlePrefill
    <2>2. /\ phase = "process" /\ phase' = "process"
          /\ UNCHANGED <<step, running, outLen, recorded, records>>
      BY <1>7 DEF HandlePrefill, recorderVars
    <2>3. totals'.generated = totals.generated
      BY <1>1, <2>1 DEF Counted
    <2>4. ToRecord' = ToRecord
      BY <2>2, <2>3 DEF ToRecord
    <2>5. TotalGenerated' = TotalGenerated /\ InBatch' = InBatch
      BY <1>4, <1>5, <2>2
    <2> QED
      BY <1>2, <2>2, <2>4, <2>5, ReportKept DEF ReportNumbersNext
  <1>8. CASE PrefillOutOfMemory
    <2>1. /\ phase' = "raised_oom"
          /\ UNCHANGED <<step, running, outLen, recorded, records>>
      BY <1>8 DEF PrefillOutOfMemory, recorderVars
    <2>2. ToRecord' = 0
      BY <2>1 DEF ToRecord
    <2>3. TotalGenerated' = TotalGenerated /\ InBatch' = InBatch
      BY <1>4, <1>5, <2>1
    <2>4. recorded.totals.generated + 0 <= TotalGenerated + InBatch
      BY <1>1, <1>2, <1>3
    <2> QED
      BY <1>2, <2>1, <2>2, <2>3, <2>4, ReportKept DEF ReportNumbersNext
  <1>9. CASE HandleDecode
    <2>1. PICK q, k, a, j : Decodes(q, k, a, j)
      BY <1>9, DecodeEffect
    <2> DEFINE n == Bonus(q) + a
    <2>2. /\ q = Head(todo) /\ q \in Req /\ a \in Nat
          /\ outLen' = [outLen EXCEPT ![q] = outLen[q] + n]
          /\ totals' = Counted(numComputed[q], 1 + k, a, n)
      BY <2>1 DEF Decodes
    <2>3. /\ phase = "process" /\ phase' = "process" /\ todo # <<>>
          /\ UNCHANGED <<step, running, recorded, records>>
      BY <1>9 DEF HandleDecode, recorderVars
    <2>4. n \in Nat
      <3>1. Bonus(q) \in 0..1
        BY BonusType
      <3> QED
        BY <2>2, <3>1
    <2> HIDE DEF n
    <2>5. totals'.generated = totals.generated + n
      BY <2>2 DEF Counted
    <2>6. q \in Range(running)
      BY <2>2, <2>3, TodoRest
    <2>7. InBatch' = InBatch + n
      <3>1. DiffersAt(outLen, outLen', Range(running), q) /\ outLen'[q] = outLen[q] + n
        <4>1. outLen \in [Req -> Nat]
          BY DEF TypeOK
        <4>2. outLen'[q] = outLen[q] + n /\ outLen[q] \in Nat
          BY <2>2, <4>1
        <4>3. \A r \in Range(running) \ {q} : outLen'[r] = outLen[r]
          BY <1>1, <2>2, <4>1
        <4>4. \A r \in Range(running) : outLen[r] \in Int /\ outLen'[r] \in Int
          BY <1>1, <2>4, <4>2, <4>3
        <4> QED
          BY <4>2, <4>3, <4>4 DEF DiffersAt
      <3>2. SumFunctionOnSet(outLen', Range(running))
                = SumFunctionOnSet(outLen, Range(running)) + (outLen'[q] - outLen[q])
        BY <1>1, <2>6, <3>1, SumDiffers
      <3>3. outLen[q] \in Nat
        BY <1>1, <2>2
      <3>4. InBatch' = SumFunctionOnSet(outLen', Range(running))
        BY <2>3 DEF InBatch
      <3> QED
        BY <1>1, <2>4, <3>1, <3>2, <3>3, <3>4 DEF InBatch
    <2>8. recorded.totals.generated + ToRecord' <= TotalGenerated + (InBatch + n)
      <3>1. ToRecord' <= ToRecord + n /\ ToRecord' \in Nat
        BY <1>1, <2>3, <2>4, <2>5 DEF ToRecord
      <3> QED
        BY <1>1, <1>2, <1>3, <2>4, <3>1
    <2>9. TotalGenerated' = TotalGenerated
      BY <1>4, <2>3
    <2> QED
      BY <1>2, <2>3, <2>7, <2>8, <2>9, ReportKept DEF ReportNumbersNext
  <1>10. CASE DecodeSkipped
    <2>1. /\ phase = "process"
          /\ UNCHANGED <<phase, step, running, totals, outLen, recorded, records>>
      BY <1>10 DEF DecodeSkipped, requestVars, recorderVars
    <2>2. ToRecord' = ToRecord
      BY <2>1 DEF ToRecord
    <2>3. TotalGenerated' = TotalGenerated /\ InBatch' = InBatch
      BY <1>4, <1>5, <2>1
    <2> QED
      BY <1>2, <2>1, <2>2, <2>3, ReportKept DEF ReportNumbersNext
  <1>11. CASE Account
    <2>1. PICK l : Takes(l)
      BY <1>11, AccountEffect
    <2>2. /\ phase = "process" /\ UNCHANGED <<step, running, totals, outLen, records>>
      BY <1>11 DEF Account
    <2>3. phase' \in {"cleanup", "raised_stall"} /\ ToRecord' = 0
      BY <2>1 DEF Takes, ToRecord
    <2>4. TotalGenerated' = TotalGenerated /\ InBatch' = InBatch
      BY <1>4, <1>5, <2>2
    <2>5. CASE recorded' = recorded
      <3>1. recorded.totals.generated + 0 <= TotalGenerated + InBatch
        BY <1>1, <1>2, <1>3
      <3> QED
        BY <1>2, <2>2, <2>3, <2>4, <2>5, <3>1, ReportKept DEF ReportNumbersNext
    <2>6. CASE step > Warmup /\ recorded' = RecordStep(l)
      <3>1. recorded'.totals.generated = recorded.totals.generated + totals.generated
        BY <2>6 DEF RecordStep, Zero
      <3>2. ToRecord = totals.generated
        BY <2>2, <2>6 DEF ToRecord
      <3>3. recorded'.totals.generated + 0 <= TotalGenerated + InBatch
        BY <1>1, <1>2, <3>1, <3>2
      <3>4. ~(step' <= Warmup)
        BY <1>1, <2>2, <2>6
      <3> QED
        BY <2>3, <2>4, <3>3, <3>4, ReportKept DEF ReportNumbersNext
    <2> QED
      BY <2>1, <2>5, <2>6 DEF Takes
  <1>12. CASE FinishStep
    <2>1. PICK done, left : Cleans(done, left)
      BY <1>12, FinishEffect
    <2>2. /\ phase = "cleanup" /\ UNCHANGED <<step, recorded, outLen>>
      BY <1>12 DEF FinishStep
    <2>3. /\ phase' \in {"idle", "done"} /\ running' = left
          /\ phase' = IF Remain(left) THEN "idle" ELSE "done"
      BY <2>1 DEF Cleans
    <2>4. phase' = "done" => running' = <<>>
      BY <2>3 DEF Remain
    <2>5. ToRecord = 0 /\ ToRecord' = 0
      BY <2>2, <2>3 DEF ToRecord
    <2>6. recorded.totals.generated <= TotalGenerated' + InBatch'
      <3>1. CASE step > Warmup
        <4>1. TotalGenerated' + InBatch' = TotalGenerated + InBatch
          BY <2>1, <2>2, <3>1, CleanupMovesTokens
        <4> QED
          BY <1>1, <1>2, <2>5, <4>1
      <3>2. CASE ~(step > Warmup)
        <4>1. records' = records
          BY <2>1, <3>2 DEF Cleans
        <4>2. TotalGenerated' = TotalGenerated
          BY <1>4, <4>1
        <4>3. InBatch' \in Nat
          <5>1. running' \in Seq(Req) /\ outLen' \in [Req -> Nat]
            BY DEF TypeOK
          <5> QED
            BY <5>1, TokensOfSequence DEF InBatch
        <4>4. recorded.totals.generated = 0
          BY <1>1, <1>2, <3>2
        <4>5. TotalGenerated' \in Nat
          BY <1>1, <4>2
        <4>6. 0 <= TotalGenerated' + InBatch'
          BY <4>3, <4>5, NaturalSum
        <4> QED
          BY <4>4, <4>6
      <3> QED
        BY <3>1, <3>2
    <2>7. recorded'.totals.generated + ToRecord' <= TotalGenerated' + InBatch'
      BY <1>1, <2>2, <2>5, <2>6
    <2> QED
      BY <1>2, <2>2, <2>4, <2>7 DEF ReportInv
  <1>13. CASE UNCHANGED vars
    <2>1. UNCHANGED <<phase, step, running, totals, outLen, recorded, records>>
      BY <1>13 DEF vars, loopVars, requestVars, recorderVars
    <2>2. ToRecord' = ToRecord
      BY <2>1 DEF ToRecord
    <2>3. TotalGenerated' = TotalGenerated /\ InBatch' = InBatch
      BY <1>4, <1>5, <2>1
    <2> QED
      BY <1>2, <2>1, <2>2, <2>3 DEF ReportInv
  <1> QED
    BY <1>6, <1>7, <1>8, <1>9, <1>10, <1>11, <1>12, <1>13 DEF Next

\* Where ids are distinct, the tokens of the throughput are no more than those of
\* the requests that are reported, although the two are recorded at different
\* points of a step, and whatever the warmup leaves out.
THEOREM ThroughputIsOfRequests ==
    ASSUME DistinctIds
    PROVE  Spec => []ThroughputWithinRequests
  <1>1. TypeOK /\ BatchInv /\ ReportInv /\ [Next]_vars => TypeOK' /\ BatchInv' /\ ReportInv'
    BY NextTypes, BatchNext, ReportNext
  <1>2. TypeOK /\ ReportInv => ThroughputWithinRequests
    <2> SUFFICES ASSUME TypeOK, ReportInv, phase = "done"
                 PROVE  TokensPerSecond.num <= 1000 * TotalGenerated
      BY DEF ThroughputWithinRequests
    <2>1. Range(running) = {}
      BY DEF ReportInv, Range
    <2>2. InBatch = 0
      BY <2>1, ReportNumbers, SumZero DEF InBatch
    <2>3. recorded.totals.generated <= TotalGenerated
      BY <2>2, ReportNumbers DEF ReportInv, ToRecord
    <2>4. recorded.totals.generated \in Nat /\ TotalGenerated \in Nat
      BY ReportNumbers
    <2>5. 1000 * recorded.totals.generated <= 1000 * TotalGenerated
      BY <2>3, <2>4
    <2> QED
      BY <2>5 DEF TokensPerSecond, Ratio
  <1> QED
    BY InitTypes, BatchInit, ReportInit, <1>1, <1>2, PTL DEF Spec

-----------------------------------------------------------------------------
(* Sorted values and the percentiles of the report                         *)

\* Values of the report: numbers, finitely many and at least one.
Column(values) ==
    /\ IsFiniteSet(DOMAIN values) /\ DOMAIN values # {}
    /\ values = [i \in DOMAIN values |-> values[i]]
    /\ \A i \in DOMAIN values : values[i] \in Int

\* The members that are less than v, and those that are at least v
Under(values, v) == {i \in DOMAIN values : values[i] < v}
Over(values, v) == {i \in DOMAIN values : v <= values[i]}

\* How many values there are on the sides of a number.
LEMMA Sides ==
    ASSUME NEW values, Column(values), NEW v \in Int
    PROVE  /\ Cardinality(DOMAIN values) \in Nat \ {0}
           /\ Cardinality(UpTo(values, v)) \in Nat
           /\ Cardinality(Under(values, v)) \in Nat
           /\ Cardinality(Over(values, v)) \in Nat
           /\ IsFiniteSet(UpTo(values, v)) /\ IsFiniteSet(Under(values, v))
           /\ IsFiniteSet(Over(values, v))
           /\ Cardinality(Over(values, v))
                 = Cardinality(DOMAIN values) - Cardinality(Under(values, v))
  <1> DEFINE D == DOMAIN values
  <1>1. IsFiniteSet(D) /\ D # {}
    BY DEF Column
  <1>2. /\ UpTo(values, v) \in SUBSET D /\ Under(values, v) \in SUBSET D
        /\ Over(values, v) \in SUBSET D
    BY DEF UpTo, Under, Over
  <1>3. /\ IsFiniteSet(UpTo(values, v)) /\ IsFiniteSet(Under(values, v))
        /\ IsFiniteSet(Over(values, v))
    BY <1>1, <1>2, FS_Subset
  <1>4. Cardinality(D) \in Nat \ {0}
    BY <1>1, FS_CardinalityType, FS_EmptySet
  <1>5. Over(values, v) = D \ Under(values, v) /\ D \cap Under(values, v) = Under(values, v)
    BY DEF Over, Under, Column
  <1>6. Cardinality(Over(values, v)) = Cardinality(D) - Cardinality(Under(values, v))
    BY <1>1, <1>5, FS_Difference
  <1> QED
    BY <1>3, <1>4, <1>6, FS_CardinalityType

\* What is no more than v is less than a greater number.
LEMMA SidesGrow ==
    ASSUME NEW values, Column(values), NEW u \in Int, NEW v \in Int, u < v
    PROVE  Cardinality(UpTo(values, u)) <= Cardinality(Under(values, v))
  <1>1. UpTo(values, u) \in SUBSET Under(values, v)
    BY DEF UpTo, Under, Column
  <1> QED
    BY <1>1, Sides, FS_Subset

\* The value at place k: k values are no more than it, and fewer are less.
LEMMA SortedPlace ==
    ASSUME NEW values, Column(values), NEW k \in 1..Cardinality(DOMAIN values)
    PROVE  /\ SortedUp(values)[k] \in Range(values) /\ SortedUp(values)[k] \in Int
           /\ k <= Cardinality(UpTo(values, SortedUp(values)[k]))
           /\ Cardinality(Under(values, SortedUp(values)[k])) < k
  <1> DEFINE D == DOMAIN values
             n == Cardinality(D)
             G == {i \in D : k <= Cardinality(UpTo(values, values[i]))}
             S == {v \in Range(values) : Cardinality(UpTo(values, v)) >= k}
             m == SortedUp(values)[k]
  <1>1. IsFiniteSet(D) /\ D # {} /\ \A i \in D : values[i] \in Int
    BY DEF Column
  <1>2. n \in Nat /\ k \in Nat \ {0} /\ k <= n
    BY <1>1, FS_CardinalityType
  <1>3. \A i \in D : Cardinality(UpTo(values, values[i])) \in Nat
    BY <1>1, Sides
  <1>4. G # {}
    <2>1. PICK i \in D : \A j \in D : values[j] <= values[i]
      BY <1>1, GreatestValue
    <2>2. UpTo(values, values[i]) = D
      BY <2>1 DEF UpTo
    <2> QED
      BY <1>2, <2>2
  <1>5. PICK i \in G : \A j \in G : values[i] <= values[j]
    <2>1. G \in SUBSET D
      OBVIOUS
    <2>2. IsFiniteSet(G) /\ \A j \in G : values[j] \in Int
      BY <1>1, <2>1, FS_Subset
    <2> HIDE DEF G
    <2> QED
      BY <1>4, <2>2, LeastValue
  <1>6. \A v : v \in S <=> \E j \in G : v = values[j]
    BY <1>2, <1>3 DEF Range
  <1>7. \E v \in S : \A w \in S : v <= w
    BY <1>5, <1>6
  <1>8. m = Min(S)
    BY DEF SortedUp
  <1> HIDE DEF m, S, G
  <1>9. m \in S /\ \A w \in S : m <= w
    BY <1>7, <1>8 DEF Min
  <1>10. PICK g \in G : m = values[g]
    BY <1>6, <1>9
  <1>11. m \in Range(values) /\ m \in Int /\ k <= Cardinality(UpTo(values, m))
    BY <1>1, <1>10 DEF G, Range
  <1>12. Cardinality(Under(values, m)) < k
    <2>1. Cardinality(Under(values, m)) \in Nat /\ IsFiniteSet(Under(values, m))
      BY <1>11, Sides
    <2> SUFFICES ASSUME k <= Cardinality(Under(values, m)) PROVE FALSE
      BY <1>2, <2>1
    <2>2. Under(values, m) # {}
      BY <1>2, FS_EmptySet
    <2>3. \A j \in Under(values, m) : j \in D /\ values[j] \in Int /\ values[j] < m
      BY <1>1 DEF Under
    <2>4. PICK j \in Under(values, m) : \A l \in Under(values, m) : values[l] <= values[j]
      BY <2>1, <2>2, <2>3, GreatestValue
    <2>5. Under(values, m) \in SUBSET UpTo(values, values[j])
      BY <2>3, <2>4 DEF UpTo
    <2>6. Cardinality(Under(values, m)) <= Cardinality(UpTo(values, values[j]))
      BY <2>3, <2>5, Sides, FS_Subset
    <2>7. k <= Cardinality(UpTo(values, values[j]))
      BY <1>2, <1>3, <2>1, <2>3, <2>6
    <2>8. values[j] \in S
      BY <1>6, <2>3, <2>7 DEF G
    <2> QED
      BY <1>9, <1>11, <2>3, <2>8
  <1> QED
    BY <1>11, <1>12 DEF m

\* There is no other such value.
LEMMA SortedUnique ==
    ASSUME NEW values, Column(values), NEW k \in 1..Cardinality(DOMAIN values),
           NEW v \in Int, k <= Cardinality(UpTo(values, v)),
           Cardinality(Under(values, v)) < k
    PROVE  SortedUp(values)[k] = v
  <1> DEFINE m == SortedUp(values)[k]
  <1>1. /\ m \in Int /\ k <= Cardinality(UpTo(values, m))
        /\ Cardinality(Under(values, m)) < k
    BY SortedPlace
  <1> HIDE DEF m
  <1>2. /\ Cardinality(UpTo(values, v)) \in Nat /\ Cardinality(Under(values, v)) \in Nat
        /\ Cardinality(UpTo(values, m)) \in Nat /\ Cardinality(Under(values, m)) \in Nat
        /\ k \in Nat
    BY <1>1, Sides
  <1>3. ~(v < m)
    BY <1>1, <1>2, SidesGrow
  <1>4. ~(m < v)
    BY <1>1, <1>2, SidesGrow
  <1>5. m = v
    BY <1>1, <1>3, <1>4
  <1> QED
    BY <1>5 DEF m

\* Sorted values go up.
LEMMA SortedGoesUp ==
    ASSUME NEW values, Column(values), NEW k \in 1..Cardinality(DOMAIN values),
           NEW l \in 1..Cardinality(DOMAIN values), k <= l
    PROVE  SortedUp(values)[k] <= SortedUp(values)[l]
  <1> DEFINE u == SortedUp(values)[k]
             w == SortedUp(values)[l]
  <1>1. u \in Int /\ Cardinality(Under(values, u)) < k
    BY SortedPlace
  <1>2. w \in Int /\ l <= Cardinality(UpTo(values, w))
    BY SortedPlace
  <1> HIDE DEF u, w
  <1>3. /\ Cardinality(UpTo(values, w)) \in Nat /\ Cardinality(Under(values, u)) \in Nat
        /\ k \in Nat /\ l \in Nat
    BY <1>1, <1>2, Sides
  <1>4. ~(w < u)
    BY <1>1, <1>2, <1>3, SidesGrow
  <1>5. u <= w
    BY <1>1, <1>2, <1>4
  <1> QED
    BY <1>5 DEF u, w

\* The negated values are sorted the other way round.
LEMMA SortedMirror ==
    ASSUME NEW values, Column(values), NEW k \in 1..Cardinality(DOMAIN values)
    PROVE  LET minus == [i \in DOMAIN values |-> -values[i]]
               l == (Cardinality(DOMAIN values) - k) + 1
           IN /\ Column(minus) /\ l \in 1..Cardinality(DOMAIN values)
              /\ SortedUp(minus)[k] = -SortedUp(values)[l]
  <1> DEFINE minus == [i \in DOMAIN values |-> -values[i]]
             n == Cardinality(DOMAIN values)
             l == (n - k) + 1
             w == SortedUp(values)[l]
  <1>1. DOMAIN minus = DOMAIN values /\ \A i \in DOMAIN values : minus[i] = -values[i]
    OBVIOUS
  <1>2. IsFiniteSet(DOMAIN values) /\ \A i \in DOMAIN values : values[i] \in Int
    BY DEF Column
  <1>3. Column(minus)
    BY <1>2 DEF Column
  <1>4. n \in Nat
    BY <1>2, FS_CardinalityType
  <1>5. l \in 1..n
    BY <1>4
  <1>6. w \in Int /\ l <= Cardinality(UpTo(values, w)) /\ Cardinality(Under(values, w)) < l
    <2> HIDE DEF l
    <2> QED
      BY <1>5, SortedPlace
  <1> HIDE DEF w, minus
  <1>7. UpTo(minus, -w) = Over(values, w) /\ Over(minus, -w) = UpTo(values, w)
    BY <1>1, <1>2, <1>6 DEF UpTo, Over
  <1>8. -w \in Int
    BY <1>6
  <1>9. /\ Cardinality(UpTo(values, w)) \in Nat /\ Cardinality(Under(values, w)) \in Nat
        /\ Cardinality(Over(values, w)) = n - Cardinality(Under(values, w))
    BY <1>6, Sides
  <1>10. /\ Cardinality(Under(minus, -w)) \in Nat
         /\ Cardinality(Over(minus, -w)) = n - Cardinality(Under(minus, -w))
    BY <1>1, <1>3, <1>8, Sides
  <1>11. k <= Cardinality(UpTo(minus, -w)) /\ Cardinality(Under(minus, -w)) < k
    <2> HIDE DEF n
    <2> QED
      BY <1>4, <1>6, <1>7, <1>9, <1>10
  <1>12. k \in 1..Cardinality(DOMAIN minus)
    BY <1>1
  <1>13. SortedUp(minus)[k] = -w
    BY <1>3, <1>8, <1>11, <1>12, SortedUnique
  <1> QED
    BY <1>3, <1>5, <1>13 DEF minus, w

\* A part of a difference of values, in hundredths.
LEMMA PartOf ==
    ASSUME NEW c \in 0..100, NEW d \in Nat
    PROVE  c * d \in Nat /\ 0 <= c * d /\ c * d <= 100 * d
  <1>1. ASSUME NEW u \in Nat, NEW w \in Nat
        PROVE  u * w \in Nat /\ (u + w) * d = u * d + w * d
    BY Z3
  <1>2. 100 - c \in Nat /\ c \in Nat /\ c + (100 - c) = 100
    OBVIOUS
  <1>3. 100 * d = c * d + (100 - c) * d
    BY <1>1, <1>2
  <1>4. c * d \in Nat /\ (100 - c) * d \in Nat
    BY <1>1, <1>2
  <1> DEFINE x == c * d
             y == (100 - c) * d
             z == 100 * d
  <1>5. x \in Nat /\ y \in Nat /\ z = x + y
    BY <1>3, <1>4
  <1> HIDE DEF x, y, z
  <1>6. x \in Nat /\ 0 <= x /\ x <= z
    BY <1>5
  <1> QED
    BY <1>6 DEF x, z

\* More parts, more of it.
LEMMA MoreParts ==
    ASSUME NEW c \in 0..100, NEW e \in 0..100, c <= e, NEW d \in Nat
    PROVE  c * d <= e * d
  <1>1. ASSUME NEW u \in Nat, NEW w \in Nat
        PROVE  u * d \in Nat /\ w * d \in Nat /\ (u + w) * d = u * d + w * d
    BY Z3
  <1>2. e - c \in Nat /\ c \in Nat /\ e = c + (e - c)
    OBVIOUS
  <1> DEFINE x == c * d
             y == (e - c) * d
             z == e * d
  <1>3. x \in Nat /\ y \in Nat
    BY <1>1, <1>2
  <1>4. z = x + y
    <2>1. (c + (e - c)) * d = c * d + (e - c) * d
      BY <1>1, <1>2
    <2> QED
      BY <1>2, <2>1
  <1> HIDE DEF x, y, z
  <1>5. x <= z
    BY <1>3, <1>4
  <1> QED
    BY <1>5 DEF x, z

\* Numbers at the places 1 to n, none less than the one before.
GoesUp(s, n) ==
    /\ DOMAIN s = 1..n /\ \A i \in 1..n : s[i] \in Int
    /\ \A i, j \in 1..n : i <= j => s[i] <= s[j]

\* A rank in hundredths, between its places.
LEMMA Between ==
    ASSUME NEW n \in Nat \ {0}, NEW s, GoesUp(s, n), NEW k \in 0..(100 * (n - 1))
    PROVE  LET f == (k \div 100) + 1
           IN /\ f \in 1..n /\ Interpolated(s, k) \in Int
              /\ 100 * s[f] <= Interpolated(s, k)
              /\ f + 1 \in 1..n => Interpolated(s, k) <= 100 * s[f + 1]
              /\ (f + 1 \notin 1..n \/ k % 100 = 0) => Interpolated(s, k) = 100 * s[f]
  <1> DEFINE f == (k \div 100) + 1
             c == k % 100
  <1>1. f \in 1..n /\ c \in 0..100
    OBVIOUS
  <1>2. s[f] \in Int /\ DOMAIN s = 1..n
    BY <1>1 DEF GoesUp
  <1>3. CASE f + 1 \notin 1..n
    <2>1. Interpolated(s, k) = 100 * s[f]
      BY <1>2, <1>3 DEF Interpolated
    <2> HIDE DEF f
    <2>2. 100 * s[f] \in Int
      BY <1>2
    <2> QED
      BY <1>1, <1>3, <2>1, <2>2 DEF f
  <1>4. CASE f + 1 \in 1..n
    <2> DEFINE a == s[f]
               b == s[f + 1]
               x == c * (b - a)
    <2>1. Interpolated(s, k) = 100 * a + x
      BY <1>2, <1>4 DEF Interpolated
    <2> HIDE DEF f, c
    <2>2. a \in Int /\ b \in Int /\ a <= b
      BY <1>1, <1>4 DEF GoesUp
    <2>3. b - a \in Nat
      BY <2>2
    <2>4. x \in Nat /\ x <= 100 * (b - a)
      <3> HIDE DEF a, b
      <3> QED
        BY <1>1, <2>3, PartOf
    <2>5. c = 0 => x = 0
      <3> HIDE DEF a, b
      <3> QED
        BY <2>3
    <2> HIDE DEF a, b, x
    <2>6. /\ 100 * a + x \in Int /\ 100 * a <= 100 * a + x
          /\ 100 * a + x <= 100 * b
          /\ x = 0 => 100 * a + x = 100 * a
      BY <2>2, <2>4
    <2>7. /\ Interpolated(s, k) \in Int /\ 100 * s[f] <= Interpolated(s, k)
          /\ Interpolated(s, k) <= 100 * s[f + 1]
          /\ c = 0 => Interpolated(s, k) = 100 * s[f]
      BY <2>1, <2>5, <2>6 DEF a, b
    <2> QED
      BY <1>1, <1>4, <2>7 DEF f, c
  <1> QED
    BY <1>3, <1>4

\* A higher rank, no lower value.
LEMMA RanksGoUp ==
    ASSUME NEW n \in Nat \ {0}, NEW s, GoesUp(s, n),
           NEW k \in 0..(100 * (n - 1)), NEW l \in 0..(100 * (n - 1)), k <= l
    PROVE  Interpolated(s, k) <= Interpolated(s, l)
  <1> DEFINE f == (k \div 100) + 1
             g == (l \div 100) + 1
             u == Interpolated(s, k)
             w == Interpolated(s, l)
  <1>1. /\ f \in 1..n /\ u \in Int /\ 100 * s[f] <= u
        /\ f + 1 \in 1..n => u <= 100 * s[f + 1]
        /\ f + 1 \notin 1..n => u = 100 * s[f]
    <2> HIDE DEF u
    <2> QED
      BY Between DEF u
  <1>2. g \in 1..n /\ w \in Int /\ 100 * s[g] <= w
    <2> HIDE DEF w
    <2> QED
      BY Between DEF w
  <1>3. f <= g /\ (f = g => k % 100 <= l % 100)
    OBVIOUS
  <1>4. CASE f < g
    <2>1. f + 1 \in 1..n /\ f + 1 <= g
      <3> HIDE DEF f, g
      <3> QED
        BY <1>1, <1>2, <1>4
    <2> HIDE DEF f, g, u, w
    <2>2. s[f + 1] <= s[g] /\ s[f + 1] \in Int /\ s[g] \in Int
      BY <1>2, <2>1 DEF GoesUp
    <2>3. 100 * s[f + 1] <= 100 * s[g] /\ 100 * s[f + 1] \in Int /\ 100 * s[g] \in Int
      BY <2>2
    <2>4. u <= 100 * s[f + 1]
      BY <1>1, <2>1
    <2> DEFINE p == 100 * s[f + 1]
               q == 100 * s[g]
    <2> HIDE DEF p, q
    <2>5. p <= q /\ p \in Int /\ q \in Int /\ u <= p /\ q <= w
      BY <1>2, <2>3, <2>4 DEF p, q
    <2>6. u <= w
      BY <1>1, <1>2, <2>5
    <2> QED
      BY <2>6 DEF u, w
  <1>5. CASE f = g
    <2>1. CASE f + 1 \notin 1..n
      <3>1. u = 100 * s[f] /\ 100 * s[f] <= w
        BY <1>1, <1>2, <1>5, <2>1, Zenon
      <3> QED
        BY <3>1
    <2>2. CASE f + 1 \in 1..n
      <3> DEFINE a == s[f]
                 b == s[f + 1]
                 c == k % 100
                 e == l % 100
      <3>1. u = 100 * a + c * (b - a)
        BY <2>2 DEF GoesUp, Interpolated
      <3>2. w = 100 * a + e * (b - a)
        BY <1>5, <2>2 DEF GoesUp, Interpolated
      <3>3. c \in 0..100 /\ e \in 0..100 /\ c <= e
        BY <1>3, <1>5
      <3> HIDE DEF f, g, u, w, c, e
      <3>4. a \in Int /\ b \in Int /\ a <= b
        BY <1>1, <2>2 DEF GoesUp
      <3> HIDE DEF a, b
      <3>5. b - a \in Nat
        BY <3>4
      <3>6. c * (b - a) <= e * (b - a)
        BY <3>3, <3>5, MoreParts
      <3>7. c * (b - a) \in Nat /\ e * (b - a) \in Nat
        BY <3>3, <3>5, PartOf
      <3> DEFINE x == c * (b - a)
                 y == e * (b - a)
      <3> HIDE DEF x, y
      <3>8. x \in Nat /\ y \in Nat /\ x <= y /\ u = 100 * a + x /\ w = 100 * a + y
        BY <3>1, <3>2, <3>6, <3>7 DEF x, y
      <3>9. u <= w
        BY <3>4, <3>8
      <3> QED
        BY <3>9 DEF u, w
    <2> QED
      BY <2>1, <2>2
  <1>6. f < g \/ f = g
    <2> HIDE DEF f, g
    <2> QED
      BY <1>1, <1>2, <1>3
  <1> QED
    BY <1>4, <1>5, <1>6

\* From the other end the same rank is between the same values.
LEMMA RanksMirror ==
    ASSUME NEW n \in Nat \ {0}, NEW s, GoesUp(s, n), NEW t, GoesUp(t, n),
           \A i \in 1..n : t[i] = -s[(n - i) + 1],
           NEW k \in 0..(100 * (n - 1))
    PROVE  Interpolated(t, k) = -Interpolated(s, 100 * (n - 1) - k)
  <1> DEFINE l == 100 * (n - 1) - k
             f == (k \div 100) + 1
             g == (l \div 100) + 1
             c == k % 100
             e == l % 100
  <1>1. l \in 0..(100 * (n - 1))
    OBVIOUS
  <1>2. f \in 1..n /\ g \in 1..n /\ c \in 0..99 /\ e \in 0..99
    OBVIOUS
  <1>3. c = 0 => g = (n - f) + 1 /\ e = 0
    BY Z3
  <1>4. c # 0 => g = n - f /\ e = 100 - c /\ f + 1 \in 1..n /\ g + 1 \in 1..n
    BY Z3
  <1>5. DOMAIN s = 1..n /\ DOMAIN t = 1..n
    BY DEF GoesUp
  <1>6. CASE c = 0
    <2>1. Interpolated(t, k) = 100 * t[f]
      BY <1>6, Between
    <2>2. Interpolated(s, l) = 100 * s[g]
      <3>1. l % 100 = 0
        BY <1>3, <1>6
      <3> HIDE DEF l
      <3> QED
        BY <1>1, <3>1, Between DEF g
    <2> HIDE DEF l, f, g, c, e
    <2>3. t[f] = -s[g] /\ s[g] \in Int
      BY <1>2, <1>3, <1>6 DEF GoesUp
    <2>4. 100 * t[f] = -(100 * s[g])
      BY <2>3
    <2> QED
      BY <2>1, <2>2, <2>4 DEF l
  <1>7. CASE c # 0
    <2> DEFINE a == s[g]
               b == s[g + 1]
    <2>1. Interpolated(t, k) = 100 * t[f] + c * (t[f + 1] - t[f])
      BY <1>4, <1>5, <1>7 DEF Interpolated
    <2>2. Interpolated(s, l) = 100 * a + e * (b - a)
      BY <1>4, <1>5, <1>7 DEF Interpolated
    <2> HIDE DEF l, f, g, c, e
    <2>3. g = n - f /\ e = 100 - c /\ f + 1 \in 1..n /\ g + 1 \in 1..n
      BY <1>4, <1>7
    <2>4. (n - f) + 1 = g + 1 /\ (n - (f + 1)) + 1 = g
      BY <1>2, <2>3
    <2>5. t[f] = -b /\ t[f + 1] = -a
      BY <1>2, <2>3, <2>4
    <2>6. a \in Int /\ b \in Int
      BY <1>2, <2>3 DEF GoesUp
    <2> HIDE DEF a, b
    <2>7. c \in Int
      BY <1>2
    <2>8. 100 * (-b) + c * ((-a) - (-b)) = -(100 * a + (100 - c) * (b - a))
      BY <2>6, <2>7, Z3
    <2> QED
      BY <2>1, <2>2, <2>3, <2>5, <2>8 DEF l
  <1> QED
    BY <1>6, <1>7

\* The columns of the report.
LEMMA ColumnsOfReport ==
    ASSUME TypeOK, NEW values \in {Ttfts, Tpots}, DOMAIN values # {}
    PROVE  Column(values)
  <1>1. records \in Seq(Record) /\ IsFiniteSet(DOMAIN records)
    <2>1. records \in Seq(Record) /\ DOMAIN records = 1..Len(records) /\ Len(records) \in Nat
      BY DEF TypeOK
    <2> QED
      BY <2>1, FS_Interval
  <1>2. \A i \in DOMAIN records : records[i] \in Record
    BY <1>1
  <1>3. /\ DOMAIN Ttfts \in SUBSET DOMAIN records /\ DOMAIN Tpots \in SUBSET DOMAIN records
        /\ IsFiniteSet(DOMAIN Ttfts) /\ IsFiniteSet(DOMAIN Tpots)
    <2>1. /\ DOMAIN Ttfts \in SUBSET DOMAIN records
          /\ DOMAIN Tpots \in SUBSET DOMAIN records
      BY DEF Ttfts, Tpots
    <2> QED
      BY <1>1, <2>1, FS_Subset
  <1>4. ASSUME NEW i \in DOMAIN Ttfts
        PROVE  /\ records[i].ttft \in Int /\ records[i].latency \in Int
               /\ records[i].output \in Nat /\ Ttfts[i] = records[i].ttft
    BY <1>2, ConfigAssumption DEF Ttfts, Record
  <1>5. CASE values = Ttfts
    <2>1. Ttfts = [i \in DOMAIN Ttfts |-> Ttfts[i]]
      BY DEF Ttfts
    <2> QED
      BY <1>3, <1>4, <1>5, <2>1 DEF Column
  <1>6. CASE values = Tpots
    <2>1. Tpots = [i \in DOMAIN Tpots |-> Tpots[i]]
      BY DEF Tpots
    <2>2. TpotUnit \in Int
      <3> DEFINE Q == {q \in Req : OutLen[q] > 1}
                 S == {OutLen[r] - 1 : r \in Q}
                 f == [r \in Q |-> OutLen[r] - 1]
      <3>1. IsFiniteSet(Q)
        BY FiniteReq, FS_Subset
      <3>2. IsFiniteSet(S)
        <4>1. f \in Surjection(Q, S)
          BY DEF Surjection
        <4> HIDE DEF Q, S, f
        <4> QED
          BY <3>1, <4>1, FS_Surjection
      <3>3. S \in SUBSET Int
        BY RequestsAssumption
      <3> HIDE DEF S
      <3>4. ProductSet(S) \in Int
        BY <3>2, <3>3, ProductIsNumber
      <3> QED
        BY <3>4 DEF TpotUnit, S
    <2>3. ASSUME NEW i \in DOMAIN Tpots PROVE Tpots[i] \in Int
      <3>1. i \in DOMAIN Ttfts /\ records[i].output > 1
        BY DEF Tpots
      <3>2. Tpots[i] = (TpotUnit * (records[i].latency - records[i].ttft))
                           \div (records[i].output - 1)
        BY DEF Tpots
      <3> DEFINE a == TpotUnit
                 b == records[i].latency - records[i].ttft
                 d == records[i].output - 1
      <3>3. a \in Int /\ b \in Int /\ d \in Nat \ {0}
        BY <1>4, <2>2, <3>1
      <3> HIDE DEF a, b, d
      <3>4. \A u, w \in Int : u * w \in Int
        OBVIOUS
      <3>5. \A u \in Int, w \in Nat \ {0} : u \div w \in Int
        OBVIOUS
      <3>6. (a * b) \div d \in Int
        BY <3>3, <3>4, <3>5
      <3> QED
        BY <3>2, <3>6 DEF a, b, d
    <2> QED
      BY <1>3, <1>6, <2>1, <2>3 DEF Column
  <1> QED
    BY <1>5, <1>6

\* What the report calls percentiles are percentiles, of any numbers.
LEMMA PercentilesOf ==
    ASSUME NEW values, Column(values)
    PROVE  LET p50 == Percentile(values, 50)
               p99 == Percentile(values, 99)
               n    == Cardinality(DOMAIN values)
               low  == {i \in DOMAIN values : 100 * values[i] <= p50}
               high == {i \in DOMAIN values : 100 * values[i] >= p50}
           IN /\ p50 <= p99 /\ p99 <= 100 * Max(Range(values))
              /\ n <= 2 * Cardinality(low)
              /\ n <= 2 * Cardinality(high)
              /\ \A p \in {1, 50, 99} :
                   Percentile([i \in DOMAIN values |-> -values[i]], p)
                       = -Percentile(values, 100 - p)
  <1> DEFINE D == DOMAIN values
             n == Cardinality(D)
             s == SortedUp(values)
             p50 == Percentile(values, 50)
             p99 == Percentile(values, 99)
             low  == {i \in D : 100 * values[i] <= p50}
             high == {i \in D : 100 * values[i] >= p50}
             minus == [i \in D |-> -values[i]]
             t == SortedUp(minus)
  <1>1. IsFiniteSet(D) /\ D # {} /\ n \in Nat \ {0} /\ \A i \in D : values[i] \in Int
    <2>1. IsFiniteSet(D) /\ D # {} /\ \A i \in D : values[i] \in Int
      BY DEF Column
    <2> QED
      BY <2>1, FS_CardinalityType, FS_EmptySet
  <1>2. DOMAIN minus = D /\ \A i \in D : minus[i] = -values[i]
    OBVIOUS
  <1>3. /\ GoesUp(s, n)
        /\ \A k \in 1..n : /\ s[k] \in Range(values) /\ s[k] \in Int
                           /\ k <= Cardinality(UpTo(values, s[k]))
                           /\ Cardinality(Under(values, s[k])) < k
    <2>1. DOMAIN s = 1..n
      BY DEF SortedUp
    <2>2. \A k \in 1..n : /\ s[k] \in Range(values) /\ s[k] \in Int
                          /\ k <= Cardinality(UpTo(values, s[k]))
                          /\ Cardinality(Under(values, s[k])) < k
      BY SortedPlace
    <2>3. \A k, l \in 1..n : k <= l => s[k] <= s[l]
      BY SortedGoesUp
    <2> HIDE DEF s, n
    <2> QED
      BY <2>1, <2>2, <2>3 DEF GoesUp
  <1>4. /\ Column(minus) /\ \A k \in 1..n : t[k] = -s[(n - k) + 1]
    <2>1. \A k \in 1..n : Column(minus) /\ t[k] = -s[(n - k) + 1]
      BY SortedMirror
    <2>2. 1 \in 1..n
      BY <1>1
    <2> HIDE DEF n, t, s, minus
    <2> QED
      BY <2>1, <2>2
  <1>5. GoesUp(t, n)
    <2>1. Cardinality(DOMAIN minus) = n
      BY <1>2
    <2>2. DOMAIN t = 1..n
      BY <2>1 DEF SortedUp
    <2> HIDE DEF n, minus
    <2>3. \A k \in 1..n : t[k] \in Int
      BY <1>4, <2>1, SortedPlace
    <2>4. \A k, l \in 1..n : k <= l => t[k] <= t[l]
      BY <1>4, <2>1, SortedGoesUp
    <2> HIDE DEF t
    <2> QED
      BY <2>2, <2>3, <2>4 DEF GoesUp
  <1>6. /\ p50 = Interpolated(s, 50 * (n - 1)) /\ p99 = Interpolated(s, 99 * (n - 1))
        /\ \A p \in {1, 50, 99} : /\ Percentile(values, p) = Interpolated(s, p * (n - 1))
                                  /\ Percentile(minus, p) = Interpolated(t, p * (n - 1))
    BY <1>1, <1>2 DEF Percentile
  <1> HIDE DEF s, t, p50, p99
  <1>7. \A p \in {1, 50, 99} : Percentile(minus, p) = -Percentile(values, 100 - p)
    <2> SUFFICES ASSUME NEW p \in {1, 50, 99}
                 PROVE  Percentile(minus, p) = -Percentile(values, 100 - p)
      OBVIOUS
    <2> HIDE DEF n, minus
    <2>1. /\ p * (n - 1) \in 0..(100 * (n - 1)) /\ 100 - p \in {1, 50, 99}
          /\ 100 * (n - 1) - p * (n - 1) = (100 - p) * (n - 1)
      BY <1>1
    <2>2. Interpolated(t, p * (n - 1)) = -Interpolated(s, 100 * (n - 1) - p * (n - 1))
      BY <1>1, <1>3, <1>4, <1>5, <2>1, RanksMirror
    <2> QED
      BY <1>6, <2>1, <2>2
  <1>8. p50 <= p99
    <2> HIDE DEF n
    <2>1. /\ 50 * (n - 1) \in 0..(100 * (n - 1)) /\ 99 * (n - 1) \in 0..(100 * (n - 1))
          /\ 50 * (n - 1) <= 99 * (n - 1)
      BY <1>1
    <2> QED
      BY <1>1, <1>3, <1>6, <2>1, RanksGoUp
  <1>9. p99 <= 100 * Max(Range(values))
    <2>1. PICK g \in D : \A j \in D : values[j] <= values[g]
      BY <1>1, GreatestValue
    <2>2. /\ values[g] \in Range(values) /\ \A v \in Range(values) : v \in Int /\ v <= values[g]
      BY <1>1, <2>1 DEF Range
    <2>3. Max(Range(values)) \in Range(values)
          /\ \A v \in Range(values) : v <= Max(Range(values))
      <3>1. \E x \in Range(values) : \A y \in Range(values) : x >= y
        BY <2>2
      <3>2. /\ Max(Range(values)) \in Range(values)
            /\ \A y \in Range(values) : Max(Range(values)) >= y
        BY <3>1 DEF Max
      <3> QED
        BY <2>2, <3>2
    <2> DEFINE m == Max(Range(values))
               k == 99 * (n - 1)
               f == (k \div 100) + 1
    <2>4. m \in Int /\ \A i \in 1..n : s[i] <= m
      BY <1>3, <2>2, <2>3
    <2>5. k \in 0..(100 * (n - 1)) /\ f \in 1..n
      <3> HIDE DEF n
      <3> QED
        BY <1>1
    <2>6. /\ p99 \in Int
          /\ f + 1 \in 1..n => p99 <= 100 * s[f + 1]
          /\ f + 1 \notin 1..n => p99 = 100 * s[f]
      <3> HIDE DEF n, k
      <3> QED
        BY <1>1, <1>3, <1>6, <2>5, Between DEF k, f
    <2> HIDE DEF m, f, k, n
    <2>7. CASE f + 1 \in 1..n
      <3>1. s[f + 1] \in Int /\ s[f + 1] <= m
        BY <1>3, <2>4, <2>7
      <3>2. p99 <= 100 * m
        BY <2>4, <2>6, <2>7, <3>1
      <3> QED
        BY <3>2 DEF m
    <2>8. CASE f + 1 \notin 1..n
      <3>1. s[f] \in Int /\ s[f] <= m
        BY <1>3, <2>4, <2>5
      <3>2. p99 <= 100 * m
        BY <2>4, <2>6, <2>8, <3>1
      <3> QED
        BY <3>2 DEF m
    <2> QED
      BY <2>7, <2>8
  <1> DEFINE k == 50 * (n - 1)
             f == (k \div 100) + 1
  <1>10. /\ k \in 0..(100 * (n - 1)) /\ f \in 1..n /\ n <= 2 * f
         /\ k % 100 = 0 => n <= 2 * ((n - f) + 1)
         /\ k % 100 # 0 => f + 1 \in 1..n /\ n <= 2 * (n - f)
    <2> HIDE DEF n
    <2> QED
      BY <1>1, Z3
  <1>11. /\ p50 \in Int /\ 100 * s[f] <= p50
         /\ f + 1 \in 1..n => p50 <= 100 * s[f + 1]
         /\ k % 100 = 0 => p50 = 100 * s[f]
    <2> HIDE DEF n, k
    <2> QED
      BY <1>1, <1>3, <1>6, <1>10, Between DEF k, f
  <1> HIDE DEF k, f
  <1>12. n <= 2 * Cardinality(low)
    <2>1. UpTo(values, s[f]) \in SUBSET low
      <3> SUFFICES ASSUME NEW i \in D, values[i] <= s[f]
                   PROVE  100 * values[i] <= p50
        BY DEF UpTo
      <3>1. values[i] \in Int /\ s[f] \in Int
        BY <1>1, <1>3, <1>10
      <3> QED
        BY <1>11, <3>1
    <2>2. IsFiniteSet(low) /\ Cardinality(low) \in Nat
      <3>1. low \in SUBSET D
        OBVIOUS
      <3> HIDE DEF low
      <3> QED
        BY <1>1, <3>1, FS_Subset, FS_CardinalityType
    <2>3. f <= Cardinality(UpTo(values, s[f])) /\ Cardinality(UpTo(values, s[f])) \in Nat
      BY <1>3, <1>10, Sides
    <2> HIDE DEF low, n
    <2>4. Cardinality(UpTo(values, s[f])) <= Cardinality(low)
      BY <2>1, <2>2, FS_Subset
    <2> QED
      BY <1>1, <1>10, <2>2, <2>3, <2>4
  <1>13. n <= 2 * Cardinality(high)
    <2> DEFINE o == IF k % 100 = 0 THEN f ELSE f + 1
    <2>1. o \in 1..n /\ p50 <= 100 * s[o] /\ n <= 2 * ((n - o) + 1)
      <3> HIDE DEF n
      <3>1. CASE k % 100 = 0
        <4>1. o = f /\ 100 * s[f] \in Int
          BY <1>3, <1>10, <3>1
        <4> QED
          BY <1>10, <1>11, <3>1, <4>1
      <3>2. CASE k % 100 # 0
        BY <1>1, <1>10, <1>11, <3>2
      <3> QED
        BY <3>1, <3>2
    <2> HIDE DEF o
    <2>2. Over(values, s[o]) \in SUBSET high
      <3> SUFFICES ASSUME NEW i \in D, s[o] <= values[i]
                   PROVE  100 * values[i] >= p50
        BY DEF Over
      <3>1. values[i] \in Int /\ s[o] \in Int
        BY <1>1, <1>3, <2>1
      <3> QED
        BY <1>11, <2>1, <3>1
    <2>3. IsFiniteSet(high) /\ Cardinality(high) \in Nat
      <3>1. high \in SUBSET D
        OBVIOUS
      <3> HIDE DEF high
      <3> QED
        BY <1>1, <3>1, FS_Subset, FS_CardinalityType
    <2>4. /\ Cardinality(Over(values, s[o])) = n - Cardinality(Under(values, s[o]))
          /\ Cardinality(Under(values, s[o])) < o
          /\ Cardinality(Over(values, s[o])) \in Nat /\ Cardinality(Under(values, s[o])) \in Nat
      BY <1>3, <2>1, Sides
    <2> HIDE DEF high, n
    <2>5. Cardinality(Over(values, s[o])) <= Cardinality(high)
      BY <2>2, <2>3, FS_Subset
    <2> QED
      BY <1>1, <2>1, <2>3, <2>4, <2>5
  <1> QED
    BY <1>7, <1>8, <1>9, <1>12, <1>13 DEF p50, p99

\* The percentiles of the report mean what their names say, whatever finishes in
\* whatever order: in order, below the largest value, half of the values on each side
\* of the median, and no side favoured.
THEOREM PercentilesMeanIt == Spec => []PercentilesFaithful
  <1>1. TypeOK => PercentilesFaithful
    <2> SUFFICES ASSUME TypeOK, NEW values \in {Ttfts, Tpots}, DOMAIN values # {}
                 PROVE  LET p50 == Percentile(values, 50)
                            p99 == Percentile(values, 99)
                            n    == Cardinality(DOMAIN values)
                            low  == {i \in DOMAIN values : 100 * values[i] <= p50}
                            high == {i \in DOMAIN values : 100 * values[i] >= p50}
                        IN /\ p50 <= p99 /\ p99 <= 100 * Max(Range(values))
                           /\ n <= 2 * Cardinality(low)
                           /\ n <= 2 * Cardinality(high)
                           /\ \A p \in {1, 50, 99} :
                                Percentile([i \in DOMAIN values |-> -values[i]], p)
                                    = -Percentile(values, 100 - p)
      BY Zenon DEF PercentilesFaithful
    <2>1. Column(values)
      BY ColumnsOfReport
    <2> QED
      BY <2>1, PercentilesOf
  <1> QED
    BY <1>1, SchedulerTypes, PTL

-----------------------------------------------------------------------------
(* The loop winds down                                                     *)

\* What a request still has to do: to be admitted, to be prefilled, to be decoded
\* token by token, to be finished.
Owed == [r \in Req |->
    CASE status[r] = "queued"   -> OutLen[r] + 3
      [] status[r] = "prefill"  -> OutLen[r] + 2
      [] status[r] = "decoding" ->
           1 + (IF outLen[r] < OutLen[r] THEN OutLen[r] - outLen[r] ELSE 0)
      [] OTHER -> 0]

Work == SumOver(Owed)

\* Something was computed or generated in this step.
Progressed == totals.computed > 0 \/ totals.generated > 0

\* The stalled steps that are left before the loop gives up, and one more between the
\* handlers that make progress, or that do not, and the end of their step.
Patience ==
    IF phase \in {"process", "raised_oom"} /\ Progressed THEN StallLimit + 1
    ELSE IF phase = "cleanup" /\ running # <<>> THEN StallLimit - stallCount + 1
    ELSE StallLimit - stallCount

\* With nothing running, time has yet to jump to the next arrival.
Lateness == IF running = <<>> /\ waiting # <<>> /\ Arrival[Head(waiting)] > simTime
            THEN 1 ELSE 0

\* What is left of the step
Stage == CASE phase = "idle" -> 3 [] phase = "process" -> 2
           [] phase = "cleanup" -> 1 [] OTHER -> 0

Measure == <<Work, Patience, Lateness, Stage, Len(todo)>>

\* The lexicographic order of sequences of one length
Below(a, b) == \E i \in DOMAIN a : a[i] < b[i] /\ \A j \in 1..(i - 1) : a[j] = b[j]

\* One sum of natural numbers is below another if no number is above its
\* counterpart, and one is below.
LEMMA SumFalls ==
    ASSUME NEW S, IsFiniteSet(S), NEW f, NEW d, NEW y \in S, d[y] < f[y],
           \A x \in S : f[x] \in Nat /\ d[x] \in Nat /\ d[x] <= f[x]
    PROVE  SumFunctionOnSet(d, S) < SumFunctionOnSet(f, S)
  <1> DEFINE h == [x \in S |-> f[x] - d[x]]
  <1>1. \A x \in S : h[x] \in Nat /\ h[x] = 1 * f[x] + (-1) * d[x]
                     /\ f[x] \in Int /\ d[x] \in Int
    OBVIOUS
  <1>2. h[y] > 0
    OBVIOUS
  <1> HIDE DEF h
  <1>3. SumFunctionOnSet(h, S)
            = 1 * SumFunctionOnSet(f, S) + (-1) * SumFunctionOnSet(d, S)
    BY <1>1, SumLinear
  <1>4. h[y] <= SumFunctionOnSet(h, S) /\ SumFunctionOnSet(h, S) \in Nat
    BY <1>1, SumBounds
  <1>5. SumFunctionOnSet(f, S) \in Nat /\ SumFunctionOnSet(d, S) \in Nat
    BY <1>1, SumType
  <1>6. h[y] \in Nat
    BY <1>1
  <1> QED
    BY <1>2, <1>3, <1>4, <1>5, <1>6

\* What is owed are numbers, and so is their sum.
LEMMA OwedNumbers == TypeOK => Owed \in [Req -> Nat] /\ Work \in Nat
  <1> SUFFICES ASSUME TypeOK PROVE Owed \in [Req -> Nat] /\ Work \in Nat
    OBVIOUS
  <1>1. ASSUME NEW r \in Req PROVE Owed[r] \in Nat
    <2>1. /\ OutLen[r] \in Nat /\ outLen[r] \in Nat
          /\ status[r] \in {"queued", "prefill", "decoding", "finished"}
      BY RequestsAssumption DEF TypeOK
    <2> QED
      BY <2>1 DEF Owed
  <1>2. Owed \in [Req -> Nat] /\ DOMAIN Owed = Req
    BY <1>1 DEF Owed
  <1>3. Work \in Nat
    BY <1>1, <1>2, FiniteReq, SumType DEF Work, SumOver
  <1> QED
    BY <1>2, <1>3

\* The same after a step.
LEMMA OwedNumbersNext == TypeOK' => (Owed \in [Req -> Nat] /\ Work \in Nat)'
  BY OwedNumbers, PTL

\* Work for which one request owes less, and none owes more, falls.
LEMMA WorkFalls ==
    ASSUME TypeOK, TypeOK', NEW r \in Req, Owed'[r] < Owed[r],
           \A q \in Req : Owed'[q] <= Owed[q]
    PROVE  Work' < Work
  <1>1. /\ \A q \in Req : Owed[q] \in Nat /\ Owed'[q] \in Nat /\ Owed'[q] <= Owed[q]
        /\ DOMAIN Owed = Req /\ DOMAIN Owed' = Req
    BY OwedNumbers, OwedNumbersNext
  <1> DEFINE f == Owed
             d == Owed'
  <1>2. SumFunctionOnSet(d, Req) < SumFunctionOnSet(f, Req)
    <2>1. \A x \in Req : f[x] \in Nat /\ d[x] \in Nat /\ d[x] <= f[x]
      BY <1>1
    <2>2. d[r] < f[r]
      OBVIOUS
    <2> HIDE DEF f, d
    <2> QED
      BY <2>1, <2>2, FiniteReq, SumFalls
  <1>3. Work' = SumFunctionOnSet(d, Req) /\ Work = SumFunctionOnSet(f, Req)
    BY <1>1 DEF Work, SumOver
  <1> QED
    BY <1>2, <1>3

\* Owing and work only depend on the statuses and the outputs.
LEMMA WorkStays == UNCHANGED <<status, outLen>> => Work' = Work
  BY DEF Work, Owed

\* A prefill, or the decode of a token or more, leaves less work.
LEMMA HandlerWorks ==
    ASSUME TypeOK, TypeOK', NEW r \in Req,
           \A q \in Req \ {r} : status'[q] = status[q] /\ outLen'[q] = outLen[q],
           \/ /\ status[r] = "prefill" /\ status'[r] = "decoding"
           \/ /\ status[r] = "decoding" /\ status'[r] = "finished"
           \/ /\ status[r] = "decoding" /\ status'[r] = "decoding"
              /\ outLen[r] < outLen'[r] /\ outLen'[r] < OutLen[r]
    PROVE  Work' < Work
  <1>1. \A q \in Req \ {r} : Owed'[q] = Owed[q]
    BY DEF Owed
  <1>2. OutLen[r] \in Nat /\ outLen[r] \in Nat /\ outLen'[r] \in Nat
    BY RequestsAssumption DEF TypeOK
  <1>3. Owed'[r] < Owed[r]
    BY <1>2 DEF Owed
  <1>4. \A q \in Req : Owed[q] \in Nat /\ Owed'[q] \in Nat
    BY OwedNumbers, OwedNumbersNext
  <1>5. \A q \in Req : Owed'[q] <= Owed[q]
    <2> TAKE q \in Req
    <2>1. CASE q = r
      BY <1>3, <1>4, <2>1
    <2>2. CASE q # r
      BY <1>1, <1>4, <2>2
    <2> QED
      BY <2>1, <2>2
  <1> QED
    BY <1>3, <1>5, WorkFalls

\* So does the admission of a request.
LEMMA AdmissionWorks ==
    ASSUME TypeOK, TypeOK', NEW adm \in Seq(Req), adm # <<>>,
           \A r \in Range(adm) : status[r] = "queued",
           UNCHANGED outLen,
           status' = [r \in Req |-> IF r \in Range(adm) THEN "prefill" ELSE status[r]]
    PROVE  Work' < Work
  <1>1. PICK r \in Range(adm) : r \in Req
    BY DEF Range
  <1>2. \A q \in Req : OutLen[q] \in Nat /\ Owed[q] \in Nat
    BY RequestsAssumption, OwedNumbers
  <1>3. ASSUME NEW q \in Req, q \in Range(adm) PROVE Owed'[q] < Owed[q]
    <2>1. status[q] = "queued" /\ status'[q] = "prefill"
      BY <1>3
    <2>2. Owed[q] = OutLen[q] + 3 /\ Owed'[q] = OutLen[q] + 2
      BY <2>1 DEF Owed
    <2> QED
      BY <1>2, <2>2
  <1>4. ASSUME NEW q \in Req, q \notin Range(adm) PROVE Owed'[q] = Owed[q]
    BY <1>4 DEF Owed
  <1>5. \A q \in Req : Owed'[q] <= Owed[q]
    <2>1. \A q \in Req : Owed'[q] \in Nat
      BY OwedNumbersNext
    <2> QED
      BY <1>2, <1>3, <1>4, <2>1
  <1> QED
    BY <1>1, <1>3, <1>5, WorkFalls

\* When time jumps: nothing runs, so the step does nothing, did not stall, and the
\* next request has yet to arrive.  A stalled step leaves something running.
WindInv ==
    /\ stallCount <= StallLimit
    /\ Live => stallCount < StallLimit
    /\ phase = "idle" \/ (phase = "process" /\ ~Progressed)
         => \A r \in Range(running) : status[r] # "finished"
    /\ phase = "cleanup" /\ Active = {} => stallCount = 0
    /\ running = <<>> /\ Live => stallCount = 0
    /\ running = <<>> /\ phase = "process" => ~Progressed
    /\ running = <<>> /\ phase \in {"process", "cleanup"} /\ waiting # <<>>
         => Arrival[Head(waiting)] > simTime

\* Nobody runs at first.
LEMMA WindInit == Init => WindInv
  <1> SUFFICES ASSUME Init PROVE WindInv
    OBVIOUS
  <1>1. stallCount = 0 /\ running = <<>> /\ phase = "idle"
    BY DEF Init
  <1>2. Range(running) = {}
    BY <1>1 DEF Range
  <1> QED
    BY <1>1, <1>2, ConfigAssumption DEF WindInv, Live

\* The batch is only empty after an admission if it was before and nobody came.
LEMMA EmptyBatch ==
    ASSUME NEW run \in Seq(Req), NEW adm \in Seq(Req)
    PROVE  /\ FoldLeft(Entered, run, adm) = <<>> => run = <<>> /\ adm = <<>>
           /\ adm = <<>> => FoldLeft(Entered, run, adm) = run
           /\ Range(FoldLeft(Entered, run, adm)) \in SUBSET (Range(run) \cup Range(adm))
  <1> DEFINE n == Len(adm)
  <1>1. PICK h \in [0..n -> Seq(Req)] :
            /\ h[0] = run
            /\ \A i \in 1..n : h[i] = Entered(h[i - 1], adm[i])
            /\ FoldLeft(Entered, run, adm) = h[n]
    BY Entering
  <1>2. n \in Nat /\ DOMAIN adm = 1..n /\ \A i \in 1..n : adm[i] \in Req
    OBVIOUS
  <1>3. adm = <<>> <=> n = 0
    OBVIOUS
  <1> HIDE DEF n
  <1>4. ASSUME NEW e \in Seq(Req), NEW r \in Req
        PROVE  /\ Entered(e, r) # <<>>
               /\ Range(Entered(e, r)) \in SUBSET (Range(e) \cup {r})
    <2>1. CASE \E i \in DOMAIN e : Id[e[i]] = Id[r]
      <3>1. Entered(e, r) = [i \in DOMAIN e |-> IF Id[e[i]] = Id[r] THEN r ELSE e[i]]
        BY <2>1 DEF Entered
      <3>2. DOMAIN Entered(e, r) = DOMAIN e /\ DOMAIN e # {}
        BY <2>1, <3>1
      <3>3. DOMAIN <<>> = {}
        OBVIOUS
      <3>4. Range(Entered(e, r)) \in SUBSET (Range(e) \cup {r})
        BY <3>1 DEF Range
      <3> QED
        BY <3>2, <3>3, <3>4
    <2>2. CASE ~\E i \in DOMAIN e : Id[e[i]] = Id[r]
      <3>1. Entered(e, r) = Append(e, r)
        BY <2>2, Zenon DEF Entered
      <3>2. Len(Append(e, r)) = Len(e) + 1 /\ Len(e) \in Nat /\ Len(<<>>) = 0
        OBVIOUS
      <3>3. Range(Append(e, r)) \in SUBSET (Range(e) \cup {r})
        BY DEF Range
      <3> QED
        BY <3>1, <3>2, <3>3
    <2> QED
      BY <2>1, <2>2
  <1>5. ASSUME n # 0 PROVE h[n] # <<>>
    <2>1. n \in 1..n /\ n - 1 \in 0..n
      BY <1>2, <1>5
    <2>2. h[n] = Entered(h[n - 1], adm[n]) /\ h[n - 1] \in Seq(Req) /\ adm[n] \in Req
      BY <1>1, <1>2, <2>1
    <2> QED
      BY <1>4, <2>2
  <1>6. \A i \in 0..n : Range(h[i]) \in SUBSET (Range(run) \cup Range(adm))
    <2> DEFINE T == {i \in Nat : i <= n =>
                        Range(h[i]) \in SUBSET (Range(run) \cup Range(adm))}
    <2>1. 0 \in T
      BY <1>1
    <2>2. ASSUME NEW i \in Nat, i \in T PROVE i + 1 \in T
      <3> SUFFICES ASSUME i + 1 <= n
                   PROVE  Range(h[i + 1]) \in SUBSET (Range(run) \cup Range(adm))
        OBVIOUS
      <3>1. i + 1 \in 1..n /\ i \in 0..n /\ (i + 1) - 1 = i
        BY <1>2
      <3>2. h[i + 1] = Entered(h[i], adm[i + 1]) /\ h[i] \in Seq(Req)
            /\ adm[i + 1] \in Req /\ adm[i + 1] \in Range(adm)
        BY <1>1, <1>2, <3>1 DEF Range
      <3>3. Range(h[i]) \in SUBSET (Range(run) \cup Range(adm))
        BY <1>2, <2>2, <3>1
      <3> QED
        BY <1>4, <3>2, <3>3
    <2> HIDE DEF T
    <2>3. \A i \in Nat : i \in T
      BY <2>1, <2>2, SetInduction
    <2> QED
      BY <1>2, <2>3 DEF T
  <1>7. n \in 0..n
    BY <1>2
  <1> QED
    BY <1>1, <1>3, <1>5, <1>6, <1>7

\* A step that lowers the first number of the measure that it changes.
Lowers ==
    \/ Work' < Work
    \/ Work' = Work /\ Patience' < Patience
    \/ Work' = Work /\ Patience' = Patience /\ Lateness' < Lateness
    \/ Work' = Work /\ Patience' = Patience /\ Lateness' = Lateness /\ Stage' < Stage
    \/ /\ Work' = Work /\ Patience' = Patience /\ Lateness' = Lateness
       /\ Stage' = Stage /\ Len(todo') < Len(todo)

\* The admission of a request is work done; without one, the step itself is begun.
LEMMA StartLowers ==
    ASSUME TypeOK, TypeOK', BatchInv, BatchInv', WindInv, StartStep
    PROVE  WindInv' /\ Lowers
  <1>1. PICK adm, rest : Admits(adm, rest)
    BY StartEffect
  <1>2. /\ phase = "idle" /\ phase' = "process" /\ todo' = running'
        /\ UNCHANGED <<simTime, stallCount, outLen>>
        /\ totals'.computed = 0 /\ totals'.generated = 0
    BY DEF StartStep, Fresh, Zero
  <1>3. /\ adm \in Seq(Req) /\ rest \in Seq(Req) /\ running \in Seq(Req)
        /\ Range(waiting) = Range(adm) \cup Range(rest)
        /\ waiting' = rest /\ running' = FoldLeft(Entered, running, adm)
        /\ status' = [r \in Req |-> IF r \in Range(adm) THEN "prefill" ELSE status[r]]
    BY <1>1 DEF Admits, TypeOK
  <1>4. /\ running' = <<>> => running = <<>> /\ adm = <<>>
        /\ adm = <<>> => running' = running
        /\ Range(running') \in SUBSET (Range(running) \cup Range(adm))
    BY <1>3, EmptyBatch
  <1>5. ~Progressed'
    BY <1>2 DEF Progressed
  <1>6. \A r \in Range(running') : status'[r] # "finished"
    <2>1. Range(running') \in SUBSET Req
      BY DEF TypeOK, Range
    <2> QED
      BY <1>2, <1>3, <1>4, <2>1 DEF WindInv
  <1>7. waiting' # <<>> => Arrival[Head(waiting')] > simTime'
    <2>1. ASSUME rest # <<>> PROVE Head(rest) \in Range(rest)
      <3>1. Head(rest) = rest[1] /\ 1 \in DOMAIN rest
        BY <1>3, <2>1
      <3> QED
        BY <3>1 DEF Range
    <2> QED
      BY <1>2, <1>3, <2>1 DEF BatchInv
  <1>8. WindInv'
    BY <1>2, <1>4, <1>5, <1>6, <1>7 DEF WindInv, Live
  <1>9. CASE adm # <<>>
    <2>1. Range(adm) \in SUBSET Req
      BY <1>3 DEF Range
    <2>2. \A r \in Range(adm) : status[r] = "queued"
      BY <1>3, <2>1 DEF BatchInv, Queued
    <2>3. Work' < Work
      BY <1>2, <1>3, <1>9, <2>2, AdmissionWorks
    <2> QED
      BY <1>8, <2>3 DEF Lowers
  <1>10. CASE adm = <<>>
    <2>1. Range(adm) = {}
      BY <1>10 DEF Range
    <2>2. running' = running /\ status' = status
      BY <1>3, <1>4, <1>10, <2>1 DEF TypeOK
    <2>3. Work' = Work
      BY <1>2, <2>2, WorkStays
    <2>4. Patience' = Patience
      BY <1>2, <1>5 DEF Patience
    <2>5. waiting' = waiting
      <3> DEFINE come == SubSeq(waiting, 1, Due)
                 n == Len(waiting)
      <3>1. /\ waiting' = SubSeq(waiting, Due + 1, n)
            /\ status' = [r \in Req |-> IF r \in Range(come) THEN "prefill" ELSE status[r]]
        BY DEF StartStep
      <3>2. waiting \in Seq(Req) /\ n \in Nat /\ Due \in 0..n
        BY DueSplits DEF TypeOK
      <3>3. ASSUME Due # 0 PROVE FALSE
        <4>1. waiting[1] \in Req /\ waiting[1] \in Range(waiting)
          BY <3>2, <3>3 DEF Range
        <4>2. 1 \in DOMAIN come /\ come[1] = waiting[1]
          BY <3>2, <3>3
        <4>3. waiting[1] \in Range(come)
          BY <4>2 DEF Range
        <4>4. status'[waiting[1]] = "prefill" /\ status[waiting[1]] = "queued"
          BY <3>1, <4>1, <4>3 DEF BatchInv, Queued
        <4> QED
          BY <2>2, <4>4
      <3>4. SubSeq(waiting, 0 + 1, n) = waiting
        BY <3>2
      <3> QED
        BY <3>1, <3>3, <3>4
    <2>6. Lateness' = Lateness
      BY <1>2, <2>2, <2>5 DEF Lateness
    <2>7. Stage' < Stage
      BY <1>2 DEF Stage
    <2> QED
      BY <1>8, <2>3, <2>4, <2>6, <2>7 DEF Lowers
  <1> QED
    BY <1>9, <1>10

\* A handler does work, or lets its request sit the step out, or ends the run.
LEMMA HandlersLower ==
    ASSUME TypeOK, TypeOK', BatchInv, BatchInv', WindInv,
           HandlePrefill \/ PrefillOutOfMemory \/ HandleDecode \/ DecodeSkipped
    PROVE  WindInv' /\ Lowers
  <1>1. /\ Head(todo) \in Req /\ Head(todo) \in Range(running) /\ running # <<>>
        /\ phase = "process" /\ UNCHANGED <<waiting, running, simTime, stallCount>>
    <2>1. todo # <<>> /\ phase = "process"
          /\ UNCHANGED <<waiting, running, simTime, stallCount>>
      BY DEF HandlePrefill, PrefillOutOfMemory, HandleDecode, DecodeSkipped
    <2>2. Head(todo) \in Req /\ Head(todo) \in Range(running)
      BY <2>1, TodoRest
    <2>3. Range(<<>>) = {}
      BY DEF Range
    <2> QED
      BY <2>1, <2>2, <2>3
  <1>2. Range(running) \in SUBSET Req
    BY DEF TypeOK, Range
  <1>3. /\ totals \in Counters /\ totals.computed \in Nat /\ totals.generated \in Nat
    BY DEF TypeOK, Counters
  <1>4. CASE HandlePrefill
    <2> DEFINE r == Head(todo)
    <2>1. /\ phase' = "process" /\ status[r] = "prefill" /\ UNCHANGED outLen
          /\ status' = [status EXCEPT ![r] = "decoding"]
      BY <1>4 DEF HandlePrefill
    <2>2. PICK h \in Hits[r] : totals' = Counted(h, PromptLen[r] - h, 0, 0)
      BY <1>4 DEF HandlePrefill
    <2>3. r \in Req
      BY <1>1
    <2> HIDE DEF r
    <2>4. /\ status'[r] = "decoding"
          /\ \A q \in Req \ {r} : status'[q] = status[q] /\ outLen'[q] = outLen[q]
      BY <2>1, <2>3 DEF TypeOK
    <2>5. Work' < Work
      BY <2>1, <2>3, <2>4, HandlerWorks
    <2>6. ~Progressed' => ~Progressed
      <3>1. h \in Nat /\ PromptLen[r] \in Nat /\ PromptLen[r] - h \in Nat
        BY <2>2, <2>3, RequestsAssumption
      <3>2. /\ totals'.computed = totals.computed + (PromptLen[r] - h)
            /\ totals'.generated = totals.generated + 0
        BY <2>2 DEF Counted
      <3> QED
        BY <1>3, <3>1, <3>2 DEF Progressed
    <2>7. WindInv'
      BY <1>1, <1>2, <2>1, <2>4, <2>6 DEF WindInv, Live
    <2> QED
      BY <2>5, <2>7 DEF Lowers
  <1>5. CASE PrefillOutOfMemory
    <2>1. phase' = "raised_oom" /\ UNCHANGED <<status, outLen, totals, todo>>
      BY <1>5 DEF PrefillOutOfMemory
    <2>2. Work' = Work
      BY <2>1, WorkStays
    <2>3. Patience' = Patience /\ Lateness' = Lateness
      BY <1>1, <2>1 DEF Patience, Lateness, Progressed
    <2>4. Stage' < Stage
      BY <1>1, <2>1 DEF Stage
    <2>5. WindInv'
      BY <1>1, <2>1 DEF WindInv, Live
    <2> QED
      BY <2>2, <2>3, <2>4, <2>5 DEF Lowers
  <1>6. CASE HandleDecode
    <2>1. PICK r, k, a, j : Decodes(r, k, a, j)
      BY <1>6, DecodeEffect
    <2>2. phase' = "process"
      BY <1>6, <1>1 DEF HandleDecode
    <2>3. /\ r \in Req /\ status[r] = "decoding" /\ k \in Nat /\ a \in Nat
          /\ outLen' = [outLen EXCEPT ![r] = outLen[r] + (Bonus(r) + a)]
          /\ totals' = Counted(numComputed[r], 1 + k, a, Bonus(r) + a)
          /\ status' = [status EXCEPT ![r] = IF outLen[r] + (Bonus(r) + a) >= OutLen[r]
                                             THEN "finished" ELSE "decoding"]
      BY <2>1 DEF Decodes
    <2> DEFINE b == Bonus(r)
    <2>4. /\ b \in Nat /\ outLen[r] \in Nat /\ OutLen[r] \in Nat
          /\ outLen[r] < OutLen[r] => b = 1
      BY <2>3, RequestsAssumption DEF Bonus, TypeOK
    <2>5. /\ outLen'[r] = outLen[r] + (b + a)
          /\ status'[r] = IF outLen[r] + (b + a) >= OutLen[r] THEN "finished"
                                                             ELSE "decoding"
          /\ \A q \in Req \ {r} : status'[q] = status[q] /\ outLen'[q] = outLen[q]
      BY <2>3 DEF TypeOK
    <2>6. totals'.computed = totals.computed + (1 + k)
      BY <2>3 DEF Counted
    <2> HIDE DEF b
    <2>7. \/ status'[r] = "finished"
          \/ status'[r] = "decoding" /\ outLen[r] < outLen'[r] /\ outLen'[r] < OutLen[r]
      BY <2>3, <2>4, <2>5
    <2>8. Work' < Work
      BY <2>3, <2>5, <2>7, HandlerWorks
    <2>9. Progressed'
      BY <1>3, <2>3, <2>6 DEF Progressed
    <2>10. WindInv'
      BY <1>1, <2>2, <2>9 DEF WindInv, Live
    <2> QED
      BY <2>8, <2>10 DEF Lowers
  <1>7. CASE DecodeSkipped
    <2>1. /\ phase' = "process" /\ UNCHANGED <<status, outLen, totals>>
          /\ todo # <<>> /\ todo' = Tail(todo)
      BY <1>1, <1>7 DEF DecodeSkipped, requestVars
    <2>2. Work' = Work
      BY <2>1, WorkStays
    <2>3. Patience' = Patience /\ Lateness' = Lateness /\ Stage' = Stage
      BY <1>1, <2>1 DEF Patience, Lateness, Stage, Progressed
    <2>4. Len(todo') < Len(todo)
      BY <2>1 DEF TypeOK
    <2>5. WindInv'
      BY <1>1, <2>1 DEF WindInv, Live, Progressed
    <2> QED
      BY <2>2, <2>3, <2>4, <2>5 DEF Lowers
  <1> QED
    BY <1>4, <1>5, <1>6, <1>7

\* The end of a step that stalled spends patience; of another, ends its handlers.
LEMMA AccountLowers ==
    ASSUME TypeOK, TypeOK', BatchInv, BatchInv', WindInv, Account
    PROVE  WindInv' /\ Lowers
  <1>1. /\ phase = "process" /\ todo = <<>> /\ stallCount' = StallCount
        /\ UNCHANGED <<waiting, running, todo, totals, status, outLen>>
        /\ phase' = IF GivesUp(StallCount) THEN "raised_stall" ELSE "cleanup"
        /\ totals.computed = 0 => simTime' = simTime
    <2>1. simTime \in Nat
      BY DEF TypeOK
    <2> QED
      BY <2>1 DEF Account
  <1>2. /\ totals.computed \in Nat /\ totals.generated \in Nat
        /\ stallCount \in Nat /\ StallLimit \in Nat \ {0}
    BY ConfigAssumption DEF TypeOK, Counters
  <1>3. stallCount < StallLimit
    BY <1>1 DEF WindInv, Live
  <1>4. Stalls <=> Active # {} /\ ~Progressed
    BY <1>2 DEF Stalls, Progressed
  <1>5. running = <<>> <=> Range(running) = {}
    <2>1. running \in Seq(Req)
      BY DEF TypeOK
    <2>2. running # <<>> => running[1] \in Range(running)
      BY <2>1 DEF Range
    <2>3. running = <<>> => Range(running) = {}
      BY DEF Range
    <2> QED
      BY <2>2, <2>3
  <1>6. ~Progressed => (Active # {} <=> running # <<>>)
    BY <1>1, <1>5 DEF WindInv, Active
  <1>7. Work' = Work /\ Active' = Active
    BY <1>1, WorkStays DEF Active
  <1>8. CASE Stalls
    <2>1. stallCount' = stallCount + 1 /\ running # <<>> /\ ~Progressed
      BY <1>1, <1>4, <1>6, <1>8 DEF StallCount
    <2>2. Patience = StallLimit - stallCount
      BY <1>1, <2>1 DEF Patience
    <2>3. CASE GivesUp(StallCount)
      <3>1. phase' = "raised_stall" /\ Patience' = StallLimit - stallCount'
        BY <1>1, <2>3 DEF Patience
      <3>2. stallCount' <= StallLimit /\ Patience' < Patience
        BY <1>2, <1>3, <2>1, <2>2, <3>1
      <3>3. WindInv'
        BY <3>1, <3>2 DEF WindInv, Live
      <3> QED
        BY <1>7, <3>2, <3>3 DEF Lowers
    <2>4. CASE ~GivesUp(StallCount)
      <3>1. phase' = "cleanup" /\ stallCount' < StallLimit /\ stallCount' <= StallLimit
        BY <1>1, <1>2, <2>1, <2>4 DEF GivesUp
      <3>2. Patience' = StallLimit - stallCount' + 1
        BY <1>1, <2>1, <3>1 DEF Patience
      <3>3. Patience' = Patience
        BY <1>2, <2>1, <2>2, <3>2
      <3>4. Lateness' = Lateness
        BY <1>1, <2>1 DEF Lateness
      <3>5. Stage' < Stage
        BY <1>1, <3>1 DEF Stage
      <3>6. WindInv'
        BY <1>1, <1>4, <1>7, <1>8, <2>1, <3>1 DEF WindInv, Live
      <3> QED
        BY <1>7, <3>3, <3>4, <3>5, <3>6 DEF Lowers
    <2> QED
      BY <2>3, <2>4
  <1>9. CASE ~Stalls
    <2>1. stallCount' = 0 /\ phase' = "cleanup"
      BY <1>1, <1>2, <1>9 DEF StallCount, GivesUp
    <2>2. running = <<>> => ~Progressed /\ stallCount = 0 /\ simTime' = simTime
      BY <1>1, <1>2 DEF WindInv, Live, Progressed
    <2>3. Progressed <=> running # <<>>
      BY <1>4, <1>6, <1>9, <2>2
    <2>4. Patience' = Patience
      <3>1. CASE running = <<>>
        BY <1>1, <2>1, <2>2, <2>3, <3>1 DEF Patience
      <3>2. CASE running # <<>>
        <4>1. Patience = StallLimit + 1 /\ Patience' = StallLimit - 0 + 1
          BY <1>1, <2>1, <2>3, <3>2 DEF Patience
        <4> QED
          BY <1>2, <4>1
      <3> QED
        BY <3>1, <3>2
    <2>5. Lateness' = Lateness
      BY <1>1, <2>2 DEF Lateness
    <2>6. Stage' < Stage
      BY <1>1, <2>1 DEF Stage
    <2>7. stallCount' < StallLimit /\ stallCount' <= StallLimit
      BY <1>2, <2>1
    <2>8. WindInv'
      BY <1>1, <2>1, <2>2, <2>7 DEF WindInv, Live
    <2> QED
      BY <1>7, <2>4, <2>5, <2>6, <2>8 DEF Lowers
  <1> QED
    BY <1>8, <1>9

\* The cleanup ends a step with requests, or time jumps, or the loop is done.
LEMMA FinishLowers ==
    ASSUME TypeOK, TypeOK', BatchInv, BatchInv', WindInv, FinishStep
    PROVE  WindInv' /\ Lowers
  <1>1. PICK done, left : Cleans(done, left)
    BY FinishEffect
  <1>2. /\ phase = "cleanup" /\ UNCHANGED <<waiting, todo, totals, stallCount, status, outLen>>
    BY DEF FinishStep
  <1>3. /\ left \in Seq(Req) /\ running' = left
        /\ Range(left) = {r \in Range(running) : status[r] # "finished"}
        /\ simTime' = FastForward(left)
        /\ phase' = IF Remain(left) THEN "idle" ELSE "done"
    BY <1>1 DEF Cleans
  <1>4. /\ stallCount \in Nat /\ StallLimit \in Nat \ {0} /\ simTime \in Nat
        /\ waiting # <<>> => Arrival[Head(waiting)] \in Nat
    <2>1. stallCount \in Nat /\ simTime \in Nat /\ StallLimit \in Nat \ {0}
      BY ConfigAssumption DEF TypeOK
    <2>2. waiting # <<>> => Head(waiting) \in Req
      BY DEF TypeOK
    <2> QED
      BY <2>1, <2>2, RequestsAssumption
  <1>5. left = <<>> <=> Active = {}
    <2>1. Range(left) = Active
      BY <1>3 DEF Active
    <2>2. left # <<>> => left[1] \in Range(left)
      BY <1>3 DEF Range
    <2>3. left = <<>> => Range(left) = {}
      BY DEF Range
    <2> QED
      BY <2>1, <2>2, <2>3
  <1>6. Work' = Work
    BY <1>2, WorkStays
  <1>7. WindInv'
    BY <1>2, <1>3, <1>5 DEF WindInv, Live
  <1>8. Patience' = StallLimit - stallCount
    BY <1>2, <1>3 DEF Patience
  <1>9. CASE running # <<>>
    <2>1. Patience = StallLimit - stallCount + 1
      BY <1>2, <1>9 DEF Patience
    <2>2. Patience' < Patience
      BY <1>4, <1>8, <2>1
    <2> QED
      BY <1>6, <1>7, <2>2 DEF Lowers
  <1>10. CASE running = <<>>
    <2>1. Patience' = Patience
      BY <1>2, <1>8, <1>10 DEF Patience
    <2>2. Range(running) = {} /\ left = <<>>
      BY <1>5, <1>10 DEF Range, Active
    <2>3. CASE waiting = <<>>
      <3>1. phase' = "done" /\ Lateness' = 0 /\ Lateness = 0
        BY <1>2, <1>3, <2>2, <2>3 DEF Remain, Lateness
      <3>2. Stage' < Stage
        BY <1>2, <3>1 DEF Stage
      <3> QED
        BY <1>6, <1>7, <2>1, <3>1, <3>2 DEF Lowers
    <2>4. CASE waiting # <<>>
      <3>1. Arrival[Head(waiting)] > simTime
        BY <1>2, <1>10, <2>4 DEF WindInv
      <3>2. Lateness = 1
        BY <1>10, <2>4, <3>1 DEF Lateness
      <3>3. simTime' = Arrival[Head(waiting)]
        BY <1>3, <2>2, <2>4, <3>1 DEF FastForward
      <3>4. Lateness' = 0
        BY <1>2, <1>4, <2>4, <3>3 DEF Lateness
      <3> QED
        BY <1>6, <1>7, <2>1, <3>2, <3>4 DEF Lowers
    <2> QED
      BY <2>3, <2>4
  <1> QED
    BY <1>9, <1>10

\* Every step keeps the invariant and lowers the measure.
LEMMA StepLowers ==
    TypeOK /\ TypeOK' /\ BatchInv /\ BatchInv' /\ WindInv /\ [Next]_vars
        => WindInv' /\ [Lowers]_vars
  <1> SUFFICES ASSUME TypeOK, TypeOK', BatchInv, BatchInv', WindInv, [Next]_vars
               PROVE  WindInv' /\ [Lowers]_vars
    OBVIOUS
  <1>1. CASE Next
    BY <1>1, StartLowers, HandlersLower, AccountLowers, FinishLowers DEF Next
  <1>2. CASE UNCHANGED vars
    BY <1>2 DEF vars, loopVars, requestVars, WindInv, Live, Progressed, Active
  <1> QED
    BY <1>1, <1>2

\* The numbers of the measure are natural numbers.
LEMMA MeasureTypes ==
    ASSUME TypeOK, WindInv
    PROVE  /\ Measure \in [1..5 -> Nat]
           /\ Measure[1] = Work /\ Measure[2] = Patience /\ Measure[3] = Lateness
           /\ Measure[4] = Stage /\ Measure[5] = Len(todo)
  <1>1. Work \in Nat
    BY OwedNumbers
  <1>2. Patience \in Nat
    <2>1. stallCount \in Nat /\ StallLimit \in Nat /\ stallCount <= StallLimit
      BY ConfigAssumption DEF TypeOK, WindInv
    <2> QED
      BY <2>1 DEF Patience
  <1>3. Lateness \in Nat /\ Stage \in Nat /\ Len(todo) \in Nat
    BY DEF Lateness, Stage, TypeOK
  <1> QED
    BY <1>1, <1>2, <1>3 DEF Measure

\* A number sequence that never goes up comes to rest.
LEMMA ComesToRest ==
    ASSUME NEW g \in [Nat -> Nat], NEW m \in Nat,
           \A n \in Nat : m <= n => g[n + 1] <= g[n]
    PROVE  \E k \in Nat : m <= k /\ \A n \in Nat : k <= n => g[n] = g[k]
  <1> DEFINE V == {g[n] : n \in {i \in Nat : m <= i}}
  <1>1. V \in SUBSET Nat /\ V # {}
    BY m <= m
  <1>2. PICK v \in V : \A w \in V : v <= w
    BY <1>1, LeastNumber
  <1>3. PICK k \in Nat : m <= k /\ g[k] = v
    BY <1>2
  <1> DEFINE T == {i \in Nat : g[k + i] = g[k]}
  <1>4. 0 \in T
    BY <1>3
  <1>5. ASSUME NEW i \in Nat, i \in T PROVE i + 1 \in T
    <2>1. k + i \in Nat /\ m <= k + i /\ k + (i + 1) = (k + i) + 1
          /\ k + (i + 1) \in Nat /\ m <= k + (i + 1)
      BY <1>3
    <2>2. g[(k + i) + 1] <= g[k + i] /\ g[k + i] = g[k]
      BY <1>5, <2>1
    <2>3. g[k] <= g[k + (i + 1)]
      BY <1>2, <1>3, <2>1
    <2>4. g[k] \in Nat /\ g[k + (i + 1)] \in Nat
      BY <2>1
    <2> QED
      BY <2>1, <2>2, <2>3, <2>4
  <1> HIDE DEF T
  <1>6. \A i \in Nat : i \in T
    BY <1>4, <1>5, SetInduction
  <1>7. ASSUME NEW n \in Nat, k <= n PROVE g[n] = g[k]
    <2>1. n - k \in Nat /\ k + (n - k) = n
      BY <1>3, <1>7
    <2>2. n - k \in T
      BY <1>6, <2>1
    <2>3. g[k + (n - k)] = g[k]
      BY <2>2 DEF T
    <2> QED
      BY <2>1, <2>3
  <1> QED
    BY <1>3, <1>7

\* No sequence of measures goes down for ever: the order is well founded.
LEMMA NoEndlessDescent ==
    ASSUME NEW w \in Nat
    PROVE  ~\E f \in [Nat -> [1..w -> Nat]] : \A n \in Nat : Below(f[n + 1], f[n])
  <1>0. SUFFICES ASSUME NEW f, f \in [Nat -> [1..w -> Nat]],
                        \A n \in Nat : Below(f[n + 1], f[n])
                 PROVE  FALSE
    OBVIOUS
  <1>1. ASSUME NEW n \in Nat
        PROVE  /\ n + 1 \in Nat
               /\ \E l \in 1..w : /\ f[n + 1][l] < f[n][l]
                                  /\ \A j \in 1..(l - 1) : f[n + 1][j] = f[n][j]
               /\ \A j \in 1..w : f[n][j] \in Nat /\ f[n + 1][j] \in Nat
    <2>1. n + 1 \in Nat /\ Below(f[n + 1], f[n])
      BY <1>0
    <2>2. f[n] \in [1..w -> Nat] /\ f[n + 1] \in [1..w -> Nat]
      BY <1>0, <2>1
    <2> QED
      BY <2>1, <2>2 DEF Below
  <1> DEFINE Rests(i, k) == \A n \in Nat : k <= n => \A j \in 1..i : f[n][j] = f[k][j]
             T == {i \in Nat : i <= w => \E k \in Nat : Rests(i, k)}
  <1>2. 0 \in T
    <2>1. Rests(0, 0)
      OBVIOUS
    <2> QED
      BY <2>1
  <1>3. ASSUME NEW i \in Nat, i \in T PROVE i + 1 \in T
    <2> SUFFICES ASSUME i + 1 <= w PROVE \E k \in Nat : Rests(i + 1, k)
      BY i + 1 \in Nat
    <2>1. PICK m \in Nat : Rests(i, m)
      <3> HIDE DEF Rests
      <3>1. i <= w
        OBVIOUS
      <3> QED
        BY <1>3, <3>1
    <2> DEFINE g == [n \in Nat |-> f[n][i + 1]]
    <2>2. i + 1 \in 1..w
      OBVIOUS
    <2>3. g \in [Nat -> Nat]
      BY <1>1, <2>2
    <2>4. ASSUME NEW n \in Nat, m <= n PROVE g[n + 1] <= g[n]
      <3>1. n + 1 \in Nat /\ m <= n + 1
        BY <2>4
      <3>2. PICK l \in 1..w : f[n + 1][l] < f[n][l]
                              /\ \A j \in 1..(l - 1) : f[n + 1][j] = f[n][j]
        BY <1>1
      <3>3. \A j \in 1..i : f[n + 1][j] = f[n][j]
        BY <2>1, <2>4, <3>1
      <3>4. \A j \in 1..w : f[n][j] \in Nat /\ f[n + 1][j] \in Nat
        BY <1>1
      <3> DEFINE p == f[n]
                 q == f[n + 1]
      <3>5. q[i + 1] <= p[i + 1]
        <4>1. /\ q[l] < p[l] /\ \A j \in 1..(l - 1) : q[j] = p[j]
              /\ \A j \in 1..i : q[j] = p[j]
              /\ \A j \in 1..w : p[j] \in Nat /\ q[j] \in Nat
          BY <3>2, <3>3, <3>4
        <4> HIDE DEF p, q
        <4>2. ~(l \in 1..i)
          BY <4>1
        <4>3. l = i + 1 \/ i + 1 \in 1..(l - 1)
          BY <4>2
        <4> QED
          BY <2>2, <4>1, <4>3
      <3> QED
        BY <3>1, <3>5
    <2>5. PICK k \in Nat : m <= k /\ \A n \in Nat : k <= n => g[n] = g[k]
      <3> HIDE DEF g
      <3> QED
        BY <2>3, <2>4, ComesToRest
    <2>6. ASSUME NEW n \in Nat, k <= n, NEW j \in 1..(i + 1) PROVE f[n][j] = f[k][j]
      <3>1. CASE j \in 1..i
        <4>1. m <= n /\ m <= k
          BY <2>5, <2>6
        <4>2. f[n][j] = f[m][j] /\ f[k][j] = f[m][j]
          BY <2>1, <3>1, <4>1
        <4> QED
          BY <4>2
      <3>2. CASE j = i + 1
        BY <2>5, <2>6, <3>2
      <3> QED
        BY <3>1, <3>2
    <2>7. Rests(i + 1, k)
      BY <2>6
    <2> QED
      BY <2>7
  <1>4. PICK k \in Nat : Rests(w, k)
    <2>1. \A i \in Nat : i \in T
      <3> HIDE DEF T
      <3> QED
        BY <1>2, <1>3, SetInduction
    <2> HIDE DEF Rests
    <2>2. w \in T /\ w <= w
      BY <2>1
    <2> QED
      BY <2>2
  <1>5. \A j \in 1..w : f[k + 1][j] = f[k][j]
    BY <1>1, <1>4
  <1>6. PICK l \in 1..w : f[k + 1][l] < f[k][l]
    BY <1>1
  <1>7. f[k][l] \in Nat /\ f[k + 1][l] = f[k][l]
    BY <1>1, <1>5
  <1> QED
    BY <1>6, <1>7

\* The measure falls in the lexicographic order.
LEMMA MeasureFalls ==
    ASSUME NEW a \in [1..5 -> Nat], NEW b \in [1..5 -> Nat],
           \/ b[1] < a[1]
           \/ b[1] = a[1] /\ b[2] < a[2]
           \/ b[1] = a[1] /\ b[2] = a[2] /\ b[3] < a[3]
           \/ b[1] = a[1] /\ b[2] = a[2] /\ b[3] = a[3] /\ b[4] < a[4]
           \/ b[1] = a[1] /\ b[2] = a[2] /\ b[3] = a[3] /\ b[4] = a[4] /\ b[5] < a[5]
    PROVE  Below(b, a)
  <1>1. PICK i \in 1..5 : b[i] < a[i] /\ \A j \in 1..5 : j < i => b[j] = a[j]
    OBVIOUS
  <1> QED
    BY <1>1 DEF Below

\* The measure holds five natural numbers, each in its place.
LEMMA MeasureNumbers ==
    TypeOK /\ WindInv =>
        /\ Measure \in [1..5 -> Nat]
        /\ Measure[1] = Work /\ Measure[2] = Patience /\ Measure[3] = Lateness
        /\ Measure[4] = Stage /\ Measure[5] = Len(todo)
  BY MeasureTypes

\* The same after a step.
LEMMA MeasureNumbersNext ==
    (TypeOK /\ WindInv)' =>
        ( /\ Measure \in [1..5 -> Nat]
          /\ Measure[1] = Work /\ Measure[2] = Patience /\ Measure[3] = Lateness
          /\ Measure[4] = Stage /\ Measure[5] = Len(todo) )'
  BY MeasureNumbers, PTL

\* The loop cannot go on for ever: a measure of five natural numbers, the work that
\* the requests still need, the patience with stalled steps, whether time has to jump,
\* the stage of the step and the requests it has yet to handle, falls in every step in
\* the lexicographic order, in which nothing falls for ever (NoEndlessDescent).
\* Whatever the backend refuses, the cache hits and the drafts lose, and whatever ids
\* repeat, the loop takes finitely many steps.
THEOREM LoopWindsDown ==
    Spec => [](Measure \in [1..5 -> Nat]) /\ [][Below(Measure', Measure)]_vars
  <1> DEFINE Falls == Below(Measure', Measure)
             Inv == TypeOK /\ BatchInv /\ WindInv
  <1>1. TypeOK /\ TypeOK' /\ WindInv /\ WindInv' /\ [Lowers]_vars => [Falls]_vars
    <2> SUFFICES ASSUME TypeOK, TypeOK', WindInv, WindInv', Lowers
                 PROVE  Falls
      OBVIOUS
    <2> DEFINE a == Measure
               b == Measure'
    <2>1. /\ a \in [1..5 -> Nat]
          /\ a[1] = Work /\ a[2] = Patience /\ a[3] = Lateness
          /\ a[4] = Stage /\ a[5] = Len(todo)
      BY MeasureNumbers
    <2>2. /\ b \in [1..5 -> Nat]
          /\ b[1] = Work' /\ b[2] = Patience' /\ b[3] = Lateness'
          /\ b[4] = Stage' /\ b[5] = Len(todo')
      BY MeasureNumbersNext
    <2> HIDE DEF a, b
    <2>3. Below(b, a)
      BY <2>1, <2>2, MeasureFalls DEF Lowers
    <2> QED
      BY <2>3 DEF a, b
  <1>2. Init => Inv
    BY InitTypes, BatchInit, WindInit
  <1>3. Inv /\ [Next]_vars => Inv' /\ [Falls]_vars
    <2> SUFFICES ASSUME TypeOK, BatchInv, WindInv, [Next]_vars
                 PROVE  Inv' /\ [Falls]_vars
      OBVIOUS
    <2>1. TypeOK' /\ BatchInv'
      BY NextTypes, BatchNext
    <2>2. WindInv' /\ [Lowers]_vars
      BY <2>1, StepLowers
    <2> QED
      BY <1>1, <2>1, <2>2
  <1>4. Inv => Measure \in [1..5 -> Nat]
    BY MeasureNumbers
  <1> HIDE DEF Falls, Inv
  <1>5. Spec => [](Measure \in [1..5 -> Nat]) /\ [][Falls]_vars
    BY <1>2, <1>3, <1>4, PTL DEF Spec
  <1> QED
    BY <1>5 DEF Falls

\* Whoever has yet to take its turn in a step can take it.
TurnInv == phase = "process" => \A r \in Range(todo) : status[r] \in {"prefill", "decoding"}

\* Admission gives every request of the batch a turn it can take; the others only
\* take one turn away, and change the status of that request alone.
LEMMA TurnNext ==
    TypeOK /\ TypeOK' /\ BatchInv /\ BatchInv' /\ WindInv /\ TurnInv /\ [Next]_vars
        => TurnInv'
  <1> SUFFICES ASSUME TypeOK, TypeOK', BatchInv, BatchInv', WindInv, TurnInv, [Next]_vars
               PROVE  TurnInv'
    OBVIOUS
  <1>0. Range(todo) \in SUBSET Req /\ Range(todo') \in SUBSET Req
    <2>1. todo \in Seq(Req) /\ todo' \in Seq(Req)
      BY DEF TypeOK
    <2> QED
      BY <2>1 DEF Range
  <1>1. CASE StartStep
    <2>1. PICK adm, rest : Admits(adm, rest)
      BY <1>1, StartEffect
    <2>2. /\ adm \in Seq(Req) /\ running \in Seq(Req)
          /\ running' = FoldLeft(Entered, running, adm)
          /\ status' = [r \in Req |-> IF r \in Range(adm) THEN "prefill" ELSE status[r]]
      BY <2>1 DEF Admits, TypeOK
    <2>3. todo' = running' /\ phase = "idle"
      BY <1>1 DEF StartStep
    <2>4. Range(todo') \in SUBSET (Range(running) \cup Range(adm))
      BY <2>2, <2>3, EmptyBatch
    <2>5. \A r \in Range(running) : status[r] \in {"prefill", "decoding"}
      <3>1. \A r \in Range(running) : r \in Req
        BY DEF TypeOK, Range
      <3>2. \A r \in Range(running) : status[r] # "finished" /\ ~Queued(r)
        BY <2>3 DEF WindInv, BatchInv
      <3> QED
        BY <3>1, <3>2 DEF TypeOK, Queued
    <2> QED
      BY <1>0, <2>2, <2>4, <2>5 DEF TurnInv
  <1>2. CASE HandlePrefill \/ HandleDecode \/ DecodeSkipped
    <2>1. phase = "process" /\ todo # <<>> /\ todo' = Tail(todo)
      BY <1>2 DEF HandlePrefill, HandleDecode, DecodeSkipped
    <2>2. \A r \in Req \ {Head(todo)} : status'[r] = status[r]
      BY <1>2 DEF HandlePrefill, HandleDecode, DecodeSkipped, requestVars, TypeOK
    <2>3. Range(todo') \in SUBSET Range(todo) /\ Head(todo) \notin Range(todo')
      BY <2>1, TodoRest
    <2> QED
      BY <1>0, <2>1, <2>2, <2>3 DEF TurnInv
  <1>3. CASE PrefillOutOfMemory \/ Account \/ FinishStep
    BY <1>3 DEF PrefillOutOfMemory, Account, FinishStep, TurnInv
  <1>4. CASE UNCHANGED vars
    BY <1>4 DEF vars, loopVars, requestVars, TurnInv
  <1> QED
    BY <1>1, <1>2, <1>3, <1>4 DEF Next

\* The assertion of step() is unreachable, as its comment says: whoever still has its
\* turn in a step is in the batch, takes one turn only, and is to be prefilled or
\* decoded, the two statuses that have a handler.  Nor is anyone finished before its
\* turn: the check at the head of the loop of step() never skips a request.
THEOREM TurnsAreTaken ==
    Spec => [](phase = "process" =>
                   /\ \A i, j \in DOMAIN todo : todo[i] = todo[j] => i = j
                   /\ \A r \in Range(todo) :
                        r \in Range(running) /\ status[r] \in {"prefill", "decoding"})
  <1> DEFINE Inv == TypeOK /\ BatchInv /\ WindInv /\ TurnInv
             Goal == phase = "process" =>
                         /\ \A i, j \in DOMAIN todo : todo[i] = todo[j] => i = j
                         /\ \A r \in Range(todo) :
                              r \in Range(running) /\ status[r] \in {"prefill", "decoding"}
  <1>1. Init => Inv
    <2>1. Init => TurnInv
      BY DEF Init, TurnInv
    <2> QED
      BY <2>1, InitTypes, BatchInit, WindInit
  <1>2. Inv /\ [Next]_vars => Inv'
    BY NextTypes, BatchNext, StepLowers, TurnNext
  <1>3. Inv => Goal
    BY DEF BatchInv, Once, TurnInv
  <1> HIDE DEF Inv, Goal
  <1>4. Spec => []Goal
    BY <1>1, <1>2, <1>3, PTL DEF Spec
  <1> QED
    BY <1>4 DEF Goal

=============================================================================
