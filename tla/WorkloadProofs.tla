--------------------------- MODULE WorkloadProofs ---------------------------
(***************************************************************************)
(* Proofs about SyntheticWorkload, for every number of requests, lengths,  *)
(* shared prefix and arrival pattern: two prompts overlap in the share of  *)
(* the first prompt long enough to share anything, and in nothing else.    *)
(***************************************************************************)
EXTENDS SyntheticWorkload, SequenceTheorems, FoldTheorems

-----------------------------------------------------------------------------
(* Prefixes of two sequences                                               *)

\* A common prefix agrees with both sequences, place by place.
LEMMA PrefixPlaces ==
    ASSUME NEW S, NEW p \in Seq(S), NEW t \in Seq(S)
    PROVE  IsPrefix(p, t) <=> Len(p) <= Len(t) /\ \A k \in 1..Len(p) : p[k] = t[k]
  <1>1. Len(p) \in Nat /\ Len(t) \in Nat /\ SubSeq(p, 1, Len(p)) = p
    BY SubSeqFull
  <1>2. CASE Len(p) <= Len(t)
    <2>1. /\ SubSeq(t, 1, Len(p)) \in Seq(S) /\ Len(SubSeq(t, 1, Len(p))) = Len(p)
          /\ \A k \in 1..Len(p) : SubSeq(t, 1, Len(p))[k] = t[k]
      BY <1>1, <1>2
    <2>2. p = SubSeq(t, 1, Len(p)) <=> \A k \in 1..Len(p) : p[k] = t[k]
      <3>1. ASSUME \A k \in 1..Len(p) : p[k] = t[k]
            PROVE  p = SubSeq(t, 1, Len(p))
        <4>1. \A k \in 1..Len(p) : p[k] = SubSeq(t, 1, Len(p))[k]
          BY <2>1, <3>1
        <4> QED
          BY <2>1, <4>1, SeqEqual
      <3> QED
        BY <2>1, <3>1
    <2> QED
      BY <1>1, <1>2, <2>2 DEF IsPrefix
  <1> QED
    BY <1>2 DEF IsPrefix

\* Sequences that agree on c places and differ on the next one, if both have it.
LEMMA CommonLength ==
    ASSUME NEW S, NEW s \in Seq(S), NEW t \in Seq(S),
           NEW c \in Nat, c <= Len(s), c <= Len(t),
           \A k \in 1..c : s[k] = t[k],
           c < Len(s) /\ c < Len(t) => s[c + 1] # t[c + 1]
    PROVE  Len(LongestCommonPrefix({s, t})) = c
  <1> DEFINE best == SubSeq(s, 1, c)
             all == CommonPrefixes({s, t})
  <1>1. /\ best \in Seq(S) /\ Len(best) = c
        /\ \A k \in 1..c : best[k] = s[k]
    OBVIOUS
  <1>2. best \in all
    <2>1. IsPrefix(best, s) /\ IsPrefix(best, t)
      BY <1>1, PrefixPlaces
    <2>2. best \in Prefixes(s)
      BY DEF Prefixes
    <2> QED
      BY <2>1, <2>2 DEF CommonPrefixes
  <1>3. ASSUME NEW p \in all
        PROVE  Len(p) \in Nat /\ Len(p) <= c
    <2>1. IsPrefix(p, s) /\ IsPrefix(p, t) /\ (p \in Prefixes(s) \/ p \in Prefixes(t))
      BY DEF CommonPrefixes
    <2>2. p \in Seq(S)
      BY <2>1 DEF Prefixes
    <2>3. /\ Len(p) \in Nat /\ Len(p) <= Len(s) /\ Len(p) <= Len(t)
          /\ \A k \in 1..Len(p) : p[k] = s[k] /\ p[k] = t[k]
      BY <2>1, <2>2, PrefixPlaces
    <2>4. Len(s) \in Nat /\ Len(t) \in Nat
      OBVIOUS
    <2>5. ASSUME c < Len(p) PROVE FALSE
      <3>1. c + 1 \in 1..Len(p) /\ c < Len(s) /\ c < Len(t)
        BY <2>3, <2>4, <2>5
      <3>2. s[c + 1] = t[c + 1]
        BY <2>3, <3>1
      <3> QED
        BY <3>1, <3>2
    <2> QED
      BY <2>3, <2>5
  <1> HIDE DEF best, all
  <1>4. \A other \in all : Len(other) <= Len(best)
    BY <1>1, <1>3
  <1>5. LongestCommonPrefix({s, t}) \in all
        /\ \A other \in all : Len(other) <= Len(LongestCommonPrefix({s, t}))
    BY <1>2, <1>4 DEF LongestCommonPrefix, all
  <1>6. c <= Len(LongestCommonPrefix({s, t}))
    BY <1>1, <1>2, <1>5
  <1>7. Len(LongestCommonPrefix({s, t})) \in Nat /\ Len(LongestCommonPrefix({s, t})) <= c
    BY <1>3, <1>5
  <1> QED
    BY <1>6, <1>7

\* The least of three lengths.
LEMMA LeastOfThree ==
    ASSUME NEW x \in Nat, NEW y \in Nat, NEW z \in Nat
    PROVE  LET m == Min({x, y, z})
           IN m \in Nat /\ m <= x /\ m <= y /\ m <= z /\ m \in {x, y, z}
  <1>1. \E m \in {x, y, z} : \A v \in {x, y, z} : m <= v
    <2>1. (x <= y /\ x <= z) \/ (y <= x /\ y <= z) \/ (z <= x /\ z <= y)
      OBVIOUS
    <2> QED
      BY <2>1
  <1>2. /\ Min({x, y, z}) \in {x, y, z}
        /\ \A v \in {x, y, z} : Min({x, y, z}) <= v
    BY <1>1, Zenon DEF Min
  <1> QED
    BY <1>2

-----------------------------------------------------------------------------
(* The inductive invariant                                                 *)

Request == [prompt : Seq(Nat), output : Seq(Nat), arrival : Nat]

\* No request up to i has established a shared prefix.
Before(i) == \A k \in 1..i : SharedLen(Len(results[k].prompt)) = 0

TypeInv ==
    /\ results \in Seq(Request) /\ sharedPrefix \in Seq(Nat)
    /\ drawn \in [token : Nat, arrival : Nat] /\ nextArrival \in Nat

\* Tokens come from draws that were made.
DrawnInv ==
    /\ \A i \in DOMAIN results : \A k \in 1..Len(results[i].prompt) :
         results[i].prompt[k] <= drawn.token
    /\ \A k \in 1..Len(sharedPrefix) : sharedPrefix[k] <= drawn.token

\* There is a shared prefix as soon as a request could share anything.
PrefixInv == sharedPrefix = <<>> <=> Before(Len(results))

\* It has the length that the first request that shares anything gave it.
LengthInv ==
    \A f \in DOMAIN results :
        Share(f) > 0 /\ Before(f - 1) => Len(sharedPrefix) = Share(f)

\* A prompt agrees with the shared prefix everywhere or, if it came before it,
\* nowhere.
ReuseInv ==
    \A i \in DOMAIN results :
        \A k \in 1..Len(results[i].prompt) : k <= Len(sharedPrefix) =>
            (results[i].prompt[k] = sharedPrefix[k] <=> ~Before(i))

\* Two prompts agree exactly on the shared prefix.
PairInv ==
    \A i, j \in DOMAIN results : i < j =>
        \A k \in 1..Len(results[i].prompt) : k <= Len(results[j].prompt) =>
            (results[i].prompt[k] = results[j].prompt[k]
                <=> ~Before(i) /\ k <= Len(sharedPrefix))

IndInv == TypeInv /\ DrawnInv /\ PrefixInv /\ LengthInv /\ ReuseInv /\ PairInv

\* No more than the prompt is shared.
LEMMA SharedLenBound ==
    ASSUME NEW n \in Nat
    PROVE  SharedLen(n) \in Nat /\ SharedLen(n) <= n
  <1>1. CASE SharedLength # NoLength
    BY <1>1, GeneratorAssumption DEF SharedLen, AtMost, GeneratorAssumption
  <1>2. CASE SharedLength = NoLength
    <2>1. ASSUME NEW p \in 0..100
          PROVE  n * p \in Nat /\ n * p <= n * 100
      BY Z3
    <2>2. ASSUME NEW m \in Nat, m <= n * 100
          PROVE  m \div 100 \in Nat /\ m \div 100 <= n
      BY <2>2
    <2> QED
      BY <1>2, <2>1, <2>2, GeneratorAssumption DEF SharedLen, GeneratorAssumption
  <1> QED
    BY <1>1, <1>2

\* The random tokens of a request are new.
LEMMA RandomTokensFresh ==
    ASSUME NEW d \in Nat, NEW n \in Nat
    PROVE  /\ RandomTokens(d, n) \in Seq(Nat) /\ Len(RandomTokens(d, n)) = n
           /\ \A k \in 1..n : RandomTokens(d, n)[k] = d + k
    BY DEF RandomTokens

\* The arrival times are times.
LEMMA ArrivalTimesType ==
    ASSUME nextArrival \in Nat, NEW i \in Nat, NEW t \in ArrivalTimes(i)
    PROVE  t \in Nat
  <1>1. CASE i = 0 \/ Pattern = "burst"
    BY <1>1 DEF ArrivalTimes
  <1>2. CASE i > 0 /\ Pattern = "default"
    BY <1>2 DEF ArrivalTimes
  <1>3. CASE i > 0 /\ Pattern = "poisson"
    BY <1>3, GeneratorAssumption DEF ArrivalTimes, GeneratorAssumption
  <1>4. CASE i > 0 /\ Pattern = "staggered"
    <2>1. StaggerSteps \in Nat
      BY GeneratorAssumption DEF GeneratorAssumption
    <2>2. i * StaggerSteps \in Nat
      BY <2>1
    <2>3. i * StaggerSteps * 10 \in Nat
      BY <2>2
    <2> QED
      BY <1>4, <2>3 DEF ArrivalTimes
  <1> QED
    BY <1>1, <1>2, <1>3, <1>4, GeneratorAssumption DEF GeneratorAssumption

\* The prompt of the next request: what it reuses, then new tokens.
LEMMA PromptShape ==
    ASSUME TypeInv, NEW n \in Nat
    PROVE  LET reused == Len(Reused(n))
               prompt == Reused(n) \o RandomTokens(drawn.token, n - reused)
           IN /\ reused = AtMost(Len(sharedPrefix), n) /\ reused \in Nat
              /\ n - reused \in Nat
              /\ prompt \in Seq(Nat) /\ Len(prompt) = n
              /\ \A k \in 1..n : prompt[k] =
                    IF k <= Len(sharedPrefix) THEN sharedPrefix[k]
                                              ELSE drawn.token + (k - reused)
  <1> DEFINE reused == Len(Reused(n))
             fresh == RandomTokens(drawn.token, n - reused)
             prompt == Reused(n) \o fresh
  <1>1. /\ sharedPrefix \in Seq(Nat) /\ Len(sharedPrefix) \in Nat /\ drawn.token \in Nat
    BY DEF TypeInv
  <1>2. /\ AtMost(Len(sharedPrefix), n) \in Nat /\ AtMost(Len(sharedPrefix), n) <= n
        /\ AtMost(Len(sharedPrefix), n) <= Len(sharedPrefix)
        /\ AtMost(Len(sharedPrefix), n) \in {n, Len(sharedPrefix)}
    BY <1>1 DEF AtMost
  <1>3. /\ Reused(n) \in Seq(Nat) /\ reused = AtMost(Len(sharedPrefix), n)
        /\ \A k \in 1..reused : Reused(n)[k] = sharedPrefix[k]
    BY <1>1, <1>2 DEF Reused
  <1>4. n - reused \in Nat
    BY <1>2, <1>3
  <1>5. /\ fresh \in Seq(Nat) /\ Len(fresh) = n - reused
        /\ \A k \in 1..(n - reused) : fresh[k] = drawn.token + k
    BY <1>1, <1>4, RandomTokensFresh
  <1> HIDE DEF reused, fresh
  <1>6. /\ prompt \in Seq(Nat) /\ Len(prompt) = reused + (n - reused)
        /\ \A k \in 1..(reused + (n - reused)) :
             prompt[k] = IF k <= reused THEN Reused(n)[k] ELSE fresh[k - reused]
    <2>1. ASSUME NEW s \in Seq(Nat), NEW t \in Seq(Nat)
          PROVE  /\ s \o t \in Seq(Nat) /\ Len(s \o t) = Len(s) + Len(t)
                 /\ \A k \in 1..(Len(s) + Len(t)) :
                      (s \o t)[k] = IF k <= Len(s) THEN s[k] ELSE t[k - Len(s)]
      BY ConcatProperties
    <2>2. Len(Reused(n)) = reused
      BY DEF reused
    <2>3. /\ prompt \in Seq(Nat) /\ Len(prompt) = Len(Reused(n)) + Len(fresh)
          /\ \A k \in 1..(Len(Reused(n)) + Len(fresh)) :
               prompt[k] = IF k <= Len(Reused(n)) THEN Reused(n)[k]
                                                  ELSE fresh[k - Len(Reused(n))]
      BY <1>3, <1>5, <2>1, Zenon
    <2> QED
      BY <1>5, <2>2, <2>3, Zenon
  <1>7. reused + (n - reused) = n /\ reused \in Nat
    BY <1>2, <1>3
  <1>8. ASSUME NEW k \in 1..n
        PROVE  prompt[k] = IF k <= Len(sharedPrefix) THEN sharedPrefix[k]
                                                     ELSE drawn.token + (k - reused)
    <2>1. CASE k <= reused
      <3>1. k <= Len(sharedPrefix) /\ k \in 1..reused
        BY <1>1, <1>2, <1>3, <1>7, <2>1
      <3> QED
        BY <1>3, <1>6, <1>7, <2>1, <3>1
    <2>2. CASE k > reused
      <3>1. /\ ~(k <= reused) /\ ~(k <= Len(sharedPrefix))
            /\ k - reused \in 1..(n - reused)
        BY <1>1, <1>2, <1>3, <1>4, <1>7, <2>2
      <3> HIDE DEF prompt
      <3> QED
        BY <1>5, <1>6, <1>7, <3>1
    <2>3. k <= reused \/ k > reused
      BY <1>7
    <2> QED
      BY <2>1, <2>2, <2>3, Zenon
  <1> QED
    BY <1>2, <1>3, <1>4, <1>6, <1>7, <1>8 DEF reused, fresh

\* It holds before the first request.
LEMMA InitInv ==
    ASSUME Init PROVE IndInv
  <1>1. results = <<>> /\ sharedPrefix = <<>> /\ Len(results) = 0 /\ Len(sharedPrefix) = 0
    BY DEF Init
  <1>2. TypeInv
    BY DEF Init, TypeInv
  <1>3. DrawnInv /\ PrefixInv /\ LengthInv /\ ReuseInv /\ PairInv
    BY <1>1 DEF DrawnInv, PrefixInv, LengthInv, ReuseInv, PairInv, Before
  <1> QED
    BY <1>2, <1>3 DEF IndInv

\* What one turn of generate() does, token by token: a prompt of length n that
\* takes over the shared prefix, and is new after it.
Generates(n, prompt) ==
    /\ Len(prompt) = n
    /\ \A k \in 1..n :
         /\ prompt[k] <= drawn'.token
         /\ k <= Len(sharedPrefix) => prompt[k] = sharedPrefix[k]
         /\ k > Len(sharedPrefix) => prompt[k] > drawn.token
    /\ drawn.token <= drawn'.token
    /\ Len(results') = Len(results) + 1
    /\ results'[Len(results) + 1].prompt = prompt
    /\ \A i \in DOMAIN results : results'[i] = results[i]
    /\ sharedPrefix # <<>> => sharedPrefix' = sharedPrefix
    /\ sharedPrefix = <<>> =>
         /\ Len(sharedPrefix') = SharedLen(n)
         /\ \A k \in 1..SharedLen(n) : sharedPrefix'[k] = prompt[k]

\* Every turn of the loop does that.
LEMMA GenerateEffect ==
    ASSUME IndInv, Generate
    PROVE  TypeInv' /\ \E n \in Nat, prompt \in Seq(Nat) : Generates(n, prompt)
  <1>1. PICK n \in PromptLens, m \in OutputLens, t \in ArrivalTimes(Len(results)) :
          LET fresh  == n - Len(Reused(n))
              prompt == Reused(n) \o RandomTokens(drawn.token, fresh)
              output == RandomTokens(drawn.token + fresh, m)
          IN /\ results' = Append(results,
                    [prompt |-> prompt, output |-> output, arrival |-> t])
             /\ sharedPrefix' = PrefixAfter(prompt)
             /\ drawn' = DrawnAfter(Len(results), fresh + m)
             /\ nextArrival' = IF IsDrawn(Len(results)) THEN t ELSE nextArrival
    BY DEF Generate
  <1> DEFINE reused == Len(Reused(n))
             prompt == Reused(n) \o RandomTokens(drawn.token, n - reused)
             output == RandomTokens(drawn.token + (n - reused), m)
             old == Len(sharedPrefix)
  <1>2. /\ n \in Nat /\ m \in Nat /\ TypeInv
        /\ Len(results) \in Nat /\ old \in Nat /\ drawn.token \in Nat
    BY GeneratorAssumption DEF GeneratorAssumption, IndInv, TypeInv
  <1>3. /\ reused = AtMost(old, n) /\ reused \in Nat /\ n - reused \in Nat
        /\ prompt \in Seq(Nat) /\ Len(prompt) = n
        /\ \A k \in 1..n : prompt[k] =
              IF k <= old THEN sharedPrefix[k] ELSE drawn.token + (k - reused)
    BY <1>2, PromptShape
  <1>4. output \in Seq(Nat) /\ t \in Nat
    <2>1. nextArrival \in Nat
      BY <1>2 DEF TypeInv
    <2>2. t \in Nat
      BY <1>2, <2>1, ArrivalTimesType
    <2>3. drawn.token + (n - reused) \in Nat
      BY <1>2, <1>3
    <2> QED
      BY <1>2, <2>2, <2>3, RandomTokensFresh
  <1>5. /\ results' = Append(results, [prompt |-> prompt, output |-> output, arrival |-> t])
        /\ sharedPrefix' = PrefixAfter(prompt)
        /\ drawn' = DrawnAfter(Len(results), (n - reused) + m)
        /\ nextArrival' = IF IsDrawn(Len(results)) THEN t ELSE nextArrival
    BY <1>1
  <1> HIDE DEF reused, prompt, output, old
  <1>6. /\ drawn'.token = drawn.token + ((n - reused) + m)
        /\ drawn' \in [token : Nat, arrival : Nat]
    <2>1. (n - reused) + m \in Nat /\ drawn.arrival \in Nat
      BY <1>2, <1>3 DEF TypeInv
    <2> QED
      BY <1>2, <1>5, <2>1 DEF DrawnAfter
  <1>7. /\ results' \in Seq(Request) /\ Len(results') = Len(results) + 1
        /\ results'[Len(results) + 1].prompt = prompt
        /\ \A i \in DOMAIN results : results'[i] = results[i]
    <2>1. [prompt |-> prompt, output |-> output, arrival |-> t] \in Request
      BY <1>3, <1>4 DEF Request
    <2>2. results \in Seq(Request)
      BY <1>2 DEF TypeInv
    <2> HIDE DEF Request
    <2> QED
      BY <1>5, <2>1, <2>2
  <1>8. SharedLen(n) \in Nat /\ SharedLen(n) <= n
    BY <1>2, SharedLenBound
  <1>9. /\ sharedPrefix' \in Seq(Nat)
        /\ sharedPrefix # <<>> => sharedPrefix' = sharedPrefix
        /\ sharedPrefix = <<>> =>
             /\ Len(sharedPrefix') = SharedLen(n)
             /\ \A k \in 1..SharedLen(n) : sharedPrefix'[k] = prompt[k]
    <2>1. CASE sharedPrefix # <<>>
      BY <1>2, <1>5, <2>1 DEF PrefixAfter, TypeInv
    <2>2. CASE sharedPrefix = <<>>
      <3>1. sharedPrefix' = SubSeq(prompt, 1, SharedLen(n))
        BY <1>3, <1>5, <2>2 DEF PrefixAfter
      <3> QED
        BY <1>2, <1>3, <1>8, <2>2, <3>1
    <2> QED
      BY <2>1, <2>2
  <1>10. TypeInv'
    BY <1>2, <1>4, <1>5, <1>6, <1>7, <1>9 DEF TypeInv
  <1>11. drawn.token <= drawn'.token
    BY <1>2, <1>3, <1>6
  <1>12. ASSUME NEW k \in 1..n
         PROVE  /\ prompt[k] <= drawn'.token
                /\ k <= old => prompt[k] = sharedPrefix[k]
                /\ k > old => prompt[k] > drawn.token
    <2>1. CASE k <= old
      <3>1. prompt[k] = sharedPrefix[k] /\ prompt[k] \in Nat /\ k \in 1..old
        BY <1>2, <1>3, <2>1
      <3>2. prompt[k] <= drawn.token
        BY <3>1 DEF IndInv, DrawnInv, old
      <3>3. drawn'.token \in Nat
        BY <1>6
      <3> QED
        BY <1>2, <1>11, <2>1, <3>1, <3>2, <3>3
    <2>2. CASE k > old
      <3>1. ~(k <= old) /\ reused = old /\ reused < k /\ k <= n
        BY <1>2, <1>3, <2>2 DEF AtMost
      <3>2. prompt[k] = drawn.token + (k - reused)
        BY <1>3, <3>1
      <3> QED
        BY <1>2, <1>3, <1>6, <2>2, <3>1, <3>2
    <2>3. k <= old \/ k > old
      BY <1>2
    <2> QED
      BY <2>1, <2>2, <2>3, Zenon
  <1> QED
    <2>1. Generates(n, prompt)
      BY <1>3, <1>7, <1>9, <1>11, <1>12 DEF old, Generates
    <2> QED
      BY <1>2, <1>3, <1>10, <2>1

\* A turn establishes or keeps the shared prefix, and draws new tokens only.
LEMMA GenerateInv ==
    ASSUME IndInv, Generate
    PROVE  IndInv'
  <1>1. TypeInv'
    BY GenerateEffect
  <1>2. PICK n \in Nat, prompt \in Seq(Nat) : Generates(n, prompt)
    BY GenerateEffect
  <1>3. PICK last \in Nat : last = Len(results)
    BY DEF IndInv, TypeInv
  <1>4. /\ TypeInv /\ DrawnInv /\ PrefixInv /\ LengthInv /\ ReuseInv /\ PairInv
        /\ Len(sharedPrefix) \in Nat /\ Len(sharedPrefix') \in Nat
        /\ drawn.token \in Nat /\ drawn'.token \in Nat
        /\ DOMAIN results = 1..last /\ DOMAIN results' = 1..(last + 1)
        /\ sharedPrefix = <<>> <=> Len(sharedPrefix) = 0
        /\ sharedPrefix' = <<>> <=> Len(sharedPrefix') = 0
    BY <1>1, <1>2, <1>3 DEF IndInv, TypeInv, Generates
  <1>5. SharedLen(n) \in Nat /\ SharedLen(n) <= n
    BY SharedLenBound
  <1>6. \A i \in 1..last : results'[i] = results[i]
    BY <1>2, <1>4 DEF Generates
  <1>7. \A i \in 1..last :
          /\ results[i].prompt \in Seq(Nat) /\ Len(results[i].prompt) \in Nat
          /\ \A k \in 1..Len(results[i].prompt) : results[i].prompt[k] \in Nat
    <2> SUFFICES ASSUME NEW i \in 1..last
                 PROVE  results[i].prompt \in Seq(Nat)
      OBVIOUS
    <2>1. results[i] \in Request
      BY <1>3, <1>4 DEF TypeInv
    <2> QED
      BY <2>1 DEF Request
  <1>8. results'[last + 1].prompt = prompt /\ Len(prompt) = n
    BY <1>2, <1>3 DEF Generates
  <1>9. /\ \A i \in 1..last : Before(i)' <=> Before(i)
        /\ Before(last + 1)' <=> (\A k \in 1..last : SharedLen(Len(results[k].prompt)) = 0)
                                  /\ SharedLen(n) = 0
        /\ Before(last) <=> \A k \in 1..last : SharedLen(Len(results[k].prompt)) = 0
    <2>1. \A i \in 1..last : 1..i \subseteq 1..last
      OBVIOUS
    <2>2. 1..(last + 1) = 1..last \cup {last + 1}
      OBVIOUS
    <2>3. \A i \in 1..last : Before(i)' <=> Before(i)
      BY <1>6, <2>1 DEF Before
    <2>4. Before(last + 1)' <=>
            /\ \A k \in 1..last : SharedLen(Len(results'[k].prompt)) = 0
            /\ SharedLen(Len(results'[last + 1].prompt)) = 0
      BY <2>2 DEF Before
    <2> QED
      BY <1>6, <1>8, <2>3, <2>4 DEF Before
  <1>10. PrefixInv'
    <2>1. Len(results') = last + 1
      BY <1>2, <1>3 DEF Generates
    <2>2. PrefixInv' <=> (Len(sharedPrefix') = 0 <=> Before(last + 1)')
      BY <1>4, <2>1 DEF PrefixInv, Before
    <2>3. Len(sharedPrefix) = 0 <=> Before(last)
      BY <1>3, <1>4 DEF PrefixInv
    <2>4. CASE sharedPrefix # <<>>
      BY <1>2, <1>4, <1>9, <2>2, <2>3, <2>4 DEF Generates
    <2>5. CASE sharedPrefix = <<>>
      BY <1>2, <1>4, <1>9, <2>2, <2>3, <2>5 DEF Generates
    <2> QED
      BY <2>4, <2>5
  <1>17. LengthInv'
    <2>1. ASSUME NEW f \in 1..last, Share(f)' > 0, Before(f - 1)'
          PROVE  Len(sharedPrefix') = Share(f)'
      <3>1. Share(f)' = Share(f) /\ Share(f) # 0
        <4>1. Share(f)' = Share(f)
          BY <1>6, <2>1 DEF Share, SharedLen, AtMost
        <4>2. Share(f) \in Nat
          BY <1>7, <2>1, SharedLenBound DEF Share
        <4> QED
          BY <2>1, <4>1, <4>2
      <3>2. 1..(f - 1) \subseteq 1..last
        BY <1>3, <1>4
      <3>3. Before(f - 1)
        BY <1>6, <2>1, <3>2 DEF Before
      <3>4. ~Before(last)
        BY <3>1 DEF Before, Share
      <3>5. sharedPrefix' = sharedPrefix
        BY <1>2, <1>3, <1>4, <3>4 DEF PrefixInv, Generates
      <3>6. Share(f) > 0
        BY <2>1, <3>1
      <3> QED
        BY <1>4, <2>1, <3>1, <3>3, <3>5, <3>6 DEF LengthInv
    <2>2. ASSUME Before((last + 1) - 1)'
          PROVE  Len(sharedPrefix') = Share(last + 1)'
      <3>1. (last + 1) - 1 = last /\ 1..last \subseteq DOMAIN results
        BY <1>3, <1>4
      <3>2. Before(last)
        BY <1>4, <1>6, <2>2, <3>1 DEF Before
      <3> QED
        BY <1>2, <1>3, <1>4, <1>8, <3>2 DEF PrefixInv, Generates, Share
    <2>3. \A f \in 1..(last + 1) : f \in 1..last \/ f = last + 1
      OBVIOUS
    <2> QED
      BY <1>4, <2>1, <2>2, <2>3 DEF LengthInv
  <1>11. DrawnInv'
    <2>1. ASSUME NEW i \in 1..last, NEW k \in 1..Len(results[i].prompt)
          PROVE  results[i].prompt[k] <= drawn'.token
      <3>1. /\ results[i].prompt[k] \in Nat /\ results[i].prompt[k] <= drawn.token
            /\ drawn.token <= drawn'.token
        BY <1>2, <1>4, <1>7 DEF DrawnInv, Generates
      <3> QED
        BY <1>4, <3>1
    <2>2. ASSUME NEW k \in 1..n
          PROVE  prompt[k] <= drawn'.token
      BY <1>2 DEF Generates
    <2>3. ASSUME NEW k \in 1..Len(sharedPrefix')
          PROVE  sharedPrefix'[k] <= drawn'.token
      <3>1. CASE sharedPrefix # <<>>
        <4>1. /\ sharedPrefix[k] \in Nat /\ sharedPrefix[k] <= drawn.token
              /\ sharedPrefix' = sharedPrefix
          BY <1>2, <1>4, <3>1 DEF DrawnInv, TypeInv, Generates
        <4>2. drawn.token <= drawn'.token
          BY <1>2 DEF Generates
        <4> QED
          BY <1>4, <4>1, <4>2
      <3>2. CASE sharedPrefix = <<>>
        <4>1. k \in 1..n /\ sharedPrefix'[k] = prompt[k]
          BY <1>2, <1>5, <3>2 DEF Generates
        <4> QED
          BY <2>2, <4>1
      <3> QED
        BY <3>1, <3>2
    <2>4. \A i \in 1..(last + 1) : i \in 1..last \/ i = last + 1
      OBVIOUS
    <2> QED
      BY <1>4, <1>6, <1>8, <2>1, <2>2, <2>3, <2>4 DEF DrawnInv
  <1>12. sharedPrefix = <<>> => \A i \in 1..last : Before(i)
    <2>1. \A i \in 1..last : 1..i \subseteq 1..last
      OBVIOUS
    <2> QED
      BY <1>3, <1>4, <2>1 DEF PrefixInv, Before
  <1>13. sharedPrefix # <<>> => ~(\A k \in 1..last : SharedLen(Len(results[k].prompt)) = 0)
    BY <1>3, <1>4, <1>9 DEF PrefixInv
  <1>14. ASSUME NEW i \in 1..last, NEW k \in 1..Len(results[i].prompt), k \in 1..n,
                k > Len(sharedPrefix)
         PROVE  results[i].prompt[k] # prompt[k]
    <2>1. /\ results[i].prompt[k] \in Nat /\ results[i].prompt[k] <= drawn.token
      BY <1>4, <1>7 DEF DrawnInv
    <2>2. prompt[k] > drawn.token /\ prompt[k] \in Nat
      BY <1>2, <1>8, <1>14 DEF Generates
    <2> QED
      BY <1>4, <2>1, <2>2
  <1>15. ReuseInv'
    <2>1. ASSUME NEW i \in 1..last, NEW k \in 1..Len(results[i].prompt),
                 k <= Len(sharedPrefix')
          PROVE  results[i].prompt[k] = sharedPrefix'[k] <=> ~Before(i)
      <3>1. CASE sharedPrefix # <<>>
        BY <1>2, <1>4, <2>1, <3>1 DEF Generates, ReuseInv
      <3>2. CASE sharedPrefix = <<>>
        <4>1. /\ k \in 1..SharedLen(n) /\ k \in 1..n /\ k > Len(sharedPrefix)
              /\ sharedPrefix'[k] = prompt[k]
          BY <1>2, <1>4, <1>5, <1>7, <2>1, <3>2 DEF Generates
        <4> QED
          BY <1>12, <1>14, <3>2, <4>1
      <3> QED
        BY <3>1, <3>2
    <2>2. ASSUME NEW k \in 1..n, k <= Len(sharedPrefix')
          PROVE  prompt[k] = sharedPrefix'[k] /\ ~Before(last + 1)'
      <3>1. CASE sharedPrefix # <<>>
        BY <1>2, <1>9, <1>13, <2>2, <3>1 DEF Generates
      <3>2. CASE sharedPrefix = <<>>
        <4>1. k \in 1..SharedLen(n) /\ sharedPrefix'[k] = prompt[k]
          BY <1>2, <1>5, <2>2, <3>2 DEF Generates
        <4>2. SharedLen(n) # 0
          BY <1>5, <4>1
        <4> QED
          BY <1>9, <4>1, <4>2
      <3> QED
        BY <3>1, <3>2
    <2>3. \A i \in 1..(last + 1) : i \in 1..last \/ i = last + 1
      OBVIOUS
    <2> QED
      BY <1>4, <1>6, <1>8, <1>9, <2>1, <2>2, <2>3 DEF ReuseInv
  <1>16. PairInv'
    <2>1. ASSUME NEW i \in 1..last, NEW j \in 1..last, i < j,
                 NEW k \in 1..Len(results[i].prompt), k <= Len(results[j].prompt)
          PROVE  results[i].prompt[k] = results[j].prompt[k]
                    <=> ~Before(i) /\ k <= Len(sharedPrefix')
      <3>1. results[i].prompt[k] = results[j].prompt[k]
              <=> ~Before(i) /\ k <= Len(sharedPrefix)
        BY <1>4, <2>1 DEF PairInv
      <3>2. CASE sharedPrefix # <<>>
        BY <1>2, <3>1, <3>2 DEF Generates
      <3>3. CASE sharedPrefix = <<>>
        BY <1>12, <3>1, <3>3
      <3> QED
        BY <3>2, <3>3
    <2>2. ASSUME NEW i \in 1..last, NEW k \in 1..Len(results[i].prompt), k <= n
          PROVE  results[i].prompt[k] = prompt[k]
                    <=> ~Before(i) /\ k <= Len(sharedPrefix')
      <3>1. k \in 1..n
        BY <1>7, <2>2
      <3>2. CASE k > Len(sharedPrefix)
        <4>1. results[i].prompt[k] # prompt[k]
          BY <1>14, <3>1, <3>2
        <4>2. sharedPrefix # <<>> => ~(k <= Len(sharedPrefix'))
          BY <1>2, <1>4, <3>1, <3>2 DEF Generates
        <4> QED
          BY <1>12, <4>1, <4>2
      <3>3. CASE k <= Len(sharedPrefix)
        <4>1. sharedPrefix # <<>> /\ sharedPrefix' = sharedPrefix
          BY <1>2, <1>4, <3>1, <3>3 DEF Generates
        <4>2. prompt[k] = sharedPrefix[k]
          BY <1>2, <3>1, <3>3 DEF Generates
        <4>3. results[i].prompt[k] = sharedPrefix[k] <=> ~Before(i)
          BY <1>4, <3>3 DEF ReuseInv
        <4> QED
          BY <3>3, <4>1, <4>2, <4>3
      <3> QED
        BY <1>4, <3>1, <3>2, <3>3
    <2>3. SUFFICES ASSUME NEW i \in 1..(last + 1), NEW j \in 1..(last + 1), i < j,
                          NEW k \in 1..Len(results'[i].prompt),
                          k <= Len(results'[j].prompt)
                   PROVE  results'[i].prompt[k] = results'[j].prompt[k]
                            <=> ~Before(i)' /\ k <= Len(sharedPrefix')
      BY <1>4 DEF PairInv
    <2>4. /\ i \in 1..last /\ results'[i] = results[i]
          /\ (Before(i)' <=> Before(i)) /\ k \in 1..Len(results[i].prompt)
      <3>1. i \in 1..last
        BY <1>3, <2>3
      <3> QED
        BY <1>6, <1>9, <2>3, <3>1
    <2>5. CASE j \in 1..last
      <3>1. results'[j] = results[j] /\ k <= Len(results[j].prompt)
        BY <1>6, <2>3, <2>5
      <3> QED
        BY <2>1, <2>3, <2>4, <2>5, <3>1
    <2>6. CASE j = last + 1
      <3>1. results'[j].prompt = prompt /\ k <= n
        BY <1>8, <2>3, <2>6
      <3> QED
        BY <2>2, <2>4, <3>1
    <2> QED
      BY <1>3, <2>3, <2>5, <2>6
  <1> QED
    BY <1>1, <1>10, <1>11, <1>15, <1>16, <1>17 DEF IndInv

-----------------------------------------------------------------------------
(* The stream of new tokens                                                *)

\* What request i takes over, and the tokens that were drawn for it.
ReusedLen(i) == IF Before(i - 1) THEN 0
                ELSE AtMost(Len(sharedPrefix), Len(results[i].prompt))
FreshOf(i) == SubSeq(results[i].prompt, ReusedLen(i) + 1, Len(results[i].prompt))
                  \o results[i].output
Fresh == [i \in DOMAIN results |-> FreshOf(i)]

\* The new tokens of all requests are what was drawn, in that order.
StreamInv == FlattenSeq(Fresh) = RandomTokens(0, drawn.token)

\* Draws that follow one another are one stream.
LEMMA StreamsJoin ==
    ASSUME NEW d \in Nat, NEW a \in Nat, NEW b \in Nat
    PROVE  RandomTokens(d, a) \o RandomTokens(d + a, b) = RandomTokens(d, a + b)
  <1> DEFINE s == RandomTokens(d, a)
             t == RandomTokens(d + a, b)
             u == RandomTokens(d, a + b)
  <1>1. /\ s \in Seq(Nat) /\ Len(s) = a /\ \A k \in 1..a : s[k] = d + k
        /\ t \in Seq(Nat) /\ Len(t) = b /\ \A k \in 1..b : t[k] = (d + a) + k
        /\ u \in Seq(Nat) /\ Len(u) = a + b /\ \A k \in 1..(a + b) : u[k] = d + k
    <2>1. d + a \in Nat /\ a + b \in Nat
      OBVIOUS
    <2> QED
      BY <2>1, RandomTokensFresh
  <1> HIDE DEF s, t, u
  <1>2. /\ s \o t \in Seq(Nat) /\ Len(s \o t) = a + b
        /\ \A k \in 1..(a + b) : (s \o t)[k] = IF k <= a THEN s[k] ELSE t[k - a]
    BY <1>1, ConcatProperties
  <1>3. ASSUME NEW k \in 1..(a + b)
        PROVE  (s \o t)[k] = u[k]
    <2>1. CASE k <= a
      BY <1>1, <1>2, <2>1
    <2>2. CASE ~(k <= a)
      <3>1. k - a \in 1..b /\ (d + a) + (k - a) = d + k
        BY <2>2
      <3> QED
        BY <1>1, <1>2, <2>2, <3>1
    <2> QED
      BY <2>1, <2>2
  <1>4. s \o t = u
    BY <1>1, <1>2, <1>3, SeqEqual
  <1> QED
    BY <1>4 DEF s, t, u

\* The parts of a request.
LEMMA FreshType ==
    ASSUME TypeInv
    PROVE  Fresh \in Seq(Seq(Nat)) /\ Len(Fresh) = Len(results)
  <1>1. results \in Seq(Request) /\ Len(sharedPrefix) \in Nat
    BY DEF TypeInv
  <1>2. ASSUME NEW i \in DOMAIN results
        PROVE  FreshOf(i) \in Seq(Nat)
    <2>1. results[i] \in Request
      BY <1>1
    <2>2. /\ results[i].prompt \in Seq(Nat) /\ results[i].output \in Seq(Nat)
      BY <2>1 DEF Request
    <2>3. ReusedLen(i) \in Nat /\ ReusedLen(i) <= Len(results[i].prompt)
      BY <1>1, <2>2 DEF ReusedLen, AtMost
    <2>4. ASSUME NEW p \in Seq(Nat), NEW l \in Nat, l <= Len(p)
          PROVE  SubSeq(p, l + 1, Len(p)) \in Seq(Nat)
      BY <2>4
    <2>5. SubSeq(results[i].prompt, ReusedLen(i) + 1, Len(results[i].prompt)) \in Seq(Nat)
      BY <2>2, <2>3, <2>4
    <2> QED
      BY <2>2, <2>5 DEF FreshOf
  <1>3. Len(results) \in Nat /\ DOMAIN results = 1..Len(results)
    BY <1>1
  <1> QED
    BY <1>2, <1>3 DEF Fresh

\* A turn of the loop leaves what was drawn for the earlier requests.
LEMMA FreshStays ==
    ASSUME IndInv, Generate, NEW i \in DOMAIN results
    PROVE  FreshOf(i)' = FreshOf(i)
  <1>1. PICK n \in Nat, prompt \in Seq(Nat) : Generates(n, prompt)
    BY GenerateEffect
  <1>2. /\ \A k \in DOMAIN results : results'[k] = results[k]
        /\ sharedPrefix # <<>> => sharedPrefix' = sharedPrefix
    BY <1>1 DEF Generates
  <1>3. /\ results \in Seq(Request) /\ Len(results) \in Nat
        /\ DOMAIN results = 1..Len(results)
    BY DEF IndInv, TypeInv
  <1>4. /\ 1..(i - 1) \subseteq DOMAIN results
    BY <1>3
  <1>5. Before(i - 1)' <=> Before(i - 1)
    BY <1>2, <1>4 DEF Before
  <1>6. sharedPrefix = <<>> => Before(i - 1)
    BY <1>3, <1>4 DEF Before, IndInv, PrefixInv
  <1>7. ReusedLen(i)' = ReusedLen(i)
    BY <1>2, <1>5, <1>6 DEF ReusedLen
  <1> QED
    BY <1>2, <1>7 DEF FreshOf

\* And what was drawn since is the new request's.
LEMMA FreshDrawn ==
    ASSUME IndInv, Generate, NEW last \in Nat, last = Len(results)
    PROVE  \E c \in Nat :
             /\ drawn'.token = drawn.token + c
             /\ Len(results') = last + 1
             /\ FreshOf(last + 1)' = RandomTokens(drawn.token, c)
  <1>1. PICK n \in PromptLens, m \in OutputLens, t \in ArrivalTimes(Len(results)) :
          LET fresh  == n - Len(Reused(n))
              prompt == Reused(n) \o RandomTokens(drawn.token, fresh)
              output == RandomTokens(drawn.token + fresh, m)
          IN /\ results' = Append(results,
                    [prompt |-> prompt, output |-> output, arrival |-> t])
             /\ sharedPrefix' = PrefixAfter(prompt)
             /\ drawn' = DrawnAfter(Len(results), fresh + m)
    BY DEF Generate
  <1> DEFINE reused == Len(Reused(n))
             fresh  == RandomTokens(drawn.token, n - reused)
             prompt == Reused(n) \o fresh
             output == RandomTokens(drawn.token + (n - reused), m)
  <1>2. /\ n \in Nat /\ m \in Nat /\ TypeInv /\ PrefixInv
        /\ results \in Seq(Request)
        /\ Len(sharedPrefix) \in Nat /\ drawn.token \in Nat
    BY GeneratorAssumption DEF GeneratorAssumption, IndInv, TypeInv
  <1>3. /\ reused = AtMost(Len(sharedPrefix), n) /\ reused \in Nat /\ n - reused \in Nat
        /\ prompt \in Seq(Nat) /\ Len(prompt) = n
    BY <1>2, PromptShape
  <1>4. Reused(n) \in Seq(Nat) /\ Len(Reused(n)) = reused
    BY <1>2, <1>3 DEF Reused, TypeInv, AtMost
  <1>5. fresh \in Seq(Nat) /\ Len(fresh) = n - reused
    BY <1>2, <1>3, RandomTokensFresh
  <1>6. /\ results' = Append(results, [prompt |-> prompt, output |-> output, arrival |-> t])
        /\ sharedPrefix' = PrefixAfter(prompt)
        /\ drawn' = DrawnAfter(last, (n - reused) + m)
    BY <1>1
  <1> HIDE DEF fresh, prompt, output, reused
  <1>7. /\ Len(results') = last + 1
        /\ results'[last + 1].prompt = prompt /\ results'[last + 1].output = output
        /\ \A k \in 1..last : results'[k] = results[k]
    BY <1>2, <1>6
  <1>8. drawn'.token = drawn.token + ((n - reused) + m) /\ (n - reused) + m \in Nat
    BY <1>2, <1>3, <1>6 DEF DrawnAfter
  <1>9. ReusedLen(last + 1)' = reused
    <2>1. (last + 1) - 1 = last /\ 1..last \subseteq DOMAIN results
      BY <1>2
    <2>2. Before((last + 1) - 1)' <=> Before(last)
      BY <1>7, <2>1 DEF Before
    <2>3. Before(last) <=> sharedPrefix = <<>>
      BY <1>2 DEF PrefixInv
    <2>4. sharedPrefix # <<>> => sharedPrefix' = sharedPrefix
      BY <1>6 DEF PrefixAfter
    <2>5. sharedPrefix = <<>> => reused = 0
      BY <1>2, <1>3 DEF AtMost
    <2> QED
      BY <1>3, <1>7, <2>2, <2>3, <2>4, <2>5 DEF ReusedLen
  <1>10. SubSeq(prompt, reused + 1, n) = fresh
    <2>1. ASSUME NEW p \in Seq(Nat), NEW q \in Seq(Nat)
          PROVE  SubSeq(p \o q, Len(p) + 1, Len(p \o q)) = q
      OBVIOUS
    <2> QED
      BY <1>3, <1>4, <1>5, <2>1 DEF prompt
  <1>11. fresh \o output = RandomTokens(drawn.token, (n - reused) + m)
    <2>1. /\ drawn.token \in Nat /\ n - reused \in Nat /\ m \in Nat
      BY <1>2, <1>3
    <2> QED
      BY <2>1, StreamsJoin, Zenon DEF fresh, output
  <1>12. FreshOf(last + 1)' = RandomTokens(drawn.token, (n - reused) + m)
    BY <1>3, <1>7, <1>9, <1>10, <1>11 DEF FreshOf
  <1> QED
    BY <1>7, <1>8, <1>12

\* So the stream grows at its end.
LEMMA StreamNext ==
    ASSUME IndInv, IndInv', StreamInv, [Generate]_vars
    PROVE  StreamInv'
  <1>1. CASE UNCHANGED vars
    BY <1>1 DEF vars, StreamInv, Fresh, FreshOf, ReusedLen, Before
  <1>2. CASE Generate
    <2>0. PICK last \in Nat : last = Len(results)
      BY DEF IndInv, TypeInv
    <2>1. PICK c \in Nat :
            /\ drawn'.token = drawn.token + c
            /\ Len(results') = last + 1
            /\ FreshOf(last + 1)' = RandomTokens(drawn.token, c)
      BY <1>2, <2>0, FreshDrawn
    <2> DEFINE x == RandomTokens(drawn.token, c)
    <2>2. /\ TypeInv /\ drawn.token \in Nat
          /\ DOMAIN results = 1..last /\ DOMAIN results' = 1..(last + 1)
      <3>1. results \in Seq(Request) /\ results' \in Seq(Request) /\ drawn.token \in Nat
        BY DEF IndInv, TypeInv
      <3> QED
        BY <2>0, <2>1, <3>1 DEF IndInv
    <2>3. Fresh \in Seq(Seq(Nat)) /\ Len(Fresh) = last
      BY <2>0, <2>2, FreshType
    <2>4. Fresh' = [i \in 1..(last + 1) |-> FreshOf(i)']
      BY <2>2 DEF Fresh
    <2>5. x \in Seq(Nat)
      BY <2>2, RandomTokensFresh
    <2>6. FreshOf(last + 1)' = x
      BY <2>1
    <2>7. ASSUME NEW i \in 1..last PROVE FreshOf(i)' = Fresh[i]
      <3>1. i \in DOMAIN results
        BY <2>2
      <3>2. FreshOf(i)' = FreshOf(i)
        BY <1>2, <3>1, FreshStays
      <3> QED
        BY <3>1, <3>2 DEF Fresh
    <2> HIDE DEF x
    <2>8. Fresh' = Append(Fresh, x)
      <3>1. ASSUME NEW V, NEW s \in Seq(V), NEW v \in V, Len(s) = last
            PROVE  Append(s, v) =
                     [i \in 1..(last + 1) |-> IF i = last + 1 THEN v ELSE s[i]]
        <4>1. /\ Append(s, v) \in Seq(V) /\ Len(Append(s, v)) = last + 1
              /\ \A i \in 1..(last + 1) :
                   Append(s, v)[i] = IF i = last + 1 THEN v ELSE s[i]
          BY <3>1
        <4>2. \A u \in Seq(V) : u = [i \in 1..Len(u) |-> u[i]]
          OBVIOUS
        <4>3. Append(s, v) = [i \in 1..(last + 1) |-> Append(s, v)[i]]
          BY <4>1, <4>2, Zenon
        <4> QED
          BY <4>1, <4>3
      <3>2. Append(Fresh, x) =
              [i \in 1..(last + 1) |-> IF i = last + 1 THEN x ELSE Fresh[i]]
        BY <2>3, <2>5, <3>1
      <3>3. ASSUME NEW i \in 1..(last + 1)
            PROVE  FreshOf(i)' = IF i = last + 1 THEN x ELSE Fresh[i]
        BY <2>6, <2>7
      <3> QED
        BY <2>4, <3>2, <3>3
    <2>9. FlattenSeq(Fresh') = FlattenSeq(Fresh) \o x
      BY <2>3, <2>5, <2>8, FlattenAppend
    <2>10. FlattenSeq(Fresh') = RandomTokens(0, drawn.token) \o RandomTokens(0 + drawn.token, c)
      <3>1. 0 + drawn.token = drawn.token
        BY <2>2
      <3> QED
        BY <2>9, <3>1, Zenon DEF StreamInv, x
    <2>11. FlattenSeq(Fresh') = RandomTokens(0, drawn'.token)
      <3>1. 0 \in Nat /\ drawn.token \in Nat
        BY <2>2
      <3>2. RandomTokens(0, drawn.token) \o RandomTokens(0 + drawn.token, c)
              = RandomTokens(0, drawn.token + c)
        BY <3>1, StreamsJoin, Zenon
      <3> QED
        BY <2>1, <2>10, <3>2, Zenon
    <2> QED
      BY <2>11 DEF StreamInv
  <1> QED
    BY <1>1, <1>2

-----------------------------------------------------------------------------
(* The theorems                                                            *)

\* The inductive invariant holds of every generation: what the prompts have
\* in common, token by token, after every turn of generate().
THEOREM Inductive == Spec => []IndInv
  <1>1. Init => IndInv
    BY InitInv
  <1>2. IndInv /\ [Generate]_vars => IndInv'
    <2> SUFFICES ASSUME IndInv, [Generate]_vars PROVE IndInv'
      OBVIOUS
    <2>1. CASE UNCHANGED vars
      BY <2>1 DEF vars, IndInv, TypeInv, DrawnInv, PrefixInv, LengthInv,
                    ReuseInv, PairInv, Share, Before
    <2> QED
      BY <2>1, GenerateInv
  <1> QED
    BY <1>1, <1>2, PTL DEF Spec

\* The first prompt that is long enough to share anything decides: two generated
\* prompts have its share in common, as far as both are long enough, and nothing
\* after it, whatever share their own lengths would give; a prompt from before
\* it has nothing in common with a later one.
THEOREM OverlapControlled == Spec => []OverlapIsSharedPrefix
  <1>1. ASSUME IndInv, NEW i \in DOMAIN results, NEW j \in DOMAIN results, i < j
        PROVE  Common(i, j) = IF Before(i) THEN 0
                              ELSE Min({Len(sharedPrefix), Len(results[i].prompt),
                                        Len(results[j].prompt)})
    <2> DEFINE p == results[i].prompt
               q == results[j].prompt
               c == IF Before(i) THEN 0
                    ELSE Min({Len(sharedPrefix), Len(p), Len(q)})
    <2>1. results \in Seq(Request) /\ Len(sharedPrefix) \in Nat
      BY <1>1 DEF IndInv, TypeInv
    <2>2. p \in Seq(Nat) /\ q \in Seq(Nat) /\ Len(p) \in Nat /\ Len(q) \in Nat
      <3>1. results[i] \in Request /\ results[j] \in Request
        BY <2>1
      <3> QED
        BY <3>1 DEF Request
    <2>3. \A k \in 1..Len(p) : k <= Len(q) =>
            (p[k] = q[k] <=> ~Before(i) /\ k <= Len(sharedPrefix))
      BY <1>1 DEF IndInv, PairInv
    <2> HIDE DEF p, q
    <2>4. LET m == Min({Len(sharedPrefix), Len(p), Len(q)})
          IN /\ m \in Nat /\ m <= Len(sharedPrefix) /\ m <= Len(p) /\ m <= Len(q)
             /\ m \in {Len(sharedPrefix), Len(p), Len(q)}
      BY <2>1, <2>2, LeastOfThree
    <2>5. /\ c \in Nat /\ c <= Len(p) /\ c <= Len(q)
          /\ \A k \in 1..c : ~Before(i) /\ k <= Len(sharedPrefix)
          /\ c < Len(p) /\ c < Len(q) => Before(i) \/ ~(c + 1 <= Len(sharedPrefix))
      <3>1. CASE Before(i)
        BY <2>2, <3>1
      <3>2. CASE ~Before(i)
        <4>1. /\ c \in Nat /\ c <= Len(sharedPrefix) /\ c <= Len(p) /\ c <= Len(q)
              /\ c = Len(sharedPrefix) \/ c = Len(p) \/ c = Len(q)
          BY <2>4, <3>2
        <4> HIDE DEF c
        <4> QED
          BY <2>1, <2>2, <3>2, <4>1
      <3> QED
        BY <3>1, <3>2
    <2> HIDE DEF c
    <2>6. /\ \A k \in 1..c : p[k] = q[k]
          /\ c < Len(p) /\ c < Len(q) => p[c + 1] # q[c + 1]
      <3>1. ASSUME NEW k \in 1..c
            PROVE  p[k] = q[k]
        <4>1. k \in 1..Len(p) /\ k <= Len(q)
          BY <2>2, <2>5
        <4> QED
          BY <2>3, <2>5, <4>1
      <3>2. ASSUME c < Len(p), c < Len(q)
            PROVE  p[c + 1] # q[c + 1]
        <4>1. c + 1 \in 1..Len(p) /\ c + 1 <= Len(q)
          BY <2>2, <2>5, <3>2
        <4> QED
          BY <2>3, <2>5, <3>2, <4>1
      <3> QED
        BY <3>1, <3>2
    <2>7. Len(LongestCommonPrefix({p, q})) = c
      BY <2>2, <2>5, <2>6, CommonLength
    <2> QED
      BY <2>7 DEF Common, p, q, c
  <1>2. IndInv => OverlapIsSharedPrefix
    <2> SUFFICES ASSUME IndInv, NEW i \in DOMAIN results, NEW j \in DOMAIN results, i < j
                 PROVE  /\ (\A k \in 1..i : Share(k) = 0) => Common(i, j) = 0
                        /\ \A first \in 1..i :
                             Share(first) > 0 /\ (\A k \in 1..(first - 1) : Share(k) = 0) =>
                                Common(i, j) = Min({Share(first), Len(results[i].prompt),
                                                    Len(results[j].prompt)})
      BY DEF OverlapIsSharedPrefix
    <2>1. (\A k \in 1..i : Share(k) = 0) => Common(i, j) = 0
      BY <1>1 DEF Before, Share
    <2>2. ASSUME NEW first \in 1..i, Share(first) > 0,
                 \A k \in 1..(first - 1) : Share(k) = 0
          PROVE  Common(i, j) = Min({Share(first), Len(results[i].prompt),
                                     Len(results[j].prompt)})
      <3>1. first \in DOMAIN results
        <4>1. results \in Seq(Request)
          BY DEF IndInv, TypeInv
        <4> QED
          BY <4>1
      <3>2. Share(first) # 0
        BY <2>2
      <3>3. ~Before(i)
        BY <3>2 DEF Before, Share
      <3>4. Before(first - 1)
        BY <2>2 DEF Before, Share
      <3>5. Len(sharedPrefix) = Share(first)
        BY <2>2, <3>1, <3>4 DEF IndInv, LengthInv
      <3> QED
        BY <1>1, <3>3, <3>5
    <2> QED
      BY <2>1, <2>2
  <1> QED
    BY <1>2, Inductive, PTL

\* The tokens that the requests do not take over from the shared prefix are, in
\* the order of generation, the stream of the token generator without a gap: with
\* another arrival pattern the same prompts and outputs are drawn, although the
\* gaps of a Poisson process are drawn between them (_arrival_rng is apart).
THEOREM TokensApartFromArrivals == Spec => []TokensIndependentOfArrivals
  <1>1. Init => StreamInv
    <2> SUFFICES ASSUME Init PROVE StreamInv
      OBVIOUS
    <2>1. results = <<>> /\ drawn.token = 0
      BY DEF Init
    <2>2. Len(Fresh) = 0 /\ Fresh = <<>>
      BY <2>1 DEF Fresh
    <2>3. RandomTokens(0, 0) = <<>>
      BY DEF RandomTokens
    <2> QED
      BY <2>1, <2>2, <2>3 DEF StreamInv, FlattenSeq
  <1>2. IndInv /\ IndInv' /\ StreamInv /\ [Generate]_vars => StreamInv'
    BY StreamNext
  <1>3. IndInv /\ StreamInv => TokensIndependentOfArrivals
    <2> SUFFICES ASSUME IndInv, StreamInv PROVE TokensIndependentOfArrivals
      OBVIOUS
    <2>1. drawn.token \in Nat
      BY DEF IndInv, TypeInv
    <2>2. Len(FlattenSeq(Fresh)) = drawn.token
      BY <2>1, RandomTokensFresh DEF StreamInv
    <2>3. FlattenSeq(Fresh) = RandomTokens(0, Len(FlattenSeq(Fresh)))
      BY <2>2 DEF StreamInv
    <2> QED
      BY <2>3 DEF TokensIndependentOfArrivals, Fresh, FreshOf, ReusedLen, Before
  <1> QED
    BY Inductive, <1>1, <1>2, <1>3, PTL DEF Spec

=============================================================================
