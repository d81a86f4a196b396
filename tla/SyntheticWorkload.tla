------------------------- MODULE SyntheticWorkload -------------------------
(***************************************************************************)
(* SyntheticDataGenerator.generate (src/simulator/data/synthetic.py), one   *)
(* request in each step.  A random token is named by its place in the       *)
(* stream of the token generator, so tokens are equal only when one was     *)
(* copied from the other.  The lengths are any the configured distribution  *)
(* can give; the draws they take from the stream are left out.              *)
(***************************************************************************)
EXTENDS Integers, SequencesExt

CONSTANTS
    NumRequests,   \* num_requests
    PromptLens,    \* what _sample_prompt_length can return
    OutputLens,    \* what _sample_output_length can return
    SharedRatio,   \* shared_prefix_ratio, in percent
    SharedLength,  \* shared_prefix_length, or NoLength
    NoLength,      \* None
    Pattern,       \* arrival_pattern, "default" without an arrival config
    Gaps,          \* the gaps expovariate can give, in ms
    StaggerSteps   \* stagger_delay_steps

ASSUME GeneratorAssumption ==
    /\ NumRequests \in Nat /\ SharedRatio \in 0..100
    /\ PromptLens \subseteq Nat /\ OutputLens \subseteq Nat
    /\ SharedLength \in Nat \cup {NoLength}
    /\ Pattern \in {"default", "burst", "poisson", "staggered"}
    /\ Gaps \subseteq Nat /\ StaggerSteps \in Nat

VARIABLES
    results,       \* the requests generated so far
    sharedPrefix,  \* _shared_prefix, empty for None
    drawn,         \* draws taken from each generator: _rng and _arrival_rng
    nextArrival    \* _next_arrival

vars == <<results, sharedPrefix, drawn, nextArrival>>

Init ==
    /\ results = <<>> /\ sharedPrefix = <<>>
    /\ drawn = [token |-> 0, arrival |-> 0]
    /\ nextArrival = 0

AtMost(a, b) == IF a < b THEN a ELSE b

\* _random_tokens(n) after the first d draws
RandomTokens(d, n) == [k \in 1..n |-> d + k]

\* _compute_shared_len
SharedLen(n) == IF SharedLength # NoLength THEN AtMost(SharedLength, n)
                                           ELSE (n * SharedRatio) \div 100

\* every request replaces the shared prefix by its own
PrefixAfterMutant(prompt) == SubSeq(prompt, 1, SharedLen(Len(prompt)))
\* The first request that shares anything establishes the prefix
PrefixAfter(prompt) ==
    IF sharedPrefix = <<>> THEN SubSeq(prompt, 1, SharedLen(Len(prompt)))
                           ELSE sharedPrefix

\* What a prompt of length n takes of it
Reused(n) == SubSeq(sharedPrefix, 1, AtMost(Len(sharedPrefix), n))

\* _compute_arrival_time of the request of index i, from 0
ArrivalTimes(i) ==
    CASE i = 0 \/ Pattern = "burst" -> {0}
      [] i > 0 /\ Pattern = "default" -> {i * 10}
      [] i > 0 /\ Pattern = "poisson" -> {nextArrival + g : g \in Gaps}
      [] i > 0 /\ Pattern = "staggered" -> {i * StaggerSteps * 10}

IsDrawn(i) == i > 0 /\ Pattern = "poisson"

\* one generator for everything
DrawnAfterMutant(i, n) == [drawn EXCEPT !.token = @ + n + (IF IsDrawn(i) THEN 1 ELSE 0)]
\* n draws of tokens, and one for an exponential gap, each from its own generator
DrawnAfter(i, n) ==
    [token   |-> drawn.token + n,
     arrival |-> drawn.arrival + (IF IsDrawn(i) THEN 1 ELSE 0)]

\* One turn of the loop of generate
Generate ==
    LET i == Len(results)
    IN /\ i < NumRequests
       /\ \E n \in PromptLens, m \in OutputLens, t \in ArrivalTimes(i) :
            LET fresh  == n - Len(Reused(n))
                prompt == Reused(n) \o RandomTokens(drawn.token, fresh)
                output == RandomTokens(drawn.token + fresh, m)
            IN /\ results' = Append(results,
                      [prompt |-> prompt, output |-> output, arrival |-> t])
               /\ sharedPrefix' = PrefixAfter(prompt)
               /\ drawn' = DrawnAfter(i, fresh + m)
               /\ nextArrival' = IF IsDrawn(i) THEN t ELSE nextArrival

Spec == Init /\ [][Generate]_vars

-----------------------------------------------------------------------------

Common(i, j) == Len(LongestCommonPrefix({results[i].prompt, results[j].prompt}))

\* How much of its own prompt request k would share
Share(k) == SharedLen(Len(results[k].prompt))

\* The first prompt long enough to share anything decides what all overlap in:
\* two prompts agree on its share, as far as both are long enough, and on nothing
\* after it, whatever share their own lengths would give; a prompt from before it
\* agrees with no later one.  (_shared_prefix is set once and cut to each prompt.)
OverlapIsSharedPrefix ==
    \A i, j \in DOMAIN results : i < j =>
        /\ (\A k \in 1..i : Share(k) = 0) => Common(i, j) = 0
        /\ \A first \in 1..i :
             Share(first) > 0 /\ (\A k \in 1..(first - 1) : Share(k) = 0) =>
                Common(i, j) = Min({Share(first), Len(results[i].prompt),
                                    Len(results[j].prompt)})

\* What the docstring says (synthetic.py:31): the first request establishes a
\* shared prefix, and each later one reuses the ratio of its own length from it,
\* as far as the prefix goes.
OverlapIsRatioOfPrompt ==
    \A j \in DOMAIN results : j > 1 =>
        Common(1, j) = AtMost(Share(j), Share(1))

\* The tokens do not depend on the arrivals: in the order of generation, those
\* that are not reused are the token generator's stream without a gap, whatever
\* was drawn for the arrival times on the way.
TokensIndependentOfArrivals ==
    LET reusedLen(i) == IF \A k \in 1..(i - 1) : SharedLen(Len(results[k].prompt)) = 0
                        THEN 0
                        ELSE AtMost(Len(sharedPrefix), Len(results[i].prompt))
        freshOf(i) == SubSeq(results[i].prompt, reusedLen(i) + 1,
                             Len(results[i].prompt)) \o results[i].output
        freshOfAll == FlattenSeq([i \in DOMAIN results |-> freshOf(i)])
    IN freshOfAll = RandomTokens(0, Len(freshOfAll))

=============================================================================
