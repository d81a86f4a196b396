----------------------------- MODULE SimReport -----------------------------
(***************************************************************************)
(* The report that StatisticsComputer (src/simulator/metrics/stats.py)      *)
(* computes from the recorder and the acceptance model when run() ends: a   *)
(* function of the state of SimScheduler.  Rates are kept as numerator and  *)
(* denominator, percentiles in hundredths.  Rounding, the acceptance      *)
(* rates, the averages over steps and the queue length are left out.        *)
(***************************************************************************)
EXTENDS SimScheduler

\* The members of values that are no more than v
UpTo(values, v) == {i \in DOMAIN values : values[i] <= v}

\* sorted(): place k holds the least value that k of the values do not exceed.
\* Where a record stands in the report plays no part.
SortedUp(values) ==
    [k \in 1..Cardinality(DOMAIN values) |->
        Min({v \in Range(values) : Cardinality(UpTo(values, v)) >= k})]

\* Between the values that a rank in hundredths falls between, in hundredths
Interpolated(sorted, rank) ==
    LET f == (rank \div 100) + 1
    IN IF f + 1 \in DOMAIN sorted
       THEN 100 * sorted[f] + (rank % 100) * (sorted[f + 1] - sorted[f])
       ELSE 100 * sorted[f]

\* the rank is taken of n, not of n - 1
PercentileMutant(values, p) ==
    IF DOMAIN values = {} THEN 0
    ELSE Interpolated(SortedUp(values), p * Cardinality(DOMAIN values))

\* _percentile: linear interpolation, in hundredths
Percentile(values, p) ==
    IF DOMAIN values = {} THEN 0
    ELSE Interpolated(SortedUp(values), p * (Cardinality(DOMAIN values) - 1))

\* The values of a column of the report, by the record that they are of
Ttfts == [i \in {j \in DOMAIN records : records[j].ttft # NoTime} |-> records[i].ttft]

\* A common multiple of the divisors of Tpots, to keep them whole
TpotUnit == ProductSet({OutLen[r] - 1 : r \in {q \in Req : OutLen[q] > 1}})

\* Time per output token, of requests with more than one
Tpots == [i \in {j \in DOMAIN Ttfts : records[j].output > 1} |->
             (TpotUnit * (records[i].latency - records[i].ttft))
                 \div (records[i].output - 1)]

TotalHits     == SumOver([i \in DOMAIN records |-> records[i].hits])
TotalPrompt   == SumOver([i \in DOMAIN records |-> PromptLen[records[i].req]])

\* total_tokens_generated
TotalGenerated == SumOver([i \in DOMAIN records |-> records[i].output])

Ratio(a, b) == [num |-> a, den |-> b]

CacheHitRate      == Ratio(TotalHits, TotalPrompt)
TokensPerSecond   == Ratio(1000 * recorded.totals.generated, recorded.busy)

-----------------------------------------------------------------------------
\* Percentiles of the report mean what their names say: they lie between the
\* extremes and in order, half of the values lie on each side of the median, and
\* no side is favoured: of the negated values, percentile p is the opposite of
\* percentile 100 - p (records come in the order requests finish, not in that
\* of their latencies).
PercentilesFaithful ==
    phase = "done" => \A values \in {Ttfts, Tpots} : DOMAIN values # {} =>
        LET p50 == Percentile(values, 50)
            p99 == Percentile(values, 99)
            n    == Cardinality(DOMAIN values)
            low  == {i \in DOMAIN values : 100 * values[i] <= p50}
            high == {i \in DOMAIN values : 100 * values[i] >= p50}
        IN /\ p50 <= p99 /\ p99 <= 100 * Max(Range(values))
           /\ n <= 2 * Cardinality(low)
           /\ n <= 2 * Cardinality(high)
           /\ \A p \in {1, 50, 99} :
                Percentile([i \in DOMAIN values |-> -values[i]], p)
                    = -Percentile(values, 100 - p)

\* No request is reported faster than one forward pass for every 1 + K tokens
\* after those of its first pass, whatever was accepted (TPOT leaves the time to
\* the first token out, but not the other tokens of that pass).
DecodePace ==
    \A i \in DOMAIN records :
        LET q == records[i]
            perPass == 1 + NumSpec
        IN q.output > 1 => Min(Latencies) * (q.output - perPass)
                               <= (q.latency - q.ttft) * perPass

\* The tokens of the throughput are no more than those of the requests that are
\* reported, although the two are recorded at different points of a step and one
\* of them counts tokens that the other leaves to the warmup.
ThroughputWithinRequests ==
    phase = "done" => TokensPerSecond.num <= 1000 * TotalGenerated

\* The cache hit rate is about the recorded steps: what it counts as hits was
\* loaded in them, and what it counts as misses was computed in them.
HitRateOverRecordedSteps ==
    /\ CacheHitRate.num <= recorded.totals.loaded
    /\ CacheHitRate.den - CacheHitRate.num <= recorded.totals.computed
=============================================================================
