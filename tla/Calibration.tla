---------------------------- MODULE Calibration ----------------------------
(* The two measured inputs of a run: the acceptance rates, which            *)
(* AcceptanceModel turns from marginal into conditional ones, and the       *)
(* latency points, through which GPUPerfModel fits                          *)
(*     latency = a*loaded + b*computed + c*interaction + d.                 *)
(* Rates are multiples of 1/Scale and latencies are integers; a quotient is *)
(* a record num/den with den > 0, so nothing is rounded.                    *)
EXTENDS Integers, Sequences, FiniteSetsExt, SequencesExt

CONSTANTS
    Scale,        \* rates are multiples of 1/Scale
    DefaultData,  \* GPUPerfModel.DEFAULT_DATA
    MaxLatency,   \* GPUPerfModel.MAX_STEP_LATENCY_MS
    None          \* Python's None

ASSUME CalibrationAssumption ==
    /\ Scale \in Nat \ {0} /\ MaxLatency \in Nat
    /\ DefaultData \in Seq([loaded : Nat, computed : Nat, latency : Nat])
    /\ DefaultData # <<>>

\* A sum over the members of a sequence
TotalOf(seq, cost(_)) == SumFunction([i \in DOMAIN seq |-> cost(seq[i])])

Quotient(n, d) == IF d < 0 THEN [num |-> -n, den |-> -d] ELSE [num |-> n, den |-> d]

-----------------------------------------------------------------------------
(* Acceptance rates.                                                        *)

\* The rates that pass the two checks of _marginal_to_conditional (its
\* tolerance of 1e-9 is below the resolution 1/Scale)
IsMarginal(rates) ==
    /\ \A i \in DOMAIN rates : rates[i] \in 0..Scale
    /\ \A i \in 2..Len(rates) : rates[i] <= rates[i - 1]

Before(rates, i) == IF i = 1 THEN Scale ELSE rates[i - 1]

MarginalToConditionalMutant(rates) ==   \* every rate is taken relative to the first
    [i \in DOMAIN rates |-> IF i = 1 THEN Quotient(rates[1], Scale)
                            ELSE IF rates[1] = 0 THEN Quotient(0, 1)
                            ELSE Quotient(rates[i], rates[1])]
\* cond[i] = marginal[i] / marginal[i - 1], and 0 after a rate of 0
MarginalToConditional(rates) ==
    [i \in DOMAIN rates |-> IF Before(rates, i) = 0 THEN Quotient(0, 1)
                            ELSE Quotient(rates[i], Before(rates, i))]

\* The conditional rates of AcceptanceModel for K drafts: of the first K
\* marginal rates, or a flat 0.5 when per-position rates are not given; None for
\* a ValueError
ConditionalRates(mode, rates, K) ==
    IF mode # "per_position" THEN <<>>
    ELSE IF rates \in {None, <<>>} THEN [i \in 1..K |-> Quotient(1, 2)]
    ELSE IF Len(rates) < K \/ ~IsMarginal(SubSeq(rates, 1, K)) THEN None
    ELSE MarginalToConditional(SubSeq(rates, 1, K))

-----------------------------------------------------------------------------
(* Latency coefficients.                                                    *)

\* The row of a data point in the regression, its latency last
Features(p) == <<p.loaded, p.computed, p.loaded * p.computed, 1, p.latency>>

\* The augmented normal equations [XᵀX | Xᵀy]
NormalEquations(points) ==
    [i \in 1..4 |-> [j \in 1..5 |->
        TotalOf(points, LAMBDA p : Features(p)[i] * Features(p)[j])]]

Magnitude(n) == IF n < 0 THEN -n ELSE n

\* The first of the rows col..4 whose entry in column col is largest
PivotRow(rows, col) ==
    LET largest == Max({Magnitude(rows[r][col]) : r \in col..4})
    IN Min({r \in col..4 : Magnitude(rows[r][col]) = largest})

SwappedMutant(rows, i, j) == [rows EXCEPT ![i] = rows[j]]   \* the other row is lost
Swapped(rows, i, j) == [rows EXCEPT ![i] = rows[j], ![j] = rows[i]]

Positive(row, col) == IF row[col] < 0 THEN [j \in 1..5 |-> -row[j]] ELSE row

\* One column of the Gauss-Jordan elimination. The code divides the pivot row by
\* the pivot; here every row is kept multiplied by scale, the last pivot, which
\* makes the divisions exact. A column without a pivot is skipped.
Eliminate(s, col) ==
    LET rows  == Swapped(s.rows, col, PivotRow(s.rows, col))
        pivot == Positive(rows[col], col)
        reduced(row) == [j \in 1..5 |->
            (pivot[col] * row[j] - row[col] * pivot[j]) \div s.scale]
    IN IF pivot[col] = 0 THEN s
       ELSE [rows  |-> [r \in 1..4 |-> IF r = col THEN pivot ELSE reduced(rows[r])],
             scale |-> pivot[col]]

\* The coefficients a, b, c, d of the fit, times den
Solution(points) ==
    LET done == FoldLeft(Eliminate, [rows |-> NormalEquations(points), scale |-> 1],
                         <<1, 2, 3, 4>>)
    IN [num |-> [i \in 1..4 |-> done.rows[i][5]], den |-> done.scale]

AtLeastZero(n) == IF n < 0 THEN 0 ELSE n

\* Costs per token are not negative; interaction and base may be
Fitted(points) ==
    LET s == Solution(points)
    IN [s EXCEPT !.num[1] = AtLeastZero(@), !.num[2] = AtLeastZero(@)]

\* The points of a GPUPerfConfig: an empty list counts as none
PointsOf(perf) == IF perf.data_points \in {None, <<>>} THEN DefaultData
                  ELSE perf.data_points

\* All four coefficients are needed to skip the fit
IsExplicit(perf) == \A i \in 1..4 : perf.coefficients[i] # None

Coefficients(perf) ==
    IF IsExplicit(perf) THEN [num |-> perf.coefficients, den |-> 1]
    ELSE Fitted(PointsOf(perf))

-----------------------------------------------------------------------------
(* A step of the scheduler: a batch is a sequence of requests with the      *)
(* tokens they load and compute.                                            *)

InteractionMutant(batch) ==   \* the product of the totals
    TotalOf(batch, LAMBDA q : q.loaded) * TotalOf(batch, LAMBDA q : q.computed)
\* Σ loaded * computed, request by request
Interaction(batch) == TotalOf(batch, LAMBDA q : q.loaded * q.computed)

\* The latency before it is limited, times coef.den
Raw(coef, batch) ==
    coef.num[1] * TotalOf(batch, LAMBDA q : q.loaded)
    + coef.num[2] * TotalOf(batch, LAMBDA q : q.computed)
    + coef.num[3] * Interaction(batch) + coef.num[4]

\* At most the cap, at least 0, times den
Limited(raw, den) ==
    AtLeastZero(IF raw > MaxLatency * den THEN MaxLatency * den ELSE raw)
=============================================================================
