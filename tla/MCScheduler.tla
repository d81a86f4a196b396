---------------------------- MODULE MCScheduler ----------------------------
(* Instances of SimScheduler and its report for TLC: three requests,        *)
(* loaded out of order.                                                     *)
EXTENDS SimReport

CONSTANTS r1, r2, r3

MCReq == {r1, r2, r3}
MCLoaded == <<r3, r1, r2>>
MCLatencies == {1, 2}

OwnId == [r \in MCReq |-> r]
\* a dataset line that repeats the request_id of another
SharedId == [r \in MCReq |-> IF r = r3 THEN r1 ELSE r]

\* r2 arrives during the first step, r3 while the others decode or after a gap
Arrivals == (r1 :> 0) @@ (r2 :> 1) @@ (r3 :> 8)
\* r3 arrives long after the others are gone
LateArrivals == (r1 :> 0) @@ (r2 :> 1) @@ (r3 :> 30)

Prompts == (r1 :> 2) @@ (r2 :> 3) @@ (r3 :> 2)
\* r2 has an empty ground truth
Outputs == (r1 :> 4) @@ (r2 :> 0) @@ (r3 :> 2)
LongOutputs == (r1 :> 3) @@ (r2 :> 2) @@ (r3 :> 2)

\* a hit leaves part of the prompt to compute
PartialHits == (r1 :> {0}) @@ (r2 :> {0, 2}) @@ (r3 :> {0, 1})
\* the prompt of r3 may be cached as a whole
FullHits == (r1 :> {0}) @@ (r2 :> {0, 2}) @@ (r3 :> {0, 2})
=============================================================================
