---------------------------- MODULE SimScheduler ----------------------------
(***************************************************************************)
(* The event loop SimulatorScheduler (src/simulator/core/scheduler.py) with *)
(* the acceptance counters of AcceptanceModel and the sums MetricsRecorder  *)
(* keeps.  One step() is a StartStep (admission), one handler action for    *)
(* each running request, an Account (latency, time to first token, stall,   *)
(* record) and a FinishStep (cleanup, fast-forward, the value returned).    *)
(*                                                                          *)
(* The KV backend is any that keeps the contract of KVBackend              *)
(* (src/simulator/kv_cache/base.py): a prefix hit is a number of tokens,    *)
(* allocate_slots may refuse, and a request holds the tokens allocated and  *)
(* not given back.  The SGLang backend itself is in SGLangServing.  Time is *)
(* in whole milliseconds; what GPUPerfModel predicts is left open.          *)
(***************************************************************************)
EXTENDS Integers, SequencesExt

CONSTANTS
    Req,         \* SimRequestState objects
    Loaded,      \* the list given to load()
    Id,          \* Id[r]: request_id
    Arrival,     \* Arrival[r]: arrival_time
    PromptLen,   \* PromptLen[r]: len(prompt_token_ids)
    OutLen,      \* OutLen[r]: len(ground_truth_output) = max_output_tokens
    Hits,        \* Hits[r]: the prefix hits that the cache can have for r
    NumSpec,     \* num_spec_tokens
    Warmup,      \* warmup_steps
    StallLimit,  \* stall_limit
    Latencies,   \* what predict() may return for a step that computes
    NoTime       \* first_token_time of a request without a token: None

ASSUME RequestsAssumption ==
    /\ Loaded \in Seq(Req) /\ Range(Loaded) = Req /\ IsInjective(Loaded)
    /\ Arrival \in [Req -> Nat]
    /\ PromptLen \in [Req -> Nat] /\ OutLen \in [Req -> Nat]
    /\ \A r \in Req : r \in DOMAIN Id /\ Hits[r] \subseteq 0..PromptLen[r]

ASSUME ConfigAssumption ==
    /\ NumSpec \in Nat /\ Warmup \in Nat /\ StallLimit \in Nat \ {0}
    /\ Latencies \subseteq Nat /\ Latencies # {} /\ NoTime \notin Nat

VARIABLES
    phase,       \* where step() stands: "idle" between steps, or how run() ended
    step,        \* _step, saturated past Warmup (only _step > _warmup is read)
    simTime,     \* _sim_time
    waiting,     \* _waiting
    running,     \* _running.values(): at most one request per request_id
    todo,        \* the rest of the list step() iterates over
    totals,      \* the counters of the step: loaded, computed, accepted, generated
    firsts,      \* first_token_this_step
    stallCount,  \* _stall_count
    status, numComputed, outLen,        \* of each SimRequestState
    firstToken,  \* first_token_time
    hits,        \* num_cache_hits_on_prefill
    numAccepted, numRejected,           \* num_accepted/rejected_spec_tokens
    held,        \* tokens the backend holds for the request
    specSteps,   \* AcceptanceModel._total_spec_steps
    perPos,      \* AcceptanceModel._per_pos_accepted
    rngs,        \* AcceptanceModel._req_rngs: ids with a cached generator
    recorded,    \* MetricsRecorder.steps: the sums the report takes of them
    records      \* MetricsRecorder.requests

loopVars == <<phase, step, simTime, waiting, running, todo, totals, firsts,
              stallCount>>
requestVars == <<status, numComputed, outLen, firstToken, hits, numAccepted,
                 numRejected, held>>
acceptVars == <<specSteps, perPos, rngs>>
recorderVars == <<recorded, records>>
vars == <<loopVars, requestVars, acceptVars, recorderVars>>

\* Operators named ...Mutant are plausible defects of the definition they
\* precede; the specification does not use them.

Zero == [loaded |-> 0, computed |-> 0, accepted |-> 0, generated |-> 0]

Earlier(a, b) == IF a < b THEN a ELSE b

ByArrivalMutant == Loaded   \* not sorted

\* The order of a stable sort by arrival time, between positions of Loaded
Precedes(i, j) == \/ Arrival[Loaded[i]] < Arrival[Loaded[j]]
                  \/ Arrival[Loaded[i]] = Arrival[Loaded[j]] /\ i < j

Place(i) == 1 + Cardinality({j \in DOMAIN Loaded : Precedes(j, i)})

\* load: sorted by arrival time
ByArrival == [k \in DOMAIN Loaded |->
                  Loaded[CHOOSE i \in DOMAIN Loaded : Place(i) = k]]

Init ==
    /\ phase = "idle" /\ step = 0 /\ simTime = 0
    /\ waiting = ByArrival /\ running = <<>> /\ todo = <<>>
    /\ totals = Zero /\ firsts = {} /\ stallCount = 0
    /\ status = [r \in Req |-> "queued"]
    /\ numComputed = [r \in Req |-> 0] /\ outLen = [r \in Req |-> 0]
    /\ firstToken = [r \in Req |-> NoTime] /\ hits = [r \in Req |-> 0]
    /\ numAccepted = [r \in Req |-> 0] /\ numRejected = [r \in Req |-> 0]
    /\ held = [r \in Req |-> 0]
    /\ specSteps = 0 /\ perPos = [i \in 1..NumSpec |-> 0] /\ rngs = {}
    /\ recorded = [totals |-> Zero, busy |-> 0, wallClock |-> 0]
    /\ records = <<>>

-----------------------------------------------------------------------------
(* Admission                                                               *)

DueMutant == Cardinality({i \in DOMAIN waiting : Arrival[waiting[i]] < simTime})

\* _admit stops at the first request that has not arrived
Due == LET later == {i \in DOMAIN waiting : Arrival[waiting[i]] > simTime}
       IN IF later = {} THEN Len(waiting) ELSE Min(later) - 1

\* _running[request_id] = req: a request of the same id loses its place
Entered(run, r) ==
    IF \E i \in DOMAIN run : Id[run[i]] = Id[r]
    THEN [i \in DOMAIN run |-> IF Id[run[i]] = Id[r] THEN r ELSE run[i]]
    ELSE Append(run, r)

FreshMutant == totals   \* the counters of the last step are kept
\* The counters start at zero in every step
Fresh == Zero

StartStep ==
    /\ phase = "idle"
    /\ LET admitted == SubSeq(waiting, 1, Due)
       IN /\ waiting' = SubSeq(waiting, Due + 1, Len(waiting))
          /\ running' = FoldLeft(Entered, running, admitted)
          /\ status' = [r \in Req |-> IF r \in Range(admitted) THEN "prefill"
                                                               ELSE status[r]]
    /\ step' = Earlier(step + 1, Warmup + 1)
    /\ todo' = running'
    /\ totals' = Fresh /\ firsts' = {}
    /\ phase' = "process"
    /\ UNCHANGED <<simTime, stallCount, numComputed, outLen, firstToken, hits,
                   numAccepted, numRejected, held, acceptVars, recorderVars>>

-----------------------------------------------------------------------------
(* The handlers of one request                                             *)

\* get_computed_blocks, external: a hit needs a request prefilled before
CanHit(r, h) ==
    /\ h \in Hits[r]
    /\ h > 0 => \E q \in Req \ {r} : status[q] \in {"decoding", "finished"}

Counted(loaded, computed, accepted, generated) ==
    [loaded    |-> totals.loaded + loaded,
     computed  |-> totals.computed + computed,
     accepted  |-> totals.accepted + accepted,
     generated |-> totals.generated + generated]

HandlePrefill ==
    /\ phase = "process" /\ todo # <<>>
    /\ LET r == Head(todo)
       IN /\ status[r] = "prefill"
          /\ \E h \in Hits[r] :
               /\ CanHit(r, h)
               /\ hits' = [hits EXCEPT ![r] = h]
               /\ numComputed' = [numComputed EXCEPT ![r] = PromptLen[r]]
               /\ held' = [held EXCEPT ![r] = PromptLen[r]]
               /\ status' = [status EXCEPT ![r] = "decoding"]
               /\ totals' = Counted(h, PromptLen[r] - h, 0, 0)
    /\ todo' = Tail(todo)
    /\ UNCHANGED <<phase, step, simTime, waiting, running, firsts, stallCount,
                   outLen, firstToken, numAccepted, numRejected, acceptVars,
                   recorderVars>>

\* allocate_slots returns None: the RuntimeError ends the run
PrefillOutOfMemory ==
    /\ phase = "process" /\ todo # <<>>
    /\ LET r == Head(todo)
       IN /\ status[r] = "prefill"
          /\ \E h \in Hits[r] :
               /\ CanHit(r, h) /\ h < PromptLen[r]
               /\ hits' = [hits EXCEPT ![r] = h]
               /\ numComputed' = [numComputed EXCEPT ![r] = h]
    /\ phase' = "raised_oom"
    /\ UNCHANGED <<step, simTime, waiting, running, todo, totals, firsts,
                   stallCount, status, outLen, firstToken, numAccepted,
                   numRejected, held, acceptVars, recorderVars>>

-----------------------------------------------------------------------------
(* Speculation: SpeculativeDecodeEngine and AcceptanceModel                *)

\* Positions of the ground truth that drafts can take: one goes to the bonus
Draftable(r) == IF OutLen[r] > outLen[r] THEN OutLen[r] - outLen[r] - 1 ELSE 0

\* generate_draft_tokens stops at the end of the ground truth
Drafts(r) == Earlier(NumSpec, Draftable(r))

\* evaluate for k drafts: a chain of a acceptances, broken by a miss or by the
\* end of the ground truth.  The draws are open, so are the rates.
Verdicts(r, k) ==
    {LET beyond == IF a = Draftable(r) THEN k - a ELSE 0
     IN [accepted |-> a, rejected |-> k - a - beyond, beyond |-> beyond] :
        a \in 0..Earlier(k, Draftable(r))}

\* only the last accepted position is counted
EvaluateMutant(r, k, a) ==
    /\ specSteps' = IF k > 0 THEN specSteps + 1 ELSE specSteps
    /\ perPos' = [i \in 1..NumSpec |-> IF i = a THEN perPos[i] + 1 ELSE perPos[i]]
    /\ rngs' = IF k > 0 /\ Draftable(r) > 0 THEN rngs \cup {Id[r]} ELSE rngs

\* The counters of evaluate, and the generator it caches for its first draw
Evaluate(r, k, a) ==
    /\ specSteps' = IF k > 0 THEN specSteps + 1 ELSE specSteps
    /\ perPos' = [i \in 1..NumSpec |-> IF i <= a THEN perPos[i] + 1 ELSE perPos[i]]
    /\ rngs' = IF k > 0 /\ Draftable(r) > 0 THEN rngs \cup {Id[r]} ELSE rngs

\* The bonus token is there unless the ground truth is used up
Bonus(r) == IF outLen[r] < OutLen[r] THEN 1 ELSE 0

\* num_to_rollback
Rollback(v) == v.rejected + v.beyond

HeldAfterMutant(r, k, v) == held[r] + 1 + k   \* nothing is given back
\* allocate_slots for the bonus and k drafts, then free_rejected_slots
HeldAfter(r, k, v) == held[r] + 1 + k - Rollback(v)

HandleDecode ==
    /\ phase = "process" /\ todo # <<>>
    /\ LET r == Head(todo)
           k == Drafts(r)
       IN /\ status[r] = "decoding"
          /\ \E v \in Verdicts(r, k) :
               LET produced == Bonus(r) + v.accepted
               IN /\ Evaluate(r, k, v.accepted)
                  /\ numComputed' = [numComputed EXCEPT ![r] = @ + 1 + k - Rollback(v)]
                  /\ held' = [held EXCEPT ![r] = HeldAfter(r, k, v)]
                  /\ outLen' = [outLen EXCEPT ![r] = @ + produced]
                  /\ numAccepted' = [numAccepted EXCEPT ![r] = @ + v.accepted]
                  /\ numRejected' = [numRejected EXCEPT ![r] = @ + v.rejected]
                  /\ totals' = Counted(numComputed[r], 1 + k, v.accepted, produced)
                  /\ firsts' = IF outLen[r] = 0 /\ produced > 0
                               THEN firsts \cup {r} ELSE firsts
          /\ status' = [status EXCEPT ![r] =
                           IF outLen'[r] >= OutLen[r] THEN "finished" ELSE @]
    /\ todo' = Tail(todo)
    /\ UNCHANGED <<phase, step, simTime, waiting, running, stallCount,
                   firstToken, hits, recorderVars>>

\* allocate_slots returns None: the request sits this step out
DecodeSkipped ==
    /\ phase = "process" /\ todo # <<>> /\ status[Head(todo)] = "decoding"
    /\ todo' = Tail(todo)
    /\ UNCHANGED <<phase, step, simTime, waiting, running, totals, firsts,
                   stallCount, requestVars, acceptVars, recorderVars>>

-----------------------------------------------------------------------------
(* The rest of the step                                                    *)

Active == {r \in Range(running) : status[r] # "finished"}

StallsMutant == Active # {} /\ totals.generated = 0   \* prefills do not count
Stalls == Active # {} /\ totals.computed = 0 /\ totals.generated = 0

StallCount == IF Stalls THEN stallCount + 1 ELSE 0

\* stamped before the latency of the step is added
StampMutant(l) == [r \in Req |-> IF r \in firsts THEN simTime ELSE firstToken[r]]
\* stamped again in every step that produces tokens
StampAgainMutant(l) ==
    [r \in Req |-> IF r \in Range(running) /\ outLen[r] > 0 THEN simTime + l
                                                          ELSE firstToken[r]]
\* first_token_time includes the latency l of the step
Stamp(l) == [r \in Req |-> IF r \in firsts THEN simTime + l ELSE firstToken[r]]

\* the accepted drafts are taken for the generated tokens
RecordStepMutant(l) ==
    [totals |-> [f \in DOMAIN Zero |->
        recorded.totals[f] + (IF f = "generated" THEN totals.accepted ELSE totals[f])],
     busy |-> recorded.busy + l, wallClock |-> simTime + l]
\* record_step, as the sums that StatisticsComputer takes over the steps.  The
\* number of records, a divisor of the averages only, is left out.
RecordStep(l) ==
    [totals |-> [f \in DOMAIN Zero |-> recorded.totals[f] + totals[f]],
     busy |-> recorded.busy + l, wallClock |-> simTime + l]

GivesUp(n) == n >= StallLimit

\* Latency, first tokens, stall detection, record
Account ==
    /\ phase = "process" /\ todo = <<>>
    /\ \E l \in IF totals.computed > 0 THEN Latencies ELSE {0} :
         /\ simTime' = simTime + l
         /\ firstToken' = Stamp(l)
         /\ stallCount' = StallCount
         /\ IF GivesUp(stallCount')
            THEN phase' = "raised_stall" /\ UNCHANGED recorded
            ELSE /\ phase' = "cleanup"
                 /\ recorded' = IF step > Warmup THEN RecordStep(l) ELSE recorded
    /\ UNCHANGED <<step, waiting, running, todo, totals, firsts, status,
                   numComputed, outLen, hits, numAccepted, numRejected, held,
                   acceptVars, records>>

\* record_request_done
RequestRecord(r) ==
    [req |-> r,
     ttft |-> IF firstToken[r] = NoTime THEN NoTime ELSE firstToken[r] - Arrival[r],
     latency |-> simTime - Arrival[r], output |-> outLen[r], hits |-> hits[r],
     accepted |-> numAccepted[r], rejected |-> numRejected[r]]

WithFinished(done, r) == IF status[r] = "finished" THEN Append(done, r) ELSE done
WithUnfinished(left, r) == IF status[r] = "finished" THEN left ELSE Append(left, r)

\* forget_request for every finished request
Forget(done) == rngs \ {Id[r] : r \in Range(done)}

FastForwardMutant(left) == simTime   \* no fast-forward
\* With nothing running, time jumps to the next arrival
FastForward(left) ==
    IF left = <<>> /\ waiting # <<>> /\ Arrival[Head(waiting)] > simTime
    THEN Arrival[Head(waiting)] ELSE simTime

\* The value step() returns
Remain(left) == left # <<>> \/ waiting # <<>>

\* _cleanup frees and records the finished requests; step() returns whether
\* requests remain, and run() goes on as long as they do
FinishStep ==
    /\ phase = "cleanup"
    /\ LET done == FoldLeft(WithFinished, <<>>, running)
           left == FoldLeft(WithUnfinished, <<>>, running)
       IN /\ running' = left
          /\ held' = [r \in Req |-> IF r \in Range(done) THEN 0 ELSE held[r]]
          /\ rngs' = Forget(done)
          /\ records' = IF step > Warmup
                        THEN records \o [i \in DOMAIN done |-> RequestRecord(done[i])]
                        ELSE records
          /\ simTime' = FastForward(left)
          /\ phase' = IF Remain(left) THEN "idle" ELSE "done"
    /\ UNCHANGED <<step, waiting, todo, totals, firsts, stallCount, status,
                   numComputed, outLen, firstToken, hits, numAccepted,
                   numRejected, specSteps, perPos, recorded>>

Next ==
    \/ StartStep
    \/ HandlePrefill \/ PrefillOutOfMemory
    \/ HandleDecode \/ DecodeSkipped
    \/ Account \/ FinishStep

Spec == Init /\ [][Next]_vars

\* run() calls step() for as long as it returns True
LiveSpec == Spec /\ WF_vars(Next)

-----------------------------------------------------------------------------
Ended == phase \in {"done", "raised_oom", "raised_stall"}

\* Requests are served in the order they arrive: nobody before its arrival,
\* nobody left waiting in a step that starts at or after its arrival, and the
\* batch is ordered by arrival (_admit only looks at the head of the queue).
ServedInArrivalOrder ==
    /\ \A r \in Req : status[r] # "queued" => Arrival[r] <= simTime
    /\ phase = "process" => \A r \in Range(waiting) : Arrival[r] > simTime
    /\ \A i, j \in DOMAIN running :
         i < j => Arrival[running[i]] <= Arrival[running[j]]

\* Between handlers the backend holds exactly the tokens the scheduler counts as
\* computed for a request, which are those of its text, whatever was drafted,
\* rejected or refused on the way; it holds nothing for a request that is gone.
\* (With an empty ground truth the one decode step computes a token of no text.)
HeldMatchesText ==
    \A r \in Req :
        /\ status[r] \in {"decoding", "finished"} /\ OutLen[r] > 0 =>
             numComputed[r] = PromptLen[r] + outLen[r]
        /\ r \in Range(running) /\ status[r] \in {"decoding", "finished"} =>
             held[r] = numComputed[r]
        /\ r \notin Range(running) => held[r] = 0

SumOver(f) == SumFunctionOnSet(f, DOMAIN f)

\* What the running step has counted, and the recorder has not yet
Pending(f) == IF phase \in {"process", "raised_oom"} THEN totals[f] ELSE 0

\* Tokens that a request counts, and neither a record nor the running step does
Unrecorded ==
    [generated |-> SumOver(outLen) - recorded.totals.generated - Pending("generated"),
     accepted |-> SumOver(numAccepted) - recorded.totals.accepted - Pending("accepted")]

\* Tokens escape the records in the warmup only, and none is recorded twice
TokensRecorded ==
    /\ \A f \in {"generated", "accepted"} :
         /\ Unrecorded[f] <= Unrecorded'[f]
         /\ step' > Warmup => Unrecorded'[f] = Unrecorded[f]
    /\ recorded'.busy <= recorded'.wallClock /\ recorded'.wallClock <= simTime'

\* The report's numerators add up: past the warmup every token that a request
\* gains, and every accepted draft, is recorded for its step once, in the warmup
\* none is; and the busy time that throughput is divided by never exceeds the clock.
ThroughputAccounted == [][TokensRecorded]_vars

\* The acceptance counters agree with the requests: every accepted draft is
\* counted at one position, no position more often than the one before it, and
\* none more often than there were steps (the reported marginals are
\* non-increasing and at most 1).
AcceptanceAccounted ==
    /\ SumOver(perPos) = SumOver(numAccepted)
    /\ \A i \in DOMAIN perPos :
         perPos[i] <= IF i = 1 THEN specSteps ELSE perPos[i - 1]

\* A first token costs the forward passes it took: a prefill unless the whole
\* prompt was cached, then a decode; and it comes no later than the last one.
\* Only a request without output has no first token.
FirstTokenPaid ==
    \A i \in DOMAIN records :
        LET q == records[i]
            passes == IF q.hits < PromptLen[q.req] THEN 2 ELSE 1
        IN IF q.output = 0 THEN q.ttft = NoTime
           ELSE passes * Min(Latencies) <= q.ttft /\ q.ttft <= q.latency

\* step() returns False only when every loaded request is finished.
DoneMeansAllFinished == phase = "done" => \A r \in Req : status[r] = "finished"

\* The stall counter counts steps in which decodes are refused.  While it is not
\* zero everybody who has arrived is admitted and nobody has a prefill to run, so
\* only decodes can end the stall; from the second step in a row on nothing was
\* read or computed, so an error after two steps or more is about refused decodes.
StallsAwaitDecodes ==
    stallCount > 0 =>
        /\ \A r \in Range(running) : status[r] # "prefill"
        /\ \A r \in Range(waiting) : Arrival[r] > simTime
        /\ phase # "raised_oom"
        /\ stallCount > 1 /\ phase # "process" =>
             totals.loaded = 0 /\ totals.computed = 0

\* What the comment says of a step (scheduler.py:133), that it progresses if a
\* prefill completed or a decode produced tokens: a step that counts as stalled
\* is one in which nothing was loaded and nothing computed.
StallMeansNothingRan ==
    [][stallCount' > stallCount => totals.loaded = 0 /\ totals.computed = 0]_vars

\* The loop ends, with all requests served or with one of its two errors: no
\* mix of refusals, arrivals and fast-forwards keeps it going for ever.
Termination == <>Ended
=============================================================================
