--------------------------- MODULE ServingSystem ---------------------------
(***************************************************************************)
(* The simulator as run() executes it with the SGLang backend: the event    *)
(* loop of SimScheduler (src/simulator/core/scheduler.py) whose handlers    *)
(* make the backend calls of SGLangServing, one call per step, for the      *)
(* requests of the batch in turn.  The pools decide which allocations are   *)
(* refused, the radix cache which prefixes hit, the clock who is admitted.  *)
(***************************************************************************)
EXTENDS SGLangServing

CONSTANTS
    Loaded,      \* the list given to load()
    Arrival,     \* Arrival[r]: arrival_time
    Warmup,      \* warmup_steps
    StallLimit,  \* stall_limit
    Latencies,   \* what predict() may return for a step that computes
    NoTime       \* first_token_time of a request without a token: None

\* What SimScheduler asks of them; requests are told apart by their id.
ASSUME LoopAssumption ==
    /\ Loaded \in Seq(Req) /\ Range(Loaded) = Req /\ IsInjective(Loaded)
    /\ Arrival \in [Req -> Nat]
    /\ Warmup \in Nat /\ StallLimit \in Nat \ {0}
    /\ Latencies \subseteq Nat /\ Latencies # {} /\ NoTime \notin Nat

VARIABLES
    \* of SimulatorScheduler, as in SimScheduler
    phase, step, simTime, waiting, running, todo, totals, firsts, stallCount,
    \* of SimRequestState, beside those in SGLangServing
    firstToken, hits, numAccepted, numRejected,
    \* of AcceptanceModel and MetricsRecorder
    specSteps, perPos, rngs, recorded, records

loopVars == <<phase, step, simTime, waiting, running, todo, totals, firsts,
              stallCount>>
metricVars == <<firstToken, hits, numAccepted, numRejected, specSteps, perPos,
                rngs, recorded, records>>
systemVars == <<vars, loopVars, metricVars>>

-----------------------------------------------------------------------------
(* The state as the loop sees it between two handlers                      *)

InPrefill(r) == r = cur /\ at \in {"prefill_allocate", "prefill_sync"}

\* A request freed in _cleanup stays in _running until its deletion
LoopStatus(r) == IF r \in Range(waiting) THEN "queued"
                 ELSE IF status[r] = "freed" THEN "finished" ELSE status[r]

LoopHeld(r) == IF status[r] # "freed" THEN HeldOutside(r)
               ELSE IF r \in Range(running) THEN numComputed[r] ELSE 0

\* A prefill shows its match and a decode its tokens when they are complete
LoopComputed(r) == IF InPrefill(r) THEN 0 ELSE numComputed[r] - Ahead(r)
LoopHits(r) == IF InPrefill(r) THEN 0 ELSE hits[r]

Loop == INSTANCE SimScheduler WITH
    Id          <- [r \in Req |-> r],
    PromptLen   <- [r \in Req |-> Len(Prompt[r])],
    OutLen      <- [r \in Req |-> Len(Output[r])],
    Hits        <- [r \in Req |-> 0..Len(Prompt[r])],
    status      <- [r \in Req |-> LoopStatus(r)],
    numComputed <- [r \in Req |-> LoopComputed(r)],
    hits        <- [r \in Req |-> LoopHits(r)],
    held        <- [r \in Req |-> LoopHeld(r)]

SystemInit ==
    /\ Init
    /\ phase = "idle" /\ step = 0 /\ simTime = 0
    /\ waiting = Loop!ByArrival /\ running = <<>> /\ todo = <<>>
    /\ totals = Loop!Zero /\ firsts = {} /\ stallCount = 0
    /\ firstToken = [r \in Req |-> NoTime] /\ hits = [r \in Req |-> 0]
    /\ numAccepted = [r \in Req |-> 0] /\ numRejected = [r \in Req |-> 0]
    /\ specSteps = 0 /\ perPos = [i \in 1..NumSpec |-> 0] /\ rngs = {}
    /\ recorded = [totals |-> Loop!Zero, busy |-> 0, wallClock |-> 0]
    /\ records = <<>>

-----------------------------------------------------------------------------
(* The parts of step() that make no backend call                           *)

BeginStep == UNCHANGED <<vars, hits>> /\ Loop!StartStep

CloseStep == UNCHANGED <<vars, hits, waiting, running>> /\ Loop!Account

\* after the frees
LeaveStep ==
    /\ \A r \in Range(running) : status[r] # "finished"
    /\ UNCHANGED <<vars, hits, waiting>> /\ Loop!FinishStep

-----------------------------------------------------------------------------
(* The handlers, for the request whose turn it is                          *)

Turn(r) == phase = "process" /\ todo # <<>> /\ r = Head(todo)

\* _handle_prefill: get_computed_blocks
Match(r) ==
    /\ Turn(r) /\ PrefillMatch(r)
    /\ hits' = [hits EXCEPT ![r] = numComputed'[r]]
    /\ UNCHANGED <<loopVars, firstToken, numAccepted, numRejected, specSteps,
                   perPos, rngs, recorded, records>>

\* _handle_prefill: allocate_slots, whose None ends the run
FillPrompt ==
    /\ PrefillAllocate
    /\ phase' = IF at' = "raised_oom" THEN "raised_oom" ELSE phase
    /\ UNCHANGED <<step, simTime, waiting, running, todo, totals, firsts,
                   stallCount, metricVars>>

\* _handle_prefill: sync_state, and the counters it returns
EndPrefill ==
    /\ PrefillSync
    /\ totals' = Loop!Counted(hits[cur], Len(Prompt[cur]) - hits[cur], 0, 0)
    /\ todo' = Tail(todo)
    /\ UNCHANGED <<phase, step, simTime, waiting, running, firsts, stallCount,
                   metricVars>>

\* a refused request stays at the head of the batch and is tried again
ExtendMutant(r) ==
    /\ Turn(r) /\ DecodeAllocate(r)
    /\ UNCHANGED <<loopVars, metricVars>>

\* _handle_decode: allocate_slots, on None the request's turn is over
Extend(r) ==
    /\ Turn(r) /\ DecodeAllocate(r)
    /\ todo' = IF at' = "idle" THEN Tail(todo) ELSE todo
    /\ UNCHANGED <<phase, step, simTime, waiting, running, totals, firsts,
                   stallCount, metricVars>>

\* _handle_decode: the rejected drafts go back
RollBack == DecodeRollback /\ UNCHANGED <<loopVars, metricVars>>

\* the drafts are counted as loaded
EndDecodeMutant ==
    /\ DecodeSync
    /\ LET produced == outLen'[cur] - outLen[cur]
       IN /\ Loop!Evaluate(cur, drafts, accepted)
          /\ totals' = Loop!Counted(numComputed[cur], 1 + drafts, accepted, produced)
          /\ firsts' = IF outLen[cur] = 0 /\ produced > 0
                       THEN firsts \cup {cur} ELSE firsts
    /\ numAccepted' = [numAccepted EXCEPT ![cur] = @ + accepted]
    /\ numRejected' = [numRejected EXCEPT ![cur] = @ + drafts - accepted]
    /\ todo' = Tail(todo)
    /\ UNCHANGED <<phase, step, simTime, waiting, running, stallCount,
                   firstToken, hits, recorded, records>>

\* _handle_decode: append, sync_state, and what is counted of the step.  What
\* was loaded are the tokens computed before this step.
EndDecode ==
    /\ DecodeSync
    /\ LET produced == outLen'[cur] - outLen[cur]
       IN /\ Loop!Evaluate(cur, drafts, accepted)
          /\ totals' = Loop!Counted(numComputed[cur] - 1 - accepted, 1 + drafts,
                                    accepted, produced)
          /\ firsts' = IF outLen[cur] = 0 /\ produced > 0
                       THEN firsts \cup {cur} ELSE firsts
    /\ numAccepted' = [numAccepted EXCEPT ![cur] = @ + accepted]
    /\ numRejected' = [numRejected EXCEPT ![cur] = @ + drafts - accepted]
    /\ todo' = Tail(todo)
    /\ UNCHANGED <<phase, step, simTime, waiting, running, stallCount,
                   firstToken, hits, recorded, records>>

\* _cleanup: one finished request after the other, in the order of the batch
FreeFinished ==
    /\ phase = "cleanup"
    /\ LET done == {i \in DOMAIN running : status[running[i]] = "finished"}
       IN done # {} /\ Cleanup(running[Min(done)])
    /\ UNCHANGED <<loopVars, metricVars>>

SystemNext ==
    \/ BeginStep
    \/ \E r \in Req : Match(r) \/ Extend(r)
    \/ FillPrompt \/ EndPrefill
    \/ RollBack \/ EndDecode
    \/ CloseStep
    \/ FreeFinished \/ LeaveStep

\* run() calls step() for as long as it returns True, and step() does not wait
SystemSpec == SystemInit /\ [][SystemNext]_systemVars /\ WF_systemVars(SystemNext)

-----------------------------------------------------------------------------
\* With the backend's calls hidden, the system is the event loop over a backend
\* that keeps the contract: SimScheduler, whose runs show what the metrics mean,
\* allows every refusal, hit and length that the SGLang backend produces.
ImplementsScheduler == Loop!Spec

Ended == phase \in {"done", "raised_oom", "raised_stall"}

\* run() comes to an end by itself: whatever the pools refuse, every request is
\* served or one of the two errors is raised.
RunEnds == <>Ended

\* A request needs n more tokens than the pools can give it, even with every
\* cached page evicted that no request has locked.
Starved(n) ==
    \/ swaUsed + n > SwaTokens
    \/ Monus(fullUsed, PageSize * Cardinality(Unlocked)) + n > FullTokens

\* The stall error is no false alarm: when it is raised, no request of the batch
\* can ever go on, cached pages do not stand in the way, and every slot is taken
\* by a request of the batch (a stall_limit of 2 or more; a fully cached prefill
\* alone counts as a stalled step).
StallIsDeadlock ==
    phase = "raised_stall" => \A r \in Range(running) :
        status[r] = "decoding" /\ Starved(1 + Drafts(r))

\* What a request itself has to hold in its next allocation
Demand(r) == Len(Text(r, outLen[r]))
             + (IF status[r] = "decoding" THEN 1 + Drafts(r) ELSE 0)

\* A request alone in the system that fits in both pools by itself is not what a
\* run fails on: nothing that earlier requests left behind, cached or charged,
\* stands in its way (where no two requests compute the same page).
LoneRequestServed ==
    \A r \in Range(running) :
        /\ \A q \in Req \ {r} : q \in Range(waiting) \/ status[q] = "freed"
        /\ Demand(r) <= SwaTokens /\ Demand(r) <= FullTokens
        => phase \notin {"raised_oom", "raised_stall"}
=============================================================================
