---------------------------- MODULE SystemProofs ----------------------------
(***************************************************************************)
(* The composition ServingSystem implements the event loop of SimScheduler,*)
(* so that what SGLangProofs and SGLangSlots prove of the backend and      *)
(* SchedulerProofs of the loop holds of the simulator as a whole.          *)
(***************************************************************************)
EXTENDS ServingSystem, SGLangSlots

\* The theorems about the loop, for the loop of this system
Sched == INSTANCE SchedulerProofs WITH
    Id          <- [r \in Req |-> r],
    PromptLen   <- [r \in Req |-> Len(Prompt[r])],
    OutLen      <- [r \in Req |-> Len(Output[r])],
    Hits        <- [r \in Req |-> 0..Len(Prompt[r])],
    status      <- [r \in Req |-> LoopStatus(r)],
    numComputed <- [r \in Req |-> LoopComputed(r)],
    hits        <- [r \in Req |-> LoopHits(r)],
    held        <- [r \in Req |-> LoopHeld(r)]

-----------------------------------------------------------------------------
(* The loop of the composition is the loop of the proofs: Loop and Sched are *)
(* SimScheduler under one substitution, and have the same expansion.         *)

\* What the theorems about the loop assume of its constants.
LEMMA LoopConstants ==
    /\ Sched!RequestsAssumption /\ Sched!ConfigAssumption /\ Sched!DistinctIds
  <1>1. \A r \in Req : Len(Prompt[r]) \in Nat /\ Len(Output[r]) \in Nat
    BY WorkloadAssumption DEF WorkloadAssumption
  <1>2. Sched!Range(Loaded) = Req /\ Sched!IsInjective(Loaded) /\ Loaded \in Seq(Req)
    BY LoopAssumption DEF LoopAssumption, Range, Sched!Range, IsInjective,
                          Sched!IsInjective
  <1>3. Sched!RequestsAssumption
    BY LoopAssumption, <1>1, <1>2 DEF LoopAssumption
  <1>4. Sched!ConfigAssumption
    BY LoopAssumption, HandlerAssumption DEF LoopAssumption, HandlerAssumption
  <1>5. Sched!DistinctIds
    BY DEF Sched!DistinctIds
  <1> QED
    BY <1>3, <1>4, <1>5

\* The initial states are those of the loop.
LEMMA SameInit == Loop!Init <=> Sched!Init
  BY DEF Loop!Init, Sched!Init, Loop!Zero, Sched!Zero, Loop!ByArrival,
         Sched!ByArrival, Loop!Place, Sched!Place, Loop!Precedes, Sched!Precedes,
         Loop!Cardinality, Sched!Cardinality

\* So are the actions that make no backend call.
LEMMA SameStart == Loop!StartStep <=> Sched!StartStep
  BY DEF Loop!StartStep, Sched!StartStep, Loop!Due, Sched!Due, Loop!Entered,
       Sched!Entered, Loop!Earlier, Sched!Earlier, Loop!Fresh, Sched!Fresh,
       Loop!acceptVars, Sched!acceptVars, Loop!recorderVars, Sched!recorderVars,
       Loop!FoldLeft, Sched!FoldLeft, Loop!MapThenFoldSet, Sched!MapThenFoldSet,
       Loop!Min, Sched!Min, Loop!Max, Sched!Max, Loop!Zero, Sched!Zero,
       Loop!Range, Sched!Range

\* Latency, stamps, stall detection and record.
LEMMA SameAccount == Loop!Account <=> Sched!Account
  BY DEF Loop!Account, Sched!Account, Loop!Stamp, Sched!Stamp, Loop!StallCount,
       Sched!StallCount, Loop!Stalls, Sched!Stalls, Loop!Active, Sched!Active,
       Loop!GivesUp, Sched!GivesUp, Loop!RecordStep, Sched!RecordStep,
       Loop!acceptVars, Sched!acceptVars, Loop!Zero, Sched!Zero,
       Loop!Range, Sched!Range

\* Cleanup and the jump of the clock.
LEMMA SameFinish == Loop!FinishStep <=> Sched!FinishStep
  BY DEF Loop!FinishStep, Sched!FinishStep, Loop!WithFinished, Sched!WithFinished,
       Loop!WithUnfinished, Sched!WithUnfinished, Loop!Forget, Sched!Forget,
       Loop!RequestRecord, Sched!RequestRecord, Loop!FastForward, Sched!FastForward,
       Loop!Remain, Sched!Remain, Loop!FoldLeft, Sched!FoldLeft,
       Loop!MapThenFoldSet, Sched!MapThenFoldSet, Loop!Max, Sched!Max,
       Loop!Range, Sched!Range

\* And the handlers.
LEMMA SameHandlers ==
    /\ Loop!HandlePrefill <=> Sched!HandlePrefill
    /\ Loop!PrefillOutOfMemory <=> Sched!PrefillOutOfMemory
    /\ Loop!HandleDecode <=> Sched!HandleDecode
    /\ Loop!DecodeSkipped <=> Sched!DecodeSkipped
  <1> USE DEF Loop!acceptVars, Sched!acceptVars, Loop!recorderVars, Sched!recorderVars
  <1>1. Loop!HandlePrefill <=> Sched!HandlePrefill
    BY DEF Loop!HandlePrefill, Sched!HandlePrefill, Loop!CanHit, Sched!CanHit,
           Loop!Counted, Sched!Counted
  <1>2. Loop!PrefillOutOfMemory <=> Sched!PrefillOutOfMemory
    BY DEF Loop!PrefillOutOfMemory, Sched!PrefillOutOfMemory, Loop!CanHit, Sched!CanHit
  <1>3. Loop!HandleDecode <=> Sched!HandleDecode
    BY DEF Loop!HandleDecode, Sched!HandleDecode, Loop!Drafts, Sched!Drafts,
           Loop!Draftable, Sched!Draftable, Loop!Earlier, Sched!Earlier,
           Loop!Verdicts, Sched!Verdicts, Loop!Evaluate, Sched!Evaluate,
           Loop!Bonus, Sched!Bonus, Loop!Rollback, Sched!Rollback,
           Loop!HeldAfter, Sched!HeldAfter, Loop!Counted, Sched!Counted
  <1>4. Loop!DecodeSkipped <=> Sched!DecodeSkipped
    BY DEF Loop!DecodeSkipped, Sched!DecodeSkipped, Loop!requestVars, Sched!requestVars
  <1> QED
    BY <1>1, <1>2, <1>3, <1>4

\* And so the specifications.
LEMMA SameSpec == Sched!Spec => Loop!Spec
  <1>1. Sched!Init => Loop!Init
    BY SameInit
  <1>2. [Sched!Next]_(Sched!vars) => [Loop!Next]_(Loop!vars)
    <2>1. Sched!Next => Loop!Next
      BY SameStart, SameAccount, SameFinish, SameHandlers DEF Sched!Next, Loop!Next
    <2>2. UNCHANGED Sched!vars => UNCHANGED Loop!vars
      BY DEF Sched!vars, Sched!loopVars, Sched!requestVars, Sched!acceptVars,
             Sched!recorderVars, Loop!vars, Loop!loopVars, Loop!requestVars,
             Loop!acceptVars, Loop!recorderVars
    <2> QED
      BY <2>1, <2>2
  <1> QED
    BY <1>1, <1>2, PTL DEF Sched!Spec, Loop!Spec

-----------------------------------------------------------------------------
(* The invariant of the composition                                        *)

\* Somebody's prompt has been through the backend.
Prefilled == \E q \in Req : status[q] # "prefill"

\* A handler runs for the request whose turn it is, and only in a step; nobody
\* who waits has been touched; a decode works on the drafts it was given.
TurnInv ==
    /\ at \notin {"idle", "raised_oom"} =>
         phase = "process" /\ todo # <<>> /\ cur = Head(todo)
    /\ at = "raised_oom" => phase = "raised_oom"
    /\ \A r \in Req : r \in Range(waiting) => status[r] = "prefill"
    /\ at \in {"decode_rollback", "decode_sync"} => drafts = Drafts(cur)

\* A prefix hit is part of the prompt, and was left by another request.
HitInv ==
    /\ hits \in [Req -> Nat]
    /\ \A r \in Req : status[r] = "prefill" /\ r # cur =>
                          numComputed[r] = 0 /\ hits[r] = 0
    /\ at \in {"prefill_allocate", "prefill_sync"} =>
         hits[cur] <= Len(Prompt[cur]) /\ (hits[cur] > 0 => Prefilled)
    /\ at = "prefill_allocate" => hits[cur] = numComputed[cur]
    /\ DOMAIN tree # {} => Prefilled

\* The backend keeps its invariant, the loop its own, and the two are in step.
SystemInv == /\ IndInv /\ TurnInv /\ HitInv
             /\ Sched!TypeOK /\ Sched!BatchInv

\* What the loop sees of request r
SameView(r) ==
    /\ LoopStatus(r)' = LoopStatus(r) /\ LoopComputed(r)' = LoopComputed(r)
    /\ LoopHits(r)' = LoopHits(r) /\ LoopHeld(r)' = LoopHeld(r)

\* What the composition keeps beside it
otherVars == <<loopVars, outLen, firstToken, numAccepted, numRejected, specSteps,
               perPos, rngs, recorded, records>>

\* A step that changes nothing of that is hidden from the loop.
LEMMA Hidden ==
    ASSUME \A r \in Req : SameView(r), UNCHANGED otherVars
    PROVE  UNCHANGED Sched!vars
  <1>1. /\ UNCHANGED [r \in Req |-> LoopStatus(r)]
        /\ UNCHANGED [r \in Req |-> LoopComputed(r)]
        /\ UNCHANGED [r \in Req |-> LoopHits(r)]
        /\ UNCHANGED [r \in Req |-> LoopHeld(r)]
    BY DEF SameView
  <1>2. UNCHANGED <<phase, step, simTime, waiting, running, todo, totals, firsts,
                    stallCount, outLen, firstToken, numAccepted, numRejected,
                    specSteps, perPos, rngs, recorded, records>>
    BY DEF otherVars, loopVars
  <1> QED
    BY <1>1, <1>2 DEF Sched!vars, Sched!loopVars, Sched!requestVars,
                      Sched!acceptVars, Sched!recorderVars

\* The types of the loop's own variables.
LEMMA LoopTypes ==
    ASSUME Sched!TypeOK
    PROVE  /\ waiting \in Seq(Req) /\ running \in Seq(Req) /\ todo \in Seq(Req)
           /\ phase \in {"idle", "process", "cleanup", "raised_oom", "raised_stall",
                         "done"}
  BY DEF Sched!TypeOK

\* The request whose turn it is has been admitted.
LEMMA TurnIsAdmitted ==
    ASSUME SystemInv, todo # <<>>
    PROVE  /\ Head(todo) \in Req /\ Head(todo) \notin Range(waiting)
           /\ Tail(todo) \in Seq(Req)
  <1> DEFINE r == Head(todo)
  <1>1. todo \in Seq(Req)
    BY LoopTypes DEF SystemInv
  <1>2. r \in Req /\ r \in Sched!Range(todo) /\ Tail(todo) \in Seq(Req)
    BY <1>1 DEF Sched!Range
  <1>3. LoopStatus(r) # "queued"
    BY <1>2 DEF SystemInv, Sched!BatchInv, Sched!Queued
  <1> QED
    BY <1>2, <1>3 DEF LoopStatus

\* The request of a handler that is under way.
LEMMA CurIsTurn ==
    ASSUME SystemInv, at \notin {"idle", "raised_oom"}
    PROVE  /\ phase = "process" /\ todo # <<>> /\ cur = Head(todo)
           /\ cur \in Req /\ cur \notin Range(waiting)
  BY TurnIsAdmitted DEF SystemInv, TurnInv

\* The request that _cleanup frees next is a finished one of the batch.
LEMMA FreedIsFinished ==
    ASSUME running \in Seq(Req), FreeFinished
    PROVE  \E r \in Req : /\ r \in Range(running) /\ Cleanup(r)
                          /\ phase = "cleanup" /\ UNCHANGED <<loopVars, metricVars>>
  <1> DEFINE done == {i \in DOMAIN running : status[running[i]] = "finished"}
  <1>1. done # {} /\ Cleanup(running[Min(done)]) /\ phase = "cleanup"
        /\ UNCHANGED <<loopVars, metricVars>>
    BY DEF FreeFinished
  <1>2. done \in SUBSET Nat
    OBVIOUS
  <1>3. PICK i \in done : \A j \in done : i <= j
    BY <1>1, <1>2, LeastNumber
  <1>4. Min(done) \in done
    BY <1>3 DEF Min
  <1>5. running[Min(done)] \in Req /\ running[Min(done)] \in Range(running)
    <2> DEFINE m == Min(done)
    <2>1. m \in DOMAIN running
      BY <1>4
    <2> HIDE DEF m
    <2>2. running[m] \in Req /\ running[m] \in Range(running)
      BY <2>1 DEF Range
    <2> QED
      BY <2>2 DEF m
  <1> QED
    BY <1>1, <1>5

\* Every action makes the backend calls of a handler, or none.
LEMMA HandlersMove ==
    ASSUME SystemInv, SystemNext \/ UNCHANGED systemVars
    PROVE  [Next]_vars
  <1>1. CASE BeginStep \/ CloseStep \/ LeaveStep \/ UNCHANGED systemVars
    BY <1>1 DEF BeginStep, CloseStep, LeaveStep, systemVars
  <1>2. ASSUME NEW r \in Req, Match(r) \/ Extend(r) PROVE Next
    BY <1>2 DEF Match, Extend, Next
  <1>3. CASE FillPrompt \/ EndPrefill \/ RollBack \/ EndDecode
    BY <1>3 DEF FillPrompt, EndPrefill, RollBack, EndDecode, Next
  <1>4. CASE FreeFinished
    BY <1>4, FreedIsFinished, LoopTypes DEF Next, SystemInv
  <1> QED
    BY <1>1, <1>2, <1>3, <1>4 DEF SystemNext

-----------------------------------------------------------------------------
(* The actions that the loop does not see                                  *)

\* Where no status, queue or batch changes, neither does what the loop sees of
\* the status and, if the backend's calls are hidden, of what is held.
LEMMA StatusAndHeld ==
    ASSUME UNCHANGED <<status, waiting, running>>,
           \A q \in Req : HeldOutside(q)' = HeldOutside(q),
           \A q \in Req : status[q] = "freed" => numComputed'[q] = numComputed[q]
    PROVE  \A q \in Req : /\ LoopStatus(q)' = LoopStatus(q)
                          /\ LoopHeld(q)' = LoopHeld(q)
  BY DEF LoopStatus, LoopHeld

\* What the backend's invariant says of where the handlers stand.
LEMMA WhereAndTypes ==
    ASSUME IndInv
    PROVE  /\ NoReq \notin Req /\ (at = "idle" => cur = NoReq)
           /\ status \in [Req -> {"prefill", "decoding", "finished", "freed"}]
           /\ numComputed \in [Req -> Nat] /\ outLen \in [Req -> Nat]
           /\ row \in [Req -> Seq(Nat)]
           /\ drafts \in Nat /\ accepted \in Nat
           /\ at \notin {"raised_tail", "raised_assert"}
  <1>1. drafts \in Nat /\ accepted \in Nat
    BY HandlerAssumption DEF IndInv, TypeOK, HandlerTypeOK, HandlerAssumption
  <1> QED
    BY <1>1, HandlerAssumption DEF HandlerAssumption, IndInv, TypeOK, HandlerTypeOK,
       BackendTypeOK, ControlInv, ContractsKept

\* get_computed_blocks: what it found is not shown before the prefill is complete.
LEMMA MatchHidden ==
    ASSUME SystemInv, NEW r \in Req, Match(r)
    PROVE  UNCHANGED Sched!vars
  <1>1. /\ NoReq \notin Req /\ cur = NoReq /\ at = "idle" /\ status[r] = "prefill"
        /\ numComputed \in [Req -> Nat] /\ hits \in [Req -> Nat]
        /\ numComputed[r] = 0 /\ hits[r] = 0
    BY WhereAndTypes DEF SystemInv, HitInv, Match, PrefillMatch
  <1>2. /\ at' = "prefill_allocate" /\ cur' = r
        /\ UNCHANGED <<status, backendVars, otherVars>>
        /\ \E v : numComputed' = [numComputed EXCEPT ![r] = v]
        /\ \E v : hits' = [hits EXCEPT ![r] = v]
    BY DEF Match, PrefillMatch, otherVars, loopVars, backendVars, handleVars
  <1>3. \A q \in Req : ~InPrefill(q) /\ Ahead(q) = 0 /\ Ahead(q)' = 0
                       /\ (InPrefill(q)' <=> q = r)
    BY <1>1, <1>2 DEF InPrefill, Ahead
  <1>4. \A q \in Req : /\ LoopComputed(q)' = LoopComputed(q)
                       /\ LoopHits(q)' = LoopHits(q)
    BY <1>1, <1>2, <1>3 DEF LoopComputed, LoopHits
  <1>5. \A q \in Req : HeldOutside(q)' = HeldOutside(q)
    BY <1>2, <1>3 DEF HeldOutside, backendVars, handleVars
  <1>6. \A q \in Req : status[q] = "freed" => numComputed'[q] = numComputed[q]
    BY <1>1, <1>2
  <1>7. \A q \in Req : LoopStatus(q)' = LoopStatus(q) /\ LoopHeld(q)' = LoopHeld(q)
    BY <1>2, <1>5, <1>6, StatusAndHeld DEF otherVars, loopVars
  <1> QED
    BY <1>2, <1>4, <1>7, Hidden DEF SameView

\* free: the loop sees the request as finished and its tokens as held until the
\* cleanup is over.
LEMMA FreeHidden ==
    ASSUME SystemInv, FreeFinished
    PROVE  UNCHANGED Sched!vars
  <1>1. PICK r \in Req : /\ r \in Range(running) /\ Cleanup(r)
                         /\ phase = "cleanup" /\ UNCHANGED <<loopVars, metricVars>>
    BY FreedIsFinished, LoopTypes DEF SystemInv
  <1>2. /\ at = "idle" /\ status[r] = "finished" /\ row' = [row EXCEPT ![r] = <<>>]
        /\ status' = [status EXCEPT ![r] = "freed"] /\ outLen' = outLen
        /\ UNCHANGED <<numComputed, at, cur, drafts, accepted, hits, waiting, running>>
    BY <1>1 DEF Cleanup, Free, loopVars, metricVars
  <1>3. /\ status \in [Req -> {"prefill", "decoding", "finished", "freed"}]
        /\ row \in [Req -> Seq(Nat)] /\ Len(row[r]) = numComputed[r]
        /\ numComputed \in [Req -> Nat]
    BY <1>2, WhereAndTypes DEF SystemInv, IndInv, RowInv
  <1>4. \A q \in Req : ~InPrefill(q) /\ ~InPrefill(q)' /\ Ahead(q) = 0 /\ Ahead(q)' = 0
    BY <1>2 DEF InPrefill, Ahead
  <1>5. \A q \in Req : /\ LoopComputed(q)' = LoopComputed(q)
                       /\ LoopHits(q)' = LoopHits(q)
    BY <1>2, <1>4 DEF LoopComputed, LoopHits
  <1>6. \A q \in Req : LoopStatus(q)' = LoopStatus(q)
    BY <1>2, <1>3 DEF LoopStatus
  <1>7. LoopHeld(r)' = LoopHeld(r)
    <2>1. HeldOutside(r) = numComputed[r]
      BY <1>2, <1>3, <1>4 DEF HeldOutside
    <2> QED
      BY <1>1, <1>2, <1>3, <2>1 DEF LoopHeld
  <1>8. \A q \in Req \ {r} : LoopHeld(q)' = LoopHeld(q)
    BY <1>2, <1>3, <1>4 DEF LoopHeld, HeldOutside
  <1>9. UNCHANGED otherVars
    BY <1>1, <1>2 DEF otherVars, loopVars, metricVars
  <1> QED
    BY <1>5, <1>6, <1>7, <1>8, <1>9, Hidden DEF SameView

\* What the calls between the first and the last one of a handler leave alone.
LEMMA BackendHidden ==
    ASSUME SystemInv, [Next]_vars, UNCHANGED status,
           at \notin {"prefill_sync", "decode_sync"}
    PROVE  \A q \in Req : HeldOutside(q)' = HeldOutside(q)
  <1>1. ~PrefillSync /\ ~DecodeSync
    BY DEF PrefillSync, DecodeSync
  <1>2. ASSUME NEW r \in Req, Cleanup(r) PROVE FALSE
    <2>1. /\ status[r] = "finished" /\ status' = [status EXCEPT ![r] = "freed"]
          /\ status \in [Req -> {"prefill", "decoding", "finished", "freed"}]
      BY <1>2, WhereAndTypes DEF Cleanup, SystemInv
    <2>2. status'[r] = "freed"
      BY <2>1
    <2> QED
      BY <2>1, <2>2
  <1> QED
    BY <1>1, <1>2, HiddenStep DEF SystemInv

\* allocate_slots for a prompt: what it gives is not shown before the sync.
LEMMA FillHidden ==
    ASSUME SystemInv, FillPrompt, at' = "prefill_sync"
    PROVE  UNCHANGED Sched!vars
  <1>1. /\ at = "prefill_allocate" /\ cur \in Req /\ status[cur] = "prefill"
        /\ phase = "process"
    BY CurIsTurn DEF FillPrompt, PrefillAllocate, SystemInv, IndInv, ControlInv
  <1>2. /\ UNCHANGED <<status, cur, hits, otherVars>>
        /\ \E v : numComputed' = [numComputed EXCEPT ![cur] = v]
    BY <1>1 DEF FillPrompt, PrefillAllocate, AllocateNothing, AllocateSucceeds,
                AllocateFails, otherVars, loopVars, metricVars
  <1>3. /\ numComputed \in [Req -> Nat]
        /\ \A q \in Req : /\ Ahead(q) = 0 /\ Ahead(q)' = 0
                          /\ (InPrefill(q) <=> q = cur) /\ (InPrefill(q)' <=> q = cur)
    BY <1>1, <1>2, WhereAndTypes DEF InPrefill, Ahead, SystemInv
  <1>4. \A q \in Req : /\ LoopComputed(q)' = LoopComputed(q)
                       /\ LoopHits(q)' = LoopHits(q)
    BY <1>1, <1>2, <1>3 DEF LoopComputed, LoopHits
  <1>5. \A q \in Req : HeldOutside(q)' = HeldOutside(q)
    <2>1. [Next]_vars
      BY HandlersMove DEF SystemNext
    <2> QED
      BY <1>1, <1>2, <2>1, BackendHidden
  <1>6. \A q \in Req : LoopStatus(q)' = LoopStatus(q) /\ LoopHeld(q)' = LoopHeld(q)
    <2>1. \A q \in Req : status[q] = "freed" => numComputed'[q] = numComputed[q]
      BY <1>1, <1>2, <1>3
    <2> QED
      BY <1>2, <1>5, <2>1, StatusAndHeld DEF otherVars, loopVars
  <1> QED
    BY <1>2, <1>4, <1>6, Hidden DEF SameView

\* free_rejected_slots: the drafts that are gone were not shown.
LEMMA RollBackHidden ==
    ASSUME SystemInv, IndInv', RollBack
    PROVE  UNCHANGED Sched!vars
  <1>1. /\ at = "decode_rollback" /\ cur \in Req /\ status[cur] = "decoding"
        /\ at' = "decode_sync" /\ UNCHANGED <<status, cur, drafts, hits>>
    BY DEF RollBack, DecodeRollback, metricVars, SystemInv, IndInv, ControlInv,
           ContractsKept
  <1>2. PICK a \in 0..drafts :
          /\ accepted' = a
          /\ numComputed' = [numComputed EXCEPT ![cur] = Monus(@, drafts - a)]
    BY DEF RollBack, DecodeRollback
  <1>3. UNCHANGED otherVars
    BY <1>1 DEF RollBack, DecodeRollback, FreeRejectedSlots, backendVars, handleVars,
                otherVars, loopVars, metricVars
  <1>4. /\ numComputed \in [Req -> Nat] /\ drafts \in Nat /\ a \in Nat /\ a <= drafts
        /\ Len(row[cur]) = numComputed[cur]
        /\ Len(Prompt[cur]) + outLen[cur] + (1 + drafts) <= numComputed[cur]
        /\ Len(Prompt[cur]) \in Nat /\ outLen[cur] \in Nat
    BY <1>1, WhereAndTypes, TextType DEF SystemInv, IndInv, RowInv, Ahead
  <1>5. /\ numComputed'[cur] = numComputed[cur] - (drafts - a)
        /\ \A q \in Req \ {cur} : numComputed'[q] = numComputed[q]
    BY <1>1, <1>2, <1>4 DEF Monus
  <1>6. \A q \in Req : /\ Ahead(q) = IF q = cur THEN 1 + drafts ELSE 0
                       /\ Ahead(q)' = IF q = cur THEN 1 + a ELSE 0
                       /\ ~InPrefill(q) /\ ~InPrefill(q)'
    BY <1>1, <1>2 DEF Ahead, InPrefill
  <1>7. \A q \in Req : LoopHits(q)' = LoopHits(q)
    BY <1>1, <1>6 DEF LoopHits
  <1>8. \A q \in Req : LoopComputed(q)' = LoopComputed(q)
    BY <1>1, <1>4, <1>5, <1>6 DEF LoopComputed
  <1>9. \A q \in Req : HeldOutside(q)' = HeldOutside(q)
    <2>1. [Next]_vars
      BY HandlersMove DEF SystemNext
    <2> QED
      BY <1>1, <2>1, BackendHidden
  <1>10. \A q \in Req : LoopStatus(q)' = LoopStatus(q) /\ LoopHeld(q)' = LoopHeld(q)
    <2>1. \A q \in Req : status[q] = "freed" => numComputed'[q] = numComputed[q]
      BY <1>1, <1>5
    <2>2. UNCHANGED <<status, waiting, running>>
      BY <1>1, <1>3 DEF otherVars, loopVars
    <2> QED
      BY <1>9, <2>1, <2>2, StatusAndHeld
  <1> QED
    BY <1>3, <1>7, <1>8, <1>10, Hidden DEF SameView

-----------------------------------------------------------------------------
(* The actions that the loop sees                                          *)

\* _handle_decode's allocate_slots: given, it is hidden until the sync; refused,
\* the request sits the step out.
LEMMA ExtendSeen ==
    ASSUME SystemInv, IndInv', NEW r \in Req, Extend(r)
    PROVE  UNCHANGED Sched!vars \/ Sched!DecodeSkipped
  <1>1. /\ phase = "process" /\ todo # <<>> /\ r = Head(todo) /\ r \notin Range(waiting)
        /\ at = "idle" /\ cur = NoReq /\ NoReq \notin Req /\ status[r] = "decoding"
    BY TurnIsAdmitted, WhereAndTypes DEF Extend, Turn, DecodeAllocate, SystemInv
  <1>2. /\ UNCHANGED <<status, hits, outLen, phase, step, simTime, waiting, running,
                       totals, firsts, stallCount, firstToken, numAccepted,
                       numRejected, specSteps, perPos, rngs, recorded, records>>
        /\ todo' = IF at' = "idle" THEN Tail(todo) ELSE todo
        /\ numComputed \in [Req -> Nat]
    BY WhereAndTypes DEF Extend, DecodeAllocate, AllocateSucceeds, AllocateFails,
                         metricVars, SystemInv
  <1>3. \A q \in Req : HeldOutside(q)' = HeldOutside(q)
    <2>1. [Next]_vars
      BY HandlersMove DEF SystemNext
    <2> QED
      BY <1>1, <1>2, <2>1, BackendHidden
  <1>4. \A q \in Req : ~InPrefill(q) /\ Ahead(q) = 0
    BY <1>1 DEF InPrefill, Ahead
  <1>5. CASE UNCHANGED <<numComputed, at, cur>>
    <2>1. \A q \in Req : ~InPrefill(q)' /\ Ahead(q)' = 0
      BY <1>1, <1>5 DEF InPrefill, Ahead
    <2>2. \A q \in Req : LoopComputed(q)' = LoopComputed(q) /\ LoopHits(q)' = LoopHits(q)
      BY <1>2, <1>4, <1>5, <2>1 DEF LoopComputed, LoopHits
    <2>3. \A q \in Req : LoopStatus(q)' = LoopStatus(q) /\ LoopHeld(q)' = LoopHeld(q)
      BY <1>2, <1>3, <1>5, StatusAndHeld
    <2>4. /\ UNCHANGED [q \in Req |-> LoopStatus(q)]
          /\ UNCHANGED [q \in Req |-> LoopComputed(q)]
          /\ UNCHANGED [q \in Req |-> LoopHits(q)]
          /\ UNCHANGED [q \in Req |-> LoopHeld(q)]
      BY <2>2, <2>3
    <2>5. [q \in Req |-> LoopStatus(q)][Head(todo)] = "decoding"
      BY <1>1 DEF LoopStatus
    <2>6. todo' = Tail(todo)
      BY <1>1, <1>2, <1>5
    <2>7. Sched!DecodeSkipped
      BY <1>1, <1>2, <2>4, <2>5, <2>6 DEF Sched!DecodeSkipped, Sched!requestVars,
         Sched!acceptVars, Sched!recorderVars
    <2> QED
      BY <2>7
  <1>6. CASE /\ numComputed' = [numComputed EXCEPT ![r] = @ + 1 + Drafts(r)]
             /\ drafts' = Drafts(r) /\ at' = "decode_rollback" /\ cur' = r
    <2>1. \A q \in Req : ~InPrefill(q)' /\ Ahead(q)' = IF q = r THEN 1 + Drafts(r) ELSE 0
      BY <1>6 DEF InPrefill, Ahead
    <2>2. Drafts(r) \in Nat
      <3>1. drafts' \in Nat
        BY <1>6, HandlerAssumption DEF IndInv, TypeOK, HandlerTypeOK, HandlerAssumption
      <3> QED
        BY <1>6, <3>1
    <2>3. \A q \in Req : LoopComputed(q)' = LoopComputed(q)
      BY <1>2, <1>4, <1>6, <2>1, <2>2 DEF LoopComputed
    <2>4. \A q \in Req : LoopHits(q)' = LoopHits(q)
      BY <1>2, <1>4, <2>1 DEF LoopHits
    <2>5. \A q \in Req : LoopStatus(q)' = LoopStatus(q) /\ LoopHeld(q)' = LoopHeld(q)
      <3>1. \A q \in Req : status[q] = "freed" => numComputed'[q] = numComputed[q]
        BY <1>1, <1>2, <1>6
      <3> QED
        BY <1>2, <1>3, <3>1, StatusAndHeld
    <2>6. UNCHANGED otherVars
      BY <1>2, <1>6 DEF otherVars, loopVars
    <2> QED
      BY <2>3, <2>4, <2>5, <2>6, Hidden DEF SameView
  <1> QED
    BY <1>5, <1>6 DEF Extend, DecodeAllocate

\* A hit of the radix cache is one that the loop allows.
LEMMA HitAllowed ==
    ASSUME SystemInv, at \in {"prefill_allocate", "prefill_sync"}, cur \in Req,
           status[cur] = "prefill"
    PROVE  /\ hits[cur] \in [q \in Req |-> 0..Len(Prompt[q])][cur]
           /\ Sched!CanHit(cur, hits[cur])
  <1>1. hits[cur] \in Nat /\ hits[cur] <= Len(Prompt[cur]) /\ Len(Prompt[cur]) \in Nat
    BY TextType DEF SystemInv, HitInv
  <1>2. hits[cur] > 0 => \E q \in Req \ {cur} : LoopStatus(q) \in {"decoding", "finished"}
    <2> SUFFICES ASSUME hits[cur] > 0
                 PROVE  \E q \in Req \ {cur} : LoopStatus(q) \in {"decoding", "finished"}
      OBVIOUS
    <2>1. PICK q \in Req : status[q] # "prefill"
      BY DEF SystemInv, HitInv, Prefilled
    <2>2. /\ q # cur /\ q \notin Range(waiting)
          /\ status[q] \in {"decoding", "finished", "freed"}
      BY <2>1, WhereAndTypes DEF SystemInv, TurnInv
    <2> QED
      BY <2>2 DEF LoopStatus
  <1> QED
    BY <1>1, <1>2 DEF Sched!CanHit

\* A prompt that cannot be allocated ends the run with the match on record.
LEMMA FillSeen ==
    ASSUME SystemInv, FillPrompt, at' = "raised_oom"
    PROVE  Sched!PrefillOutOfMemory
  <1>1. /\ at = "prefill_allocate" /\ cur \in Req /\ status[cur] = "prefill"
        /\ phase = "process" /\ todo # <<>> /\ cur = Head(todo) /\ cur \notin Range(waiting)
    BY CurIsTurn DEF FillPrompt, PrefillAllocate, SystemInv, IndInv, ControlInv
  <1>2. /\ AllocateFails(cur, Len(Prompt[cur]) - numComputed[cur], blocks)
        /\ UNCHANGED <<status, cur, hits, numComputed, outLen, step, simTime, waiting,
                       running, todo, totals, firsts, stallCount, firstToken,
                       numAccepted, numRejected, specSteps, perPos, rngs, recorded,
                       records>>
        /\ phase' = "raised_oom"
    BY <1>1 DEF FillPrompt, PrefillAllocate, AllocateFails, metricVars
  <1>3. /\ numComputed \in [Req -> Nat] /\ hits \in [Req -> Nat]
        /\ hits[cur] = numComputed[cur] /\ Len(Prompt[cur]) \in Nat
        /\ hits[cur] < Len(Prompt[cur])
    <2>1. Len(Prompt[cur]) - numComputed[cur] > 0
      BY <1>2 DEF AllocateFails
    <2> QED
      BY <1>1, <2>1, WhereAndTypes, TextType DEF SystemInv, HitInv
  <1>4. \A q \in Req : /\ Ahead(q) = 0 /\ Ahead(q)' = 0
                       /\ (InPrefill(q) <=> q = cur) /\ ~InPrefill(q)'
    BY <1>1, <1>2 DEF InPrefill, Ahead
  <1>5. \A q \in Req : HeldOutside(q)' = HeldOutside(q)
    <2>1. [Next]_vars
      BY HandlersMove DEF SystemNext
    <2> QED
      BY <1>1, <1>2, <2>1, BackendHidden
  <1>6. \A q \in Req : LoopStatus(q)' = LoopStatus(q) /\ LoopHeld(q)' = LoopHeld(q)
    BY <1>2, <1>5, StatusAndHeld
  <1>7. \A q \in Req : LoopComputed(q)' = IF q = cur THEN hits[cur] ELSE LoopComputed(q)
    BY <1>2, <1>3, <1>4 DEF LoopComputed
  <1>8. \A q \in Req : LoopHits(q)' = IF q = cur THEN hits[cur] ELSE LoopHits(q)
    BY <1>2, <1>3, <1>4 DEF LoopHits
  <1>9. /\ UNCHANGED [q \in Req |-> LoopStatus(q)]
        /\ UNCHANGED [q \in Req |-> LoopHeld(q)]
        /\ [q \in Req |-> LoopComputed(q)]'
              = [[q \in Req |-> LoopComputed(q)] EXCEPT ![cur] = hits[cur]]
        /\ [q \in Req |-> LoopHits(q)]'
              = [[q \in Req |-> LoopHits(q)] EXCEPT ![cur] = hits[cur]]
    BY <1>6, <1>7, <1>8
  <1>10. /\ [q \in Req |-> LoopStatus(q)][cur] = "prefill"
         /\ hits[cur] < [q \in Req |-> Len(Prompt[q])][cur]
    BY <1>1, <1>3 DEF LoopStatus
  <1>11. /\ hits[cur] \in [q \in Req |-> 0..Len(Prompt[q])][cur]
         /\ Sched!CanHit(cur, hits[cur])
    BY <1>1, HitAllowed
  <1> QED
    BY <1>1, <1>2, <1>9, <1>10, <1>11 DEF Sched!PrefillOutOfMemory,
       Sched!acceptVars, Sched!recorderVars

\* The sync that completes a prefill is the loop's whole handler.
LEMMA EndPrefillSeen ==
    ASSUME SystemInv, IndInv', EndPrefill
    PROVE  Sched!HandlePrefill
  <1> DEFINE h == hits[cur]
             p == Len(Prompt[cur])
  <1>1. /\ at = "prefill_sync" /\ cur \in Req /\ status[cur] = "prefill"
        /\ phase = "process" /\ todo # <<>> /\ cur = Head(todo) /\ cur \notin Range(waiting)
    BY CurIsTurn DEF EndPrefill, PrefillSync, SystemInv, IndInv, ControlInv
  <1>2. /\ SyncState(cur, 0) /\ at' = "idle" /\ cur' = NoReq
        /\ status' = [status EXCEPT ![cur] = "decoding"] /\ UNCHANGED numComputed
    BY DEF EndPrefill, PrefillSync, IndInv, ControlInv, ContractsKept
  <1>3. /\ row' = row /\ outLen' = [outLen EXCEPT ![cur] = 0]
        /\ row \in [Req -> Seq(Nat)] /\ numComputed \in [Req -> Nat]
        /\ status \in [Req -> {"prefill", "decoding", "finished", "freed"}]
        /\ outLen \in [Req -> Nat] /\ hits \in [Req -> Nat]
        /\ Len(row[cur]) = p /\ numComputed[cur] = p /\ outLen[cur] = 0 /\ p \in Nat
    BY <1>1, <1>2, WhereAndTypes, TextType
       DEF SyncState, SystemInv, IndInv, RowInv, HitInv
  <1>4. /\ outLen' = outLen
        /\ totals' = Loop!Counted(h, p - h, 0, 0) /\ todo' = Tail(todo)
        /\ UNCHANGED <<hits, phase, step, simTime, waiting, running, firsts, stallCount,
                       firstToken, numAccepted, numRejected, specSteps, perPos, rngs,
                       recorded, records>>
    <2>1. outLen' = outLen
      BY <1>1, <1>3
    <2> QED
      BY <2>1 DEF EndPrefill, metricVars
  <1>5. \A q \in Req : /\ Ahead(q) = 0 /\ Ahead(q)' = 0
                       /\ (InPrefill(q) <=> q = cur) /\ ~InPrefill(q)'
    BY <1>1, <1>2 DEF InPrefill, Ahead
  <1>6. \A q \in Req : LoopStatus(q)' = IF q = cur THEN "decoding" ELSE LoopStatus(q)
    BY <1>1, <1>2, <1>3, <1>4 DEF LoopStatus
  <1>7. \A q \in Req : LoopComputed(q)' = IF q = cur THEN p ELSE LoopComputed(q)
    BY <1>2, <1>3, <1>5 DEF LoopComputed
  <1>8. \A q \in Req : LoopHits(q)' = IF q = cur THEN h ELSE LoopHits(q)
    BY <1>4, <1>5 DEF LoopHits
  <1>9. \A q \in Req : LoopHeld(q)' = IF q = cur THEN p ELSE LoopHeld(q)
    <2>1. \A q \in Req : q = cur => LoopHeld(q)' = p
      BY <1>1, <1>2, <1>3, <1>5 DEF LoopHeld, HeldOutside
    <2>2. \A q \in Req \ {cur} : LoopHeld(q)' = LoopHeld(q)
      BY <1>1, <1>2, <1>3, <1>4, <1>5 DEF LoopHeld, HeldOutside
    <2> QED
      BY <2>1, <2>2
  <1> HIDE DEF h, p
  <1>10. /\ [q \in Req |-> LoopStatus(q)]'
              = [[q \in Req |-> LoopStatus(q)] EXCEPT ![cur] = "decoding"]
         /\ [q \in Req |-> LoopComputed(q)]'
              = [[q \in Req |-> LoopComputed(q)] EXCEPT ![cur] = p]
         /\ [q \in Req |-> LoopHits(q)]'
              = [[q \in Req |-> LoopHits(q)] EXCEPT ![cur] = h]
         /\ [q \in Req |-> LoopHeld(q)]'
              = [[q \in Req |-> LoopHeld(q)] EXCEPT ![cur] = p]
    BY <1>6, <1>7, <1>8, <1>9
  <1>11. /\ [q \in Req |-> LoopStatus(q)][cur] = "prefill"
         /\ [q \in Req |-> Len(Prompt[q])][cur] = p
    BY <1>1 DEF LoopStatus, p
  <1>12. /\ h \in [q \in Req |-> 0..Len(Prompt[q])][cur] /\ Sched!CanHit(cur, h)
    BY <1>1, HitAllowed DEF h
  <1>13. totals' = Sched!Counted(h, p - h, 0, 0)
    BY <1>4 DEF Loop!Counted, Sched!Counted
  <1> QED
    BY <1>1, <1>4, <1>10, <1>11, <1>12, <1>13 DEF Sched!HandlePrefill,
       Sched!acceptVars, Sched!recorderVars

\* The drafts of the loop are those of the handlers.
LEMMA SameDrafts ==
    ASSUME NEW r \in Req, outLen[r] \in Nat
    PROVE  /\ Sched!Drafts(r) = Drafts(r) /\ Sched!Bonus(r) = Bonus(r)
           /\ Drafts(r) \in Nat /\ Drafts(r) <= Sched!Draftable(r)
           /\ Sched!Draftable(r) \in Nat
  <1>1. NumSpec \in Nat /\ Len(Output[r]) \in Nat
    BY HandlerAssumption, TextType DEF HandlerAssumption
  <1>2. Sched!Draftable(r) = Monus(Len(Output[r]), outLen[r] + 1)
    BY <1>1 DEF Sched!Draftable, Monus
  <1> QED
    BY <1>1, <1>2 DEF Sched!Drafts, Drafts, Sched!Earlier, Monus, Sched!Bonus, Bonus

\* What evaluate() may say of k drafts that a ground truth long enough follows: the
\* first a are accepted and the others rejected.
LEMMA Verdict ==
    ASSUME NEW r, NEW k \in Nat, NEW a \in 0..k,
           Sched!Draftable(r) \in Nat, k <= Sched!Draftable(r)
    PROVE  [accepted |-> a, rejected |-> k - a, beyond |-> 0] \in Sched!Verdicts(r, k)
  <1>1. a \in 0..Sched!Earlier(k, Sched!Draftable(r))
    BY DEF Sched!Earlier
  <1>2. k - a - 0 = k - a /\ (a = Sched!Draftable(r) => k - a = 0)
    OBVIOUS
  <1>3. k - a - (IF a = Sched!Draftable(r) THEN k - a ELSE 0) = k - a
        /\ (IF a = Sched!Draftable(r) THEN k - a ELSE 0) = 0
    BY <1>2
  <1> QED
    BY <1>1, <1>3 DEF Sched!Verdicts

\* The sync that completes a decode step is the loop's whole handler, with the
\* drafts that were accepted.
LEMMA EndDecodeSeen ==
    ASSUME SystemInv, IndInv', EndDecode
    PROVE  Sched!HandleDecode
  <1> DEFINE a == accepted
             k == drafts
             o == outLen[cur]
             b == Bonus(cur)
             v == [accepted |-> a, rejected |-> k - a, beyond |-> 0]
  <1>1. /\ at = "decode_sync" /\ cur \in Req /\ status[cur] = "decoding"
        /\ phase = "process" /\ todo # <<>> /\ cur = Head(todo) /\ cur \notin Range(waiting)
        /\ drafts = Drafts(cur)
    BY CurIsTurn DEF EndDecode, DecodeSync, SystemInv, IndInv, ControlInv, TurnInv
  <1>2. /\ SyncState(cur, o + b + a) /\ at' = "idle" /\ cur' = NoReq
        /\ status' = [status EXCEPT ![cur] =
                         IF o + b + a >= Len(Output[cur]) THEN "finished" ELSE @]
        /\ UNCHANGED numComputed
    BY DEF EndDecode, DecodeSync, IndInv, ControlInv, ContractsKept
  <1>3. /\ row' = row /\ outLen' = [outLen EXCEPT ![cur] = o + b + a]
        /\ row \in [Req -> Seq(Nat)] /\ numComputed \in [Req -> Nat]
        /\ status \in [Req -> {"prefill", "decoding", "finished", "freed"}]
        /\ outLen \in [Req -> Nat] /\ o \in Nat /\ a \in Nat /\ k \in Nat /\ a <= k
        /\ Len(row[cur]) = numComputed[cur] /\ 1 + a <= numComputed[cur]
    <2>1. a \in Nat /\ k \in Nat /\ a <= k
      BY HandlerAssumption DEF HandlerAssumption, SystemInv, IndInv, TypeOK, HandlerTypeOK
    <2>2. /\ row' = row /\ outLen' = [outLen EXCEPT ![cur] = o + b + a]
          /\ row \in [Req -> Seq(Nat)] /\ numComputed \in [Req -> Nat]
          /\ status \in [Req -> {"prefill", "decoding", "finished", "freed"}]
          /\ outLen \in [Req -> Nat]
      BY <1>2, WhereAndTypes DEF SyncState, SystemInv
    <2>3. /\ Len(row[cur]) = numComputed[cur]
          /\ Len(Prompt[cur]) + o + (1 + a) <= Len(row[cur])
      BY <1>1 DEF SystemInv, IndInv, RowInv, Ahead
    <2>4. Len(Prompt[cur]) \in Nat /\ o \in Nat
      BY <1>1, <2>2, TextType
    <2>5. 1 + a <= numComputed[cur]
      BY <1>1, <2>1, <2>2, <2>3, <2>4
    <2> QED
      BY <2>1, <2>2, <2>3, <2>4, <2>5
  <1>4. b \in 0..1 /\ outLen'[cur] = o + (b + a) /\ outLen'[cur] - o = b + a
        /\ o + b + a = o + (b + a)
    <2>1. b \in 0..1
      BY DEF Bonus
    <2>2. o \in Nat /\ a \in Nat /\ outLen'[cur] = o + b + a
      BY <1>1, <1>3
    <2> HIDE DEF a, o, b
    <2>3. o + b + a = o + (b + a) /\ o + (b + a) - o = b + a
      BY <2>1, <2>2
    <2> QED
      BY <2>1, <2>2, <2>3
  <1>5. \A q \in Req : /\ Ahead(q) = IF q = cur THEN 1 + a ELSE 0
                       /\ Ahead(q)' = 0 /\ ~InPrefill(q) /\ ~InPrefill(q)'
    BY <1>1, <1>2 DEF InPrefill, Ahead
  <1>6. /\ Loop!Evaluate(cur, k, a)
        /\ totals' = Loop!Counted(numComputed[cur] - 1 - a, 1 + k, a, b + a)
        /\ firsts' = IF o = 0 /\ b + a > 0 THEN firsts \cup {cur} ELSE firsts
        /\ numAccepted' = [numAccepted EXCEPT ![cur] = @ + a]
        /\ numRejected' = [numRejected EXCEPT ![cur] = @ + k - a]
        /\ todo' = Tail(todo)
        /\ UNCHANGED <<phase, step, simTime, waiting, running, stallCount,
                       firstToken, hits, recorded, records>>
    BY <1>4 DEF EndDecode
  <1>7. \A q \in Req : LoopStatus(q)' = IF q = cur
            THEN IF o + (b + a) >= Len(Output[cur]) THEN "finished" ELSE "decoding"
            ELSE LoopStatus(q)
    BY <1>1, <1>2, <1>3, <1>4, <1>6 DEF LoopStatus
  <1>8. \A q \in Req : LoopComputed(q) = IF q = cur THEN numComputed[cur] - (1 + a)
                                                    ELSE numComputed[q]
    BY <1>3, <1>5 DEF LoopComputed
  <1>9. \A q \in Req : LoopComputed(q)' = numComputed[q]
    BY <1>2, <1>3, <1>5 DEF LoopComputed
  <1>10. \A q \in Req : LoopHits(q)' = LoopHits(q)
    BY <1>5, <1>6 DEF LoopHits
  <1>11. /\ \A q \in Req : q = cur => /\ LoopHeld(q) = numComputed[q] - (1 + a)
                                      /\ LoopHeld(q)' = numComputed[q]
         /\ \A q \in Req \ {cur} : LoopHeld(q)' = LoopHeld(q)
    <2>1. \A q \in Req : q = cur => /\ LoopHeld(q) = numComputed[q] - (1 + a)
                                    /\ LoopHeld(q)' = numComputed[q]
      BY <1>1, <1>2, <1>3, <1>5 DEF LoopHeld, HeldOutside
    <2>2. \A q \in Req \ {cur} : LoopHeld(q)' = LoopHeld(q)
      BY <1>2, <1>3, <1>5, <1>6 DEF LoopHeld, HeldOutside
    <2> QED
      BY <2>1, <2>2
  <1>12. numRejected' = [numRejected EXCEPT ![cur] = @ + (k - a)]
    <2>1. numRejected \in [Req -> Nat]
      BY DEF SystemInv, Sched!TypeOK
    <2> QED
      BY <1>1, <1>3, <1>6, <2>1
  <1>13. /\ v \in Sched!Verdicts(cur, k) /\ Sched!Drafts(cur) = k /\ Sched!Bonus(cur) = b
         /\ v.accepted = a /\ v.rejected = k - a /\ Sched!Rollback(v) = k - a
    <2>1. /\ Sched!Drafts(cur) = k /\ Sched!Bonus(cur) = b
          /\ Sched!Draftable(cur) \in Nat /\ k <= Sched!Draftable(cur)
      BY <1>1, <1>3, SameDrafts
    <2>2. a \in 0..k
      BY <1>3
    <2>3. v \in Sched!Verdicts(cur, k)
      BY <1>3, <2>1, <2>2, Verdict
    <2>4. v.accepted = a /\ v.rejected = k - a /\ v.beyond = 0
      OBVIOUS
    <2>5. Sched!Rollback(v) = k - a
      BY <1>3, <2>4 DEF Sched!Rollback
    <2> QED
      BY <2>1, <2>3, <2>4, <2>5
  <1> HIDE DEF a, k, o, b, v
  <1> DEFINE n == numComputed[cur] - (1 + a)
             st == [q \in Req |-> LoopStatus(q)]
             nc == [q \in Req |-> LoopComputed(q)]
             he == [q \in Req |-> LoopHeld(q)]
  <1>14. /\ st[cur] = "decoding" /\ nc[cur] = n /\ he[cur] = n
         /\ n + 1 + k - (k - a) = numComputed[cur] /\ numComputed[cur] - 1 - a = n
    <2>1. st[cur] = "decoding"
      BY <1>1 DEF LoopStatus
    <2>2. nc[cur] = n /\ he[cur] = n
      BY <1>1, <1>8, <1>11
    <2>3. numComputed[cur] \in Nat
      BY <1>1, <1>3
    <2>4. \A c \in Nat : /\ (c - (1 + a)) + 1 + k - (k - a) = c
                         /\ c - 1 - a = c - (1 + a)
      BY <1>3
    <2> QED
      BY <2>1, <2>2, <2>3, <2>4
  <1>15. /\ st' = [st EXCEPT ![cur] = IF outLen'[cur] >= Len(Output[cur])
                                      THEN "finished" ELSE @]
         /\ UNCHANGED [q \in Req |-> LoopHits(q)]
    BY <1>4, <1>7, <1>10, <1>14
  <1>16. /\ nc' = [nc EXCEPT ![cur] = @ + 1 + k - Sched!Rollback(v)]
         /\ he' = [he EXCEPT ![cur] = he[cur] + 1 + k - Sched!Rollback(v)]
    <2>1. \A q \in Req : nc'[q] = IF q = cur THEN numComputed[cur] ELSE nc[q]
      BY <1>8, <1>9
    <2>2. \A q \in Req : he'[q] = IF q = cur THEN numComputed[cur] ELSE he[q]
      BY <1>11
    <2>3. /\ nc[cur] + 1 + k - Sched!Rollback(v) = numComputed[cur]
          /\ he[cur] + 1 + k - Sched!Rollback(v) = numComputed[cur]
      BY <1>13, <1>14
    <2>4. nc' = [q \in Req |-> nc'[q]] /\ he' = [q \in Req |-> he'[q]]
      OBVIOUS
    <2> QED
      BY <2>1, <2>2, <2>3, <2>4
  <1>17. /\ Sched!Evaluate(cur, k, a)
         /\ totals' = Sched!Counted(n, 1 + k, a, b + a)
    BY <1>6, <1>14 DEF Loop!Evaluate, Sched!Evaluate, Loop!Counted, Sched!Counted,
       Loop!Draftable, Sched!Draftable
  <1>18. outLen' = [outLen EXCEPT ![cur] = @ + (b + a)]
    BY <1>1, <1>3, <1>4 DEF o
  <1> QED
    BY <1>1, <1>6, <1>12, <1>13, <1>14, <1>15, <1>16, <1>17, <1>18
       DEF Sched!HandleDecode, Sched!HeldAfter, Sched!recorderVars, o

-----------------------------------------------------------------------------
(* Every step of the composition is a step of the loop, or hidden          *)

\* One handler call of the composition is a part of a handler of the loop.
LEMMA StepSeen ==
    ASSUME SystemInv, IndInv', SystemNext \/ UNCHANGED systemVars
    PROVE  [Sched!Next]_(Sched!vars)
  <1>1. CASE BeginStep
    BY <1>1, SameStart DEF BeginStep, Sched!Next
  <1>2. CASE CloseStep
    BY <1>2, SameAccount DEF CloseStep, Sched!Next
  <1>3. CASE LeaveStep
    BY <1>3, SameFinish DEF LeaveStep, Sched!Next
  <1>4. ASSUME NEW r \in Req, Match(r) PROVE UNCHANGED Sched!vars
    BY <1>4, MatchHidden
  <1>5. ASSUME NEW r \in Req, Extend(r) PROVE Sched!Next \/ UNCHANGED Sched!vars
    BY <1>5, ExtendSeen DEF Sched!Next
  <1>6. CASE FillPrompt
    <2>1. at' \in {"prefill_sync", "raised_oom"}
      BY <1>6 DEF FillPrompt, PrefillAllocate
    <2>2. CASE at' = "raised_oom"
      BY <1>6, <2>2, FillSeen DEF Sched!Next
    <2>3. CASE at' = "prefill_sync"
      BY <1>6, <2>3, FillHidden
    <2> QED
      BY <2>1, <2>2, <2>3
  <1>7. CASE EndPrefill
    BY <1>7, EndPrefillSeen DEF Sched!Next
  <1>8. CASE RollBack
    BY <1>8, RollBackHidden
  <1>9. CASE EndDecode
    BY <1>9, EndDecodeSeen DEF Sched!Next
  <1>10. CASE FreeFinished
    BY <1>10, FreeHidden
  <1>11. CASE UNCHANGED systemVars
    <2>1. UNCHANGED otherVars
      BY <1>11 DEF systemVars, otherVars, vars, backendVars, handleVars, metricVars
    <2>2. UNCHANGED <<status, numComputed, at, cur, drafts, accepted, row, outLen,
                      hits, waiting, running>>
      BY <1>11 DEF systemVars, vars, backendVars, handleVars, handlerVars, metricVars,
                   loopVars
    <2>3. \A r \in Req : SameView(r)
      BY <2>2 DEF SameView, LoopStatus, LoopComputed, LoopHits, LoopHeld, HeldOutside,
                  InPrefill, Ahead
    <2> QED
      BY <2>1, <2>3, Hidden
  <1> QED
    BY <1>1, <1>2, <1>3, <1>4, <1>5, <1>6, <1>7, <1>8, <1>9, <1>10, <1>11
       DEF SystemNext

-----------------------------------------------------------------------------
(* The invariant is kept                                                   *)

\* What allocate_slots does to the tree is to evict from it.
LEMMA TreeShrinks ==
    ASSUME NEW r, NEW n, NEW prefix,
           \/ AllocateNothing(r, n, prefix) \/ AllocateSucceeds(r, n, prefix)
           \/ AllocateFails(r, n, prefix)
    PROVE  DOMAIN tree' # {} => DOMAIN tree # {}
  <1>1. \A order : DOMAIN WithoutPages(order) \in SUBSET DOMAIN tree
    BY DEF WithoutPages, Restrict
  <1> QED
    BY <1>1 DEF AllocateNothing, AllocateSucceeds, AllocateFails

\* A match of some length needs a page in the tree.
LEMMA MatchNeedsTree ==
    ASSUME NEW r \in Req, NEW k \in Nat, GetComputedBlocks(r, k), k * PageSize > 0
    PROVE  DOMAIN tree # {}
  <1>1. PageSize \in Nat
    BY SizeAssumption DEF SizeAssumption
  <1>2. k # 0
    BY <1>1
  <1>3. 1 \in 1..k
    BY <1>2
  <1>4. SubSeq(Prompt[r], 1, 1 * PageSize) \in PrefixPages(Prompt[r], k)
    BY <1>3 DEF PrefixPages
  <1> QED
    BY <1>4 DEF GetComputedBlocks, LongestMatch

\* get_computed_blocks keeps the two in step.
LEMMA MatchKeeps ==
    ASSUME SystemInv, NEW r \in Req, Match(r)
    PROVE  TurnInv' /\ HitInv'
  <1>1. /\ at = "idle" /\ cur = NoReq /\ NoReq \notin Req /\ phase = "process"
        /\ todo # <<>> /\ r = Head(todo)
        /\ hits \in [Req -> Nat] /\ numComputed \in [Req -> Nat]
    BY WhereAndTypes DEF SystemInv, HitInv, Match, PrefillMatch, Turn
  <1>2. /\ at' = "prefill_allocate" /\ cur' = r
        /\ UNCHANGED <<status, tree, outLen, phase, todo, waiting, drafts>>
        /\ hits' = [hits EXCEPT ![r] = numComputed'[r]]
    BY DEF Match, PrefillMatch, loopVars, backendVars, handleVars
  <1>3. PICK k \in 0..NumPages(Prompt[r]) :
          /\ GetComputedBlocks(r, k)
          /\ numComputed' = [numComputed EXCEPT ![r] = k * PageSize]
    BY DEF Match, PrefillMatch
  <1> DEFINE m == k * PageSize
  <1>4. m \in Nat /\ m <= Len(Prompt[r])
    <2>1. Len(Prompt[r]) \in Nat /\ PageSize \in Nat \ {0}
      BY TextType, SizeAssumption DEF SizeAssumption
    <2>2. /\ NumPages(Prompt[r]) \in Nat /\ NumPages(Prompt[r]) * PageSize \in Nat
          /\ NumPages(Prompt[r]) * PageSize <= Len(Prompt[r])
      BY <2>1, DivBounds DEF NumPages
    <2>3. k \in Nat /\ k <= NumPages(Prompt[r])
      BY <2>2
    <2>4. m \in Nat /\ m <= NumPages(Prompt[r]) * PageSize
      BY <2>1, <2>2, <2>3, PagesMonotonic
    <2> HIDE DEF m
    <2> QED
      BY <2>1, <2>2, <2>4
  <1>5. m > 0 => Prefilled
    <2>1. k \in Nat
      BY TextType, SizeAssumption, DivBounds DEF NumPages, SizeAssumption
    <2> QED
      BY <1>3, <2>1, MatchNeedsTree DEF SystemInv, HitInv
  <1> HIDE DEF m
  <1>6. /\ numComputed' = [numComputed EXCEPT ![r] = m] /\ hits' = [hits EXCEPT ![r] = m]
        /\ numComputed'[r] = m /\ hits'[r] = m
    BY <1>1, <1>2, <1>3 DEF m
  <1>7. TurnInv'
    BY <1>1, <1>2 DEF TurnInv, SystemInv
  <1>8. Prefilled' <=> Prefilled
    BY <1>2 DEF Prefilled
  <1>9. \A q \in Req \ {r} : numComputed'[q] = numComputed[q] /\ hits'[q] = hits[q]
    BY <1>1, <1>6
  <1>10. hits' \in [Req -> Nat]
    BY <1>1, <1>4, <1>6
  <1> QED
    BY <1>1, <1>2, <1>4, <1>5, <1>6, <1>7, <1>8, <1>9, <1>10 DEF HitInv, SystemInv

\* allocate_slots for the prompt, given or refused.
LEMMA FillKeeps ==
    ASSUME SystemInv, FillPrompt
    PROVE  TurnInv' /\ HitInv'
  <1>1. /\ at = "prefill_allocate" /\ phase = "process" /\ todo # <<>>
        /\ cur = Head(todo) /\ cur \in Req /\ numComputed \in [Req -> Nat]
    BY CurIsTurn, WhereAndTypes DEF FillPrompt, PrefillAllocate, SystemInv
  <1>2. /\ UNCHANGED <<status, cur, drafts, hits, todo, waiting>>
        /\ at' \in {"prefill_sync", "raised_oom"}
        /\ phase' = IF at' = "raised_oom" THEN "raised_oom" ELSE phase
        /\ \A q \in Req \ {cur} : numComputed'[q] = numComputed[q]
    <2>1. /\ UNCHANGED <<status, cur, drafts, hits, todo, waiting>>
          /\ at' \in {"prefill_sync", "raised_oom"}
          /\ phase' = IF at' = "raised_oom" THEN "raised_oom" ELSE phase
      BY DEF FillPrompt, PrefillAllocate, metricVars
    <2>2. \/ numComputed' = [numComputed EXCEPT ![cur] = Len(Prompt[cur])]
          \/ numComputed' = numComputed
      BY DEF FillPrompt, PrefillAllocate
    <2> QED
      BY <1>1, <2>1, <2>2
  <1>3. DOMAIN tree' # {} => DOMAIN tree # {}
    BY TreeShrinks DEF FillPrompt, PrefillAllocate
  <1>4. Prefilled' <=> Prefilled
    BY <1>2 DEF Prefilled
  <1>5. TurnInv'
    BY <1>1, <1>2 DEF TurnInv, SystemInv
  <1> QED
    BY <1>1, <1>2, <1>3, <1>4, <1>5 DEF HitInv, SystemInv

\* A sync, which may fill the tree: its request has been prefilled.
LEMMA SyncKeeps ==
    ASSUME SystemInv, IndInv', EndPrefill \/ EndDecode
    PROVE  TurnInv' /\ HitInv'
  <1>1. /\ cur \in Req /\ phase = "process" /\ cur \notin Range(waiting)
        /\ status \in [Req -> {"prefill", "decoding", "finished", "freed"}]
        /\ NoReq \notin Req
    BY CurIsTurn, WhereAndTypes DEF EndPrefill, PrefillSync, EndDecode, DecodeSync, SystemInv
  <1>2. /\ at' = "idle" /\ cur' = NoReq /\ UNCHANGED <<hits, numComputed, waiting>>
        /\ \E s \in {"decoding", "finished"} : status' = [status EXCEPT ![cur] = s]
    <2>1. at' \notin {"raised_tail", "raised_assert"}
      BY DEF IndInv, ControlInv, ContractsKept
    <2>2. CASE EndPrefill
      BY <2>1, <2>2 DEF EndPrefill, PrefillSync, metricVars
    <2>3. CASE EndDecode
      <3>1. status[cur] = "decoding"
        BY <2>3 DEF EndDecode, DecodeSync, SystemInv, IndInv, ControlInv
      <3> QED
        BY <2>1, <2>3, <3>1 DEF EndDecode, DecodeSync
    <2> QED
      BY <2>2, <2>3
  <1>3. /\ status'[cur] # "prefill"
        /\ \A q \in Req \ {cur} : status'[q] = status[q]
    BY <1>1, <1>2
  <1>4. Prefilled'
    BY <1>1, <1>3 DEF Prefilled
  <1>5. TurnInv'
    BY <1>1, <1>2, <1>3 DEF TurnInv, SystemInv
  <1> QED
    BY <1>1, <1>2, <1>3, <1>4, <1>5 DEF HitInv, SystemInv

\* _handle_decode's allocate_slots.
LEMMA ExtendKeeps ==
    ASSUME SystemInv, NEW r \in Req, Extend(r)
    PROVE  TurnInv' /\ HitInv'
  <1>1. /\ at = "idle" /\ cur = NoReq /\ NoReq \notin Req /\ phase = "process"
        /\ todo # <<>> /\ r = Head(todo) /\ status[r] = "decoding"
        /\ numComputed \in [Req -> Nat]
    BY WhereAndTypes DEF SystemInv, Extend, DecodeAllocate, Turn
  <1>2. /\ UNCHANGED <<status, outLen, hits, phase, waiting>>
        /\ todo' = IF at' = "idle" THEN Tail(todo) ELSE todo
    BY DEF Extend, DecodeAllocate, AllocateSucceeds, AllocateFails, metricVars
  <1>3. \/ at' = "decode_rollback" /\ cur' = r /\ drafts' = Drafts(r)
           /\ numComputed' = [numComputed EXCEPT ![r] = @ + 1 + Drafts(r)]
        \/ UNCHANGED <<numComputed, at, cur>>
    BY DEF Extend, DecodeAllocate
  <1>4. DOMAIN tree' # {} => DOMAIN tree # {}
    BY TreeShrinks DEF Extend, DecodeAllocate
  <1>5. Drafts(r)' = Drafts(r) /\ (Prefilled' <=> Prefilled)
    BY <1>2 DEF Drafts, Prefilled
  <1>6. TurnInv'
    <2>1. CASE at' = "decode_rollback" /\ cur' = r /\ drafts' = Drafts(r)
      <3>1. Drafts(cur)' = Drafts(r)
        BY <1>2, <2>1 DEF Drafts
      <3> QED
        BY <1>1, <1>2, <2>1, <3>1 DEF TurnInv, SystemInv
    <2>2. CASE UNCHANGED <<at, cur>>
      BY <1>1, <1>2, <2>2 DEF TurnInv, SystemInv
    <2> QED
      BY <1>3, <2>1, <2>2
  <1>7. \A q \in Req : status[q] = "prefill" => numComputed'[q] = numComputed[q]
    BY <1>1, <1>3
  <1> QED
    BY <1>1, <1>2, <1>3, <1>4, <1>5, <1>6, <1>7 DEF HitInv, SystemInv

\* free_rejected_slots.
LEMMA RollBackKeeps ==
    ASSUME SystemInv, IndInv', RollBack
    PROVE  TurnInv' /\ HitInv'
  <1>1. /\ at = "decode_rollback" /\ cur \in Req /\ status[cur] = "decoding"
        /\ numComputed \in [Req -> Nat]
    BY WhereAndTypes DEF RollBack, DecodeRollback, SystemInv, IndInv, ControlInv
  <1>2. /\ at' = "decode_sync"
        /\ UNCHANGED <<status, cur, drafts, hits, loopVars, outLen, tree>>
        /\ \E n : numComputed' = [numComputed EXCEPT ![cur] = n]
    BY DEF RollBack, DecodeRollback, FreeRejectedSlots, backendVars, handleVars,
           metricVars, IndInv, ControlInv, ContractsKept
  <1>3. /\ Drafts(cur)' = Drafts(cur) /\ (Prefilled' <=> Prefilled)
        /\ UNCHANGED <<phase, todo, waiting>>
    BY <1>2 DEF Drafts, Prefilled, loopVars
  <1>4. \A q \in Req : status[q] = "prefill" => numComputed'[q] = numComputed[q]
    BY <1>1, <1>2
  <1>5. TurnInv'
    BY <1>1, <1>2, <1>3 DEF TurnInv, SystemInv
  <1> QED
    BY <1>1, <1>2, <1>3, <1>4, <1>5 DEF HitInv, SystemInv

\* free: who is freed had been served.
LEMMA FreeKeeps ==
    ASSUME SystemInv, FreeFinished
    PROVE  TurnInv' /\ HitInv'
  <1>1. PICK r \in Req : /\ r \in Range(running) /\ Cleanup(r)
                         /\ phase = "cleanup" /\ UNCHANGED <<loopVars, metricVars>>
    BY FreedIsFinished, LoopTypes DEF SystemInv
  <1>2. /\ at = "idle" /\ status[r] = "finished"
        /\ status' = [status EXCEPT ![r] = "freed"]
        /\ UNCHANGED <<numComputed, at, cur, hits, phase, todo, waiting, tree>>
        /\ status \in [Req -> {"prefill", "decoding", "finished", "freed"}]
    BY <1>1, WhereAndTypes DEF SystemInv, Cleanup, Free, loopVars, metricVars
  <1>3. /\ status'[r] = "freed" /\ \A q \in Req \ {r} : status'[q] = status[q]
        /\ r \notin Range(waiting)
    BY <1>2 DEF SystemInv, TurnInv
  <1>4. Prefilled'
    BY <1>3 DEF Prefilled
  <1>5. TurnInv'
    BY <1>2, <1>3 DEF TurnInv, SystemInv
  <1> QED
    BY <1>2, <1>3, <1>4, <1>5 DEF HitInv, SystemInv

\* The parts of step() that make no backend call run between two handlers.
LEMMA LoopKeeps ==
    ASSUME SystemInv, BeginStep \/ CloseStep \/ LeaveStep
    PROVE  TurnInv' /\ HitInv'
  <1>1. /\ phase \in {"idle", "cleanup"} \/ (phase = "process" /\ todo = <<>>)
        /\ UNCHANGED <<status, numComputed, at, cur, tree, outLen, drafts, hits>>
    BY DEF BeginStep, CloseStep, LeaveStep, Loop!StartStep, Loop!Account,
           Loop!FinishStep, vars, backendVars, handleVars, handlerVars
  <1>2. at = "idle" /\ at' = "idle"
    BY <1>1 DEF SystemInv, TurnInv
  <1>3. Range(waiting') \in SUBSET Range(waiting)
    <2>1. CASE BeginStep
      <3>1. Sched!StartStep
        BY <2>1, SameStart DEF BeginStep
      <3>2. PICK adm, rest : Sched!Admits(adm, rest)
        BY <3>1, LoopConstants, Sched!StartEffect DEF SystemInv
      <3> QED
        BY <3>2 DEF Sched!Admits, Range, Sched!Range
    <2>2. CASE CloseStep \/ LeaveStep
      BY <2>2 DEF CloseStep, LeaveStep
    <2> QED
      BY <2>1, <2>2
  <1>4. TurnInv'
    BY <1>1, <1>2, <1>3 DEF TurnInv, SystemInv
  <1>5. Prefilled' <=> Prefilled
    BY <1>1 DEF Prefilled
  <1> QED
    BY <1>1, <1>2, <1>4, <1>5 DEF HitInv, SystemInv

\* Every step keeps the invariant.
LEMMA SystemStep == SystemInv /\ [SystemNext]_systemVars => SystemInv'
  <1> SUFFICES ASSUME SystemInv, SystemNext \/ UNCHANGED systemVars
               PROVE  SystemInv'
    OBVIOUS
  <1>1. IndInv'
    BY HandlersMove, StepInv DEF SystemInv
  <1>2. [Sched!Next]_(Sched!vars)
    BY <1>1, StepSeen
  <1>3. Sched!TypeOK' /\ Sched!BatchInv'
    BY <1>2, LoopConstants, Sched!NextTypes, Sched!BatchNext DEF SystemInv
  <1>4. TurnInv' /\ HitInv'
    <2>1. CASE UNCHANGED systemVars
      <3>1. UNCHANGED <<status, numComputed, at, cur, drafts, outLen, tree, hits, phase,
                        todo, waiting>>
        BY <2>1 DEF systemVars, vars, backendVars, handleVars, handlerVars, metricVars,
                    loopVars
      <3> QED
        BY <3>1 DEF SystemInv, TurnInv, HitInv, Prefilled, Drafts
    <2>2. CASE SystemNext
      BY <1>1, <2>2, MatchKeeps, FillKeeps, SyncKeeps, ExtendKeeps, RollBackKeeps,
         FreeKeeps, LoopKeeps DEF SystemNext
    <2> QED
      BY <2>1, <2>2
  <1> QED
    BY <1>1, <1>3, <1>4 DEF SystemInv

\* The system starts as its backend, its handlers and its loop do.
LEMMA SystemStart == SystemInit => SystemInv /\ Sched!Init
  <1> SUFFICES ASSUME SystemInit PROVE SystemInv /\ Sched!Init
    OBVIOUS
  <1>1. /\ at = "idle" /\ cur = NoReq /\ tree = <<>>
        /\ \A r \in Req : status[r] = "prefill" /\ numComputed[r] = 0
        /\ outLen = [r \in Req |-> 0] /\ hits = [r \in Req |-> 0]
        /\ waiting = Loop!ByArrival /\ phase = "idle"
    BY DEF SystemInit, Init, BackendInit
  <1>2. Range(waiting) = Req
    <2>1. Loop!ByArrival = Sched!ByArrival
      BY DEF Loop!ByArrival, Sched!ByArrival, Loop!Place, Sched!Place,
             Loop!Precedes, Sched!Precedes, Loop!Cardinality, Sched!Cardinality
    <2>2. Sched!Range(Sched!ByArrival) = Req
      BY LoopConstants, Sched!Sorting
    <2> QED
      BY <1>1, <2>1, <2>2 DEF Range, Sched!Range
  <1>3. \A r \in Req : /\ LoopStatus(r) = "queued" /\ LoopComputed(r) = 0
                       /\ LoopHits(r) = 0 /\ LoopHeld(r) = 0
    BY <1>1, <1>2, WorkloadAssumption DEF WorkloadAssumption, LoopStatus, LoopComputed,
       LoopHits, LoopHeld, HeldOutside, Ahead, InPrefill
  <1>4. Loop!Init
    BY <1>1, <1>3 DEF SystemInit, Loop!Init
  <1>5. Sched!Init /\ Sched!TypeOK /\ Sched!BatchInv
    BY <1>4, SameInit, LoopConstants, Sched!InitTypes, Sched!BatchInit
  <1>6. TurnInv
    BY <1>1 DEF TurnInv
  <1>7. HitInv
    <2>1. DOMAIN tree = {}
      BY <1>1
    <2> QED
      BY <1>1, <2>1 DEF HitInv
  <1>8. IndInv
    BY InitIndInv DEF SystemInit
  <1> QED
    BY <1>5, <1>6, <1>7, <1>8 DEF SystemInv

\* The invariant holds, and every step is one of the loop's or is hidden from it.
THEOREM SystemInductive == SystemSpec => []SystemInv
  <1> QED
    BY SystemStart, SystemStep, PTL DEF SystemSpec

\* Without the clock and the queues, the system is the handlers of SGLangServing
\* in one of the orders that module allows.
THEOREM HandlersRun == SystemSpec => Spec
  <1>1. SystemInit => Init
    BY DEF SystemInit
  <1>2. SystemInv /\ [SystemNext]_systemVars => [Next]_vars
    BY HandlersMove
  <1> QED
    BY SystemInductive, <1>1, <1>2, PTL DEF SystemSpec, Spec

\* With the backend's calls hidden, the system is the loop that SchedulerProofs is
\* about.
LEMMA LoopRuns == SystemSpec => Sched!Spec
  <1>1. SystemInit => Sched!Init
    BY SystemStart
  <1>2. SystemInv /\ SystemInv' /\ [SystemNext]_systemVars => [Sched!Next]_(Sched!vars)
    BY StepSeen DEF SystemInv
  <1> QED
    BY SystemInductive, <1>1, <1>2, PTL DEF SystemSpec, Sched!Spec

\* The system implements the event loop over a backend that keeps the contract:
\* whatever is refused, hit, drafted and rolled back, and in whatever order the
\* clock has it, SimScheduler allows it.
THEOREM SystemImplementsScheduler == SystemSpec => ImplementsScheduler
  <1> QED
    BY LoopRuns, SameSpec DEF ImplementsScheduler

\* Hence run() with the SGLang backend serves in order, holds what it counts,
\* records what the report divides, charges every first token its passes, counts
\* as stalls the steps in which decodes are refused, and returns only when every
\* request is finished.
THEOREM LoopGuarantees ==
    SystemSpec => /\ []( /\ Loop!ServedInArrivalOrder /\ Loop!HeldMatchesText
                         /\ Loop!DoneMeansAllFinished /\ Loop!AcceptanceAccounted
                         /\ Loop!StallsAwaitDecodes /\ Loop!FirstTokenPaid )
                  /\ Loop!ThroughputAccounted
  <1>1. Sched!ServedInArrivalOrder => Loop!ServedInArrivalOrder
    BY DEF Sched!ServedInArrivalOrder, Loop!ServedInArrivalOrder, Sched!Range, Loop!Range
  <1>2. Sched!HeldMatchesText => Loop!HeldMatchesText
    BY DEF Sched!HeldMatchesText, Loop!HeldMatchesText, Sched!Range, Loop!Range
  <1>3. Sched!DoneMeansAllFinished => Loop!DoneMeansAllFinished
    BY DEF Sched!DoneMeansAllFinished, Loop!DoneMeansAllFinished
  <1>4. Sched!AcceptanceAccounted => Loop!AcceptanceAccounted
    BY DEF Sched!AcceptanceAccounted, Loop!AcceptanceAccounted, Sched!SumOver,
           Loop!SumOver, Sched!SumFunctionOnSet, Loop!SumFunctionOnSet,
           Sched!FoldFunctionOnSet, Loop!FoldFunctionOnSet,
           Sched!MapThenFoldSet, Loop!MapThenFoldSet
  <1>5. Sched!StallsAwaitDecodes => Loop!StallsAwaitDecodes
    BY DEF Sched!StallsAwaitDecodes, Loop!StallsAwaitDecodes, Sched!Range, Loop!Range
  <1>6. Sched!FirstTokenPaid => Loop!FirstTokenPaid
    BY DEF Sched!FirstTokenPaid, Loop!FirstTokenPaid, Sched!Min, Loop!Min
  <1>7. [Sched!TokensRecorded]_(Sched!vars) => [Loop!TokensRecorded]_(Loop!vars)
    <2>1. /\ Sched!Unrecorded = Loop!Unrecorded
          /\ Sched!Unrecorded' = Loop!Unrecorded'
      BY DEF Sched!Unrecorded, Loop!Unrecorded, Sched!Pending, Loop!Pending,
             Sched!SumOver, Loop!SumOver, Sched!SumFunctionOnSet,
             Loop!SumFunctionOnSet, Sched!FoldFunctionOnSet,
             Loop!FoldFunctionOnSet, Sched!MapThenFoldSet, Loop!MapThenFoldSet
    <2>2. Sched!TokensRecorded => Loop!TokensRecorded
      BY <2>1 DEF Sched!TokensRecorded, Loop!TokensRecorded
    <2>3. UNCHANGED Sched!vars => UNCHANGED Loop!vars
      BY DEF Sched!vars, Sched!loopVars, Sched!requestVars, Sched!acceptVars,
             Sched!recorderVars, Loop!vars, Loop!loopVars, Loop!requestVars,
             Loop!acceptVars, Loop!recorderVars
    <2> QED
      BY <2>2, <2>3
  <1>8. Sched!ThroughputAccounted => Loop!ThroughputAccounted
    BY <1>7, PTL DEF Sched!ThroughputAccounted, Loop!ThroughputAccounted
  <1>9. Sched!Spec => /\ []Sched!ServedInArrivalOrder /\ []Sched!HeldMatchesText
                      /\ []Sched!DoneMeansAllFinished /\ []Sched!AcceptanceAccounted
                      /\ []Sched!StallsAwaitDecodes /\ []Sched!FirstTokenPaid
                      /\ Sched!ThroughputAccounted
    BY LoopConstants, Sched!ServiceInOrder, Sched!HoldingsAreText, Sched!DoneAfterAll,
       Sched!AcceptanceIsCounted, Sched!ThroughputAddsUp, Sched!FirstTokensPaid,
       Sched!StallsAreDecodes
  <1> QED
    BY LoopRuns, <1>1, <1>2, <1>3, <1>4, <1>5, <1>6, <1>8, <1>9, PTL

\* And under run() the SGLang backend keeps its promises: the caps, the flat pool,
\* the assertions of sync_state and free_rejected_slots, the rows, the sliding
\* window, the locked pages and the use of the SWA pool.
THEOREM BackendGuarantees ==
    SystemSpec => []( /\ PoolsWithinCaps /\ FlatPoolNeverBinds /\ FullUseCoversSlots
                      /\ ContractsKept /\ RowMatchesComputed /\ WindowNotReclaimed
                      /\ LockedPagesCached /\ SwaUseExact )
  <1> QED
    BY HandlersRun, CapsRespected, FlatPoolSuffices, FullPoolCoversSlots,
       ContractsNeverBreak, RowsAgree, WindowKept, LocksKeepPages, SwaPoolExact, PTL

-----------------------------------------------------------------------------
(* The stall error                                                         *)

\* Of the full pool's use f, what u pages of p tokens could give back is not changed
\* by k of them being given back.
GainKept(f, u, k, p) == Monus(Monus(f, k * p), p * (u - k)) = Monus(f, p * u)

\* Evicting k of u unlocked pages leaves as much of the full pool to be gained.
LEMMA PagesLeft ==
    ASSUME NEW f \in Nat, NEW u \in Nat, NEW k \in Nat, NEW p \in Nat \ {0}, k <= u
    PROVE  /\ k * p \in Nat /\ p * u \in Nat /\ p * (u - k) \in Nat
           /\ GainKept(f, u, k, p)
  <1>1. k * p \in Nat /\ p * u \in Nat /\ p * (u - k) \in Nat
    BY Z3
  <1>2. k * p + p * (u - k) = p * u
    BY Z3
  <1> DEFINE a == k * p
             b == p * (u - k)
             c == p * u
  <1>3. a \in Nat /\ b \in Nat /\ c \in Nat /\ a + b = c
    BY <1>1, <1>2
  <1> HIDE DEF a, b, c
  <1>4. Monus(Monus(f, a), b) = Monus(f, c)
    BY <1>3 DEF Monus
  <1> QED
    BY <1>1, <1>4 DEF GainKept, a, b, c

\* Evicting n tokens makes room for n tokens, unless there are more to come than
\* the pool has.
LEMMA EnoughFreed ==
    ASSUME NEW f \in Nat, NEW e \in Nat, NEW n \in Nat, NEW c \in Nat,
           f <= c, e >= n, Monus(f, e) + n > c
    PROVE  Monus(f, e) = 0
  BY DEF Monus

\* A refusal leaves the refused request starved, and the starved ones starved: it
\* has evicted all it can, unless the window is what it lacks.
LEMMA RefusalStarves ==
    ASSUME IsFiniteSet(DOMAIN tree), BackendTypeOK, PoolsWithinCaps, FlatPoolNeverBinds',
           NEW r \in Req, NEW n \in Nat, NEW prefix, AllocateFails(r, n, prefix)
    PROVE  /\ Starved(n)'
           /\ \A m \in Nat : Starved(m) => Starved(m)'
           /\ IsFiniteSet(DOMAIN tree') /\ swaUsed' = swaUsed
  <1>1. PICK order \in Evictions(n) :
          /\ OverBudget(n, Monus(fullUsed, Len(EvictedSlots(order))))
          /\ tree' = WithoutPages(order)
          /\ fullUsed' = Monus(fullUsed, Len(EvictedSlots(order)))
    BY DEF AllocateFails, FlatPoolNeverBinds
  <1>2. swaUsed' = swaUsed /\ lastNode' = lastNode
    BY DEF AllocateFails
  <1> DEFINE u == Cardinality(Unlocked)
             k == Len(order)
  <1>3. /\ IsFiniteSet(DOMAIN tree') /\ u \in Nat /\ k \in Nat /\ k <= u
        /\ Cardinality(Unlocked') = u - k
        /\ Len(EvictedSlots(order)) = k * PageSize
    BY <1>1, <1>2, EvictionLeaves
  <1>4. /\ PageSize \in Nat \ {0} /\ fullUsed \in Nat /\ swaUsed \in Nat
        /\ SwaTokens \in Nat /\ FullTokens \in Nat
    BY SizeAssumption DEF SizeAssumption, BackendTypeOK
  <1>5. /\ fullUsed' = Monus(fullUsed, k * PageSize) /\ k * PageSize \in Nat
        /\ Monus(fullUsed', PageSize * Cardinality(Unlocked')) = Monus(fullUsed, PageSize * u)
    <2> HIDE DEF u, k
    <2>1. /\ k * PageSize \in Nat
          /\ Monus(Monus(fullUsed, k * PageSize), PageSize * (u - k))
               = Monus(fullUsed, PageSize * u)
      <3>1. k \in Nat /\ u \in Nat /\ k <= u
        BY <1>3
      <3>2. k * PageSize \in Nat /\ GainKept(fullUsed, u, k, PageSize)
        BY <1>4, <3>1, PagesLeft
      <3> QED
        BY <3>2 DEF GainKept
    <2>2. fullUsed' = Monus(fullUsed, k * PageSize)
      BY <1>1, <1>3
    <2> QED
      BY <1>3, <2>1, <2>2
  <1>6. \A m \in Nat : Starved(m) => Starved(m)'
    BY <1>2, <1>5 DEF Starved
  <1>7. Starved(n)'
    <2>1. CASE swaUsed + n > SwaTokens
      BY <1>2, <2>1 DEF Starved
    <2>2. CASE ~(swaUsed + n > SwaTokens)
      <3>1. fullUsed' + n > FullTokens
        BY <1>1, <2>2 DEF OverBudget
      <3>2. OverBudget(n, fullUsed)
        BY <1>4, <1>5, <3>1 DEF OverBudget, Monus
      <3>3. k = u \/ k * PageSize >= n
        BY <1>1, <3>2 DEF Evictions, EvictionOrders
      <3>4. CASE k = u
        <4>1. PageSize * Cardinality(Unlocked') = 0
          BY <1>3, <1>4, <3>4
        <4>2. Monus(fullUsed', 0) = fullUsed'
          BY <1>4, <1>5 DEF Monus
        <4> QED
          BY <3>1, <4>1, <4>2 DEF Starved
      <3>5. CASE k * PageSize >= n
        <4>1. fullUsed <= FullTokens
          BY <1>4 DEF PoolsWithinCaps, BackendTypeOK
        <4> DEFINE e == k * PageSize
        <4>2. e \in Nat /\ fullUsed' = Monus(fullUsed, e) /\ e >= n
          BY <1>5, <3>5
        <4> HIDE DEF e
        <4>3. fullUsed' = 0
          BY <1>4, <3>1, <4>1, <4>2, EnoughFreed
        <4>4. PageSize * Cardinality(Unlocked') \in Nat
          BY <1>3, <1>4, PagesLeft
        <4>5. Monus(fullUsed', PageSize * Cardinality(Unlocked')) = fullUsed'
          BY <4>3, <4>4 DEF Monus
        <4> QED
          BY <3>1, <4>5 DEF Starved
      <3> QED
        BY <3>3, <3>4, <3>5
    <2> QED
      BY <2>1, <2>2
  <1> QED
    BY <1>2, <1>3, <1>6, <1>7

\* A request that waits for the pools, and that they cannot serve.
Stuck(r) == status[r] = "decoding" /\ Starved(1 + Drafts(r))

\* In a step that follows a stalled one nobody is admitted, as the clock has not
\* moved, so nobody is to be prefilled; and while such a step has computed
\* nothing, all who had their turn are stuck.
StallInv ==
    /\ IsFiniteSet(DOMAIN tree)
    /\ phase = "process" =>
         \A r \in Range(running) \ Range(todo) : status[r] # "prefill"
    /\ stallCount > 0 /\ phase \in {"idle", "process", "cleanup"} =>
         \A r \in Range(running) : status[r] # "prefill"
    /\ stallCount > 0 /\ phase \in {"idle", "cleanup"} =>
         /\ \A r \in Range(waiting) : Arrival[r] > simTime
         /\ \E r \in Range(running) : status[r] \notin {"finished", "freed"}
    /\ stallCount > 0 /\ phase = "process" /\ totals.computed = 0 /\ at = "idle" =>
         \A r \in Range(running) \ Range(todo) : Stuck(r)
    /\ StallIsDeadlock

\* A sequence is its head and what follows.
LEMMA HeadAndRest ==
    ASSUME NEW t \in Seq(Req), t # <<>>
    PROVE  Head(t) \in Req /\ Range(t) = {Head(t)} \cup Range(Tail(t))
  <1> DEFINE n == Len(t)
             s == Tail(t)
  <1>1. /\ n \in Nat \ {0} /\ Head(t) = t[1] /\ Head(t) \in Req
        /\ DOMAIN t = 1..n /\ DOMAIN s = 1..(n - 1)
        /\ \A i \in 1..(n - 1) : s[i] = t[i + 1]
    OBVIOUS
  <1> HIDE DEF n, s
  <1>2. \A i \in 1..n : t[i] \in {Head(t)} \cup Range(s)
    <2> SUFFICES ASSUME NEW i \in 1..n, i # 1 PROVE t[i] \in Range(s)
      BY <1>1
    <2>1. i - 1 \in 1..(n - 1) /\ (i - 1) + 1 = i
      BY <1>1
    <2>2. s[i - 1] = t[i]
      BY <1>1, <2>1
    <2> QED
      BY <1>1, <2>1, <2>2 DEF Range
  <1>3. \A i \in 1..(n - 1) : s[i] \in Range(t)
    <2> SUFFICES ASSUME NEW i \in 1..(n - 1) PROVE t[i + 1] \in Range(t)
      BY <1>1
    <2>1. i + 1 \in 1..n
      BY <1>1
    <2> QED
      BY <1>1, <2>1 DEF Range
  <1>4. t[1] \in Range(t)
    <2>1. 1 \in 1..n
      BY <1>1
    <2> QED
      BY <1>1, <2>1 DEF Range
  <1>5. Range(t) \in SUBSET ({Head(t)} \cup Range(s))
    BY <1>1, <1>2 DEF Range
  <1>6. Range(s) \in SUBSET Range(t)
    BY <1>1, <1>3 DEF Range
  <1> QED
    BY <1>1, <1>4, <1>5, <1>6 DEF s

\* Who is at the head of the list of the step, and what is behind it.
LEMMA HeadOfStep ==
    ASSUME SystemInv, todo # <<>>
    PROVE  /\ Head(todo) \in Req /\ Head(todo) \in Range(running)
           /\ Range(todo) \in SUBSET Range(running)
           /\ Range(todo) = {Head(todo)} \cup Range(Tail(todo))
  <1>1. todo \in Seq(Req)
    BY LoopTypes DEF SystemInv
  <1>2. Range(todo) \in SUBSET Range(running)
    BY DEF SystemInv, Sched!BatchInv, Range, Sched!Range
  <1>3. Head(todo) \in Req /\ Range(todo) = {Head(todo)} \cup Range(Tail(todo))
    BY <1>1, HeadAndRest
  <1> QED
    BY <1>2, <1>3

\* Whoever is starved stays so while the pools, the locks and the text stay.
LEMMA StuckStays ==
    ASSUME UNCHANGED <<status, outLen, tree, lastNode, swaUsed, fullUsed>>
    PROVE  \A r : Stuck(r)' <=> Stuck(r)
  BY DEF Stuck, Starved, Drafts, Unlocked

\* The start of a step.
LEMMA BeginStall ==
    ASSUME SystemInv, StallInv, BeginStep
    PROVE  StallInv'
  <1>1. /\ phase = "idle" /\ phase' = "process" /\ todo' = running'
        /\ UNCHANGED <<status, tree, stallCount>>
    BY DEF BeginStep, Loop!StartStep, vars, backendVars, handlerVars
  <1>2. PICK adm, rest : Sched!Admits(adm, rest)
    BY SameStart, LoopConstants, Sched!StartEffect DEF BeginStep, SystemInv
  <1>3. /\ Range(waiting) = Range(adm) \cup Range(rest)
        /\ \A r \in Range(adm) : Arrival[r] <= simTime
        /\ Range(running') \in SUBSET (Range(running) \cup Range(adm))
        /\ adm \in Seq(Req)
    BY <1>2 DEF Sched!Admits, SystemInv, Sched!BatchInv, Range, Sched!Range
  <1>4. stallCount > 0 => Range(running') \in SUBSET Range(running)
    <2> SUFFICES ASSUME stallCount > 0 PROVE Range(adm) = {}
      BY <1>3
    <2>1. \A r \in Range(adm) : r \in Req /\ Arrival[r] > simTime /\ Arrival[r] <= simTime
      BY <1>1, <1>3 DEF StallInv, Range
    <2>2. simTime \in Nat /\ \A r \in Req : Arrival[r] \in Nat
      BY LoopAssumption DEF LoopAssumption, SystemInv, Sched!TypeOK
    <2> QED
      BY <2>1, <2>2
  <1>5. StallIsDeadlock'
    BY <1>1 DEF StallIsDeadlock
  <1> QED
    BY <1>1, <1>4, <1>5 DEF StallInv

\* The end of the handlers.  A second stalled step in a row has tried everybody.
LEMMA CloseStall ==
    ASSUME StallLimit >= 2, SystemInv, StallInv, CloseStep
    PROVE  StallInv'
  <1>1. /\ phase = "process" /\ todo = <<>> /\ at = "idle"
        /\ UNCHANGED <<status, outLen, tree, lastNode, swaUsed, fullUsed, at, waiting,
                       running, todo, totals>>
        /\ phase' \in {"raised_stall", "cleanup"}
        /\ stallCount' = Loop!StallCount
        /\ phase' = "raised_stall" => stallCount' >= StallLimit
        /\ totals.computed = 0 => simTime' = simTime + 0
    <2>1. /\ phase = "process" /\ todo = <<>>
          /\ UNCHANGED <<status, outLen, tree, lastNode, swaUsed, fullUsed, at, waiting,
                         running, todo, totals>>
          /\ stallCount' = Loop!StallCount
      BY DEF CloseStep, Loop!Account, vars, backendVars, poolVars, handleVars, handlerVars
    <2>2. /\ phase' \in {"raised_stall", "cleanup"}
          /\ phase' = "raised_stall" => stallCount' >= StallLimit
      BY DEF CloseStep, Loop!Account, Loop!GivesUp
    <2>3. totals.computed = 0 => simTime' = simTime + 0
      <3>1. PICK l \in IF totals.computed > 0 THEN Latencies ELSE {0} : simTime' = simTime + l
        BY DEF CloseStep, Loop!Account
      <3> QED
        BY <3>1
    <2>4. at = "idle"
      BY <2>1 DEF SystemInv, TurnInv
    <2> QED
      BY <2>1, <2>2, <2>3, <2>4
  <1>2. /\ stallCount \in Nat /\ simTime \in Nat /\ StallLimit \in Nat \ {0}
    BY LoopAssumption DEF LoopAssumption, SystemInv, Sched!TypeOK
  <1>3. Range(todo) = {} /\ \A r \in Range(running) : status[r] # "prefill"
    BY <1>1 DEF StallInv, Range
  <1>4. stallCount' > 0 => /\ totals.computed = 0 /\ stallCount' = stallCount + 1
                           /\ \E r \in Range(running) : LoopStatus(r) # "finished"
    <2>1. stallCount' > 0 => Loop!Stalls /\ stallCount' = stallCount + 1
      BY <1>1, <1>2 DEF Loop!StallCount
    <2>2. Loop!Stalls => /\ totals.computed = 0
                         /\ \E r \in Range(running) : LoopStatus(r) # "finished"
      <3> SUFFICES ASSUME Loop!Stalls
                   PROVE  /\ totals.computed = 0
                          /\ \E r \in Range(running) : LoopStatus(r) # "finished"
        OBVIOUS
      <3>1. PICK r \in Range(running) : [q \in Req |-> LoopStatus(q)][r] # "finished"
        BY DEF Loop!Stalls, Loop!Active, Loop!Range, Range
      <3>2. r \in Req
        BY LoopTypes DEF SystemInv, Range
      <3> QED
        BY <3>1, <3>2 DEF Loop!Stalls
    <2> QED
      BY <2>1, <2>2
  <1>5. ASSUME stallCount' > 0
        PROVE  /\ \A r \in Range(waiting) : Arrival[r] > simTime'
               /\ \E r \in Range(running) : status[r] \notin {"finished", "freed"}
    <2>1. simTime' = simTime
      BY <1>1, <1>2, <1>4, <1>5
    <2>2. \A r \in Range(waiting) : Arrival[r] > simTime
      BY <1>1 DEF SystemInv, Sched!BatchInv, Range, Sched!Range
    <2>3. PICK r \in Range(running) : LoopStatus(r) # "finished"
      BY <1>4, <1>5
    <2>4. r \notin Range(waiting) => status[r] \notin {"finished", "freed"}
      BY <2>3 DEF LoopStatus
    <2>5. r \in Req /\ (r \in Range(waiting) => status[r] = "prefill")
      BY <2>3, LoopTypes DEF SystemInv, TurnInv, Range
    <2> QED
      BY <2>1, <2>2, <2>3, <2>4, <2>5
  <1>6. StallIsDeadlock'
    <2> SUFFICES ASSUME phase' = "raised_stall" PROVE StallIsDeadlock'
      BY DEF StallIsDeadlock
    <2>1. stallCount > 0 /\ totals.computed = 0
      <3>1. stallCount' >= StallLimit
        BY <1>1
      <3>2. stallCount' \in Nat
        BY <1>1, <1>2 DEF Loop!StallCount
      <3>3. stallCount' > 0
        BY <1>2, <3>1, <3>2
      <3>4. stallCount' = stallCount + 1 /\ totals.computed = 0
        BY <1>4, <3>3
      <3> QED
        BY <1>2, <3>1, <3>4
    <2>2. \A r \in Range(running) : Stuck(r)
      BY <1>1, <1>3, <2>1 DEF StallInv
    <2>3. \A r \in Range(running') : Stuck(r)'
      BY <1>1, <2>2, StuckStays
    <2> QED
      BY <2>3 DEF Stuck, StallIsDeadlock
  <1> QED
    BY <1>1, <1>3, <1>5, <1>6 DEF StallInv

\* The cleanup keeps who is not finished, and with somebody left the clock stands.
LEMMA LeaveStall ==
    ASSUME SystemInv, StallInv, LeaveStep
    PROVE  StallInv'
  <1>1. /\ phase = "cleanup" /\ phase' \in {"idle", "done"}
        /\ UNCHANGED <<status, tree, stallCount, waiting>>
    BY DEF LeaveStep, Loop!FinishStep, vars, backendVars, handlerVars
  <1>2. PICK done, left : Sched!Cleans(done, left)
    BY SameFinish, LoopConstants, Sched!FinishEffect DEF LeaveStep, SystemInv
  <1>3. /\ running' = left /\ left \in Seq(Req)
        /\ Range(left) = {r \in Range(running) : LoopStatus(r) # "finished"}
        /\ left # <<>> => simTime' = simTime
    <2>1. running' = left /\ left \in Seq(Req) /\ simTime' = Sched!FastForward(left)
      BY <1>2 DEF Sched!Cleans
    <2>2. Sched!Range(left)
              = {r \in Sched!Range(running) : [q \in Req |-> LoopStatus(q)][r] # "finished"}
      BY <1>2 DEF Sched!Cleans
    <2>3. \A r \in Range(running) : r \in Req
      BY LoopTypes DEF SystemInv, Range
    <2>4. Range(left) = {r \in Range(running) : LoopStatus(r) # "finished"}
      BY <2>2, <2>3 DEF Range, Sched!Range
    <2>5. left # <<>> => simTime' = simTime
      BY <2>1 DEF Sched!FastForward
    <2> QED
      BY <2>1, <2>4, <2>5
  <1>4. ASSUME NEW r \in Range(running), status[r] \notin {"finished", "freed"}
        PROVE  r \in Range(left) /\ left # <<>>
    <2>1. r \in Range(left)
      BY <1>3, <1>4 DEF LoopStatus
    <2> QED
      BY <2>1 DEF Range
  <1>5. StallIsDeadlock'
    BY <1>1 DEF StallIsDeadlock
  <1> QED
    BY <1>1, <1>3, <1>4, <1>5 DEF StallInv

\* get_computed_blocks is called for a prefill, and so in no step that follows a
\* stalled one.
LEMMA MatchStall ==
    ASSUME SystemInv, StallInv, NEW r \in Req, Match(r)
    PROVE  StallInv'
  <1>1. /\ phase = "process" /\ status[r] = "prefill" /\ r \in Range(running)
    BY HeadOfStep DEF Match, Turn, PrefillMatch
  <1>2. UNCHANGED <<phase, running, todo, waiting, stallCount, simTime, totals, status, tree>>
    BY DEF Match, PrefillMatch, loopVars, backendVars
  <1>3. StallIsDeadlock'
    BY <1>1, <1>2 DEF StallIsDeadlock
  <1> QED
    BY <1>1, <1>2, <1>3 DEF StallInv

\* So is the allocation for the prompt, which may end the run.
LEMMA FillStall ==
    ASSUME SystemInv, StallInv, FillPrompt
    PROVE  StallInv'
  <1>1. phase = "process" /\ at = "prefill_allocate"
    BY CurIsTurn DEF FillPrompt, PrefillAllocate
  <1>2. /\ at' \in {"prefill_sync", "raised_oom"}
        /\ phase' \in {"process", "raised_oom"}
        /\ UNCHANGED <<running, todo, waiting, stallCount, simTime, totals, status>>
    BY <1>1 DEF FillPrompt, PrefillAllocate
  <1>3. IsFiniteSet(DOMAIN tree')
    BY TreeStaysFinite DEF StallInv, FillPrompt, PrefillAllocate
  <1>4. StallIsDeadlock'
    BY <1>2 DEF StallIsDeadlock
  <1> QED
    BY <1>1, <1>2, <1>3, <1>4 DEF StallInv

\* And its sync_state, after which the request decodes.
LEMMA EndPrefillStall ==
    ASSUME SystemInv, IndInv', StallInv, EndPrefill
    PROVE  StallInv'
  <1>1. /\ phase = "process" /\ todo # <<>> /\ cur = Head(todo) /\ cur \in Req
        /\ status[cur] = "prefill" /\ cur \in Range(running)
        /\ status \in [Req -> {"prefill", "decoding", "finished", "freed"}]
    BY CurIsTurn, HeadOfStep, WhereAndTypes
       DEF EndPrefill, PrefillSync, SystemInv, IndInv, ControlInv
  <1>2. /\ phase' = "process" /\ todo' = Tail(todo)
        /\ UNCHANGED <<running, waiting, stallCount, simTime>>
        /\ status' = [status EXCEPT ![cur] = "decoding"]
        /\ SyncState(cur, 0)
    <2>1. at' # "raised_assert"
      BY DEF IndInv, ControlInv, ContractsKept
    <2> QED
      BY <1>1, <2>1 DEF EndPrefill, PrefillSync
  <1>3. stallCount \in Nat /\ ~(stallCount > 0)
    BY <1>1 DEF StallInv, SystemInv, Sched!TypeOK
  <1>4. IsFiniteSet(DOMAIN tree')
    <2>1. 0 \in 0..Len(Output[cur])
      <3>1. Len(Output[cur]) \in Nat
        BY <1>1
      <3> QED
        BY <3>1
    <2> QED
      BY <1>1, <1>2, <2>1, TreeStaysFinite DEF StallInv
  <1>5. \A r \in Range(running) \ Range(Tail(todo)) : status'[r] # "prefill"
    <2> SUFFICES ASSUME NEW r \in Range(running), r \notin Range(Tail(todo))
                 PROVE  status'[r] # "prefill"
      OBVIOUS
    <2>1. r = cur \/ r \notin Range(todo)
      BY <1>1, HeadOfStep
    <2>2. r \in Req
      BY LoopTypes DEF SystemInv, Range
    <2> QED
      BY <1>1, <1>2, <2>1, <2>2 DEF StallInv
  <1>6. StallIsDeadlock'
    BY <1>2 DEF StallIsDeadlock
  <1> QED
    BY <1>2, <1>3, <1>4, <1>5, <1>6 DEF StallInv

\* A decode's allocation: refused, its request is stuck and the others that were
\* stuck still are.
LEMMA ExtendStall ==
    ASSUME SystemInv, IndInv', StallInv, NEW r \in Req, Extend(r)
    PROVE  StallInv'
  <1>1. /\ phase = "process" /\ todo # <<>> /\ r = Head(todo) /\ at = "idle"
        /\ status[r] = "decoding" /\ r \in Range(running)
        /\ Range(todo) = {r} \cup Range(Tail(todo))
    BY HeadOfStep DEF Extend, DecodeAllocate, Turn
  <1>2. /\ todo' = IF at' = "idle" THEN Tail(todo) ELSE todo
        /\ UNCHANGED <<phase, running, waiting, stallCount, simTime, totals, status, outLen>>
    BY DEF Extend, DecodeAllocate, AllocateSucceeds, AllocateFails
  <1>3. IsFiniteSet(DOMAIN tree')
    BY TreeStaysFinite DEF StallInv, Extend, DecodeAllocate
  <1>4. StallIsDeadlock'
    BY <1>1, <1>2 DEF StallIsDeadlock
  <1>5. \A q \in Range(running) \ Range(todo') : status[q] # "prefill"
    BY <1>1, <1>2 DEF StallInv
  <1>6. CASE at' # "idle"
    BY <1>1, <1>2, <1>3, <1>4, <1>5, <1>6 DEF StallInv
  <1>7. CASE at' = "idle"
    <2>1. AllocateFails(r, 1 + Drafts(r), <<>>) /\ todo' = Tail(todo)
      BY <1>2, <1>7 DEF Extend, DecodeAllocate
    <2>2. Drafts(r) \in Nat /\ \A q \in Req : Drafts(q) \in Nat
      <3>1. \A q \in Req : outLen[q] \in Nat
        BY WhereAndTypes DEF SystemInv
      <3> QED
        BY <3>1, SameDrafts
    <2>3. /\ Starved(1 + Drafts(r))'
          /\ \A m \in Nat : Starved(m) => Starved(m)'
      <3>1. PICK n \in Nat : n = 1 + Drafts(r)
        BY <2>2
      <3>2. /\ BackendTypeOK /\ PoolsWithinCaps /\ FlatPoolNeverBinds'
            /\ IsFiniteSet(DOMAIN tree)
        BY DEF SystemInv, StallInv, IndInv, TypeOK, PoolInv
      <3>3. AllocateFails(r, n, <<>>)
        BY <2>1, <3>1
      <3>4. Starved(n)' /\ \A m \in Nat : Starved(m) => Starved(m)'
        BY <3>2, <3>3, RefusalStarves
      <3>5. Drafts(r)' = Drafts(r)
        BY <1>2 DEF Drafts
      <3> QED
        BY <3>1, <3>4, <3>5 DEF Starved
    <2>4. \A q \in Req : Stuck(q) => Stuck(q)'
      <3> SUFFICES ASSUME NEW q \in Req, Stuck(q) PROVE Stuck(q)'
        OBVIOUS
      <3>1. 1 + Drafts(q) \in Nat /\ Drafts(q)' = Drafts(q)
        BY <1>2, <2>2 DEF Drafts
      <3>2. Starved(1 + Drafts(q))'
        BY <2>3, <3>1 DEF Stuck
      <3> QED
        BY <1>2, <3>2 DEF Stuck
    <2>5. Stuck(r)'
      BY <1>1, <1>2, <2>3 DEF Stuck
    <2>6. ASSUME stallCount > 0, totals.computed = 0,
                 NEW q \in Range(running), q \notin Range(Tail(todo))
          PROVE  Stuck(q)'
      <3>1. q = r \/ q \notin Range(todo)
        BY <1>1, <2>6
      <3>2. q \in Req
        BY LoopTypes DEF SystemInv, Range
      <3>3. q \notin Range(todo) => Stuck(q)
        BY <1>1, <2>6 DEF StallInv
      <3> QED
        BY <2>4, <2>5, <3>1, <3>2, <3>3
    <2> QED
      BY <1>1, <1>2, <1>3, <1>4, <1>5, <2>1, <2>6 DEF StallInv
  <1> QED
    BY <1>6, <1>7

\* A rollback is followed by the sync of the same handler.
LEMMA RollBackStall ==
    ASSUME SystemInv, IndInv', StallInv, RollBack
    PROVE  StallInv'
  <1>1. /\ phase = "process" /\ at' = "decode_sync"
        /\ UNCHANGED <<phase, running, todo, waiting, stallCount, simTime, totals,
                       status, tree>>
    <2>1. at' # "raised_tail"
      BY DEF IndInv, ControlInv, ContractsKept
    <2>2. phase = "process"
      BY CurIsTurn DEF RollBack, DecodeRollback
    <2> QED
      BY <2>1, <2>2 DEF RollBack, DecodeRollback, FreeRejectedSlots, backendVars, loopVars
  <1>2. StallIsDeadlock'
    BY <1>1 DEF StallIsDeadlock
  <1> QED
    BY <1>1, <1>2 DEF StallInv

\* A decode step that goes through has computed tokens.
LEMMA EndDecodeStall ==
    ASSUME SystemInv, IndInv', StallInv, EndDecode
    PROVE  StallInv'
  <1>1. /\ phase = "process" /\ todo # <<>> /\ cur = Head(todo) /\ cur \in Req
        /\ status[cur] = "decoding" /\ at = "decode_sync"
        /\ Range(todo) = {cur} \cup Range(Tail(todo))
        /\ status \in [Req -> {"prefill", "decoding", "finished", "freed"}]
    BY CurIsTurn, HeadOfStep, WhereAndTypes
       DEF EndDecode, DecodeSync, SystemInv, IndInv, ControlInv
  <1> DEFINE n == outLen[cur] + Bonus(cur) + accepted
  <1>2. /\ phase' = "process" /\ todo' = Tail(todo)
        /\ UNCHANGED <<running, waiting, stallCount, simTime>>
        /\ \E s \in {"decoding", "finished"} : status' = [status EXCEPT ![cur] = s]
        /\ SyncState(cur, n)
    <2>1. at' # "raised_assert"
      BY DEF IndInv, ControlInv, ContractsKept
    <2> QED
      BY <1>1, <2>1 DEF EndDecode, DecodeSync
  <1>3. totals'.computed > 0
    <2>1. totals'.computed = totals.computed + (1 + drafts)
      BY DEF EndDecode, Loop!Counted
    <2>2. totals.computed \in Nat /\ drafts \in Nat
      BY WhereAndTypes DEF SystemInv, Sched!TypeOK, Sched!Counters
    <2> QED
      BY <2>1, <2>2
  <1>4. IsFiniteSet(DOMAIN tree')
    <2>1. outLen'[cur] = n /\ outLen'[cur] <= Len(Output[cur]) /\ outLen'[cur] \in Nat
      <3>1. outLen' = [outLen EXCEPT ![cur] = n] /\ outLen \in [Req -> Nat]
        BY <1>2, WhereAndTypes DEF SyncState, SystemInv
      <3>2. outLen' \in [Req -> Nat] /\ \A r \in Req : outLen'[r] <= Len(Output[r])
        BY DEF IndInv, TypeOK, BackendTypeOK, RowInv
      <3> HIDE DEF n
      <3> QED
        BY <1>1, <3>1, <3>2
    <2>2. Len(Output[cur]) \in Nat
      BY <1>1
    <2> HIDE DEF n
    <2>3. n \in 0..Len(Output[cur])
      BY <2>1, <2>2
    <2> QED
      BY <1>1, <1>2, <2>3, TreeStaysFinite DEF StallInv
  <1>5. /\ \A r \in Range(running) \ Range(Tail(todo)) : status'[r] # "prefill"
        /\ \A r \in Req : status'[r] = "prefill" => status[r] = "prefill"
    <2>1. \A r \in Req : status'[r] = "prefill" => status[r] = "prefill" /\ r # cur
      BY <1>1, <1>2
    <2> SUFFICES ASSUME NEW r \in Range(running), r \notin Range(Tail(todo)),
                        status'[r] = "prefill"
                 PROVE  FALSE
      BY <2>1
    <2>2. r \in Req
      BY LoopTypes DEF SystemInv, Range
    <2>3. r \notin Range(todo)
      BY <1>1, <2>1, <2>2
    <2> QED
      BY <1>1, <2>1, <2>2, <2>3 DEF StallInv
  <1>6. StallIsDeadlock'
    BY <1>2 DEF StallIsDeadlock
  <1>7. stallCount > 0 => \A r \in Range(running) : status'[r] # "prefill"
    <2>1. \A r \in Range(running) : r \in Req
      BY LoopTypes DEF SystemInv, Range
    <2> QED
      BY <1>1, <1>5, <2>1 DEF StallInv
  <1> HIDE DEF n
  <1>8. phase' = "process" /\ ~(totals'.computed = 0)
    BY <1>2, <1>3
  <1> QED
    BY <1>2, <1>4, <1>5, <1>6, <1>7, <1>8 DEF StallInv

\* A free takes out one that was finished already.
LEMMA FreeStall ==
    ASSUME SystemInv, StallInv, FreeFinished
    PROVE  StallInv'
  <1>1. PICK r \in Req : /\ r \in Range(running) /\ Cleanup(r)
                         /\ phase = "cleanup" /\ UNCHANGED <<loopVars, metricVars>>
    BY FreedIsFinished, LoopTypes DEF SystemInv
  <1>2. /\ status[r] = "finished" /\ status' = [status EXCEPT ![r] = "freed"]
        /\ UNCHANGED <<tree, phase, running, todo, waiting, stallCount, simTime>>
        /\ status \in [Req -> {"prefill", "decoding", "finished", "freed"}]
    BY <1>1, WhereAndTypes DEF SystemInv, Cleanup, Free, loopVars
  <1>3. /\ \A q \in Req \ {r} : status'[q] = status[q]
        /\ status'[r] = "freed"
    BY <1>2
  <1>4. \A q \in Range(running) : q \in Req
    BY LoopTypes DEF SystemInv, Range
  <1>5. \A q \in Range(running) : /\ status'[q] = "prefill" => status[q] = "prefill"
                                  /\ status[q] \notin {"finished", "freed"}
                                        => status'[q] \notin {"finished", "freed"}
    BY <1>2, <1>3, <1>4
  <1>6. StallIsDeadlock'
    BY <1>1, <1>2 DEF StallIsDeadlock
  <1> QED
    BY <1>1, <1>2, <1>5, <1>6 DEF StallInv

\* Where every step keeps it, given a stall limit of two steps or more.
LEMMA StallStep ==
    ASSUME StallLimit >= 2
    PROVE  SystemInv /\ SystemInv' /\ StallInv /\ [SystemNext]_systemVars => StallInv'
  <1> SUFFICES ASSUME SystemInv, IndInv', StallInv, SystemNext \/ UNCHANGED systemVars
               PROVE  StallInv'
    BY DEF SystemInv
  <1>1. CASE UNCHANGED systemVars
    <2>1. UNCHANGED <<status, outLen, tree, lastNode, swaUsed, fullUsed, at, phase,
                      running, todo, waiting, stallCount, simTime, totals>>
      BY <1>1 DEF systemVars, vars, backendVars, poolVars, handleVars, handlerVars,
                  loopVars
    <2>2. \A r : Stuck(r)' <=> Stuck(r)
      BY <2>1, StuckStays
    <2>3. StallIsDeadlock'
      BY <2>1, <2>2 DEF StallIsDeadlock, StallInv, Stuck
    <2> QED
      BY <2>1, <2>2, <2>3 DEF StallInv
  <1>2. CASE SystemNext
    BY <1>2, BeginStall, MatchStall, ExtendStall, FillStall, EndPrefillStall,
       RollBackStall, EndDecodeStall, CloseStall, FreeStall, LeaveStall DEF SystemNext
  <1> QED
    BY <1>1, <1>2

\* The stall error is no false alarm, for a stall_limit of two steps or more (a fully
\* cached prefill alone counts as a stalled step): where it is raised, every request
\* of the batch is decoding, and needs more tokens than the pools could give it with
\* every unlocked page evicted.  With a stalled step before it, the step that raises
\* has admitted nobody, and has been refused for each of them.
THEOREM StallsAreDeadlocks ==
    ASSUME StallLimit >= 2
    PROVE  SystemSpec => []StallIsDeadlock
  <1>1. SystemInit => StallInv
    <2> SUFFICES ASSUME SystemInit PROVE StallInv
      OBVIOUS
    <2>1. phase = "idle" /\ stallCount = 0 /\ tree = <<>>
      BY DEF SystemInit, Init, BackendInit
    <2>2. DOMAIN tree = {}
      BY <2>1
    <2> QED
      BY <2>1, <2>2, FS_EmptySet DEF StallInv, StallIsDeadlock
  <1>2. SystemInv /\ SystemInv' /\ StallInv /\ [SystemNext]_systemVars => StallInv'
    BY StallStep
  <1>3. StallInv => StallIsDeadlock
    BY DEF StallInv
  <1> QED
    BY SystemInductive, <1>1, <1>2, <1>3, PTL DEF SystemSpec
-----------------------------------------------------------------------------
(* A request alone                                                         *)

\* Whole pages that are prefixes of a text are among its pages, which are no more than
\* its tokens can fill.
LEMMA PagesOfPrefix ==
    ASSUME NEW l \in Seq(Token), NEW S, S \subseteq Seq(Token),
           \A p \in S : p # <<>> /\ Len(p) % PageSize = 0 /\ IsPrefix(p, l)
    PROVE  IsFiniteSet(S) /\ Cardinality(S) \in Nat /\ PageSize * Cardinality(S) <= Len(l)
  <1> DEFINE m == NumPages(l)
             f == [j \in 1..m |-> SubSeq(l, 1, j * PageSize)]
             T == PrefixPages(l, m)
  <1>1. /\ Len(l) \in Nat /\ PageSize \in Nat \ {0} /\ m \in Nat
        /\ m * PageSize \in Nat /\ m * PageSize <= Len(l)
        /\ Len(l) < m * PageSize + PageSize
    <2>1. Len(l) \in Nat
      OBVIOUS
    <2>2. PageSize \in Nat \ {0}
      BY SizeAssumption DEF SizeAssumption
    <2> QED
      BY <2>1, <2>2, DivBounds DEF NumPages
  <1>2. IsFiniteSet(T) /\ Cardinality(T) <= m /\ Cardinality(T) \in Nat
    <2>1. f \in Surjection(1..m, T)
      BY DEF Surjection, PrefixPages
    <2> HIDE DEF f, m, T
    <2>2. IsFiniteSet(1..m) /\ Cardinality(1..m) = m
      <3>1. m \in Nat
        BY <1>1
      <3> QED
        BY <3>1, FS_Interval
    <2> QED
      BY <2>1, <2>2, FS_Surjection, FS_CardinalityType
  <1> HIDE DEF m, f
  <1>3. ASSUME NEW p \in S PROVE p \in T
    <2> DEFINE j == Len(p) \div PageSize
    <2>1. /\ Len(p) \in Nat /\ Len(p) <= Len(l) /\ Len(p) % PageSize = 0 /\ p # <<>>
          /\ SubSeq(p, 1, Len(p)) = SubSeq(l, 1, Len(p)) /\ SubSeq(p, 1, Len(p)) = p
      BY <1>3 DEF IsPrefix
    <2>2. j \in Nat /\ j * PageSize = Len(p)
      <3>1. \A u \in Nat : u % PageSize = 0 => u \div PageSize \in Nat
                                             /\ (u \div PageSize) * PageSize = u
        BY <1>1, Z3
      <3> QED
        BY <2>1, <3>1
    <2>3. Len(p) # 0
      BY <1>3, <2>1
    <2> HIDE DEF j
    <2>4. j # 0
      BY <1>1, <2>2, <2>3
    <2>5. j < m + 1
      <3>1. (m + 1) * PageSize = m * PageSize + PageSize
        BY <1>1, PagesStep
      <3>2. j * PageSize < (m + 1) * PageSize
        <4> DEFINE u == m * PageSize
                   w == (m + 1) * PageSize
        <4>1. u \in Nat /\ Len(l) < u + PageSize /\ w = u + PageSize
          BY <1>1, <3>1
        <4> HIDE DEF u, w
        <4>2. Len(p) < w
          BY <1>1, <2>1, <4>1
        <4> QED
          BY <2>2, <4>2 DEF w
      <3>3. m + 1 \in Nat
        BY <1>1
      <3> QED
        BY <1>1, <2>2, <3>2, <3>3, PagesCancel
    <2>6. j \in 1..m
      BY <1>1, <2>2, <2>4, <2>5
    <2>7. p = SubSeq(l, 1, j * PageSize)
      BY <2>1, <2>2
    <2> QED
      BY <2>6, <2>7 DEF PrefixPages
  <1> HIDE DEF T
  <1>4. IsFiniteSet(S) /\ Cardinality(S) <= Cardinality(T) /\ Cardinality(S) \in Nat
    BY <1>2, <1>3, FS_Subset, FS_CardinalityType
  <1>5. PageSize * Cardinality(S) <= m * PageSize
    <2>1. Cardinality(S) <= m
      BY <1>1, <1>2, <1>4, LengthsTransitive
    <2>2. Cardinality(S) * PageSize <= m * PageSize
      BY <1>1, <1>4, <2>1, PagesMonotonic
    <2>3. Cardinality(S) * PageSize = PageSize * Cardinality(S)
      BY <1>1, <1>4, Z3
    <2> QED
      BY <2>2, <2>3
  <1>6. PageSize * Cardinality(S) \in Nat
    BY <1>1, <1>4, Z3
  <1> DEFINE u == PageSize * Cardinality(S)
             w == m * PageSize
  <1>7. u \in Nat /\ w \in Nat /\ u <= w /\ w <= Len(l)
    BY <1>1, <1>5, <1>6
  <1> HIDE DEF u, w
  <1>8. u <= Len(l)
    BY <1>1, <1>7, LengthsTransitive
  <1> QED
    BY <1>4, <1>8 DEF u

\* Nobody but r holds anything.
OthersHoldNothing(r) ==
    \A q \in Req \ {r} : /\ status[q] \in {"prefill", "freed"}
                         /\ row[q] = <<>> /\ charged[q] = 0 /\ lastNode[q] = <<>>

\* Then the window is used for r.
LEMMA AloneInWindow ==
    ASSUME IndInv, SwaUseExact, HoldingInv, NEW r \in Req, OthersHoldNothing(r)
    PROVE  swaUsed <= Len(row[r])
  <1> DEFINE f == [q \in Req |-> charged[q] - evicted[q]]
  <1>1. /\ charged \in [Req -> Nat] /\ evicted \in [Req -> Nat] /\ Len(row[r]) \in Nat
        /\ IsFiniteSet(Req) /\ CursorInv
    <2>1. row[r] \in Seq(Nat)
      BY DEF IndInv, TypeOK, BackendTypeOK
    <2> QED
      BY <2>1, WorkloadAssumption DEF WorkloadAssumption, IndInv, TypeOK, BackendTypeOK
  <1>2. \A q \in Req \ {r} : f[q] = 0
    <2> SUFFICES ASSUME NEW q \in Req \ {r} PROVE f[q] = 0
      OBVIOUS
    <2>1. charged[q] = 0 /\ evicted[q] \in Nat
      BY <1>1 DEF OthersHoldNothing
    <2>2. evicted[q] = 0
      <3> SUFFICES ASSUME evicted[q] + Window + PageSize + Revocable(q) < charged[q]
                   PROVE  FALSE
        BY <1>1 DEF CursorInv
      <3>1. Revocable(q) \in Nat /\ Window \in Nat /\ PageSize \in Nat
        BY SizeAssumption, WhereAndTypes DEF SizeAssumption, Revocable
      <3> QED
        BY <2>1, <3>1
    <2> QED
      BY <2>1, <2>2
  <1>3. f[r] <= Len(row[r]) /\ \A q \in Req : f[q] \in Int
    BY <1>1 DEF HoldingInv
  <1>4. swaUsed = SumFunctionOnSet(f, Req)
    BY DEF SwaUseExact
  <1> HIDE DEF f
  <1>5. SumFunctionOnSet(f, Req) = f[r] + SumFunctionOnSet(f, Req \ {r})
    BY <1>1, <1>3, SumRemove
  <1>6. SumFunctionOnSet(f, Req \ {r}) = 0
    <2>1. IsFiniteSet(Req \ {r})
      BY <1>1, FS_Subset
    <2> QED
      BY <1>2, <2>1, SumZero
  <1> QED
    BY <1>1, <1>3, <1>4, <1>5, <1>6

\* And of the full pool what is not due to pages that can be evicted.
LEMMA AloneInFullPool ==
    ASSUME IndInv, HoldingInv, LockInv, FullInv, NEW r \in Req, OthersHoldNothing(r),
           status[r] \in {"prefill", "decoding"}
    PROVE  Monus(fullUsed, PageSize * Cardinality(Unlocked)) <= Len(row[r])
  <1> DEFINE D == DOMAIN tree
             L == D \ Unlocked
             l == lastNode[r]
  <1>1. /\ OwnTyped /\ PageSize \in Nat \ {0} /\ fullUsed \in Nat /\ charged[r] \in Nat
        /\ l \in Seq(Token) /\ Len(l) \in Nat /\ Len(row[r]) \in Nat
        /\ D \subseteq Seq(Token) /\ IsFiniteSet(Req) /\ IsFiniteSet(D)
    <2>1. row[r] \in Seq(Nat) /\ l \in Seq(Token)
      BY DEF IndInv, TypeOK, BackendTypeOK
    <2> QED
      BY <2>1, OwnType, WorkloadAssumption, SizeAssumption
         DEF WorkloadAssumption, SizeAssumption, IndInv, TypeOK, BackendTypeOK, FullInv
  <1>2. Owned = Own(r) /\ Own(r) \in Nat
    <2> DEFINE f == [q \in Req |-> Own(q)]
    <2>1. \A q \in Req \ {r} : f[q] = 0
      BY DEF OthersHoldNothing, Own
    <2>2. Owned = SumFunctionOnSet(f, Req) /\ f[r] = Own(r) /\ Own(r) \in Nat
          /\ \A q \in Req : f[q] \in Int
      BY <1>1 DEF Owned, OwnTyped
    <2> HIDE DEF f
    <2>3. SumFunctionOnSet(f, Req) = f[r] + SumFunctionOnSet(f, Req \ {r})
      BY <1>1, <2>2, SumRemove
    <2>4. SumFunctionOnSet(f, Req \ {r}) = 0
      <3>1. IsFiniteSet(Req \ {r})
        BY <1>1, FS_Subset
      <3> QED
        BY <2>1, <3>1, SumZero
    <2> QED
      BY <2>2, <2>3, <2>4
  <1>3. Len(l) + Own(r) <= Len(row[r])
    <2>1. CASE status[r] = "decoding"
      BY <1>1, <2>1 DEF Own
    <2>2. CASE status[r] = "prefill"
      <3>1. l = <<>> /\ Own(r) = charged[r] /\ charged[r] <= Len(row[r])
        BY <2>2 DEF HoldingInv, Own
      <3> QED
        BY <1>1, <3>1
    <2> QED
      BY <2>1, <2>2
  <1>4. /\ Cardinality(L) \in Nat /\ IsFiniteSet(L)
        /\ PageSize * Cardinality(L) <= Len(l)
    <2>1. ASSUME NEW p \in L PROVE p # <<>> /\ Len(p) % PageSize = 0 /\ IsPrefix(p, l)
      <3>1. p \in D /\ p \in Seq(Token) /\ p # <<>> /\ Len(p) % PageSize = 0
        BY <1>1, <2>1 DEF FullInv, WholePages
      <3>2. PICK q \in Req : IsPrefix(p, lastNode[q])
        BY <2>1 DEF Unlocked
      <3>3. ASSUME q # r PROVE FALSE
        <4>1. lastNode[q] = <<>>
          BY <3>3 DEF OthersHoldNothing
        <4>2. Len(p) <= Len(<<>>) /\ Len(<<>>) = 0 /\ Len(p) \in Nat
          BY <3>1, <3>2, <4>1 DEF IsPrefix
        <4> QED
          BY <3>1, <4>2
      <3> QED
        BY <3>1, <3>2, <3>3
    <2>2. L \subseteq Seq(Token)
      BY <1>1
    <2> HIDE DEF L
    <2> QED
      BY <1>1, <2>1, <2>2, PagesOfPrefix
  <1>5. /\ Cardinality(Unlocked) \in Nat
        /\ Cardinality(D) = Cardinality(Unlocked) + Cardinality(L)
    <2>1. Unlocked \subseteq D /\ IsFiniteSet(Unlocked) /\ L = D \ Unlocked
          /\ D \cap Unlocked = Unlocked
      BY <1>1, FS_Subset DEF Unlocked
    <2> HIDE DEF D, L
    <2>2. Cardinality(L) = Cardinality(D) - Cardinality(D \cap Unlocked)
      BY <1>1, <2>1, FS_Difference
    <2>3. Cardinality(Unlocked) \in Nat /\ Cardinality(D) \in Nat
      BY <1>1, <2>1, FS_CardinalityType
    <2>4. \A x, y \in Nat : y = x + (y - x)
      OBVIOUS
    <2>5. Cardinality(L) = Cardinality(D) - Cardinality(Unlocked)
      BY <2>1, <2>2, Zenon
    <2>6. Cardinality(D) = Cardinality(Unlocked) + Cardinality(L)
      BY <2>3, <2>4, <2>5, Zenon
    <2> QED
      BY <2>3, <2>6, Zenon
  <1>6. fullUsed <= PageSize * Cardinality(D) + Owned
    BY FullUse DEF FullInv
  <1> DEFINE u == Cardinality(Unlocked)
             k == Cardinality(L)
  <1>7. PageSize * (u + k) = PageSize * u + PageSize * k /\ PageSize * u \in Nat
        /\ PageSize * k \in Nat
    <2>1. u \in Nat /\ k \in Nat
      BY <1>4, <1>5
    <2> HIDE DEF u, k
    <2> QED
      BY <1>1, <2>1, Z3
  <1> DEFINE a == PageSize * u
             b == PageSize * k
  <1>8. /\ a \in Nat /\ b \in Nat /\ b <= Len(l) /\ fullUsed <= (a + b) + Own(r)
    <2>1. PageSize * Cardinality(D) = a + b
      BY <1>5, <1>7
    <2> QED
      BY <1>2, <1>4, <1>6, <1>7, <2>1
  <1> HIDE DEF a, b, l
  <1>9. Monus(fullUsed, a) <= Len(row[r])
    BY <1>1, <1>2, <1>3, <1>8 DEF Monus
  <1> QED
    BY <1>9 DEF a

\* So whatever fits in the pools beside its own row is there for it.
LEMMA AloneNotStarved ==
    ASSUME IndInv, SwaUseExact, HoldingInv, LockInv, FullInv, NEW r \in Req,
           OthersHoldNothing(r), status[r] \in {"prefill", "decoding"}, NEW n \in Nat,
           Len(row[r]) + n <= SwaTokens, Len(row[r]) + n <= FullTokens
    PROVE  ~Starved(n)
  <1> DEFINE w == Monus(fullUsed, PageSize * Cardinality(Unlocked))
  <1>1. swaUsed <= Len(row[r]) /\ w <= Len(row[r])
    BY AloneInWindow, AloneInFullPool
  <1>2. /\ Len(row[r]) \in Nat /\ swaUsed \in Nat /\ w \in Int
        /\ SwaTokens \in Nat /\ FullTokens \in Nat
    <2>1. row[r] \in Seq(Nat) /\ fullUsed \in Nat /\ swaUsed \in Nat
      BY DEF IndInv, TypeOK, BackendTypeOK
    <2>2. Cardinality(Unlocked) \in Nat /\ PageSize \in Nat
      <3>1. IsFiniteSet(Unlocked)
        BY FS_Subset DEF FullInv, Unlocked
      <3> QED
        BY <3>1, FS_CardinalityType, SizeAssumption DEF SizeAssumption
    <2>3. PageSize * Cardinality(Unlocked) \in Nat
      BY <2>2, Z3
    <2> QED
      BY <2>1, <2>3, SizeAssumption DEF SizeAssumption, Monus
  <1>3. ~(swaUsed + n > SwaTokens)
    BY <1>1, <1>2
  <1>4. ~(w + n > FullTokens)
    <2> HIDE DEF w
    <2> QED
      BY <1>1, <1>2
  <1> QED
    BY <1>3, <1>4 DEF Starved

\* Where the run has failed for want of memory, it is the admitted request of a prefill
\* whose prompt the pools cannot give the rest of.
OomInv ==
    phase = "raised_oom" =>
        /\ at = "raised_oom" /\ cur \notin Range(waiting)
        /\ Len(Prompt[cur]) - numComputed[cur] \in Nat
        /\ Starved(Len(Prompt[cur]) - numComputed[cur])

LEMMA OomStep ==
    SystemInv /\ SystemInv' /\ IsFiniteSet(DOMAIN tree) /\ OomInv /\ [SystemNext]_systemVars
        => OomInv'
  <1> SUFFICES ASSUME SystemInv, SystemInv', IsFiniteSet(DOMAIN tree), OomInv,
                      SystemNext \/ UNCHANGED systemVars
               PROVE  OomInv'
    OBVIOUS
  <1>1. CASE UNCHANGED systemVars
    BY <1>1 DEF systemVars, vars, backendVars, poolVars, handleVars, handlerVars, loopVars,
       OomInv, Starved, Unlocked
  <1>2. CASE FillPrompt
    <2> SUFFICES ASSUME phase' = "raised_oom" PROVE OomInv'
      BY DEF OomInv
    <2>1. /\ at = "prefill_allocate" /\ phase = "process"
          /\ cur \in Req /\ cur \notin Range(waiting)
      BY <1>2, CurIsTurn DEF FillPrompt, PrefillAllocate
    <2> DEFINE n == Len(Prompt[cur]) - numComputed[cur]
    <2>2. /\ at' = "raised_oom" /\ AllocateFails(cur, n, blocks)
          /\ UNCHANGED <<waiting, cur, numComputed>>
      BY <1>2, <2>1 DEF FillPrompt, PrefillAllocate
    <2>3. n \in Nat
      <3>1. Len(Prompt[cur]) \in Nat /\ numComputed[cur] \in Nat /\ n > 0
        BY <2>1, <2>2, TextType, WhereAndTypes DEF SystemInv, AllocateFails
      <3> QED
        BY <3>1
    <2>4. BackendTypeOK /\ PoolsWithinCaps /\ FlatPoolNeverBinds'
      BY DEF SystemInv, IndInv, TypeOK, PoolInv
    <2>5. Starved(n)'
      <3>1. PICK m \in Nat : m = n
        BY <2>3
      <3> HIDE DEF n
      <3>2. Starved(m)'
        BY <2>1, <2>2, <2>4, <3>1, RefusalStarves
      <3>3. n' = n
        BY <2>2 DEF n
      <3> QED
        BY <3>1, <3>2, <3>3 DEF Starved
    <2> QED
      BY <2>1, <2>2, <2>3, <2>5 DEF OomInv
  <1>3. CASE SystemNext /\ ~FillPrompt
    <2>1. phase # "raised_oom"
      <3> SUFFICES ASSUME phase = "raised_oom" PROVE FALSE
        OBVIOUS
      <3>1. at = "raised_oom"
        BY DEF OomInv
      <3> QED
        BY <1>3, <3>1 DEF SystemNext, BeginStep, CloseStep, LeaveStep, FreeFinished, Match,
           Extend, Turn, EndPrefill, RollBack, EndDecode, PrefillSync, DecodeRollback,
           DecodeSync, Loop!StartStep, Loop!Account, Loop!FinishStep
    <2>2. phase' # "raised_oom"
      <3>1. CASE BeginStep \/ CloseStep \/ LeaveStep
        BY <2>1, <3>1 DEF BeginStep, CloseStep, LeaveStep, Loop!StartStep, Loop!Account,
           Loop!FinishStep
      <3>2. CASE EndPrefill \/ RollBack \/ EndDecode \/ FreeFinished
        BY <2>1, <3>2 DEF EndPrefill, RollBack, EndDecode, FreeFinished, loopVars
      <3>3. CASE \E r \in Req : Match(r) \/ Extend(r)
        BY <2>1, <3>3 DEF Match, Extend, loopVars
      <3> QED
        BY <1>3, <3>1, <3>2, <3>3 DEF SystemNext
    <2> QED
      BY <2>2 DEF OomInv
  <1> QED
    BY <1>1, <1>2, <1>3

\* Either error means that the request is starved of what it still needs, and a request
\* alone is not.
LEMMA AloneDoesNotFail ==
    ASSUME SystemInv, SwaUseExact, PlaceInv, FullInv, OomInv, StallIsDeadlock
    PROVE  LoneRequestServed
  <1> SUFFICES ASSUME NEW r \in Range(running),
                      \A q \in Req \ {r} : q \in Range(waiting) \/ status[q] = "freed",
                      Demand(r) <= SwaTokens, Demand(r) <= FullTokens,
                      phase \in {"raised_oom", "raised_stall"}
               PROVE  FALSE
    BY DEF LoneRequestServed
  <1>1. /\ r \in Req /\ IndInv /\ HoldingInv /\ LockInv /\ BackendTypeOK
        /\ row \in [Req -> Seq(Nat)]
        /\ status \in [Req -> {"prefill", "decoding", "finished", "freed"}]
        /\ at = IF phase = "raised_oom" THEN "raised_oom" ELSE "idle"
    <2>1. r \in Req
      BY LoopTypes DEF SystemInv, Range
    <2>2. at = IF phase = "raised_oom" THEN "raised_oom" ELSE "idle"
      BY DEF SystemInv, TurnInv, OomInv
    <2> QED
      BY <2>1, <2>2, WhereAndTypes DEF SystemInv, PlaceInv, IndInv, TypeOK, BackendTypeOK
  <1>2. ASSUME cur = r \/ cur = NoReq
        PROVE  OthersHoldNothing(r)
    <2> SUFFICES ASSUME NEW q \in Req \ {r}
                 PROVE  /\ status[q] \in {"prefill", "freed"}
                        /\ row[q] = <<>> /\ charged[q] = 0 /\ lastNode[q] = <<>>
      BY DEF OthersHoldNothing
    <2>1. status[q] \in {"prefill", "freed"}
      BY DEF SystemInv, TurnInv
    <2>2. q # cur
      BY <1>1, <1>2, WhereAndTypes
    <2>3. row[q] = <<>>
      BY <1>1, <2>1, <2>2 DEF LockInv, IndInv, RowInv
    <2>4. lastNode[q] = <<>> /\ charged[q] <= Len(row[q]) /\ charged[q] \in Nat
      BY <1>1, <2>1 DEF HoldingInv, BackendTypeOK
    <2>5. charged[q] = 0
      BY <2>3, <2>4
    <2> QED
      BY <2>1, <2>3, <2>4, <2>5
  <1>3. CASE phase = "raised_oom"
    <2>1. /\ at = "raised_oom" /\ cur \notin Range(waiting) /\ cur \in Req
          /\ status[cur] = "prefill" /\ Len(row[cur]) = numComputed[cur] /\ outLen[cur] = 0
      BY <1>1, <1>3 DEF OomInv, IndInv, ControlInv, HoldingInv, RowInv
    <2>2. cur = r
      BY <2>1
    <2> DEFINE n == Len(Prompt[r]) - numComputed[r]
    <2>3. n \in Nat /\ Starved(n)
      BY <1>3, <2>2 DEF OomInv
    <2>4. Len(row[r]) + n = Demand(r)
      <3>1. 0 \in 0..Len(Output[r]) /\ Len(Prompt[r]) \in Nat /\ numComputed[r] \in Nat
        <4>1. Len(Output[r]) \in Nat
          BY <1>1, TextType
        <4> QED
          BY <1>1, <4>1, WhereAndTypes
      <3>2. Demand(r) = Len(Prompt[r]) + 0
        BY <1>1, <2>1, <2>2, <3>1, TextType DEF Demand
      <3>3. Len(row[r]) = numComputed[r]
        BY <2>1, <2>2
      <3> QED
        BY <3>1, <3>2, <3>3
    <2> HIDE DEF n
    <2>5. OthersHoldNothing(r)
      BY <1>2, <2>2
    <2>6. ~Starved(n)
      BY <1>1, <2>1, <2>2, <2>3, <2>4, <2>5, AloneNotStarved
    <2> QED
      BY <2>3, <2>6
  <1>4. CASE phase = "raised_stall"
    <2>1. status[r] = "decoding" /\ Starved(1 + Drafts(r)) /\ at = "idle" /\ cur = NoReq
      BY <1>1, <1>4, WhereAndTypes DEF StallIsDeadlock
    <2> DEFINE n == 1 + Drafts(r)
    <2>2. n \in Nat /\ outLen[r] \in 0..Len(Output[r])
      <3>1. outLen[r] \in Nat /\ outLen[r] <= Len(Output[r]) /\ Len(Output[r]) \in Nat
        BY <1>1, TextType DEF IndInv, RowInv, BackendTypeOK
      <3>2. Drafts(r) \in Nat
        BY <1>1, <3>1, SameDrafts
      <3> QED
        BY <3>1, <3>2
    <2>3. Len(row[r]) + n = Demand(r)
      <3>1. Len(row[r]) = Len(Prompt[r]) + outLen[r] + 0
        BY <1>1, <2>1 DEF HoldingInv, Ahead
      <3>2. Len(Text(r, outLen[r])) = Len(Prompt[r]) + outLen[r] /\ Len(Prompt[r]) \in Nat
        BY <1>1, <2>2, TextType
      <3>3. Demand(r) = Len(Text(r, outLen[r])) + n
        BY <2>1 DEF Demand
      <3> HIDE DEF n
      <3> QED
        BY <2>2, <3>1, <3>2, <3>3
    <2>4. Starved(n)
      BY <2>1
    <2> HIDE DEF n
    <2>5. OthersHoldNothing(r)
      BY <1>2, <2>1
    <2>6. ~Starved(n)
      BY <1>1, <2>1, <2>2, <2>3, <2>5, AloneNotStarved
    <2> QED
      BY <2>4, <2>6
  <1> QED
    BY <1>3, <1>4

\* No run fails on a request that is alone in the system and fits in both pools by
\* itself: what earlier requests left behind, cached or charged, does not stand in its
\* way, where no two requests compute the same page.
THEOREM LoneRequestsServed ==
    ASSUME StallLimit >= 2
    PROVE  SystemSpec /\ []NoPageRecomputed => []LoneRequestServed
  <1>1. SystemInit => OomInv
    BY DEF SystemInit, OomInv
  <1>2. SystemInv /\ SystemInv' /\ FullInv /\ OomInv /\ [SystemNext]_systemVars => OomInv'
    BY OomStep DEF FullInv
  <1>3. SystemInv /\ SwaUseExact /\ PlaceInv /\ FullInv /\ OomInv /\ StallIsDeadlock
          => LoneRequestServed
    BY AloneDoesNotFail
  <1> QED
    BY SystemInductive, HandlersRun, FullPoolKept, SwaPoolExact, StallsAreDeadlocks,
       <1>1, <1>2, <1>3, PTL DEF SystemSpec

-----------------------------------------------------------------------------
(* The system winds down                                                   *)

\* The requests that the backend has yet to free
Unfreed == Cardinality({r \in Req : status[r] # "freed"})

\* The backend calls that are left of a handler; between handlers, all of the next's
CallsLeft == CASE at = "idle" -> 3
               [] at \in {"prefill_allocate", "decode_rollback"} -> 2
               [] at \in {"prefill_sync", "decode_sync"} -> 1
               [] OTHER -> 0

\* The measure of the loop, and for the steps that it does not see, what is left to be
\* freed and to be called.
SystemMeasure == [i \in 1..7 |-> IF i = 6 THEN Unfreed
                                 ELSE IF i = 7 THEN CallsLeft ELSE Sched!Measure[i]]

\* A hidden step frees a request, or is one of a handler's calls but the last.
InnerFalls == \/ Unfreed' < Unfreed
              \/ Unfreed' = Unfreed /\ CallsLeft' < CallsLeft

\* Both are numbers.
LEMMA InnerNumbers == Unfreed \in Nat /\ CallsLeft \in Nat
  <1>1. IsFiniteSet(Req) /\ {r \in Req : status[r] # "freed"} \in SUBSET Req
    BY WorkloadAssumption DEF WorkloadAssumption
  <1>2. Unfreed \in Nat
    BY <1>1, FS_Subset, FS_CardinalityType DEF Unfreed
  <1> QED
    BY <1>2 DEF CallsLeft

\* The same after a step.
LEMMA InnerNumbersNext == Unfreed' \in Nat /\ CallsLeft' \in Nat
  <1>1. (Unfreed \in Nat /\ CallsLeft \in Nat)'
    BY InnerNumbers, PTL
  <1> QED
    BY <1>1

\* What the loop does not see leaves its measure alone.
LEMMA MeasureStays == UNCHANGED Sched!vars => Sched!Measure' = Sched!Measure
  <1> SUFFICES ASSUME UNCHANGED Sched!vars PROVE Sched!Measure' = Sched!Measure
    OBVIOUS
  <1> USE DEF Sched!vars, Sched!loopVars, Sched!requestVars
  <1>1. Sched!Work' = Sched!Work
    BY DEF Sched!Work, Sched!Owed
  <1>2. Sched!Patience' = Sched!Patience
    BY DEF Sched!Patience, Sched!Progressed
  <1>3. Sched!Lateness' = Sched!Lateness /\ Sched!Stage' = Sched!Stage
    BY DEF Sched!Lateness, Sched!Stage
  <1> QED
    BY <1>1, <1>2, <1>3 DEF Sched!Measure

\* Every step is seen by the loop, or is the call of a handler that goes on, or frees
\* a request.
LEMMA HiddenStepsFall ==
    ASSUME SystemInv, SystemNext
    PROVE  InnerFalls \/ ~UNCHANGED Sched!vars
  <1> USE DEF Sched!vars, Sched!loopVars
  <1>1. CASE BeginStep \/ CloseStep \/ LeaveStep
    <2>1. Sched!StartStep \/ Sched!Account \/ Sched!FinishStep
      BY <1>1, SameStart, SameAccount, SameFinish DEF BeginStep, CloseStep, LeaveStep
    <2>2. phase' # phase
      BY <2>1 DEF Sched!StartStep, Sched!Account, Sched!FinishStep
    <2> QED
      BY <2>2
  <1>2. CASE EndPrefill \/ EndDecode
    <2>1. at \in {"prefill_sync", "decode_sync"} /\ todo' = Tail(todo)
      BY <1>2 DEF EndPrefill, PrefillSync, EndDecode, DecodeSync
    <2>2. todo \in Seq(Req) /\ todo # <<>>
      BY <2>1, CurIsTurn, LoopTypes DEF SystemInv
    <2>3. todo' # todo
      <3>1. Len(todo') = Len(todo) - 1 /\ Len(todo) \in Nat
        BY <2>1, <2>2
      <3> QED
        BY <3>1
    <2> QED
      BY <2>3
  <1>3. ASSUME NEW r \in Req, Match(r) PROVE InnerFalls
    BY <1>3 DEF Match, PrefillMatch, InnerFalls, Unfreed, CallsLeft
  <1>4. CASE FillPrompt
    <2>1. at = "prefill_allocate" /\ at' \in {"prefill_sync", "raised_oom"}
          /\ UNCHANGED status
      BY <1>4 DEF FillPrompt, PrefillAllocate
    <2> QED
      BY <2>1 DEF InnerFalls, Unfreed, CallsLeft
  <1>5. ASSUME NEW r \in Req, Extend(r) PROVE InnerFalls \/ ~UNCHANGED Sched!vars
    <2>1. at = "idle" /\ at' \in {"idle", "decode_rollback"} /\ UNCHANGED status
      BY <1>5 DEF Extend, DecodeAllocate
    <2>2. CASE at' = "decode_rollback"
      BY <2>1, <2>2 DEF InnerFalls, Unfreed, CallsLeft
    <2>3. CASE at' = "idle"
      <3>1. todo' = Tail(todo) /\ todo # <<>> /\ todo \in Seq(Req)
        BY <1>5, <2>3, LoopTypes DEF Extend, Turn, SystemInv
      <3>2. Len(todo') = Len(todo) - 1 /\ Len(todo) \in Nat
        BY <3>1
      <3> QED
        BY <3>2
    <2> QED
      BY <2>1, <2>2, <2>3
  <1>6. CASE RollBack
    <2>1. at = "decode_rollback" /\ at' \in {"raised_tail", "decode_sync"}
          /\ UNCHANGED status
      BY <1>6 DEF RollBack, DecodeRollback
    <2> QED
      BY <2>1 DEF InnerFalls, Unfreed, CallsLeft
  <1>7. CASE FreeFinished
    <2>1. PICK r \in Req : Cleanup(r)
      BY <1>7, FreedIsFinished, LoopTypes DEF SystemInv
    <2> DEFINE S == {q \in Req : status[q] # "freed"}
               T == {q \in Req : status'[q] # "freed"}
    <2>2. r \in S /\ T = S \ {r}
      BY <2>1, WhereAndTypes DEF Cleanup, SystemInv
    <2>3. IsFiniteSet(S)
      BY FS_Subset, WorkloadAssumption DEF WorkloadAssumption
    <2> HIDE DEF S, T
    <2>4. Cardinality(T) = Cardinality(S) - 1 /\ Cardinality(S) \in Nat
      BY <2>2, <2>3, FS_RemoveElement, FS_CardinalityType
    <2>5. Unfreed = Cardinality(S) /\ Unfreed' = Cardinality(T)
      BY DEF Unfreed, S, T
    <2> QED
      BY <2>4, <2>5 DEF InnerFalls
  <1> QED
    BY <1>1, <1>2, <1>3, <1>4, <1>5, <1>6, <1>7 DEF SystemNext

\* Where the loop's measure falls, or stays and one of the two falls, the system's
\* falls.
LEMMA SystemFalls ==
    ASSUME NEW a \in [1..5 -> Nat], NEW b \in [1..5 -> Nat],
           NEW x \in [1..7 -> Nat], NEW y \in [1..7 -> Nat],
           \A i \in 1..5 : x[i] = a[i] /\ y[i] = b[i],
           \/ Sched!Below(b, a)
           \/ b = a /\ (y[6] < x[6] \/ (y[6] = x[6] /\ y[7] < x[7]))
    PROVE  Sched!Below(y, x)
  <1>1. DOMAIN x = 1..7 /\ DOMAIN y = 1..7 /\ DOMAIN b = 1..5
    OBVIOUS
  <1>2. CASE Sched!Below(b, a)
    <2>1. PICK i \in 1..5 : b[i] < a[i] /\ \A j \in 1..(i - 1) : b[j] = a[j]
      BY <1>1, <1>2 DEF Sched!Below
    <2>2. y[i] < x[i] /\ \A j \in 1..(i - 1) : y[j] = x[j]
      BY <2>1
    <2> QED
      BY <1>1, <2>2 DEF Sched!Below
  <1>3. CASE b = a /\ y[6] < x[6]
    <2>1. \A j \in 1..(6 - 1) : y[j] = x[j]
      BY <1>3
    <2> QED
      BY <1>1, <1>3, <2>1 DEF Sched!Below
  <1>4. CASE b = a /\ y[6] = x[6] /\ y[7] < x[7]
    <2>1. \A j \in 1..(7 - 1) : y[j] = x[j]
      BY <1>4
    <2> QED
      BY <1>1, <1>4, <2>1 DEF Sched!Below
  <1> QED
    BY <1>2, <1>3, <1>4

\* A run of the simulator with the SGLang backend cannot go on for ever, down to the
\* single backend call: seven natural numbers, those of the loop and what is left to
\* be freed and to be called in its handlers, fall in every step in the lexicographic
\* order.  Neither a pool that refuses nor a cache that evicts keeps it going.
THEOREM SystemWindsDown ==
    SystemSpec => /\ [](SystemMeasure \in [1..7 -> Nat])
                  /\ [][Sched!Below(SystemMeasure', SystemMeasure)]_systemVars
  <1> DEFINE Seen == Sched!Below(Sched!Measure', Sched!Measure)
             Typed == Sched!Measure \in [1..5 -> Nat]
             Falls == Sched!Below(SystemMeasure', SystemMeasure)
  <1>1. Sched!Spec => []Typed /\ [][Seen]_(Sched!vars)
    BY LoopConstants, Sched!LoopWindsDown
  <1>2. Typed => SystemMeasure \in [1..7 -> Nat]
    <2> SUFFICES ASSUME Typed PROVE SystemMeasure \in [1..7 -> Nat]
      OBVIOUS
    <2>1. Unfreed \in Nat /\ CallsLeft \in Nat
      BY InnerNumbers
    <2> QED
      BY <2>1 DEF SystemMeasure
  <1>3. SystemInv /\ Typed /\ Typed' /\ [SystemNext]_systemVars /\ [Seen]_(Sched!vars)
            => [Falls]_systemVars
    <2> SUFFICES ASSUME SystemInv, Typed, Typed', SystemNext, [Seen]_(Sched!vars)
                 PROVE  Falls
      OBVIOUS
    <2>1. \/ Seen
          \/ Sched!Measure' = Sched!Measure /\ InnerFalls
      BY HiddenStepsFall, MeasureStays
    <2> DEFINE a == Sched!Measure
               b == Sched!Measure'
               x == SystemMeasure
               y == SystemMeasure'
    <2>2. /\ a \in [1..5 -> Nat] /\ b \in [1..5 -> Nat]
          /\ Unfreed \in Nat /\ Unfreed' \in Nat
          /\ CallsLeft \in Nat /\ CallsLeft' \in Nat
      BY InnerNumbers, InnerNumbersNext
    <2>3. /\ x \in [1..7 -> Nat] /\ y \in [1..7 -> Nat]
          /\ \A i \in 1..5 : x[i] = a[i] /\ y[i] = b[i]
          /\ x[6] = Unfreed /\ y[6] = Unfreed' /\ x[7] = CallsLeft /\ y[7] = CallsLeft'
      BY <2>2 DEF SystemMeasure
    <2>4. \/ Sched!Below(b, a)
          \/ b = a /\ (y[6] < x[6] \/ (y[6] = x[6] /\ y[7] < x[7]))
      BY <2>1, <2>3 DEF InnerFalls
    <2> HIDE DEF a, b, x, y
    <2>5. Sched!Below(y, x)
      BY <2>2, <2>3, <2>4, SystemFalls
    <2> QED
      BY <2>5 DEF x, y
  <1> HIDE DEF Seen, Typed, Falls
  <1>4. SystemSpec => [](SystemMeasure \in [1..7 -> Nat]) /\ [][Falls]_systemVars
    BY SystemInductive, LoopRuns, <1>1, <1>2, <1>3, PTL DEF SystemSpec
  <1> QED
    BY <1>4 DEF Falls

=============================================================================
