----------------------------- MODULE VLLMProofs -----------------------------
(***************************************************************************)
(* Proofs about VLLMServing, for every workload, block size, number of     *)
(* blocks and number of drafts.  The vLLM request stays in step with the   *)
(* simulator's, so the backend implements KVService; nothing is needed of  *)
(* the block pool for that, which only decides which allocations are       *)
(* refused.  A second invariant, on top of it, is about the pool: what the *)
(* blocks cache and how many of them a request holds.                      *)
(***************************************************************************)
EXTENDS VLLMServing, FoldTheorems, SequenceTheorems, TLAPS

-----------------------------------------------------------------------------
(* Texts                                                                   *)

TextAt(r, n) == Prompt[r] \o SubSeq(Output[r], 1, n)

\* Prompt, output so far and new output, as sequences over one set.
LEMMA ConcatType ==
    ASSUME NEW S, NEW s \in Seq(S), NEW t \in Seq(S)
    PROVE  s \o t \in Seq(S) /\ Len(s \o t) = Len(s) + Len(t)
    BY ConcatProperties

\* What is synced follows on from what was: the output text is extended by a
\* piece of the output.
LEMMA AppendNew ==
    ASSUME NEW S, NEW s \in Seq(S), NEW o \in Seq(S),
           NEW n \in Nat, NEW m \in Nat, n <= m, m <= Len(o)
    PROVE  (s \o SubSeq(o, 1, n)) \o SubSeq(o, n + 1, m) = s \o SubSeq(o, 1, m)
  <1>1. SubSeq(o, 1, n) \in Seq(S) /\ SubSeq(o, n + 1, m) \in Seq(S)
    OBVIOUS
  <1>2. SubSeq(o, 1, n) \o SubSeq(o, n + 1, m) = SubSeq(o, 1, m)
    <2>1. 1 \in 1..Len(o) + 1 /\ n \in 0..Len(o) /\ m \in n..Len(o) /\ 1 - 1 = 0
      OBVIOUS
    <2> QED
      BY <2>1, ConcatAdjacentSubSeq, Zenon
  <1>3. \A a, b \in Seq(S) : (s \o a) \o b = s \o (a \o b)
    BY ConcatAssociative
  <1>4. (s \o SubSeq(o, 1, n)) \o SubSeq(o, n + 1, m)
            = s \o (SubSeq(o, 1, n) \o SubSeq(o, n + 1, m))
    BY <1>1, <1>3
  <1> QED
    BY <1>2, <1>4, Zenon

\* The text of a request after n output tokens.
LEMMA TextType ==
    ASSUME NEW r \in Req, NEW n \in 0..Len(Output[r])
    PROVE  /\ TextAt(r, n) \in Seq(Token)
           /\ Len(TextAt(r, n)) = Len(Prompt[r]) + n
           /\ Len(Prompt[r]) \in Nat /\ Len(Output[r]) \in Nat
  <1>1. Prompt[r] \in Seq(Token) /\ Output[r] \in Seq(Token)
    BY WorkloadAssumption DEF WorkloadAssumption
  <1>2. SubSeq(Output[r], 1, n) \in Seq(Token) /\ Len(SubSeq(Output[r], 1, n)) = n
    BY <1>1
  <1>3. TextAt(r, n) = Prompt[r] \o SubSeq(Output[r], 1, n)
    BY DEF TextAt
  <1>4. /\ TextAt(r, n) \in Seq(Token)
        /\ Len(TextAt(r, n)) = Len(Prompt[r]) + Len(SubSeq(Output[r], 1, n))
    BY <1>1, <1>2, <1>3, ConcatType
  <1>5. Len(Prompt[r]) \in Nat /\ Len(Output[r]) \in Nat
    BY <1>1
  <1> QED
    BY <1>2, <1>4, <1>5, Zenon

\* No output yet: the text is the prompt.
LEMMA TextAtStart ==
    ASSUME NEW r \in Req
    PROVE  TextAt(r, 0) = Prompt[r]
  <1>1. Prompt[r] \in Seq(Token) /\ Output[r] \in Seq(Token)
    BY WorkloadAssumption DEF WorkloadAssumption
  <1>2. SubSeq(Output[r], 1, 0) = <<>>
    BY <1>1, SubSeqEmpty
  <1> QED
    BY <1>1, <1>2 DEF TextAt

\* What sync_to_vllm appends to a text of n output tokens makes it one of m.
LEMMA SyncAppends ==
    ASSUME NEW r \in Req, NEW m \in 0..Len(Output[r]), NEW n \in 0..m,
           engineReq = [q \in Req |-> engineReq[q]],
           engineReq[r] = [tokens |-> TextAt(r, n), computed |-> Len(TextAt(r, n))]
    PROVE  Synced(r, m) = [engineReq EXCEPT ![r] =
               [tokens |-> TextAt(r, m), computed |-> Len(TextAt(r, m))]]
  <1>1. /\ Prompt[r] \in Seq(Token) /\ Output[r] \in Seq(Token)
        /\ m \in Nat /\ n \in Nat /\ n <= m /\ m <= Len(Output[r])
    BY WorkloadAssumption DEF WorkloadAssumption
  <1>2. n \in 0..Len(Output[r])
    BY <1>1
  <1>3. /\ Len(TextAt(r, n)) = Len(Prompt[r]) + n /\ Len(Prompt[r]) \in Nat
        /\ Len(TextAt(r, m)) = Len(Prompt[r]) + m
    BY <1>2, TextType
  <1>4. TextAt(r, n) \o SubSeq(Output[r], n + 1, m) = TextAt(r, m)
    BY <1>1, AppendNew DEF TextAt
  <1>5. engineReq[r].tokens = TextAt(r, n)
    OBVIOUS
  <1>6. Len(engineReq[r].tokens) - Len(Prompt[r]) = n
    <2>1. Len(engineReq[r].tokens) = Len(Prompt[r]) + n
      BY <1>3, <1>5, Zenon
    <2> QED
      BY <1>1, <1>3, <2>1
  <1>7. Synced(r, m) = [engineReq EXCEPT ![r] =
            [tokens |-> engineReq[r].tokens \o SubSeq(Output[r], n + 1, m),
             computed |-> Len(Prompt[r]) + m]]
    BY <1>6 DEF Synced
  <1> QED
    BY <1>3, <1>4, <1>5, <1>7

\* The sync after a prefill appends nothing.
LEMMA SyncNothing ==
    ASSUME NEW r \in Req, engineReq[r] = [tokens |-> Prompt[r], computed |-> 0]
    PROVE  Synced(r, 0) = [engineReq EXCEPT ![r] =
               [tokens |-> Prompt[r], computed |-> Len(Prompt[r])]]
  <1>1. Prompt[r] \in Seq(Token) /\ Output[r] \in Seq(Token) /\ Len(Prompt[r]) \in Nat
    BY WorkloadAssumption DEF WorkloadAssumption
  <1>2. Prompt[r] \o SubSeq(Output[r], 1, 0) = Prompt[r]
    BY TextAtStart DEF TextAt
  <1>3. Len(engineReq[r].tokens) - Len(Prompt[r]) = 0
    BY <1>1
  <1>4. Synced(r, 0) = [engineReq EXCEPT ![r] =
            [tokens |-> engineReq[r].tokens \o SubSeq(Output[r], 0 + 1, 0),
             computed |-> Len(Prompt[r]) + 0]]
    BY <1>3 DEF Synced
  <1> QED
    BY <1>1, <1>2, <1>4

-----------------------------------------------------------------------------
(* The inductive invariant                                                 *)

\* Slots that the running decode step has counted ahead of the text.
Ahead(r) == IF at = "decode_sync" /\ r = cur THEN 1 + drafts ELSE 0

TypeInv ==
    /\ status \in [Req -> {"prefill", "decoding", "finished", "freed"}]
    /\ outLen \in [Req -> Nat] /\ drafts \in Nat
    /\ numComputed = [r \in Req |-> numComputed[r]]
    /\ engineReq = [r \in Req |-> engineReq[r]]

\* Where a handler stands says what stage its request is in.
ControlInv ==
    /\ at \in {"idle", "prefill_allocate", "prefill_sync", "raised_oom", "decode_sync"}
    /\ at = "idle" => cur = NoReq
    /\ at # "idle" => cur \in Req
    /\ at \in {"prefill_allocate", "prefill_sync", "raised_oom"} => status[cur] = "prefill"
    /\ at = "prefill_sync" => numComputed[cur] = Len(Prompt[cur])
    /\ at = "decode_sync" => status[cur] = "decoding" /\ drafts = Drafts(cur)

\* A request is finished in the step that completes its output.
OutputInv ==
    \A r \in Req :
        /\ outLen[r] <= Len(Output[r])
        /\ status[r] = "prefill" => outLen[r] = 0
        /\ status[r] = "decoding" => outLen[r] < Len(Output[r]) \/ Len(Output[r]) = 0

\* The vLLM request: none before the prefill, then that of the text.
EngineInv ==
    \A r \in Req :
        /\ status[r] = "prefill" =>
             engineReq[r] = IF r = cur THEN [tokens |-> Prompt[r], computed |-> 0]
                                       ELSE NoEngineReq
        /\ r \in Served =>
             engineReq[r] = [tokens |-> TextOf(r), computed |-> Len(TextOf(r))]

\* The scheduler counts the text and what the running step is ahead of it.
CountInv ==
    \A r \in Served : Len(Output[r]) # 0 =>
        numComputed[r] = Len(Prompt[r]) + outLen[r] + Ahead(r)

IndInv == TypeInv /\ ControlInv /\ OutputInv /\ EngineInv /\ CountInv

\* What the workload gives the steps.
LEMMA Lengths ==
    ASSUME NEW r \in Req
    PROVE  /\ Len(Prompt[r]) \in Nat /\ Len(Output[r]) \in Nat
           /\ NumSpec \in Nat /\ NoReq \notin Req
           /\ Output[r] = <<>> <=> Len(Output[r]) = 0
    BY WorkloadAssumption, SizeAssumption DEF WorkloadAssumption, SizeAssumption

\* A step of drafts stops at the end of the ground truth.
LEMMA DraftsBound ==
    ASSUME NEW r \in Req, outLen[r] \in Nat
    PROVE  /\ Drafts(r) \in Nat /\ Drafts(r) <= NumSpec
           /\ outLen[r] < Len(Output[r]) => outLen[r] + 1 + Drafts(r) <= Len(Output[r])
           /\ Len(Output[r]) = 0 => Drafts(r) = 0
    BY Lengths DEF Drafts, AtMost, Monus

\* The inductive invariant holds before any request is served.
LEMMA InitInv ==
    ASSUME Init PROVE IndInv
  <1>1. TypeInv /\ ControlInv /\ CountInv
    BY Lengths DEF Init, TypeInv, ControlInv, CountInv, Served
  <1>2. OutputInv
    BY Lengths DEF Init, OutputInv
  <1>3. EngineInv
    BY WorkloadAssumption DEF Init, EngineInv, Served, WorkloadAssumption
  <1> QED
    BY <1>1, <1>2, <1>3 DEF IndInv

\* get_computed_blocks registers the request, and matches for it alone.
LEMMA PrefillMatchInv ==
    ASSUME IndInv, NEW r \in Req, PrefillMatch(r)
    PROVE  IndInv'
  <1>1. /\ at = "idle" /\ status[r] = "prefill" /\ at' = "prefill_allocate" /\ cur' = r
        /\ cur = NoReq /\ UNCHANGED <<status, outLen, drafts>>
        /\ TypeInv /\ ControlInv /\ OutputInv /\ EngineInv /\ CountInv
    BY DEF PrefillMatch, IndInv, ControlInv
  <1>2. engineReq[r] = NoEngineReq
    BY <1>1, Lengths DEF EngineInv
  <1>3. engineReq' = [engineReq EXCEPT ![r] = [tokens |-> Prompt[r], computed |-> 0]]
    BY <1>2 DEF PrefillMatch, Registered
  <1>4. PICK k : numComputed' = [numComputed EXCEPT ![r] = k]
    BY DEF PrefillMatch
  <1>5. TypeInv'
    BY <1>1, <1>3, <1>4 DEF TypeInv
  <1>6. ControlInv' /\ OutputInv'
    BY <1>1 DEF ControlInv, OutputInv
  <1>7. EngineInv'
    BY <1>1, <1>3, Lengths DEF EngineInv, TypeInv, Served, TextOf
  <1>8. CountInv'
    BY <1>1, <1>4 DEF CountInv, TypeInv, Served, Ahead
  <1> QED
    BY <1>5, <1>6, <1>7, <1>8 DEF IndInv

\* allocate_slots of a prefill counts the whole prompt or ends the run.
LEMMA PrefillAllocateInv ==
    ASSUME IndInv, PrefillAllocate
    PROVE  IndInv'
  <1>1. /\ at = "prefill_allocate" /\ cur \in Req /\ status[cur] = "prefill"
        /\ UNCHANGED <<engineReq, status, outLen, cur, drafts>>
        /\ TypeInv /\ ControlInv /\ OutputInv /\ EngineInv /\ CountInv
    BY DEF PrefillAllocate, IndInv, ControlInv
  <1>2. \/ /\ numComputed' = [numComputed EXCEPT ![cur] = Len(Prompt[cur])]
           /\ at' = "prefill_sync"
        \/ numComputed' = numComputed /\ at' = "raised_oom"
    BY DEF PrefillAllocate
  <1>3. TypeInv' /\ ControlInv'
    BY <1>1, <1>2 DEF TypeInv, ControlInv
  <1>4. OutputInv' /\ EngineInv'
    BY <1>1 DEF OutputInv, EngineInv, Served, TextOf
  <1>5. CountInv'
    BY <1>1, <1>2 DEF CountInv, TypeInv, Served, Ahead
  <1> QED
    BY <1>3, <1>4, <1>5 DEF IndInv

\* The first sync_state: the prompt, nothing appended.
LEMMA PrefillSyncInv ==
    ASSUME IndInv, PrefillSync
    PROVE  IndInv'
  <1>1. /\ at = "prefill_sync" /\ cur \in Req /\ status[cur] = "prefill"
        /\ numComputed[cur] = Len(Prompt[cur]) /\ outLen[cur] = 0
        /\ status' = [status EXCEPT ![cur] = "decoding"]
        /\ at' = "idle" /\ cur' = NoReq /\ UNCHANGED <<numComputed, outLen, drafts>>
        /\ TypeInv /\ ControlInv /\ OutputInv /\ EngineInv /\ CountInv
    BY DEF PrefillSync, IndInv, ControlInv, OutputInv
  <1>2. engineReq' = [engineReq EXCEPT ![cur] =
            [tokens |-> TextAt(cur, 0), computed |-> Len(TextAt(cur, 0))]]
    <2>1. engineReq[cur] = [tokens |-> Prompt[cur], computed |-> 0]
      BY <1>1 DEF EngineInv
    <2>2. TextAt(cur, 0) = Prompt[cur]
      BY <1>1, TextAtStart
    <2>3. Synced(cur, 0) = [engineReq EXCEPT ![cur] =
              [tokens |-> Prompt[cur], computed |-> Len(Prompt[cur])]]
      BY <1>1, <2>1, SyncNothing
    <2> QED
      BY <2>2, <2>3 DEF PrefillSync
  <1>3. TypeInv' /\ ControlInv'
    BY <1>1, <1>2 DEF TypeInv, ControlInv
  <1>4. OutputInv'
    BY <1>1, Lengths DEF OutputInv, TypeInv
  <1>5. EngineInv'
    BY <1>1, <1>2, Lengths DEF EngineInv, TypeInv, Served, TextOf, TextAt
  <1>6. CountInv'
    BY <1>1, Lengths DEF CountInv, TypeInv, Served, Ahead
  <1> QED
    BY <1>3, <1>4, <1>5, <1>6 DEF IndInv

\* allocate_slots of a decode step is ahead of the text, or refused.
LEMMA DecodeAllocateInv ==
    ASSUME IndInv, NEW r \in Req, DecodeAllocate(r)
    PROVE  IndInv'
  <1>1. /\ at = "idle" /\ status[r] = "decoding" /\ cur = NoReq
        /\ UNCHANGED <<engineReq, status, outLen>>
        /\ TypeInv /\ ControlInv /\ OutputInv /\ EngineInv /\ CountInv
    BY DEF DecodeAllocate, IndInv, ControlInv
  <1>2. CASE UNCHANGED <<numComputed, drafts, at, cur>>
    BY <1>1, <1>2 DEF IndInv, TypeInv, ControlInv, OutputInv, EngineInv, CountInv,
                      Served, Ahead, TextOf, Drafts
  <1>3. CASE /\ numComputed' = [numComputed EXCEPT ![r] = @ + 1 + Drafts(r)]
             /\ drafts' = Drafts(r) /\ at' = "decode_sync" /\ cur' = r
    <2>1. Drafts(r) \in Nat
      BY <1>1, DraftsBound DEF TypeInv
    <2>2. TypeInv'
      BY <1>1, <1>3, <2>1 DEF TypeInv
    <2>3. ControlInv' /\ OutputInv'
      BY <1>1, <1>3 DEF ControlInv, OutputInv, Drafts
    <2>4. EngineInv'
      BY <1>1, <1>3, Lengths DEF EngineInv, Served, TextOf
    <2>5. CountInv'
      BY <1>1, <1>3, <2>1, Lengths DEF CountInv, TypeInv, Served, Ahead
    <2> QED
      BY <2>2, <2>3, <2>4, <2>5 DEF IndInv
  <1> QED
    BY <1>2, <1>3 DEF DecodeAllocate

\* Rollback and sync_state: the accepted tokens are text, the others are not
\* counted any more.
LEMMA DecodeSyncEffect ==
    ASSUME IndInv, NEW a \in 0..drafts, at = "decode_sync"
    PROVE  LET n == outLen[cur] + Bonus(cur) + a
           IN /\ n \in outLen[cur]..Len(Output[cur]) /\ n \in Nat
              /\ Len(Output[cur]) # 0 => n = outLen[cur] + 1 + a
              /\ Len(Output[cur]) = 0 => n = outLen[cur]
              /\ Len(Output[cur]) # 0 =>
                    Monus(numComputed[cur], drafts - a) = Len(Prompt[cur]) + n
              /\ Synced(cur, n) = [engineReq EXCEPT ![cur] =
                    [tokens |-> TextAt(cur, n), computed |-> Len(TextAt(cur, n))]]
  <1> DEFINE n == outLen[cur] + Bonus(cur) + a
  <1>1. /\ cur \in Req /\ status[cur] = "decoding" /\ drafts = Drafts(cur)
        /\ outLen[cur] \in Nat /\ outLen[cur] <= Len(Output[cur])
        /\ outLen[cur] < Len(Output[cur]) \/ Len(Output[cur]) = 0
        /\ engineReq = [q \in Req |-> engineReq[q]]
    BY DEF IndInv, TypeInv, ControlInv, OutputInv
  <1>2. /\ Len(Prompt[cur]) \in Nat /\ Len(Output[cur]) \in Nat
        /\ drafts \in Nat /\ a \in Nat /\ a <= drafts
    BY <1>1, Lengths, DraftsBound
  <1>3. /\ n \in outLen[cur]..Len(Output[cur]) /\ n \in Nat
        /\ Len(Output[cur]) # 0 => n = outLen[cur] + 1 + a
        /\ Len(Output[cur]) = 0 => n = outLen[cur]
    <2>1. CASE outLen[cur] < Len(Output[cur])
      BY <1>1, <1>2, <2>1, DraftsBound DEF Bonus
    <2>2. CASE Len(Output[cur]) = 0
      BY <1>1, <1>2, <2>2, DraftsBound DEF Bonus
    <2> QED
      BY <1>1, <2>1, <2>2
  <1>4. Len(Output[cur]) # 0 => Monus(numComputed[cur], drafts - a) = Len(Prompt[cur]) + n
    <2>1. Len(Output[cur]) # 0 => numComputed[cur] = Len(Prompt[cur]) + outLen[cur] + 1 + drafts
      BY <1>1, <1>2 DEF IndInv, CountInv, Served, Ahead
    <2> HIDE DEF n
    <2> QED
      BY <1>1, <1>2, <1>3, <2>1 DEF Monus
  <1>5. Synced(cur, n) = [engineReq EXCEPT ![cur] =
            [tokens |-> TextAt(cur, n), computed |-> Len(TextAt(cur, n))]]
    <2>1. engineReq[cur] = [tokens |-> TextAt(cur, outLen[cur]),
                            computed |-> Len(TextAt(cur, outLen[cur]))]
      BY <1>1 DEF IndInv, EngineInv, Served, TextOf, TextAt
    <2>2. n \in 0..Len(Output[cur]) /\ outLen[cur] \in 0..n
      BY <1>1, <1>3
    <2> HIDE DEF n
    <2> QED
      BY <1>1, <2>1, <2>2, SyncAppends
  <1> QED
    BY <1>3, <1>4, <1>5

\* The sync of a decode step preserves the inductive invariant.
LEMMA DecodeSyncInv ==
    ASSUME IndInv, DecodeSync
    PROVE  IndInv'
  <1>1. PICK a \in 0..drafts :
          LET n == outLen[cur] + Bonus(cur) + a
          IN /\ numComputed' = [numComputed EXCEPT ![cur] = Monus(@, drafts - a)]
             /\ outLen' = [outLen EXCEPT ![cur] = n]
             /\ engineReq' = Synced(cur, n)
             /\ status' = [status EXCEPT ![cur] =
                              IF n >= Len(Output[cur]) THEN "finished" ELSE @]
    BY DEF DecodeSync
  <1> DEFINE n == outLen[cur] + Bonus(cur) + a
  <1>2. /\ n \in outLen[cur]..Len(Output[cur]) /\ n \in Nat
        /\ Len(Output[cur]) # 0 => Monus(numComputed[cur], drafts - a) = Len(Prompt[cur]) + n
        /\ Synced(cur, n) = [engineReq EXCEPT ![cur] =
              [tokens |-> TextAt(cur, n), computed |-> Len(TextAt(cur, n))]]
    BY DecodeSyncEffect DEF DecodeSync
  <1>3. /\ cur \in Req /\ status[cur] = "decoding" /\ at' = "idle" /\ cur' = NoReq
        /\ drafts' = 0 /\ TypeInv /\ ControlInv /\ OutputInv /\ EngineInv /\ CountInv
    BY DEF DecodeSync, IndInv, ControlInv
  <1>4. /\ numComputed' = [numComputed EXCEPT ![cur] = Monus(@, drafts - a)]
        /\ outLen' = [outLen EXCEPT ![cur] = n]
        /\ engineReq' = [engineReq EXCEPT ![cur] =
              [tokens |-> TextAt(cur, n), computed |-> Len(TextAt(cur, n))]]
        /\ status' = [status EXCEPT ![cur] =
                         IF n >= Len(Output[cur]) THEN "finished" ELSE @]
    BY <1>1, <1>2
  <1> HIDE DEF n
  <1>5. TypeInv' /\ ControlInv'
    BY <1>2, <1>3, <1>4 DEF TypeInv, ControlInv
  <1>6. OutputInv'
    BY <1>2, <1>3, <1>4, Lengths DEF OutputInv, TypeInv
  <1>7. EngineInv'
    BY <1>3, <1>4, Lengths DEF EngineInv, TypeInv, Served, TextOf, TextAt
  <1>8. CountInv'
    BY <1>2, <1>3, <1>4, Lengths DEF CountInv, TypeInv, Served, Ahead
  <1> QED
    BY <1>5, <1>6, <1>7, <1>8 DEF IndInv

\* Freeing a finished request preserves it.
LEMMA CleanupInv ==
    ASSUME IndInv, NEW r \in Req, Cleanup(r)
    PROVE  IndInv'
  <1>1. /\ at = "idle" /\ status[r] = "finished"
        /\ status' = [status EXCEPT ![r] = "freed"]
        /\ engineReq' = [engineReq EXCEPT ![r] = NoEngineReq]
        /\ UNCHANGED <<numComputed, outLen, at, cur, drafts>>
        /\ TypeInv /\ ControlInv /\ OutputInv /\ EngineInv /\ CountInv
    BY DEF Cleanup, Free, IndInv
  <1>2. TypeInv' /\ ControlInv' /\ OutputInv'
    BY <1>1 DEF TypeInv, ControlInv, OutputInv
  <1>3. EngineInv'
    BY <1>1 DEF EngineInv, TypeInv, Served, TextOf
  <1>4. CountInv'
    BY <1>1 DEF CountInv, TypeInv, Served, Ahead
  <1> QED
    BY <1>2, <1>3, <1>4 DEF IndInv

\* Every step of a handler preserves it.
LEMMA StepInv ==
    ASSUME IndInv, [Next]_vars
    PROVE  IndInv'
  <1>1. CASE UNCHANGED vars
    BY <1>1 DEF vars, managerVars, IndInv, TypeInv, ControlInv, OutputInv, EngineInv,
                CountInv, Served, Ahead, TextOf, Drafts
  <1> QED
    BY <1>1, PrefillMatchInv, PrefillAllocateInv, PrefillSyncInv, DecodeAllocateInv,
       DecodeSyncInv, CleanupInv DEF Next

\* The inductive invariant holds in every reachable state, for every workload,
\* block size, pool and number of drafts.
THEOREM Inductive == Spec => []IndInv
  <1>1. Init => IndInv
    BY InitInv
  <1>2. IndInv /\ [Next]_vars => IndInv'
    BY StepInv
  <1> QED
    BY <1>1, <1>2, PTL DEF Spec

\* sync_to_vllm keeps the vLLM request equal to the simulator's: each accepted
\* token is appended once, no draft ever, and both count the same tokens.
THEOREM EngineFollows == Spec => []EngineMirrorsRequest
  <1>1. IndInv => EngineMirrorsRequest
    <2> SUFFICES ASSUME IndInv, at = "idle", NEW r \in Served
                 PROVE  /\ engineReq[r].tokens = TextOf(r)
                        /\ engineReq[r].computed = Len(TextOf(r))
                        /\ Output[r] # <<>> => engineReq[r].computed = numComputed[r]
      BY DEF EngineMirrorsRequest
    <2>1. engineReq[r] = [tokens |-> TextOf(r), computed |-> Len(TextOf(r))] /\ r \in Req
      BY DEF IndInv, EngineInv, Served
    <2>2. Len(TextOf(r)) = Len(Prompt[r]) + outLen[r]
      <3>1. outLen[r] \in 0..Len(Output[r])
        BY <2>1, Lengths DEF IndInv, TypeInv, OutputInv
      <3> QED
        BY <2>1, <3>1, TextType DEF TextOf, TextAt
    <2>3. Output[r] # <<>> => numComputed[r] = Len(Prompt[r]) + outLen[r]
      <3>1. Ahead(r) = 0 /\ outLen[r] \in Nat
        BY <2>1 DEF Ahead, IndInv, TypeInv
      <3> QED
        BY <2>1, <3>1, Lengths DEF IndInv, CountInv
    <2> QED
      BY <2>1, <2>2, <2>3
  <1> QED
    BY <1>1, Inductive, PTL

-----------------------------------------------------------------------------
(* Refinement                                                              *)

\* What the vLLM request counts is the length of the text.
HeldIsText ==
    \A r \in Req : HeldOutside(r) =
        IF r \in Served THEN Len(Prompt[r]) + outLen[r] ELSE 0

\* It follows from the inductive invariant.
LEMMA HeldIsTextHolds == IndInv => HeldIsText
  <1> SUFFICES ASSUME IndInv, NEW r \in Req
               PROVE  HeldOutside(r) =
                        IF r \in Served THEN Len(Prompt[r]) + outLen[r] ELSE 0
    BY DEF HeldIsText
  <1>1. outLen[r] \in 0..Len(Output[r])
    BY Lengths DEF IndInv, TypeInv, OutputInv
  <1>2. Len(TextOf(r)) = Len(Prompt[r]) + outLen[r]
    BY <1>1, TextType DEF TextOf, TextAt
  <1>3. r \in Served =>
            engineReq[r] = [tokens |-> TextOf(r), computed |-> Len(TextOf(r))]
    BY DEF IndInv, EngineInv
  <1> QED
    BY <1>2, <1>3 DEF HeldOutside

\* The same after a step.
LEMMA HeldIsTextNext == IndInv' => HeldIsText'
    BY HeldIsTextHolds, PTL

\* The count of one request changes, as the contract sees it.
LEMMA HeldUpdate ==
    ASSUME NEW c \in Req, NEW v,
           \A q \in Req : HeldOutside(q)' = IF q = c THEN v ELSE HeldOutside(q)
    PROVE  [r \in Req |-> HeldOutside(r)]'
               = [[r \in Req |-> HeldOutside(r)] EXCEPT ![c] = v]
    OBVIOUS

\* The first sync_state shows the whole prompt as held.
LEMMA PrefillSyncRefines ==
    ASSUME IndInv, IndInv', PrefillSync
    PROVE  Service!Next
  <1>1. /\ cur \in Req /\ status[cur] = "prefill" /\ outLen[cur] = 0
        /\ status' = [status EXCEPT ![cur] = "decoding"] /\ outLen' = outLen
        /\ status \in [Req -> {"prefill", "decoding", "finished", "freed"}]
    BY DEF PrefillSync, IndInv, TypeInv, ControlInv, OutputInv
  <1>2. HeldIsText /\ HeldIsText'
    BY HeldIsTextHolds, HeldIsTextNext
  <1>3. \A q \in Req : HeldOutside(q)' = IF q = cur THEN Len(Prompt[cur])
                                                    ELSE HeldOutside(q)
    BY <1>1, <1>2, Lengths DEF HeldIsText, Served
  <1>4. Service!Prefill(cur)
    BY <1>1, <1>3, HeldUpdate DEF Service!Prefill
  <1> QED
    BY <1>1, <1>4 DEF Service!Next

\* The sync of a decode step shows the accepted tokens as held and produced.
LEMMA DecodeSyncRefines ==
    ASSUME IndInv, IndInv', DecodeSync
    PROVE  Service!Next
  <1>1. PICK a \in 0..drafts :
          LET n == outLen[cur] + Bonus(cur) + a
          IN /\ outLen' = [outLen EXCEPT ![cur] = n]
             /\ status' = [status EXCEPT ![cur] =
                              IF n >= Len(Output[cur]) THEN "finished" ELSE @]
    BY DEF DecodeSync
  <1> DEFINE n == outLen[cur] + Bonus(cur) + a
  <1>2. /\ n \in outLen[cur]..Len(Output[cur]) /\ n \in Nat
        /\ Len(Output[cur]) # 0 => n = outLen[cur] + 1 + a
        /\ Len(Output[cur]) = 0 => n = outLen[cur]
    BY DecodeSyncEffect DEF DecodeSync
  <1>3. /\ cur \in Req /\ status[cur] = "decoding" /\ drafts = Drafts(cur)
        /\ status \in [Req -> {"prefill", "decoding", "finished", "freed"}]
        /\ outLen \in [Req -> Nat]
    BY DEF DecodeSync, IndInv, TypeInv, ControlInv
  <1>4. /\ a \in Nat /\ a <= NumSpec /\ NumSpec \in Nat
        /\ Len(Output[cur]) \in Nat /\ Len(Prompt[cur]) \in Nat
    BY <1>3, Lengths, DraftsBound
  <1>5. /\ outLen' = [outLen EXCEPT ![cur] = n]
        /\ status' = [status EXCEPT ![cur] =
                         IF n >= Len(Output[cur]) THEN "finished" ELSE @]
    BY <1>1
  <1> HIDE DEF n
  <1>6. \A q \in Req : HeldOutside(q)' =
            IF q = cur THEN Len(Prompt[cur]) + n ELSE HeldOutside(q)
    <2>1. HeldIsText /\ HeldIsText'
      BY HeldIsTextHolds, HeldIsTextNext
    <2> QED
      BY <1>3, <1>5, <2>1 DEF HeldIsText, Served
  <1>7. [r \in Req |-> HeldOutside(r)]'
          = [[r \in Req |-> HeldOutside(r)] EXCEPT ![cur] = Len(Prompt[cur]) + n]
    BY <1>3, <1>6, HeldUpdate
  <1>8. HeldOutside(cur) = Len(Prompt[cur]) + outLen[cur]
    BY <1>3, HeldIsTextHolds DEF HeldIsText, Served
  <1>9. CASE Len(Output[cur]) = 0
    <2>1. n = outLen[cur] /\ n >= Len(Output[cur])
      BY <1>2, <1>9
    <2>2. outLen' = outLen /\ status' = [status EXCEPT ![cur] = "finished"]
      BY <1>3, <1>5, <2>1
    <2>3. [r \in Req |-> HeldOutside(r)]'
            = [[r \in Req |-> HeldOutside(r)] EXCEPT ![cur] = @ + 0]
      <3>1. Len(Prompt[cur]) + n = HeldOutside(cur) + 0
        BY <1>3, <1>4, <1>8, <2>1
      <3> QED
        BY <1>3, <1>7, <3>1
    <2>4. Service!DecodeNothing(cur)
      BY <1>3, <1>9, <2>2, <2>3 DEF Service!DecodeNothing
    <2> QED
      BY <1>3, <2>4 DEF Service!Next
  <1>10. CASE Len(Output[cur]) # 0
    <2>1. n = outLen[cur] + (1 + a) /\ n <= Len(Output[cur])
      BY <1>2, <1>3, <1>4, <1>10
    <2>2. outLen' = [outLen EXCEPT ![cur] = @ + (1 + a)]
      BY <1>5, <2>1
    <2>3. status' = [status EXCEPT ![cur] =
              IF outLen[cur] + (1 + a) = Len(Output[cur]) THEN "finished" ELSE @]
      <3>1. n >= Len(Output[cur]) <=> outLen[cur] + (1 + a) = Len(Output[cur])
        BY <1>2, <1>4, <2>1
      <3> QED
        BY <1>5, <3>1
    <2>4. [r \in Req |-> HeldOutside(r)]'
            = [[r \in Req |-> HeldOutside(r)] EXCEPT ![cur] = @ + (1 + a)]
      <3>1. Len(Prompt[cur]) + n = HeldOutside(cur) + (1 + a)
        BY <1>3, <1>4, <1>8, <2>1
      <3> QED
        BY <1>3, <1>7, <3>1
    <2>5. /\ 1 + a \in 1..(1 + NumSpec)
          /\ 1 + a <= Len(Output[cur]) - outLen[cur]
      BY <1>3, <1>4, <2>1
    <2>6. Service!Decode(cur, 1 + a)
      BY <1>3, <2>2, <2>3, <2>4, <2>5 DEF Service!Decode
    <2> QED
      BY <1>3, <2>5, <2>6 DEF Service!Next
  <1> QED
    BY <1>9, <1>10

\* Dropping the vLLM request shows its tokens as given back.
LEMMA CleanupRefines ==
    ASSUME IndInv, IndInv', NEW r \in Req, Cleanup(r)
    PROVE  Service!Next
  <1>1. /\ status[r] = "finished" /\ status' = [status EXCEPT ![r] = "freed"]
        /\ outLen' = outLen
        /\ status \in [Req -> {"prefill", "decoding", "finished", "freed"}]
    BY DEF Cleanup, IndInv, TypeInv
  <1>2. \A q \in Req : HeldOutside(q)' = IF q = r THEN 0 ELSE HeldOutside(q)
    <2>1. HeldIsText /\ HeldIsText'
      BY HeldIsTextHolds, HeldIsTextNext
    <2> QED
      BY <1>1, <2>1 DEF HeldIsText, Served
  <1>3. Service!Release(r)
    BY <1>1, <1>2, HeldUpdate DEF Service!Release
  <1> QED
    BY <1>3 DEF Service!Next

\* Everything else is invisible: blocks are found, allocated and refused.
LEMMA HiddenStep ==
    ASSUME IndInv, IndInv', [Next]_vars, ~PrefillSync, ~DecodeSync,
           \A r \in Req : ~Cleanup(r)
    PROVE  UNCHANGED <<status, outLen, [r \in Req |-> HeldOutside(r)]>>
  <1>1. UNCHANGED <<status, outLen>>
    BY DEF Next, vars, PrefillMatch, PrefillAllocate, DecodeAllocate
  <1>2. HeldIsText /\ HeldIsText'
    BY HeldIsTextHolds, HeldIsTextNext
  <1>3. \A r \in Req : HeldOutside(r)' = HeldOutside(r)
    BY <1>1, <1>2 DEF HeldIsText, Served
  <1> QED
    BY <1>1, <1>3

\* vLLMBackend, driven by the scheduler's handlers, implements the contract of
\* KVBackend, although free_rejected_slots does nothing and whatever vLLM's block
\* pool matches, evicts or refuses.
THEOREM BackendRefinesService == Spec => ImplementsService
  <1>1. Init => Service!Init
    BY DEF Init, Service!Init, HeldOutside, Served
  <1>2. IndInv /\ IndInv' /\ [Next]_vars => [Service!Next]_(Service!serviceVars)
    <2> SUFFICES ASSUME IndInv, IndInv', [Next]_vars
                 PROVE  [Service!Next]_(Service!serviceVars)
      OBVIOUS
    <2>1. CASE PrefillSync
      BY <2>1, PrefillSyncRefines
    <2>2. CASE DecodeSync
      BY <2>2, DecodeSyncRefines
    <2>3. ASSUME NEW r \in Req, Cleanup(r)
          PROVE  Service!Next
      BY <2>3, CleanupRefines
    <2>4. CASE ~PrefillSync /\ ~DecodeSync /\ \A r \in Req : ~Cleanup(r)
      BY <2>4, HiddenStep DEF Service!serviceVars
    <2> QED
      BY <2>1, <2>2, <2>3, <2>4
  <1> QED
    BY <1>1, <1>2, Inductive, PTL DEF Spec, ImplementsService, Service!Spec

-----------------------------------------------------------------------------
(* Arithmetic of blocks                                                    *)

\* A division rounds down.
LEMMA Quotient ==
    ASSUME NEW n \in Nat, NEW p \in Nat \ {0}
    PROVE  /\ n \div p \in Nat
           /\ (n \div p) * p <= n
           /\ n < (n \div p) * p + p
    BY Z3

\* Fewer blocks, fewer slots.
LEMMA SlotsMonotone ==
    ASSUME NEW j \in Nat, NEW k \in Nat, NEW p \in Nat \ {0}, j <= k
    PROVE  j * p \in Nat /\ j * p <= k * p
    BY Z3

\* Blocks are told apart by where they end.
LEMMA SlotsInjective ==
    ASSUME NEW j \in Nat, NEW k \in Nat, j * BlockSize = k * BlockSize
    PROVE  j = k
  <1> BlockSize \in Nat \ {0}
    BY SizeAssumption DEF SizeAssumption
  <1>1. ASSUME NEW m \in Nat, NEW n \in Nat, m < n
        PROVE  m * BlockSize # n * BlockSize
    <2>1. m + 1 \in Nat /\ m + 1 <= n
      BY <1>1
    <2>2. (m + 1) * BlockSize <= n * BlockSize /\ (m + 1) * BlockSize \in Nat
      BY <2>1, SlotsMonotone
    <2>3. (m + 1) * BlockSize = m * BlockSize + BlockSize /\ m * BlockSize \in Nat
      <3>1. \A p \in Nat : (m + 1) * p = m * p + p /\ m * p \in Nat
        BY Z3
      <3> QED
        BY <3>1
    <2> QED
      BY <2>2, <2>3
  <1> QED
    BY <1>1

\* More tokens, no fewer whole blocks.
LEMMA QuotientMonotone ==
    ASSUME NEW a \in Nat, NEW b \in Nat, NEW p \in Nat \ {0}, a <= b
    PROVE  a \div p <= b \div p
  <1> DEFINE j == a \div p
             k == b \div p
  <1>1. /\ j \in Nat /\ j * p <= a
        /\ k \in Nat /\ b < k * p + p
    BY Quotient
  <1> HIDE DEF j, k
  <1>2. SUFFICES ASSUME k + 1 <= j PROVE FALSE
    BY <1>1 DEF j, k
  <1>3. (k + 1) * p <= j * p /\ (k + 1) * p = k * p + p /\ k * p \in Nat /\ j * p \in Nat
    <2>1. (k + 1) * p <= j * p /\ j * p \in Nat /\ k * p \in Nat
      BY <1>1, <1>2, SlotsMonotone
    <2>2. (k + 1) * p = k * p + p
      BY <1>1, Z3
    <2> QED
      BY <2>1, <2>2
  <1> QED
    BY <1>1, <1>3

\* BlocksFor (cdiv) gives enough blocks, and no fewer for more tokens.
LEMMA BlocksForBounds ==
    ASSUME NEW n \in Nat
    PROVE  /\ BlocksFor(n) \in Nat /\ n <= BlockSize * BlocksFor(n)
           /\ n \div BlockSize \in Nat /\ (n \div BlockSize) * BlockSize <= n
           /\ \A m \in Nat : m <= n => BlocksFor(m) <= BlocksFor(n)
           /\ n > 0 => (n - 1) \div BlockSize <= BlocksFor(n)
  <1> BlockSize \in Nat \ {0}
    BY SizeAssumption DEF SizeAssumption
  <1> DEFINE q == BlocksFor(n)
  <1>1. q \in Nat /\ n + BlockSize - 1 < q * BlockSize + BlockSize
    BY Quotient DEF BlocksFor
  <1>2. \A m \in Nat : m <= n => BlocksFor(m) <= BlocksFor(n)
    BY QuotientMonotone DEF BlocksFor
  <1>3. n > 0 => (n - 1) \div BlockSize <= BlocksFor(n)
    BY QuotientMonotone DEF BlocksFor
  <1> HIDE DEF q
  <1>4. q * BlockSize = BlockSize * q /\ q * BlockSize \in Nat
    BY <1>1, Z3
  <1>5. n <= BlockSize * q
    BY <1>1, <1>4
  <1> QED
    BY <1>1, <1>2, <1>3, <1>5, Quotient DEF q

\* More tokens, no fewer blocks.
LEMMA BlocksForMonotone ==
    ASSUME NEW m \in Nat, NEW n \in Nat, m <= n
    PROVE  BlocksFor(m) \in Nat /\ BlocksFor(n) \in Nat /\ BlocksFor(m) <= BlocksFor(n)
    BY BlocksForBounds

\* A longest match leaves a token to compute and consists of cached blocks.
LEMMA HitLengthBounds ==
    ASSUME NEW text \in Seq(Token)
    PROVE  /\ HitLength(text) \in Nat
           /\ HitLength(text) * BlockSize <= Len(text)
           /\ HitLength(text) <= BlocksFor(Len(text))
  <1> DEFINE cached(i) == \E b \in Block : hash[b] = Key(text, i)
             m == (Len(text) - 1) \div BlockSize
             s == {0} \cup {k \in 1..m : \A i \in 1..k : cached(i)}
  <1>1. HitLength(text) = Max(s)
    BY DEF HitLength
  <1>2. Len(text) \in Nat /\ BlockSize \in Nat \ {0}
    BY SizeAssumption DEF SizeAssumption
  <1>3. CASE Len(text) = 0
    <2>1. m = -1
      <3>1. \A z \in Nat \ {0} : (0 - 1) \div z = -1
        BY Z3
      <3> QED
        BY <1>2, <1>3, <3>1
    <2>2. s = {0}
      BY <2>1
    <2> HIDE DEF s
    <2>3. Max(s) = 0
      <3>1. {0} \in SUBSET Nat /\ {0} # {} /\ \A x \in {0} : x <= 0
        OBVIOUS
      <3>2. Max({0}) \in {0}
        BY <3>1, LargestIn
      <3> QED
        BY <2>2, <3>2
    <2>4. 0 * BlockSize = 0 /\ BlocksFor(Len(text)) \in Nat
      BY <1>2, BlocksForBounds
    <2> QED
      BY <1>1, <1>2, <2>3, <2>4
  <1>4. CASE Len(text) # 0
    <2>1. m \in Nat /\ m * BlockSize <= Len(text) - 1 /\ m <= BlocksFor(Len(text))
      <3>1. Len(text) - 1 \in Nat /\ Len(text) > 0
        BY <1>2, <1>4
      <3>2. m \in Nat /\ m * BlockSize <= Len(text) - 1
        BY <1>2, <3>1, Quotient
      <3>3. m <= BlocksFor(Len(text))
        BY <1>2, <3>1, BlocksForBounds
      <3> QED
        BY <3>2, <3>3
    <2>2. s \in SUBSET Nat /\ s # {} /\ \A x \in s : x <= m
      BY <2>1
    <2> HIDE DEF s
    <2>3. Max(s) \in s
      BY <2>1, <2>2, LargestIn
    <2>4. HitLength(text) \in Nat /\ HitLength(text) <= m
      BY <1>1, <2>2, <2>3
    <2> HIDE DEF m
    <2>5. HitLength(text) * BlockSize \in Nat /\ HitLength(text) * BlockSize <= m * BlockSize
      BY <1>2, <2>1, <2>4, SlotsMonotone
    <2>6. m * BlockSize \in Nat /\ BlocksFor(Len(text)) \in Nat
      BY <1>2, <2>1, SlotsMonotone, BlocksForBounds
    <2>7. HitLength(text) <= BlocksFor(Len(text))
      BY <2>1, <2>4, <2>6
    <2> QED
      BY <1>2, <2>1, <2>4, <2>5, <2>6, <2>7
  <1> QED
    BY <1>3, <1>4

-----------------------------------------------------------------------------
(* Blocks                                                                  *)

\* Blocks belong to served requests, each once in its table, and to the request
\* whose prefill has just got them.
TableInv ==
    /\ table \in [Req -> Seq(Block)]
    /\ \A r \in Req : IsInjective(table[r])
    /\ \A r \in Req : r \notin Served /\ ~(at = "prefill_sync" /\ r = cur) =>
         table[r] = <<>>

\* What _handle_prefill holds between its two calls is still cached.
MatchInv ==
    at = "prefill_allocate" =>
        /\ blocks \in Seq(Block) /\ Len(blocks) <= BlocksFor(Len(Prompt[cur]))
        /\ numComputed[cur] = Len(blocks) * BlockSize
        /\ numComputed[cur] <= Len(Prompt[cur])
        /\ \A i \in 1..Len(blocks) : hash[blocks[i]] = Key(Prompt[cur], i)

\* Tokens of the text, the slots that the running decode step needs ahead of it
\* and those that rejected drafts may have left.
Length(r) == Len(Prompt[r]) + outLen[r]
Started(r) == IF at = "decode_sync" /\ r = cur THEN 1 ELSE 0

\* Each table covers what is computed and at most the drafts of a step more.
LengthInv ==
    /\ at = "prefill_sync" => Len(table[cur]) = BlocksFor(Len(Prompt[cur]))
    /\ \A r \in Served : Len(Output[r]) # 0 =>
         /\ BlocksFor(Length(r) + Ahead(r)) <= Len(table[r])
         /\ Len(table[r]) <= BlocksFor(Length(r) + Started(r) + NumSpec)

\* Contents h of the blocks, with tables u and texts x: a block of a table caches
\* nothing or the text up to its end; what is cached is the text of some request;
\* a block of two tables caches something.
Caches(h, u, x) ==
    /\ \A r \in Req : \A i \in 1..Len(u[r]) : h[u[r][i]] # <<>> =>
         Len(h[u[r][i]]) = i * BlockSize /\ IsPrefix(h[u[r][i]], x[r])
    /\ \A b \in Block : h[b] # <<>> => \E r \in Req : IsPrefix(h[b], x[r])
    /\ \A r, q \in Req : r # q =>
         \A i \in 1..Len(u[r]), j \in 1..Len(u[q]) :
             u[r][i] = u[q][j] => h[u[r][i]] # <<>>

Texts == [r \in Req |-> TextOf(r)]
CacheInv == hash \in [Block -> Seq(Token)] /\ Caches(hash, table, Texts)

BlockInv == TableInv /\ MatchInv /\ LengthInv /\ CacheInv /\ RefusedOnlyForOthers

\* A prefix, position by position.
LEMMA PrefixPoints ==
    ASSUME NEW S, NEW s \in Seq(S), NEW t \in Seq(S)
    PROVE  IsPrefix(s, t) <=> Len(s) <= Len(t) /\ \A i \in 1..Len(s) : s[i] = t[i]
  <1>1. ASSUME Len(s) <= Len(t)
        PROVE  SubSeq(s, 1, Len(s)) = SubSeq(t, 1, Len(s)) <=>
                   \A i \in 1..Len(s) : s[i] = t[i]
    <2> DEFINE u == SubSeq(t, 1, Len(s))
    <2>1. u \in Seq(S) /\ Len(u) = Len(s) /\ \A i \in 1..Len(s) : u[i] = t[i]
      BY <1>1
    <2>2. SubSeq(s, 1, Len(s)) = s
      OBVIOUS
    <2> HIDE DEF u
    <2>3. s = u <=> \A i \in 1..Len(s) : s[i] = u[i]
      BY <2>1, SeqEqual
    <2> QED
      BY <2>1, <2>2, <2>3 DEF u
  <1> QED
    BY <1>1 DEF IsPrefix

\* A prefix of a prefix.
LEMMA PrefixTransitive ==
    ASSUME NEW S, NEW s \in Seq(S), NEW t \in Seq(S), NEW u \in Seq(S),
           IsPrefix(s, t), IsPrefix(t, u)
    PROVE  IsPrefix(s, u)
  <1>1. /\ Len(s) <= Len(t) /\ \A i \in 1..Len(s) : s[i] = t[i]
        /\ Len(t) <= Len(u) /\ \A i \in 1..Len(t) : t[i] = u[i]
    BY PrefixPoints
  <1>2. Len(s) \in Nat /\ Len(t) \in Nat /\ Len(u) \in Nat
    OBVIOUS
  <1>3. Len(s) <= Len(u) /\ \A i \in 1..Len(s) : s[i] = u[i]
    BY <1>1, <1>2
  <1> QED
    BY <1>3, PrefixPoints

\* The text up to the end of its i-th block.
LEMMA KeyOfBlock ==
    ASSUME NEW text \in Seq(Token), NEW i \in Nat \ {0}, i * BlockSize <= Len(text)
    PROVE  /\ Key(text, i) \in Seq(Token) /\ Len(Key(text, i)) = i * BlockSize
           /\ IsPrefix(Key(text, i), text) /\ Key(text, i) # <<>>
           /\ \A s \in Seq(Token) : Len(s) = i * BlockSize /\ IsPrefix(s, text)
                                        => s = Key(text, i)
  <1> BlockSize \in Nat \ {0}
    BY SizeAssumption DEF SizeAssumption
  <1> DEFINE e == i * BlockSize
  <1>1. e \in Nat /\ e > 0
    <2>1. 1 * BlockSize <= e /\ e \in Nat /\ 1 * BlockSize = BlockSize
      BY SlotsMonotone
    <2> QED
      BY <2>1
  <1>2. Key(text, i) = SubSeq(text, 1, e) /\ e <= Len(text)
    BY DEF Key
  <1> HIDE DEF e
  <1>3. /\ SubSeq(text, 1, e) \in Seq(Token) /\ Len(SubSeq(text, 1, e)) = e
        /\ \A j \in 1..e : SubSeq(text, 1, e)[j] = text[j]
    BY <1>1, <1>2
  <1>4. IsPrefix(SubSeq(text, 1, e), text)
    BY <1>2, <1>3, PrefixPoints
  <1>5. ASSUME NEW s \in Seq(Token), Len(s) = e, IsPrefix(s, text)
        PROVE  s = SubSeq(text, 1, e)
    <2>1. SubSeq(s, 1, Len(s)) = SubSeq(text, 1, e)
      BY <1>5 DEF IsPrefix
    <2>2. SubSeq(s, 1, Len(s)) = s
      OBVIOUS
    <2> QED
      BY <2>1, <2>2, Zenon
  <1>6. SubSeq(text, 1, e) # <<>>
    BY <1>1, <1>3
  <1> QED
    BY <1>2, <1>3, <1>4, <1>5, <1>6 DEF e

\* A text grows at its end.
LEMMA TextGrows ==
    ASSUME NEW r \in Req, NEW m \in 0..Len(Output[r]), NEW n \in 0..m
    PROVE  IsPrefix(TextAt(r, n), TextAt(r, m))
  <1>1. /\ Prompt[r] \in Seq(Token) /\ Output[r] \in Seq(Token)
        /\ m \in Nat /\ n \in Nat /\ n <= m /\ m <= Len(Output[r])
    BY WorkloadAssumption DEF WorkloadAssumption
  <1> DEFINE a == SubSeq(Output[r], 1, n)
             b == SubSeq(Output[r], 1, m)
  <1>2. /\ a \in Seq(Token) /\ Len(a) = n /\ b \in Seq(Token) /\ Len(b) = m
        /\ \A i \in 1..n : a[i] = b[i]
    BY <1>1
  <1>3. TextAt(r, n) = Prompt[r] \o a /\ TextAt(r, m) = Prompt[r] \o b
    BY DEF TextAt
  <1> HIDE DEF a, b
  <1>4. /\ TextAt(r, n) \in Seq(Token) /\ Len(TextAt(r, n)) = Len(Prompt[r]) + n
        /\ TextAt(r, m) \in Seq(Token) /\ Len(TextAt(r, m)) = Len(Prompt[r]) + m
        /\ Len(Prompt[r]) \in Nat
    <2>1. m \in 0..Len(Output[r]) /\ n \in 0..Len(Output[r])
      BY <1>1
    <2> QED
      BY <2>1, TextType
  <1>5. ASSUME NEW i \in 1..(Len(Prompt[r]) + n)
        PROVE  TextAt(r, n)[i] = TextAt(r, m)[i]
    <2>1. CASE i <= Len(Prompt[r])
      BY <1>1, <1>2, <1>3, <2>1
    <2>2. CASE i > Len(Prompt[r])
      <3>1. i - Len(Prompt[r]) \in 1..n /\ i - Len(Prompt[r]) \in 1..m
        BY <1>1, <1>4, <2>2
      <3>2. TextAt(r, n)[i] = a[i - Len(Prompt[r])] /\ TextAt(r, m)[i] = b[i - Len(Prompt[r])]
        BY <1>1, <1>2, <1>3, <2>2, <3>1
      <3> QED
        BY <1>2, <3>1, <3>2
    <2> QED
      BY <1>4, <2>1, <2>2
  <1>6. Len(TextAt(r, n)) <= Len(TextAt(r, m))
    BY <1>1, <1>4
  <1> QED
    BY <1>4, <1>5, <1>6, PrefixPoints

\* A concatenation, position by position.
LEMMA Concatenation ==
    ASSUME NEW S, NEW s \in Seq(S), NEW t \in Seq(S)
    PROVE  /\ s \o t \in Seq(S) /\ Len(s \o t) = Len(s) + Len(t)
           /\ \A i \in 1..Len(s) : (s \o t)[i] = s[i]
           /\ \A i \in 1..Len(s \o t) : i > Len(s) =>
                i - Len(s) \in 1..Len(t) /\ (s \o t)[i] = t[i - Len(s)]
  OBVIOUS

\* Different blocks appended to different ones.
LEMMA AppendedShape ==
    ASSUME NEW S, NEW base \in Seq(S), IsInjective(base), NEW n \in Nat,
           NEW D \in SUBSET S, NEW new \in Injection(1..n, D \ Range(base))
    PROVE  /\ base \o new \in Seq(S) /\ Len(base \o new) = Len(base) + n
           /\ \A i \in 1..Len(base) : (base \o new)[i] = base[i]
           /\ \A i \in 1..Len(base \o new) : i > Len(base) => (base \o new)[i] \in D
           /\ IsInjective(base \o new)
  <1>1. /\ new \in Seq(S) /\ Len(new) = n /\ IsInjective(new) /\ DOMAIN new = 1..n
        /\ \A i \in 1..n : new[i] \in D \ Range(base)
    <2>1. new \in [1..n -> D \ Range(base)] /\ IsInjective(new)
      BY DEF Injection
    <2> QED
      BY <2>1
  <1> DEFINE t == base \o new
  <1>2. /\ t \in Seq(S) /\ Len(t) = Len(base) + n
        /\ \A i \in 1..Len(base) : t[i] = base[i]
        /\ \A i \in 1..Len(t) : i > Len(base) =>
             i - Len(base) \in 1..n /\ t[i] = new[i - Len(base)]
    <2>1. base \in Seq(S) /\ new \in Seq(S) /\ Len(new) = n
      BY <1>1
    <2>2. /\ t \in Seq(S) /\ Len(t) = Len(base) + Len(new)
          /\ \A i \in 1..Len(base) : t[i] = base[i]
      BY <2>1, Concatenation
    <2>3. \A i \in 1..Len(t) : i > Len(base) =>
             i - Len(base) \in 1..Len(new) /\ t[i] = new[i - Len(base)]
      BY <2>1, Concatenation
    <2> HIDE DEF t
    <2> QED
      BY <2>1, <2>2, <2>3
  <1> HIDE DEF t
  <1>3. Len(base) \in Nat /\ Len(t) \in Nat
    BY <1>2
  <1>4. \A i \in 1..Len(t) : i > Len(base) => t[i] \in D \ Range(base)
    BY <1>1, <1>2
  <1>5. IsInjective(t)
    <2> SUFFICES ASSUME NEW i \in 1..Len(t), NEW j \in 1..Len(t), t[i] = t[j]
                 PROVE  i = j
      BY <1>2 DEF IsInjective
    <2>1. ASSUME NEW k \in 1..Len(t), k <= Len(base) PROVE t[k] \in Range(base)
      <3>1. k \in DOMAIN base /\ t[k] = base[k]
        BY <1>2, <1>3, <2>1
      <3> QED
        BY <3>1 DEF Range
    <2>2. CASE i <= Len(base) /\ j <= Len(base)
      <3>1. i \in DOMAIN base /\ j \in DOMAIN base /\ base[i] = base[j]
        BY <1>2, <1>3, <2>2
      <3> QED
        BY <3>1 DEF IsInjective
    <2>3. CASE i > Len(base) /\ j > Len(base)
      <3>1. /\ i - Len(base) \in DOMAIN new /\ j - Len(base) \in DOMAIN new
            /\ new[i - Len(base)] = new[j - Len(base)]
        BY <1>1, <1>2, <2>3
      <3>2. i - Len(base) = j - Len(base)
        BY <1>1, <3>1 DEF IsInjective
      <3> QED
        BY <1>3, <3>2
    <2> QED
      BY <1>3, <1>4, <2>1, <2>2, <2>3
  <1> QED
    BY <1>2, <1>4, <1>5 DEF t

\* allocate_slots appends the matched blocks and free ones, none of them twice.
LEMMA ExtendedShape ==
    ASSUME TableInv, NEW r \in Req, NEW hit \in Seq(Block), NEW n \in Nat,
           IsInjective(table[r] \o hit), NEW t \in Extended(r, hit, n)
    PROVE  LET base == table[r] \o hit
           IN /\ base \in Seq(Block) /\ Len(base) = Len(table[r]) + Len(hit)
              /\ t \in Seq(Block) /\ Len(t) = Len(base) + n /\ IsInjective(t)
              /\ \A i \in 1..Len(base) : t[i] = base[i]
              /\ \A i \in 1..Len(t) : i > Len(base) => t[i] \in FreeBlocks
  <1> DEFINE base == table[r] \o hit
  <1>1. PICK new \in Injection(1..n, FreeBlocks \ Range(hit)) : t = base \o new
    BY DEF Extended
  <1>2. table[r] \in Seq(Block)
    BY DEF TableInv
  <1>3. /\ base \in Seq(Block) /\ Len(base) = Len(table[r]) + Len(hit)
        /\ \A i \in 1..Len(base) :
             base[i] = IF i <= Len(table[r]) THEN table[r][i] ELSE hit[i - Len(table[r])]
    BY <1>2
  <1> HIDE DEF base
  <1>4. \A i \in 1..Len(base) : base[i] \in Held \cup Range(hit)
    <2> SUFFICES ASSUME NEW i \in 1..Len(base) PROVE base[i] \in Held \cup Range(hit)
      OBVIOUS
    <2>1. CASE i <= Len(table[r])
      <3>1. base[i] = table[r][i] /\ i \in DOMAIN table[r]
        BY <1>2, <1>3, <2>1
      <3> QED
        BY <3>1 DEF Held, Range
    <2>2. CASE i > Len(table[r])
      <3>1. base[i] = hit[i - Len(table[r])] /\ i - Len(table[r]) \in DOMAIN hit
        BY <1>2, <1>3, <2>2
      <3> QED
        BY <3>1 DEF Range
    <2> QED
      BY <1>2, <1>3, <2>1, <2>2
  <1>5. Range(hit) \subseteq Range(base)
    <2> SUFFICES ASSUME NEW i \in DOMAIN hit PROVE hit[i] \in Range(base)
      BY DEF Range
    <2>0. /\ i \in 1..Len(hit) /\ Len(table[r]) \in Nat /\ Len(hit) \in Nat
          /\ DOMAIN base = 1..Len(base)
      BY <1>2, <1>3
    <2>1. i + Len(table[r]) \in DOMAIN base /\ base[i + Len(table[r])] = hit[i]
      BY <1>3, <2>0
    <2> QED
      BY <2>1 DEF Range
  <1>6. FreeBlocks \ Range(hit) = FreeBlocks \ Range(base)
    <2>1. \A y \in Range(base) : y \in Held \cup Range(hit)
      BY <1>3, <1>4 DEF Range
    <2> QED
      BY <1>5, <2>1 DEF FreeBlocks
  <1>7. /\ new \in Injection(1..n, FreeBlocks \ Range(base)) /\ FreeBlocks \in SUBSET Block
        /\ IsInjective(base)
    BY <1>6 DEF FreeBlocks, base
  <1>8. /\ base \o new \in Seq(Block) /\ Len(base \o new) = Len(base) + n
        /\ \A i \in 1..Len(base) : (base \o new)[i] = base[i]
        /\ \A i \in 1..Len(base \o new) : i > Len(base) => (base \o new)[i] \in FreeBlocks
        /\ IsInjective(base \o new)
    BY <1>3, <1>7, AppendedShape
  <1> QED
    BY <1>1, <1>3, <1>8, Zenon DEF base

\* Blocks that r is about to hold cache its text at their place, and those that
\* others hold as well do cache something.
Fitting(h, u, x, r, base) ==
    /\ \A i \in 1..Len(base) : h[base[i]] # <<>> =>
         Len(h[base[i]]) = i * BlockSize /\ IsPrefix(h[base[i]], x[r])
    /\ \A q \in Req \ {r} : \A i \in 1..Len(base), j \in 1..Len(u[q]) :
         base[i] = u[q][j] => h[base[i]] # <<>>

\* Contents g and tables w after r got the table t, which starts with the blocks
\* base, and the first f blocks of its text were cached: what is new was cleared,
\* or cached as well.
Caching(h, u, x, r, base, t, f, g, w) ==
    /\ h \in [Block -> Seq(Token)] /\ g \in [Block -> Seq(Token)]
    /\ u \in [Req -> Seq(Block)] /\ w \in [Req -> Seq(Block)] /\ x \in [Req -> Seq(Token)]
    /\ base \in Seq(Block) /\ t \in Seq(Block) /\ f \in Nat
    /\ Caches(h, u, x) /\ Fitting(h, u, x, r, base)
    /\ f <= Len(t) /\ \A i \in 1..f : i * BlockSize <= Len(x[r])
    /\ \A i, j \in 1..Len(t) : t[i] = t[j] => i = j
    /\ Len(base) <= Len(t) /\ \A i \in 1..Len(base) : t[i] = base[i]
    /\ \A i \in 1..Len(t) : i > Len(base) =>
         \A q \in Req : \A j \in 1..Len(u[q]) : u[q][j] # t[i]
    /\ w = [u EXCEPT ![r] = t]
    /\ \A i \in 1..f : g[t[i]] = Key(x[r], i)
    /\ \A i \in 1..Len(t) : i > f /\ i > Len(base) => g[t[i]] = <<>>
    /\ \A b \in Block :
         (\A i \in 1..f : t[i] # b) /\ (\A i \in 1..Len(t) : i > Len(base) => t[i] # b)
             => g[b] = h[b]

\* Caching the full blocks of the text of r disturbs what no other block caches,
\* and what the tables of others show least of all.
LEMMA CacheStep ==
    ASSUME NEW h, NEW u, NEW x, NEW r \in Req, NEW base, NEW t, NEW f, NEW g, NEW w,
           Caching(h, u, x, r, base, t, f, g, w)
    PROVE  Caches(g, w, x)
  <1> USE DEF Caching
  <1>0. /\ Len(t) \in Nat /\ Len(base) \in Nat /\ w[r] = t
        /\ \A q \in Req \ {r} : w[q] = u[q]
        /\ x[r] \in Seq(Token)
    OBVIOUS
  <1>1. ASSUME NEW i \in 1..f
        PROVE  /\ g[t[i]] # <<>> /\ Len(g[t[i]]) = i * BlockSize /\ IsPrefix(g[t[i]], x[r])
               /\ \A s \in Seq(Token) : Len(s) = i * BlockSize /\ IsPrefix(s, x[r])
                                            => s = g[t[i]]
    <2>1. i \in Nat \ {0} /\ i * BlockSize <= Len(x[r]) /\ g[t[i]] = Key(x[r], i)
      OBVIOUS
    <2> DEFINE k == Key(x[r], i)
    <2>2. /\ k # <<>> /\ Len(k) = i * BlockSize /\ IsPrefix(k, x[r])
          /\ \A s \in Seq(Token) : Len(s) = i * BlockSize /\ IsPrefix(s, x[r]) => s = k
      BY <1>0, <2>1, KeyOfBlock
    <2>3. g[t[i]] = k
      BY <2>1
    <2> HIDE DEF k
    <2> QED
      BY <2>2, <2>3, Zenon
  <1>2. ASSUME NEW q \in Req \ {r}, NEW j \in 1..Len(u[q])
        PROVE  g[u[q][j]] = h[u[q][j]]
    <2> DEFINE b == u[q][j]
    <2>1. b \in Block /\ h[b] \in Seq(Token)
      OBVIOUS
    <2>2. \A i \in 1..Len(t) : i > Len(base) => t[i] # b
      BY Zenon
    <2>3. ASSUME NEW i \in 1..f, t[i] = b
          PROVE  g[b] = h[b]
      <3>0. i \in 1..Len(t) /\ ~(i > Len(base))
        <4>1. i \in 1..Len(t)
          BY <1>0
        <4> QED
          BY <2>2, <2>3, <4>1, Zenon
      <3>1. i \in 1..Len(base) /\ base[i] = b
        <4>1. i \in 1..Len(base)
          BY <1>0, <3>0
        <4> QED
          BY <2>3, <4>1, Zenon
      <3>2. h[base[i]] # <<>>
        BY <3>1 DEF Fitting
      <3>3. Len(h[base[i]]) = i * BlockSize /\ IsPrefix(h[base[i]], x[r])
        BY <3>1, <3>2 DEF Fitting
      <3>4. h[b] = g[t[i]]
        <4> HIDE DEF b
        <4>1. Len(h[b]) = i * BlockSize /\ IsPrefix(h[b], x[r])
          BY <3>1, <3>3, Zenon
        <4> QED
          BY <1>1, <2>1, <4>1, Zenon
      <3> HIDE DEF b
      <3> QED
        BY <2>3, <3>4, Zenon
    <2> HIDE DEF b
    <2>4. ASSUME \A i \in 1..f : t[i] # b
          PROVE  g[b] = h[b]
      BY <2>1, <2>2, <2>4, Zenon
    <2>5. g[b] = h[b]
      BY <2>3, <2>4, Zenon
    <2> QED
      BY <2>5 DEF b
  <1>3. ASSUME NEW i \in 1..Len(t), g[t[i]] # <<>>
        PROVE  Len(g[t[i]]) = i * BlockSize /\ IsPrefix(g[t[i]], x[r])
    <2>1. CASE i \in 1..f
      BY <1>1, <2>1, Zenon
    <2>2. CASE i \notin 1..f
      <3>1. i > f /\ i <= Len(base)
        BY <1>0, <1>3, <2>2
      <3>2. i \in 1..Len(base) /\ t[i] = base[i]
        BY <1>0, <3>1
      <3>3. \A k \in 1..f : t[k] # t[i]
        BY <1>0, <3>1
      <3>4. \A k \in 1..Len(t) : k > Len(base) => t[k] # t[i]
        BY <1>0, <3>1
      <3>5. g[t[i]] = h[t[i]]
        <4>1. t[i] \in Block
          OBVIOUS
        <4> QED
          BY <3>3, <3>4, <4>1, Zenon
      <3>6. h[base[i]] # <<>> /\ g[t[i]] = h[base[i]]
        BY <1>3, <3>2, <3>5, Zenon
      <3>7. Len(h[base[i]]) = i * BlockSize /\ IsPrefix(h[base[i]], x[r])
        BY <3>2, <3>6, Zenon DEF Fitting
      <3> QED
        BY <3>6, <3>7, Zenon
    <2> QED
      BY <2>1, <2>2
  <1>4. ASSUME NEW b \in Block, g[b] # <<>>
        PROVE  \E q \in Req : IsPrefix(g[b], x[q])
    <2>1. CASE \E i \in 1..Len(t) : t[i] = b
      BY <1>3, <1>4, <2>1, Zenon
    <2>2. CASE ~ \E i \in 1..Len(t) : t[i] = b
      <3>1. \A i \in 1..f : t[i] # b
        BY <1>0, <2>2
      <3>2. g[b] = h[b]
        BY <2>2, <3>1, Zenon
      <3> QED
        BY <1>4, <3>2, Zenon DEF Caches
    <2> QED
      BY <2>1, <2>2
  <1>5. ASSUME NEW q \in Req \ {r}, NEW i \in 1..Len(t), NEW j \in 1..Len(u[q]),
               t[i] = u[q][j]
        PROVE  g[t[i]] # <<>>
    <2>0. ~(i > Len(base))
      BY <1>5, Zenon
    <2>1. i \in 1..Len(base)
      BY <1>0, <2>0
    <2>2. base[i] = u[q][j]
      BY <1>5, <2>1
    <2>3. h[base[i]] # <<>>
      <3>1. \A p \in Req \ {r} : \A k \in 1..Len(base), l \in 1..Len(u[p]) :
               base[k] = u[p][l] => h[base[k]] # <<>>
        BY DEF Fitting
      <3> QED
        BY <2>1, <2>2, <3>1, Zenon
    <2>4. g[u[q][j]] = h[u[q][j]]
      BY <1>2
    <2> QED
      BY <1>5, <2>2, <2>3, <2>4, Zenon
  <1>6. ASSUME NEW q \in Req, NEW i \in 1..Len(w[q]), g[w[q][i]] # <<>>
        PROVE  Len(g[w[q][i]]) = i * BlockSize /\ IsPrefix(g[w[q][i]], x[q])
    <2>1. CASE q = r
      BY <1>0, <1>3, <1>6, <2>1, Zenon
    <2>2. CASE q # r
      <3>1. q \in Req \ {r} /\ w[q] = u[q]
        BY <1>0, <2>2
      <3>2. i \in 1..Len(u[q]) /\ g[u[q][i]] # <<>> /\ g[u[q][i]] = h[u[q][i]]
        BY <1>2, <1>6, <3>1, Zenon
      <3>3. Len(h[u[q][i]]) = i * BlockSize /\ IsPrefix(h[u[q][i]], x[q])
        BY <3>2, Zenon DEF Caches
      <3> QED
        BY <3>1, <3>2, <3>3, Zenon
    <2> QED
      BY <2>1, <2>2
  <1>7. ASSUME NEW p \in Req, NEW q \in Req, p # q,
               NEW i \in 1..Len(w[p]), NEW j \in 1..Len(w[q]), w[p][i] = w[q][j]
        PROVE  g[w[p][i]] # <<>>
    <2>1. CASE p = r
      <3>1. q \in Req \ {r} /\ w[p] = t /\ w[q] = u[q]
        BY <1>0, <1>7, <2>1
      <3>2. i \in 1..Len(t) /\ j \in 1..Len(u[q]) /\ t[i] = u[q][j]
        BY <1>7, <3>1, Zenon
      <3>3. g[t[i]] # <<>>
        BY <1>5, <3>1, <3>2, Zenon
      <3> QED
        BY <3>1, <3>3, Zenon
    <2>2. CASE q = r
      <3>1. p \in Req \ {r} /\ w[q] = t /\ w[p] = u[p]
        BY <1>0, <1>7, <2>2
      <3>2. j \in 1..Len(t) /\ i \in 1..Len(u[p]) /\ t[j] = u[p][i]
        BY <1>7, <3>1, Zenon
      <3>3. g[t[j]] # <<>>
        BY <1>5, <3>1, <3>2, Zenon
      <3>4. w[p][i] = t[j]
        BY <3>1, <3>2, Zenon
      <3> QED
        BY <3>3, <3>4, Zenon
    <2>3. CASE p # r /\ q # r
      <3>1. p \in Req \ {r} /\ w[p] = u[p] /\ w[q] = u[q]
        BY <1>0, <2>3
      <3>2. i \in 1..Len(u[p]) /\ j \in 1..Len(u[q]) /\ u[p][i] = u[q][j]
        BY <1>7, <3>1, Zenon
      <3>3. \A k \in 1..Len(u[p]), l \in 1..Len(u[q]) : u[p][k] = u[q][l] => h[u[p][k]] # <<>>
        BY <1>7 DEF Caches
      <3>4. h[u[p][i]] # <<>>
        BY <3>2, <3>3, Zenon
      <3>5. g[u[p][i]] = h[u[p][i]] /\ w[p][i] = u[p][i]
        BY <1>2, <3>1, <3>2, Zenon
      <3> QED
        BY <3>4, <3>5, Zenon
    <2> QED
      BY <2>1, <2>2, <2>3
  <1> QED
    BY <1>4, <1>6, <1>7 DEF Caches
\* What allocate_slots caches for text y, as written and block by block.
Cached(h, y, base, t, f, g) ==
    /\ h \in [Block -> Seq(Token)] /\ y \in Seq(Token)
    /\ base \in Seq(Block) /\ t \in Seq(Block) /\ f \in Nat
    /\ f <= Len(t) /\ \A i \in 1..f : i * BlockSize <= Len(y)
    /\ IsInjective(t) /\ Len(base) <= Len(t) /\ \A i \in 1..Len(base) : t[i] = base[i]
    /\ g = [b \in Block |-> IF \E i \in 1..f : t[i] = b
                            THEN Key(y, CHOOSE i \in 1..f : t[i] = b)
                            ELSE IF b \in Range(t) \ Range(base) THEN <<>> ELSE h[b]]

Recached(h, y, base, t, f, g) ==
    /\ g \in [Block -> Seq(Token)]
    /\ \A i \in 1..f : g[t[i]] = Key(y, i)
    /\ \A i \in 1..Len(t) : i > f /\ i > Len(base) => g[t[i]] = <<>>
    /\ \A b \in Block :
         (\A i \in 1..f : t[i] # b) /\ (\A i \in 1..Len(t) : i > Len(base) => t[i] # b)
             => g[b] = h[b]

\* The one follows from the other.
LEMMA CachedBlocks ==
    ASSUME NEW h, NEW y, NEW base, NEW t, NEW f, NEW g, Cached(h, y, base, t, f, g)
    PROVE  Recached(h, y, base, t, f, g)
  <1> USE DEF Cached, Recached
  <1>0. /\ Len(t) \in Nat /\ Len(base) \in Nat
        /\ DOMAIN t = 1..Len(t) /\ DOMAIN base = 1..Len(base)
        /\ \A i \in 1..f : i \in 1..Len(t) /\ t[i] \in Block
        /\ \A i \in 1..Len(t) : t[i] \in Block
    OBVIOUS
  <1>1. ASSUME NEW i \in 1..Len(t), NEW j \in 1..Len(t), t[i] = t[j] PROVE i = j
    BY <1>0, <1>1 DEF IsInjective
  <1>2. ASSUME NEW i \in 1..f PROVE g[t[i]] = Key(y, i)
    <2>1. (CHOOSE k \in 1..f : t[k] = t[i]) = i
      <3>1. \A k \in 1..f : t[k] = t[i] => k = i
        BY <1>0, <1>1
      <3> QED
        BY <3>1
    <2>2. t[i] \in Block
      BY <1>0
    <2>3. g[t[i]] = Key(y, CHOOSE k \in 1..f : t[k] = t[i])
      BY <2>2
    <2> QED
      BY <2>1, <2>3, Zenon
  <1>3. ASSUME NEW b \in Block, \A i \in 1..f : t[i] # b
        PROVE  g[b] = IF b \in Range(t) \ Range(base) THEN <<>> ELSE h[b]
    BY <1>3
  <1>4. ASSUME NEW i \in 1..Len(t), i > f, i > Len(base) PROVE g[t[i]] = <<>>
    <2>1. \A k \in 1..f : t[k] # t[i]
      BY <1>0, <1>1, <1>4
    <2>2. t[i] \in Range(t) /\ t[i] \in Block
      BY <1>0 DEF Range
    <2>3. t[i] \notin Range(base)
      <3>1. ASSUME NEW k \in 1..Len(base) PROVE base[k] # t[i]
        <4>1. k \in 1..Len(t) /\ t[k] = base[k] /\ k # i
          BY <1>0, <1>4
        <4> QED
          BY <1>1, <4>1
      <3> QED
        BY <1>0, <3>1 DEF Range
    <2> QED
      BY <1>3, <2>1, <2>2, <2>3
  <1>5. ASSUME NEW b \in Block, \A i \in 1..f : t[i] # b,
               \A i \in 1..Len(t) : i > Len(base) => t[i] # b
        PROVE  g[b] = h[b]
    <2>1. ASSUME NEW i \in 1..Len(t), t[i] = b PROVE b \in Range(base)
      <3>1. i \in 1..Len(base)
        BY <1>0, <1>5, <2>1
      <3> QED
        BY <1>0, <2>1, <3>1 DEF Range
    <2>2. b \notin Range(t) \ Range(base)
      BY <1>0, <2>1 DEF Range
    <2> QED
      BY <1>3, <1>5, <2>2
  <1>6. g \in [Block -> Seq(Token)]
    <2> SUFFICES ASSUME NEW b \in Block PROVE g[b] \in Seq(Token)
      OBVIOUS
    <2>1. CASE \E i \in 1..f : t[i] = b
      <3>1. PICK i \in 1..f : t[i] = b
        BY <2>1
      <3>2. Key(y, i) \in Seq(Token)
        <4>1. i \in Nat \ {0} /\ i * BlockSize <= Len(y)
          OBVIOUS
        <4> QED
          BY <4>1, KeyOfBlock
      <3> QED
        BY <1>2, <3>1, <3>2, Zenon
    <2>2. CASE ~ \E i \in 1..f : t[i] = b
      <3>1. g[b] = <<>> \/ g[b] = h[b]
        BY <1>3, <2>2
      <3>2. <<>> \in Seq(Token) /\ h[b] \in Seq(Token)
        OBVIOUS
      <3> QED
        BY <3>1, <3>2, Zenon
    <2> QED
      BY <2>1, <2>2
  <1> QED
    BY <1>2, <1>4, <1>5, <1>6
\* A successful allocate_slots whose request has the text of the simulator's.
Allocating(r, hit, n, total) ==
    /\ r \in Req /\ hit \in Seq(Block) /\ n \in Nat
    /\ engineReq[r].tokens = Texts[r] /\ engineReq[r].computed \in Nat
    /\ total = engineReq[r].computed + Len(hit) * BlockSize + n
    /\ IsInjective(table[r] \o hit)
    /\ Fitting(hash, table, Texts, r, table[r] \o hit)
    /\ ManagerAllocates(r, n, hit) /\ UNCHANGED outLen

\* It leaves the cache in order and r with the blocks for all its tokens.
Allocated(r, hit, total) ==
    /\ CacheInv'
    /\ \E t \in Seq(Block) :
         /\ table' = [table EXCEPT ![r] = t] /\ IsInjective(t)
         /\ Len(t) = Len(table[r]) + Len(hit)
                 + Monus(BlocksFor(total), Len(table[r]) + Len(hit))

\* Under these conditions an allocation does have that result: the blocks it
\* takes are free, so the table stays free of repetitions and the cache true.
LEMMA AllocateStep ==
    ASSUME TableInv, CacheInv, Texts \in [Req -> Seq(Token)],
           NEW r, NEW hit, NEW n, NEW all, Allocating(r, hit, n, all)
    PROVE  Allocated(r, hit, all)
  <1>0. /\ r \in Req /\ hit \in Seq(Block) /\ n \in Nat
        /\ engineReq[r].tokens = Texts[r] /\ engineReq[r].computed \in Nat
        /\ IsInjective(table[r] \o hit)
        /\ Fitting(hash, table, Texts, r, table[r] \o hit)
        /\ ManagerAllocates(r, n, hit) /\ UNCHANGED outLen
    BY DEF Allocating
  <1> USE <1>0
  <1> DEFINE vr    == engineReq[r]
             base  == table[r] \o hit
             total == vr.computed + Len(hit) * BlockSize + n
             full  == AtMost(total, Len(vr.tokens)) \div BlockSize
             new   == Monus(BlocksFor(total), Len(table[r]) + Len(hit))
  <1>1. PICK t \in Extended(r, hit, new) :
          /\ table' = [table EXCEPT ![r] = t]
          /\ hash' = [b \in Block |->
                IF \E i \in 1..AtMost(full, Len(t)) : t[i] = b
                THEN Key(vr.tokens, CHOOSE i \in 1..AtMost(full, Len(t)) : t[i] = b)
                ELSE IF b \in Range(t) \ Range(base) THEN <<>> ELSE hash[b]]
    BY DEF ManagerAllocates
  <1>2. /\ Len(hit) \in Nat /\ Len(table[r]) \in Nat /\ Len(hit) * BlockSize \in Nat
        /\ BlockSize \in Nat \ {0} /\ vr.tokens \in Seq(Token) /\ Len(vr.tokens) \in Nat
        /\ vr.tokens = Texts[r]
    <2>1. Len(hit) \in Nat /\ table[r] \in Seq(Block) /\ BlockSize \in Nat \ {0}
      BY SizeAssumption DEF TableInv, SizeAssumption
    <2> QED
      BY <2>1, SlotsMonotone
  <1>3. total \in Nat
    <2> DEFINE matched == Len(hit) * BlockSize
    <2>1. matched \in Nat /\ vr.computed \in Nat
      BY <1>2
    <2> HIDE DEF matched, vr
    <2>2. vr.computed + matched + n \in Nat
      BY <2>1
    <2> QED
      BY <2>2 DEF matched
  <1> HIDE DEF total, vr
  <1>4. new \in Nat
    <2>1. BlocksFor(total) \in Nat
      BY <1>3, BlocksForBounds
    <2> QED
      BY <1>2, <2>1 DEF Monus
  <1>5. full \in Nat /\ full * BlockSize <= Len(vr.tokens)
    <2> DEFINE l == AtMost(total, Len(vr.tokens))
    <2>1. l \in Nat /\ l <= Len(vr.tokens)
      BY <1>2, <1>3 DEF AtMost
    <2> HIDE DEF l
    <2>2. l \div BlockSize \in Nat /\ (l \div BlockSize) * BlockSize <= l
      BY <1>2, <2>1, Quotient
    <2>3. full = l \div BlockSize
      BY DEF l
    <2> HIDE DEF full
    <2>4. full * BlockSize \in Nat /\ full * BlockSize <= l /\ full \in Nat
      BY <1>2, <2>2, <2>3, SlotsMonotone
    <2> QED
      BY <1>2, <2>1, <2>4
  <1> HIDE DEF full, new
  <1>6. /\ base \in Seq(Block) /\ Len(base) = Len(table[r]) + Len(hit)
        /\ t \in Seq(Block) /\ Len(t) = Len(base) + new /\ IsInjective(t)
        /\ \A i \in 1..Len(base) : t[i] = base[i]
        /\ \A i \in 1..Len(t) : i > Len(base) => t[i] \in FreeBlocks
    BY <1>4, ExtendedShape
  <1>7. Fitting(hash, table, Texts, r, base)
    OBVIOUS
  <1> HIDE DEF base
  <1> DEFINE f == AtMost(full, Len(t))
  <1>8. /\ f \in Nat /\ f <= Len(t) /\ f <= full
        /\ Len(t) \in Nat /\ Len(base) \in Nat /\ Len(base) <= Len(t)
    BY <1>4, <1>5, <1>6 DEF AtMost
  <1>10. hash' = [b \in Block |-> IF \E i \in 1..f : t[i] = b
                                  THEN Key(vr.tokens, CHOOSE i \in 1..f : t[i] = b)
                                  ELSE IF b \in Range(t) \ Range(base) THEN <<>> ELSE hash[b]]
    BY <1>1
  <1> HIDE DEF f
  <1>9. \A i \in 1..f : i * BlockSize <= Len(vr.tokens)
    <2> SUFFICES ASSUME NEW i \in 1..f PROVE i * BlockSize <= Len(vr.tokens)
      OBVIOUS
    <2>1. i \in Nat /\ i <= full
      BY <1>5, <1>8
    <2>2. i * BlockSize \in Nat /\ i * BlockSize <= full * BlockSize /\ full * BlockSize \in Nat
      BY <1>2, <1>5, <2>1, SlotsMonotone
    <2> DEFINE m == i * BlockSize
               k == full * BlockSize
    <2>3. m \in Nat /\ k \in Nat /\ m <= k /\ k <= Len(vr.tokens) /\ Len(vr.tokens) \in Nat
      BY <1>2, <1>5, <2>2, Zenon
    <2> HIDE DEF m, k
    <2>4. m <= Len(vr.tokens)
      BY <2>3
    <2> QED
      BY <2>4 DEF m
  <1>11. Cached(hash, vr.tokens, base, t, f, hash')
    <2>1. hash \in [Block -> Seq(Token)]
      BY DEF CacheInv
    <2> QED
      BY <1>2, <1>6, <1>8, <1>9, <1>10, <2>1, Zenon DEF Cached
  <1> HIDE <1>10
  <1>12. Recached(hash, vr.tokens, base, t, f, hash')
    BY <1>11, CachedBlocks, Zenon
  <1>13. \A i \in 1..Len(t) : i > Len(base) =>
            \A q \in Req : \A j \in 1..Len(table[q]) : table[q][j] # t[i]
    <2> SUFFICES ASSUME NEW i \in 1..Len(t), i > Len(base),
                        NEW q \in Req, NEW j \in 1..Len(table[q])
                 PROVE  table[q][j] # t[i]
      BY Zenon
    <2>1. t[i] \in FreeBlocks
      BY <1>6
    <2>2. j \in DOMAIN table[q]
      BY DEF TableInv
    <2> QED
      BY <2>1, <2>2 DEF FreeBlocks, Held, Range
  <1>14. \A i, j \in 1..Len(t) : t[i] = t[j] => i = j
    BY <1>6 DEF IsInjective
  <1>15. Caches(hash', table', Texts)
    <2>1. hash \in [Block -> Seq(Token)] /\ Caches(hash, table, Texts)
          /\ table \in [Req -> Seq(Block)] /\ table' \in [Req -> Seq(Block)]
      BY <1>1, <1>6 DEF CacheInv, TableInv
    <2>2. /\ \A i \in 1..f : hash'[t[i]] = Key(Texts[r], i)
          /\ \A i \in 1..f : i * BlockSize <= Len(Texts[r])
      BY <1>2, <1>9, <1>12, Zenon DEF Recached
    <2>3. table' = [table EXCEPT ![r] = t]
      BY <1>1
    <2>4. Caching(hash, table, Texts, r, base, t, f, hash', table')
      BY <1>6, <1>7, <1>8, <1>12, <1>13, <1>14, <2>1, <2>2, <2>3, Zenon DEF Caching, Recached
    <2> QED
      BY <2>4, CacheStep, Zenon
  <1>16. Texts' = Texts
    BY DEF Texts, TextOf
  <1>17. CacheInv'
    BY <1>12, <1>15, <1>16, Zenon DEF CacheInv, Recached
  <1>18. Len(t) = Len(table[r]) + Len(hit) + new
    BY <1>6
  <1> QED
    <2>1. total = all
      BY DEF Allocating, total, vr
    <2> QED
      BY <1>1, <1>6, <1>17, <1>18, <2>1, Zenon DEF new, Allocated
\* The texts of the requests and their lengths.
LEMMA TextsType ==
    ASSUME IndInv
    PROVE  /\ Texts \in [Req -> Seq(Token)]
           /\ \A r \in Req : /\ TextOf(r) \in Seq(Token) /\ Len(TextOf(r)) = Length(r)
                             /\ Length(r) \in Nat /\ TextOf(r) = TextAt(r, outLen[r])
                             /\ Texts[r] = TextOf(r)
  <1>1. ASSUME NEW r \in Req
        PROVE  /\ TextOf(r) \in Seq(Token) /\ Len(TextOf(r)) = Length(r)
               /\ Length(r) \in Nat /\ TextOf(r) = TextAt(r, outLen[r])
    <2>1. outLen[r] \in Nat /\ outLen[r] <= Len(Output[r]) /\ Len(Output[r]) \in Nat
      BY Lengths DEF IndInv, TypeInv, OutputInv
    <2>2. outLen[r] \in 0..Len(Output[r])
      BY <2>1
    <2>3. /\ TextAt(r, outLen[r]) \in Seq(Token) /\ Len(Prompt[r]) \in Nat
          /\ Len(TextAt(r, outLen[r])) = Len(Prompt[r]) + outLen[r]
      BY <2>2, TextType
    <2>4. TextOf(r) = TextAt(r, outLen[r])
      BY DEF TextOf, TextAt
    <2>5. Length(r) = Len(Prompt[r]) + outLen[r] /\ Length(r) \in Nat
      BY <2>1, <2>3 DEF Length
    <2> QED
      BY <2>3, <2>4, <2>5, Zenon
  <1> QED
    BY <1>1 DEF Texts

\* Texts that grow keep the cache in order.
LEMMA CachesGrow ==
    ASSUME NEW h \in [Block -> Seq(Token)], NEW u \in [Req -> Seq(Block)],
           NEW x \in [Req -> Seq(Token)], NEW y \in [Req -> Seq(Token)],
           Caches(h, u, x), \A r \in Req : IsPrefix(x[r], y[r])
    PROVE  Caches(h, u, y)
  <1>1. ASSUME NEW b \in Block, NEW r \in Req, IsPrefix(h[b], x[r])
        PROVE  IsPrefix(h[b], y[r])
    <2>1. /\ h[b] \in Seq(Token) /\ x[r] \in Seq(Token) /\ y[r] \in Seq(Token)
          /\ IsPrefix(x[r], y[r])
      OBVIOUS
    <2> QED
      BY <1>1, <2>1, PrefixTransitive
  <1>2. ASSUME NEW r \in Req, NEW i \in 1..Len(u[r]), h[u[r][i]] # <<>>
        PROVE  Len(h[u[r][i]]) = i * BlockSize /\ IsPrefix(h[u[r][i]], y[r])
    <2>1. u[r][i] \in Block
      OBVIOUS
    <2>2. Len(h[u[r][i]]) = i * BlockSize /\ IsPrefix(h[u[r][i]], x[r])
      BY <1>2 DEF Caches
    <2> QED
      BY <1>1, <2>1, <2>2
  <1>3. ASSUME NEW b \in Block, h[b] # <<>>
        PROVE  \E r \in Req : IsPrefix(h[b], y[r])
    BY <1>1, <1>3 DEF Caches
  <1> QED
    BY <1>2, <1>3 DEF Caches

\* Giving the blocks of a request back keeps what they cache.
LEMMA CachesShrink ==
    ASSUME NEW h, NEW u \in [Req -> Seq(Block)], NEW x, NEW r \in Req, NEW w,
           Caches(h, u, x), w = [u EXCEPT ![r] = <<>>]
    PROVE  Caches(h, w, x)
  <1>1. ASSUME NEW q \in Req, NEW i \in 1..Len(w[q])
        PROVE  q # r /\ w[q] = u[q] /\ i \in 1..Len(u[q])
    <2>1. CASE q = r
      <3>1. Len(w[q]) = 0
        BY <2>1
      <3> QED
        BY <3>1
    <2>2. CASE q # r
      <3>1. w[q] = u[q]
        BY <2>2
      <3> QED
        BY <2>2, <3>1
    <2> QED
      BY <2>1, <2>2
  <1>2. \A q \in Req : \A i \in 1..Len(w[q]) : h[w[q][i]] # <<>> =>
            Len(h[w[q][i]]) = i * BlockSize /\ IsPrefix(h[w[q][i]], x[q])
    BY <1>1 DEF Caches
  <1>3. ASSUME NEW p \in Req, NEW q \in Req, p # q,
               NEW i \in 1..Len(w[p]), NEW j \in 1..Len(w[q]), w[p][i] = w[q][j]
        PROVE  h[w[p][i]] # <<>>
    <2>1. /\ w[p] = u[p] /\ i \in 1..Len(u[p]) /\ w[q] = u[q] /\ j \in 1..Len(u[q])
      BY <1>1
    <2>2. u[p][i] = u[q][j] => h[u[p][i]] # <<>>
      BY <1>3, <2>1 DEF Caches
    <2> QED
      BY <1>3, <2>1, <2>2
  <1> QED
    BY <1>2, <1>3 DEF Caches

\* Nothing is held or cached before any request is served.
LEMMA InitBlocks ==
    ASSUME Init PROVE BlockInv
  <1>1. TableInv
    BY DEF Init, TableInv, IsInjective
  <1>2. MatchInv /\ LengthInv /\ RefusedOnlyForOthers
    BY DEF Init, MatchInv, LengthInv, Served, RefusedOnlyForOthers
  <1>3. CacheInv
    <2>1. hash \in [Block -> Seq(Token)]
      BY DEF Init, Block
    <2>2. \A b \in Block : hash[b] = <<>>
      BY DEF Init, Block
    <2>3. \A r \in Req : Len(table[r]) = 0 /\ table[r] = <<>>
      BY DEF Init
    <2>4. \A r \in Req : \A i \in 1..Len(table[r]) : FALSE
      BY <2>3
    <2> QED
      BY <2>1, <2>2, <2>4 DEF CacheInv, Caches
  <1> QED
    BY <1>1, <1>2, <1>3 DEF BlockInv

\* get_computed_blocks hands out blocks that cache the start of the prompt.
LEMMA PrefillMatchBlocks ==
    ASSUME IndInv, BlockInv, NEW r \in Req, PrefillMatch(r)
    PROVE  BlockInv'
  <1>1. /\ at = "idle" /\ status[r] = "prefill" /\ at' = "prefill_allocate" /\ cur' = r
        /\ UNCHANGED <<table, hash, status, outLen, drafts>>
        /\ TableInv /\ LengthInv /\ CacheInv /\ TypeInv
    BY DEF PrefillMatch, BlockInv, managerVars, IndInv
  <1>2. engineReq'[r].tokens = Prompt[r]
    <2>1. engineReq[r] = NoEngineReq /\ engineReq = [q \in Req |-> engineReq[q]]
      BY <1>1, Lengths DEF IndInv, ControlInv, EngineInv, TypeInv
    <2>2. engineReq' = [engineReq EXCEPT ![r] = [tokens |-> Prompt[r], computed |-> 0]]
      BY <2>1 DEF PrefillMatch, Registered
    <2> QED
      BY <2>1, <2>2
  <1>3. PICK hit \in Hits(Prompt[r]) :
          blocks' = hit /\ numComputed' = [numComputed EXCEPT ![r] = Len(hit) * BlockSize]
    BY <1>2 DEF PrefillMatch
  <1>4. /\ Prompt[r] \in Seq(Token) /\ HitLength(Prompt[r]) \in Nat
        /\ HitLength(Prompt[r]) * BlockSize <= Len(Prompt[r])
        /\ HitLength(Prompt[r]) <= BlocksFor(Len(Prompt[r]))
    BY WorkloadAssumption, HitLengthBounds DEF WorkloadAssumption
  <1>5. /\ hit \in Seq(Block) /\ Len(hit) = HitLength(Prompt[r])
        /\ \A i \in 1..Len(hit) : hash[hit[i]] = Key(Prompt[r], i)
    <2>1. /\ hit \in [1..HitLength(Prompt[r]) -> Block]
          /\ \A i \in DOMAIN hit : hash[hit[i]] = Key(Prompt[r], i)
      BY <1>3 DEF Hits
    <2>2. hit \in Seq(Block) /\ Len(hit) = HitLength(Prompt[r]) /\ DOMAIN hit = 1..Len(hit)
      BY <1>4, <2>1
    <2> QED
      BY <2>1, <2>2
  <1>6. MatchInv'
    <2>1. numComputed'[r] = Len(hit) * BlockSize
      BY <1>1, <1>3 DEF TypeInv
    <2> QED
      BY <1>1, <1>3, <1>4, <1>5, <2>1 DEF MatchInv
  <1>7. TableInv' /\ LengthInv' /\ RefusedOnlyForOthers'
    BY <1>1 DEF TableInv, LengthInv, RefusedOnlyForOthers, Served, Length, Ahead, Started
  <1>8. CacheInv'
    BY <1>1 DEF CacheInv, Texts, TextOf
  <1> QED
    BY <1>6, <1>7, <1>8 DEF BlockInv

\* The blocks that the prefill of the request matched can head its table.
LEMMA MatchedBlocks ==
    ASSUME IndInv, BlockInv, at = "prefill_allocate"
    PROVE  /\ cur \in Req /\ status[cur] = "prefill" /\ table[cur] = <<>>
           /\ blocks \in Seq(Block) /\ Len(blocks) \in Nat
           /\ IsInjective(blocks) /\ Fitting(hash, table, Texts, cur, blocks)
           /\ engineReq[cur] = [tokens |-> Prompt[cur], computed |-> 0]
           /\ Texts[cur] = Prompt[cur]
  <1>1. /\ cur \in Req /\ status[cur] = "prefill" /\ outLen[cur] = 0
        /\ engineReq[cur] = [tokens |-> Prompt[cur], computed |-> 0]
    BY DEF IndInv, ControlInv, OutputInv, EngineInv
  <1>2. /\ blocks \in Seq(Block) /\ Len(blocks) \in Nat
        /\ numComputed[cur] = Len(blocks) * BlockSize
        /\ numComputed[cur] <= Len(Prompt[cur])
        /\ \A i \in 1..Len(blocks) : hash[blocks[i]] = Key(Prompt[cur], i)
        /\ table[cur] = <<>>
    BY <1>1 DEF BlockInv, MatchInv, TableInv, Served
  <1>3. Texts[cur] = Prompt[cur]
    BY <1>1, TextsType, TextAtStart
  <1>4. Prompt[cur] \in Seq(Token) /\ BlockSize \in Nat \ {0} /\ Len(Prompt[cur]) \in Nat
    BY <1>1, WorkloadAssumption, SizeAssumption DEF WorkloadAssumption, SizeAssumption
  <1>5. ASSUME NEW i \in 1..Len(blocks)
        PROVE  /\ i \in Nat \ {0} /\ Len(hash[blocks[i]]) = i * BlockSize
               /\ IsPrefix(hash[blocks[i]], Prompt[cur]) /\ hash[blocks[i]] # <<>>
    <2>1. i \in Nat \ {0} /\ i <= Len(blocks)
      BY <1>2
    <2>2. i * BlockSize \in Nat /\ i * BlockSize <= Len(blocks) * BlockSize
      BY <1>2, <1>4, <2>1, SlotsMonotone
    <2>3. i * BlockSize <= Len(Prompt[cur])
      BY <1>2, <1>4, <2>2
    <2>4. /\ Len(Key(Prompt[cur], i)) = i * BlockSize
          /\ IsPrefix(Key(Prompt[cur], i), Prompt[cur]) /\ Key(Prompt[cur], i) # <<>>
      BY <1>4, <2>1, <2>3, KeyOfBlock
    <2>5. hash[blocks[i]] = Key(Prompt[cur], i)
      BY <1>2
    <2> QED
      BY <2>1, <2>4, <2>5, Zenon
  <1>6. IsInjective(blocks)
    <2> SUFFICES ASSUME NEW i \in 1..Len(blocks), NEW j \in 1..Len(blocks),
                        blocks[i] = blocks[j]
                 PROVE  i = j
      BY <1>2 DEF IsInjective
    <2>1. i \in Nat /\ j \in Nat /\ i * BlockSize = j * BlockSize
      BY <1>5
    <2> QED
      BY <2>1, SlotsInjective
  <1>7. Fitting(hash, table, Texts, cur, blocks)
    BY <1>3, <1>5 DEF Fitting
  <1> QED
    BY <1>1, <1>2, <1>3, <1>6, <1>7

\* A prefill gets the blocks of its prompt.
LEMMA PrefillAllocateBlocks ==
    ASSUME IndInv, BlockInv, PrefillAllocate, at' = "prefill_sync"
    PROVE  BlockInv'
  <1> DEFINE n == Len(Prompt[cur]) - numComputed[cur]
  <1>1. /\ at = "prefill_allocate" /\ UNCHANGED <<engineReq, status, outLen, cur, drafts>>
        /\ ManagerAllocates(cur, n, blocks)
    BY DEF PrefillAllocate, AllocateSucceeds, AllocateFails
  <1>2. /\ cur \in Req /\ status[cur] = "prefill" /\ table[cur] = <<>>
        /\ blocks \in Seq(Block) /\ Len(blocks) \in Nat
        /\ IsInjective(blocks) /\ Fitting(hash, table, Texts, cur, blocks)
        /\ engineReq[cur] = [tokens |-> Prompt[cur], computed |-> 0]
        /\ Texts[cur] = Prompt[cur]
    BY <1>1, MatchedBlocks
  <1>3. /\ numComputed[cur] = Len(blocks) * BlockSize
        /\ numComputed[cur] <= Len(Prompt[cur])
        /\ Len(blocks) <= BlocksFor(Len(Prompt[cur]))
        /\ Len(Prompt[cur]) \in Nat /\ BlocksFor(Len(Prompt[cur])) \in Nat
        /\ Len(blocks) * BlockSize \in Nat
    <2>1. Len(Prompt[cur]) \in Nat
      BY <1>2, Lengths
    <2>2. Len(blocks) * BlockSize \in Nat
      BY <1>2, SizeAssumption, SlotsMonotone DEF SizeAssumption
    <2> QED
      BY <1>1, <2>1, <2>2, BlocksForBounds DEF BlockInv, MatchInv
  <1>4. table[cur] \o blocks = blocks
    BY <1>2
  <1>5. n \in Nat /\ 0 + Len(blocks) * BlockSize + n = Len(Prompt[cur])
    BY <1>3
  <1> HIDE DEF n
  <1>6. /\ engineReq[cur].tokens = Texts[cur] /\ engineReq[cur].computed = 0
        /\ engineReq[cur].computed \in Nat
    BY <1>2
  <1>7. /\ TableInv /\ CacheInv /\ LengthInv /\ Texts \in [Req -> Seq(Token)]
        /\ UNCHANGED outLen
    BY <1>1, TextsType DEF BlockInv
  <1>8. Allocated(cur, blocks, Len(Prompt[cur]))
    <2>1. Allocating(cur, blocks, n, Len(Prompt[cur]))
      BY <1>1, <1>2, <1>4, <1>5, <1>6, <1>7, Zenon DEF Allocating
    <2> QED
      BY <1>7, <2>1, AllocateStep, Zenon
  <1>9. PICK t \in Seq(Block) :
             /\ table' = [table EXCEPT ![cur] = t] /\ IsInjective(t)
             /\ Len(t) = BlocksFor(Len(Prompt[cur]))
    <2>1. Len(table[cur]) = 0
      BY <1>2
    <2>2. Monus(BlocksFor(Len(Prompt[cur])), 0 + Len(blocks))
            = BlocksFor(Len(Prompt[cur])) - Len(blocks)
      BY <1>2, <1>3 DEF Monus
    <2>4. 0 + Len(blocks) + (BlocksFor(Len(Prompt[cur])) - Len(blocks))
            = BlocksFor(Len(Prompt[cur]))
      BY <1>2, <1>3
    <2> QED
      BY <1>8, <2>1, <2>2, <2>4, Zenon DEF Allocated
  <1>10. table'[cur] = t /\ \A r \in Req \ {cur} : table'[r] = table[r]
    BY <1>2, <1>7, <1>9 DEF TableInv
  <1>11. TableInv'
    BY <1>1, <1>2, <1>7, <1>9, <1>10 DEF TableInv, Served
  <1>12. LengthInv'
    BY <1>1, <1>2, <1>7, <1>9, <1>10 DEF LengthInv, Served, Length, Ahead, Started
  <1>13. MatchInv' /\ RefusedOnlyForOthers'
    BY DEF MatchInv, RefusedOnlyForOthers
  <1> QED
    BY <1>8, <1>11, <1>12, <1>13 DEF BlockInv, Allocated

\* A prefill is refused for the blocks that others hold, or for its length.
LEMMA PrefillRefusedBlocks ==
    ASSUME IndInv, BlockInv, PrefillAllocate, at' = "raised_oom"
    PROVE  BlockInv'
  <1> DEFINE n == Len(Prompt[cur]) - numComputed[cur]
             needed == BlocksFor(Len(Prompt[cur]))
  <1>1. /\ at = "prefill_allocate"
        /\ UNCHANGED <<table, hash, engineReq, status, outLen, cur, drafts>>
        /\ ManagerRefuses(cur, n, blocks)
    BY DEF PrefillAllocate, AllocateSucceeds, AllocateFails, managerVars
  <1>2. /\ cur \in Req /\ table[cur] = <<>>
        /\ blocks \in Seq(Block) /\ Len(blocks) \in Nat
        /\ engineReq[cur] = [tokens |-> Prompt[cur], computed |-> 0]
    BY <1>1, MatchedBlocks
  <1>3. /\ numComputed[cur] = Len(blocks) * BlockSize
        /\ numComputed[cur] <= Len(Prompt[cur]) /\ Len(blocks) <= needed
        /\ Len(Prompt[cur]) \in Nat /\ needed \in Nat /\ Len(blocks) * BlockSize \in Nat
    <2>1. Len(Prompt[cur]) \in Nat
      BY <1>2, Lengths
    <2>2. Len(blocks) * BlockSize \in Nat
      BY <1>2, SizeAssumption, SlotsMonotone DEF SizeAssumption
    <2> QED
      BY <1>1, <2>1, <2>2, BlocksForBounds DEF BlockInv, MatchInv
  <1>4. /\ engineReq[cur].computed = 0
        /\ 0 + Len(blocks) * BlockSize + n = Len(Prompt[cur])
    BY <1>2, <1>3
  <1>5. BlocksToAllocate(cur, blocks, Len(Prompt[cur])) > Cardinality(FreeBlocks)
    BY <1>1, <1>4 DEF ManagerRefuses
  <1> HIDE DEF n, needed
  <1>6. /\ IsFiniteSet(Range(blocks)) /\ Cardinality(Range(blocks)) \in Nat
        /\ Cardinality(Range(blocks)) <= Len(blocks)
    <2>1. IsFiniteSet(1..Len(blocks)) /\ Cardinality(1..Len(blocks)) = Len(blocks)
      <3>1. \A k \in Nat : IsFiniteSet(1..k) /\ Cardinality(1..k) = k
        BY FS_Interval
      <3> QED
        BY <1>2, <3>1
    <2>2. blocks \in Surjection(1..Len(blocks), Range(blocks))
      BY <1>2 DEF Surjection, Range
    <2>3. /\ IsFiniteSet(Range(blocks))
          /\ Cardinality(Range(blocks)) <= Cardinality(1..Len(blocks))
      BY <2>1, <2>2, FS_Surjection
    <2>4. Cardinality(Range(blocks)) \in Nat
      BY <2>3, FS_CardinalityType
    <2> QED
      BY <2>1, <2>3, <2>4
  <1>7. ASSUME Served = {}
        PROVE  needed > Cardinality(Block)
    <2>1. \A r \in Req : table[r] = <<>>
      BY <1>1, <1>2, <1>7 DEF BlockInv, TableInv
    <2>2. FreeBlocks = Block
      BY <2>1 DEF FreeBlocks, Held, Range
    <2>3. Range(blocks) \cap FreeBlocks = Range(blocks)
      BY <1>2, <2>2 DEF Range
    <2>4. Len(table[cur]) = 0
      BY <1>2
    <2>5. BlocksToAllocate(cur, blocks, Len(Prompt[cur]))
            = Monus(needed, 0 + Len(blocks)) + Cardinality(Range(blocks))
      BY <2>3, <2>4 DEF BlocksToAllocate, needed
    <2>6. Monus(needed, 0 + Len(blocks)) = needed - Len(blocks)
      BY <1>2, <1>3 DEF Monus
    <2>7. IsFiniteSet(Block) /\ Cardinality(Block) \in Nat
      <3>1. NumBlocks - 1 \in Int
        BY SizeAssumption DEF SizeAssumption
      <3>2. IsFiniteSet(Block)
        BY <3>1, FS_Interval DEF Block
      <3> QED
        BY <3>2, FS_CardinalityType
    <2> QED
      BY <1>2, <1>3, <1>5, <1>6, <2>2, <2>5, <2>6, <2>7
  <1>8. RefusedOnlyForOthers'
    BY <1>1, <1>7 DEF RefusedOnlyForOthers, Served, needed, Block, BlocksFor
  <1>9. TableInv' /\ LengthInv' /\ MatchInv'
    BY <1>1 DEF BlockInv, TableInv, LengthInv, MatchInv, Served, Length, Ahead, Started
  <1>10. CacheInv'
    BY <1>1 DEF BlockInv, CacheInv, Texts, TextOf
  <1> QED
    BY <1>8, <1>9, <1>10 DEF BlockInv

\* The prompt's blocks are enough to start decoding.
LEMMA PrefillSyncBlocks ==
    ASSUME IndInv, BlockInv, PrefillSync
    PROVE  BlockInv'
  <1>1. /\ at = "prefill_sync" /\ cur \in Req /\ status[cur] = "prefill" /\ outLen[cur] = 0
        /\ status' = [status EXCEPT ![cur] = "decoding"]
        /\ at' = "idle" /\ cur' = NoReq /\ UNCHANGED <<table, hash, outLen, drafts>>
        /\ TypeInv /\ TableInv /\ LengthInv /\ CacheInv
    BY DEF PrefillSync, IndInv, ControlInv, OutputInv, BlockInv, managerVars
  <1>2. \A r \in Req : r \in Served' <=> r \in Served \/ r = cur
    BY <1>1 DEF TypeInv, Served
  <1>3. TableInv'
    BY <1>1, <1>2 DEF TableInv
  <1>4. CacheInv' /\ MatchInv' /\ RefusedOnlyForOthers'
    BY <1>1 DEF CacheInv, Texts, TextOf, MatchInv, RefusedOnlyForOthers
  <1>5. LengthInv'
    <2> SUFFICES ASSUME NEW r \in Req, r \in Served', Len(Output[r]) # 0
                 PROVE  /\ BlocksFor(Length(r) + 0) <= Len(table[r])
                        /\ Len(table[r]) <= BlocksFor(Length(r) + 0 + NumSpec)
      BY <1>1 DEF LengthInv, Length, Ahead, Started, BlocksFor, Served
    <2>1. CASE r = cur
      <3>1. /\ Len(Prompt[r]) \in Nat /\ NumSpec \in Nat /\ Length(r) + 0 = Len(Prompt[r])
            /\ Len(table[r]) = BlocksFor(Len(Prompt[r]))
        BY <1>1, <2>1, Lengths DEF Length, LengthInv
      <3>2. /\ BlocksFor(Len(Prompt[r])) \in Nat
            /\ BlocksFor(Len(Prompt[r])) <= BlocksFor(Len(Prompt[r]) + NumSpec)
        <4>1. Len(Prompt[r]) + NumSpec \in Nat /\ Len(Prompt[r]) <= Len(Prompt[r]) + NumSpec
          BY <3>1
        <4> QED
          BY <3>1, <4>1, BlocksForMonotone
      <3> QED
        BY <3>1, <3>2
    <2>2. CASE r # cur
      <3>1. r \in Served /\ Ahead(r) = 0 /\ Started(r) = 0
        BY <1>1, <1>2, <2>2 DEF Ahead, Started
      <3> QED
        BY <1>1, <3>1 DEF LengthInv
    <2> QED
      BY <2>1, <2>2
  <1> QED
    BY <1>3, <1>4, <1>5 DEF BlockInv

\* A decode step gets the slots of its bonus and drafts, or nothing changes.
LEMMA DecodeAllocateBlocks ==
    ASSUME IndInv, BlockInv, NEW r \in Req, DecodeAllocate(r)
    PROVE  BlockInv'
  <1> DEFINE n == 1 + Drafts(r)
  <1>1. /\ at = "idle" /\ cur = NoReq /\ status[r] = "decoding" /\ r \in Served
        /\ UNCHANGED <<engineReq, status, outLen, blocks>>
        /\ TypeInv /\ TableInv /\ LengthInv /\ CacheInv
    BY DEF DecodeAllocate, IndInv, ControlInv, BlockInv, Served
  <1>2. CASE UNCHANGED <<table, hash, at, cur, drafts>>
    <2>1. TableInv' /\ LengthInv' /\ MatchInv' /\ RefusedOnlyForOthers'
      BY <1>1, <1>2 DEF TableInv, LengthInv, MatchInv, RefusedOnlyForOthers,
                        Served, Length, Ahead, Started
    <2>2. CacheInv'
      BY <1>1, <1>2 DEF CacheInv, Texts, TextOf
    <2> QED
      BY <2>1, <2>2 DEF BlockInv
  <1>3. CASE /\ ManagerAllocates(r, n, <<>>)
             /\ drafts' = Drafts(r) /\ at' = "decode_sync" /\ cur' = r
    <2>1. /\ Drafts(r) \in Nat /\ Drafts(r) <= NumSpec /\ NumSpec \in Nat
          /\ Length(r) \in Nat /\ Texts \in [Req -> Seq(Token)]
      BY <1>1, DraftsBound, TextsType, Lengths DEF TypeInv
    <2>2. engineReq[r].tokens = Texts[r] /\ engineReq[r].computed = Length(r)
      <3>1. /\ engineReq[r] = [tokens |-> TextOf(r), computed |-> Len(TextOf(r))]
            /\ Texts[r] = TextOf(r) /\ Len(TextOf(r)) = Length(r)
        BY <1>1, TextsType DEF IndInv, EngineInv
      <3> QED
        BY <3>1
    <2>3. table[r] \o <<>> = table[r] /\ Len(<<>>) = 0 /\ <<>> \in Seq(Block)
      BY <1>1 DEF TableInv
    <2>4. Fitting(hash, table, Texts, r, table[r])
      <3>1. Caches(hash, table, Texts)
        BY <1>1 DEF CacheInv
      <3>2. \A i \in 1..Len(table[r]) : hash[table[r][i]] # <<>> =>
               Len(hash[table[r][i]]) = i * BlockSize /\ IsPrefix(hash[table[r][i]], Texts[r])
        BY <3>1 DEF Caches
      <3>3. \A q \in Req \ {r} : \A i \in 1..Len(table[r]), j \in 1..Len(table[q]) :
               table[r][i] = table[q][j] => hash[table[r][i]] # <<>>
        BY <3>1 DEF Caches
      <3> QED
        BY <3>2, <3>3, Zenon DEF Fitting
    <2>5. n \in Nat /\ Length(r) + n = Length(r) + 0 * BlockSize + n
      <3>1. 0 * BlockSize = 0
        BY SizeAssumption DEF SizeAssumption
      <3> QED
        BY <2>1, <3>1
    <2> DEFINE total == Length(r) + n
    <2>6. total \in Nat /\ BlocksFor(total) \in Nat
      <3>1. total \in Nat
        BY <2>1, <2>5
      <3> QED
        BY <3>1, BlocksForBounds
    <2>7. Allocated(r, <<>>, total)
      <3> HIDE DEF n
      <3>1. IsInjective(table[r] \o <<>>) /\ Fitting(hash, table, Texts, r, table[r] \o <<>>)
        BY <1>1, <2>3, <2>4 DEF TableInv
      <3>2. total = engineReq[r].computed + Len(<<>>) * BlockSize + n
        BY <2>2, <2>3, <2>5
      <3>3. engineReq[r].computed \in Nat
        BY <2>1, <2>2
      <3> HIDE DEF total
      <3>4. Allocating(r, <<>>, n, total)
        BY <1>1, <1>3, <2>2, <2>3, <2>5, <3>1, <3>2, <3>3, Zenon DEF Allocating
      <3> QED
        BY <1>1, <2>1, <3>4, AllocateStep, Zenon
    <2> HIDE DEF n, total
    <2>8. PICK t \in Seq(Block) :
            /\ table' = [table EXCEPT ![r] = t] /\ IsInjective(t)
            /\ Len(t) = Len(table[r]) + 0 + Monus(BlocksFor(total), Len(table[r]) + 0)
      BY <2>3, <2>7, Zenon DEF Allocated
    <2>9. table'[r] = t /\ \A q \in Req \ {r} : table'[q] = table[q]
      BY <1>1, <2>8 DEF TableInv
    <2>10. /\ Len(table[r]) \in Nat
           /\ \/ Len(t) = Len(table[r]) /\ BlocksFor(total) <= Len(t)
              \/ Len(t) = BlocksFor(total)
      <3>1. Len(table[r]) \in Nat
        BY <1>1 DEF TableInv
      <3> QED
        BY <2>6, <2>8, <3>1 DEF Monus
    <2>11. TableInv'
      BY <1>1, <1>3, <2>8, <2>9 DEF TableInv, Served
    <2>12. MatchInv' /\ RefusedOnlyForOthers'
      BY <1>3 DEF MatchInv, RefusedOnlyForOthers
    <2>13. LengthInv'
      <3>1. ASSUME NEW q \in Req, q \in Served, Len(Output[q]) # 0
            PROVE  /\ BlocksFor(Length(q) + (IF q = r THEN n ELSE 0)) <= Len(table'[q])
                   /\ Len(table'[q]) <= BlocksFor(Length(q) + (IF q = r THEN 1 ELSE 0) + NumSpec)
        <4>1. /\ BlocksFor(Length(q) + 0) <= Len(table[q])
              /\ Len(table[q]) <= BlocksFor(Length(q) + 0 + NumSpec)
          BY <1>1, <3>1 DEF LengthInv, Ahead, Started
        <4>2. CASE q # r
          BY <2>9, <4>1, <4>2
        <4>3. CASE q = r
          <5>1. BlocksFor(total) <= Len(t)
            BY <2>6, <2>10
          <5>2. Len(t) <= BlocksFor(Length(r) + 1 + NumSpec)
            <6>1. /\ Length(r) + 0 + NumSpec \in Nat /\ Length(r) + 1 + NumSpec \in Nat
                  /\ Length(r) + 0 + NumSpec <= Length(r) + 1 + NumSpec
                  /\ total <= Length(r) + 1 + NumSpec
              BY <2>1 DEF total, n
            <6>2. /\ BlocksFor(Length(r) + 0 + NumSpec) <= BlocksFor(Length(r) + 1 + NumSpec)
                  /\ BlocksFor(Length(r) + 0 + NumSpec) \in Nat
                  /\ BlocksFor(total) <= BlocksFor(Length(r) + 1 + NumSpec)
                  /\ BlocksFor(Length(r) + 1 + NumSpec) \in Nat
              BY <2>6, <6>1, BlocksForMonotone
            <6> QED
              BY <2>6, <2>10, <4>1, <4>3, <6>2
          <5> QED
            BY <2>9, <4>3, <5>1, <5>2 DEF total
        <4> QED
          BY <4>2, <4>3
      <3>2. \A q \in Req : /\ Length(q)' = Length(q)
                           /\ Ahead(q)' = (IF q = r THEN n ELSE 0)
                           /\ Started(q)' = (IF q = r THEN 1 ELSE 0)
        BY <1>1, <1>3 DEF Length, Ahead, Started, n
      <3>3. Served' = Served /\ at' # "prefill_sync"
        BY <1>1, <1>3 DEF Served
      <3>4. ASSUME NEW q \in Served', Len(Output[q]) # 0
            PROVE  /\ BlocksFor(Length(q)' + Ahead(q)') <= Len(table'[q])
                   /\ Len(table'[q]) <= BlocksFor(Length(q)' + Started(q)' + NumSpec)
        <4>1. q \in Req /\ q \in Served
          BY <3>3, <3>4 DEF Served
        <4> QED
          BY <3>1, <3>2, <3>4, <4>1
      <3> QED
        BY <3>3, <3>4 DEF LengthInv, BlocksFor
    <2> QED
      BY <2>7, <2>11, <2>12, <2>13 DEF BlockInv, Allocated
  <1> QED
    BY <1>2, <1>3 DEF DecodeAllocate, AllocateSucceeds, AllocateFails, managerVars

\* Accepted tokens take the slots the step was given; those of rejected drafts
\* stay for the next step.
LEMMA DecodeSyncBlocks ==
    ASSUME IndInv, IndInv', BlockInv, DecodeSync
    PROVE  BlockInv'
  <1>1. /\ at = "decode_sync" /\ at' = "idle" /\ cur \in Req /\ status[cur] = "decoding"
        /\ UNCHANGED <<table, hash, blocks>> /\ drafts \in Nat
        /\ TypeInv /\ TableInv /\ LengthInv /\ CacheInv
    BY DEF DecodeSync, IndInv, TypeInv, ControlInv, BlockInv, managerVars
  <1>2. PICK a \in 0..drafts :
          /\ outLen' = [outLen EXCEPT ![cur] = outLen[cur] + Bonus(cur) + a]
          /\ status' = [status EXCEPT ![cur] =
                  IF outLen[cur] + Bonus(cur) + a >= Len(Output[cur]) THEN "finished" ELSE @]
    BY DEF DecodeSync
  <1> DEFINE n == outLen[cur] + Bonus(cur) + a
  <1>3. /\ n \in outLen[cur]..Len(Output[cur]) /\ n \in Nat
        /\ Len(Output[cur]) # 0 => n = outLen[cur] + 1 + a
    BY <1>1, DecodeSyncEffect
  <1>4. /\ outLen' = [outLen EXCEPT ![cur] = n]
        /\ \E z \in {"decoding", "finished"} : status' = [status EXCEPT ![cur] = z]
    BY <1>1, <1>2
  <1> HIDE DEF n
  <1>5. Served' = Served
    BY <1>1, <1>4 DEF TypeInv, Served
  <1>6. /\ outLen'[cur] = n /\ \A r \in Req \ {cur} : outLen'[r] = outLen[r]
        /\ outLen[cur] \in Nat /\ outLen[cur] <= n /\ n <= Len(Output[cur])
    BY <1>1, <1>3, <1>4 DEF TypeInv
  <1>7. TableInv' /\ MatchInv' /\ RefusedOnlyForOthers'
    BY <1>1, <1>5 DEF TableInv, MatchInv, RefusedOnlyForOthers
  <1>8. CacheInv'
    <2>1. Texts \in [Req -> Seq(Token)] /\ Texts' \in [Req -> Seq(Token)]
      <3>1. ASSUME NEW r \in Req PROVE Texts'[r] \in Seq(Token)
        <4>1. outLen'[r] \in 0..Len(Output[r])
          BY Lengths DEF IndInv, TypeInv, OutputInv
        <4>2. Texts'[r] = TextAt(r, outLen'[r])
          BY DEF Texts, TextOf, TextAt
        <4> QED
          BY <4>1, <4>2, TextType
      <3> QED
        BY <3>1, TextsType DEF Texts
    <2>2. ASSUME NEW r \in Req
          PROVE  IsPrefix(Texts[r], Texts'[r])
      <3>0. Texts[r] = TextAt(r, outLen[r]) /\ Texts'[r] = TextAt(r, outLen'[r])
        BY DEF Texts, TextOf, TextAt
      <3>1. CASE r = cur
        <4>1. n \in 0..Len(Output[r]) /\ outLen[r] \in 0..n
          BY <1>3, <1>6, <3>1, Lengths
        <4>2. IsPrefix(TextAt(r, outLen[r]), TextAt(r, n))
          BY <4>1, TextGrows
        <4> QED
          BY <1>6, <3>0, <3>1, <4>2
      <3>2. CASE r # cur
        <4>1. Texts[r] \in Seq(Token) /\ Texts'[r] = Texts[r]
          BY <1>6, <2>1, <3>0, <3>2
        <4> QED
          BY <4>1, PrefixPoints
      <3> QED
        BY <3>1, <3>2
    <2>3. /\ hash \in [Block -> Seq(Token)] /\ table \in [Req -> Seq(Block)]
          /\ Caches(hash, table, Texts)
      BY <1>1 DEF CacheInv, TableInv
    <2>4. Caches(hash, table, Texts')
      BY <2>1, <2>2, <2>3, CachesGrow, Zenon
    <2> QED
      BY <1>1, <2>3, <2>4 DEF CacheInv
  <1>9. LengthInv'
    <2>1. ASSUME NEW r \in Req, r \in Served, Len(Output[r]) # 0
          PROVE  /\ BlocksFor(Len(Prompt[r]) + outLen'[r] + 0) <= Len(table[r])
                 /\ Len(table[r]) <= BlocksFor(Len(Prompt[r]) + outLen'[r] + 0 + NumSpec)
      <3>1. /\ BlocksFor(Length(r) + Ahead(r)) <= Len(table[r])
            /\ Len(table[r]) <= BlocksFor(Length(r) + Started(r) + NumSpec)
        BY <1>1, <2>1 DEF LengthInv
      <3>2. CASE r # cur
        BY <1>6, <3>1, <3>2 DEF Length, Ahead, Started
      <3>3. CASE r = cur
        <4> DEFINE p == Len(Prompt[r]) + outLen[r]
                   q == Len(Prompt[r]) + outLen'[r]
        <4>1. /\ p \in Nat /\ q \in Nat /\ NumSpec \in Nat /\ Len(table[r]) \in Nat
              /\ q = p + 1 + a /\ a \in Nat /\ a <= drafts
          <5>1. /\ Len(Prompt[r]) \in Nat /\ NumSpec \in Nat /\ Len(table[r]) \in Nat
                /\ outLen[r] \in Nat /\ a \in Nat /\ a <= drafts
            BY <1>1, <1>6, <3>3, Lengths DEF TableInv
          <5>2. outLen'[r] = outLen[r] + 1 + a
            BY <1>3, <1>6, <2>1, <3>3
          <5> QED
            BY <5>1, <5>2
        <4>2. /\ BlocksFor(p + (1 + drafts)) <= Len(table[r])
              /\ Len(table[r]) <= BlocksFor(p + 1 + NumSpec)
          BY <1>1, <3>1, <3>3 DEF Length, Ahead, Started
        <4> HIDE DEF p, q
        <4>3. /\ q + 0 \in Nat /\ p + (1 + drafts) \in Nat /\ q + 0 <= p + (1 + drafts)
              /\ p + 1 + NumSpec \in Nat /\ q + 0 + NumSpec \in Nat
              /\ p + 1 + NumSpec <= q + 0 + NumSpec
          BY <1>1, <4>1
        <4>4. /\ BlocksFor(q + 0) <= BlocksFor(p + (1 + drafts))
              /\ BlocksFor(q + 0) \in Nat /\ BlocksFor(p + (1 + drafts)) \in Nat
              /\ BlocksFor(p + 1 + NumSpec) <= BlocksFor(q + 0 + NumSpec)
              /\ BlocksFor(p + 1 + NumSpec) \in Nat /\ BlocksFor(q + 0 + NumSpec) \in Nat
          BY <4>3, BlocksForMonotone
        <4>5. BlocksFor(q + 0) <= Len(table[r]) /\ Len(table[r]) <= BlocksFor(q + 0 + NumSpec)
          BY <4>1, <4>2, <4>4
        <4> QED
          BY <4>5 DEF q
      <3> QED
        BY <3>2, <3>3
    <2>2. \A r \in Req : /\ Length(r)' = Len(Prompt[r]) + outLen'[r]
                         /\ Ahead(r)' = 0 /\ Started(r)' = 0
      BY <1>1 DEF Length, Ahead, Started
    <2>3. ASSUME NEW r \in Served', Len(Output[r]) # 0
          PROVE  /\ BlocksFor(Length(r)' + Ahead(r)') <= Len(table'[r])
                 /\ Len(table'[r]) <= BlocksFor(Length(r)' + Started(r)' + NumSpec)
      <3>1. r \in Req /\ r \in Served
        BY <1>5, <2>3 DEF Served
      <3> QED
        BY <1>1, <2>1, <2>2, <2>3, <3>1
    <2> QED
      BY <1>1, <2>3 DEF LengthInv, BlocksFor
  <1> QED
    BY <1>7, <1>8, <1>9 DEF BlockInv

\* A finished request gives its blocks back, and what they cache stays.
LEMMA CleanupBlocks ==
    ASSUME IndInv, BlockInv, NEW r \in Req, Cleanup(r)
    PROVE  BlockInv'
  <1>1. /\ at = "idle" /\ table' = [table EXCEPT ![r] = <<>>]
        /\ status' = [status EXCEPT ![r] = "freed"]
        /\ UNCHANGED <<hash, outLen, at, cur, blocks, drafts>>
        /\ TypeInv /\ TableInv /\ LengthInv /\ CacheInv
    BY DEF Cleanup, Free, IndInv, BlockInv
  <1>2. /\ table'[r] = <<>> /\ \A q \in Req \ {r} : table'[q] = table[q]
        /\ \A q \in Req : q \in Served' <=> q \in Served /\ q # r
    BY <1>1 DEF TypeInv, TableInv, Served
  <1>3. TableInv'
    <2>1. table' \in [Req -> Seq(Block)]
      BY <1>1 DEF TableInv
    <2>2. IsInjective(<<>>)
      BY DEF IsInjective
    <2> QED
      BY <1>1, <1>2, <2>1, <2>2 DEF TableInv
  <1>4. MatchInv' /\ RefusedOnlyForOthers'
    BY <1>1 DEF MatchInv, RefusedOnlyForOthers
  <1>5. LengthInv'
    <2>1. ASSUME NEW q \in Served', Len(Output[q]) # 0
          PROVE  /\ BlocksFor(Length(q)' + Ahead(q)') <= Len(table'[q])
                 /\ Len(table'[q]) <= BlocksFor(Length(q)' + Started(q)' + NumSpec)
      <3>1. q \in Req /\ q \in Served /\ table'[q] = table[q]
        BY <1>2, <2>1 DEF Served
      <3>2. Length(q)' = Length(q) /\ Ahead(q)' = Ahead(q) /\ Started(q)' = Started(q)
        BY <1>1 DEF Length, Ahead, Started
      <3> QED
        BY <1>1, <2>1, <3>1, <3>2 DEF LengthInv
    <2> QED
      BY <1>1, <2>1 DEF LengthInv, BlocksFor
  <1>6. CacheInv'
    <2>1. Caches(hash, table', Texts)
      BY <1>1, CachesShrink DEF CacheInv, TableInv
    <2> QED
      BY <1>1, <2>1 DEF CacheInv, Texts, TextOf
  <1> QED
    BY <1>3, <1>4, <1>5, <1>6 DEF BlockInv

\* The invariant of the block pool holds throughout.
LEMMA BlocksInductive ==
    Spec => [](IndInv /\ BlockInv)
  <1>1. Init => BlockInv
    BY InitBlocks
  <1>2. IndInv /\ IndInv' /\ BlockInv /\ [Next]_vars => BlockInv'
    <2> SUFFICES ASSUME IndInv, IndInv', BlockInv, [Next]_vars PROVE BlockInv'
      OBVIOUS
    <2>1. CASE UNCHANGED vars
      <3>1. UNCHANGED <<table, hash, status, numComputed, outLen, at, cur, blocks, drafts>>
        BY <2>1 DEF vars, managerVars
      <3>2. TableInv' /\ MatchInv' /\ LengthInv' /\ RefusedOnlyForOthers'
        BY <3>1 DEF BlockInv, TableInv, MatchInv, LengthInv, RefusedOnlyForOthers,
                    Served, Length, Ahead, Started
      <3>3. CacheInv'
        BY <3>1 DEF BlockInv, CacheInv, Texts, TextOf
      <3> QED
        BY <3>2, <3>3 DEF BlockInv
    <2>2. ASSUME NEW r \in Req, PrefillMatch(r) PROVE BlockInv'
      BY <2>2, PrefillMatchBlocks
    <2>3. ASSUME NEW r \in Req, DecodeAllocate(r) PROVE BlockInv'
      BY <2>3, DecodeAllocateBlocks
    <2>4. ASSUME NEW r \in Req, Cleanup(r) PROVE BlockInv'
      BY <2>4, CleanupBlocks
    <2>5. CASE PrefillAllocate
      <3>1. at' = "prefill_sync" \/ at' = "raised_oom"
        BY <2>5 DEF PrefillAllocate
      <3> QED
        BY <2>5, <3>1, PrefillAllocateBlocks, PrefillRefusedBlocks
    <2>6. CASE PrefillSync
      BY <2>6, PrefillSyncBlocks
    <2>7. CASE DecodeSync
      BY <2>7, DecodeSyncBlocks
    <2> QED
      BY <2>1, <2>2, <2>3, <2>4, <2>5, <2>6, <2>7 DEF Next
  <1> QED
    BY <1>1, <1>2, Inductive, PTL DEF Spec

\* Between steps the blocks of a request cover what is computed and at most one
\* step's drafts more: those of rejected drafts, which free_rejected_slots leaves
\* where they are, are taken again and never pile up.
THEOREM RejectedBlocksBounded == Spec => []RejectedBlocksReused
  <1>1. IndInv /\ BlockInv => RejectedBlocksReused
    <2> SUFFICES ASSUME IndInv, BlockInv, at = "idle", NEW r \in Served, Output[r] # <<>>
                 PROVE  /\ numComputed[r] <= BlockSize * Len(table[r])
                        /\ Len(table[r]) <= BlocksFor(numComputed[r] + NumSpec)
      BY DEF RejectedBlocksReused
    <2>1. r \in Req /\ Len(Output[r]) # 0 /\ Ahead(r) = 0 /\ Started(r) = 0
      BY Lengths DEF Served, Ahead, Started
    <2>2. numComputed[r] = Length(r) /\ Length(r) \in Nat /\ NumSpec \in Nat
      <3>1. numComputed[r] = Len(Prompt[r]) + outLen[r] + 0
        BY <2>1 DEF IndInv, CountInv
      <3>2. /\ Len(Prompt[r]) \in Nat /\ outLen[r] \in Nat /\ NumSpec \in Nat
        BY <2>1, Lengths DEF IndInv, TypeInv
      <3> QED
        BY <3>1, <3>2 DEF Length
    <2>3. /\ BlocksFor(Length(r) + 0) <= Len(table[r])
          /\ Len(table[r]) <= BlocksFor(Length(r) + 0 + NumSpec)
      BY <2>1 DEF BlockInv, LengthInv
    <2>4. /\ BlocksFor(Length(r)) <= Len(table[r])
          /\ Len(table[r]) <= BlocksFor(Length(r) + NumSpec)
      BY <2>2, <2>3
    <2>5. Length(r) <= BlockSize * Len(table[r])
      <3> DEFINE b == BlocksFor(Length(r))
      <3>1. b \in Nat /\ Length(r) <= BlockSize * b
        BY <2>2, BlocksForBounds
      <3>2. Len(table[r]) \in Nat /\ BlockSize \in Nat \ {0} /\ b <= Len(table[r])
        BY <2>1, <2>4, SizeAssumption DEF BlockInv, TableInv, SizeAssumption
      <3> HIDE DEF b
      <3>3. b * BlockSize \in Nat /\ b * BlockSize <= Len(table[r]) * BlockSize
            /\ Len(table[r]) * BlockSize \in Nat
        BY <3>1, <3>2, SlotsMonotone
      <3>4. \A m \in Nat, p \in Nat : m * p = p * m
        BY Z3
      <3>5. BlockSize * b = b * BlockSize /\ BlockSize * Len(table[r]) = Len(table[r]) * BlockSize
        BY <3>1, <3>2, <3>4
      <3> QED
        BY <2>2, <3>1, <3>3, <3>5
    <2> QED
      BY <2>2, <2>4, <2>5
  <1> QED
    BY <1>1, BlocksInductive, PTL

\* The prefix cache never shows a draft: what a block caches is accepted text, at
\* its place in every table that holds the block, so two requests hold the same
\* block only where their texts agree up to its end.
THEOREM CacheIsAcceptedText == Spec => []CacheHoldsAcceptedText
  <1>1. IndInv /\ BlockInv => CacheHoldsAcceptedText
    <2> SUFFICES ASSUME IndInv, BlockInv PROVE CacheHoldsAcceptedText
      OBVIOUS
    <2>1. /\ Caches(hash, table, Texts) /\ hash \in [Block -> Seq(Token)]
          /\ \A r \in Req : /\ TextOf(r) \in Seq(Token) /\ Texts[r] = TextOf(r)
                            /\ DOMAIN table[r] = 1..Len(table[r])
                            /\ table[r] \in Seq(Block)
      BY TextsType DEF BlockInv, CacheInv, TableInv
    <2>2. ASSUME NEW r \in Req, NEW i \in DOMAIN table[r], hash[table[r][i]] # <<>>
          PROVE  Len(hash[table[r][i]]) = i * BlockSize /\ IsPrefix(hash[table[r][i]], TextOf(r))
      BY <2>1, <2>2 DEF Caches
    <2>3. ASSUME NEW b \in Block, hash[b] # <<>>
          PROVE  \E r \in Req : IsPrefix(hash[b], TextOf(r))
      BY <2>1, <2>3 DEF Caches
    <2>4. ASSUME NEW r \in Req, NEW q \in Req, r # q,
                 NEW i \in DOMAIN table[r], NEW j \in DOMAIN table[q],
                 table[r][i] = table[q][j]
          PROVE  /\ i = j /\ i * BlockSize <= Len(TextOf(r))
                 /\ IsPrefix(Key(TextOf(r), i), TextOf(q))
      <3> DEFINE k == hash[table[r][i]]
      <3>1. k # <<>> /\ k \in Seq(Token) /\ i \in Nat \ {0} /\ j \in Nat \ {0}
        <4>1. i \in 1..Len(table[r]) /\ j \in 1..Len(table[q]) /\ table[r][i] \in Block
          BY <2>1
        <4>2. k # <<>>
          <5>1. \A m \in 1..Len(table[r]), n \in 1..Len(table[q]) :
                   table[r][m] = table[q][n] => hash[table[r][m]] # <<>>
            BY <2>1, <2>4 DEF Caches
          <5> QED
            BY <2>4, <4>1, <5>1, Zenon
        <4>3. k \in Seq(Token)
          BY <2>1, <4>1
        <4> QED
          BY <2>1, <4>1, <4>2, <4>3
      <3>2. /\ Len(k) = i * BlockSize /\ IsPrefix(k, TextOf(r))
            /\ Len(k) = j * BlockSize /\ IsPrefix(k, TextOf(q))
        <4>1. Len(k) = i * BlockSize /\ IsPrefix(k, TextOf(r))
          BY <2>2, <3>1
        <4>2. k = hash[table[q][j]]
          BY <2>4
        <4>3. hash[table[q][j]] # <<>>
          BY <3>1, <4>2
        <4>4. Len(hash[table[q][j]]) = j * BlockSize /\ IsPrefix(hash[table[q][j]], TextOf(q))
          BY <2>2, <4>3
        <4> QED
          BY <4>1, <4>2, <4>4, Zenon
      <3> HIDE DEF k
      <3>3. i = j
        BY <3>1, <3>2, SlotsInjective
      <3>4. i * BlockSize <= Len(TextOf(r))
        BY <2>1, <3>1, <3>2, PrefixPoints
      <3>5. k = Key(TextOf(r), i)
        BY <2>1, <3>1, <3>2, <3>4, KeyOfBlock
      <3> QED
        BY <3>2, <3>3, <3>4, <3>5
    <2> QED
      BY <2>2, <2>3, <2>4 DEF CacheHoldsAcceptedText
  <1> QED
    BY <1>1, BlocksInductive, PTL

\* A prefill that finds no other request being served is refused only when the
\* prompt alone has more blocks than the pool: freed requests leave nothing taken.
THEOREM RefusalNeedsOthers == Spec => []RefusedOnlyForOthers
  <1>1. BlockInv => RefusedOnlyForOthers
    BY DEF BlockInv
  <1> QED
    BY <1>1, BlocksInductive, PTL
=============================================================================
