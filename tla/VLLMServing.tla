---------------------------- MODULE VLLMServing ----------------------------
(***************************************************************************)
(* Requests served through vLLMBackend                                     *)
(* (src/simulator/kv_cache/vllm_backend.py) by the scheduler's handlers.    *)
(* The backend keeps a vLLM request for each one being served and has to    *)
(* keep it in step with the simulator's request; the block pool is vLLM's   *)
(* KVCacheManager, which is not in the repository: one attention group of   *)
(* it is modelled, from the calls and comments of the backend.              *)
(***************************************************************************)
EXTENDS Integers, SequencesExt

CONSTANTS
    Req,          \* requests
    Token,        \* token ids
    Prompt,       \* Prompt[r]: prompt_token_ids
    Output,       \* Output[r]: ground_truth_output
    BlockSize,    \* scheduler_block_size = hash_block_size
    NumBlocks,    \* total_blocks, with the null block
    NumSpec,      \* num_spec_tokens
    NoReq,        \* no request
    NoEngineReq,  \* _vllm_request is None
    NoDemand      \* last_alloc_required_blocks is None

ASSUME WorkloadAssumption ==
    /\ Prompt \in [Req -> Seq(Token)] /\ Output \in [Req -> Seq(Token)]
    /\ NoReq \notin Req /\ NoDemand \notin Nat

ASSUME SizeAssumption ==
    /\ BlockSize \in Nat \ {0} /\ NumBlocks \in Nat \ {0} /\ NumSpec \in Nat

VARIABLES
    table,        \* table[r]: blocks the manager holds for r (external)
    hash,         \* hash[b]: the text whose last block b caches (external)
    engineReq,    \* engineReq[r]: _vllm_request, its tokens and num_computed_tokens
    required,     \* last_alloc_required_blocks
    status,       \* status[r], with "freed" once _cleanup deleted r
    numComputed,  \* numComputed[r]: num_computed_tokens of the scheduler
    outLen,       \* outLen[r]: len(output_token_ids)
    at,           \* where the running handler stands, "idle" between handlers
    cur,          \* the request the running handler works for
    blocks,       \* the matched blocks that _handle_prefill holds
    drafts        \* K of the running decode step

managerVars == <<table, hash>>
vars == <<managerVars, engineReq, required, status, numComputed, outLen, at,
          cur, blocks, drafts>>

Init ==
    /\ table = [r \in Req |-> <<>>]
    /\ hash = [b \in 1..(NumBlocks - 1) |-> <<>>]
    /\ engineReq = [r \in Req |-> NoEngineReq]
    /\ required = NoDemand
    /\ status = [r \in Req |-> "prefill"]
    /\ numComputed = [r \in Req |-> 0] /\ outLen = [r \in Req |-> 0]
    /\ at = "idle" /\ cur = NoReq /\ blocks = <<>> /\ drafts = 0

AtMost(a, b) == IF a < b THEN a ELSE b
Monus(a, b) == IF a < b THEN 0 ELSE a - b

-----------------------------------------------------------------------------
(* KVCacheManager, external                                                *)

Block == 1..(NumBlocks - 1)   \* without the null block
Held == UNION {Range(table[r]) : r \in Req}
FreeBlocks == Block \ Held

BlocksFor(n) == (n + BlockSize - 1) \div BlockSize
Key(text, i) == SubSeq(text, 1, i * BlockSize)

\* get_computed_blocks: the longest cached prefix that leaves a token to compute
HitLength(text) ==
    LET cached(i) == \E b \in Block : hash[b] = Key(text, i)
    IN Max({0} \cup {k \in 1..((Len(text) - 1) \div BlockSize) :
                        \A i \in 1..k : cached(i)})
Hits(text) ==
    {h \in [1..HitLength(text) -> Block] :
        \A i \in DOMAIN h : hash[h[i]] = Key(text, i)}

\* get_num_blocks_to_allocate: new blocks, and matched ones that nobody holds
BlocksToAllocate(r, hit, numTokens) ==
    Monus(BlocksFor(numTokens), Len(table[r]) + Len(hit))
        + Cardinality(Range(hit) \cap FreeBlocks)

\* The blocks of one request, the new ones any free blocks in any order
Extended(r, hit, n) ==
    {table[r] \o hit \o new : new \in Injection(1..n, FreeBlocks \ Range(hit))}

\* allocate_slots for n tokens after the matched ones.  A block allocated anew
\* loses what it cached; then the full blocks of the known tokens are cached,
\* not those of drafts.
ManagerAllocates(r, n, hit) ==
    LET vr    == engineReq[r]
        total == vr.computed + Len(hit) * BlockSize + n
        full  == AtMost(total, Len(vr.tokens)) \div BlockSize
        new   == Monus(BlocksFor(total), Len(table[r]) + Len(hit))
    IN /\ BlocksToAllocate(r, hit, total) <= Cardinality(FreeBlocks)
       /\ \E t \in Extended(r, hit, new) :
            /\ table' = [table EXCEPT ![r] = t]
            /\ hash' = [b \in Block |->
                  IF \E i \in 1..AtMost(full, Len(t)) : t[i] = b
                  THEN Key(vr.tokens, CHOOSE i \in 1..AtMost(full, Len(t)) : t[i] = b)
                  ELSE IF b \in Range(t) \ Range(table[r] \o hit) THEN <<>>
                  ELSE hash[b]]

ManagerRefuses(r, n, hit) ==
    LET total == engineReq[r].computed + Len(hit) * BlockSize + n
    IN BlocksToAllocate(r, hit, total) > Cardinality(FreeBlocks)

-----------------------------------------------------------------------------
(* vLLMBackend                                                             *)

\* register_request: the vLLM request is created once
Registered(r) ==
    IF engineReq[r] # NoEngineReq THEN engineReq
    ELSE [engineReq EXCEPT ![r] = [tokens |-> Prompt[r], computed |-> 0]]

\* The demand reported for a refused allocation
RequiredBlocks(r, n, hit) ==
    BlocksToAllocate(r, hit, engineReq[r].computed + Len(hit) * BlockSize + n)

AllocateSucceeds(r, n, hit) ==
    /\ ManagerAllocates(r, n, hit)
    /\ required' = NoDemand

AllocateFails(r, n, hit) ==
    /\ ManagerRefuses(r, n, hit)
    /\ required' = RequiredBlocks(r, n, hit)
    /\ UNCHANGED managerVars

\* the whole output is appended again
SyncedMutant(r, n) ==
    [engineReq EXCEPT ![r] =
        [tokens |-> @.tokens \o SubSeq(Output[r], 1, n),
         computed |-> Len(Prompt[r]) + n]]
\* the computed drafts are not taken back
SyncedDraftsMutant(r, n) ==
    [engineReq EXCEPT ![r] =
        [tokens |-> Prompt[r] \o SubSeq(Output[r], 1, n),
         computed |-> @.computed + (IF status[r] = "prefill" THEN Len(Prompt[r])
                                                          ELSE 1 + drafts)]]
\* the drafts are still there when the tokens are appended
SyncedUnclearedMutant(r, n) ==
    [engineReq EXCEPT ![r] =
        [tokens |-> Prompt[r] \o SubSeq(Output[r], 1, AtMost(n + drafts, Len(Output[r]))),
         computed |-> Len(Prompt[r]) + n]]
\* sync_to_vllm with n output tokens: appends those not appended yet
Synced(r, n) ==
    LET appended == Len(engineReq[r].tokens) - Len(Prompt[r])
    IN [engineReq EXCEPT ![r] =
           [tokens |-> @.tokens \o SubSeq(Output[r], appended + 1, n),
            computed |-> Len(Prompt[r]) + n]]

\* only the vLLM request is dropped
FreeMutant(r) ==
    /\ engineReq' = [engineReq EXCEPT ![r] = NoEngineReq]
    /\ UNCHANGED managerVars
\* free: what the blocks cache stays cached
Free(r) ==
    /\ engineReq[r] # NoEngineReq
    /\ table' = [table EXCEPT ![r] = <<>>]
    /\ engineReq' = [engineReq EXCEPT ![r] = NoEngineReq]
    /\ UNCHANGED hash

-----------------------------------------------------------------------------
(* The handlers                                                            *)

\* _handle_prefill: register_request, get_computed_blocks
PrefillMatch(r) ==
    /\ at = "idle" /\ status[r] = "prefill"
    /\ engineReq' = Registered(r)
    /\ \E hit \in Hits(engineReq'[r].tokens) :
         /\ blocks' = hit
         /\ numComputed' = [numComputed EXCEPT ![r] = Len(hit) * BlockSize]
    /\ at' = "prefill_allocate" /\ cur' = r
    /\ UNCHANGED <<managerVars, required, status, outLen, drafts>>

\* _handle_prefill: allocate_slots for the rest of the prompt
PrefillAllocate ==
    /\ at = "prefill_allocate"
    /\ LET n == Len(Prompt[cur]) - numComputed[cur]
       IN \/ /\ AllocateSucceeds(cur, n, blocks)
             /\ numComputed' = [numComputed EXCEPT ![cur] = Len(Prompt[cur])]
             /\ at' = "prefill_sync"
          \/ /\ AllocateFails(cur, n, blocks)
             /\ at' = "raised_oom"
             /\ UNCHANGED numComputed
    /\ blocks' = <<>>
    /\ UNCHANGED <<engineReq, status, outLen, cur, drafts>>

\* _handle_prefill: sync_state, then on to decoding
PrefillSync ==
    /\ at = "prefill_sync"
    /\ engineReq' = Synced(cur, 0)
    /\ status' = [status EXCEPT ![cur] = "decoding"]
    /\ at' = "idle" /\ cur' = NoReq
    /\ UNCHANGED <<managerVars, required, numComputed, outLen, blocks, drafts>>

\* generate_draft_tokens: up to NumSpec, cut at the end of the ground truth
Drafts(r) == AtMost(NumSpec, Monus(Len(Output[r]), outLen[r] + 1))

\* The bonus token, absent only past the end of the ground truth
Bonus(r) == IF outLen[r] < Len(Output[r]) THEN 1 ELSE 0

\* _handle_decode: allocate_slots for the bonus and the drafts; on None the
\* step is given up
DecodeAllocate(r) ==
    /\ at = "idle" /\ status[r] = "decoding"
    /\ \/ /\ AllocateSucceeds(r, 1 + Drafts(r), <<>>)
          /\ numComputed' = [numComputed EXCEPT ![r] = @ + 1 + Drafts(r)]
          /\ drafts' = Drafts(r)
          /\ at' = "decode_sync" /\ cur' = r
       \/ /\ AllocateFails(r, 1 + Drafts(r), <<>>)
          /\ UNCHANGED <<numComputed, drafts, at, cur>>
    /\ UNCHANGED <<engineReq, status, outLen, blocks>>

\* _handle_decode: a of the drafts are accepted, the others are taken back from
\* the count only (free_rejected_slots does nothing here); append, sync_state
DecodeSync ==
    /\ at = "decode_sync"
    /\ \E a \in 0..drafts :
         LET n == outLen[cur] + Bonus(cur) + a
         IN /\ numComputed' = [numComputed EXCEPT ![cur] = Monus(@, drafts - a)]
            /\ outLen' = [outLen EXCEPT ![cur] = n]
            /\ engineReq' = Synced(cur, n)
            /\ status' = [status EXCEPT ![cur] =
                             IF n >= Len(Output[cur]) THEN "finished" ELSE @]
    /\ at' = "idle" /\ cur' = NoReq /\ drafts' = 0
    /\ UNCHANGED <<managerVars, required, blocks>>

\* _cleanup: free a finished request
Cleanup(r) ==
    /\ at = "idle" /\ status[r] = "finished"
    /\ Free(r)
    /\ status' = [status EXCEPT ![r] = "freed"]
    /\ UNCHANGED <<required, numComputed, outLen, at, cur, blocks, drafts>>

Next ==
    \/ \E r \in Req : PrefillMatch(r) \/ DecodeAllocate(r) \/ Cleanup(r)
    \/ PrefillAllocate \/ PrefillSync \/ DecodeSync

Spec == Init /\ [][Next]_vars

-----------------------------------------------------------------------------
Served == {r \in Req : status[r] \in {"decoding", "finished"}}
TextOf(r) == Prompt[r] \o SubSeq(Output[r], 1, outLen[r])

\* Between handlers the vLLM request has the text of the simulator's request,
\* each accepted token once and no draft, and counts as many tokens as computed
\* as the scheduler does.  (Both hold after any mix of rejections and refusals;
\* with an empty ground truth the scheduler counts a token of no text.)
EngineMirrorsRequest ==
    at = "idle" => \A r \in Served :
        /\ engineReq[r].tokens = TextOf(r)
        /\ engineReq[r].computed = Len(TextOf(r))
        /\ Output[r] # <<>> => engineReq[r].computed = numComputed[r]

\* free_rejected_slots may do nothing for vLLM: the blocks cover what is computed
\* and never exceed it by more than the drafts of one step, so those of rejected
\* drafts are taken again by the next step and do not pile up.
RejectedBlocksReused ==
    at = "idle" => \A r \in Served : Output[r] # <<>> =>
        /\ numComputed[r] <= BlockSize * Len(table[r])
        /\ Len(table[r]) <= BlocksFor(numComputed[r] + NumSpec)

\* What a block caches is accepted text: of the request that holds it, at its
\* place, and of some request when nobody holds it; a draft is never cached.  So
\* two requests hold the same block only where their texts agree up to its end.
CacheHoldsAcceptedText ==
    /\ \A r \in Req : \A i \in DOMAIN table[r] :
         LET text == hash[table[r][i]]
         IN text # <<>> => Len(text) = i * BlockSize /\ IsPrefix(text, TextOf(r))
    /\ \A b \in Block : hash[b] # <<>> => \E r \in Req : IsPrefix(hash[b], TextOf(r))
    /\ \A r, q \in Req : r # q =>
         \A i \in DOMAIN table[r], j \in DOMAIN table[q] :
             table[r][i] = table[q][j] =>
                 /\ i = j /\ i * BlockSize <= Len(TextOf(r))
                 /\ IsPrefix(Key(TextOf(r), i), TextOf(q))

\* Freed requests leave the whole pool to the others: when a prefill is refused
\* and no other request is being served, the prompt alone is too long for it.
RefusedOnlyForOthers ==
    at = "raised_oom" /\ Served = {} =>
        BlocksFor(Len(Prompt[cur])) > Cardinality(Block)

-----------------------------------------------------------------------------
(* Refinement                                                              *)

\* Tokens the vLLM request counts as computed, those of a prefill once done
HeldOutside(r) == IF r \in Served THEN engineReq[r].computed ELSE 0

Service == INSTANCE KVService WITH
    PromptLen <- [r \in Req |-> Len(Prompt[r])],
    OutputLen <- [r \in Req |-> Len(Output[r])],
    held      <- [r \in Req |-> HeldOutside(r)],
    produced  <- outLen

\* The vLLM backend keeps the contract of KVBackend: with block pool, prefix
\* cache and refusals hidden, what sync_to_vllm makes of a request is its text,
\* although free_rejected_slots does nothing.
ImplementsService == Service!Spec
=============================================================================
