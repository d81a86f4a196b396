--------------------------- MODULE SGLangServing ---------------------------
(***************************************************************************)
(* Requests served through the SGLang backend: the calls that the          *)
(* scheduler's handlers _handle_prefill, _handle_decode and _cleanup       *)
(* (src/simulator/core/scheduler.py) make for one request, one action per  *)
(* backend call.  The program is single-threaded, so one handler runs at a *)
(* time; which request comes next is left open here, which allows every    *)
(* order that admission and the step loop can produce.                     *)
(***************************************************************************)
EXTENDS SGLangBackend

CONSTANTS
    NumSpec,      \* num_spec_tokens
    NoReq         \* stands for no request

ASSUME HandlerAssumption == NumSpec \in Nat /\ NoReq \notin Req

VARIABLES
    status,       \* status[r], with "freed" once _cleanup deleted r
    numComputed,  \* numComputed[r]: num_computed_tokens
    at,           \* where the running handler stands, "idle" between handlers
    cur,          \* the request the running handler works for
    blocks,       \* the matched indices _handle_prefill holds
    drafts,       \* K of the running decode step
    accepted      \* num_accepted of the running decode step

handlerVars == <<status, numComputed, at, cur, blocks, drafts, accepted>>
vars == <<backendVars, handlerVars>>

Init ==
    /\ BackendInit
    /\ status = [r \in Req |-> "prefill"]
    /\ numComputed = [r \in Req |-> 0]
    /\ at = "idle"
    /\ cur = NoReq
    /\ blocks = <<>>
    /\ drafts = 0
    /\ accepted = 0

\* generate_draft_tokens: up to NumSpec, cut at the end of the ground truth
Drafts(r) == LET left == Monus(Len(Output[r]), outLen[r] + 1)
             IN IF NumSpec < left THEN NumSpec ELSE left

\* The bonus token, absent only past the end of the ground truth
Bonus(r) == IF outLen[r] < Len(Output[r]) THEN 1 ELSE 0

\* _handle_prefill: get_computed_blocks
PrefillMatch(r) ==
    /\ at = "idle" /\ status[r] = "prefill"
    /\ \E k \in 0..NumPages(Prompt[r]) :
         /\ GetComputedBlocks(r, k)
         /\ blocks' = CachedSlots(Prompt[r], k)
         /\ numComputed' = [numComputed EXCEPT ![r] = k * PageSize]
    /\ at' = "prefill_allocate" /\ cur' = r
    /\ UNCHANGED <<backendVars, status, drafts, accepted>>

\* _handle_prefill: allocate_slots for the rest of the prompt
PrefillAllocate ==
    /\ at = "prefill_allocate"
    /\ LET n == Len(Prompt[cur]) - numComputed[cur]
       IN \/ /\ AllocateNothing(cur, n, blocks) \/ AllocateSucceeds(cur, n, blocks)
             /\ numComputed' = [numComputed EXCEPT ![cur] = Len(Prompt[cur])]
             /\ at' = "prefill_sync"
          \/ /\ AllocateFails(cur, n, blocks)
             /\ at' = "raised_oom"
             /\ UNCHANGED numComputed
    /\ blocks' = <<>>
    /\ UNCHANGED <<status, cur, drafts, accepted>>

\* _handle_prefill: sync_state, then on to decoding
PrefillSync ==
    /\ at = "prefill_sync"
    /\ IF RowTooShort(cur, 0)
       THEN at' = "raised_assert" /\ UNCHANGED <<backendVars, status>>
       ELSE /\ SyncState(cur, 0)
            /\ status' = [status EXCEPT ![cur] = "decoding"]
            /\ at' = "idle"
    /\ cur' = NoReq
    /\ UNCHANGED <<numComputed, blocks, drafts, accepted>>

\* _handle_decode: allocate_slots for the bonus and the drafts; on None the
\* step is given up
DecodeAllocate(r) ==
    /\ at = "idle" /\ status[r] = "decoding"
    /\ \/ /\ AllocateSucceeds(r, 1 + Drafts(r), <<>>)
          /\ numComputed' = [numComputed EXCEPT ![r] = @ + 1 + Drafts(r)]
          /\ drafts' = Drafts(r)
          /\ at' = "decode_rollback" /\ cur' = r
       \/ /\ AllocateFails(r, 1 + Drafts(r), <<>>)
          /\ UNCHANGED <<numComputed, drafts, at, cur>>
    /\ UNCHANGED <<status, blocks, accepted>>

\* _handle_decode: evaluate, subtract_rejected_tokens, free_rejected_slots.
\* How many drafts are accepted is up to the acceptance rates.
DecodeRollback ==
    /\ at = "decode_rollback"
    /\ \E a \in 0..drafts :
         /\ accepted' = a
         /\ numComputed' = [numComputed EXCEPT ![cur] = Monus(@, drafts - a)]
         /\ IF RejectedTailMissing(cur, drafts - a)
            THEN at' = "raised_tail" /\ UNCHANGED backendVars
            ELSE FreeRejectedSlots(cur, drafts - a) /\ at' = "decode_sync"
    /\ UNCHANGED <<status, cur, blocks, drafts>>

\* _handle_decode: append the bonus and the accepted drafts, sync_state, stop
\* at the maximal length
DecodeSync ==
    /\ at = "decode_sync"
    /\ LET n == outLen[cur] + Bonus(cur) + accepted
       IN IF RowTooShort(cur, n)
          THEN at' = "raised_assert" /\ UNCHANGED <<backendVars, status>>
          ELSE /\ SyncState(cur, n)
               /\ status' = [status EXCEPT ![cur] =
                                IF n >= Len(Output[cur]) THEN "finished" ELSE @]
               /\ at' = "idle"
    /\ drafts' = 0 /\ accepted' = 0 /\ cur' = NoReq
    /\ UNCHANGED <<numComputed, blocks>>

\* _cleanup: free a finished request
Cleanup(r) ==
    /\ at = "idle" /\ status[r] = "finished"
    /\ Free(r)
    /\ status' = [status EXCEPT ![r] = "freed"]
    /\ UNCHANGED <<numComputed, at, cur, blocks, drafts, accepted>>

Next ==
    \/ \E r \in Req : PrefillMatch(r) \/ DecodeAllocate(r) \/ Cleanup(r)
    \/ PrefillAllocate \/ PrefillSync
    \/ DecodeRollback \/ DecodeSync

Spec == Init /\ [][Next]_vars

-----------------------------------------------------------------------------
BackendTypeOK ==
    /\ nextIdx \in Nat /\ freeList \in Seq(Nat)
    /\ swaUsed \in Nat /\ fullUsed \in Nat
    /\ swaPeak \in Nat /\ fullPeak \in Nat
    /\ allocFailure \in {"none", "over_budget", "flat_pool_oom"}
    /\ DOMAIN tree \subseteq Seq(Token)
    /\ \A p \in DOMAIN tree : tree[p] \in Seq(Nat) /\ Len(tree[p]) = PageSize
    /\ row \in [Req -> Seq(Nat)]
    /\ outLen \in [Req -> Nat]
    /\ lastNode \in [Req -> Seq(Token)]
    /\ charged \in [Req -> Nat] /\ evicted \in [Req -> Nat]

HandlerTypeOK ==
    /\ status \in [Req -> {"prefill", "decoding", "finished", "freed"}]
    /\ numComputed \in [Req -> Nat]
    /\ at \in {"idle", "prefill_allocate", "prefill_sync", "decode_rollback",
              "decode_sync", "raised_oom", "raised_tail", "raised_assert"}
    /\ cur \in Req \cup {NoReq}
    /\ blocks \in Seq(Nat)
    /\ drafts \in 0..NumSpec /\ accepted \in 0..drafts

\* The variables keep the types the code gives them; a cached page always has
\* exactly one slot per token, whatever was inserted under a longer key.
TypeOK == BackendTypeOK /\ HandlerTypeOK

\* No interleaving of allocations, evictions, rollbacks and reclaims takes a
\* pool past its capacity, and the reported peak is a true high-water mark
\* (allocate_slots is the only place that raises the use of a pool).
PoolsWithinCaps ==
    /\ swaUsed <= swaPeak /\ swaPeak <= SwaTokens
    /\ fullUsed <= fullPeak /\ fullPeak <= FullTokens

\* The flat dispenser never refuses what the two-pool check let through,
\* although its free list and its fresh range are never combined for one
\* request and evicted slots come back to it in pieces.
FlatPoolNeverBinds == allocFailure # "flat_pool_oom"

\* The use of the full pool covers every slot that was handed out and not
\* returned, whatever the clamp in on_free swallowed.
FullUseCoversSlots == nextIdx - Len(freeList) <= fullUsed

\* The loud failures for broken bookkeeping (the assertion of sync_state, the
\* RuntimeError of free_rejected_slots) are unreachable.
ContractsKept == at \notin {"raised_tail", "raised_assert"}

\* Between handlers the backend's row of a served request has exactly one slot
\* per token the scheduler counts as computed.
RowMatchesComputed ==
    at = "idle" => \A r \in Req :
        status[r] \in {"decoding", "finished"} => Len(row[r]) = numComputed[r]

\* Between handlers the reclaim cursor stays behind the sliding window of the
\* charged tokens by a page, so no slot inside the window is ever given back.
WindowNotReclaimed ==
    at = "idle" => \A r \in Req :
        evicted[r] = 0 \/ evicted[r] + Window + PageSize < charged[r]

\* The SWA pool holds exactly the charged, not yet reclaimed tokens of the
\* requests: nothing is deducted twice and no clamp hides an error.
SwaUseExact ==
    swaUsed = SumFunctionOnSet([r \in Req |-> charged[r] - evicted[r]], Req)

\* Every page a request has locked is still cached, for as long as it is served.
LockedPagesCached ==
    \A r \in Req :
        PrefixPages(lastNode[r], NumPages(lastNode[r])) \subseteq DOMAIN tree

TreeSlots == UNION {Range(tree[p]) : p \in DOMAIN tree}
RowSlots(r) == Range(row[r])

\* A slot has one owner: rows and cached pages hold no slot twice, none of them
\* is on the free list, and a slot is on the free list once.
SlotsOwnedOnce ==
    /\ IsInjective(freeList)
    /\ \A r \in Req : IsInjective(row[r])
    /\ \A p \in DOMAIN tree : IsInjective(tree[p])
    /\ \A p, q \in DOMAIN tree : p # q => Range(tree[p]) \cap Range(tree[q]) = {}
    /\ Range(freeList) \cap (TreeSlots \cup UNION {RowSlots(r) : r \in Req}) = {}

\* Two requests share a slot only where their texts agree up to it, and then
\* through a cached page.
SharedOnlyByPrefix ==
    \A r, q \in Req : r # q =>
        \A i \in DOMAIN row[r], j \in DOMAIN row[q] :
            row[r][i] = row[q][j] =>
                /\ i = j /\ row[r][i] \in TreeSlots
                /\ SubSeq(Text(r, outLen[r]), 1, i) = SubSeq(Text(q, outLen[q]), 1, i)

\* Every slot ever handed out is on the free list, in the row of a request or
\* in a cached page: none is lost to all three.
NoSlotLost ==
    \A i \in 0..(nextIdx - 1) :
        i \in Range(freeList) \cup TreeSlots \cup UNION {RowSlots(r) : r \in Req}

\* The slots of the pages that a step takes out of the tree
GoneSlots == UNION {Range(tree[p]) : p \in DOMAIN tree \ DOMAIN tree'}

\* An eviction never frees a slot that a request being served relies on: one of
\* its row or of the prefix matched for it.
EvictionSparesServed ==
    [][GoneSlots \cap (Range(blocks) \cup UNION {RowSlots(r) : r \in Req}) = {}]_vars

-----------------------------------------------------------------------------
(* Findings 1 and 2 are runs in which a slot has two owners, or none.  Each  *)
(* begins with a step that one of these hypotheses excludes.                 *)

\* The allocation that follows a match does not evict the prefix that was matched:
\* get_computed_blocks takes no lock on it.
MatchSurvives == [][GoneSlots \cap Range(blocks) = {}]_vars

\* The text that the running handler is about to give to sync_state
NextText == Text(cur, IF at = "decode_sync" THEN outLen[cur] + Bonus(cur) + accepted ELSE 0)

\* The tokens that the handler knows to be cached: the match of a prefill, which is
\* what it was not charged for, and what a decode has locked
Known == IF at = "prefill_sync" THEN Len(row[cur]) - charged[cur] ELSE Len(lastNode[cur])

\* A page that a handler is about to insert, if it is cached already, was taken from
\* the cache: no request has computed it a second time in slots of its own.
NoPageRecomputed ==
    at \in {"prefill_sync", "decode_sync"} =>
        \A p \in PrefixPages(NextText, NumPages(NextText)) \cap DOMAIN tree : Len(p) <= Known

-----------------------------------------------------------------------------
(* The inductive invariant: the named parts below together are preserved by *)
(* every step and imply the invariants above.                               *)

\* The pool counters bound the slots that the flat dispenser can be asked for.
PoolInv == PoolsWithinCaps /\ FlatPoolNeverBinds /\ FullUseCoversSlots

\* Who runs where in a handler.
ControlInv ==
    /\ ContractsKept
    /\ at = "idle" => cur = NoReq
    /\ at \in {"prefill_allocate", "prefill_sync", "raised_oom"} =>
         cur \in Req /\ status[cur] = "prefill"
    /\ at \in {"decode_rollback", "decode_sync"} =>
         cur \in Req /\ status[cur] = "decoding"
    /\ at \in {"idle", "prefill_allocate", "prefill_sync"} => drafts = 0

\* Slots a decode step holds beyond the output: the bonus and the drafts, once
\* rolled back only the accepted ones
Ahead(r) == IF r = cur /\ at = "decode_rollback" THEN 1 + drafts
            ELSE IF r = cur /\ at = "decode_sync" THEN 1 + accepted ELSE 0

\* The length of every row, at every point of a handler.
RowInv ==
    /\ \A r \in Req : outLen[r] <= Len(Output[r])
    /\ \A r \in Req : status[r] = "prefill" =>
         outLen[r] = 0 /\ (r # cur => row[r] = <<>>)
    /\ at = "prefill_allocate" =>
         /\ row[cur] = <<>> /\ Len(blocks) = numComputed[cur]
         /\ numComputed[cur] <= Len(Prompt[cur])
    /\ at = "prefill_sync" =>
         /\ Len(row[cur]) = Len(Prompt[cur])
         /\ numComputed[cur] = Len(Prompt[cur])
    /\ at = "decode_rollback" => drafts <= Monus(Len(Output[cur]), outLen[cur] + 1)
    /\ at = "decode_sync" => accepted <= Monus(Len(Output[cur]), outLen[cur] + 1)
    /\ \A r \in Req : status[r] \in {"decoding", "finished"} =>
         /\ Len(row[r]) = numComputed[r]
         /\ Len(Prompt[r]) + outLen[r] + Ahead(r) <= Len(row[r])

\* Drafts whose charge may still be taken back
Revocable(r) == IF r = cur /\ at = "decode_rollback" THEN drafts ELSE 0

\* The reclaim cursor stays behind the window even of the charge that is left
\* when every draft is rejected.
CursorInv ==
    \A r \in Req :
        evicted[r] = 0 \/ evicted[r] + Window + PageSize + Revocable(r) < charged[r]

IndInv == TypeOK /\ PoolInv /\ ControlInv /\ RowInv /\ CursorInv

\* Every request has been charged for what was reclaimed of it and for what may
\* still be taken back, so that no clamp of a deduction cuts anything off.
ChargeInv == \A r \in Req : evicted[r] + Revocable(r) <= charged[r]

SwaInv == SwaUseExact /\ ChargeInv

\* A served request has locked all of the whole pages of its text, and a freed one
\* holds nothing.
LockInv ==
    \A r \in Req :
        /\ status[r] \in {"decoding", "finished"} => lastNode[r] = PageAligned(Text(r, outLen[r]))
        /\ status[r] = "freed" => row[r] = <<>>

\* Every slot in use has been handed out.
FreshInv ==
    /\ Range(freeList) \subseteq 0..(nextIdx - 1)
    /\ TreeSlots \subseteq 0..(nextIdx - 1)
    /\ \A r \in Req : RowSlots(r) \subseteq 0..(nextIdx - 1)

\* The page of a text that position i is in, complete in the text
PageOf(text, i) == SubSeq(text, 1, PageFloor(i - 1) + PageSize)
PageWithin(text, i) == PageFloor(i - 1) + PageSize <= Len(text)

\* The slot is the one cached for position i of the text.
CachedAt(text, i, slot) ==
    /\ PageWithin(text, i) /\ PageOf(text, i) \in DOMAIN tree
    /\ slot = CachedSlot(text, i)

\* A slot of a row that is in the tree is there for the same position of the same
\* text.
RowsCached ==
    \A r \in Req : \A i \in DOMAIN row[r] :
        row[r][i] \in TreeSlots => CachedAt(Text(r, outLen[r]), i, row[r][i])

\* So is every slot of a match, until it is allocated or refused.
MatchCached ==
    at = "prefill_allocate" => \A i \in DOMAIN blocks : CachedAt(Prompt[cur], i, blocks[i])

\* Two rows have nothing in common but slots of the tree.
RowsApart ==
    \A r, q \in Req : r # q => RowSlots(r) \cap RowSlots(q) \subseteq TreeSlots

OwnerInv ==
    SlotsOwnedOnce /\ LockInv /\ FreshInv /\ RowsCached /\ MatchCached /\ RowsApart

\* What a served request has locked is cached in the slots of its row.
LockedCachedInv ==
    \A r \in Req : status[r] \in {"decoding", "finished"} =>
        \A i \in 1..Len(lastNode[r]) : CachedAt(lastNode[r], i, row[r][i])

\* The row of a prefill begins with the match, as far as that is still cached.
RowMatched ==
    at = "prefill_sync" => \A i \in 1..(Len(row[cur]) - charged[cur]) :
        PageOf(Prompt[cur], i) \in DOMAIN tree => row[cur][i] = CachedSlot(Prompt[cur], i)

\* No request is charged for more than its row, and the row of one that decodes is as
\* long as its text and what the step has allocated.
HoldingInv ==
    /\ \A r \in Req : charged[r] <= Len(row[r])
    /\ \A r \in Req : status[r] \in {"prefill", "freed"} => lastNode[r] = <<>>
    /\ \A r \in Req : status[r] = "decoding" =>
         Len(row[r]) = Len(Prompt[r]) + outLen[r] + Ahead(r)
    /\ at = "raised_oom" => Len(row[cur]) = numComputed[cur]

\* Pages are cached whole.
WholePages == \A p \in DOMAIN tree : p # <<>> /\ Len(p) % PageSize = 0

\* What the full pool holds for a request beside the cache: what a prefill is charged
\* for, and then what of the row is not locked
Own(r) == IF status[r] \in {"decoding", "finished"}
          THEN Len(row[r]) - Len(lastNode[r]) ELSE charged[r]

\* The use of the full pool is due to cached pages and to what requests hold beside them.
FullUseInv ==
    fullUsed <= PageSize * Cardinality(DOMAIN tree)
                + SumFunctionOnSet([r \in Req |-> Own(r)], Req)

-----------------------------------------------------------------------------
(* Refinement                                                              *)

\* Tokens held for r, without those of a handler that is under way
HeldOutside(r) == IF status[r] = "prefill" THEN 0 ELSE Len(row[r]) - Ahead(r)

Service == INSTANCE KVService WITH
    PromptLen <- [r \in Req |-> Len(Prompt[r])],
    OutputLen <- [r \in Req |-> Len(Output[r])],
    held      <- [r \in Req |-> HeldOutside(r)],
    produced  <- outLen

\* The SGLang backend keeps the contract of KVBackend: with radix cache,
\* evictions, rollbacks and refusals hidden, a handler either completes and the
\* row has grown by exactly the accepted tokens, or it changed nothing.
ImplementsService == Service!Spec
=============================================================================
