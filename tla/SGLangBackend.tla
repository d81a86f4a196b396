--------------------------- MODULE SGLangBackend ---------------------------
(***************************************************************************)
(* The SGLang KV-cache backend of the simulator                            *)
(* (src/simulator/kv_cache/sglang_backend.py): the flat index dispenser    *)
(* MockTokenToKVPoolAllocator, the two capacity counters [swa, full], the  *)
(* sliding-window reclamation and the handle kept per request.  SGLang's   *)
(* RadixCache, which is not part of the repository, is modelled from how   *)
(* this file calls it.                                                     *)
(*                                                                         *)
(* Pools are counted in token positions: the code multiplies every use and *)
(* every cap of a pool by the same positive slots-per-token constant.      *)
(* Indices are natural numbers handed out from 0, as the allocator does    *)
(* with its default offset.  A cached page is named by the token sequence  *)
(* that ends with it, so a page's ancestors are its page-aligned prefixes. *)
(***************************************************************************)
EXTENDS Integers, SequencesExt

CONSTANTS
    Req,          \* request handles
    Token,        \* token ids
    Prompt,       \* Prompt[r]: prompt_token_ids of r
    Output,       \* Output[r]: ground_truth_output of r
    PageSize,     \* RadixCache page size
    Window,       \* sliding window of the SWA layers
    SwaTokens,    \* capacity of the swa pool, in tokens
    FullTokens    \* capacity of the full pool, in tokens

ASSUME WorkloadAssumption ==
    /\ IsFiniteSet(Req)   \* a workload is a list
    /\ Prompt \in [Req -> Seq(Token)]
    /\ Output \in [Req -> Seq(Token)]

ASSUME SizeAssumption ==
    /\ PageSize \in Nat \ {0}
    /\ Window \in Nat \ {0}
    /\ SwaTokens \in Nat
    /\ FullTokens \in Nat

VARIABLES
    nextIdx,      \* _next_idx: first index never handed out
    freeList,     \* _free_list: returned indices, reused from the tail
    swaUsed,      \* _pool_used[0]
    fullUsed,     \* _pool_used[1]
    swaPeak,      \* _pool_peak[0]
    fullPeak,     \* _pool_peak[1]
    allocFailure, \* last_alloc_failure: which check refused, or "none"
    tree,         \* RadixCache: page |-> the PageSize indices cached for it
    row,          \* row[r]: _allocated_indices, flattened
    outLen,       \* outLen[r]: length of output_token_ids
    lastNode,     \* lastNode[r]: _last_node, the page-aligned text it locks
    charged,      \* charged[r]: swa_charged_tokens
    evicted       \* evicted[r]: swa_evicted_charged

poolVars == <<nextIdx, freeList, swaUsed, fullUsed, swaPeak, fullPeak,
              allocFailure>>
handleVars == <<row, outLen, lastNode, charged, evicted>>
backendVars == <<poolVars, tree, handleVars>>

\* Operators named ...Mutant are plausible defects of the definition they
\* precede; the specification does not use them.

\* max(0, a - b), the clamp on every deduction
Monus(a, b) == IF a > b THEN a - b ELSE 0
Larger(a, b) == IF a > b THEN a ELSE b

BackendInit ==
    /\ nextIdx = 0 /\ freeList = <<>>
    /\ swaUsed = 0 /\ fullUsed = 0
    /\ swaPeak = 0 /\ fullPeak = 0
    /\ allocFailure = "none"
    /\ tree = <<>>
    /\ row = [r \in Req |-> <<>>]
    /\ outLen = [r \in Req |-> 0]
    /\ lastNode = [r \in Req |-> <<>>]
    /\ charged = [r \in Req |-> 0]
    /\ evicted = [r \in Req |-> 0]

-----------------------------------------------------------------------------
(* MockTokenToKVPoolAllocator                                              *)

FlatTotalMutant == FullTokens   \* the flat pool sized to the full pool alone
FlatTotal == FullTokens + SwaTokens

\* allocate(n) succeeds: from the free list if that alone is long enough,
\* else by advancing nextIdx inside the pool.  The two are never combined.
FlatFits(n, pool) == n <= Len(pool) \/ nextIdx + n <= FlatTotal
FlatTaken(n, pool) ==
    IF n <= Len(pool) THEN SubSeq(pool, Len(pool) - n + 1, Len(pool))
                      ELSE [i \in 1..n |-> nextIdx + i - 1]
FlatRestMutant(n, pool) == pool   \* the reused tail stays on the free list
FlatRest(n, pool) ==
    IF n <= Len(pool) THEN SubSeq(pool, 1, Len(pool) - n) ELSE pool
\* the fresh range overlaps the one before by an index
FlatNextMutant(n, pool) == IF n <= Len(pool) THEN nextIdx ELSE nextIdx + n - 1
FlatNext(n, pool) == IF n <= Len(pool) THEN nextIdx ELSE nextIdx + n

AvailableSize == FlatTotal - nextIdx + Len(freeList)

\* the caller deducts the full pool as well as on_free
FreeFlatMutant(indices) ==
    /\ freeList' = freeList \o indices
    /\ fullUsed' = Monus(fullUsed, 2 * Len(indices))

\* free(indices) with its on_free callback, which lowers the full pool only
FreeFlat(indices) ==
    /\ freeList' = freeList \o indices
    /\ fullUsed' = Monus(fullUsed, Len(indices))

-----------------------------------------------------------------------------
(* RadixCache, external                                                    *)

PageFloor(n) == (n \div PageSize) * PageSize
PageAligned(text) == SubSeq(text, 1, PageFloor(Len(text)))
NumPages(text) == Len(text) \div PageSize
PrefixPages(text, k) == {SubSeq(text, 1, j * PageSize) : j \in 1..k}

\* The slot cached for position i of text
CachedSlot(text, i) ==
    tree[SubSeq(text, 1, PageFloor(i - 1) + PageSize)][((i - 1) % PageSize) + 1]

\* match_prefix stops after the k-th page: all before are cached, the next is not
LongestMatch(text, k) ==
    /\ PrefixPages(text, k) \subseteq DOMAIN tree
    /\ k < NumPages(text) => SubSeq(text, 1, (k + 1) * PageSize) \notin DOMAIN tree
CachedSlots(text, k) == [i \in 1..(k * PageSize) |-> CachedSlot(text, i)]

\* insert keeps what a page already holds and adds values for the new pages
Inserted(key, values) ==
    [p \in DOMAIN tree \cup PrefixPages(key, NumPages(key)) |->
        IF p \in DOMAIN tree THEN tree[p]
        ELSE SubSeq(values, Len(p) - PageSize + 1, Len(p))]

UnlockedMutant == DOMAIN tree   \* locks ignored

\* A lock on a node protects the node and its ancestors
Unlocked == {p \in DOMAIN tree : \A r \in Req : ~IsPrefix(p, lastNode[r])}

\* evict(n): unlocked pages leave the tree, leaves first, until n tokens are
\* freed or none is left.  Nodes are freed whole, so the one that reaches n
\* may take its further pages (a chain towards the root) along.  The LRU order
\* among the leaves is left open.
LeavesFirst(order) ==
    \A i \in DOMAIN order : \A q \in DOMAIN tree :
        IsStrictPrefix(order[i], q) => \E j \in 1..(i - 1) : order[j] = q
StopsWithNode(order, n) ==
    \E i \in DOMAIN order :
        /\ (i - 1) * PageSize < n
        /\ \A j \in (i + 1)..Len(order) :
             /\ IsStrictPrefix(order[j], order[j - 1])
             /\ Len(order[j - 1]) = Len(order[j]) + PageSize
EvictionOrders(n) ==
    {order \in BoundedSeq(Unlocked, Cardinality(Unlocked)) :
        /\ IsInjective(order) /\ LeavesFirst(order)
        /\ \/ Len(order) = Cardinality(Unlocked) /\ Len(order) * PageSize < n
           \/ Len(order) * PageSize >= n /\ StopsWithNode(order, n)}
EvictedSlots(order) ==
    [i \in 1..(Len(order) * PageSize) |->
        tree[order[((i - 1) \div PageSize) + 1]][((i - 1) % PageSize) + 1]]
WithoutPages(order) == Restrict(tree, DOMAIN tree \ Range(order))

-----------------------------------------------------------------------------
(* SGLangBackend                                                           *)

\* get_computed_blocks: match the prompt; no lock is taken on the match
GetComputedBlocks(r, k) ==
    /\ k \in 0..NumPages(Prompt[r])
    /\ LongestMatch(Prompt[r], k)

\* _over_budget for n more tokens, with the given use of the full pool
OverBudget(n, full) ==
    swaUsed + n > SwaTokens \/ full + n > FullTokens

EvictionsMutant(n) == {<<>>}   \* nothing is evicted

\* What allocate_slots evicts before it checks again: nothing within budget
Evictions(n) ==
    IF OverBudget(n, fullUsed) THEN EvictionOrders(n) ELSE {<<>>}

\* allocate_slots when the matched prefix covers everything asked for
AllocateNothing(r, n, prefix) ==
    /\ n <= 0
    /\ row' = [row EXCEPT ![r] = @ \o prefix]
    /\ UNCHANGED <<poolVars, tree, outLen, lastNode, charged, evicted>>

\* allocate_slots that succeeds, evicting first when a pool is over budget
AllocateSucceeds(r, n, prefix) ==
    /\ n > 0
    /\ \E order \in Evictions(n) :
         LET pool == freeList \o EvictedSlots(order)
             full == Monus(fullUsed, Len(EvictedSlots(order)))
         IN /\ ~OverBudget(n, full)
            /\ FlatFits(n, pool)
            /\ tree' = WithoutPages(order)
            /\ freeList' = FlatRest(n, pool)
            /\ nextIdx' = FlatNext(n, pool)
            /\ fullUsed' = full + n
            /\ row' = [row EXCEPT ![r] = @ \o prefix \o FlatTaken(n, pool)]
    /\ swaUsed' = swaUsed + n
    /\ swaPeak' = Larger(swaPeak, swaUsed')
    /\ fullPeak' = Larger(fullPeak, fullUsed')
    /\ charged' = [charged EXCEPT ![r] = @ + n]
    /\ allocFailure' = "none"
    /\ UNCHANGED <<outLen, lastNode, evicted>>

\* allocate_slots that returns None: what was evicted stays evicted, and the
\* matched prefix has already been put in the row
AllocateFails(r, n, prefix) ==
    /\ n > 0
    /\ \E order \in Evictions(n) :
         LET pool == freeList \o EvictedSlots(order)
             full == Monus(fullUsed, Len(EvictedSlots(order)))
         IN /\ \/ OverBudget(n, full) /\ allocFailure' = "over_budget"
               \/ /\ ~OverBudget(n, full) /\ ~FlatFits(n, pool)
                  /\ allocFailure' = "flat_pool_oom"
            /\ tree' = WithoutPages(order)
            /\ freeList' = pool
            /\ fullUsed' = full
    /\ row' = [row EXCEPT ![r] = @ \o prefix]
    /\ UNCHANGED <<nextIdx, swaUsed, swaPeak, fullPeak, outLen, lastNode,
                   charged, evicted>>

\* free_rejected_slots finds fewer slots than it has to free, and raises
RejectedTailMissing(r, m) == m > 0 /\ Len(row[r]) < m

\* the slice that is kept is one short
FreeRejectedSlotsMutant(r, m) ==
    /\ ~RejectedTailMissing(r, m)
    /\ IF m <= 0
       THEN UNCHANGED backendVars
       ELSE /\ FreeFlat(SubSeq(row[r], Len(row[r]) - m + 1, Len(row[r])))
            /\ row' = [row EXCEPT ![r] = SubSeq(@, 1, Len(@) - m - 1)]
            /\ charged' = [charged EXCEPT ![r] = Monus(@, m)]
            /\ swaUsed' = Monus(swaUsed, m)
            /\ UNCHANGED <<nextIdx, swaPeak, fullPeak, allocFailure, tree,
                           outLen, lastNode, evicted>>

\* free_rejected_slots: the last m slots of the row go back
FreeRejectedSlots(r, m) ==
    /\ ~RejectedTailMissing(r, m)
    /\ IF m <= 0
       THEN UNCHANGED backendVars
       ELSE /\ FreeFlat(SubSeq(row[r], Len(row[r]) - m + 1, Len(row[r])))
            /\ row' = [row EXCEPT ![r] = SubSeq(@, 1, Len(@) - m)]
            /\ charged' = [charged EXCEPT ![r] = Monus(@, m)]
            /\ swaUsed' = Monus(swaUsed, m)
            /\ UNCHANGED <<nextIdx, swaPeak, fullPeak, allocFailure, tree,
                           outLen, lastNode, evicted>>

\* the page margin of the threshold is forgotten
ReclaimCursorMutant(c, cursor) ==
    LET threshold == c - 1 - Window
    IN IF threshold <= 0 THEN cursor ELSE PageFloor(Larger(cursor, threshold))

\* _reclaim_swa_out_of_window: the cursor for c charged tokens
ReclaimCursor(c, cursor) ==
    LET threshold == c - 1 - Window - PageSize
    IN IF threshold <= 0 THEN cursor ELSE PageFloor(Larger(cursor, threshold))

Text(r, n) == Prompt[r] \o SubSeq(Output[r], 1, n)

\* The assertion of sync_state fails: fewer slots than page-aligned tokens
RowTooShort(r, n) == Len(row[r]) < PageFloor(Len(Text(r, n)))

\* sync_state(output[:n]): insert the page-aligned text, move the lock to it,
\* reclaim the SWA slots that left the window
SyncState(r, n) ==
    LET key    == PageAligned(Text(r, n))
        cursor == ReclaimCursor(charged[r], evicted[r])
    IN /\ ~RowTooShort(r, n)
       /\ outLen' = [outLen EXCEPT ![r] = n]
       /\ tree' = Inserted(key, SubSeq(row[r], 1, Len(key)))
       /\ lastNode' = [lastNode EXCEPT ![r] = key]
       /\ IF cursor > evicted[r]
          THEN /\ swaUsed' = Monus(swaUsed, cursor - evicted[r])
               /\ evicted' = [evicted EXCEPT ![r] = cursor]
          ELSE UNCHANGED <<swaUsed, evicted>>
       /\ UNCHANGED <<nextIdx, freeList, fullUsed, swaPeak, fullPeak,
                      allocFailure, row, charged>>

\* free returns all charged SWA tokens, the reclaimed ones a second time
FreeChargedMutant(r) ==
    LET keyLen == PageFloor(Len(Text(r, outLen[r])))
    IN /\ lastNode' = [lastNode EXCEPT ![r] = <<>>]
       /\ IF Len(row[r]) > keyLen
          THEN FreeFlat(SubSeq(row[r], keyLen + 1, Len(row[r])))
          ELSE UNCHANGED <<freeList, fullUsed>>
       /\ swaUsed' = Monus(swaUsed, charged[r])
       /\ charged' = [charged EXCEPT ![r] = 0]
       /\ evicted' = [evicted EXCEPT ![r] = 0]
       /\ row' = [row EXCEPT ![r] = <<>>]
       /\ UNCHANGED <<nextIdx, swaPeak, fullPeak, allocFailure, tree, outLen>>

\* free leaves the unaligned tail to evict
FreeTailMutant(r) ==
    /\ lastNode' = [lastNode EXCEPT ![r] = <<>>]
    /\ swaUsed' = Monus(swaUsed, Monus(charged[r], evicted[r]))
    /\ charged' = [charged EXCEPT ![r] = 0]
    /\ evicted' = [evicted EXCEPT ![r] = 0]
    /\ row' = [row EXCEPT ![r] = <<>>]
    /\ UNCHANGED <<nextIdx, freeList, fullUsed, swaPeak, fullPeak,
                   allocFailure, tree, outLen>>

\* free: drop the lock, free the slots past the page-aligned text, return the
\* SWA slots still in the window
Free(r) ==
    LET keyLen == PageFloor(Len(Text(r, outLen[r])))
    IN /\ lastNode' = [lastNode EXCEPT ![r] = <<>>]
       /\ IF Len(row[r]) > keyLen
          THEN FreeFlat(SubSeq(row[r], keyLen + 1, Len(row[r])))
          ELSE UNCHANGED <<freeList, fullUsed>>
       /\ swaUsed' = Monus(swaUsed, Monus(charged[r], evicted[r]))
       /\ charged' = [charged EXCEPT ![r] = 0]
       /\ evicted' = [evicted EXCEPT ![r] = 0]
       /\ row' = [row EXCEPT ![r] = <<>>]
       /\ UNCHANGED <<nextIdx, swaPeak, fullPeak, allocFailure, tree, outLen>>
=============================================================================
