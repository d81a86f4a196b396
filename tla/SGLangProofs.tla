---------------------------- MODULE SGLangProofs ----------------------------
(***************************************************************************)
(* Proofs about SGLangServing, for every workload, page size, window, pool *)
(* size and number of drafts: its inductive invariant, what follows from   *)
(* it, and that it implements KVService.                                   *)
(***************************************************************************)
EXTENDS SGLangServing, FoldTheorems, TLAPS

-----------------------------------------------------------------------------
(* Arithmetic of pages                                                     *)

\* Rounding a length down to whole pages of p tokens.
LEMMA DivBounds ==
    ASSUME NEW n \in Nat, NEW p \in Nat \ {0}
    PROVE  /\ n \div p \in Nat
           /\ (n \div p) * p \in Nat
           /\ (n \div p) * p <= n
           /\ n < (n \div p) * p + p
           /\ n % p \in 0..(p - 1)
    BY Z3

\* Fewer pages, fewer tokens.
LEMMA PagesMonotonic ==
    ASSUME NEW j \in Nat, NEW k \in Nat, NEW p \in Nat \ {0}, j <= k
    PROVE  j * p \in Nat /\ j * p <= k * p
    BY Z3

\* Comparing lengths that are products of pages.
LEMMA LengthsTransitive ==
    ASSUME NEW a \in Nat, NEW b \in Nat, NEW c \in Nat, a <= b, b <= c
    PROVE  a <= c
    OBVIOUS

\* Fewer tokens in whole pages, fewer pages.
LEMMA PagesCancel ==
    ASSUME NEW j \in Nat, NEW k \in Nat, NEW p \in Nat \ {0}, j * p < k * p
    PROVE  j < k
    BY Z3

\* One page more.
LEMMA PagesStep ==
    ASSUME NEW j \in Nat, NEW p \in Nat
    PROVE  (j + 1) * p = j * p + p
    BY Z3

USE WorkloadAssumption, SizeAssumption, HandlerAssumption
    DEF WorkloadAssumption, SizeAssumption, HandlerAssumption

\* PageFloor (RadixKey.page_aligned on lengths) rounds down to whole pages.
LEMMA PageFloorBounds ==
    ASSUME NEW n \in Nat
    PROVE  /\ n \div PageSize \in Nat
           /\ PageFloor(n) \in Nat
           /\ PageFloor(n) <= n
           /\ n < PageFloor(n) + PageSize
    BY DivBounds DEF PageFloor

\* A page's end lies between the first page's and the last page's.
LEMMA PageEnds ==
    ASSUME NEW k \in Nat, NEW j \in 1..k
    PROVE  /\ j * PageSize \in Nat
           /\ PageSize <= j * PageSize
           /\ j * PageSize <= k * PageSize
    BY PagesMonotonic, 1 * PageSize = PageSize

\* The page of a position inside the first k pages, and the offset in it.
LEMMA PageOfPosition ==
    ASSUME NEW k \in Nat, NEW i \in 1..(k * PageSize)
    PROVE  /\ ((i - 1) \div PageSize) + 1 \in 1..k
           /\ ((i - 1) % PageSize) + 1 \in 1..PageSize
  <1>1. k * PageSize \in Nat /\ i - 1 \in Nat /\ i - 1 < k * PageSize
    BY PagesMonotonic
  <1>2. (i - 1) \div PageSize \in Nat /\ ((i - 1) \div PageSize) * PageSize <= i - 1
    BY <1>1, DivBounds
  <1>3. (i - 1) \div PageSize < k
    <2> DEFINE d == (i - 1) \div PageSize
    <2>1. d \in Nat /\ d * PageSize \in Nat /\ d * PageSize < k * PageSize
      BY <1>1, <1>2, PagesMonotonic
    <2> HIDE DEF d
    <2>2. d < k
      BY <2>1, PagesCancel
    <2> QED
      BY <2>2 DEF d
  <1>4. (i - 1) % PageSize \in 0..(PageSize - 1)
    BY <1>1, DivBounds
  <1> QED
    BY <1>2, <1>3, <1>4

-----------------------------------------------------------------------------
(* The radix tree                                                          *)

\* What match_prefix returns: one index per token of the matched pages.
LEMMA CachedSlotsType ==
    ASSUME BackendTypeOK, NEW text \in Seq(Token), NEW k \in 0..NumPages(text),
           LongestMatch(text, k)
    PROVE  /\ CachedSlots(text, k) \in Seq(Nat)
           /\ Len(CachedSlots(text, k)) = k * PageSize
           /\ k * PageSize \in Nat
           /\ k * PageSize <= Len(text)
  <1>1. k \in Nat /\ k * PageSize \in Nat /\ k * PageSize <= Len(text)
    <2> DEFINE m == NumPages(text)
    <2>1. m \in Nat /\ m * PageSize \in Nat /\ m * PageSize <= Len(text)
      BY PageFloorBounds DEF NumPages, PageFloor
    <2> HIDE DEF m
    <2>2. k \in Nat /\ k <= m
      BY <2>1 DEF m
    <2>3. k * PageSize \in Nat /\ k * PageSize <= m * PageSize
      BY <2>1, <2>2, PagesMonotonic
    <2>4. Len(text) \in Nat
      OBVIOUS
    <2>5. k * PageSize <= Len(text)
      BY <2>1, <2>3, <2>4, LengthsTransitive, Zenon
    <2> QED
      BY <2>2, <2>3, <2>5
  <1>2. ASSUME NEW i \in 1..(k * PageSize)
        PROVE  CachedSlot(text, i) \in Nat
    <2> DEFINE j == ((i - 1) \div PageSize) + 1
    <2>1. j \in 1..k /\ ((i - 1) % PageSize) + 1 \in 1..PageSize
      BY <1>1, PageOfPosition
    <2>2. PageFloor(i - 1) + PageSize = j * PageSize
      BY <2>1, <1>1, DivBounds, PagesStep DEF PageFloor
    <2>3. SubSeq(text, 1, j * PageSize) \in DOMAIN tree
      BY <2>1 DEF LongestMatch, PrefixPages
    <2>4. /\ tree[SubSeq(text, 1, j * PageSize)] \in Seq(Nat)
          /\ Len(tree[SubSeq(text, 1, j * PageSize)]) = PageSize
      BY <2>3 DEF BackendTypeOK
    <2> QED
      BY <2>1, <2>2, <2>4 DEF CachedSlot
  <1> QED
    BY <1>1, <1>2 DEF CachedSlots

\* What evict takes out: whole pages of the tree, one index per token.
LEMMA EvictedType ==
    ASSUME BackendTypeOK, NEW n \in Int, NEW order \in Evictions(n)
    PROVE  /\ EvictedSlots(order) \in Seq(Nat)
           /\ Len(EvictedSlots(order)) \in Nat
           /\ DOMAIN WithoutPages(order) \subseteq Seq(Token)
           /\ \A p \in DOMAIN WithoutPages(order) :
                /\ WithoutPages(order)[p] \in Seq(Nat)
                /\ Len(WithoutPages(order)[p]) = PageSize
  <1>1. order \in Seq(DOMAIN tree)
    <2>1. CASE order = <<>>
      BY <2>1
    <2>2. CASE order \in BoundedSeq(Unlocked, Cardinality(Unlocked))
      <3>1. PICK m \in 0..Cardinality(Unlocked) : order \in [1..m -> Unlocked]
        BY <2>2 DEF BoundedSeq, SeqOf
      <3> QED
        BY <3>1 DEF Unlocked
    <2> QED
      BY <2>1, <2>2 DEF Evictions, EvictionOrders
  <1>2. Len(order) \in Nat /\ Len(order) * PageSize \in Nat
    BY <1>1
  <1>3. ASSUME NEW i \in 1..(Len(order) * PageSize)
        PROVE  tree[order[((i - 1) \div PageSize) + 1]][((i - 1) % PageSize) + 1] \in Nat
    <2> DEFINE j == ((i - 1) \div PageSize) + 1
    <2>1. j \in 1..Len(order) /\ ((i - 1) % PageSize) + 1 \in 1..PageSize
      BY <1>2, PageOfPosition
    <2>2. order[j] \in DOMAIN tree
      BY <1>1, <2>1
    <2>3. tree[order[j]] \in Seq(Nat) /\ Len(tree[order[j]]) = PageSize
      BY <2>2 DEF BackendTypeOK
    <2> QED
      BY <2>1, <2>3
  <1>4. EvictedSlots(order) \in Seq(Nat) /\ Len(EvictedSlots(order)) \in Nat
    BY <1>2, <1>3 DEF EvictedSlots
  <1>5. /\ DOMAIN WithoutPages(order) \subseteq DOMAIN tree
        /\ \A p \in DOMAIN WithoutPages(order) : WithoutPages(order)[p] = tree[p]
    BY DEF WithoutPages, Restrict
  <1> QED
    BY <1>4, <1>5 DEF BackendTypeOK

\* insert stores exactly PageSize indices for each new page of the key.
LEMMA InsertedType ==
    ASSUME BackendTypeOK, NEW key \in Seq(Token), NEW values \in Seq(Nat),
           Len(values) = Len(key)
    PROVE  /\ DOMAIN Inserted(key, values) \subseteq Seq(Token)
           /\ \A p \in DOMAIN Inserted(key, values) :
                /\ Inserted(key, values)[p] \in Seq(Nat)
                /\ Len(Inserted(key, values)[p]) = PageSize
  <1> DEFINE new == PrefixPages(key, NumPages(key))
  <1>1. ASSUME NEW p \in new
        PROVE  /\ p \in Seq(Token)
               /\ PageSize <= Len(p) /\ Len(p) <= Len(key)
    <2>1. PICK j \in 1..NumPages(key) : p = SubSeq(key, 1, j * PageSize)
      BY DEF PrefixPages
    <2> DEFINE m == NumPages(key)
    <2>2. /\ Len(key) \in Nat /\ m \in Nat
          /\ m * PageSize \in Nat /\ m * PageSize <= Len(key)
      BY PageFloorBounds DEF NumPages, PageFloor
    <2> HIDE DEF m
    <2>4. j \in 1..m
      BY DEF m
    <2>5. /\ j * PageSize \in Nat /\ PageSize <= j * PageSize
          /\ j * PageSize <= m * PageSize
      BY <2>2, <2>4, PageEnds
    <2>3. j * PageSize <= Len(key)
      BY <2>2, <2>5, LengthsTransitive, Zenon
    <2> QED
      BY <2>1, <2>2, <2>3, <2>5
  <1>2. ASSUME NEW p \in new
        PROVE  /\ SubSeq(values, Len(p) - PageSize + 1, Len(p)) \in Seq(Nat)
               /\ Len(SubSeq(values, Len(p) - PageSize + 1, Len(p))) = PageSize
    BY <1>1
  <1>3. ASSUME NEW p \in DOMAIN tree
        PROVE  p \in Seq(Token) /\ tree[p] \in Seq(Nat) /\ Len(tree[p]) = PageSize
    BY DEF BackendTypeOK
  <1> QED
    BY <1>1, <1>2, <1>3 DEF Inserted

-----------------------------------------------------------------------------
(* The backend's operations                                                *)

\* Appending slots to slots.
LEMMA ConcatSlots ==
    ASSUME NEW s \in Seq(Nat), NEW t \in Seq(Nat)
    PROVE  s \o t \in Seq(Nat) /\ Len(s \o t) = Len(s) + Len(t)
    OBVIOUS

\* The allocator hands out n indices, and the ones it keeps shrink by n or the
\* fresh range grows by n.
LEMMA FlatTypes ==
    ASSUME nextIdx \in Nat, NEW n \in Nat \ {0}, NEW pool \in Seq(Nat)
    PROVE  /\ FlatTaken(n, pool) \in Seq(Nat) /\ Len(FlatTaken(n, pool)) = n
           /\ FlatRest(n, pool) \in Seq(Nat)
           /\ FlatNext(n, pool) \in Nat
           /\ FlatNext(n, pool) - Len(FlatRest(n, pool)) = nextIdx - Len(pool) + n
  <1>1. CASE n <= Len(pool)
    <2>1. /\ SubSeq(pool, Len(pool) - n + 1, Len(pool)) \in Seq(Nat)
          /\ Len(SubSeq(pool, Len(pool) - n + 1, Len(pool))) = n
      BY <1>1
    <2>2. /\ SubSeq(pool, 1, Len(pool) - n) \in Seq(Nat)
          /\ Len(SubSeq(pool, 1, Len(pool) - n)) = Len(pool) - n
      BY <1>1
    <2>3. /\ FlatTaken(n, pool) = SubSeq(pool, Len(pool) - n + 1, Len(pool))
          /\ FlatRest(n, pool) = SubSeq(pool, 1, Len(pool) - n)
          /\ FlatNext(n, pool) = nextIdx
      BY <1>1 DEF FlatTaken, FlatRest, FlatNext
    <2>4. Len(pool) \in Nat
      OBVIOUS
    <2>5. FlatTaken(n, pool) \in Seq(Nat) /\ Len(FlatTaken(n, pool)) = n
      BY <2>1, <2>3, Zenon
    <2>6. FlatRest(n, pool) \in Seq(Nat) /\ Len(FlatRest(n, pool)) = Len(pool) - n
      BY <2>2, <2>3, Zenon
    <2>7. nextIdx - (Len(pool) - n) = nextIdx - Len(pool) + n
      BY <2>4
    <2> QED
      BY <2>3, <2>5, <2>6, <2>7, Zenon
  <1>2. CASE ~(n <= Len(pool))
    <2>1. /\ [i \in 1..n |-> nextIdx + i - 1] \in Seq(Nat)
          /\ Len([i \in 1..n |-> nextIdx + i - 1]) = n
      OBVIOUS
    <2>2. /\ FlatTaken(n, pool) = [i \in 1..n |-> nextIdx + i - 1]
          /\ FlatRest(n, pool) = pool
          /\ FlatNext(n, pool) = nextIdx + n
      BY <1>2 DEF FlatTaken, FlatRest, FlatNext
    <2>3. Len(pool) \in Nat /\ nextIdx + n - Len(pool) = nextIdx - Len(pool) + n
      OBVIOUS
    <2>4. FlatTaken(n, pool) \in Seq(Nat) /\ Len(FlatTaken(n, pool)) = n
      BY <2>1, <2>2
    <2> QED
      BY <2>2, <2>3, <2>4
  <1> QED
    BY <1>1, <1>2

\* Evicting keeps the accounting: the full pool still covers the slots that are
\* out, however much of the deduction the clamp swallows.
LEMMA EvictedAccounting ==
    ASSUME BackendTypeOK, FullUseCoversSlots, NEW n \in Int, NEW order \in Evictions(n)
    PROVE  /\ freeList \o EvictedSlots(order) \in Seq(Nat)
           /\ Monus(fullUsed, Len(EvictedSlots(order))) \in Nat
           /\ Monus(fullUsed, Len(EvictedSlots(order))) <= fullUsed
           /\ nextIdx - Len(freeList \o EvictedSlots(order))
                <= Monus(fullUsed, Len(EvictedSlots(order)))
  <1>1. EvictedSlots(order) \in Seq(Nat) /\ Len(EvictedSlots(order)) \in Nat
    BY EvictedType
  <1>2. /\ freeList \o EvictedSlots(order) \in Seq(Nat)
        /\ Len(freeList \o EvictedSlots(order)) = Len(freeList) + Len(EvictedSlots(order))
    BY <1>1 DEF BackendTypeOK
  <1> QED
    BY <1>1, <1>2 DEF BackendTypeOK, Monus, FullUseCoversSlots

\* allocate_slots that succeeds: the row grows by the prefix and n new slots, n
\* tokens are charged, and both pools stay within their caps.
LEMMA AllocateSucceedsInv ==
    ASSUME BackendTypeOK, PoolInv, NEW r \in Req, NEW n \in Int,
           NEW prefix \in Seq(Nat), AllocateSucceeds(r, n, prefix)
    PROVE  /\ BackendTypeOK' /\ PoolInv' /\ n > 0
           /\ \A q \in Req \ {r} : row'[q] = row[q]
           /\ Len(row'[r]) = Len(row[r]) + Len(prefix) + n
           /\ charged' = [charged EXCEPT ![r] = @ + n]
           /\ UNCHANGED <<outLen, evicted>>
  <1> n \in Nat \ {0}
    BY DEF AllocateSucceeds
  <1>1. PICK order \in Evictions(n) :
          LET pool == freeList \o EvictedSlots(order)
              full == Monus(fullUsed, Len(EvictedSlots(order)))
          IN /\ ~OverBudget(n, full)
             /\ FlatFits(n, pool)
             /\ tree' = WithoutPages(order)
             /\ freeList' = FlatRest(n, pool)
             /\ nextIdx' = FlatNext(n, pool)
             /\ fullUsed' = full + n
             /\ row' = [row EXCEPT ![r] = @ \o prefix \o FlatTaken(n, pool)]
    BY DEF AllocateSucceeds
  <1> DEFINE pool == freeList \o EvictedSlots(order)
             full == Monus(fullUsed, Len(EvictedSlots(order)))
             taken == FlatTaken(n, pool)
  <1>2. /\ pool \in Seq(Nat) /\ full \in Nat /\ full <= fullUsed
        /\ nextIdx - Len(pool) <= full
    BY EvictedAccounting DEF PoolInv
  <1>3. /\ DOMAIN tree' \subseteq Seq(Token)
        /\ \A p \in DOMAIN tree' : tree'[p] \in Seq(Nat) /\ Len(tree'[p]) = PageSize
    BY <1>1, EvictedType
  <1>4. /\ taken \in Seq(Nat) /\ Len(taken) = n
        /\ freeList' \in Seq(Nat) /\ nextIdx' \in Nat
        /\ nextIdx' - Len(freeList') = nextIdx - Len(pool) + n
    BY <1>1, <1>2, FlatTypes DEF BackendTypeOK
  <1>5. fullUsed' = full + n /\ ~OverBudget(n, full)
    BY <1>1
  <1>6. row' = [row EXCEPT ![r] = @ \o prefix \o taken]
    BY <1>1
  <1> HIDE DEF pool, full, taken
  <1>7. /\ swaUsed' = swaUsed + n
        /\ swaPeak' = Larger(swaPeak, swaUsed') /\ fullPeak' = Larger(fullPeak, fullUsed')
        /\ charged' = [charged EXCEPT ![r] = @ + n]
        /\ allocFailure' = "none"
        /\ UNCHANGED <<outLen, lastNode, evicted>>
    BY DEF AllocateSucceeds
  <1>8. PoolInv'
    <2>1. PoolsWithinCaps'
      BY <1>2, <1>5, <1>7 DEF PoolInv, PoolsWithinCaps, OverBudget, Larger, BackendTypeOK
    <2>2. FullUseCoversSlots'
      BY <1>2, <1>4, <1>5 DEF FullUseCoversSlots, BackendTypeOK
    <2> QED
      BY <2>1, <2>2, <1>7 DEF PoolInv, FlatPoolNeverBinds
  <1>9. /\ row' \in [Req -> Seq(Nat)]
        /\ \A q \in Req \ {r} : row'[q] = row[q]
        /\ Len(row'[r]) = Len(row[r]) + Len(prefix) + n
    <2> DEFINE held == row[r] \o prefix
    <2>1. held \in Seq(Nat) /\ Len(held) = Len(row[r]) + Len(prefix)
      BY DEF BackendTypeOK
    <2>2. row'[r] = held \o taken
      BY <1>6 DEF BackendTypeOK
    <2> HIDE DEF held
    <2>3. held \o taken \in Seq(Nat) /\ Len(held \o taken) = Len(held) + n
      <3>1. taken \in Seq(Nat) /\ Len(taken) = n
        BY <1>4
      <3> QED
        BY <2>1, <3>1, ConcatSlots
    <2> QED
      BY <2>1, <2>2, <2>3, <1>6 DEF BackendTypeOK
  <1>10. BackendTypeOK'
    <2>1. /\ swaUsed' \in Nat /\ fullUsed' \in Nat
          /\ swaPeak' \in Nat /\ fullPeak' \in Nat
      BY <1>2, <1>5, <1>7 DEF BackendTypeOK, Larger
    <2>2. charged' \in [Req -> Nat]
      BY <1>7 DEF BackendTypeOK
    <2>3. /\ outLen' \in [Req -> Nat] /\ lastNode' \in [Req -> Seq(Token)]
          /\ evicted' \in [Req -> Nat] /\ allocFailure' = "none"
      BY <1>7 DEF BackendTypeOK
    <2> QED
      BY <1>3, <1>4, <1>9, <2>1, <2>2, <2>3 DEF BackendTypeOK
  <1> QED
    BY <1>7, <1>8, <1>9, <1>10

\* allocate_slots that fails: the flat pool is never the reason, for what is
\* within both budgets fits the free list or the fresh range.  Only evicted
\* slots come back, and the row keeps the matched prefix.
LEMMA AllocateFailsInv ==
    ASSUME BackendTypeOK, PoolInv, NEW r \in Req, NEW n \in Int,
           NEW prefix \in Seq(Nat), AllocateFails(r, n, prefix)
    PROVE  /\ BackendTypeOK' /\ PoolInv'
           /\ row' = [row EXCEPT ![r] = @ \o prefix]
           /\ UNCHANGED <<outLen, charged, evicted>>
  <1> n \in Nat \ {0}
    BY DEF AllocateFails
  <1>1. PICK order \in Evictions(n) :
          LET pool == freeList \o EvictedSlots(order)
              full == Monus(fullUsed, Len(EvictedSlots(order)))
          IN /\ \/ OverBudget(n, full) /\ allocFailure' = "over_budget"
                \/ /\ ~OverBudget(n, full) /\ ~FlatFits(n, pool)
                   /\ allocFailure' = "flat_pool_oom"
             /\ tree' = WithoutPages(order)
             /\ freeList' = pool
             /\ fullUsed' = full
    BY DEF AllocateFails
  <1> DEFINE pool == freeList \o EvictedSlots(order)
             full == Monus(fullUsed, Len(EvictedSlots(order)))
  <1>2. /\ pool \in Seq(Nat) /\ full \in Nat /\ full <= fullUsed
        /\ nextIdx - Len(pool) <= full
    BY EvictedAccounting DEF PoolInv
  <1>3. /\ DOMAIN tree' \subseteq Seq(Token)
        /\ \A p \in DOMAIN tree' : tree'[p] \in Seq(Nat) /\ Len(tree'[p]) = PageSize
    BY <1>1, EvictedType
  <1>4. freeList' = pool /\ fullUsed' = full
    BY <1>1
  <1>5. \/ OverBudget(n, full) /\ allocFailure' = "over_budget"
        \/ ~OverBudget(n, full) /\ ~FlatFits(n, pool)
    BY <1>1
  <1> HIDE DEF pool, full
  <1>6. /\ row' = [row EXCEPT ![r] = @ \o prefix]
        /\ UNCHANGED <<nextIdx, swaUsed, swaPeak, fullPeak, outLen, lastNode,
                       charged, evicted>>
    BY DEF AllocateFails
  <1>7. allocFailure' = "over_budget"
    <2>1. SUFFICES ASSUME ~OverBudget(n, full), ~FlatFits(n, pool)
                   PROVE  FALSE
      BY <1>5
    <2>2. swaUsed + n <= SwaTokens /\ full + n <= FullTokens
      BY <2>1, <1>2 DEF OverBudget, BackendTypeOK
    <2>3. n > Len(pool) /\ nextIdx + n > FullTokens + SwaTokens
      BY <2>1, <1>2 DEF FlatFits, FlatTotal, BackendTypeOK
    <2>4. Len(pool) \in Nat
      BY <1>2
    <2> QED
      BY <1>2, <2>2, <2>3, <2>4 DEF BackendTypeOK
  <1>8. row' \in [Req -> Seq(Nat)]
    BY <1>6, ConcatSlots DEF BackendTypeOK
  <1>9. BackendTypeOK'
    BY <1>2, <1>3, <1>4, <1>6, <1>7, <1>8 DEF BackendTypeOK
  <1>10. PoolInv'
    <2>1. PoolsWithinCaps'
      BY <1>2, <1>4, <1>6 DEF PoolInv, PoolsWithinCaps, BackendTypeOK
    <2>2. FullUseCoversSlots'
      BY <1>2, <1>4, <1>6 DEF FullUseCoversSlots
    <2> QED
      BY <2>1, <2>2, <1>7 DEF PoolInv, FlatPoolNeverBinds
  <1> QED
    BY <1>6, <1>9, <1>10

\* Returning slots to the allocator keeps the full pool's accounting.
LEMMA FreeFlatInv ==
    ASSUME BackendTypeOK, PoolInv, NEW indices \in Seq(Nat), FreeFlat(indices)
    PROVE  /\ freeList' \in Seq(Nat) /\ fullUsed' \in Nat /\ fullUsed' <= fullUsed
           /\ nextIdx - Len(freeList') <= fullUsed'
  <1>1. /\ freeList' \in Seq(Nat) /\ Len(freeList') = Len(freeList) + Len(indices)
        /\ Len(indices) \in Nat
    BY ConcatSlots DEF FreeFlat, BackendTypeOK
  <1> QED
    BY <1>1 DEF FreeFlat, Monus, BackendTypeOK, PoolInv, FullUseCoversSlots

\* free_rejected_slots: the row and the charge shrink by what was rejected.
LEMMA FreeRejectedInv ==
    ASSUME BackendTypeOK, PoolInv, NEW r \in Req, NEW m \in Nat,
           FreeRejectedSlots(r, m)
    PROVE  /\ BackendTypeOK' /\ PoolInv'
           /\ \A q \in Req \ {r} : row'[q] = row[q]
           /\ Len(row'[r]) = Len(row[r]) - m
           /\ charged' = [charged EXCEPT ![r] = Monus(@, m)]
           /\ UNCHANGED <<outLen, evicted>>
  <1>1. CASE m = 0
    <2>1. UNCHANGED backendVars
      BY <1>1 DEF FreeRejectedSlots
    <2>2. charged' = [charged EXCEPT ![r] = Monus(@, m)]
      BY <1>1, <2>1 DEF backendVars, handleVars, BackendTypeOK, Monus
    <2>3. BackendTypeOK' /\ PoolInv'
      BY <2>1 DEF backendVars, poolVars, handleVars, BackendTypeOK, PoolInv,
                  PoolsWithinCaps, FlatPoolNeverBinds, FullUseCoversSlots
    <2>4. UNCHANGED <<row, outLen, evicted>>
      BY <2>1 DEF backendVars, handleVars
    <2>5. Len(row'[r]) = Len(row[r]) - m
      BY <1>1, <2>4 DEF BackendTypeOK
    <2> QED
      BY <2>2, <2>3, <2>4, <2>5
  <1>2. CASE m > 0
    <2> DEFINE tail == SubSeq(row[r], Len(row[r]) - m + 1, Len(row[r]))
               kept == SubSeq(row[r], 1, Len(row[r]) - m)
    <2>1. row[r] \in Seq(Nat) /\ Len(row[r]) \in Nat /\ m <= Len(row[r])
      BY <1>2 DEF FreeRejectedSlots, RejectedTailMissing, BackendTypeOK
    <2>2. tail \in Seq(Nat) /\ kept \in Seq(Nat) /\ Len(kept) = Len(row[r]) - m
      BY <1>2, <2>1
    <2>3. /\ FreeFlat(tail)
          /\ row' = [row EXCEPT ![r] = kept]
          /\ charged' = [charged EXCEPT ![r] = Monus(@, m)]
          /\ swaUsed' = Monus(swaUsed, m)
          /\ UNCHANGED <<nextIdx, swaPeak, fullPeak, allocFailure, tree,
                         outLen, lastNode, evicted>>
      BY <1>2 DEF FreeRejectedSlots, BackendTypeOK
    <2> HIDE DEF tail, kept
    <2>4. /\ freeList' \in Seq(Nat) /\ fullUsed' \in Nat /\ fullUsed' <= fullUsed
          /\ nextIdx - Len(freeList') <= fullUsed'
      BY <2>2, <2>3, FreeFlatInv
    <2>5. swaUsed' \in Nat /\ swaUsed' <= swaUsed /\ charged' \in [Req -> Nat]
      BY <2>3 DEF BackendTypeOK, Monus
    <2>6. /\ row' \in [Req -> Seq(Nat)] /\ row'[r] = kept
          /\ \A q \in Req \ {r} : row'[q] = row[q]
      BY <2>2, <2>3 DEF BackendTypeOK
    <2>7. BackendTypeOK'
      BY <2>3, <2>4, <2>5, <2>6 DEF BackendTypeOK
    <2>8. PoolInv'
      BY <2>3, <2>4, <2>5 DEF BackendTypeOK, PoolInv, PoolsWithinCaps,
                              FlatPoolNeverBinds, FullUseCoversSlots
    <2>9. Len(row'[r]) = Len(row[r]) - m
      BY <2>2, <2>6
    <2> QED
      BY <2>3, <2>6, <2>7, <2>8, <2>9
  <1> QED
    BY <1>1, <1>2

\* The text of a request after n output tokens.
LEMMA TextType ==
    ASSUME NEW r \in Req, NEW n \in 0..Len(Output[r])
    PROVE  /\ Text(r, n) \in Seq(Token)
           /\ Len(Text(r, n)) = Len(Prompt[r]) + n
           /\ Len(Prompt[r]) \in Nat /\ Len(Output[r]) \in Nat
  <1>1. Prompt[r] \in Seq(Token) /\ Output[r] \in Seq(Token)
    OBVIOUS
  <1>2. SubSeq(Output[r], 1, n) \in Seq(Token) /\ Len(SubSeq(Output[r], 1, n)) = n
    BY <1>1
  <1> QED
    BY <1>1, <1>2 DEF Text

\* The reclaim cursor only moves to a place behind the window and a page.
LEMMA ReclaimCursorBound ==
    ASSUME NEW c \in Nat, NEW e \in Nat, ReclaimCursor(c, e) > e
    PROVE  /\ ReclaimCursor(c, e) \in Nat
           /\ ReclaimCursor(c, e) + Window + PageSize < c
  <1> DEFINE threshold == c - 1 - Window - PageSize
  <1>1. threshold \in Int /\ threshold > 0 /\ threshold + Window + PageSize < c
    BY DEF ReclaimCursor
  <1>2. ReclaimCursor(c, e) = PageFloor(Larger(e, threshold))
    BY <1>1 DEF ReclaimCursor
  <1> HIDE DEF threshold
  <1>3. Larger(e, threshold) \in Nat
    BY <1>1 DEF Larger
  <1>4. /\ ReclaimCursor(c, e) \in Nat
        /\ ReclaimCursor(c, e) <= Larger(e, threshold)
    BY <1>2, <1>3, PageFloorBounds
  <1>5. ReclaimCursor(c, e) <= threshold
    BY <1>1, <1>4 DEF Larger
  <1> QED
    BY <1>1, <1>4, <1>5

\* sync_state: the row and the charge stay, the cursor keeps behind the window.
LEMMA SyncStateInv ==
    ASSUME BackendTypeOK, PoolInv, NEW r \in Req, NEW n \in 0..Len(Output[r]),
           SyncState(r, n)
    PROVE  /\ BackendTypeOK' /\ PoolInv'
           /\ UNCHANGED <<row, charged>>
           /\ outLen' = [outLen EXCEPT ![r] = n]
           /\ \A q \in Req \ {r} : evicted'[q] = evicted[q]
           /\ \/ evicted'[r] = evicted[r]
              \/ evicted'[r] + Window + PageSize < charged[r]
  <1> DEFINE key == PageAligned(Text(r, n))
             values == SubSeq(row[r], 1, Len(key))
             cursor == ReclaimCursor(charged[r], evicted[r])
  <1>1. /\ outLen' = [outLen EXCEPT ![r] = n]
        /\ tree' = Inserted(key, values)
        /\ lastNode' = [lastNode EXCEPT ![r] = key]
        /\ UNCHANGED <<nextIdx, freeList, fullUsed, swaPeak, fullPeak,
                       allocFailure, row, charged>>
    BY DEF SyncState
  <1>2. \/ /\ cursor > evicted[r]
           /\ swaUsed' = Monus(swaUsed, cursor - evicted[r])
           /\ evicted' = [evicted EXCEPT ![r] = cursor]
        \/ UNCHANGED <<swaUsed, evicted>>
    BY DEF SyncState
  <1>3. n \in Nat
    BY TextType
  <1>4. /\ key \in Seq(Token) /\ Len(key) = PageFloor(Len(Text(r, n)))
        /\ Len(key) \in Nat
    <2>1. /\ Text(r, n) \in Seq(Token) /\ Len(Text(r, n)) \in Nat
      BY TextType, <1>3
    <2>2. PageFloor(Len(Text(r, n))) \in Nat
          /\ PageFloor(Len(Text(r, n))) <= Len(Text(r, n))
      BY <2>1, PageFloorBounds
    <2> QED
      BY <2>1, <2>2 DEF PageAligned
  <1>5. values \in Seq(Nat) /\ Len(values) = Len(key)
    <2>1. row[r] \in Seq(Nat) /\ Len(row[r]) \in Nat
      BY DEF BackendTypeOK
    <2>2. Len(key) <= Len(row[r])
      BY <1>4, <2>1 DEF SyncState, RowTooShort
    <2> QED
      BY <1>4, <2>1, <2>2
  <1> HIDE DEF key, values
  <1>6. /\ DOMAIN tree' \subseteq Seq(Token)
        /\ \A p \in DOMAIN tree' : tree'[p] \in Seq(Nat) /\ Len(tree'[p]) = PageSize
    BY <1>1, <1>4, <1>5, InsertedType
  <1>7. charged[r] \in Nat /\ evicted[r] \in Nat
    BY DEF BackendTypeOK
  <1>8. /\ swaUsed' \in Nat /\ swaUsed' <= swaUsed
        /\ evicted' \in [Req -> Nat]
        /\ \A q \in Req \ {r} : evicted'[q] = evicted[q]
        /\ \/ evicted'[r] = evicted[r]
           \/ evicted'[r] + Window + PageSize < charged[r]
    <2>1. CASE UNCHANGED <<swaUsed, evicted>>
      BY <2>1 DEF BackendTypeOK
    <2>2. CASE /\ cursor > evicted[r]
               /\ swaUsed' = Monus(swaUsed, cursor - evicted[r])
               /\ evicted' = [evicted EXCEPT ![r] = cursor]
      <3>1. cursor \in Nat /\ cursor + Window + PageSize < charged[r]
        BY <1>7, <2>2, ReclaimCursorBound
      <3> HIDE DEF cursor
      <3> QED
        BY <1>7, <2>2, <3>1 DEF BackendTypeOK, Monus
    <2> QED
      BY <1>2, <2>1, <2>2
  <1>9. BackendTypeOK'
    BY <1>1, <1>3, <1>4, <1>6, <1>8 DEF BackendTypeOK
  <1>10. PoolInv'
    BY <1>1, <1>8 DEF PoolInv, PoolsWithinCaps, FlatPoolNeverBinds,
                      FullUseCoversSlots, BackendTypeOK
  <1> QED
    BY <1>1, <1>8, <1>9, <1>10

\* free: the row is given up and nothing is charged any more.
LEMMA FreeInv ==
    ASSUME BackendTypeOK, PoolInv, NEW r \in Req, outLen[r] <= Len(Output[r]),
           Free(r)
    PROVE  /\ BackendTypeOK' /\ PoolInv'
           /\ row' = [row EXCEPT ![r] = <<>>]
           /\ \A q \in Req \ {r} : charged'[q] = charged[q]
           /\ evicted' = [evicted EXCEPT ![r] = 0]
           /\ UNCHANGED outLen
  <1> DEFINE keyLen == PageFloor(Len(Text(r, outLen[r])))
             tail == SubSeq(row[r], keyLen + 1, Len(row[r]))
  <1>1. /\ lastNode' = [lastNode EXCEPT ![r] = <<>>]
        /\ \/ Len(row[r]) > keyLen /\ FreeFlat(tail)
           \/ UNCHANGED <<freeList, fullUsed>>
        /\ swaUsed' = Monus(swaUsed, Monus(charged[r], evicted[r]))
        /\ charged' = [charged EXCEPT ![r] = 0]
        /\ evicted' = [evicted EXCEPT ![r] = 0]
        /\ row' = [row EXCEPT ![r] = <<>>]
        /\ UNCHANGED <<nextIdx, swaPeak, fullPeak, allocFailure, tree, outLen>>
    BY DEF Free
  <1>2. keyLen \in Nat
    <2>1. outLen[r] \in 0..Len(Output[r])
      BY TextType DEF BackendTypeOK
    <2>2. Len(Text(r, outLen[r])) \in Nat
      BY <2>1, TextType
    <2> QED
      BY <2>2, PageFloorBounds
  <1>3. row[r] \in Seq(Nat) /\ Len(row[r]) \in Nat
    BY DEF BackendTypeOK
  <1>4. Len(row[r]) > keyLen => tail \in Seq(Nat)
    BY <1>2, <1>3
  <1> HIDE DEF keyLen, tail
  <1>5. /\ freeList' \in Seq(Nat) /\ fullUsed' \in Nat /\ fullUsed' <= fullUsed
        /\ nextIdx - Len(freeList') <= fullUsed'
    <2>1. CASE UNCHANGED <<freeList, fullUsed>>
      BY <2>1 DEF BackendTypeOK, PoolInv, FullUseCoversSlots
    <2>2. CASE Len(row[r]) > keyLen /\ FreeFlat(tail)
      BY <2>2, <1>4, FreeFlatInv
    <2> QED
      BY <1>1, <2>1, <2>2
  <1>6. swaUsed' \in Nat /\ swaUsed' <= swaUsed
    BY <1>1 DEF BackendTypeOK, Monus
  <1>7. BackendTypeOK'
    BY <1>1, <1>5, <1>6 DEF BackendTypeOK
  <1>8. PoolInv'
    BY <1>1, <1>5, <1>6 DEF PoolInv, PoolsWithinCaps, FlatPoolNeverBinds,
                            FullUseCoversSlots, BackendTypeOK
  <1> QED
    BY <1>1, <1>7, <1>8 DEF BackendTypeOK

-----------------------------------------------------------------------------
(* The handlers                                                            *)

\* The initial states satisfy the inductive invariant.
LEMMA InitIndInv == Init => IndInv
  <1> SUFFICES ASSUME Init PROVE IndInv
    OBVIOUS
  <1> USE DEF Init, BackendInit
  <1>1. <<>> \in Seq(Nat) /\ <<>> \in Seq(Token) /\ Len(<<>>) = 0 /\ DOMAIN <<>> = {}
    OBVIOUS
  <1>2. BackendTypeOK
    BY <1>1 DEF BackendTypeOK
  <1>3. HandlerTypeOK
    BY <1>1 DEF HandlerTypeOK
  <1>4. PoolInv
    BY <1>1 DEF PoolInv, PoolsWithinCaps, FlatPoolNeverBinds, FullUseCoversSlots
  <1>5. ControlInv
    BY DEF ControlInv, ContractsKept
  <1>6. RowInv
    BY TextType DEF RowInv
  <1>7. CursorInv
    BY DEF CursorInv
  <1> QED
    BY <1>2, <1>3, <1>4, <1>5, <1>6, <1>7 DEF IndInv, TypeOK

\* get_computed_blocks only reads the tree.
LEMMA PrefillMatchInv ==
    ASSUME IndInv, NEW r \in Req, PrefillMatch(r)
    PROVE  IndInv'
  <1> USE DEF IndInv, TypeOK
  <1>1. PICK k \in 0..NumPages(Prompt[r]) :
          /\ GetComputedBlocks(r, k)
          /\ blocks' = CachedSlots(Prompt[r], k)
          /\ numComputed' = [numComputed EXCEPT ![r] = k * PageSize]
    BY DEF PrefillMatch
  <1>2. /\ blocks' \in Seq(Nat) /\ Len(blocks') = k * PageSize
        /\ k * PageSize \in Nat /\ k * PageSize <= Len(Prompt[r])
    BY <1>1, CachedSlotsType DEF GetComputedBlocks
  <1> DEFINE matched == k * PageSize
  <1>3. numComputed' = [numComputed EXCEPT ![r] = matched]
    BY <1>1
  <1>4. /\ blocks' \in Seq(Nat) /\ Len(blocks') = matched
        /\ matched \in Nat /\ matched <= Len(Prompt[r])
    BY <1>2
  <1> HIDE DEF matched
  <1>5. /\ at = "idle" /\ status[r] = "prefill" /\ cur = NoReq
        /\ at' = "prefill_allocate" /\ cur' = r
        /\ UNCHANGED <<backendVars, status, drafts, accepted>>
    BY DEF PrefillMatch, ControlInv
  <1>6. UNCHANGED <<poolVars, tree, row, outLen, lastNode, charged, evicted>>
    BY <1>5 DEF backendVars, handleVars
  <1>7. BackendTypeOK' /\ PoolInv'
    BY <1>6 DEF poolVars, BackendTypeOK, PoolInv, PoolsWithinCaps,
                FlatPoolNeverBinds, FullUseCoversSlots
  <1>8. HandlerTypeOK'
    BY <1>3, <1>4, <1>5 DEF HandlerTypeOK
  <1>9. ControlInv'
    BY <1>5 DEF ControlInv, ContractsKept
  <1>10. RowInv'
    <2>1. row[r] = <<>> /\ numComputed'[r] = matched
      BY <1>3, <1>5 DEF RowInv, HandlerTypeOK
    <2>2. \A q \in Req : status[q] \in {"decoding", "finished"} =>
            /\ q # r /\ numComputed'[q] = numComputed[q]
            /\ Ahead(q)' = 0 /\ Ahead(q) = 0
      BY <1>3, <1>5 DEF HandlerTypeOK, Ahead
    <2> QED
      BY <1>4, <1>5, <1>6, <2>1, <2>2 DEF RowInv
  <1>11. CursorInv'
    BY <1>5, <1>6 DEF CursorInv, Revocable
  <1> QED
    BY <1>7, <1>8, <1>9, <1>10, <1>11

\* The prompt's row has one slot per token: the matched ones and the new ones.
LEMMA PrefillAllocateInv ==
    ASSUME IndInv, PrefillAllocate
    PROVE  IndInv'
  <1> USE DEF IndInv, TypeOK
  <1> DEFINE n == Len(Prompt[cur]) - numComputed[cur]
  <1>1. /\ at = "prefill_allocate" /\ cur \in Req /\ status[cur] = "prefill"
        /\ row[cur] = <<>> /\ Len(blocks) = numComputed[cur]
        /\ numComputed[cur] <= Len(Prompt[cur])
        /\ numComputed[cur] \in Nat /\ blocks \in Seq(Nat)
        /\ blocks' = <<>> /\ UNCHANGED <<status, cur, drafts, accepted>>
    BY DEF PrefillAllocate, ControlInv, RowInv, HandlerTypeOK
  <1>2. n \in Nat /\ Len(Prompt[cur]) \in Nat
    BY <1>1, TextType
  <1>3. \/ /\ AllocateNothing(cur, n, blocks) \/ AllocateSucceeds(cur, n, blocks)
           /\ numComputed' = [numComputed EXCEPT ![cur] = Len(Prompt[cur])]
           /\ at' = "prefill_sync"
        \/ /\ AllocateFails(cur, n, blocks)
           /\ at' = "raised_oom"
           /\ UNCHANGED numComputed
    BY DEF PrefillAllocate
  <1>4. CASE /\ AllocateNothing(cur, n, blocks) \/ AllocateSucceeds(cur, n, blocks)
             /\ numComputed' = [numComputed EXCEPT ![cur] = Len(Prompt[cur])]
             /\ at' = "prefill_sync"
    <2>1. /\ BackendTypeOK' /\ PoolInv'
          /\ \A q \in Req \ {cur} : row'[q] = row[q]
          /\ Len(row'[cur]) = Len(Prompt[cur])
          /\ \A q \in Req : charged[q] <= charged'[q]
          /\ UNCHANGED <<outLen, evicted>>
      <3>1. CASE AllocateNothing(cur, n, blocks)
        <4>1. /\ n = 0 /\ row' = [row EXCEPT ![cur] = @ \o blocks]
              /\ UNCHANGED <<poolVars, tree, outLen, lastNode, charged, evicted>>
          BY <1>2, <3>1 DEF AllocateNothing
        <4>2. /\ row[cur] \o blocks \in Seq(Nat)
              /\ Len(row[cur] \o blocks) = Len(blocks)
          BY <1>1, ConcatSlots DEF BackendTypeOK
        <4>3. Len(blocks) = Len(Prompt[cur])
          BY <1>1, <1>2, <4>1
        <4>4. row'[cur] = row[cur] \o blocks /\ row' \in [Req -> Seq(Nat)]
          BY <1>1, <4>1, <4>2 DEF BackendTypeOK
        <4>5. Len(row'[cur]) = Len(Prompt[cur])
          BY <4>2, <4>3, <4>4
        <4>6. BackendTypeOK'
          BY <4>1, <4>4 DEF BackendTypeOK, poolVars
        <4>7. PoolInv'
          BY <4>1 DEF poolVars, PoolInv, PoolsWithinCaps, FlatPoolNeverBinds,
                      FullUseCoversSlots
        <4> QED
          BY <4>1, <4>5, <4>6, <4>7 DEF BackendTypeOK
      <3>2. CASE AllocateSucceeds(cur, n, blocks)
        <4>1. /\ BackendTypeOK' /\ PoolInv' /\ n > 0
              /\ \A q \in Req \ {cur} : row'[q] = row[q]
              /\ Len(row'[cur]) = Len(row[cur]) + Len(blocks) + n
              /\ charged' = [charged EXCEPT ![cur] = @ + n]
              /\ UNCHANGED <<outLen, evicted>>
          <5>1. /\ AllocateSucceeds(cur, n, blocks) /\ n \in Int
                /\ cur \in Req /\ blocks \in Seq(Nat)
            BY <1>1, <1>2, <3>2
          <5>2. BackendTypeOK /\ PoolInv
            OBVIOUS
          <5> HIDE DEF n, IndInv, TypeOK
          <5> QED
            BY <5>1, <5>2, AllocateSucceedsInv
        <4>2. Len(row'[cur]) = Len(Prompt[cur])
          BY <1>1, <1>2, <4>1
        <4>3. ASSUME NEW q \in Req
              PROVE  charged[q] <= charged'[q]
          <5> HIDE DEF n
          <5>1. charged[q] \in Nat /\ charged \in [Req -> Nat]
            BY DEF BackendTypeOK
          <5>2. charged'[q] = IF q = cur THEN charged[q] + n ELSE charged[q]
            BY <4>1, <5>1
          <5> QED
            BY <1>2, <5>1, <5>2
        <4> QED
          BY <4>1, <4>2, <4>3
      <3> QED
        BY <1>4, <3>1, <3>2
    <2>2. HandlerTypeOK'
      BY <1>1, <1>2, <1>4 DEF HandlerTypeOK
    <2>3. ControlInv'
      BY <1>1, <1>4 DEF ControlInv, ContractsKept
    <2>4. RowInv'
      <3>1. numComputed'[cur] = Len(Prompt[cur])
        BY <1>1, <1>4 DEF HandlerTypeOK
      <3>2. \A q \in Req : status[q] \in {"decoding", "finished"} =>
              /\ q # cur /\ numComputed'[q] = numComputed[q]
              /\ Ahead(q)' = 0 /\ Ahead(q) = 0
        BY <1>1, <1>4 DEF HandlerTypeOK, Ahead
      <3> QED
        BY <1>1, <1>4, <2>1, <3>1, <3>2 DEF RowInv
    <2>5. CursorInv'
      <3>1. \A q \in Req : Revocable(q) = 0 /\ Revocable(q)' = 0
        BY <1>1, <1>4 DEF Revocable
      <3>2. \A q \in Req : charged[q] \in Nat /\ charged'[q] \in Nat /\ evicted[q] \in Nat
        BY <2>1 DEF BackendTypeOK
      <3> QED
        BY <2>1, <3>1, <3>2 DEF CursorInv
    <2> QED
      BY <2>1, <2>2, <2>3, <2>4, <2>5
  <1>5. CASE /\ AllocateFails(cur, n, blocks)
             /\ at' = "raised_oom"
             /\ UNCHANGED numComputed
    <2>1. /\ BackendTypeOK' /\ PoolInv'
          /\ row' = [row EXCEPT ![cur] = @ \o blocks]
          /\ UNCHANGED <<outLen, charged, evicted>>
      <3>1. /\ AllocateFails(cur, n, blocks) /\ n \in Int
            /\ cur \in Req /\ blocks \in Seq(Nat)
        BY <1>1, <1>2, <1>5
      <3> HIDE DEF n
      <3> QED
        BY <3>1, AllocateFailsInv
    <2>2. HandlerTypeOK'
      BY <1>1, <1>5 DEF HandlerTypeOK
    <2>3. ControlInv'
      BY <1>1, <1>5 DEF ControlInv, ContractsKept
    <2>4. RowInv'
      <3>1. \A q \in Req \ {cur} : row'[q] = row[q]
        BY <2>1 DEF BackendTypeOK
      <3>2. \A q \in Req : status[q] \in {"decoding", "finished"} =>
              q # cur /\ Ahead(q)' = 0 /\ Ahead(q) = 0
        BY <1>1, <1>5 DEF Ahead
      <3> QED
        BY <1>1, <1>5, <2>1, <3>1, <3>2 DEF RowInv
    <2>5. CursorInv'
      BY <1>1, <1>5, <2>1 DEF CursorInv, Revocable
    <2> QED
      BY <2>1, <2>2, <2>3, <2>4, <2>5
  <1> QED
    BY <1>3, <1>4, <1>5

\* sync_state after a prefill never trips its assertion.
LEMMA PrefillSyncInv ==
    ASSUME IndInv, PrefillSync
    PROVE  IndInv'
  <1> USE DEF IndInv, TypeOK
  <1>1. /\ at = "prefill_sync" /\ cur \in Req /\ status[cur] = "prefill"
        /\ Len(row[cur]) = Len(Prompt[cur]) /\ numComputed[cur] = Len(Prompt[cur])
        /\ outLen[cur] = 0 /\ drafts = 0 /\ accepted = 0
        /\ cur' = NoReq /\ UNCHANGED <<numComputed, blocks, drafts, accepted>>
    BY DEF PrefillSync, ControlInv, RowInv, HandlerTypeOK
  <1>2. 0 \in 0..Len(Output[cur]) /\ Len(Prompt[cur]) \in Nat
    BY <1>1, TextType
  <1>3. ~RowTooShort(cur, 0)
    <2>1. Len(Text(cur, 0)) = Len(Prompt[cur])
      BY <1>1, <1>2, TextType
    <2> QED
      BY <1>1, <1>2, <2>1, PageFloorBounds DEF RowTooShort
  <1>4. /\ SyncState(cur, 0) /\ at' = "idle"
        /\ status' = [status EXCEPT ![cur] = "decoding"]
    BY <1>3 DEF PrefillSync
  <1>5. /\ BackendTypeOK' /\ PoolInv'
        /\ UNCHANGED <<row, charged>>
        /\ outLen' = [outLen EXCEPT ![cur] = 0]
        /\ \A q \in Req \ {cur} : evicted'[q] = evicted[q]
        /\ \/ evicted'[cur] = evicted[cur]
           \/ evicted'[cur] + Window + PageSize < charged[cur]
    BY <1>1, <1>2, <1>4, SyncStateInv
  <1>6. HandlerTypeOK'
    BY <1>1, <1>4 DEF HandlerTypeOK
  <1>7. ControlInv'
    BY <1>1, <1>4 DEF ControlInv, ContractsKept
  <1>8. RowInv'
    <2>1. UNCHANGED outLen
      BY <1>1, <1>5 DEF BackendTypeOK
    <2>2. \A q \in Req : Ahead(q)' = 0 /\ Ahead(q) = 0
      BY <1>1, <1>4 DEF Ahead
    <2>3. status'[cur] = "decoding" /\ \A q \in Req \ {cur} : status'[q] = status[q]
      BY <1>1, <1>4 DEF HandlerTypeOK
    <2>4. cur' \notin Req
      BY <1>1
    <2>5. Len(Prompt[cur]) + outLen[cur] + 0 <= Len(row[cur])
      BY <1>1, <1>2
    <2> QED
      BY <1>1, <1>4, <1>5, <2>1, <2>2, <2>3, <2>4, <2>5 DEF RowInv
  <1>9. CursorInv'
    <2>1. \A q \in Req : Revocable(q)' = 0 /\ Revocable(q) = 0
      BY <1>1, <1>4 DEF Revocable
    <2>2. \A q \in Req : charged[q] \in Nat /\ evicted[q] \in Nat /\ evicted'[q] \in Nat
      BY <1>5 DEF BackendTypeOK
    <2>3. ASSUME NEW q \in Req
          PROVE  evicted'[q] = 0 \/ evicted'[q] + Window + PageSize < charged'[q]
      <3>1. evicted[q] = 0 \/ evicted[q] + Window + PageSize < charged[q]
        BY <2>1, <2>2 DEF CursorInv
      <3> QED
        BY <1>5, <3>1
    <2> QED
      BY <2>1, <2>2, <2>3 DEF CursorInv
  <1> QED
    BY <1>5, <1>6, <1>7, <1>8, <1>9

\* A decode step is billed for the bonus and its drafts, or leaves the request
\* as it was.
LEMMA DecodeAllocateInv ==
    ASSUME IndInv, NEW r \in Req, DecodeAllocate(r)
    PROVE  IndInv'
  <1> USE DEF IndInv, TypeOK
  <1> DEFINE k == Drafts(r)
  <1>1. /\ at = "idle" /\ status[r] = "decoding" /\ cur = NoReq
        /\ drafts = 0 /\ accepted = 0
        /\ UNCHANGED <<status, blocks, accepted>>
    BY DEF DecodeAllocate, ControlInv, HandlerTypeOK
  <1>2. k \in 0..NumSpec /\ k <= Monus(Len(Output[r]), outLen[r] + 1)
    BY TextType DEF Drafts, Monus, BackendTypeOK
  <1>3. \/ /\ AllocateSucceeds(r, 1 + k, <<>>)
           /\ numComputed' = [numComputed EXCEPT ![r] = @ + 1 + k]
           /\ drafts' = k /\ at' = "decode_rollback" /\ cur' = r
        \/ /\ AllocateFails(r, 1 + k, <<>>)
           /\ UNCHANGED <<numComputed, drafts, at, cur>>
    BY DEF DecodeAllocate
  <1> HIDE DEF k
  <1>4. /\ 1 + k \in Int /\ 1 + k \in Nat /\ <<>> \in Seq(Nat) /\ Len(<<>>) = 0
    BY <1>2
  <1>5. \A q \in Req : Ahead(q) = 0 /\ Revocable(q) = 0
    BY <1>1 DEF Ahead, Revocable
  <1>6. CASE /\ AllocateSucceeds(r, 1 + k, <<>>)
             /\ numComputed' = [numComputed EXCEPT ![r] = @ + 1 + k]
             /\ drafts' = k /\ at' = "decode_rollback" /\ cur' = r
    <2>1. /\ BackendTypeOK' /\ PoolInv'
          /\ \A q \in Req \ {r} : row'[q] = row[q]
          /\ Len(row'[r]) = Len(row[r]) + Len(<<>>) + (1 + k)
          /\ charged' = [charged EXCEPT ![r] = @ + (1 + k)]
          /\ UNCHANGED <<outLen, evicted>>
      BY <1>4, <1>6, AllocateSucceedsInv
    <2>2. numComputed' \in [Req -> Nat] /\ numComputed'[r] = numComputed[r] + 1 + k
          /\ \A q \in Req \ {r} : numComputed'[q] = numComputed[q]
      BY <1>2, <1>6 DEF HandlerTypeOK
    <2>3. HandlerTypeOK'
      BY <1>1, <1>2, <1>6, <2>2 DEF HandlerTypeOK
    <2>4. ControlInv'
      BY <1>1, <1>6 DEF ControlInv, ContractsKept
    <2>5. /\ Len(row[r]) = numComputed[r]
          /\ Len(Prompt[r]) + outLen[r] <= Len(row[r])
          /\ Len(row[r]) \in Nat /\ Len(Prompt[r]) \in Nat /\ outLen[r] \in Nat
      BY <1>1, <1>5, TextType DEF RowInv, BackendTypeOK
    <2>6. Len(row'[r]) = numComputed'[r]
          /\ Len(Prompt[r]) + outLen[r] + (1 + k) <= Len(row'[r])
      <3>1. k \in Nat /\ numComputed[r] \in Nat
        BY <1>2, <2>5
      <3>2. Len(row'[r]) = Len(row[r]) + (1 + k)
        <4>1. Len(row'[r]) = Len(row[r]) + 0 + (1 + k)
          BY ONLY <1>4, <2>1
        <4> QED
          BY ONLY <2>5, <3>1, <4>1
      <3>3. numComputed'[r] = numComputed[r] + (1 + k)
        BY ONLY <2>2, <3>1
      <3>4. Len(row'[r]) = numComputed'[r]
        BY ONLY <2>5, <3>2, <3>3
      <3> QED
        BY ONLY <2>5, <3>1, <3>2, <3>4
    <2>7. Ahead(r)' = 1 + k /\ \A q \in Req \ {r} : Ahead(q)' = 0
      BY <1>6 DEF Ahead
    <2>8. RowInv'
      BY <1>1, <1>2, <1>5, <1>6, <2>1, <2>2, <2>6, <2>7 DEF RowInv
    <2>9. CursorInv'
      <3>1. ASSUME NEW q \in Req
            PROVE  evicted'[q] = 0
                   \/ evicted'[q] + Window + PageSize + Revocable(q)' < charged'[q]
        <4>1. evicted[q] = 0 \/ evicted[q] + Window + PageSize < charged[q]
          BY <1>5 DEF CursorInv, BackendTypeOK
        <4>2. evicted'[q] = evicted[q] /\ evicted[q] \in Nat /\ charged[q] \in Nat
          BY <2>1 DEF BackendTypeOK
        <4>3. CASE q = r
          <5>1. Revocable(q)' = k /\ charged'[q] = charged[q] + (1 + k)
            BY <1>6, <2>1, <4>3 DEF Revocable, BackendTypeOK
          <5> QED
            BY <1>2, <4>1, <4>2, <5>1
        <4>4. CASE q # r
          <5>1. Revocable(q)' = 0 /\ charged'[q] = charged[q]
            BY <1>6, <2>1, <4>4 DEF Revocable, BackendTypeOK
          <5> QED
            BY <4>1, <4>2, <5>1
        <4> QED
          BY <4>3, <4>4
      <3> QED
        BY <3>1 DEF CursorInv
    <2> QED
      BY <2>1, <2>3, <2>4, <2>8, <2>9
  <1>7. CASE /\ AllocateFails(r, 1 + k, <<>>)
             /\ UNCHANGED <<numComputed, drafts, at, cur>>
    <2>1. /\ BackendTypeOK' /\ PoolInv'
          /\ row' = [row EXCEPT ![r] = @ \o <<>>]
          /\ UNCHANGED <<outLen, charged, evicted>>
      BY <1>4, <1>7, AllocateFailsInv
    <2>2. row' = row
      <3>1. row[r] \o <<>> = row[r]
        BY DEF BackendTypeOK
      <3> QED
        BY <2>1, <3>1 DEF BackendTypeOK
    <2>3. HandlerTypeOK'
      BY <1>1, <1>7 DEF HandlerTypeOK
    <2>4. ControlInv' /\ RowInv' /\ CursorInv'
      BY <1>1, <1>7, <2>1, <2>2 DEF ControlInv, ContractsKept, RowInv, CursorInv,
                                    Ahead, Revocable
    <2> QED
      BY <2>1, <2>3, <2>4
  <1> QED
    BY <1>3, <1>6, <1>7

\* Rejected drafts leave the row's tail and the charge; the row always has them.
LEMMA DecodeRollbackInv ==
    ASSUME IndInv, DecodeRollback
    PROVE  IndInv'
  <1> USE DEF IndInv, TypeOK
  <1>1. /\ at = "decode_rollback" /\ cur \in Req /\ status[cur] = "decoding"
        /\ drafts \in 0..NumSpec
        /\ drafts <= Monus(Len(Output[cur]), outLen[cur] + 1)
        /\ Len(row[cur]) = numComputed[cur]
        /\ UNCHANGED <<status, cur, blocks, drafts>>
    BY DEF DecodeRollback, ControlInv, RowInv, HandlerTypeOK
  <1>2. /\ Len(Prompt[cur]) + outLen[cur] + (1 + drafts) <= Len(row[cur])
        /\ Len(row[cur]) \in Nat /\ Len(Prompt[cur]) \in Nat /\ outLen[cur] \in Nat
    BY <1>1, TextType DEF RowInv, Ahead, BackendTypeOK
  <1>3. PICK a \in 0..drafts :
          /\ accepted' = a
          /\ numComputed' = [numComputed EXCEPT ![cur] = Monus(@, drafts - a)]
          /\ IF RejectedTailMissing(cur, drafts - a)
             THEN at' = "raised_tail" /\ UNCHANGED backendVars
             ELSE FreeRejectedSlots(cur, drafts - a) /\ at' = "decode_sync"
    BY DEF DecodeRollback
  <1> DEFINE m == drafts - a
  <1>4. m \in Nat /\ m <= Len(row[cur]) /\ a \in Nat /\ m = drafts - a
    BY <1>1, <1>2
  <1>5. ~RejectedTailMissing(cur, m)
    BY <1>2, <1>4 DEF RejectedTailMissing
  <1>6. /\ FreeRejectedSlots(cur, m) /\ at' = "decode_sync"
        /\ numComputed' = [numComputed EXCEPT ![cur] = Monus(@, m)]
    BY <1>3, <1>5
  <1> HIDE DEF m
  <1>7. /\ BackendTypeOK' /\ PoolInv'
        /\ \A q \in Req \ {cur} : row'[q] = row[q]
        /\ Len(row'[cur]) = Len(row[cur]) - m
        /\ charged' = [charged EXCEPT ![cur] = Monus(@, m)]
        /\ UNCHANGED <<outLen, evicted>>
    BY <1>1, <1>4, <1>6, FreeRejectedInv
  <1>8. /\ numComputed' \in [Req -> Nat]
        /\ numComputed'[cur] = numComputed[cur] - m
        /\ \A q \in Req \ {cur} : numComputed'[q] = numComputed[q]
    BY <1>1, <1>4, <1>6 DEF HandlerTypeOK, Monus
  <1>9. HandlerTypeOK'
    BY <1>1, <1>3, <1>6, <1>8 DEF HandlerTypeOK
  <1>10. ControlInv'
    BY <1>1, <1>6 DEF ControlInv, ContractsKept
  <1>11. RowInv'
    <2>1. \A q \in Req \ {cur} : Ahead(q) = 0 /\ Ahead(q)' = 0
      BY <1>1 DEF Ahead
    <2>2. Ahead(cur)' = 1 + a
      BY <1>1, <1>3, <1>6 DEF Ahead
    <2>3. Len(row'[cur]) = numComputed'[cur]
      BY <1>1, <1>7, <1>8
    <2>4. Len(Prompt[cur]) + outLen[cur] + (1 + a) <= Len(row'[cur])
      BY <1>1, <1>2, <1>4, <1>7
    <2>5. Monus(Len(Output[cur]), outLen[cur] + 1) \in Nat
      BY <1>1, <1>2, TextType DEF Monus
    <2>6. a <= Monus(Len(Output[cur]), outLen[cur] + 1)
      BY <1>1, <1>4, <2>5
    <2> QED
      BY <1>1, <1>3, <1>6, <1>7, <1>8, <2>1, <2>2, <2>3, <2>4, <2>6 DEF RowInv
  <1>12. CursorInv'
    <2>1. ASSUME NEW q \in Req
          PROVE  evicted'[q] = 0
                 \/ evicted'[q] + Window + PageSize + Revocable(q)' < charged'[q]
      <3>1. evicted[q] = 0
            \/ evicted[q] + Window + PageSize + Revocable(q) < charged[q]
        BY DEF CursorInv
      <3>2. evicted'[q] = evicted[q] /\ evicted[q] \in Nat /\ charged[q] \in Nat
        BY <1>7 DEF BackendTypeOK
      <3>3. Revocable(q)' = 0
        BY <1>6 DEF Revocable
      <3>4. CASE q = cur
        <4>1. Revocable(q) = drafts /\ charged'[q] = Monus(charged[q], m)
          BY <1>1, <1>7, <3>4 DEF Revocable, BackendTypeOK
        <4> QED
          BY <1>1, <1>4, <3>1, <3>2, <3>3, <4>1 DEF Monus
      <3>5. CASE q # cur
        <4>1. Revocable(q) = 0 /\ charged'[q] = charged[q]
          BY <1>7, <3>5 DEF Revocable, BackendTypeOK
        <4> QED
          BY <3>1, <3>2, <3>3, <4>1
      <3> QED
        BY <3>4, <3>5
    <2> QED
      BY <2>1 DEF CursorInv
  <1> QED
    BY <1>7, <1>9, <1>10, <1>11, <1>12

\* The output grows by what a decode step kept, never past the ground truth,
\* and the row still has the slots of the longer text.
LEMMA DecodeSyncInv ==
    ASSUME IndInv, DecodeSync
    PROVE  IndInv'
  <1> USE DEF IndInv, TypeOK
  <1> DEFINE n == outLen[cur] + Bonus(cur) + accepted
  <1>1. /\ at = "decode_sync" /\ cur \in Req /\ status[cur] = "decoding"
        /\ accepted <= Monus(Len(Output[cur]), outLen[cur] + 1)
        /\ accepted \in Nat /\ outLen[cur] <= Len(Output[cur])
        /\ Len(row[cur]) = numComputed[cur]
        /\ drafts' = 0 /\ accepted' = 0 /\ cur' = NoReq
        /\ UNCHANGED <<numComputed, blocks>>
    BY DEF DecodeSync, ControlInv, RowInv, HandlerTypeOK
  <1>2. /\ Len(Prompt[cur]) + outLen[cur] + (1 + accepted) <= Len(row[cur])
        /\ row[cur] \in Seq(Nat) /\ Len(row[cur]) \in Nat
        /\ Len(Prompt[cur]) \in Nat /\ outLen[cur] \in Nat /\ Len(Output[cur]) \in Nat
    BY <1>1, TextType DEF RowInv, Ahead, BackendTypeOK
  <1>3. n \in 0..Len(Output[cur]) /\ Len(Prompt[cur]) + n <= Len(row[cur])
    <2>1. Bonus(cur) \in 0..1
          /\ (outLen[cur] < Len(Output[cur]) => Bonus(cur) = 1)
          /\ (outLen[cur] >= Len(Output[cur]) => Bonus(cur) = 0)
      BY <1>2 DEF Bonus
    <2>2. \/ accepted = 0
          \/ outLen[cur] + 1 + accepted <= Len(Output[cur])
      BY <1>1, <1>2 DEF Monus
    <2>3. n = outLen[cur] + Bonus(cur) + accepted
      OBVIOUS
    <2> HIDE DEF n
    <2> DEFINE o == outLen[cur]  l == Len(Output[cur])  b == Bonus(cur)
               p == Len(Prompt[cur])  w == Len(row[cur])
    <2>4. /\ o \in Nat /\ l \in Nat /\ p \in Nat /\ w \in Nat /\ b \in 0..1
          /\ accepted \in Nat /\ o <= l /\ (o < l => b = 1) /\ (o >= l => b = 0)
          /\ (accepted = 0 \/ o + 1 + accepted <= l)
          /\ p + o + (1 + accepted) <= w /\ n = o + b + accepted
      BY <1>1, <1>2, <2>1, <2>2, <2>3
    <2> HIDE DEF o, l, b, p, w
    <2>5. n \in 0..l /\ p + n <= w
      BY ONLY <2>4
    <2> QED
      BY ONLY <2>5 DEF l, p, w
  <1> HIDE DEF n
  <1>4. ~RowTooShort(cur, n)
    <2>1. Len(Text(cur, n)) = Len(Prompt[cur]) + n /\ Len(Text(cur, n)) \in Nat
      BY <1>1, <1>2, <1>3, TextType
    <2>2. PageFloor(Len(Text(cur, n))) \in Nat
          /\ PageFloor(Len(Text(cur, n))) <= Len(Text(cur, n))
      BY <2>1, PageFloorBounds
    <2> QED
      BY <1>2, <1>3, <2>1, <2>2 DEF RowTooShort
  <1>5. /\ SyncState(cur, n) /\ at' = "idle"
        /\ status' = [status EXCEPT ![cur] =
                         IF n >= Len(Output[cur]) THEN "finished" ELSE @]
    BY <1>1, <1>4 DEF DecodeSync, n
  <1>6. /\ BackendTypeOK' /\ PoolInv'
        /\ UNCHANGED <<row, charged>>
        /\ outLen' = [outLen EXCEPT ![cur] = n]
        /\ \A q \in Req : \/ evicted'[q] = evicted[q]
                          \/ evicted'[q] + Window + PageSize < charged'[q]
    BY <1>1, <1>3, <1>5, SyncStateInv
  <1>7. /\ status' \in [Req -> {"prefill", "decoding", "finished", "freed"}]
        /\ status'[cur] \in {"decoding", "finished"}
        /\ \A q \in Req \ {cur} : status'[q] = status[q] /\ outLen'[q] = outLen[q]
        /\ outLen'[cur] = n
    BY <1>1, <1>5, <1>6 DEF HandlerTypeOK, BackendTypeOK
  <1>8. HandlerTypeOK'
    BY <1>1, <1>5, <1>7, HandlerAssumption DEF HandlerTypeOK
  <1>9. ControlInv'
    BY <1>1, <1>5 DEF ControlInv, ContractsKept
  <1>10. RowInv'
    <2>1. \A q \in Req : Ahead(q)' = 0
      BY <1>5 DEF Ahead
    <2>2. \A q \in Req \ {cur} : Ahead(q) = 0
      BY <1>1 DEF Ahead
    <2>3. Len(Prompt[cur]) + outLen'[cur] + 0 <= Len(row'[cur])
      BY <1>2, <1>3, <1>6, <1>7
    <2>4. Len(row'[cur]) = numComputed'[cur] /\ outLen'[cur] <= Len(Output[cur])
      BY <1>1, <1>3, <1>6, <1>7
    <2> QED
      BY <1>1, <1>5, <1>6, <1>7, <2>1, <2>2, <2>3, <2>4 DEF RowInv
  <1>11. CursorInv'
    <2>1. \A q \in Req : Revocable(q)' = 0 /\ Revocable(q) = 0
      BY <1>1, <1>5 DEF Revocable
    <2>2. \A q \in Req : charged[q] \in Nat /\ evicted[q] \in Nat /\ evicted'[q] \in Nat
      BY <1>6 DEF BackendTypeOK
    <2>3. ASSUME NEW q \in Req
          PROVE  evicted'[q] = 0 \/ evicted'[q] + Window + PageSize < charged'[q]
      <3>1. evicted[q] = 0 \/ evicted[q] + Window + PageSize < charged[q]
        BY <2>1, <2>2 DEF CursorInv
      <3> QED
        BY <1>6, <3>1
    <2> QED
      BY <2>1, <2>2, <2>3 DEF CursorInv
  <1> QED
    BY <1>6, <1>8, <1>9, <1>10, <1>11

\* A finished request is freed.
LEMMA CleanupInv ==
    ASSUME IndInv, NEW r \in Req, Cleanup(r)
    PROVE  IndInv'
  <1> USE DEF IndInv, TypeOK
  <1>1. /\ at = "idle" /\ status[r] = "finished" /\ Free(r)
        /\ outLen[r] <= Len(Output[r])
        /\ status' = [status EXCEPT ![r] = "freed"]
        /\ UNCHANGED <<numComputed, at, cur, blocks, drafts, accepted>>
    BY DEF Cleanup, RowInv
  <1>2. BackendTypeOK' /\ PoolInv'
    BY <1>1, FreeInv
  <1>3. /\ row' = [row EXCEPT ![r] = <<>>]
        /\ charged' = [charged EXCEPT ![r] = 0]
        /\ evicted' = [evicted EXCEPT ![r] = 0]
        /\ outLen' = outLen
    BY <1>1 DEF Free
  <1>4. /\ status' \in [Req -> {"prefill", "decoding", "finished", "freed"}]
        /\ status'[r] = "freed"
        /\ \A q \in Req \ {r} : status'[q] = status[q] /\ row'[q] = row[q]
                /\ charged'[q] = charged[q] /\ evicted'[q] = evicted[q]
        /\ evicted'[r] = 0
    BY <1>1, <1>3 DEF HandlerTypeOK, BackendTypeOK
  <1>5. HandlerTypeOK'
    BY <1>1, <1>4 DEF HandlerTypeOK
  <1>6. ControlInv'
    BY <1>1 DEF ControlInv, ContractsKept
  <1>7. RowInv'
    BY <1>1, <1>3, <1>4 DEF RowInv, Ahead
  <1>8. CursorInv'
    BY <1>1, <1>4 DEF CursorInv, Revocable
  <1> QED
    BY <1>2, <1>5, <1>6, <1>7, <1>8

\* Every step of a handler, and a stutter, preserves the invariant.
LEMMA StepInv ==
    ASSUME IndInv, [Next]_vars
    PROVE  IndInv'
  <1>1. CASE Next
    BY <1>1, PrefillMatchInv, PrefillAllocateInv, PrefillSyncInv,
       DecodeAllocateInv, DecodeRollbackInv, DecodeSyncInv, CleanupInv DEF Next
  <1>2. CASE UNCHANGED vars
    BY <1>2 DEF vars, backendVars, poolVars, handleVars, handlerVars, IndInv,
                TypeOK, BackendTypeOK, HandlerTypeOK, PoolInv, PoolsWithinCaps,
                FlatPoolNeverBinds, FullUseCoversSlots, ControlInv, ContractsKept,
                RowInv, Ahead, CursorInv, Revocable
  <1> QED
    BY <1>1, <1>2

-----------------------------------------------------------------------------
(* The theorems, for every workload, page size, window, pool size and number *)
(* of draft tokens.                                                          *)

\* The inductive invariant holds in every reachable state of the handlers.
THEOREM Inductive == Spec => []IndInv
  <1>1. Init => IndInv
    BY InitIndInv
  <1>2. IndInv /\ [Next]_vars => IndInv'
    BY StepInv
  <1> QED
    BY <1>1, <1>2, PTL DEF Spec

\* Every backend and handler variable keeps its type; in particular a cached
\* page always has one slot per token, whatever insert and evict do.
THEOREM TypeCorrect == Spec => []TypeOK
  <1>1. IndInv => TypeOK
    BY DEF IndInv
  <1> QED
    BY <1>1, Inductive, PTL

\* The two pool counters stay within the capacities that allocate_slots checks,
\* and the recorded peaks are high-water marks of them.
THEOREM CapsRespected == Spec => []PoolsWithinCaps
  <1>1. IndInv => PoolsWithinCaps
    BY DEF IndInv, PoolInv
  <1> QED
    BY <1>1, Inductive, PTL

\* The flat allocator of swa + full slots never refuses a request that the
\* two-pool check admitted: the flat_pool_oom path is dead.
THEOREM FlatPoolSuffices == Spec => []FlatPoolNeverBinds
  <1>1. IndInv => FlatPoolNeverBinds
    BY DEF IndInv, PoolInv
  <1> QED
    BY <1>1, Inductive, PTL

\* The full pool is never under-counted by the clamp in on_free.
THEOREM FullPoolCoversSlots == Spec => []FullUseCoversSlots
  <1>1. IndInv => FullUseCoversSlots
    BY DEF IndInv, PoolInv
  <1> QED
    BY <1>1, Inductive, PTL

\* The assertion of sync_state and the RuntimeError of free_rejected_slots are
\* unreachable.
THEOREM ContractsNeverBreak == Spec => []ContractsKept
  <1>1. IndInv => ContractsKept
    BY DEF IndInv, ControlInv
  <1> QED
    BY <1>1, Inductive, PTL

\* The backend and the scheduler agree on how many tokens of a served request
\* have a slot.
THEOREM RowsAgree == Spec => []RowMatchesComputed
  <1>1. IndInv => RowMatchesComputed
    BY DEF IndInv, RowInv, RowMatchesComputed
  <1> QED
    BY <1>1, Inductive, PTL

\* Reclamation never reaches into the sliding window of a served request.
THEOREM WindowKept == Spec => []WindowNotReclaimed
  <1>1. IndInv => WindowNotReclaimed
    BY DEF IndInv, CursorInv, WindowNotReclaimed, Revocable, TypeOK,
           BackendTypeOK
  <1> QED
    BY <1>1, Inductive, PTL

-----------------------------------------------------------------------------
(* A decoding request has output left                                      *)

\* _handle_decode finishes a request in the step that completes its output.
OutputLeft ==
    \A r \in Req : status[r] = "decoding" =>
        outLen[r] < Len(Output[r]) \/ Len(Output[r]) = 0

\* Only the two sync_state calls leave a request decoding with a new length.
LEMMA OutputLeftStep ==
    ASSUME IndInv, IndInv', OutputLeft, [Next]_vars
    PROVE  OutputLeft'
  <1> USE DEF OutputLeft
  <1>0. /\ status \in [Req -> {"prefill", "decoding", "finished", "freed"}]
        /\ outLen \in [Req -> Nat] /\ outLen' \in [Req -> Nat]
        /\ at' \notin {"raised_tail", "raised_assert"}
    BY DEF IndInv, TypeOK, HandlerTypeOK, BackendTypeOK, ControlInv, ContractsKept
  <1>1. CASE PrefillSync
    <2>1. /\ cur \in Req /\ outLen' = [outLen EXCEPT ![cur] = 0]
          /\ status' = [status EXCEPT ![cur] = "decoding"]
      BY <1>0, <1>1 DEF PrefillSync, SyncState, IndInv, ControlInv
    <2>2. Len(Output[cur]) \in Nat
      BY <2>1, TextType
    <2> QED
      BY <1>0, <2>1, <2>2
  <1>2. CASE DecodeSync
    <2> DEFINE n == outLen[cur] + Bonus(cur) + accepted
    <2>1. /\ cur \in Req /\ outLen' = [outLen EXCEPT ![cur] = n]
          /\ status' = [status EXCEPT ![cur] =
                           IF n >= Len(Output[cur]) THEN "finished" ELSE @]
      BY <1>0, <1>2 DEF DecodeSync, SyncState, IndInv, ControlInv
    <2>2. outLen'[cur] = n /\ n \in Nat /\ Len(Output[cur]) \in Nat
      BY <1>0, <2>1, TextType
    <2> HIDE DEF n
    <2> QED
      BY <1>0, <2>1, <2>2
  <1>3. CASE UNCHANGED outLen /\ (UNCHANGED status
                \/ \E r \in Req : status' = [status EXCEPT ![r] = "freed"])
    BY <1>0, <1>3
  <1>4. ASSUME NEW r \in Req, PrefillMatch(r) \/ DecodeAllocate(r) \/ Cleanup(r)
        PROVE  UNCHANGED outLen /\ (UNCHANGED status
                  \/ status' = [status EXCEPT ![r] = "freed"])
    BY <1>4 DEF PrefillMatch, DecodeAllocate, AllocateSucceeds, AllocateFails,
                Cleanup, Free, backendVars, handleVars
  <1>5. CASE PrefillAllocate
    BY <1>3, <1>5 DEF PrefillAllocate, AllocateNothing, AllocateSucceeds, AllocateFails
  <1>6. CASE DecodeRollback
    BY <1>3, <1>6 DEF DecodeRollback, FreeRejectedSlots, backendVars, handleVars
  <1>7. CASE UNCHANGED vars
    BY <1>3, <1>7 DEF vars, backendVars, handleVars, handlerVars
  <1> QED
    BY <1>1, <1>2, <1>3, <1>4, <1>5, <1>6, <1>7 DEF Next

-----------------------------------------------------------------------------
(* Refinement, one lemma for each action that the contract can see           *)

\* What the refinement needs of the state before a step.
HeldInv ==
    /\ row \in [Req -> Seq(Nat)] /\ outLen \in [Req -> Nat]
    /\ status \in [Req -> {"prefill", "decoding", "finished", "freed"}]
    /\ cur = NoReq \/ cur \in Req
    /\ drafts \in 0..NumSpec /\ accepted \in 0..drafts

\* The inductive invariant of SGLangProofs gives what the refinement needs.
LEMMA HeldInvHolds ==
    ASSUME IndInv PROVE HeldInv
    BY DEF IndInv, TypeOK, BackendTypeOK, HandlerTypeOK, HeldInv

\* Slots of one request change, as the contract sees it.
LEMMA HeldUpdate ==
    ASSUME NEW c \in Req, NEW v,
           \A q \in Req : HeldOutside(q)' = IF q = c THEN v ELSE HeldOutside(q)
    PROVE  [r \in Req |-> HeldOutside(r)]'
               = [[r \in Req |-> HeldOutside(r)] EXCEPT ![c] = v]
    OBVIOUS

\* The completed prefill shows at once the whole prompt as held.
LEMMA PrefillSyncRefines ==
    ASSUME IndInv, IndInv', PrefillSync
    PROVE  Service!Next
  <1>1. /\ at = "prefill_sync" /\ cur \in Req /\ status[cur] = "prefill"
        /\ Len(row[cur]) = Len(Prompt[cur]) /\ outLen[cur] = 0 /\ cur' = NoReq
    BY DEF IndInv, ControlInv, RowInv, PrefillSync
  <1>2. /\ SyncState(cur, 0) /\ at' = "idle"
        /\ status' = [status EXCEPT ![cur] = "decoding"]
    BY DEF PrefillSync, IndInv, ControlInv, ContractsKept
  <1>3. row' = row /\ outLen' = outLen /\ HeldInv
    BY <1>1, <1>2, HeldInvHolds DEF SyncState, HeldInv
  <1>4. \A q \in Req : Ahead(q)' = 0 /\ Ahead(q) = 0
    BY <1>1, <1>2 DEF Ahead
  <1>5. \A q \in Req : Len(row[q]) \in Nat
    BY <1>3 DEF HeldInv
  <1>6. \A q \in Req : HeldOutside(q)' = IF q = cur THEN Len(Prompt[cur])
                                                    ELSE HeldOutside(q)
    BY <1>1, <1>2, <1>3, <1>4, <1>5 DEF HeldOutside, HeldInv
  <1>7. [r \in Req |-> HeldOutside(r)]'
          = [[r \in Req |-> HeldOutside(r)] EXCEPT ![cur] = Len(Prompt[cur])]
    BY <1>1, <1>6, HeldUpdate
  <1>8. Service!Prefill(cur)
    BY <1>1, <1>2, <1>3, <1>7 DEF Service!Prefill
  <1> QED
    BY <1>1, <1>8 DEF Service!Next

\* The completed decode step shows the accepted tokens as held and produced.
LEMMA DecodeSyncRefines ==
    ASSUME IndInv, IndInv', OutputLeft, DecodeSync
    PROVE  Service!Next
  <1> DEFINE n == outLen[cur] + Bonus(cur) + accepted
  <1>1. /\ at = "decode_sync" /\ cur \in Req /\ status[cur] = "decoding"
        /\ accepted <= Monus(Len(Output[cur]), outLen[cur] + 1)
        /\ cur' = NoReq /\ HeldInv
    BY HeldInvHolds DEF IndInv, ControlInv, RowInv, DecodeSync
  <1>2. /\ SyncState(cur, n) /\ at' = "idle"
        /\ status' = [status EXCEPT ![cur] =
                         IF n >= Len(Output[cur]) THEN "finished" ELSE @]
    BY DEF DecodeSync, IndInv, ControlInv, ContractsKept
  <1>3. row' = row /\ outLen' = [outLen EXCEPT ![cur] = n]
    BY <1>2 DEF SyncState
  <1>4. \A q \in Req : /\ Ahead(q)' = 0
                       /\ Ahead(q) = IF q = cur THEN 1 + accepted ELSE 0
    BY <1>1, <1>2 DEF Ahead
  <1>5. /\ \A q \in Req : Len(row[q]) \in Nat
        /\ outLen[cur] \in Nat /\ accepted \in Nat /\ accepted <= NumSpec
        /\ Len(Output[cur]) \in Nat /\ NumSpec \in Nat
    <2>1. /\ NumSpec \in Nat /\ drafts \in Nat /\ drafts <= NumSpec
          /\ accepted \in Nat /\ accepted <= drafts
      BY <1>1, HandlerAssumption DEF HeldInv, HandlerAssumption
    <2>2. \A q \in Req : Len(row[q]) \in Nat
      BY <1>1 DEF HeldInv
    <2>3. outLen[cur] \in Nat
      BY <1>1 DEF HeldInv
    <2> QED
      BY <1>1, <2>1, <2>2, <2>3, TextType
  <1>6. \A q \in Req : HeldOutside(q)' = IF q = cur
                                          THEN HeldOutside(cur) + (1 + accepted)
                                          ELSE HeldOutside(q)
    BY <1>1, <1>2, <1>3, <1>4, <1>5 DEF HeldOutside, HeldInv
  <1>7. [r \in Req |-> HeldOutside(r)]'
          = [[r \in Req |-> HeldOutside(r)] EXCEPT ![cur] = @ + (1 + accepted)]
    BY <1>1, <1>6, HeldUpdate
  <1>8. CASE Len(Output[cur]) = 0
    <2>1. accepted = 0
      BY <1>1, <1>5, <1>8 DEF Monus
    <2>2. n = outLen[cur] /\ n >= Len(Output[cur])
      BY <1>5, <1>8, <2>1 DEF Bonus
    <2>3. outLen' = outLen /\ status' = [status EXCEPT ![cur] = "finished"]
      BY <1>1, <1>2, <1>3, <2>2 DEF HeldInv
    <2>4. [r \in Req |-> HeldOutside(r)]'
            = [[r \in Req |-> HeldOutside(r)] EXCEPT ![cur] = @ + 1]
      BY <1>7, <2>1
    <2>5. Service!DecodeNothing(cur)
      BY <1>1, <1>8, <2>3, <2>4 DEF Service!DecodeNothing
    <2> QED
      BY <1>1, <2>5 DEF Service!Next
  <1>9. CASE Len(Output[cur]) # 0
    <2>1. outLen[cur] < Len(Output[cur])
      BY <1>1, <1>9 DEF OutputLeft
    <2>2. n = outLen[cur] + (1 + accepted) /\ n <= Len(Output[cur])
      <3>1. Bonus(cur) = 1
        BY <2>1 DEF Bonus
      <3>2. accepted <= Len(Output[cur]) - (outLen[cur] + 1)
        BY <1>1, <1>5, <2>1 DEF Monus
      <3>3. \A o, a, l \in Nat : a <= l - (o + 1) =>
               o + 1 + a = o + (1 + a) /\ o + 1 + a <= l
        OBVIOUS
      <3>4. n = outLen[cur] + 1 + accepted
        BY <3>1, Zenon
      <3> HIDE DEF n
      <3>5. /\ outLen[cur] + 1 + accepted = outLen[cur] + (1 + accepted)
            /\ outLen[cur] + 1 + accepted <= Len(Output[cur])
        BY <1>5, <3>2, <3>3
      <3> QED
        BY <3>4, <3>5, Zenon
    <2>4. outLen' = [outLen EXCEPT ![cur] = @ + (1 + accepted)]
      BY <1>3, <2>2
    <2>5. status' = [status EXCEPT ![cur] =
              IF outLen[cur] + (1 + accepted) = Len(Output[cur])
              THEN "finished" ELSE @]
      <3>1. n >= Len(Output[cur]) <=> outLen[cur] + (1 + accepted) = Len(Output[cur])
        <4> HIDE DEF n
        <4> QED
          BY <1>5, <2>2
      <3> QED
        BY <1>2, <3>1
    <2>6. /\ 1 + accepted \in 1..(1 + NumSpec)
          /\ 1 + accepted <= Len(Output[cur]) - outLen[cur]
      BY <1>5, <2>2
    <2>7. Service!Decode(cur, 1 + accepted)
      BY <1>1, <1>7, <2>4, <2>5, <2>6 DEF Service!Decode
    <2> QED
      BY <1>1, <2>6, <2>7 DEF Service!Next
  <1> QED
    BY <1>8, <1>9

\* Freeing a request shows its slots as given back.
LEMMA CleanupRefines ==
    ASSUME IndInv, NEW r \in Req, Cleanup(r)
    PROVE  Service!Next
  <1>1. /\ at = "idle" /\ cur = NoReq /\ status[r] = "finished"
        /\ row' = [row EXCEPT ![r] = <<>>] /\ outLen' = outLen
        /\ status' = [status EXCEPT ![r] = "freed"]
        /\ UNCHANGED <<at, cur>> /\ HeldInv
    BY HeldInvHolds DEF IndInv, ControlInv, Cleanup, Free
  <1>2. \A q \in Req : Ahead(q)' = 0 /\ Ahead(q) = 0
    BY <1>1 DEF Ahead
  <1>3. /\ HeldOutside(r)' = 0
        /\ \A q \in Req \ {r} : HeldOutside(q)' = HeldOutside(q)
    BY <1>1, <1>2 DEF HeldOutside, HeldInv
  <1>4. [q \in Req |-> HeldOutside(q)]'
          = [[q \in Req |-> HeldOutside(q)] EXCEPT ![r] = 0]
    BY <1>3
  <1>5. Service!Release(r)
    BY <1>1, <1>4 DEF Service!Release
  <1> QED
    BY <1>5 DEF Service!Next

\* Everything else that a handler does is invisible.
LEMMA HiddenStep ==
    ASSUME IndInv, [Next]_vars, ~PrefillSync, ~DecodeSync,
           \A r \in Req : ~Cleanup(r)
    PROVE  UNCHANGED <<status, outLen>>
           /\ \A q \in Req : HeldOutside(q)' = HeldOutside(q)
  <1>1. /\ HeldInv /\ (at = "idle" => cur = NoReq) /\ NoReq \notin Req
        /\ NumSpec \in Nat
    BY HeldInvHolds, HandlerAssumption DEF IndInv, ControlInv, HandlerAssumption
  <1>2. CASE UNCHANGED vars
    BY <1>2 DEF vars, backendVars, handleVars, handlerVars, HeldOutside, Ahead
  <1>3. ASSUME NEW r \in Req, PrefillMatch(r)
        PROVE  UNCHANGED <<status, outLen>>
               /\ \A q \in Req : HeldOutside(q)' = HeldOutside(q)
    BY <1>3 DEF PrefillMatch, backendVars, handleVars, HeldOutside, Ahead
  <1>4. CASE PrefillAllocate
    <2>1. /\ at = "prefill_allocate" /\ at' \in {"prefill_sync", "raised_oom"}
          /\ cur \in Req /\ status[cur] = "prefill"
          /\ UNCHANGED <<status, outLen, cur>>
          /\ \E new : row' = [row EXCEPT ![cur] = new]
      BY <1>4 DEF PrefillAllocate, AllocateNothing, AllocateSucceeds,
                  AllocateFails, IndInv, ControlInv
    <2> QED
      BY <1>1, <2>1 DEF HeldOutside, Ahead, HeldInv
  <1>5. ASSUME NEW r \in Req, DecodeAllocate(r)
        PROVE  UNCHANGED <<status, outLen>>
               /\ \A q \in Req : HeldOutside(q)' = HeldOutside(q)
    <2>1. CASE AllocateFails(r, 1 + Drafts(r), <<>>) /\ UNCHANGED <<drafts, at, cur>>
      <3>1. /\ row' = [row EXCEPT ![r] = @ \o <<>>] /\ at = "idle"
            /\ UNCHANGED <<status, outLen, at, cur>>
        BY <1>5, <2>1 DEF DecodeAllocate, AllocateFails
      <3>2. row[r] \in Seq(Nat)
        BY <1>1 DEF HeldInv
      <3>3. row' = row
        BY <1>1, <3>1, <3>2 DEF HeldInv
      <3> QED
        BY <3>1, <3>3 DEF HeldOutside, Ahead
    <2>2. CASE AllocateSucceeds(r, 1 + Drafts(r), <<>>) /\ drafts' = Drafts(r)
               /\ at' = "decode_rollback" /\ cur' = r
      <3>1. /\ at = "idle" /\ UNCHANGED <<status, outLen>>
            /\ \A q \in Req : Len(row'[q]) = IF q = r THEN Len(row[r]) + 1 + drafts'
                                                     ELSE Len(row[q])
            /\ \A q \in Req : Len(row[q]) \in Nat
            /\ drafts' \in Nat
        <4>1. 1 + Drafts(r) \in Nat /\ Drafts(r) \in Nat
          BY <1>1, TextType DEF Drafts, Monus, HeldInv
        <4>2. IndInv'
          BY <1>5, DecodeAllocateInv
        <4>3. /\ row \in [Req -> Seq(Nat)] /\ row' \in [Req -> Seq(Nat)]
              /\ numComputed \in [Req -> Nat] /\ status[r] = "decoding"
              /\ Len(row[r]) = numComputed[r]
              /\ numComputed' = [numComputed EXCEPT ![r] = @ + 1 + Drafts(r)]
              /\ \A q \in Req \ {r} : row'[q] = row[q]
              /\ UNCHANGED <<status, outLen>> /\ at = "idle"
          BY <1>5, <2>2, <4>2 DEF DecodeAllocate, AllocateSucceeds, IndInv, TypeOK,
                BackendTypeOK, HandlerTypeOK, RowInv
        <4>4. Len(row'[r]) = numComputed'[r]
          BY <4>2, <4>3 DEF IndInv, RowInv
        <4> QED
          BY <2>2, <4>1, <4>3, <4>4
      <3> QED
        BY <1>1, <1>5, <2>2, <3>1 DEF HeldOutside, Ahead, DecodeAllocate
    <2> QED
      BY <1>5, <2>1, <2>2 DEF DecodeAllocate
  <1>6. CASE DecodeRollback
    <2>0. PICK a \in 0..drafts :
            /\ accepted' = a
            /\ numComputed' = [numComputed EXCEPT ![cur] = Monus(@, drafts - a)]
            /\ at' \in {"decode_sync", "raised_tail"}
      BY <1>6 DEF DecodeRollback
    <2>1. /\ at = "decode_rollback" /\ cur \in Req /\ status[cur] = "decoding"
          /\ UNCHANGED <<status, cur, drafts>> /\ at' \in {"decode_sync", "raised_tail"}
          /\ Len(row[cur]) = numComputed[cur] /\ IndInv'
          /\ accepted' \in 0..drafts /\ drafts \in Nat
          /\ numComputed' = [numComputed EXCEPT ![cur] = Monus(@, drafts - accepted')]
      <3>1. /\ at = "decode_rollback" /\ UNCHANGED <<status, cur, drafts>>
        BY <1>6 DEF DecodeRollback
      <3>2. cur \in Req /\ status[cur] = "decoding"
        BY <3>1 DEF IndInv, ControlInv
      <3>3. Len(row[cur]) = numComputed[cur]
        BY <3>2 DEF IndInv, RowInv
      <3>4. drafts \in Nat
        BY <1>1 DEF HeldInv
      <3> QED
        BY <1>6, <2>0, <3>1, <3>2, <3>3, <3>4, DecodeRollbackInv
    <2>2. /\ at' = "decode_sync" /\ UNCHANGED outLen
          /\ \A q \in Req \ {cur} : row'[q] = row[q]
      BY <1>1, <1>6, <2>1 DEF DecodeRollback, FreeRejectedSlots, backendVars, handleVars,
            IndInv, ControlInv, ContractsKept, HeldInv
    <2>3. /\ Len(row'[cur]) = numComputed'[cur]
          /\ numComputed \in [Req -> Nat]
          /\ Len(Prompt[cur]) + outLen[cur] + (1 + drafts) <= Len(row[cur])
      BY <2>1, <2>2 DEF IndInv, RowInv, Ahead, TypeOK, HandlerTypeOK
    <2>4. Len(row'[cur]) = Len(row[cur]) - (drafts - accepted')
      <3>1. Len(Prompt[cur]) \in Nat /\ outLen[cur] \in Nat /\ Len(row[cur]) \in Nat
        BY <1>1, <2>1, TextType DEF HeldInv
      <3> QED
        BY <2>1, <2>3, <3>1 DEF Monus
    <2>5. \A q \in Req : Len(row[q]) \in Nat
      BY <1>1 DEF HeldInv
    <2>6. \A q \in Req : /\ Ahead(q) = IF q = cur THEN 1 + drafts ELSE 0
                         /\ Ahead(q)' = IF q = cur THEN 1 + accepted' ELSE 0
      BY <2>1, <2>2 DEF Ahead
    <2>7. Len(row'[cur]) - (1 + accepted') = Len(row[cur]) - (1 + drafts)
      <3>1. \A u, d, e \in Nat : (u - (d - e)) - (1 + e) = u - (1 + d)
        OBVIOUS
      <3>2. Len(row[cur]) \in Nat /\ drafts \in Nat /\ accepted' \in Nat
        BY <2>1, <2>5
      <3>3. (Len(row[cur]) - (drafts - accepted')) - (1 + accepted')
               = Len(row[cur]) - (1 + drafts)
        BY <3>1, <3>2
      <3> QED
        BY <2>4, <3>3, Zenon
    <2>8. \A q \in Req : HeldOutside(q)' = HeldOutside(q)
      BY <2>1, <2>2, <2>6, <2>7 DEF HeldOutside
    <2> QED
      BY <2>1, <2>2, <2>8
  <1> QED
    BY <1>2, <1>3, <1>4, <1>5, <1>6 DEF Next

\* Every step of the handlers is a step of the contract or hidden by it.
LEMMA StepRefines ==
    ASSUME IndInv, IndInv', OutputLeft, [Next]_vars
    PROVE  [Service!Next]_(Service!serviceVars)
  <1>1. CASE PrefillSync
    BY <1>1, PrefillSyncRefines
  <1>2. CASE DecodeSync
    BY <1>2, DecodeSyncRefines
  <1>3. ASSUME NEW r \in Req, Cleanup(r)
        PROVE  Service!Next
    BY <1>3, CleanupRefines
  <1>4. CASE ~PrefillSync /\ ~DecodeSync /\ \A r \in Req : ~Cleanup(r)
    <2>1. UNCHANGED <<status, outLen>>
          /\ \A q \in Req : HeldOutside(q)' = HeldOutside(q)
      BY <1>4, HiddenStep
    <2>2. UNCHANGED [r \in Req |-> HeldOutside(r)]
      BY <2>1
    <2> QED
      BY <2>1, <2>2 DEF Service!serviceVars
  <1> QED
    BY <1>1, <1>2, <1>3, <1>4

\* SGLangBackend, driven by the scheduler's handlers, implements the contract of
\* KVBackend: the row of a request grows by its prompt at the end of the prefill
\* and by exactly the accepted tokens at the end of a decode step.
THEOREM BackendRefinesService == Spec => ImplementsService
  <1>1. Init => Service!Init /\ OutputLeft
    BY DEF Init, BackendInit, Service!Init, HeldOutside, OutputLeft
  <1>2. IndInv /\ IndInv' /\ OutputLeft /\ [Next]_vars => OutputLeft'
    BY OutputLeftStep
  <1>3. IndInv /\ IndInv' /\ OutputLeft /\ [Next]_vars
            => [Service!Next]_(Service!serviceVars)
    BY StepRefines
  <1> QED
    BY <1>1, <1>2, <1>3, Inductive, PTL DEF Spec, ImplementsService, Service!Spec
=============================================================================
