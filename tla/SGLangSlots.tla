----------------------------- MODULE SGLangSlots -----------------------------
(***************************************************************************)
(* Who holds the slots of SGLangServing, for every workload, page size,    *)
(* window, pool size and number of drafts: what a request has locked stays *)
(* cached, the use of the SWA pool is the sum of what is charged to it, a  *)
(* slot has one owner and is shared only by a prefix, an eviction leaves   *)
(* the requests alone, and no slot is lost.                                *)
(***************************************************************************)
EXTENDS SGLangProofs

-----------------------------------------------------------------------------
(* Locked pages stay cached                                                *)

\* The k-th page of a text of k or more pages ends within the text.
LEMMA PageIsPrefix ==
    ASSUME NEW text \in Seq(Token), NEW p \in PrefixPages(text, NumPages(text))
    PROVE  IsPrefix(p, text)
  <1>1. PICK j \in 1..NumPages(text) : p = SubSeq(text, 1, j * PageSize)
    BY DEF PrefixPages
  <1> DEFINE m == NumPages(text)
  <1>2. /\ Len(text) \in Nat /\ m \in Nat
        /\ m * PageSize \in Nat /\ m * PageSize <= Len(text)
    BY PageFloorBounds DEF NumPages, PageFloor
  <1> DEFINE e == j * PageSize
  <1>3. e \in Nat /\ e <= Len(text)
    <2> HIDE DEF m
    <2>1. j \in 1..m
      BY DEF m
    <2>2. e \in Nat /\ e <= m * PageSize
      BY <1>2, <2>1, PageEnds
    <2> QED
      BY <1>2, <2>2, LengthsTransitive, Zenon
  <1>4. p = SubSeq(text, 1, e)
    BY <1>1
  <1> HIDE DEF e
  <1>5. Len(p) = e /\ SubSeq(p, 1, e) = p
    BY <1>3, <1>4
  <1> QED
    BY <1>3, <1>4, <1>5 DEF IsPrefix

\* evict takes unlocked pages only.
LEMMA EvictedUnlocked ==
    ASSUME NEW n \in Int, NEW order \in Evictions(n)
    PROVE  Range(order) \subseteq Unlocked
  <1>1. CASE order = <<>>
    BY <1>1 DEF Range
  <1>2. CASE order \in BoundedSeq(Unlocked, Cardinality(Unlocked))
    <2>1. PICK m \in 0..Cardinality(Unlocked) : order \in [1..m -> Unlocked]
      BY <1>2 DEF BoundedSeq, SeqOf
    <2> QED
      BY <2>1 DEF Range
  <1> QED
    BY <1>1, <1>2 DEF Evictions, EvictionOrders

\* So it leaves the pages of every locked text.
LEMMA EvictionKeepsLocked ==
    ASSUME LockedPagesCached, BackendTypeOK, NEW n \in Int, NEW order \in Evictions(n),
           tree' = WithoutPages(order), lastNode' = lastNode
    PROVE  LockedPagesCached'
  <1>1. DOMAIN tree' = DOMAIN tree \ Range(order)
    BY DEF WithoutPages, Restrict
  <1>2. ASSUME NEW r \in Req,
               NEW p \in PrefixPages(lastNode[r], NumPages(lastNode[r]))
        PROVE  p \in DOMAIN tree'
    <2>1. IsPrefix(p, lastNode[r])
      BY PageIsPrefix DEF BackendTypeOK
    <2>2. p \notin Range(order)
      BY <2>1, EvictedUnlocked DEF Unlocked
    <2> QED
      BY <1>1, <2>2 DEF LockedPagesCached
  <1> QED
    BY <1>2 DEF LockedPagesCached, PrefixPages, NumPages

\* allocate_slots takes pages out by its evictions only.
LEMMA AllocateKeepsLocked ==
    ASSUME LockedPagesCached, BackendTypeOK, NEW r, NEW n \in Int, NEW prefix,
           AllocateSucceeds(r, n, prefix) \/ AllocateFails(r, n, prefix)
    PROVE  LockedPagesCached'
  <1>1. PICK order \in Evictions(n) : tree' = WithoutPages(order)
    BY DEF AllocateSucceeds, AllocateFails
  <1>2. lastNode' = lastNode
    BY DEF AllocateSucceeds, AllocateFails
  <1> QED
    BY <1>1, <1>2, EvictionKeepsLocked

\* sync_state inserts the text before it locks it.
LEMMA SyncKeepsLocked ==
    ASSUME LockedPagesCached, BackendTypeOK, NEW r \in Req, NEW n, SyncState(r, n)
    PROVE  LockedPagesCached'
  <1> DEFINE key == PageAligned(Text(r, n))
  <1>1. lastNode' = [lastNode EXCEPT ![r] = key]
    BY DEF SyncState
  <1>2. DOMAIN tree' = DOMAIN tree \cup PrefixPages(key, NumPages(key))
    BY DEF SyncState, Inserted
  <1> HIDE DEF key
  <1>3. ASSUME NEW q \in Req
        PROVE  PrefixPages(lastNode'[q], NumPages(lastNode'[q])) \subseteq DOMAIN tree'
    BY <1>1, <1>2 DEF LockedPagesCached, BackendTypeOK
  <1> QED
    BY <1>3 DEF LockedPagesCached, PrefixPages, NumPages

\* free of one request leaves the locks of the others and the whole tree.
LEMMA FreeKeepsLocked ==
    ASSUME LockedPagesCached, BackendTypeOK, NEW r \in Req, Free(r)
    PROVE  LockedPagesCached'
  <1>1. lastNode' = [lastNode EXCEPT ![r] = <<>>] /\ tree' = tree
    BY DEF Free
  <1>2. PrefixPages(<<>>, NumPages(<<>>)) = {}
    <2>1. NumPages(<<>>) = 0
      <3>1. 0 \div PageSize = 0
        BY DivBounds, SizeAssumption DEF SizeAssumption
      <3> QED
        BY <3>1 DEF NumPages
    <2> QED
      BY <2>1 DEF PrefixPages
  <1>3. ASSUME NEW q \in Req
        PROVE  PrefixPages(lastNode'[q], NumPages(lastNode'[q])) \subseteq DOMAIN tree'
    BY <1>1, <1>2 DEF LockedPagesCached, BackendTypeOK
  <1> QED
    BY <1>3 DEF LockedPagesCached, PrefixPages, NumPages

\* No step of a handler takes a locked page out of the tree.
LEMMA LockedStep ==
    ASSUME IndInv, LockedPagesCached, [Next]_vars
    PROVE  LockedPagesCached'
  <1>0. BackendTypeOK /\ HandlerTypeOK
    BY DEF IndInv, TypeOK
  <1>1. CASE UNCHANGED <<tree, lastNode>>
    BY <1>1 DEF LockedPagesCached, PrefixPages, NumPages
  <1>2. ASSUME NEW r \in Req, PrefillMatch(r)
        PROVE  UNCHANGED <<tree, lastNode>>
    BY <1>2 DEF PrefillMatch, backendVars, handleVars
  <1>3. CASE PrefillAllocate
    <2> DEFINE n == Len(Prompt[cur]) - numComputed[cur]
    <2>1. n \in Int
      BY <1>0, <1>3, TextType DEF PrefillAllocate, HandlerTypeOK, IndInv, ControlInv
    <2> HIDE DEF n
    <2>2. \/ AllocateNothing(cur, n, blocks)
          \/ AllocateSucceeds(cur, n, blocks) \/ AllocateFails(cur, n, blocks)
      BY <1>3 DEF PrefillAllocate, n
    <2>3. CASE AllocateNothing(cur, n, blocks)
      BY <1>1, <2>3 DEF AllocateNothing
    <2> QED
      BY <1>0, <2>1, <2>2, <2>3, AllocateKeepsLocked
  <1>4. ASSUME NEW r \in Req, DecodeAllocate(r)
        PROVE  LockedPagesCached'
    <2>1. 1 + Drafts(r) \in Int
      BY <1>0, HandlerAssumption, TextType DEF Drafts, Monus, BackendTypeOK, HandlerAssumption
    <2> QED
      BY <1>0, <1>4, <2>1, AllocateKeepsLocked DEF DecodeAllocate
  <1>5. CASE DecodeRollback
    BY <1>1, <1>5 DEF DecodeRollback, FreeRejectedSlots, backendVars, handleVars
  <1>6. CASE PrefillSync
    BY <1>0, <1>1, <1>6, SyncKeepsLocked
       DEF PrefillSync, IndInv, ControlInv, backendVars, handleVars
  <1>7. CASE DecodeSync
    BY <1>0, <1>1, <1>7, SyncKeepsLocked
       DEF DecodeSync, IndInv, ControlInv, backendVars, handleVars
  <1>8. ASSUME NEW r \in Req, Cleanup(r)
        PROVE  LockedPagesCached'
    BY <1>0, <1>8, FreeKeepsLocked DEF Cleanup
  <1>9. CASE UNCHANGED vars
    BY <1>1, <1>9 DEF vars, backendVars, handleVars
  <1> QED
    BY <1>1, <1>2, <1>3, <1>4, <1>5, <1>6, <1>7, <1>8, <1>9 DEF Next

\* No eviction, whatever requests are over budget, takes a page of a text that a
\* served request has locked in sync_state.
THEOREM LocksKeepPages == Spec => []LockedPagesCached
  <1>1. Init => LockedPagesCached
    <2> SUFFICES ASSUME Init PROVE LockedPagesCached
      OBVIOUS
    <2>1. NumPages(<<>>) = 0
      <3>1. 0 \div PageSize = 0
        BY DivBounds, SizeAssumption DEF SizeAssumption
      <3> QED
        BY <3>1 DEF NumPages
    <2> QED
      BY <2>1 DEF Init, BackendInit, LockedPagesCached, PrefixPages
  <1>2. IndInv /\ LockedPagesCached /\ [Next]_vars => LockedPagesCached'
    BY LockedStep
  <1> QED
    BY <1>1, <1>2, Inductive, PTL DEF Spec

-----------------------------------------------------------------------------
(* The use of the SWA pool                                                 *)

\* When the charge or the cursor of one request changes, the sum over all of
\* them changes by as much; and no request has more than the sum.
LEMMA SwaSum ==
    ASSUME BackendTypeOK, BackendTypeOK', HandlerTypeOK, SwaInv, NEW r \in Req,
           \A q \in Req \ {r} : charged'[q] = charged[q] /\ evicted'[q] = evicted[q]
    PROVE  /\ SumFunctionOnSet([q \in Req |-> charged'[q] - evicted'[q]], Req)
                = swaUsed + ((charged'[r] - evicted'[r]) - (charged[r] - evicted[r]))
           /\ charged[r] - evicted[r] \in Nat
           /\ charged[r] - evicted[r] <= swaUsed
  <1> DEFINE f == [q \in Req |-> charged[q] - evicted[q]]
             d == [q \in Req |-> charged'[q] - evicted'[q]]
  <1>1. IsFiniteSet(Req)
    BY WorkloadAssumption DEF WorkloadAssumption
  <1>0. /\ charged \in [Req -> Nat] /\ evicted \in [Req -> Nat]
        /\ charged' \in [Req -> Nat] /\ evicted' \in [Req -> Nat]
    BY DEF BackendTypeOK
  <1>2. \A q \in Req : f[q] \in Int /\ d[q] \in Int
    BY <1>0
  <1>7. \A q \in Req \ {r} : d[q] = f[q]
    OBVIOUS
  <1>8. f[r] = charged[r] - evicted[r] /\ d[r] = charged'[r] - evicted'[r]
    OBVIOUS
  <1>3. \A q \in Req : f[q] \in Nat
    <2>1. ASSUME NEW q \in Req PROVE charged[q] - evicted[q] \in Nat
      <3>1. Revocable(q) \in Nat
        BY HandlerAssumption DEF HandlerTypeOK, Revocable, HandlerAssumption
      <3>2. evicted[q] + Revocable(q) <= charged[q]
        BY DEF SwaInv, ChargeInv
      <3> QED
        BY <1>0, <3>1, <3>2
    <2> QED
      BY <2>1
  <1>4. swaUsed = SumFunctionOnSet(f, Req)
    BY DEF SwaInv, SwaUseExact
  <1> HIDE DEF f, d
  <1>5. SumFunctionOnSet(d, Req) = SumFunctionOnSet(f, Req) + (d[r] - f[r])
    BY <1>1, <1>2, <1>7, SumUpdate
  <1>6. f[r] <= SumFunctionOnSet(f, Req)
    BY <1>1, <1>3, SumBounds
  <1> QED
    BY <1>3, <1>4, <1>5, <1>6, <1>8 DEF d

\* The use of the pool moves with what one request has charged and reclaimed.
LEMMA SwaChange ==
    ASSUME BackendTypeOK, BackendTypeOK', HandlerTypeOK, SwaInv, NEW r \in Req,
           \A q \in Req \ {r} : charged'[q] = charged[q] /\ evicted'[q] = evicted[q],
           swaUsed' = swaUsed + ((charged'[r] - evicted'[r]) - (charged[r] - evicted[r]))
    PROVE  SwaUseExact'
  <1>1. SumFunctionOnSet([q \in Req |-> charged'[q] - evicted'[q]], Req) = swaUsed'
    BY SwaSum
  <1> QED
    BY <1>1 DEF SwaUseExact

\* generate_draft_tokens returns a number of drafts.
LEMMA DraftsNatural ==
    ASSUME BackendTypeOK, NEW r \in Req
    PROVE  Drafts(r) \in Nat
  <1>1. Len(Output[r]) \in Nat /\ outLen[r] \in Nat
    BY WorkloadAssumption DEF BackendTypeOK, WorkloadAssumption
  <1> QED
    BY <1>1, HandlerAssumption DEF Drafts, Monus, HandlerAssumption

\* The charges cover what is reclaimed and what a rollback may take back: a decode
\* step charges its drafts, and otherwise the cursor is behind the window.
LEMMA ChargeStep ==
    ASSUME IndInv, IndInv', ChargeInv, [Next]_vars
    PROVE  ChargeInv'
  <1>0. BackendTypeOK' /\ CursorInv' /\ BackendTypeOK /\ HandlerTypeOK /\ ControlInv
    BY DEF IndInv, TypeOK
  <1>1. SUFFICES ASSUME NEW q \in Req PROVE evicted'[q] + Revocable(q)' <= charged'[q]
    BY DEF ChargeInv
  <1>2. evicted'[q] \in Nat /\ charged'[q] \in Nat
    BY <1>0 DEF BackendTypeOK
  <1>3. evicted'[q] = 0 \/ evicted'[q] + Window + PageSize + Revocable(q)' < charged'[q]
    BY <1>0 DEF CursorInv
  <1>4. CASE UNCHANGED vars
    BY <1>4 DEF ChargeInv, vars, backendVars, handleVars, handlerVars, Revocable
  <1>5. CASE at' # "decode_rollback"
    <2>1. Revocable(q)' = 0
      BY <1>5 DEF Revocable
    <2> QED
      BY <1>2, <1>3, <2>1, SizeAssumption DEF SizeAssumption
  <1>6. CASE Next /\ at' = "decode_rollback"
    <2>1. PICK r \in Req : DecodeAllocate(r)
      BY <1>6 DEF Next, PrefillMatch, Cleanup, PrefillAllocate, PrefillSync,
                  DecodeRollback, DecodeSync
    <2>2. /\ charged' = [charged EXCEPT ![r] = @ + (1 + Drafts(r))]
          /\ drafts' = Drafts(r) /\ cur' = r
      BY <1>6, <2>1 DEF DecodeAllocate, AllocateSucceeds
    <2>3. Drafts(r) \in Nat
      BY <1>0, DraftsNatural
    <2>4. Revocable(q)' = IF q = r THEN Drafts(r) ELSE 0
      BY <1>6, <2>2 DEF Revocable
    <2>5. charged[r] \in Nat
      BY <1>0 DEF BackendTypeOK
    <2>6. q = r => charged'[q] = charged[r] + (1 + Drafts(r))
      BY <1>0, <2>2 DEF BackendTypeOK
    <2> QED
      BY <1>2, <1>3, <2>3, <2>4, <2>5, <2>6, SizeAssumption DEF SizeAssumption
  <1> QED
    BY <1>4, <1>5, <1>6

\* Every step charges, revokes, reclaims and returns the same at the pool and at
\* the request.
LEMMA SwaUseStep ==
    ASSUME IndInv, IndInv', SwaInv, [Next]_vars
    PROVE  SwaUseExact'
  <1>0. /\ BackendTypeOK /\ BackendTypeOK' /\ HandlerTypeOK /\ ControlInv
        /\ swaUsed \in Nat /\ charged \in [Req -> Nat] /\ evicted \in [Req -> Nat]
    BY DEF IndInv, TypeOK, BackendTypeOK
  <1>1. CASE UNCHANGED <<swaUsed, charged, evicted>>
    BY <1>1 DEF SwaInv, SwaUseExact
  <1>2. ASSUME NEW r \in Req, NEW n \in Int, NEW prefix, AllocateSucceeds(r, n, prefix)
        PROVE  SwaUseExact'
    <2>1. /\ swaUsed' = swaUsed + n /\ evicted' = evicted
          /\ charged' = [charged EXCEPT ![r] = @ + n]
      BY <1>2 DEF AllocateSucceeds
    <2>2. /\ \A q \in Req \ {r} : charged'[q] = charged[q] /\ evicted'[q] = evicted[q]
          /\ charged'[r] = charged[r] + n /\ evicted'[r] = evicted[r]
          /\ charged[r] \in Nat /\ evicted[r] \in Nat
      BY <1>0, <2>1
    <2>3. swaUsed' = swaUsed + ((charged'[r] - evicted'[r]) - (charged[r] - evicted[r]))
      BY <1>0, <2>1, <2>2
    <2> QED
      BY <1>0, <2>2, <2>3, SwaChange
  <1>3. CASE PrefillAllocate
    <2> DEFINE n == Len(Prompt[cur]) - numComputed[cur]
    <2>1. n \in Int /\ cur \in Req
      BY <1>0, <1>3, TextType DEF PrefillAllocate, HandlerTypeOK, ControlInv
    <2> HIDE DEF n
    <2>2. \/ AllocateNothing(cur, n, blocks)
          \/ AllocateSucceeds(cur, n, blocks) \/ AllocateFails(cur, n, blocks)
      BY <1>3 DEF PrefillAllocate, n
    <2>3. AllocateNothing(cur, n, blocks) \/ AllocateFails(cur, n, blocks)
              => UNCHANGED <<swaUsed, charged, evicted>>
      BY DEF AllocateNothing, AllocateFails, poolVars
    <2> QED
      BY <1>1, <1>2, <2>1, <2>2, <2>3
  <1>4. ASSUME NEW r \in Req, DecodeAllocate(r)
        PROVE  SwaUseExact'
    <2>1. 1 + Drafts(r) \in Int
      BY <1>0, DraftsNatural
    <2>2. \/ AllocateSucceeds(r, 1 + Drafts(r), <<>>)
          \/ AllocateFails(r, 1 + Drafts(r), <<>>)
      BY <1>4 DEF DecodeAllocate
    <2>3. AllocateFails(r, 1 + Drafts(r), <<>>) => UNCHANGED <<swaUsed, charged, evicted>>
      BY DEF AllocateFails
    <2> QED
      BY <1>1, <1>2, <2>1, <2>2, <2>3
  <1>5. CASE DecodeRollback
    <2>1. cur \in Req /\ at = "decode_rollback" /\ drafts \in Nat
      BY <1>0, <1>5, HandlerAssumption
         DEF DecodeRollback, ControlInv, HandlerTypeOK, HandlerAssumption
    <2>2. PICK a \in 0..drafts : \/ UNCHANGED backendVars
                                 \/ FreeRejectedSlots(cur, drafts - a)
      BY <1>5 DEF DecodeRollback
    <2>3. CASE UNCHANGED backendVars
      BY <1>1, <2>3 DEF backendVars, poolVars, handleVars
    <2>4. CASE FreeRejectedSlots(cur, drafts - a) /\ ~ UNCHANGED backendVars
      <3> DEFINE m == drafts - a
      <3>1. m \in Nat /\ m <= drafts
        BY <2>1
      <3>2. /\ swaUsed' = Monus(swaUsed, m) /\ evicted' = evicted
            /\ charged' = [charged EXCEPT ![cur] = Monus(@, m)]
        BY <2>4 DEF FreeRejectedSlots
      <3> HIDE DEF m
      <3>3. /\ \A q \in Req \ {cur} : charged'[q] = charged[q] /\ evicted'[q] = evicted[q]
            /\ charged'[cur] = Monus(charged[cur], m) /\ evicted'[cur] = evicted[cur]
            /\ charged[cur] \in Nat /\ evicted[cur] \in Nat
        BY <1>0, <2>1, <3>2
      <3>4. evicted[cur] + drafts <= charged[cur]
        BY <2>1 DEF SwaInv, ChargeInv, Revocable
      <3>5. charged[cur] - evicted[cur] <= swaUsed
        BY <1>0, <2>1, <3>3, SwaSum
      <3>6. swaUsed' = swaUsed + ((charged'[cur] - evicted'[cur]) - (charged[cur] - evicted[cur]))
        <4>1. m <= charged[cur] /\ m <= swaUsed
          BY <1>0, <2>1, <3>1, <3>3, <3>4, <3>5
        <4>2. swaUsed' = swaUsed - m /\ charged'[cur] = charged[cur] - m
          BY <1>0, <3>1, <3>2, <3>3, <4>1 DEF Monus
        <4> QED
          BY <1>0, <3>1, <3>3, <4>2
      <3> QED
        BY <1>0, <2>1, <3>3, <3>6, SwaChange
    <2> QED
      BY <2>2, <2>3, <2>4
  <1>6. ASSUME NEW n, cur \in Req, SyncState(cur, n)
        PROVE  SwaUseExact'
    <2> DEFINE cursor == ReclaimCursor(charged[cur], evicted[cur])
    <2>1. /\ charged' = charged
          /\ \/ UNCHANGED <<swaUsed, evicted>>
             \/ /\ cursor > evicted[cur]
                /\ swaUsed' = Monus(swaUsed, cursor - evicted[cur])
                /\ evicted' = [evicted EXCEPT ![cur] = cursor]
      BY <1>6 DEF SyncState
    <2>2. CASE UNCHANGED <<swaUsed, evicted>>
      BY <1>1, <2>1, <2>2
    <2>3. CASE /\ cursor > evicted[cur]
               /\ swaUsed' = Monus(swaUsed, cursor - evicted[cur])
               /\ evicted' = [evicted EXCEPT ![cur] = cursor]
      <3>1. charged[cur] \in Nat /\ evicted[cur] \in Nat
        BY <1>0, <1>6
      <3>2. cursor \in Nat /\ cursor <= charged[cur]
        <4>1. cursor \in Nat /\ cursor + Window + PageSize < charged[cur]
          BY <2>3, <3>1, ReclaimCursorBound
        <4> HIDE DEF cursor
        <4> QED
          BY <3>1, <4>1, SizeAssumption DEF SizeAssumption
      <3> HIDE DEF cursor
      <3>3. /\ \A q \in Req \ {cur} : charged'[q] = charged[q] /\ evicted'[q] = evicted[q]
            /\ charged'[cur] = charged[cur] /\ evicted'[cur] = cursor
        BY <1>0, <1>6, <2>1, <2>3
      <3>4. charged[cur] - evicted[cur] <= swaUsed
        BY <1>0, <1>6, <3>3, SwaSum
      <3>5. swaUsed' = swaUsed + ((charged'[cur] - evicted'[cur]) - (charged[cur] - evicted[cur]))
        BY <1>0, <2>3, <3>1, <3>2, <3>3, <3>4 DEF Monus
      <3> QED
        BY <1>0, <1>6, <3>3, <3>5, SwaChange
    <2> QED
      BY <2>1, <2>2, <2>3
  <1>7. CASE PrefillSync
    <2>1. cur \in Req
      BY <1>0, <1>7 DEF PrefillSync, ControlInv
    <2> QED
      BY <1>1, <1>6, <1>7, <2>1 DEF PrefillSync, backendVars, poolVars, handleVars
  <1>8. CASE DecodeSync
    <2>1. cur \in Req
      BY <1>0, <1>8 DEF DecodeSync, ControlInv
    <2> QED
      BY <1>1, <1>6, <1>8, <2>1 DEF DecodeSync, backendVars, poolVars, handleVars
  <1>9. ASSUME NEW r \in Req, Cleanup(r)
        PROVE  SwaUseExact'
    <2>1. /\ swaUsed' = Monus(swaUsed, Monus(charged[r], evicted[r]))
          /\ charged' = [charged EXCEPT ![r] = 0]
          /\ evicted' = [evicted EXCEPT ![r] = 0]
      BY <1>9 DEF Cleanup, Free
    <2>2. /\ \A q \in Req \ {r} : charged'[q] = charged[q] /\ evicted'[q] = evicted[q]
          /\ charged'[r] = 0 /\ evicted'[r] = 0
          /\ charged[r] \in Nat /\ evicted[r] \in Nat
      BY <1>0, <2>1
    <2>3. charged[r] - evicted[r] \in Nat /\ charged[r] - evicted[r] <= swaUsed
      BY <1>0, <2>2, SwaSum
    <2>4. swaUsed' = swaUsed + ((charged'[r] - evicted'[r]) - (charged[r] - evicted[r]))
      BY <1>0, <2>1, <2>2, <2>3 DEF Monus
    <2> QED
      BY <1>0, <2>2, <2>4, SwaChange
  <1>10. CASE UNCHANGED vars
    BY <1>1, <1>10 DEF vars, backendVars, poolVars, handleVars
  <1>11. ASSUME NEW r \in Req, PrefillMatch(r)
         PROVE  SwaUseExact'
    BY <1>1, <1>11 DEF PrefillMatch, backendVars, poolVars, handleVars
  <1> QED
    BY <1>3, <1>4, <1>5, <1>7, <1>8, <1>9, <1>10, <1>11 DEF Next

\* The SWA pool holds exactly the charged and not yet reclaimed tokens of all
\* requests: none of the clamped deductions of free_rejected_slots, of the
\* reclamation and of free ever cuts anything off.
THEOREM SwaPoolExact == Spec => []SwaUseExact
  <1>1. Init => SwaInv
    <2> SUFFICES ASSUME Init PROVE SwaInv
      OBVIOUS
    <2> DEFINE f == [q \in Req |-> charged[q] - evicted[q]]
    <2>1. \A q \in Req : f[q] = 0
      BY DEF Init, BackendInit
    <2>2. IsFiniteSet(Req)
      BY WorkloadAssumption DEF WorkloadAssumption
    <2> HIDE DEF f
    <2>3. SumFunctionOnSet(f, Req) = 0
      BY <2>1, <2>2, SumZero
    <2>4. SwaUseExact
      BY <2>3 DEF SwaUseExact, f, Init, BackendInit
    <2>5. ChargeInv
      BY DEF ChargeInv, Init, BackendInit, Revocable
    <2> QED
      BY <2>4, <2>5 DEF SwaInv
  <1>2. IndInv /\ IndInv' /\ SwaInv /\ [Next]_vars => SwaInv'
    BY SwaUseStep, ChargeStep DEF SwaInv
  <1>3. SwaInv => SwaUseExact
    BY DEF SwaInv
  <1> QED
    BY <1>1, <1>2, <1>3, Inductive, PTL DEF Spec

-----------------------------------------------------------------------------
(* Owners of slots: pages, positions and sequences without repetition      *)

\* A position is its page and its place in the page.
LEMMA PageParts ==
    ASSUME NEW n \in Nat
    PROVE  /\ n \div PageSize \in Nat /\ n % PageSize \in 0..(PageSize - 1)
           /\ (n \div PageSize) * PageSize \in Nat
           /\ n = (n \div PageSize) * PageSize + (n % PageSize)
  <1>1. PageSize \in Nat \ {0}
    BY SizeAssumption DEF SizeAssumption
  <1>2. ASSUME NEW p \in Nat \ {0}
        PROVE  /\ n \div p \in Nat /\ n % p \in 0..(p - 1) /\ (n \div p) * p \in Nat
               /\ n = (n \div p) * p + (n % p)
    BY Z3
  <1> QED
    BY <1>1, <1>2

\* A page and a place in it are those of one position only.
LEMMA PageUnique ==
    ASSUME NEW q \in Nat, NEW o \in 0..(PageSize - 1)
    PROVE  /\ q * PageSize \in Nat /\ q * PageSize + o \in Nat
           /\ (q * PageSize + o) \div PageSize = q
           /\ (q * PageSize + o) % PageSize = o
  <1> DEFINE P == PageSize
             n == q * P + o
             d == n \div P
             m == n % P
  <1>1. P \in Nat \ {0}
    BY SizeAssumption DEF SizeAssumption
  <1>2. q * P \in Nat /\ n \in Nat
    BY <1>1, PagesMonotonic
  <1>3. d \in Nat /\ m \in 0..(P - 1) /\ d * P \in Nat /\ n = d * P + m
    <2> HIDE DEF n
    <2> QED
      BY <1>2, PageParts
  <1>4. o \in 0..(P - 1)
    OBVIOUS
  <1>5. n = q * P + o
    OBVIOUS
  <1> HIDE DEF P, n, d, m
  <1>6. d < q + 1
    <2>1. (q + 1) * P = q * P + P
      BY <1>1, PagesStep
    <2>2. d * P < (q + 1) * P
      BY <1>1, <1>2, <1>3, <1>4, <1>5, <2>1
    <2> QED
      BY <1>1, <1>3, <2>2, PagesCancel
  <1>7. q < d + 1
    <2>1. (d + 1) * P = d * P + P
      BY <1>1, <1>3, PagesStep
    <2>2. q * P < (d + 1) * P
      BY <1>1, <1>2, <1>3, <1>4, <1>5, <2>1
    <2> QED
      BY <1>1, <1>3, <2>2, PagesCancel
  <1>8. d = q
    BY <1>3, <1>6, <1>7
  <1>9. m = o
    BY <1>1, <1>2, <1>3, <1>4, <1>5, <1>8
  <1> QED
    BY <1>2, <1>8, <1>9 DEF P, n, d, m

\* The page of position i ends at or behind it, less than a page behind.
LEMMA PageAround ==
    ASSUME NEW i \in Nat \ {0}
    PROVE  /\ i - 1 \in Nat /\ PageFloor(i - 1) \in Nat
           /\ PageFloor(i - 1) <= i - 1 /\ i <= PageFloor(i - 1) + PageSize
           /\ ((i - 1) % PageSize) + 1 \in 1..PageSize
           /\ i = PageFloor(i - 1) + ((i - 1) % PageSize) + 1
           /\ PageSize \in Nat \ {0}
  <1>1. i - 1 \in Nat /\ PageSize \in Nat \ {0}
    BY SizeAssumption DEF SizeAssumption
  <1>2. /\ PageFloor(i - 1) \in Nat /\ (i - 1) % PageSize \in 0..(PageSize - 1)
        /\ i - 1 = PageFloor(i - 1) + ((i - 1) % PageSize)
    BY <1>1, PageParts DEF PageFloor
  <1> QED
    BY <1>1, <1>2

\* What two sequences hold, joined.
LEMMA JoinedRange ==
    ASSUME NEW s \in Seq(Nat), NEW t \in Seq(Nat)
    PROVE  Range(s \o t) = Range(s) \cup Range(t)
  <1>1. /\ DOMAIN (s \o t) = 1..(Len(s) + Len(t)) /\ Len(s) \in Nat /\ Len(t) \in Nat
        /\ DOMAIN s = 1..Len(s) /\ DOMAIN t = 1..Len(t)
        /\ \A i \in 1..Len(s) : (s \o t)[i] = s[i]
        /\ \A i \in 1..Len(t) : (s \o t)[Len(s) + i] = t[i]
    OBVIOUS
  <1>2. ASSUME NEW i \in 1..(Len(s) + Len(t))
        PROVE  \/ i \in 1..Len(s) /\ (s \o t)[i] = s[i]
               \/ i - Len(s) \in 1..Len(t) /\ (s \o t)[i] = t[i - Len(s)]
    BY <1>1
  <1> DEFINE c == s \o t
  <1> HIDE DEF c
  <1>3. ASSUME NEW x \in Range(c) PROVE x \in Range(s) \cup Range(t)
    BY <1>1, <1>2, <1>3 DEF Range, c
  <1>4. ASSUME NEW x \in Range(s) PROVE x \in Range(c)
    <2>1. PICK i \in 1..Len(s) : s[i] = x
      BY <1>1, <1>4 DEF Range
    <2>2. i \in DOMAIN c /\ c[i] = x
      BY <1>1, <2>1 DEF c
    <2> QED
      BY <2>2 DEF Range
  <1>5. ASSUME NEW x \in Range(t) PROVE x \in Range(c)
    <2>1. PICK i \in 1..Len(t) : t[i] = x
      BY <1>1, <1>5 DEF Range
    <2>2. Len(s) + i \in DOMAIN c /\ c[Len(s) + i] = x
      BY <1>1, <2>1 DEF c
    <2> QED
      BY <2>2 DEF Range
  <1> QED
    BY <1>3, <1>4, <1>5 DEF c

\* Two sequences without repetition and without a common member, joined.
LEMMA JoinedApart ==
    ASSUME NEW s \in Seq(Nat), NEW t \in Seq(Nat), IsInjective(s), IsInjective(t),
           Range(s) \cap Range(t) = {}
    PROVE  /\ s \o t \in Seq(Nat) /\ IsInjective(s \o t)
           /\ Range(s \o t) = Range(s) \cup Range(t)
  <1>1. /\ DOMAIN (s \o t) = 1..(Len(s) + Len(t)) /\ Len(s) \in Nat /\ Len(t) \in Nat
        /\ DOMAIN s = 1..Len(s) /\ DOMAIN t = 1..Len(t)
        /\ \A i \in 1..Len(s) : (s \o t)[i] = s[i]
        /\ \A i \in 1..Len(t) : (s \o t)[Len(s) + i] = t[i]
        /\ s \o t \in Seq(Nat)
    OBVIOUS
  <1>2. ASSUME NEW i \in 1..(Len(s) + Len(t))
        PROVE  \/ i \in 1..Len(s) /\ (s \o t)[i] = s[i]
               \/ i - Len(s) \in 1..Len(t) /\ (s \o t)[i] = t[i - Len(s)]
    BY <1>1
  <1>3. \A i \in DOMAIN s, j \in DOMAIN t : s[i] # t[j]
    BY DEF Range
  <1> DEFINE c == s \o t
  <1> HIDE DEF c
  <1>4. IsInjective(c)
    BY <1>1, <1>2, <1>3 DEF IsInjective, c
  <1> QED
    BY <1>1, <1>4, JoinedRange DEF c

\* A part of a sequence, without repetition if the sequence is.
LEMMA PartApart ==
    ASSUME NEW s \in Seq(Nat), NEW a \in Nat \ {0}, NEW b \in Nat, b <= Len(s)
    PROVE  /\ SubSeq(s, a, b) \in Seq(Nat)
           /\ IsInjective(s) => IsInjective(SubSeq(s, a, b))
           /\ Range(SubSeq(s, a, b)) = {s[i] : i \in a..b}
  <1> DEFINE t == SubSeq(s, a, b)
  <1>1. /\ t \in Seq(Nat) /\ DOMAIN s = 1..Len(s) /\ Len(s) \in Nat
        /\ DOMAIN t = 1..Len(t) /\ Len(t) = IF a <= b THEN b - a + 1 ELSE 0
        /\ \A i \in 1..Len(t) : t[i] = s[a + i - 1]
    OBVIOUS
  <1> HIDE DEF t
  <1>2. ASSUME NEW i \in DOMAIN t
        PROVE  /\ i \in Nat /\ a + i - 1 \in a..b /\ a + i - 1 \in DOMAIN s
               /\ t[i] = s[a + i - 1]
    <2>1. i \in 1..Len(t) /\ Len(t) \in Nat
      BY <1>1
    <2>2. a <= b /\ i <= b - a + 1 /\ i >= 1
      BY <1>1, <2>1
    <2>3. a + i - 1 >= a /\ a + i - 1 <= b /\ a + i - 1 \in Nat /\ a >= 1
      BY <2>1, <2>2
    <2> QED
      BY <1>1, <2>1, <2>3
  <1>3. IsInjective(s) => IsInjective(t)
    <2> SUFFICES ASSUME IsInjective(s), NEW i \in DOMAIN t, NEW j \in DOMAIN t, t[i] = t[j]
                 PROVE  i = j
      BY DEF IsInjective
    <2>1. a + i - 1 = a + j - 1
      BY <1>2 DEF IsInjective
    <2> QED
      BY <1>2, <2>1
  <1>4. \A k \in a..b : k - a + 1 \in DOMAIN t /\ a + (k - a + 1) - 1 = k
    BY <1>1
  <1>5. \A k \in a..b : k - a + 1 \in DOMAIN t /\ t[k - a + 1] = s[k]
    BY <1>1, <1>4
  <1>6. Range(t) = {s[i] : i \in a..b}
    <2>1. ASSUME NEW x \in Range(t) PROVE x \in {s[i] : i \in a..b}
      <3>1. PICK i \in DOMAIN t : t[i] = x
        BY DEF Range
      <3>2. a + i - 1 \in a..b /\ s[a + i - 1] = x
        BY <1>1, <1>2, <3>1
      <3> QED
        BY <3>2
    <2>2. ASSUME NEW k \in a..b PROVE s[k] \in Range(t)
      BY <1>5 DEF Range
    <2> QED
      BY <2>1, <2>2
  <1> QED
    BY <1>1, <1>3, <1>6 DEF t

-----------------------------------------------------------------------------
(* Owners of slots: what an eviction returns and the allocator hands out   *)

\* evict takes a page once.
LEMMA EvictedOrder ==
    ASSUME NEW n \in Int, NEW order \in Evictions(n)
    PROVE  /\ order \in Seq(DOMAIN tree) /\ IsInjective(order)
           /\ Range(order) \subseteq DOMAIN tree
  <1>1. CASE order = <<>>
    BY <1>1 DEF IsInjective, Range
  <1>2. CASE order \in EvictionOrders(n)
    <2>1. PICK m \in 0..Cardinality(Unlocked) : order \in [1..m -> Unlocked]
      BY <1>2 DEF EvictionOrders, BoundedSeq, SeqOf
    <2>2. IsInjective(order)
      BY <1>2 DEF EvictionOrders
    <2>3. order \in [1..m -> DOMAIN tree] /\ m \in Nat
      BY <2>1 DEF Unlocked
    <2> QED
      BY <2>2, <2>3 DEF Range
  <1> QED
    BY <1>1, <1>2 DEF Evictions

\* The slot at a place of what evict returns.
EvictedPlace(order, j, o) ==
    (j - 1) * PageSize + o \in 1..(Len(order) * PageSize)
    /\ EvictedSlots(order)[(j - 1) * PageSize + o] = tree[order[j]][o]

\* evict returns the slots of the pages it takes, page by page.
LEMMA EvictedPlaces ==
    ASSUME BackendTypeOK, NEW n \in Int, NEW order \in Evictions(n)
    PROVE  /\ EvictedSlots(order) \in Seq(Nat)
           /\ DOMAIN EvictedSlots(order) = 1..(Len(order) * PageSize)
           /\ Len(order) \in Nat /\ Len(order) * PageSize \in Nat
           /\ \A j \in 1..Len(order), o \in 1..PageSize : EvictedPlace(order, j, o)
           /\ \A i \in 1..(Len(order) * PageSize) :
                \E j \in 1..Len(order), o \in 1..PageSize : i = (j - 1) * PageSize + o
  <1> DEFINE slots == EvictedSlots(order)
  <1>1. /\ order \in Seq(DOMAIN tree) /\ slots \in Seq(Nat)
        /\ PageSize \in Nat \ {0} /\ Len(order) \in Nat
    BY EvictedOrder, EvictedType, SizeAssumption DEF SizeAssumption
  <1>2. Len(order) * PageSize \in Nat
    BY <1>1, PagesMonotonic
  <1>3. /\ DOMAIN slots = 1..(Len(order) * PageSize)
        /\ \A i \in 1..(Len(order) * PageSize) :
             slots[i] = tree[order[((i - 1) \div PageSize) + 1]][((i - 1) % PageSize) + 1]
    BY DEF EvictedSlots
  <1> HIDE DEF slots
  <1>4. ASSUME NEW j \in 1..Len(order), NEW o \in 1..PageSize
        PROVE  EvictedPlace(order, j, o)
    <2> DEFINE i == (j - 1) * PageSize + o
    <2>1. j - 1 \in Nat /\ o - 1 \in 0..(PageSize - 1) /\ j <= Len(order)
      BY <1>1
    <2>2. /\ (j - 1) * PageSize \in Nat
          /\ ((j - 1) * PageSize + (o - 1)) \div PageSize = j - 1
          /\ ((j - 1) * PageSize + (o - 1)) % PageSize = o - 1
      BY <2>1, PageUnique
    <2>3. i - 1 = (j - 1) * PageSize + (o - 1)
      BY <1>1, <2>2
    <2>4. j * PageSize = (j - 1) * PageSize + PageSize
      <3>1. ((j - 1) + 1) * PageSize = (j - 1) * PageSize + PageSize
        BY <1>1, <2>1, PagesStep
      <3> QED
        BY <3>1, (j - 1) + 1 = j
    <2>5. j * PageSize \in Nat /\ j * PageSize <= Len(order) * PageSize
      BY <1>1, <2>1, PagesMonotonic
    <2>6. i \in 1..(Len(order) * PageSize)
      <3>1. ASSUME NEW u \in Nat, NEW w \in Nat, u + PageSize <= w
            PROVE  u + o \in 1..w
        BY <1>1, <3>1
      <3>2. (j - 1) * PageSize + PageSize <= Len(order) * PageSize
        BY <2>4, <2>5
      <3> QED
        BY <1>2, <2>2, <3>1, <3>2
    <2>7. (i - 1) \div PageSize = j - 1 /\ (i - 1) % PageSize = o - 1
      BY <2>2, <2>3
    <2> HIDE DEF i
    <2>8. slots[i] = tree[order[(j - 1) + 1]][(o - 1) + 1]
      BY <1>3, <2>6, <2>7
    <2>9. (j - 1) + 1 = j /\ (o - 1) + 1 = o
      BY <1>1
    <2> QED
      BY <2>6, <2>8, <2>9 DEF EvictedPlace, slots, i
  <1>5. ASSUME NEW i \in 1..(Len(order) * PageSize)
        PROVE  \E j \in 1..Len(order), o \in 1..PageSize : i = (j - 1) * PageSize + o
    <2>1. ((i - 1) \div PageSize) + 1 \in 1..Len(order) /\ ((i - 1) % PageSize) + 1 \in 1..PageSize
      BY <1>1, PageOfPosition
    <2>2. /\ i \in Nat \ {0} /\ (i - 1) \div PageSize \in Nat
          /\ i = PageFloor(i - 1) + ((i - 1) % PageSize) + 1
      <3>1. i \in Nat \ {0}
        BY <1>2
      <3>2. i - 1 \in Nat /\ i = PageFloor(i - 1) + ((i - 1) % PageSize) + 1
        BY <3>1, PageAround
      <3> QED
        BY <3>1, <3>2, PageParts
    <2>3. (((i - 1) \div PageSize) + 1) - 1 = (i - 1) \div PageSize
      BY <2>2
    <2>4. i = ((((i - 1) \div PageSize) + 1) - 1) * PageSize + (((i - 1) % PageSize) + 1)
      BY <1>1, <2>1, <2>2, <2>3, PageAround DEF PageFloor
    <2> QED
      BY <2>1, <2>4
  <1> QED
    BY <1>1, <1>2, <1>3, <1>4, <1>5 DEF slots

\* The slots that evict returns are those of the pages it takes.
LEMMA EvictedRange ==
    ASSUME BackendTypeOK, NEW n \in Int, NEW order \in Evictions(n)
    PROVE  Range(EvictedSlots(order)) = UNION {Range(tree[p]) : p \in Range(order)}
  <1> DEFINE slots == EvictedSlots(order)
  <1>1. /\ order \in Seq(DOMAIN tree) /\ DOMAIN order = 1..Len(order)
        /\ DOMAIN slots = 1..(Len(order) * PageSize)
        /\ \A j \in 1..Len(order), o \in 1..PageSize : EvictedPlace(order, j, o)
        /\ \A i \in 1..(Len(order) * PageSize) :
             \E j \in 1..Len(order), o \in 1..PageSize : i = (j - 1) * PageSize + o
    BY EvictedOrder, EvictedPlaces
  <1>2. \A p \in DOMAIN tree : DOMAIN tree[p] = 1..PageSize
    BY DEF BackendTypeOK
  <1>3. ASSUME NEW x \in Range(slots)
        PROVE  x \in UNION {Range(tree[p]) : p \in Range(order)}
    <2>1. PICK i \in 1..(Len(order) * PageSize) : slots[i] = x
      BY <1>1 DEF Range
    <2>2. PICK j \in 1..Len(order), o \in 1..PageSize : i = (j - 1) * PageSize + o
      BY <1>1
    <2>3. x = tree[order[j]][o]
      BY <1>1, <2>1, <2>2 DEF EvictedPlace
    <2>4. order[j] \in DOMAIN tree /\ order[j] \in Range(order)
      BY <1>1 DEF Range
    <2>5. x \in Range(tree[order[j]])
      BY <1>2, <2>3, <2>4 DEF Range
    <2> QED
      BY <2>4, <2>5
  <1>4. ASSUME NEW p \in Range(order), NEW x \in Range(tree[p])
        PROVE  x \in Range(slots)
    <2>1. PICK j \in 1..Len(order) : order[j] = p
      BY <1>1 DEF Range
    <2>2. p \in DOMAIN tree
      BY <1>1, <2>1
    <2>3. PICK o \in 1..PageSize : tree[p][o] = x
      BY <1>2, <2>2 DEF Range
    <2>4. EvictedPlace(order, j, o)
      BY <1>1
    <2>5. \E i \in DOMAIN slots : slots[i] = x
      BY <1>1, <2>1, <2>3, <2>4 DEF EvictedPlace
    <2> QED
      BY <2>5 DEF Range
  <1> QED
    BY <1>3, <1>4

\* When a slot has one owner, evict returns no slot twice.
LEMMA EvictedOnce ==
    ASSUME BackendTypeOK, SlotsOwnedOnce, NEW n \in Int, NEW order \in Evictions(n)
    PROVE  IsInjective(EvictedSlots(order))
  <1> DEFINE slots == EvictedSlots(order)
  <1>1. /\ order \in Seq(DOMAIN tree) /\ DOMAIN order = 1..Len(order) /\ IsInjective(order)
        /\ DOMAIN slots = 1..(Len(order) * PageSize)
        /\ \A j \in 1..Len(order), o \in 1..PageSize : EvictedPlace(order, j, o)
        /\ \A i \in 1..(Len(order) * PageSize) :
             \E j \in 1..Len(order), o \in 1..PageSize : i = (j - 1) * PageSize + o
    BY EvictedOrder, EvictedPlaces
  <1>2. \A p \in DOMAIN tree : DOMAIN tree[p] = 1..PageSize
    BY DEF BackendTypeOK
  <1>3. ASSUME NEW i \in DOMAIN slots, NEW k \in DOMAIN slots, slots[i] = slots[k]
        PROVE  i = k
    <2>1. PICK j \in 1..Len(order), o \in 1..PageSize : i = (j - 1) * PageSize + o
      BY <1>1
    <2>2. PICK l \in 1..Len(order), m \in 1..PageSize : k = (l - 1) * PageSize + m
      BY <1>1
    <2>3. EvictedPlace(order, j, o) /\ EvictedPlace(order, l, m)
      BY <1>1
    <2>4. /\ tree[order[j]][o] = tree[order[l]][m]
          /\ order[j] \in DOMAIN tree /\ order[l] \in DOMAIN tree
      BY <1>1, <1>3, <2>1, <2>2, <2>3 DEF EvictedPlace
    <2>5. tree[order[j]][o] \in Range(tree[order[j]]) /\ tree[order[l]][m] \in Range(tree[order[l]])
      BY <1>2, <2>4 DEF Range
    <2>6. order[j] = order[l]
      BY <2>4, <2>5 DEF SlotsOwnedOnce
    <2>7. j = l
      BY <1>1, <2>6 DEF IsInjective
    <2>8. o = m
      <3>1. IsInjective(tree[order[j]]) /\ DOMAIN tree[order[j]] = 1..PageSize
        BY <1>2, <2>4 DEF SlotsOwnedOnce
      <3>2. tree[order[j]][o] = tree[order[j]][m]
        BY <2>4, <2>6
      <3> QED
        BY <3>1, <3>2 DEF IsInjective
    <2> QED
      BY <2>1, <2>2, <2>7, <2>8
  <1> QED
    BY <1>3 DEF IsInjective

\* What is handed out of a pool, and what stays in it.
Splits(pool, taken, rest, next) ==
    /\ next \in Nat /\ nextIdx <= next
    /\ taken \in Seq(Nat) /\ rest \in Seq(Nat)
    /\ Range(taken) \cup Range(rest) = Range(pool) \cup nextIdx..(next - 1)
    /\ IsInjective(pool) /\ Range(pool) \subseteq 0..(nextIdx - 1) =>
         IsInjective(taken) /\ IsInjective(rest) /\ Range(taken) \cap Range(rest) = {}

\* The allocator takes the tail of the free list, or indices never handed out.
LEMMA TakenApart ==
    ASSUME nextIdx \in Nat, NEW n \in Nat \ {0}, NEW pool \in Seq(Nat)
    PROVE  Splits(pool, FlatTaken(n, pool), FlatRest(n, pool), FlatNext(n, pool))
  <1> DEFINE l == Len(pool)
  <1>0. l \in Nat /\ DOMAIN pool = 1..l /\ Range(pool) = {pool[i] : i \in 1..l}
    BY DEF Range
  <1>1. CASE n <= Len(pool)
    <2> DEFINE a == l - n + 1
               taken == SubSeq(pool, a, l)
               rest == SubSeq(pool, 1, l - n)
    <2>1. FlatTaken(n, pool) = taken /\ FlatRest(n, pool) = rest /\ FlatNext(n, pool) = nextIdx
      BY <1>1 DEF FlatTaken, FlatRest, FlatNext
    <2>2. a \in Nat \ {0} /\ l - n \in Nat /\ l - n <= l
      BY <1>0, <1>1
    <2>3. /\ taken \in Seq(Nat) /\ DOMAIN taken = 1..n
          /\ \A i \in 1..n : taken[i] = pool[a + i - 1]
          /\ rest \in Seq(Nat) /\ DOMAIN rest = 1..(l - n)
          /\ \A i \in 1..(l - n) : rest[i] = pool[i]
      BY <1>0, <1>1
    <2> HIDE DEF taken, rest
    <2>4. \A i \in 1..n : a + i - 1 \in a..l
      BY <1>0, <1>1
    <2>5. \A k \in a..l : k - a + 1 \in 1..n /\ a + (k - a + 1) - 1 = k
      BY <1>0, <1>1
    <2>6. Range(taken) = {pool[i] : i \in a..l}
      <3>1. ASSUME NEW x \in Range(taken) PROVE x \in {pool[i] : i \in a..l}
        <4>1. PICK i \in 1..n : taken[i] = x
          BY <2>3 DEF Range
        <4> QED
          BY <2>3, <2>4, <4>1
      <3>2. ASSUME NEW k \in a..l PROVE pool[k] \in Range(taken)
        <4>1. k - a + 1 \in DOMAIN taken /\ taken[k - a + 1] = pool[k]
          BY <2>3, <2>5
        <4> QED
          BY <4>1 DEF Range
      <3> QED
        BY <3>1, <3>2
    <2>7. Range(rest) = {pool[i] : i \in 1..(l - n)}
      BY <2>3 DEF Range
    <2>8. /\ \A i \in a..l : i \in 1..l
          /\ \A i \in 1..(l - n) : i \in 1..l
          /\ \A i \in 1..l : i \in a..l \/ i \in 1..(l - n)
          /\ \A i \in a..l, j \in 1..(l - n) : i # j
      BY <1>0, <2>2
    <2>9. Range(taken) \cup Range(rest) = Range(pool)
      BY <1>0, <2>6, <2>7, <2>8
    <2>10. ASSUME IsInjective(pool)
           PROVE  IsInjective(taken) /\ IsInjective(rest) /\ Range(taken) \cap Range(rest) = {}
      <3>1. IsInjective(rest)
        BY <1>0, <2>3, <2>8, <2>10 DEF IsInjective
      <3>2. IsInjective(taken)
        <4> SUFFICES ASSUME NEW i \in 1..n, NEW j \in 1..n, taken[i] = taken[j] PROVE i = j
          BY <2>3 DEF IsInjective
        <4>1. a + i - 1 = a + j - 1
          BY <1>0, <2>3, <2>4, <2>8, <2>10 DEF IsInjective
        <4> QED
          BY <2>2, <4>1
      <3>3. Range(taken) \cap Range(rest) = {}
        BY <1>0, <2>6, <2>7, <2>8, <2>10 DEF IsInjective
      <3> QED
        BY <3>1, <3>2, <3>3
    <2>11. nextIdx..(nextIdx - 1) = {}
      OBVIOUS
    <2> QED
      BY <2>1, <2>3, <2>9, <2>10, <2>11 DEF Splits
  <1>2. CASE ~(n <= Len(pool))
    <2> DEFINE taken == [i \in 1..n |-> nextIdx + i - 1]
    <2>1. FlatTaken(n, pool) = taken /\ FlatRest(n, pool) = pool /\ FlatNext(n, pool) = nextIdx + n
      BY <1>2 DEF FlatTaken, FlatRest, FlatNext
    <2>2. taken \in Seq(Nat) /\ IsInjective(taken)
      BY DEF IsInjective
    <2>3. Range(taken) = nextIdx..(nextIdx + n - 1)
      <3>1. \A i \in 1..n : nextIdx + i - 1 \in nextIdx..(nextIdx + n - 1)
        OBVIOUS
      <3>2. \A x \in nextIdx..(nextIdx + n - 1) :
                x - nextIdx + 1 \in 1..n /\ taken[x - nextIdx + 1] = x
        OBVIOUS
      <3>3. DOMAIN taken = 1..n /\ \A i \in 1..n : taken[i] \in nextIdx..(nextIdx + n - 1)
        BY <3>1
      <3> HIDE DEF taken
      <3> QED
        BY <3>2, <3>3 DEF Range
    <2>4. /\ nextIdx + n \in Nat /\ nextIdx <= nextIdx + n
          /\ (0..(nextIdx - 1)) \cap (nextIdx..(nextIdx + n - 1)) = {}
      OBVIOUS
    <2> HIDE DEF taken
    <2> QED
      BY <2>1, <2>2, <2>3, <2>4 DEF Splits
  <1> QED
    BY <1>1, <1>2

-----------------------------------------------------------------------------
(* Owners of slots: the three ways in which they change hands              *)

\* Some pages leave the tree, and nothing else of it changes.
TreeWithout(gone) ==
    /\ gone \subseteq DOMAIN tree /\ DOMAIN tree' = DOMAIN tree \ gone
    /\ \A p \in DOMAIN tree' : tree'[p] = tree[p]

\* The slot cached for a position is one of its page.
LEMMA CachedInPage ==
    ASSUME BackendTypeOK, NEW text \in Seq(Token), NEW i \in Nat \ {0}, NEW slot,
           CachedAt(text, i, slot)
    PROVE  /\ PageOf(text, i) \in DOMAIN tree /\ slot \in Range(tree[PageOf(text, i)])
           /\ slot \in TreeSlots
  <1>1. /\ PageOf(text, i) \in DOMAIN tree
        /\ slot = tree[PageOf(text, i)][((i - 1) % PageSize) + 1]
    BY DEF CachedAt, CachedSlot, PageOf
  <1>2. ((i - 1) % PageSize) + 1 \in DOMAIN tree[PageOf(text, i)]
    BY <1>1, PageAround DEF BackendTypeOK
  <1> QED
    BY <1>1, <1>2 DEF Range, TreeSlots

\* The slot is cached for position i of the text after the step.
CachedNext(text, i, slot) ==
    /\ PageWithin(text, i) /\ PageOf(text, i) \in DOMAIN tree'
    /\ slot = tree'[PageOf(text, i)][((i - 1) % PageSize) + 1]

\* A slot that is still in the tree is still cached for the same position.
LEMMA CachedStays ==
    ASSUME BackendTypeOK, SlotsOwnedOnce, NEW gone, TreeWithout(gone),
           NEW text \in Seq(Token), NEW i \in Nat \ {0}, NEW slot,
           CachedAt(text, i, slot), slot \in TreeSlots'
    PROVE  CachedNext(text, i, slot)
  <1>1. PICK p \in DOMAIN tree' : slot \in Range(tree'[p])
    BY DEF TreeSlots
  <1>2. p \in DOMAIN tree /\ slot \in Range(tree[p])
    BY <1>1 DEF TreeWithout
  <1>3. PageOf(text, i) \in DOMAIN tree /\ slot \in Range(tree[PageOf(text, i)])
    BY CachedInPage
  <1>4. p = PageOf(text, i)
    BY <1>2, <1>3 DEF SlotsOwnedOnce
  <1>5. tree'[PageOf(text, i)] = tree[PageOf(text, i)]
    BY <1>1, <1>4 DEF TreeWithout
  <1> QED
    BY <1>1, <1>4, <1>5 DEF CachedAt, CachedSlot, CachedNext, PageOf

\* The rows are cached after the step, position by position.
LEMMA RowsCachedNext ==
    ASSUME \A q \in Req : \A i \in DOMAIN row'[q] :
               row'[q][i] \in TreeSlots' => CachedNext(Text(q, outLen'[q]), i, row'[q][i])
    PROVE  RowsCached'
  BY DEF RowsCached, CachedNext, CachedAt, CachedSlot, PageOf, PageWithin, Text, PageFloor

\* The slots of the pages that leave the tree are not those of the ones that stay.
LEMMA TreeSplit ==
    ASSUME SlotsOwnedOnce, NEW gone, TreeWithout(gone)
    PROVE  LET out == UNION {Range(tree[p]) : p \in gone}
           IN TreeSlots = TreeSlots' \cup out /\ TreeSlots' \cap out = {}
  <1> DEFINE out == UNION {Range(tree[p]) : p \in gone}
  <1>1. ASSUME NEW x \in TreeSlots' PROVE x \in TreeSlots /\ x \notin out
    <2>1. PICK p \in DOMAIN tree' : x \in Range(tree'[p])
      BY DEF TreeSlots
    <2>2. p \in DOMAIN tree /\ p \notin gone /\ x \in Range(tree[p])
      BY <2>1 DEF TreeWithout
    <2>3. \A q \in gone : x \notin Range(tree[q])
      BY <2>2 DEF SlotsOwnedOnce, TreeWithout
    <2> QED
      BY <2>2, <2>3 DEF TreeSlots
  <1>2. ASSUME NEW x \in TreeSlots, x \notin out PROVE x \in TreeSlots'
    <2>1. PICK p \in DOMAIN tree : x \in Range(tree[p])
      BY DEF TreeSlots
    <2>2. p \in DOMAIN tree' /\ tree'[p] = tree[p]
      BY <1>2, <2>1 DEF TreeWithout
    <2> QED
      BY <2>1, <2>2 DEF TreeSlots
  <1>3. out \subseteq TreeSlots
    BY DEF TreeSlots, TreeWithout
  <1> QED
    BY <1>1, <1>2, <1>3

\* A sequence that may be the row of r: the matched slots, or the row it has.
MayHold(r, held) ==
    /\ held \in Seq(Nat) /\ IsInjective(held)
    /\ Range(held) \subseteq 0..(nextIdx - 1) /\ Range(held) \cap Range(freeList) = {}
    /\ \A i \in DOMAIN held : held[i] \in TreeSlots => CachedAt(Text(r, outLen[r]), i, held[i])
    /\ \A q \in Req \ {r} : Range(held) \cap RowSlots(q) \subseteq TreeSlots

\* allocate_slots: pages leave the tree, some slots go to a row, the others are free.
LEMMA AllocationOwned ==
    ASSUME BackendTypeOK, SlotsOwnedOnce, FreshInv, RowsCached, RowsApart,
           \A q \in Req : Text(q, outLen[q]) \in Seq(Token),
           NEW r \in Req, NEW held, MayHold(r, held), NEW gone, TreeWithout(gone),
           NEW out, out = UNION {Range(tree[p]) : p \in gone},
           out \cap Range(held) = {}, \A q \in Req \ {r} : out \cap RowSlots(q) = {},
           NEW pool \in Seq(Nat), IsInjective(pool), Range(pool) = Range(freeList) \cup out,
           NEW taken, Splits(pool, taken, freeList', nextIdx'),
           row' = [row EXCEPT ![r] = held \o taken], outLen' = outLen
    PROVE  SlotsOwnedOnce' /\ FreshInv' /\ RowsCached' /\ RowsApart'
  <1> DEFINE H == Range(held)
             K == Range(taken)
             F == Range(freeList)
             X == Range(freeList')
             fresh == nextIdx..(nextIdx' - 1)
  <1>1. TreeSlots = TreeSlots' \cup out /\ TreeSlots' \cap out = {}
    BY TreeSplit
  <1>2. /\ \A q \in Req \ {r} : row'[q] = row[q] /\ RowSlots(q)' = RowSlots(q)
        /\ row'[r] = held \o taken
    BY DEF BackendTypeOK, RowSlots
  <1>3. /\ TreeSlots \cap fresh = {} /\ F \cap fresh = {} /\ H \cap fresh = {}
        /\ \A q \in Req : RowSlots(q) \cap fresh = {}
    <2>1. (0..(nextIdx - 1)) \cap fresh = {}
      BY DEF BackendTypeOK, Splits
    <2> QED
      BY <2>1 DEF FreshInv, MayHold
  <1>4. /\ F \cap TreeSlots = {} /\ F \cap H = {}
        /\ \A q \in Req : F \cap RowSlots(q) = {}
    BY DEF SlotsOwnedOnce, MayHold
  <1>5. /\ K \cup X = F \cup out \cup fresh /\ K \cap X = {}
        /\ IsInjective(taken) /\ IsInjective(freeList') /\ taken \in Seq(Nat)
    <2>1. Range(pool) \subseteq 0..(nextIdx - 1)
      BY <1>1 DEF FreshInv
    <2> QED
      BY <2>1 DEF Splits
  <1>6. row'[r] \in Seq(Nat) /\ IsInjective(row'[r]) /\ Range(row'[r]) = H \cup K
    <2>1. H \cap K = {}
      BY <1>3, <1>4, <1>5
    <2>2. held \in Seq(Nat) /\ IsInjective(held)
      BY DEF MayHold
    <2>3. /\ held \o taken \in Seq(Nat) /\ IsInjective(held \o taken)
          /\ Range(held \o taken) = Range(held) \cup Range(taken)
      BY <1>5, <2>1, <2>2, JoinedApart
    <2> QED
      BY <1>2, <2>3
  <1>7. K \cap TreeSlots' = {} /\ X \cap TreeSlots' = {} /\ X \cap H = {}
    BY <1>1, <1>3, <1>4, <1>5
  <1>8. \A q \in Req \ {r} : X \cap RowSlots(q) = {} /\ K \cap RowSlots(q) = {}
    BY <1>3, <1>4, <1>5
  <1>9. SlotsOwnedOnce'
    <2>1. \A q \in Req : IsInjective(row'[q])
      BY <1>2, <1>6 DEF SlotsOwnedOnce
    <2>2. \A p \in DOMAIN tree' : IsInjective(tree'[p])
      BY DEF SlotsOwnedOnce, TreeWithout
    <2>3. \A p, q \in DOMAIN tree' : p # q => Range(tree'[p]) \cap Range(tree'[q]) = {}
      BY DEF SlotsOwnedOnce, TreeWithout
    <2>4. \A q \in Req : X \cap RowSlots(q)' = {}
      BY <1>2, <1>5, <1>6, <1>7, <1>8 DEF RowSlots
    <2>5. X \cap (TreeSlots' \cup UNION {RowSlots(q)' : q \in Req}) = {}
      BY <1>7, <2>4
    <2> QED
      BY <1>5, <2>1, <2>2, <2>3, <2>5 DEF SlotsOwnedOnce
  <1>10. FreshInv'
    <2> DEFINE below == 0..(nextIdx' - 1)
    <2>1. 0..(nextIdx - 1) \subseteq below /\ fresh \subseteq below
      <3>1. nextIdx \in Nat /\ nextIdx' \in Nat /\ nextIdx <= nextIdx'
        BY DEF BackendTypeOK, Splits
      <3> QED
        BY <3>1
    <2>2. F \subseteq below /\ TreeSlots \subseteq below /\ H \subseteq below
          /\ \A q \in Req : RowSlots(q) \subseteq below
      BY <2>1 DEF FreshInv, MayHold
    <2> HIDE DEF below
    <2>3. X \subseteq below /\ K \subseteq below /\ TreeSlots' \subseteq below
      BY <1>1, <1>5, <2>1, <2>2
    <2>4. \A q \in Req : RowSlots(q)' \subseteq below
      BY <1>2, <1>6, <2>2, <2>3 DEF RowSlots
    <2> QED
      BY <2>3, <2>4 DEF FreshInv, below
  <1>11. RowsCached'
    <2> SUFFICES ASSUME NEW q \in Req, NEW i \in DOMAIN row'[q], row'[q][i] \in TreeSlots'
                 PROVE  CachedNext(Text(q, outLen[q]), i, row'[q][i])
      BY RowsCachedNext
    <2>1. CASE q # r
      <3>1. i \in DOMAIN row[q] /\ row'[q][i] = row[q][i] /\ i \in Nat \ {0}
        <4>1. row'[q] = row[q] /\ row[q] \in Seq(Nat)
          BY <1>2, <2>1 DEF BackendTypeOK
        <4>2. DOMAIN row[q] = 1..Len(row[q]) /\ Len(row[q]) \in Nat
          BY <4>1
        <4>3. i \in DOMAIN row[q]
          BY <4>1
        <4>4. i \in 1..Len(row[q])
          BY <4>2, <4>3
        <4>5. i \in Nat \ {0}
          BY <4>2, <4>4
        <4> QED
          BY <4>1, <4>3, <4>5
      <3>2. CachedAt(Text(q, outLen[q]), i, row[q][i])
        BY <1>1, <3>1 DEF RowsCached
      <3> QED
        BY <3>1, <3>2, CachedStays
    <2>2. CASE q = r
      <3>0. /\ DOMAIN held = 1..Len(held) /\ Len(held) \in Nat /\ Len(taken) \in Nat
            /\ DOMAIN (held \o taken) = 1..(Len(held) + Len(taken))
            /\ DOMAIN taken = 1..Len(taken)
            /\ \A j \in 1..Len(held) : (held \o taken)[j] = held[j]
            /\ \A j \in (Len(held) + 1)..(Len(held) + Len(taken)) :
                  (held \o taken)[j] = taken[j - Len(held)]
        BY <1>5 DEF MayHold
      <3>1. CASE i \in DOMAIN held
        <4>1. row'[q][i] = held[i] /\ i \in Nat \ {0}
          BY <1>2, <2>2, <3>0, <3>1
        <4>2. CachedAt(Text(r, outLen[r]), i, held[i])
          BY <1>1, <3>1, <4>1 DEF MayHold
        <4> QED
          BY <2>2, <4>1, <4>2, CachedStays
      <3>2. CASE i \notin DOMAIN held
        <4>1. i \in (Len(held) + 1)..(Len(held) + Len(taken)) /\ i - Len(held) \in 1..Len(taken)
          BY <1>2, <2>2, <3>0, <3>2
        <4>2. row'[q][i] \in K
          BY <1>2, <2>2, <3>0, <4>1 DEF Range
        <4> QED
          BY <1>7, <4>2
      <3> QED
        BY <3>1, <3>2
    <2> QED
      BY <2>1, <2>2
  <1>12. RowsApart'
    <2> SUFFICES ASSUME NEW p \in Req, NEW q \in Req, p # q,
                        NEW x \in RowSlots(p)', x \in RowSlots(q)'
                 PROVE  x \in TreeSlots'
      BY DEF RowsApart
    <2>1. CASE p # r /\ q # r
      BY <1>1, <1>2, <2>1 DEF RowsApart
    <2>2. ASSUME NEW o \in Req \ {r}, x \in RowSlots(o)', x \in RowSlots(r)'
          PROVE  x \in TreeSlots'
      <3>1. x \in RowSlots(o) /\ x \notin K /\ x \in H /\ x \notin out
        BY <1>2, <1>6, <1>8, <2>2 DEF RowSlots
      <3> QED
        BY <1>1, <3>1 DEF MayHold
    <2> QED
      BY <2>1, <2>2
  <1> QED
    BY <1>9, <1>10, <1>11, <1>12

-----------------------------------------------------------------------------
(* Owners of slots: allocations                                            *)

\* A slot is cached for one position of one text up to it.
LEMMA CachedUnique ==
    ASSUME BackendTypeOK, SlotsOwnedOnce, NEW t \in Seq(Token), NEW u \in Seq(Token),
           NEW i \in Nat \ {0}, NEW j \in Nat \ {0}, NEW slot,
           CachedAt(t, i, slot), CachedAt(u, j, slot)
    PROVE  i = j /\ PageOf(t, i) = PageOf(u, j) /\ SubSeq(t, 1, i) = SubSeq(u, 1, i)
  <1> DEFINE e == PageFloor(i - 1) + PageSize
             f == PageFloor(j - 1) + PageSize
             a == ((i - 1) % PageSize) + 1
             b == ((j - 1) % PageSize) + 1
  <1>1. /\ PageOf(t, i) \in DOMAIN tree /\ slot \in Range(tree[PageOf(t, i)])
        /\ PageOf(u, j) \in DOMAIN tree /\ slot \in Range(tree[PageOf(u, j)])
    BY CachedInPage
  <1>2. PageOf(t, i) = PageOf(u, j)
    BY <1>1 DEF SlotsOwnedOnce
  <1>3. /\ e \in Nat /\ e <= Len(t) /\ i <= e /\ f \in Nat /\ f <= Len(u) /\ j <= f
        /\ PageOf(t, i) = SubSeq(t, 1, e) /\ PageOf(u, j) = SubSeq(u, 1, f)
        /\ i = (e - PageSize) + a /\ j = (f - PageSize) + b
        /\ a \in 1..PageSize /\ b \in 1..PageSize /\ PageSize \in Nat
    <2>1. e <= Len(t) /\ f <= Len(u)
      BY DEF CachedAt, PageWithin
    <2>2. PageOf(t, i) = SubSeq(t, 1, e) /\ PageOf(u, j) = SubSeq(u, 1, f)
      BY DEF PageOf
    <2>3. /\ PageFloor(i - 1) \in Nat /\ i <= e /\ a \in 1..PageSize
          /\ i = PageFloor(i - 1) + a /\ PageSize \in Nat
      BY PageAround
    <2>4. /\ PageFloor(j - 1) \in Nat /\ j <= f /\ b \in 1..PageSize
          /\ j = PageFloor(j - 1) + b
      BY PageAround
    <2>5. e = PageFloor(i - 1) + PageSize /\ f = PageFloor(j - 1) + PageSize
      OBVIOUS
    <2> HIDE DEF a, b, e, f
    <2>6. e \in Nat /\ i = (e - PageSize) + a
      BY <2>3, <2>5
    <2>7. f \in Nat /\ j = (f - PageSize) + b
      BY <2>3, <2>4, <2>5
    <2> QED
      BY <2>1, <2>2, <2>3, <2>4, <2>6, <2>7
  <1>4. slot = tree[PageOf(t, i)][a] /\ slot = tree[PageOf(u, j)][b]
    BY DEF CachedAt, CachedSlot, PageOf
  <1>5. IsInjective(tree[PageOf(t, i)]) /\ DOMAIN tree[PageOf(t, i)] = 1..PageSize
    BY <1>1 DEF SlotsOwnedOnce, BackendTypeOK
  <1> HIDE DEF a, b, e, f
  <1>6. a = b
    BY <1>2, <1>3, <1>4, <1>5 DEF IsInjective
  <1>7. e = f
    <2>1. Len(SubSeq(t, 1, e)) = e /\ Len(SubSeq(u, 1, f)) = f
      BY <1>3
    <2> QED
      BY <1>2, <1>3, <2>1
  <1>8. i = j
    BY <1>3, <1>6, <1>7
  <1>9. SubSeq(t, 1, i) = SubSeq(SubSeq(t, 1, e), 1, i)
    BY <1>3
  <1>10. SubSeq(u, 1, i) = SubSeq(SubSeq(u, 1, f), 1, i)
    BY <1>3, <1>8
  <1> QED
    BY <1>2, <1>3, <1>8, <1>9, <1>10

\* A page that ends within a text ends within its whole pages.
LEMMA PageBelow ==
    ASSUME NEW i \in Nat \ {0}, NEW n \in Nat, PageFloor(i - 1) + PageSize <= n
    PROVE  PageFloor(i - 1) + PageSize <= PageFloor(n)
  <1> DEFINE P == PageSize
             k == (i - 1) \div P
             m == n \div P
  <1>1. /\ P \in Nat \ {0} /\ k \in Nat /\ k * P \in Nat /\ m \in Nat
        /\ n = m * P + (n % P) /\ n % P \in 0..(P - 1) /\ m * P \in Nat
    <2>1. i - 1 \in Nat
      OBVIOUS
    <2> QED
      BY <2>1, PageParts, SizeAssumption DEF SizeAssumption
  <1>2. k * P + P <= n
    BY DEF PageFloor
  <1> HIDE DEF P, k, m
  <1>3. (k + 1) * P = k * P + P /\ (m + 1) * P = m * P + P
    BY <1>1, PagesStep
  <1>4. k + 1 < m + 1
    <2>1. (k + 1) * P < (m + 1) * P
      BY <1>1, <1>2, <1>3
    <2> QED
      BY <1>1, <2>1, PagesCancel
  <1>5. (k + 1) * P <= m * P
    BY <1>1, <1>4, PagesMonotonic
  <1> QED
    BY <1>3, <1>5 DEF P, k, m, PageFloor

\* The texts of the requests are sequences of tokens, and that of a request without
\* output is its prompt.
LEMMA TextsTyped ==
    ASSUME IndInv
    PROVE  /\ \A q \in Req : Text(q, outLen[q]) \in Seq(Token)
           /\ \A q \in Req : Len(Text(q, outLen[q])) = Len(Prompt[q]) + outLen[q]
           /\ \A q \in Req : Text(q, 0) = Prompt[q]
  <1>1. ASSUME NEW q \in Req
        PROVE  outLen[q] \in 0..Len(Output[q]) /\ Text(q, 0) = Prompt[q]
    <2>1. outLen[q] \in 0..Len(Output[q])
      BY DEF IndInv, RowInv, TypeOK, BackendTypeOK
    <2>2. Prompt[q] \in Seq(Token) /\ SubSeq(Output[q], 1, 0) = <<>>
      BY WorkloadAssumption DEF WorkloadAssumption
    <2>3. Prompt[q] \o <<>> = Prompt[q]
      BY <2>2
    <2> QED
      BY <2>1, <2>2, <2>3 DEF Text
  <1> QED
    BY <1>1, TextType

\* An eviction takes no slot of a row: what a row has in the tree is locked.
LEMMA EvictionSparesRows ==
    ASSUME IndInv, OwnerInv, at \in {"idle", "prefill_allocate"},
           NEW n \in Int, NEW order \in Evictions(n), NEW q \in Req
    PROVE  (UNION {Range(tree[p]) : p \in Range(order)}) \cap RowSlots(q) = {}
  <1> SUFFICES ASSUME NEW p \in Range(order), NEW x \in Range(tree[p]), x \in RowSlots(q)
               PROVE  FALSE
    OBVIOUS
  <1> DEFINE t == Text(q, outLen[q])
  <1>1. /\ BackendTypeOK /\ SlotsOwnedOnce /\ LockInv /\ RowsCached
        /\ t \in Seq(Token) /\ Range(order) \subseteq Unlocked
    BY TextsTyped, EvictedUnlocked DEF IndInv, TypeOK, OwnerInv
  <1>2. p \in DOMAIN tree /\ ~IsPrefix(p, lastNode[q]) /\ x \in TreeSlots
    BY <1>1 DEF Unlocked, TreeSlots
  <1>3. PICK i \in DOMAIN row[q] : row[q][i] = x
    BY DEF RowSlots, Range
  <1>4. i \in Nat \ {0} /\ row[q] # <<>>
    <2>1. row[q] \in Seq(Nat) /\ DOMAIN row[q] = 1..Len(row[q]) /\ Len(row[q]) \in Nat
      BY <1>1 DEF BackendTypeOK
    <2> QED
      BY <1>3, <2>1
  <1>5. status[q] \in {"decoding", "finished"}
    <2>1. status[q] \in {"prefill", "decoding", "finished", "freed"}
      BY DEF IndInv, TypeOK, HandlerTypeOK
    <2>2. status[q] # "prefill"
      BY <1>4, HandlerAssumption DEF IndInv, RowInv, ControlInv, HandlerAssumption
    <2> QED
      BY <1>1, <1>4, <2>1, <2>2 DEF LockInv
  <1>6. CachedAt(t, i, x)
    BY <1>1, <1>2, <1>3 DEF RowsCached
  <1> HIDE DEF t
  <1>7. p = PageOf(t, i)
    <2>1. PageOf(t, i) \in DOMAIN tree /\ x \in Range(tree[PageOf(t, i)])
      BY <1>1, <1>4, <1>6, CachedInPage
    <2> QED
      BY <1>1, <1>2, <2>1 DEF SlotsOwnedOnce
  <1> DEFINE e == PageFloor(i - 1) + PageSize
             f == PageFloor(Len(t))
  <1>8. e \in Nat /\ f \in Nat /\ e <= f /\ f <= Len(t) /\ p = SubSeq(t, 1, e)
    <2>1. Len(t) \in Nat /\ PageFloor(i - 1) + PageSize <= Len(t)
      BY <1>1, <1>6 DEF CachedAt, PageWithin
    <2>2. e <= f
      BY <1>4, <2>1, PageBelow
    <2>3. f \in Nat /\ f <= Len(t)
      BY <2>1, PageFloorBounds
    <2>4. e \in Nat
      <3>1. PageFloor(i - 1) \in Nat /\ PageSize \in Nat
        BY <1>4, PageAround
      <3> QED
        BY <3>1
    <2> QED
      BY <1>7, <2>2, <2>3, <2>4 DEF PageOf
  <1>9. lastNode[q] = SubSeq(t, 1, f)
    BY <1>1, <1>5 DEF LockInv, PageAligned, t
  <1> HIDE DEF e, f
  <1>10. Len(p) = e /\ SubSeq(p, 1, e) = p /\ SubSeq(SubSeq(t, 1, f), 1, e) = p
    BY <1>1, <1>8
  <1>11. Len(SubSeq(t, 1, f)) = f
    BY <1>1, <1>8
  <1> QED
    BY <1>2, <1>8, <1>9, <1>10, <1>11 DEF IsPrefix

\* evict takes pages out of the tree and leaves the others as they are.
LEMMA EvictionShrinks ==
    ASSUME NEW n \in Int, NEW order \in Evictions(n), tree' = WithoutPages(order)
    PROVE  /\ TreeWithout(Range(order))
           /\ GoneSlots = UNION {Range(tree[p]) : p \in Range(order)}
  <1>1. Range(order) \subseteq DOMAIN tree
    BY EvictedUnlocked DEF Unlocked
  <1>2. /\ DOMAIN tree' = DOMAIN tree \ Range(order)
        /\ \A p \in DOMAIN tree' : tree'[p] = tree[p]
    BY DEF WithoutPages, Restrict
  <1>3. DOMAIN tree \ DOMAIN tree' = Range(order)
    BY <1>1, <1>2
  <1> QED
    BY <1>1, <1>2, <1>3 DEF TreeWithout, GoneSlots

\* The pool that evict fills up holds no slot twice.
LEMMA PoolApart ==
    ASSUME IndInv, OwnerInv, NEW n \in Int, NEW order \in Evictions(n)
    PROVE  LET pool == freeList \o EvictedSlots(order)
           IN /\ pool \in Seq(Nat) /\ IsInjective(pool)
              /\ Range(pool) = Range(freeList) \cup UNION {Range(tree[p]) : p \in Range(order)}
  <1>1. BackendTypeOK /\ SlotsOwnedOnce
    BY DEF IndInv, TypeOK, OwnerInv
  <1>2. /\ EvictedSlots(order) \in Seq(Nat) /\ IsInjective(EvictedSlots(order))
        /\ Range(EvictedSlots(order)) = UNION {Range(tree[p]) : p \in Range(order)}
    BY <1>1, EvictedPlaces, EvictedOnce, EvictedRange
  <1>3. freeList \in Seq(Nat) /\ IsInjective(freeList)
    BY <1>1 DEF BackendTypeOK, SlotsOwnedOnce
  <1>4. Range(freeList) \cap Range(EvictedSlots(order)) = {}
    <2>1. Range(order) \subseteq DOMAIN tree
      BY <1>1, EvictedOrder
    <2>2. Range(EvictedSlots(order)) \subseteq TreeSlots
      BY <1>2, <2>1 DEF TreeSlots
    <2> QED
      BY <1>1, <2>2 DEF SlotsOwnedOnce
  <1> QED
    BY <1>2, <1>3, <1>4, JoinedApart

\* allocate_slots keeps the owners of slots apart, whichever way it goes.
LEMMA AllocateOwned ==
    ASSUME IndInv, OwnerInv, at \in {"idle", "prefill_allocate"},
           NEW r \in Req, NEW n \in Int, NEW prefix \in Seq(Nat),
           MayHold(r, row[r] \o prefix), GoneSlots \cap Range(row[r] \o prefix) = {},
           \/ AllocateNothing(r, n, prefix)
           \/ AllocateSucceeds(r, n, prefix)
           \/ AllocateFails(r, n, prefix)
    PROVE  /\ SlotsOwnedOnce' /\ FreshInv' /\ RowsCached' /\ RowsApart'
           /\ outLen' = outLen /\ lastNode' = lastNode
           /\ \A q \in Req \ {r} : row'[q] = row[q]
  <1> DEFINE held == row[r] \o prefix
  <1>1. /\ BackendTypeOK /\ SlotsOwnedOnce /\ FreshInv /\ RowsCached /\ RowsApart
        /\ \A q \in Req : Text(q, outLen[q]) \in Seq(Token)
    BY TextsTyped DEF IndInv, TypeOK, OwnerInv
  <1>2. /\ held \in Seq(Nat) /\ held \o <<>> = held /\ MayHold(r, held)
        /\ GoneSlots \cap Range(held) = {}
    BY <1>1 DEF BackendTypeOK
  <1>3. nextIdx \in Nat /\ freeList \in Seq(Nat) /\ row \in [Req -> Seq(Nat)]
    BY <1>1 DEF BackendTypeOK
  <1>4. /\ <<>> \in Seq(Nat) /\ IsInjective(<<>>) /\ Range(<<>>) = {}
        /\ nextIdx..(nextIdx - 1) = {}
    BY <1>3 DEF IsInjective, Range
  <1> HIDE DEF held
  <1>5. CASE AllocateNothing(r, n, prefix)
    <2>1. /\ row' = [row EXCEPT ![r] = held \o <<>>] /\ outLen' = outLen
          /\ lastNode' = lastNode /\ freeList' = freeList /\ nextIdx' = nextIdx /\ tree' = tree
      BY <1>2, <1>5 DEF AllocateNothing, poolVars, held
    <2>2. TreeWithout({}) /\ {} = UNION {Range(tree[p]) : p \in {}}
      BY <2>1 DEF TreeWithout
    <2>3. Splits(freeList, <<>>, freeList', nextIdx')
      BY <1>3, <1>4, <2>1 DEF Splits
    <2>4. IsInjective(freeList) /\ Range(freeList) = Range(freeList) \cup {}
      BY <1>1 DEF SlotsOwnedOnce
    <2>5. SlotsOwnedOnce' /\ FreshInv' /\ RowsCached' /\ RowsApart'
      BY <1>1, <1>2, <1>3, <2>1, <2>2, <2>3, <2>4, AllocationOwned
    <2> QED
      BY <1>3, <2>1, <2>5
  <1>6. ASSUME NEW order \in Evictions(n), tree' = WithoutPages(order),
               NEW taken, Splits(freeList \o EvictedSlots(order), taken, freeList', nextIdx'),
               row' = [row EXCEPT ![r] = held \o taken], outLen' = outLen
        PROVE  SlotsOwnedOnce' /\ FreshInv' /\ RowsCached' /\ RowsApart'
    <2> DEFINE pool == freeList \o EvictedSlots(order)
               out == UNION {Range(tree[p]) : p \in Range(order)}
    <2>1. TreeWithout(Range(order)) /\ GoneSlots = out
      BY <1>6, EvictionShrinks
    <2>2. \A q \in Req \ {r} : out \cap RowSlots(q) = {}
      BY EvictionSparesRows
    <2>3. pool \in Seq(Nat) /\ IsInjective(pool) /\ Range(pool) = Range(freeList) \cup out
      BY PoolApart
    <2>4. out \cap Range(held) = {}
      BY <1>2, <2>1
    <2>5. Splits(pool, taken, freeList', nextIdx')
      BY <1>6
    <2> HIDE DEF pool
    <2> QED
      BY <1>1, <1>2, <1>6, <2>1, <2>2, <2>3, <2>4, <2>5, AllocationOwned
  <1>7. CASE AllocateSucceeds(r, n, prefix)
    <2>1. PICK order \in Evictions(n) :
             LET pool == freeList \o EvictedSlots(order)
             IN /\ tree' = WithoutPages(order)
                /\ freeList' = FlatRest(n, pool) /\ nextIdx' = FlatNext(n, pool)
                /\ row' = [row EXCEPT ![r] = @ \o prefix \o FlatTaken(n, pool)]
      BY <1>7 DEF AllocateSucceeds
    <2> DEFINE pool == freeList \o EvictedSlots(order)
    <2>2. outLen' = outLen /\ lastNode' = lastNode /\ n \in Nat \ {0}
      BY <1>7 DEF AllocateSucceeds
    <2>3. pool \in Seq(Nat)
      BY PoolApart
    <2>4. /\ Splits(pool, FlatTaken(n, pool), freeList', nextIdx')
      BY <1>3, <2>1, <2>2, <2>3, TakenApart
    <2>5. row' = [row EXCEPT ![r] = held \o FlatTaken(n, pool)]
      BY <2>1 DEF held
    <2> HIDE DEF pool
    <2>6. SlotsOwnedOnce' /\ FreshInv' /\ RowsCached' /\ RowsApart'
      BY <1>6, <2>1, <2>2, <2>4, <2>5 DEF pool
    <2> QED
      BY <1>3, <2>2, <2>5, <2>6
  <1>8. CASE AllocateFails(r, n, prefix)
    <2>1. PICK order \in Evictions(n) :
             tree' = WithoutPages(order) /\ freeList' = freeList \o EvictedSlots(order)
      BY <1>8 DEF AllocateFails
    <2>2. /\ outLen' = outLen /\ lastNode' = lastNode /\ nextIdx' = nextIdx
          /\ row' = [row EXCEPT ![r] = held \o <<>>]
      BY <1>2, <1>8 DEF AllocateFails, held
    <2>3. freeList' \in Seq(Nat) /\ IsInjective(freeList')
      BY <2>1, PoolApart
    <2>4. Splits(freeList \o EvictedSlots(order), <<>>, freeList', nextIdx')
      BY <1>3, <1>4, <2>1, <2>2, <2>3 DEF Splits
    <2>5. SlotsOwnedOnce' /\ FreshInv' /\ RowsCached' /\ RowsApart'
      BY <1>6, <2>1, <2>2, <2>4
    <2> QED
      BY <1>3, <2>2, <2>5
  <1> QED
    BY <1>5, <1>7, <1>8

\* What allocate_slots evicts is in no row.
LEMMA AllocateSparesRows ==
    ASSUME IndInv, OwnerInv, at \in {"idle", "prefill_allocate"},
           NEW r, NEW n \in Int, NEW prefix,
           \/ AllocateNothing(r, n, prefix)
           \/ AllocateSucceeds(r, n, prefix)
           \/ AllocateFails(r, n, prefix),
           NEW q \in Req
    PROVE  GoneSlots \cap RowSlots(q) = {}
  <1>1. CASE AllocateNothing(r, n, prefix)
    BY <1>1 DEF AllocateNothing, GoneSlots
  <1>2. CASE AllocateSucceeds(r, n, prefix) \/ AllocateFails(r, n, prefix)
    <2>1. PICK order \in Evictions(n) : tree' = WithoutPages(order)
      BY <1>2 DEF AllocateSucceeds, AllocateFails
    <2>2. GoneSlots = UNION {Range(tree[p]) : p \in Range(order)}
      BY <2>1, EvictionShrinks
    <2> QED
      BY <2>2, EvictionSparesRows
  <1> QED
    BY <1>1, <1>2

\* A request may keep the row it has.
LEMMA RowMayHold ==
    ASSUME IndInv, OwnerInv, NEW r \in Req
    PROVE  MayHold(r, row[r]) /\ row[r] \in Seq(Nat) /\ row[r] \o <<>> = row[r]
  <1>1. row[r] \in Seq(Nat) /\ row[r] \o <<>> = row[r]
    BY DEF IndInv, TypeOK, BackendTypeOK
  <1>2. IsInjective(row[r]) /\ Range(row[r]) \cap Range(freeList) = {}
    BY DEF OwnerInv, SlotsOwnedOnce, RowSlots
  <1>3. Range(row[r]) \subseteq 0..(nextIdx - 1)
    BY DEF OwnerInv, FreshInv, RowSlots
  <1>4. \A i \in DOMAIN row[r] :
           row[r][i] \in TreeSlots => CachedAt(Text(r, outLen[r]), i, row[r][i])
    BY DEF OwnerInv, RowsCached
  <1>5. \A q \in Req \ {r} : Range(row[r]) \cap RowSlots(q) \subseteq TreeSlots
    BY DEF OwnerInv, RowsApart, RowSlots
  <1> QED
    BY <1>1, <1>2, <1>3, <1>4, <1>5 DEF MayHold

\* A request may hold the slots matched for it.
LEMMA MatchMayHold ==
    ASSUME IndInv, OwnerInv, at = "prefill_allocate"
    PROVE  cur \in Req /\ row[cur] \o blocks = blocks /\ MayHold(cur, blocks)
  <1>1. /\ cur \in Req /\ status[cur] = "prefill" /\ row[cur] = <<>> /\ blocks \in Seq(Nat)
        /\ outLen[cur] = 0
    BY DEF IndInv, TypeOK, HandlerTypeOK, ControlInv, RowInv
  <1>2. /\ BackendTypeOK /\ SlotsOwnedOnce /\ Prompt[cur] \in Seq(Token)
        /\ Text(cur, outLen[cur]) = Prompt[cur]
    BY <1>1, TextsTyped DEF IndInv, TypeOK, OwnerInv
  <1>3. DOMAIN blocks = 1..Len(blocks) /\ Len(blocks) \in Nat
    BY <1>1
  <1>4. \A i \in DOMAIN blocks : i \in Nat \ {0} /\ CachedAt(Prompt[cur], i, blocks[i])
    BY <1>3 DEF OwnerInv, MatchCached
  <1>5. IsInjective(blocks)
    <2> SUFFICES ASSUME NEW i \in DOMAIN blocks, NEW j \in DOMAIN blocks, blocks[i] = blocks[j]
                 PROVE  i = j
      BY DEF IsInjective
    <2>1. CachedAt(Prompt[cur], j, blocks[i])
      BY <1>4
    <2> QED
      BY <1>2, <1>4, <2>1, CachedUnique
  <1>6. Range(blocks) \subseteq TreeSlots
    BY <1>2, <1>4, CachedInPage DEF Range
  <1>7. Range(blocks) \subseteq 0..(nextIdx - 1) /\ Range(blocks) \cap Range(freeList) = {}
    BY <1>6 DEF OwnerInv, FreshInv, SlotsOwnedOnce
  <1>8. row[cur] \o blocks = blocks
    BY <1>1
  <1> QED
    BY <1>1, <1>2, <1>4, <1>5, <1>6, <1>7, <1>8 DEF MayHold

\* The row of a request that starts holds what it matched and slots of its own.
LEMMA PrefillAllocateOwned ==
    ASSUME IndInv, OwnerInv, LockInv', PrefillAllocate, GoneSlots \cap Range(blocks) = {}
    PROVE  OwnerInv'
  <1> DEFINE n == Len(Prompt[cur]) - numComputed[cur]
  <1>1. at = "prefill_allocate" /\ status' = status /\ at' # "prefill_allocate"
    BY DEF PrefillAllocate
  <1>2. /\ cur \in Req /\ row[cur] \o blocks = blocks /\ MayHold(cur, blocks)
        /\ status[cur] = "prefill" /\ blocks \in Seq(Nat) /\ n \in Int
    BY <1>1, MatchMayHold DEF IndInv, TypeOK, HandlerTypeOK, ControlInv
  <1>3. \/ AllocateNothing(cur, n, blocks)
        \/ AllocateSucceeds(cur, n, blocks)
        \/ AllocateFails(cur, n, blocks)
    BY DEF PrefillAllocate
  <1> HIDE DEF n
  <1>4. /\ SlotsOwnedOnce' /\ FreshInv' /\ RowsCached' /\ RowsApart'
        /\ outLen' = outLen /\ lastNode' = lastNode
        /\ \A q \in Req \ {cur} : row'[q] = row[q]
    BY <1>1, <1>2, <1>3, AllocateOwned
  <1>5. MatchCached'
    BY <1>1 DEF MatchCached
  <1> QED
    BY <1>4, <1>5 DEF OwnerInv

\* The row of a decoding request grows by slots of its own, or stays when they fail.
LEMMA DecodeAllocateOwned ==
    ASSUME IndInv, OwnerInv, LockInv', NEW r \in Req, DecodeAllocate(r)
    PROVE  OwnerInv'
  <1> DEFINE n == 1 + Drafts(r)
  <1>1. /\ at = "idle" /\ status[r] = "decoding" /\ status' = status
        /\ at' # "prefill_allocate"
    BY DEF DecodeAllocate
  <1>2. AllocateSucceeds(r, n, <<>>) \/ AllocateFails(r, n, <<>>)
    BY DEF DecodeAllocate
  <1>3. n \in Int
    BY DraftsNatural DEF IndInv, TypeOK
  <1>4. MayHold(r, row[r] \o <<>>) /\ row[r] \o <<>> = row[r] /\ <<>> \in Seq(Nat)
    BY RowMayHold
  <1> HIDE DEF n
  <1>5. GoneSlots \cap Range(row[r] \o <<>>) = {}
    BY <1>1, <1>2, <1>3, <1>4, AllocateSparesRows DEF RowSlots
  <1>6. /\ SlotsOwnedOnce' /\ FreshInv' /\ RowsCached' /\ RowsApart'
        /\ outLen' = outLen /\ lastNode' = lastNode
        /\ \A q \in Req \ {r} : row'[q] = row[q]
    BY <1>1, <1>2, <1>3, <1>4, <1>5, AllocateOwned
  <1>7. MatchCached'
    BY <1>1 DEF MatchCached
  <1> QED
    BY <1>6, <1>7 DEF OwnerInv

\* The slots of a match are cached for the positions they are handed out for.
LEMMA MatchedSlots ==
    ASSUME BackendTypeOK, NEW text \in Seq(Token), NEW k \in 0..NumPages(text),
           LongestMatch(text, k), NEW i \in 1..(k * PageSize)
    PROVE  CachedAt(text, i, CachedSlots(text, k)[i])
  <1> DEFINE j == ((i - 1) \div PageSize) + 1
  <1>1. /\ j \in 1..k /\ (i - 1) \div PageSize \in Nat /\ k * PageSize <= Len(text)
        /\ k \in Nat /\ PageSize \in Nat \ {0} /\ k * PageSize \in Nat
    <2>1. k \in Nat /\ PageSize \in Nat \ {0} /\ k * PageSize \in Nat /\ k * PageSize <= Len(text)
      BY CachedSlotsType, SizeAssumption DEF SizeAssumption, NumPages
    <2>2. j \in 1..k
      BY <2>1, PageOfPosition
    <2>3. i - 1 \in Nat
      BY <2>1
    <2> QED
      BY <2>1, <2>2, <2>3, PageParts
  <1>2. j * PageSize = PageFloor(i - 1) + PageSize
    BY <1>1, PagesStep DEF PageFloor
  <1>3. j * PageSize <= k * PageSize
    BY <1>1, PageEnds
  <1>4. PageOf(text, i) = SubSeq(text, 1, j * PageSize)
    BY <1>2 DEF PageOf
  <1>5. PageOf(text, i) \in DOMAIN tree
    BY <1>1, <1>4 DEF LongestMatch, PrefixPages
  <1>6. PageWithin(text, i)
    <2>1. PageFloor(i - 1) + PageSize <= k * PageSize
      BY <1>2, <1>3
    <2>2. PageFloor(i - 1) + PageSize \in Nat /\ Len(text) \in Nat
      <3>1. i \in Nat \ {0}
        BY <1>1
      <3>2. PageFloor(i - 1) \in Nat
        BY <3>1, PageAround
      <3> QED
        BY <1>1, <3>2
    <2> QED
      BY <1>1, <2>1, <2>2 DEF PageWithin
  <1>7. CachedSlots(text, k)[i] = CachedSlot(text, i)
    BY DEF CachedSlots
  <1> QED
    BY <1>5, <1>6, <1>7 DEF CachedAt

\* get_computed_blocks returns cached slots.
LEMMA PrefillMatchMatches ==
    ASSUME IndInv, NEW r \in Req, PrefillMatch(r)
    PROVE  MatchCached'
  <1>1. BackendTypeOK /\ Prompt[r] \in Seq(Token)
    BY WorkloadAssumption DEF WorkloadAssumption, IndInv, TypeOK
  <1>2. PICK k \in 0..NumPages(Prompt[r]) :
           GetComputedBlocks(r, k) /\ blocks' = CachedSlots(Prompt[r], k)
    BY DEF PrefillMatch
  <1>3. UNCHANGED backendVars /\ cur' = r
    BY DEF PrefillMatch
  <1>4. DOMAIN blocks' = 1..(k * PageSize)
    BY <1>2 DEF CachedSlots
  <1>5. \A i \in 1..(k * PageSize) : CachedAt(Prompt[r], i, blocks'[i])
    BY <1>1, <1>2, MatchedSlots DEF GetComputedBlocks
  <1> QED
    BY <1>3, <1>4, <1>5 DEF MatchCached, CachedAt, CachedSlot, PageOf, PageWithin, backendVars

\* What a match returns is cached for a prefix of the prompt.
LEMMA PrefillMatchOwned ==
    ASSUME IndInv, OwnerInv, LockInv', NEW r \in Req, PrefillMatch(r)
    PROVE  OwnerInv'
  <1>1. UNCHANGED backendVars /\ UNCHANGED status /\ cur' = r
    BY DEF PrefillMatch
  <1>2. MatchCached'
    BY PrefillMatchMatches
  <1>3. SlotsOwnedOnce' /\ FreshInv' /\ RowsApart'
    <2>1. row' = row /\ tree' = tree /\ freeList' = freeList /\ nextIdx' = nextIdx
      BY <1>1 DEF backendVars, poolVars, handleVars
    <2>2. SlotsOwnedOnce'
      BY <2>1 DEF OwnerInv, SlotsOwnedOnce, RowSlots, TreeSlots
    <2>3. FreshInv'
      BY <2>1 DEF OwnerInv, FreshInv, RowSlots, TreeSlots
    <2>4. RowsApart'
      BY <2>1 DEF OwnerInv, RowsApart, RowSlots, TreeSlots
    <2> QED
      BY <2>2, <2>3, <2>4
  <1>4. RowsCached'
    <2>1. row' = row /\ outLen' = outLen /\ tree' = tree /\ TreeSlots' = TreeSlots
      BY <1>1 DEF TreeSlots, backendVars, handleVars
    <2>2. ASSUME NEW q \in Req, NEW i \in DOMAIN row'[q], row'[q][i] \in TreeSlots'
          PROVE  CachedNext(Text(q, outLen'[q]), i, row'[q][i])
      <3>1. CachedAt(Text(q, outLen[q]), i, row[q][i])
        BY <2>1, <2>2 DEF OwnerInv, RowsCached
      <3> QED
        BY <2>1, <3>1 DEF CachedAt, CachedSlot, CachedNext, PageOf
    <2> QED
      BY <2>2, RowsCachedNext
  <1> QED
    BY <1>2, <1>3, <1>4 DEF OwnerInv

-----------------------------------------------------------------------------
(* Owners of slots: sync_state                                             *)

\* A longer output leaves the text up to there as it was.
LEMMA TextGrows ==
    ASSUME NEW r \in Req, NEW m \in Nat, NEW n \in Nat, m <= n, n <= Len(Output[r]),
           NEW e \in Nat, e <= Len(Text(r, m))
    PROVE  SubSeq(Text(r, n), 1, e) = SubSeq(Text(r, m), 1, e)
  <1> DEFINE s == Text(r, m)
             t == Text(r, n)
             l == Len(Prompt[r])
  <1>1. /\ Prompt[r] \in Seq(Token) /\ Output[r] \in Seq(Token) /\ l \in Nat
        /\ Len(Output[r]) \in Nat
    BY WorkloadAssumption DEF WorkloadAssumption
  <1>2. /\ s \in Seq(Token) /\ Len(s) = l + m /\ t \in Seq(Token) /\ Len(t) = l + n
    BY <1>1, TextType
  <1>3. \A k \in Nat : k <= Len(Output[r]) =>
           /\ SubSeq(Output[r], 1, k) \in Seq(Token) /\ Len(SubSeq(Output[r], 1, k)) = k
           /\ \A i \in 1..k : SubSeq(Output[r], 1, k)[i] = Output[r][i]
    BY <1>1
  <1>4. ASSUME NEW k \in Nat, k <= Len(Output[r]), NEW i \in 1..(l + k)
        PROVE  Text(r, k)[i] = IF i <= l THEN Prompt[r][i] ELSE Output[r][i - l]
    <2> DEFINE o == SubSeq(Output[r], 1, k)
    <2>1. /\ o \in Seq(Token) /\ Len(o) = k /\ \A j \in 1..k : o[j] = Output[r][j]
      BY <1>3, <1>4
    <2> HIDE DEF o
    <2>2. (Prompt[r] \o o)[i] = IF i <= l THEN Prompt[r][i] ELSE o[i - l]
      BY <1>1, <1>4, <2>1
    <2>3. i <= l \/ i - l \in 1..k
      BY <1>1, <1>4
    <2> QED
      BY <2>1, <2>2, <2>3 DEF Text, o
  <1>5. m <= Len(Output[r])
    BY <1>1
  <1>6. \A i \in 1..e : s[i] = t[i]
    <2> SUFFICES ASSUME NEW i \in 1..e PROVE s[i] = t[i]
      OBVIOUS
    <2>1. i \in 1..(l + m) /\ i \in 1..(l + n)
      BY <1>1, <1>2
    <2> QED
      BY <1>4, <1>5, <2>1
  <1> HIDE DEF s, t
  <1>7. e <= Len(s) /\ e <= Len(t)
    BY <1>1, <1>2 DEF s, t
  <1>8. SubSeq(s, 1, e) = SubSeq(t, 1, e)
    BY <1>2, <1>6, <1>7
  <1> QED
    BY <1>8 DEF s, t

\* Page p, with which the text of r ends at e, is new in the tree and holds the slots of
\* that page of its row.
NewPage(r, n, p, e) ==
    /\ e <= PageFloor(Len(Text(r, n))) /\ e <= Len(Text(r, n)) /\ p = SubSeq(Text(r, n), 1, e)
    /\ DOMAIN tree'[p] = 1..PageSize
    /\ IsInjective(row[r]) => IsInjective(tree'[p])
    /\ \A o \in 1..PageSize : \E i \in Nat \ {0} :
         /\ i \in DOMAIN row[r] /\ tree'[p][o] = row[r][i]
         /\ PageFloor(i - 1) + PageSize = e /\ ((i - 1) % PageSize) + 1 = o

\* insert adds the missing pages of the text with the slots of the row.
LEMMA InsertedPage ==
    ASSUME BackendTypeOK, NEW r \in Req, NEW n \in 0..Len(Output[r]), SyncState(r, n),
           NEW p \in DOMAIN tree' \ DOMAIN tree
    PROVE  \E e \in Nat : NewPage(r, n, p, e)
  <1> DEFINE t == Text(r, n)
             f == PageFloor(Len(t))
             key == SubSeq(t, 1, f)
             values == SubSeq(row[r], 1, f)
  <1>1. /\ t \in Seq(Token) /\ f \in Nat /\ f <= Len(t) /\ Len(t) \in Nat
        /\ PageSize \in Nat \ {0} /\ row[r] \in Seq(Nat) /\ Len(row[r]) \in Nat
        /\ Len(t) \div PageSize \in Nat
    BY TextType, PageFloorBounds, SizeAssumption DEF SizeAssumption, BackendTypeOK
  <1>2. /\ f <= Len(row[r]) /\ key = PageAligned(t)
        /\ tree' = Inserted(key, SubSeq(row[r], 1, Len(key)))
    BY <1>1 DEF SyncState, RowTooShort, PageAligned
  <1> HIDE DEF t, f
  <1>3. /\ key \in Seq(Token) /\ Len(key) = f /\ values \in Seq(Nat) /\ Len(values) = f
        /\ \A i \in 1..f : values[i] = row[r][i]
    <2>1. key \in Seq(Token) /\ Len(key) = f
      BY <1>1
    <2>2. /\ values \in Seq(Nat) /\ Len(values) = f
          /\ \A i \in 1..f : values[i] = row[r][i]
      BY <1>1, <1>2
    <2> QED
      BY <2>1, <2>2
  <1>4. /\ p \in PrefixPages(key, NumPages(key))
        /\ tree'[p] = SubSeq(values, Len(p) - PageSize + 1, Len(p))
    BY <1>2, <1>3 DEF Inserted
  <1> HIDE DEF values
  <1>5. PICK j \in 1..(f \div PageSize) : p = SubSeq(key, 1, j * PageSize)
    BY <1>3, <1>4 DEF PrefixPages, NumPages
  <1> DEFINE e == j * PageSize
             d == (j - 1) * PageSize
  <1>6. /\ f \div PageSize \in Nat /\ j - 1 \in Nat /\ d \in Nat /\ e = d + PageSize
        /\ e \in Nat /\ e <= f
    <2>1. f \div PageSize \in Nat /\ PageFloor(f) <= f
      BY <1>1, PageFloorBounds
    <2>2. j \in Nat /\ j - 1 \in Nat /\ (j - 1) + 1 = j
      BY <2>1
    <2>3. d \in Nat /\ ((j - 1) + 1) * PageSize = d + PageSize
      BY <1>1, <2>2, PagesMonotonic, PagesStep
    <2>4. e \in Nat /\ e <= PageFloor(f)
      BY <2>1, PageEnds DEF PageFloor
    <2>5. PageFloor(f) \in Nat
      BY <1>1, PageFloorBounds
    <2>6. e = d + PageSize
      BY <2>2, <2>3
    <2> HIDE DEF d, e
    <2> QED
      BY <1>1, <2>1, <2>2, <2>3, <2>4, <2>5, <2>6
  <1>7. \A o \in 1..PageSize :
           /\ PageFloor(d + (o - 1)) = d /\ (d + (o - 1)) % PageSize = o - 1
    <2> SUFFICES ASSUME NEW o \in 1..PageSize
                 PROVE  PageFloor(d + (o - 1)) = d /\ (d + (o - 1)) % PageSize = o - 1
      OBVIOUS
    <2>1. o - 1 \in 0..(PageSize - 1)
      BY <1>1
    <2> QED
      BY <1>6, <2>1, PageUnique DEF PageFloor
  <1>8. p = SubSeq(key, 1, e)
    BY <1>5
  <1> HIDE DEF d, e, key
  <1>9. Len(p) = e /\ p = SubSeq(t, 1, e)
    BY <1>1, <1>3, <1>6, <1>8 DEF key
  <1>10. tree'[p] = SubSeq(values, d + 1, e)
    <2>1. Len(p) - PageSize + 1 = d + 1
      BY <1>1, <1>6, <1>9
    <2> QED
      BY <1>4, <1>9, <2>1
  <1>11. /\ DOMAIN tree'[p] = 1..PageSize
         /\ \A o \in 1..PageSize : tree'[p][o] = row[r][d + o] /\ d + o \in DOMAIN row[r]
    <2>1. DOMAIN SubSeq(values, d + 1, e) = 1..PageSize
      BY <1>1, <1>3, <1>6
    <2>2. ASSUME NEW o \in 1..PageSize
          PROVE  SubSeq(values, d + 1, e)[o] = row[r][d + o] /\ d + o \in DOMAIN row[r]
      <3>1. ASSUME NEW u \in Nat, e <= u PROVE d + o \in 1..u
        BY <1>1, <1>6, <3>1
      <3>2. d + o \in 1..f /\ (d + 1) + o - 1 = d + o
        BY <1>1, <1>6, <3>1
      <3>3. d + o \in 1..Len(row[r])
        <4>1. e <= Len(row[r])
          BY <1>1, <1>2, <1>6, LengthsTransitive
        <4> QED
          BY <1>1, <3>1, <4>1
      <3>4. DOMAIN row[r] = 1..Len(row[r])
        BY <1>1
      <3>5. SubSeq(values, d + 1, e)[o] = values[(d + 1) + o - 1]
        BY <1>1, <1>3, <1>6
      <3> QED
        BY <1>3, <3>2, <3>3, <3>4, <3>5
    <2> QED
      BY <1>10, <2>1, <2>2
  <1>12. IsInjective(row[r]) => IsInjective(tree'[p])
    <2> SUFFICES ASSUME IsInjective(row[r]), NEW o \in 1..PageSize, NEW m \in 1..PageSize,
                        tree'[p][o] = tree'[p][m]
                 PROVE  o = m
      BY <1>11 DEF IsInjective
    <2>1. d + o = d + m
      BY <1>11 DEF IsInjective
    <2> QED
      BY <1>6, <2>1
  <1>13. ASSUME NEW o \in 1..PageSize
         PROVE  \E i \in Nat \ {0} :
                  /\ i \in DOMAIN row[r] /\ tree'[p][o] = row[r][i]
                  /\ PageFloor(i - 1) + PageSize = e /\ ((i - 1) % PageSize) + 1 = o
    <2> DEFINE i == d + o
    <2>1. i \in Nat \ {0} /\ i - 1 = d + (o - 1)
      BY <1>1, <1>6
    <2>2. tree'[p][o] = row[r][i] /\ i \in DOMAIN row[r]
      BY <1>11
    <2>3. PageFloor(d + (o - 1)) = d /\ (d + (o - 1)) % PageSize = o - 1
      BY <1>7
    <2>4. (o - 1) + 1 = o /\ d + PageSize = e
      BY <1>1, <1>6
    <2> HIDE DEF i
    <2> QED
      BY <2>1, <2>2, <2>3, <2>4
  <1>14. e <= Len(t)
    BY <1>1, <1>6, LengthsTransitive
  <1> QED
    BY <1>6, <1>9, <1>11, <1>12, <1>13, <1>14 DEF NewPage, t, f

\* sync_state puts no slot of the tree in a second page: what a row has in the tree is
\* in the pages of its text, and those are not inserted again.
LEMMA NewSlotsFresh ==
    ASSUME BackendTypeOK, RowsCached, NEW r \in Req, NEW n \in Nat, outLen[r] <= n,
           n <= Len(Output[r]), SyncState(r, n),
           NEW p \in DOMAIN tree' \ DOMAIN tree, NEW x \in Range(tree'[p])
    PROVE  x \in RowSlots(r) /\ x \notin TreeSlots
  <1> DEFINE m == outLen[r]
  <1>1. m \in Nat /\ m <= Len(Output[r]) /\ Text(r, m) \in Seq(Token)
    <2>1. m \in Nat /\ Len(Output[r]) \in Nat
      BY WorkloadAssumption DEF WorkloadAssumption, BackendTypeOK
    <2> HIDE DEF m
    <2>2. m <= n
      BY DEF m
    <2>3. m \in 0..Len(Output[r])
      BY <2>1, <2>2
    <2> QED
      BY <2>3, TextType
  <1>2. PICK e \in Nat : NewPage(r, n, p, e)
    BY InsertedPage
  <1>3. PICK o \in 1..PageSize : tree'[p][o] = x
    BY <1>2 DEF NewPage, Range
  <1>4. PICK i \in Nat \ {0} :
           /\ i \in DOMAIN row[r] /\ row[r][i] = x
           /\ PageFloor(i - 1) + PageSize = e /\ p = SubSeq(Text(r, n), 1, e)
    BY <1>2, <1>3 DEF NewPage
  <1>5. x \in RowSlots(r)
    BY <1>4 DEF RowSlots, Range
  <1>6. ASSUME x \in TreeSlots PROVE FALSE
    <2>1. CachedAt(Text(r, m), i, x)
      BY <1>4, <1>6 DEF RowsCached
    <2>2. e <= Len(Text(r, m)) /\ SubSeq(Text(r, m), 1, e) \in DOMAIN tree
      BY <1>4, <2>1 DEF CachedAt, PageWithin, PageOf
    <2>3. SubSeq(Text(r, n), 1, e) = SubSeq(Text(r, m), 1, e)
      BY <1>1, <2>2, TextGrows
    <2> QED
      BY <1>4, <2>2, <2>3
  <1> QED
    BY <1>5, <1>6

\* Two new pages have no slot in common.
LEMMA NewPagesApart ==
    ASSUME BackendTypeOK, SlotsOwnedOnce, NEW r \in Req, NEW n \in 0..Len(Output[r]),
           SyncState(r, n), NEW p \in DOMAIN tree' \ DOMAIN tree,
           NEW q \in DOMAIN tree' \ DOMAIN tree, NEW x \in Range(tree'[p]), x \in Range(tree'[q])
    PROVE  p = q
  <1>1. PICK e \in Nat : NewPage(r, n, p, e)
    BY InsertedPage
  <1>2. PICK f \in Nat : NewPage(r, n, q, f)
    BY InsertedPage
  <1>3. PICK o \in 1..PageSize : tree'[p][o] = x
    BY <1>1 DEF NewPage, Range
  <1>4. PICK m \in 1..PageSize : tree'[q][m] = x
    BY <1>2 DEF NewPage, Range
  <1>5. PICK i \in DOMAIN row[r] : row[r][i] = x /\ PageFloor(i - 1) + PageSize = e
    BY <1>1, <1>3 DEF NewPage
  <1>6. PICK k \in DOMAIN row[r] : row[r][k] = x /\ PageFloor(k - 1) + PageSize = f
    BY <1>2, <1>4 DEF NewPage
  <1>7. e = f
    BY <1>5, <1>6 DEF SlotsOwnedOnce, IsInjective
  <1> QED
    BY <1>1, <1>2, <1>7 DEF NewPage

\* sync_state changes the owner of no slot but those of the pages it inserts.
LEMMA SyncOwned ==
    ASSUME BackendTypeOK, SlotsOwnedOnce, FreshInv, RowsCached, RowsApart,
           \A q \in Req : Text(q, outLen[q]) \in Seq(Token),
           NEW r \in Req, NEW n \in Nat, outLen[r] <= n, n <= Len(Output[r]), SyncState(r, n)
    PROVE  SlotsOwnedOnce' /\ FreshInv' /\ RowsCached' /\ RowsApart'
  <1>1. /\ row' = row /\ freeList' = freeList /\ nextIdx' = nextIdx
        /\ outLen' = [outLen EXCEPT ![r] = n]
        /\ DOMAIN tree \subseteq DOMAIN tree'
        /\ \A p \in DOMAIN tree : tree'[p] = tree[p]
    BY DEF SyncState, Inserted
  <1>2. n \in 0..Len(Output[r])
    BY WorkloadAssumption DEF WorkloadAssumption
  <1>3. \A p \in DOMAIN tree' \ DOMAIN tree :
           Range(tree'[p]) \subseteq RowSlots(r) /\ Range(tree'[p]) \cap TreeSlots = {}
    BY NewSlotsFresh
  <1>4. TreeSlots \subseteq TreeSlots' /\ TreeSlots' \subseteq TreeSlots \cup RowSlots(r)
    <2>1. TreeSlots \subseteq TreeSlots'
      BY <1>1 DEF TreeSlots
    <2>2. ASSUME NEW p \in DOMAIN tree' PROVE Range(tree'[p]) \subseteq TreeSlots \cup RowSlots(r)
      BY <1>1, <1>3 DEF TreeSlots
    <2> QED
      BY <2>1, <2>2 DEF TreeSlots
  <1>5. \A q \in Req : RowSlots(q)' = RowSlots(q)
    BY <1>1 DEF RowSlots
  <1>6. SlotsOwnedOnce'
    <2>1. IsInjective(freeList') /\ \A q \in Req : IsInjective(row'[q])
      BY <1>1 DEF SlotsOwnedOnce
    <2>2. ASSUME NEW p \in DOMAIN tree' PROVE IsInjective(tree'[p])
      <3>1. CASE p \in DOMAIN tree
        BY <1>1, <3>1 DEF SlotsOwnedOnce
      <3>2. CASE p \notin DOMAIN tree
        <4>1. PICK e \in Nat : NewPage(r, n, p, e)
          BY <1>2, <3>2, InsertedPage
        <4> QED
          BY <4>1 DEF NewPage, SlotsOwnedOnce
      <3> QED
        BY <3>1, <3>2
    <2>3. ASSUME NEW p \in DOMAIN tree', NEW q \in DOMAIN tree', NEW x \in Range(tree'[p]),
                 x \in Range(tree'[q])
          PROVE  p = q
      <3>1. CASE p \in DOMAIN tree /\ q \in DOMAIN tree
        BY <1>1, <2>3, <3>1 DEF SlotsOwnedOnce
      <3>2. CASE p \in DOMAIN tree /\ q \notin DOMAIN tree
        BY <1>1, <1>3, <2>3, <3>2 DEF TreeSlots
      <3>3. CASE p \notin DOMAIN tree /\ q \in DOMAIN tree
        BY <1>1, <1>3, <2>3, <3>3 DEF TreeSlots
      <3>4. CASE p \notin DOMAIN tree /\ q \notin DOMAIN tree
        BY <1>2, <2>3, <3>4, NewPagesApart
      <3> QED
        BY <3>1, <3>2, <3>3, <3>4
    <2>4. \A p, q \in DOMAIN tree' : p # q => Range(tree'[p]) \cap Range(tree'[q]) = {}
      BY <2>3
    <2>5. Range(freeList') \cap (TreeSlots' \cup UNION {RowSlots(q)' : q \in Req}) = {}
      BY <1>1, <1>4, <1>5 DEF SlotsOwnedOnce
    <2> QED
      BY <2>1, <2>2, <2>4, <2>5 DEF SlotsOwnedOnce
  <1>7. FreshInv'
    BY <1>1, <1>4, <1>5 DEF FreshInv
  <1>8. RowsApart'
    BY <1>4, <1>5 DEF RowsApart
  <1>9. RowsCached'
    <2> SUFFICES ASSUME NEW q \in Req, NEW i \in DOMAIN row'[q], row'[q][i] \in TreeSlots'
                 PROVE  CachedNext(Text(q, outLen'[q]), i, row'[q][i])
      BY RowsCachedNext
    <2> DEFINE x == row[q][i]
    <2>1. i \in DOMAIN row[q] /\ row'[q][i] = x /\ x \in TreeSlots' /\ i \in Nat \ {0}
      <3>1. row[q] \in Seq(Nat) /\ DOMAIN row[q] = 1..Len(row[q]) /\ Len(row[q]) \in Nat
        BY DEF BackendTypeOK
      <3>2. i \in 1..Len(row[q])
        BY <1>1, <3>1
      <3>3. i \in Nat \ {0}
        BY <3>1, <3>2
      <3> QED
        BY <1>1, <3>3
    <2>2. x \in RowSlots(q)
      BY <2>1 DEF RowSlots, Range
    <2> HIDE DEF x
    <2>3. CASE x \in TreeSlots
      <3> DEFINE m == outLen[q]
                 e == PageFloor(i - 1) + PageSize
      <3>1. CachedAt(Text(q, m), i, x)
        BY <2>1, <2>3 DEF RowsCached, x
      <3>2. /\ e <= Len(Text(q, m)) /\ SubSeq(Text(q, m), 1, e) \in DOMAIN tree
            /\ x = tree[SubSeq(Text(q, m), 1, e)][((i - 1) % PageSize) + 1]
        BY <3>1 DEF CachedAt, CachedSlot, PageOf, PageWithin
      <3>3. e \in Nat /\ m \in Nat
        <4>1. PageFloor(i - 1) \in Nat /\ PageSize \in Nat
          BY <2>1, PageAround
        <4>2. m \in Nat
          BY DEF BackendTypeOK
        <4> QED
          BY <4>1, <4>2
      <3> HIDE DEF e
      <3>4. /\ e <= Len(Text(q, outLen'[q]))
            /\ SubSeq(Text(q, outLen'[q]), 1, e) = SubSeq(Text(q, m), 1, e)
        <4>1. CASE q = r
          <5>1. outLen'[q] = n /\ m <= n /\ n <= Len(Output[q])
            BY <1>1, <4>1 DEF BackendTypeOK
          <5>2. SubSeq(Text(q, n), 1, e) = SubSeq(Text(q, m), 1, e)
            BY <3>2, <3>3, <5>1, TextGrows
          <5>3. /\ Len(Text(q, m)) <= Len(Text(q, n))
                /\ Len(Text(q, n)) \in Nat /\ Len(Text(q, m)) \in Nat
            <6>1. Len(Output[q]) \in Nat
              BY WorkloadAssumption DEF WorkloadAssumption
            <6>2. m \in 0..Len(Output[q]) /\ n \in 0..Len(Output[q])
              BY <3>3, <5>1, <6>1
            <6>3. /\ Len(Text(q, m)) = Len(Prompt[q]) + m /\ Len(Text(q, n)) = Len(Prompt[q]) + n
                  /\ Len(Prompt[q]) \in Nat
              BY <6>2, TextType
            <6> QED
              BY <3>3, <5>1, <6>3
          <5>4. e <= Len(Text(q, n))
            BY <3>2, <3>3, <5>3, LengthsTransitive
          <5> QED
            BY <5>1, <5>2, <5>4
        <4>2. CASE q # r
          <5>1. outLen'[q] = m
            BY <1>1, <4>2 DEF BackendTypeOK
          <5> QED
            BY <3>2, <5>1
        <4> QED
          BY <4>1, <4>2
      <3> QED
        BY <1>1, <2>1, <3>2, <3>4 DEF CachedNext, PageOf, PageWithin, e
    <2>4. CASE x \notin TreeSlots
      <3>1. PICK p \in DOMAIN tree' : x \in Range(tree'[p])
        BY <2>1 DEF TreeSlots
      <3>2. p \notin DOMAIN tree
        BY <1>1, <2>4, <3>1 DEF TreeSlots
      <3>3. q = r
        BY <1>3, <2>2, <2>4, <3>1, <3>2 DEF RowsApart
      <3>4. PICK e \in Nat : NewPage(r, n, p, e)
        BY <1>2, <3>2, InsertedPage
      <3>5. PICK o \in 1..PageSize : tree'[p][o] = x
        BY <3>1, <3>4 DEF NewPage, Range
      <3>6. PICK k \in DOMAIN row[r] :
               /\ tree'[p][o] = row[r][k]
               /\ PageFloor(k - 1) + PageSize = e /\ ((k - 1) % PageSize) + 1 = o
        BY <3>4 DEF NewPage
      <3>7. k = i
        BY <2>1, <3>3, <3>5, <3>6 DEF SlotsOwnedOnce, IsInjective, x
      <3>8. outLen'[q] = n
        BY <1>1, <3>3 DEF BackendTypeOK
      <3>9. e <= Len(Text(r, n)) /\ p = SubSeq(Text(r, n), 1, e)
        BY <3>4 DEF NewPage
      <3> QED
        BY <2>1, <3>1, <3>3, <3>5, <3>6, <3>7, <3>8, <3>9 DEF CachedNext, PageOf, PageWithin
    <2> QED
      BY <2>3, <2>4
  <1> QED
    BY <1>6, <1>7, <1>8, <1>9

-----------------------------------------------------------------------------
(* Owners of slots: free_rejected_slots and free                           *)

\* The end of a row goes back to the allocator: what is freed is not in the tree.
LEMMA TailOwned ==
    ASSUME BackendTypeOK, SlotsOwnedOnce, FreshInv, RowsCached, RowsApart,
           NEW r \in Req, NEW k \in 0..Len(row[r]), NEW j \in 0..k,
           \A i \in (k + 1)..Len(row[r]) : row[r][i] \notin TreeSlots,
           freeList' = freeList \o SubSeq(row[r], k + 1, Len(row[r])),
           row' = [row EXCEPT ![r] = SubSeq(@, 1, j)],
           tree' = tree, outLen' = outLen, nextIdx' = nextIdx
    PROVE  SlotsOwnedOnce' /\ FreshInv' /\ RowsCached' /\ RowsApart'
  <1> DEFINE l == Len(row[r])
             tail == SubSeq(row[r], k + 1, l)
             head == SubSeq(row[r], 1, j)
             F == Range(freeList)
             U == Range(tail)
  <1>1. /\ row[r] \in Seq(Nat) /\ l \in Nat /\ DOMAIN row[r] = 1..l /\ k \in Nat /\ j \in Nat
        /\ j <= k /\ k <= l /\ k + 1 \in Nat \ {0} /\ IsInjective(row[r])
        /\ freeList \in Seq(Nat) /\ IsInjective(freeList) /\ j <= l
    BY DEF BackendTypeOK, SlotsOwnedOnce
  <1>2. /\ tail \in Seq(Nat) /\ IsInjective(tail) /\ U = {row[r][i] : i \in (k + 1)..l}
    <2> HIDE DEF l
    <2>1. l <= Len(row[r])
      BY <1>1 DEF l
    <2> QED
      BY <1>1, <2>1, PartApart
  <1>3. /\ head \in Seq(Nat) /\ IsInjective(head) /\ Range(head) = {row[r][i] : i \in 1..j}
    <2> HIDE DEF l
    <2>1. j <= Len(row[r]) /\ 1 \in Nat \ {0}
      BY <1>1 DEF l
    <2> QED
      BY <1>1, <2>1, PartApart
  <1>4. DOMAIN head = 1..j /\ \A i \in 1..j : head[i] = row[r][i]
    BY <1>1
  <1>5. /\ (k + 1)..l \subseteq 1..l /\ 1..j \subseteq 1..l
        /\ \A i \in (k + 1)..l, m \in 1..j : i # m
    BY <1>1
  <1>6. /\ row'[r] = head /\ freeList' = freeList \o tail
        /\ \A q \in Req \ {r} : row'[q] = row[q] /\ RowSlots(q)' = RowSlots(q)
        /\ TreeSlots' = TreeSlots
    BY DEF BackendTypeOK, RowSlots, TreeSlots
  <1>7. U \subseteq RowSlots(r) /\ U \cap Range(head) = {} /\ Range(head) \subseteq RowSlots(r)
    <2>1. U \subseteq RowSlots(r) /\ Range(head) \subseteq RowSlots(r)
      BY <1>1, <1>2, <1>3, <1>5 DEF RowSlots, Range
    <2>2. \A i \in (k + 1)..l, m \in 1..j : row[r][i] # row[r][m]
      BY <1>1, <1>5 DEF IsInjective
    <2> QED
      BY <1>2, <1>3, <2>1, <2>2
  <1>8. U \cap TreeSlots = {}
    BY <1>2
  <1> HIDE DEF tail, head, l, U
  <1>9. F \cap U = {}
    BY <1>7 DEF SlotsOwnedOnce
  <1>10. IsInjective(freeList') /\ Range(freeList') = F \cup U
    BY <1>1, <1>2, <1>6, <1>9, JoinedApart DEF U
  <1>11. \A q \in Req \ {r} : U \cap RowSlots(q) = {}
    BY <1>7, <1>8 DEF RowsApart
  <1>12. RowSlots(r)' = Range(head)
    BY <1>6 DEF RowSlots
  <1>13. SlotsOwnedOnce'
    <2>1. \A q \in Req : IsInjective(row'[q])
      BY <1>3, <1>6 DEF SlotsOwnedOnce
    <2>2. \A q \in Req : Range(freeList') \cap RowSlots(q)' = {}
      BY <1>6, <1>7, <1>10, <1>11, <1>12 DEF SlotsOwnedOnce
    <2>3. Range(freeList') \cap TreeSlots' = {}
      BY <1>6, <1>8, <1>10 DEF SlotsOwnedOnce
    <2>4. Range(freeList') \cap (TreeSlots' \cup UNION {RowSlots(q)' : q \in Req}) = {}
      BY <2>2, <2>3
    <2> QED
      BY <1>10, <2>1, <2>4 DEF SlotsOwnedOnce
  <1>14. FreshInv'
    BY <1>6, <1>7, <1>10, <1>12 DEF FreshInv
  <1>15. RowsApart'
    BY <1>6, <1>7, <1>12 DEF RowsApart
  <1>16. RowsCached'
    <2> SUFFICES ASSUME NEW q \in Req, NEW i \in DOMAIN row'[q], row'[q][i] \in TreeSlots'
                 PROVE  CachedNext(Text(q, outLen'[q]), i, row'[q][i])
      BY RowsCachedNext
    <2>1. i \in DOMAIN row[q] /\ row'[q][i] = row[q][i]
      BY <1>1, <1>4, <1>5, <1>6
    <2>2. CachedAt(Text(q, outLen[q]), i, row[q][i])
      BY <1>6, <2>1 DEF RowsCached
    <2> QED
      BY <2>1, <2>2 DEF CachedNext, CachedAt, CachedSlot, PageOf
  <1> QED
    BY <1>13, <1>14, <1>15, <1>16

\* A slot of a row behind the whole pages of its text is not in the tree.
LEMMA BehindPages ==
    ASSUME IndInv, OwnerInv, NEW r \in Req, NEW i \in DOMAIN row[r],
           PageFloor(Len(Text(r, outLen[r]))) < i
    PROVE  row[r][i] \notin TreeSlots
  <1> DEFINE t == Text(r, outLen[r])
  <1>1. i \in Nat \ {0} /\ Len(t) \in Nat
    <2>1. row[r] \in Seq(Nat) /\ DOMAIN row[r] = 1..Len(row[r]) /\ Len(row[r]) \in Nat
      BY DEF IndInv, TypeOK, BackendTypeOK
    <2>2. t \in Seq(Token)
      BY TextsTyped
    <2> HIDE DEF t
    <2> QED
      BY <2>1, <2>2
  <1>2. ASSUME row[r][i] \in TreeSlots PROVE FALSE
    <2>1. PageFloor(i - 1) + PageSize <= Len(t)
      BY <1>2 DEF OwnerInv, RowsCached, CachedAt, PageWithin
    <2> HIDE DEF t
    <2>2. PageFloor(i - 1) + PageSize <= PageFloor(Len(t))
      BY <1>1, <2>1, PageBelow
    <2>3. i <= PageFloor(i - 1) + PageSize /\ PageFloor(i - 1) \in Nat /\ PageSize \in Nat
      BY <1>1, PageAround
    <2>4. PageFloor(Len(t)) \in Nat /\ PageFloor(Len(t)) < i
      BY <1>1, PageFloorBounds DEF t
    <2> QED
      BY <1>1, <2>2, <2>3, <2>4
  <1> QED
    BY <1>2

\* The rejected slots leave the row before they return to the free list.
LEMMA DecodeRollbackOwned ==
    ASSUME IndInv, IndInv', OwnerInv, LockInv', DecodeRollback
    PROVE  OwnerInv'
  <1>1. /\ at = "decode_rollback" /\ cur \in Req /\ status[cur] = "decoding"
        /\ status' = status /\ cur' = cur
    BY DEF DecodeRollback, IndInv, ControlInv
  <1>2. PICK a \in 0..drafts :
           IF RejectedTailMissing(cur, drafts - a)
           THEN at' = "raised_tail" /\ UNCHANGED backendVars
           ELSE FreeRejectedSlots(cur, drafts - a) /\ at' = "decode_sync"
    BY DEF DecodeRollback
  <1>3. drafts \in Nat /\ drafts - a \in Nat /\ drafts - a <= drafts
    <2>1. drafts \in Nat
      BY HandlerAssumption DEF IndInv, TypeOK, HandlerTypeOK, HandlerAssumption
    <2> QED
      BY <2>1
  <1> DEFINE m == drafts - a
  <1>4. FreeRejectedSlots(cur, m) /\ at' = "decode_sync"
    BY <1>2 DEF IndInv, ControlInv, ContractsKept
  <1> HIDE DEF m
  <1>5. /\ BackendTypeOK /\ SlotsOwnedOnce /\ FreshInv /\ RowsCached /\ RowsApart /\ LockInv
        /\ tree' = tree /\ outLen' = outLen /\ nextIdx' = nextIdx /\ lastNode' = lastNode
        /\ \A q \in Req \ {cur} : row'[q] = row[q]
    BY <1>4 DEF IndInv, TypeOK, OwnerInv, BackendTypeOK, FreeRejectedSlots, backendVars, poolVars,
                handleVars
  <1>6. MatchCached'
    BY <1>4 DEF MatchCached
  <1>7. CASE m <= 0
    <2>1. row' = row /\ freeList' = freeList
      BY <1>4, <1>7 DEF FreeRejectedSlots, backendVars, poolVars, handleVars
    <2>2. SlotsOwnedOnce' /\ FreshInv' /\ RowsApart'
      BY <1>5, <2>1 DEF SlotsOwnedOnce, FreshInv, RowsApart, RowSlots, TreeSlots
    <2>3. RowsCached'
      <3> SUFFICES ASSUME NEW q \in Req, NEW i \in DOMAIN row'[q], row'[q][i] \in TreeSlots'
                   PROVE  CachedNext(Text(q, outLen'[q]), i, row'[q][i])
        BY RowsCachedNext
      <3>1. CachedAt(Text(q, outLen[q]), i, row[q][i])
        BY <1>5, <2>1 DEF RowsCached, TreeSlots
      <3> QED
        BY <1>5, <2>1, <3>1 DEF CachedNext, CachedAt, CachedSlot, PageOf
    <2> QED
      BY <1>6, <2>2, <2>3 DEF OwnerInv
  <1>8. CASE ~(m <= 0)
    <2> DEFINE l == Len(row[cur])
               k == l - m
    <2>1. /\ freeList' = freeList \o SubSeq(row[cur], l - m + 1, l)
          /\ row' = [row EXCEPT ![cur] = SubSeq(@, 1, Len(@) - m)]
      BY <1>4, <1>8 DEF FreeRejectedSlots, FreeFlat
    <2>2. /\ l \in Nat /\ outLen[cur] \in Nat /\ Len(Prompt[cur]) \in Nat
          /\ DOMAIN row[cur] = 1..l
          /\ Len(Prompt[cur]) + outLen[cur] + (1 + drafts) <= l
          /\ Len(Text(cur, outLen[cur])) = Len(Prompt[cur]) + outLen[cur]
      <3>1. Ahead(cur) = 1 + drafts
        BY <1>1 DEF Ahead
      <3>2. Len(Prompt[cur]) + outLen[cur] + Ahead(cur) <= Len(row[cur])
        BY <1>1 DEF IndInv, RowInv
      <3>3. row[cur] \in Seq(Nat) /\ outLen[cur] \in Nat /\ Prompt[cur] \in Seq(Token)
        BY <1>1, <1>5, WorkloadAssumption DEF WorkloadAssumption, BackendTypeOK
      <3>4. Len(row[cur]) \in Nat /\ DOMAIN row[cur] = 1..Len(row[cur]) /\ Len(Prompt[cur]) \in Nat
        BY <3>3
      <3> QED
        BY <1>1, <3>1, <3>2, <3>3, <3>4, TextsTyped
    <2> HIDE DEF l
    <2>3. /\ m \in Nat /\ k \in Nat /\ k <= l /\ l - m + 1 = k + 1
          /\ Len(Prompt[cur]) + outLen[cur] <= k
      BY <1>3, <2>2 DEF m
    <2>4. \A i \in (k + 1)..l : row[cur][i] \notin TreeSlots
      <3> SUFFICES ASSUME NEW i \in (k + 1)..l PROVE row[cur][i] \notin TreeSlots
        OBVIOUS
      <3>1. i \in DOMAIN row[cur]
        BY <2>2, <2>3
      <3>2. PageFloor(Len(Text(cur, outLen[cur]))) < i
        <4> DEFINE c == Len(Prompt[cur]) + outLen[cur]
        <4>1. c \in Nat /\ c <= k /\ Len(Text(cur, outLen[cur])) = c
          BY <2>2, <2>3
        <4> HIDE DEF c
        <4>2. PageFloor(c) \in Nat /\ PageFloor(c) <= c
          BY <4>1, PageFloorBounds
        <4> QED
          BY <2>2, <2>3, <4>1, <4>2
      <3> QED
        BY <1>1, <3>1, <3>2, BehindPages
    <2>5. /\ row' = [row EXCEPT ![cur] = SubSeq(@, 1, k)] /\ k \in 0..Len(row[cur]) /\ k \in 0..k
          /\ freeList' = freeList \o SubSeq(row[cur], k + 1, Len(row[cur]))
          /\ \A i \in (k + 1)..Len(row[cur]) : row[cur][i] \notin TreeSlots
      <3>1. k \in 0..l /\ k \in 0..k
        BY <2>2, <2>3
      <3> QED
        BY <1>5, <2>1, <2>3, <2>4, <3>1 DEF l, BackendTypeOK
    <2> HIDE DEF k
    <2>6. SlotsOwnedOnce' /\ FreshInv' /\ RowsCached' /\ RowsApart'
      BY <1>1, <1>5, <2>5, TailOwned
    <2> QED
      BY <1>6, <2>6 DEF OwnerInv
  <1> QED
    BY <1>7, <1>8

\* A freed request returns its unfinished page, and its whole pages stay in the tree.
LEMMA CleanupOwned ==
    ASSUME IndInv, OwnerInv, LockInv', NEW r \in Req, Cleanup(r)
    PROVE  OwnerInv'
  <1>1. Free(r) /\ at' = "idle" /\ status' = [status EXCEPT ![r] = "freed"]
    BY DEF Cleanup
  <1> DEFINE f == PageFloor(Len(Text(r, outLen[r])))
             l == Len(row[r])
             k == IF l > f THEN f ELSE l
  <1>2. /\ BackendTypeOK /\ SlotsOwnedOnce /\ FreshInv /\ RowsCached /\ RowsApart /\ LockInv
        /\ status \in [Req -> {"prefill", "decoding", "finished", "freed"}]
    BY DEF IndInv, TypeOK, HandlerTypeOK, OwnerInv
  <1>3. /\ row[r] \in Seq(Nat) /\ l \in Nat /\ DOMAIN row[r] = 1..l /\ f \in Nat
        /\ freeList \in Seq(Nat) /\ SubSeq(row[r], 1, 0) = <<>>
    <2>1. row[r] \in Seq(Nat) /\ freeList \in Seq(Nat)
      BY <1>2 DEF BackendTypeOK
    <2>2. Text(r, outLen[r]) \in Seq(Token)
      BY TextsTyped
    <2>3. Len(Text(r, outLen[r])) \in Nat
      BY <2>2
    <2>4. f \in Nat
      BY <2>3, PageFloorBounds
    <2> QED
      BY <2>1, <2>4
  <1>4. /\ tree' = tree /\ outLen' = outLen /\ nextIdx' = nextIdx
        /\ lastNode' = [lastNode EXCEPT ![r] = <<>>] /\ row' = [row EXCEPT ![r] = <<>>]
        /\ l > f => freeList' = freeList \o SubSeq(row[r], f + 1, l)
        /\ ~(l > f) => freeList' = freeList
    BY <1>1 DEF Free, FreeFlat
  <1> HIDE DEF f, l
  <1>5. /\ k \in Nat /\ k \in 0..l /\ 0 \in 0..k
        /\ \A i \in (k + 1)..l : i \in 1..l /\ f < i
    BY <1>3
  <1>6. freeList' = freeList \o SubSeq(row[r], k + 1, l)
    <2>1. CASE l > f
      BY <1>4, <2>1
    <2>2. CASE ~(l > f)
      <3>1. k = l /\ SubSeq(row[r], l + 1, l) = <<>> /\ freeList \o <<>> = freeList
        BY <1>3, <2>2
      <3> QED
        BY <1>4, <2>2, <3>1
    <2> QED
      BY <2>1, <2>2
  <1>7. \A i \in (k + 1)..l : row[r][i] \notin TreeSlots
    BY <1>3, <1>5, BehindPages DEF f
  <1>8. row' = [row EXCEPT ![r] = SubSeq(@, 1, 0)]
    BY <1>2, <1>3, <1>4 DEF BackendTypeOK
  <1> HIDE DEF k
  <1>9. SlotsOwnedOnce' /\ FreshInv' /\ RowsCached' /\ RowsApart'
    BY <1>2, <1>4, <1>5, <1>6, <1>7, <1>8, TailOwned DEF l
  <1>10. MatchCached'
    BY <1>1 DEF MatchCached
  <1> QED
    BY <1>9, <1>10 DEF OwnerInv

\* The pages of the prompt change from slots of the request to slots of the tree.
LEMMA PrefillSyncOwned ==
    ASSUME IndInv, IndInv', OwnerInv, LockInv', PrefillSync
    PROVE  OwnerInv'
  <1>1. cur \in Req /\ at' \in {"raised_assert", "idle"} /\ outLen[cur] = 0
    BY DEF PrefillSync, IndInv, ControlInv, RowInv
  <1>2. SyncState(cur, 0)
    BY DEF PrefillSync, IndInv, ControlInv, ContractsKept
  <1>3. 0 \in Nat /\ outLen[cur] <= 0 /\ 0 <= Len(Output[cur])
    <2>1. Len(Output[cur]) \in Nat
      BY <1>1, WorkloadAssumption DEF WorkloadAssumption
    <2> QED
      BY <1>1, <2>1
  <1>4. SlotsOwnedOnce' /\ FreshInv' /\ RowsCached' /\ RowsApart'
    BY <1>1, <1>2, <1>3, SyncOwned, TextsTyped DEF OwnerInv, IndInv, TypeOK
  <1>5. MatchCached'
    BY <1>1 DEF MatchCached
  <1> QED
    BY <1>4, <1>5 DEF OwnerInv

\* The output that a decode step ends with is at least as long as before, and not longer
\* than the ground truth.
LEMMA DecodeSyncText ==
    ASSUME IndInv, IndInv', DecodeSync
    PROVE  LET n == outLen[cur] + Bonus(cur) + accepted
           IN /\ cur \in Req /\ SyncState(cur, n) /\ n \in Nat
              /\ outLen[cur] <= n /\ n <= Len(Output[cur])
  <1> DEFINE n == outLen[cur] + Bonus(cur) + accepted
  <1>1. cur \in Req
    BY DEF DecodeSync, IndInv, ControlInv
  <1>2. SyncState(cur, n)
    BY DEF DecodeSync, IndInv, ControlInv, ContractsKept
  <1>3. outLen[cur] \in Nat /\ accepted \in Nat
    BY <1>1, HandlerAssumption DEF IndInv, TypeOK, BackendTypeOK, HandlerTypeOK, HandlerAssumption
  <1>4. Bonus(cur) \in {0, 1}
    BY DEF Bonus
  <1>5. n \in Nat /\ outLen[cur] <= n
    BY <1>3, <1>4
  <1> HIDE DEF n
  <1>6. outLen'[cur] = n
    BY <1>1, <1>2 DEF SyncState, IndInv, TypeOK, BackendTypeOK
  <1>7. n <= Len(Output[cur])
    BY <1>1, <1>6 DEF IndInv, RowInv
  <1> QED
    BY <1>1, <1>2, <1>5, <1>7 DEF n

\* So do the pages that the accepted tokens complete.
LEMMA DecodeSyncOwned ==
    ASSUME IndInv, IndInv', OwnerInv, LockInv', DecodeSync
    PROVE  OwnerInv'
  <1> DEFINE n == outLen[cur] + Bonus(cur) + accepted
  <1>1. /\ cur \in Req /\ SyncState(cur, n) /\ n \in Nat
        /\ outLen[cur] <= n /\ n <= Len(Output[cur])
    BY DecodeSyncText
  <1> HIDE DEF n
  <1>2. SlotsOwnedOnce' /\ FreshInv' /\ RowsCached' /\ RowsApart'
    BY <1>1, SyncOwned, TextsTyped DEF OwnerInv, IndInv, TypeOK
  <1>3. MatchCached'
    BY DEF DecodeSync, MatchCached
  <1> QED
    BY <1>2, <1>3 DEF OwnerInv

\* The lock of a served request follows its text, and free clears the row.
LEMMA LockStep ==
    ASSUME IndInv, IndInv', LockInv, [Next]_vars
    PROVE  LockInv'
  <1> SUFFICES ASSUME NEW q \in Req
               PROVE  /\ status'[q] \in {"decoding", "finished"} =>
                           lastNode'[q] = PageAligned(Text(q, outLen'[q]))
                      /\ status'[q] = "freed" => row'[q] = <<>>
    BY DEF LockInv, PageAligned, PageFloor, Text
  <1>1. /\ status \in [Req -> {"prefill", "decoding", "finished", "freed"}]
        /\ lastNode \in [Req -> Seq(Token)] /\ outLen \in [Req -> Nat]
        /\ row \in [Req -> Seq(Nat)]
    BY DEF IndInv, TypeOK, BackendTypeOK, HandlerTypeOK
  <1>2. ASSUME status' = status, lastNode' = lastNode, outLen' = outLen,
               status[q] = "freed" => row'[q] = row[q]
        PROVE  /\ status'[q] \in {"decoding", "finished"} =>
                    lastNode'[q] = PageAligned(Text(q, outLen'[q]))
               /\ status'[q] = "freed" => row'[q] = <<>>
    BY <1>2 DEF LockInv
  <1>3. ASSUME NEW r \in Req, NEW n, SyncState(r, n), status[r] # "freed", status'[r] # "freed",
               \A p \in Req \ {r} : status'[p] = status[p]
        PROVE  /\ status'[q] \in {"decoding", "finished"} =>
                    lastNode'[q] = PageAligned(Text(q, outLen'[q]))
               /\ status'[q] = "freed" => row'[q] = <<>>
    BY <1>1, <1>3 DEF SyncState, LockInv
  <1>4. CASE UNCHANGED vars
    BY <1>2, <1>4 DEF vars, handlerVars, backendVars, handleVars
  <1>5. ASSUME NEW r \in Req, PrefillMatch(r)
        PROVE  /\ status' = status /\ lastNode' = lastNode /\ outLen' = outLen /\ row' = row
    BY <1>5 DEF PrefillMatch, backendVars, handleVars
  <1>6. ASSUME PrefillAllocate
        PROVE  /\ status' = status /\ lastNode' = lastNode /\ outLen' = outLen
               /\ status[q] = "freed" => row'[q] = row[q]
    <2>1. cur \in Req /\ status[cur] = "prefill" /\ status' = status
      BY <1>6 DEF PrefillAllocate, IndInv, ControlInv
    <2>2. lastNode' = lastNode /\ outLen' = outLen /\ (q # cur => row'[q] = row[q])
      BY <1>1, <1>6, <2>1 DEF PrefillAllocate, AllocateNothing, AllocateSucceeds, AllocateFails
    <2> QED
      BY <2>1, <2>2
  <1>7. ASSUME NEW r \in Req, DecodeAllocate(r)
        PROVE  /\ status' = status /\ lastNode' = lastNode /\ outLen' = outLen
               /\ status[q] = "freed" => row'[q] = row[q]
    <2>1. status[r] = "decoding" /\ status' = status
      BY <1>7 DEF DecodeAllocate
    <2>2. lastNode' = lastNode /\ outLen' = outLen /\ (q # r => row'[q] = row[q])
      BY <1>1, <1>7 DEF DecodeAllocate, AllocateSucceeds, AllocateFails
    <2> QED
      BY <2>1, <2>2
  <1>8. ASSUME DecodeRollback
        PROVE  /\ status' = status /\ lastNode' = lastNode /\ outLen' = outLen
               /\ status[q] = "freed" => row'[q] = row[q]
    <2>1. cur \in Req /\ status[cur] = "decoding" /\ status' = status
      BY <1>8 DEF DecodeRollback, IndInv, ControlInv
    <2>2. lastNode' = lastNode /\ outLen' = outLen /\ (q # cur => row'[q] = row[q])
      BY <1>1, <1>8, <2>1 DEF DecodeRollback, FreeRejectedSlots, backendVars, handleVars
    <2> QED
      BY <2>1, <2>2
  <1>9. CASE PrefillSync
    <2>1. cur \in Req /\ status[cur] = "prefill" /\ SyncState(cur, 0)
      BY <1>9 DEF PrefillSync, IndInv, ControlInv, ContractsKept
    <2>2. status' = [status EXCEPT ![cur] = "decoding"]
      BY <1>9 DEF PrefillSync, IndInv, ControlInv, ContractsKept
    <2> QED
      BY <1>1, <1>3, <2>1, <2>2
  <1>10. CASE DecodeSync
    <2>1. cur \in Req /\ status[cur] = "decoding"
      BY <1>10 DEF DecodeSync, IndInv, ControlInv
    <2>2. /\ status'[cur] # "freed" /\ \A p \in Req \ {cur} : status'[p] = status[p]
      BY <1>1, <1>10, <2>1 DEF DecodeSync, IndInv, ControlInv, ContractsKept
    <2> QED
      BY <1>3, <1>10, <2>1, <2>2, DecodeSyncText
  <1>11. ASSUME NEW r \in Req, Cleanup(r)
         PROVE  /\ status'[q] \in {"decoding", "finished"} =>
                     lastNode'[q] = PageAligned(Text(q, outLen'[q]))
                /\ status'[q] = "freed" => row'[q] = <<>>
    <2>1. /\ status' = [status EXCEPT ![r] = "freed"] /\ row' = [row EXCEPT ![r] = <<>>]
          /\ lastNode' = [lastNode EXCEPT ![r] = <<>>] /\ outLen' = outLen
      BY <1>11 DEF Cleanup, Free
    <2>2. CASE q = r
      BY <1>1, <2>1, <2>2
    <2>3. CASE q # r
      BY <1>1, <2>1, <2>3 DEF LockInv
    <2> QED
      BY <2>2, <2>3
  <1> QED
    BY <1>2, <1>4, <1>5, <1>6, <1>7, <1>8, <1>9, <1>10, <1>11 DEF Next

\* No step disturbs the owners, as long as no match is reclaimed.
LEMMA OwnerStep ==
    ASSUME IndInv, IndInv', OwnerInv, [Next]_vars, [GoneSlots \cap Range(blocks) = {}]_vars
    PROVE  OwnerInv'
  <1>1. LockInv'
    BY LockStep DEF OwnerInv
  <1>2. CASE UNCHANGED vars
    <2>1. /\ row' = row /\ freeList' = freeList /\ nextIdx' = nextIdx /\ tree' = tree
          /\ outLen' = outLen /\ at' = at /\ cur' = cur /\ blocks' = blocks
      BY <1>2 DEF vars, handlerVars, backendVars, handleVars, poolVars
    <2>2. SlotsOwnedOnce' /\ FreshInv' /\ RowsApart'
      BY <2>1 DEF OwnerInv, SlotsOwnedOnce, FreshInv, RowsApart, RowSlots, TreeSlots
    <2>3. MatchCached'
      BY <2>1 DEF OwnerInv, MatchCached, CachedAt, CachedSlot, PageOf, PageWithin
    <2>4. RowsCached'
      <3> SUFFICES ASSUME NEW q \in Req, NEW i \in DOMAIN row'[q], row'[q][i] \in TreeSlots'
                   PROVE  CachedNext(Text(q, outLen'[q]), i, row'[q][i])
        BY RowsCachedNext
      <3>1. CachedAt(Text(q, outLen[q]), i, row[q][i])
        BY <2>1 DEF OwnerInv, RowsCached, TreeSlots
      <3> QED
        BY <2>1, <3>1 DEF CachedNext, CachedAt, CachedSlot, PageOf
    <2> QED
      BY <1>1, <2>2, <2>3, <2>4 DEF OwnerInv
  <1>3. CASE Next /\ GoneSlots \cap Range(blocks) = {}
    BY <1>1, <1>3, PrefillMatchOwned, PrefillAllocateOwned, PrefillSyncOwned, DecodeAllocateOwned,
       DecodeRollbackOwned, DecodeSyncOwned, CleanupOwned DEF Next
  <1> QED
    BY <1>2, <1>3

\* At the start no slot is in use.
LEMMA OwnerInit == Init => OwnerInv
  <1> SUFFICES ASSUME Init PROVE OwnerInv
    OBVIOUS
  <1>1. /\ nextIdx = 0 /\ freeList = <<>> /\ tree = <<>> /\ row = [q \in Req |-> <<>>]
        /\ status = [q \in Req |-> "prefill"] /\ at = "idle"
    BY DEF Init, BackendInit
  <1>2. DOMAIN tree = {} /\ TreeSlots = {}
    BY <1>1 DEF TreeSlots
  <1>3. Range(freeList) = {} /\ IsInjective(freeList)
    BY <1>1 DEF Range, IsInjective
  <1>4. \A q \in Req : RowSlots(q) = {} /\ IsInjective(row[q]) /\ DOMAIN row[q] = {}
    BY <1>1 DEF RowSlots, Range, IsInjective
  <1>5. SlotsOwnedOnce
    BY <1>2, <1>3, <1>4 DEF SlotsOwnedOnce
  <1>6. LockInv /\ FreshInv /\ RowsCached /\ MatchCached /\ RowsApart
    BY <1>1, <1>2, <1>3, <1>4 DEF LockInv, FreshInv, RowsCached, MatchCached, RowsApart
  <1> QED
    BY <1>5, <1>6 DEF OwnerInv

\* The invariant of the owners, for runs in which no match is reclaimed.
LEMMA OwnersKept == Spec /\ MatchSurvives => [](IndInv /\ OwnerInv)
  <1>1. Init => OwnerInv
    BY OwnerInit
  <1>2. IndInv /\ IndInv' /\ OwnerInv /\ [Next]_vars /\ [GoneSlots \cap Range(blocks) = {}]_vars
           => OwnerInv'
    BY OwnerStep
  <1> QED
    BY <1>1, <1>2, Inductive, PTL DEF Spec, MatchSurvives

\* As long as the allocation that follows a match does not evict what was matched, every
\* slot has one owner.
THEOREM SlotsHaveOneOwner == Spec /\ MatchSurvives => []SlotsOwnedOnce
  <1>1. OwnerInv => SlotsOwnedOnce
    BY DEF OwnerInv
  <1> QED
    BY <1>1, OwnersKept, PTL

\* Two rows meet in a slot only where both hold the page cached for their text.
LEMMA OwnersSharePrefixes ==
    ASSUME IndInv, OwnerInv
    PROVE  SharedOnlyByPrefix
  <1> SUFFICES ASSUME NEW r \in Req, NEW q \in Req, r # q,
                      NEW i \in DOMAIN row[r], NEW j \in DOMAIN row[q], row[r][i] = row[q][j]
               PROVE  /\ i = j /\ row[r][i] \in TreeSlots
                      /\ SubSeq(Text(r, outLen[r]), 1, i) = SubSeq(Text(q, outLen[q]), 1, i)
    BY DEF SharedOnlyByPrefix
  <1>1. row[r][i] \in TreeSlots
    BY DEF OwnerInv, RowsApart, RowSlots, Range
  <1>2. /\ CachedAt(Text(r, outLen[r]), i, row[r][i])
        /\ CachedAt(Text(q, outLen[q]), j, row[r][i])
    BY <1>1 DEF OwnerInv, RowsCached
  <1>3. i \in Nat \ {0} /\ j \in Nat \ {0}
    <2>1. /\ row[r] \in Seq(Nat) /\ DOMAIN row[r] = 1..Len(row[r]) /\ Len(row[r]) \in Nat
          /\ row[q] \in Seq(Nat) /\ DOMAIN row[q] = 1..Len(row[q]) /\ Len(row[q]) \in Nat
      BY DEF IndInv, TypeOK, BackendTypeOK
    <2> QED
      BY <2>1
  <1>4. /\ BackendTypeOK /\ SlotsOwnedOnce /\ Text(r, outLen[r]) \in Seq(Token)
        /\ Text(q, outLen[q]) \in Seq(Token)
    BY TextsTyped DEF IndInv, TypeOK, OwnerInv
  <1> QED
    BY <1>1, <1>2, <1>3, <1>4, CachedUnique

\* Under the same condition two requests share a slot only where their texts agree up to
\* it, and then through a cached page.
THEOREM SharedSlotsArePrefixes == Spec /\ MatchSurvives => []SharedOnlyByPrefix
  <1>1. IndInv /\ OwnerInv => SharedOnlyByPrefix
    BY OwnersSharePrefixes
  <1> QED
    BY <1>1, OwnersKept, PTL

\* What a step evicts is in no row: only allocate_slots evicts, and only unlocked pages.
LEMMA StepSparesRows ==
    ASSUME IndInv, OwnerInv, [Next]_vars, NEW q \in Req
    PROVE  GoneSlots \cap RowSlots(q) = {}
  <1>1. CASE DOMAIN tree \subseteq DOMAIN tree'
    BY <1>1 DEF GoneSlots
  <1>2. CASE UNCHANGED vars
    BY <1>1, <1>2 DEF vars, backendVars
  <1>3. ASSUME NEW r \in Req, PrefillMatch(r) PROVE tree' = tree
    BY <1>3 DEF PrefillMatch, backendVars
  <1>4. ASSUME PrefillAllocate PROVE GoneSlots \cap RowSlots(q) = {}
    <2> DEFINE n == Len(Prompt[cur]) - numComputed[cur]
    <2>1. at = "prefill_allocate" /\ n \in Int
      <3>1. at = "prefill_allocate" /\ cur \in Req
        BY <1>4 DEF PrefillAllocate, IndInv, ControlInv
      <3>2. Prompt[cur] \in Seq(Token) /\ numComputed[cur] \in Nat
        BY <3>1, WorkloadAssumption DEF WorkloadAssumption, IndInv, TypeOK, HandlerTypeOK
      <3> QED
        BY <3>1, <3>2
    <2>2. \/ AllocateNothing(cur, n, blocks)
          \/ AllocateSucceeds(cur, n, blocks)
          \/ AllocateFails(cur, n, blocks)
      BY <1>4 DEF PrefillAllocate
    <2> HIDE DEF n
    <2> QED
      BY <2>1, <2>2, AllocateSparesRows
  <1>5. ASSUME NEW r \in Req, DecodeAllocate(r) PROVE GoneSlots \cap RowSlots(q) = {}
    <2> DEFINE n == 1 + Drafts(r)
    <2>1. at = "idle" /\ (AllocateSucceeds(r, n, <<>>) \/ AllocateFails(r, n, <<>>))
      BY <1>5 DEF DecodeAllocate
    <2>2. n \in Int
      BY DraftsNatural DEF IndInv, TypeOK
    <2> HIDE DEF n
    <2> QED
      BY <2>1, <2>2, AllocateSparesRows
  <1>6. PrefillSync \/ DecodeSync => DOMAIN tree \subseteq DOMAIN tree'
    BY DEF PrefillSync, DecodeSync, SyncState, Inserted, backendVars
  <1>7. DecodeRollback => tree' = tree
    BY DEF DecodeRollback, FreeRejectedSlots, backendVars
  <1>8. ASSUME NEW r \in Req, Cleanup(r) PROVE tree' = tree
    BY <1>8 DEF Cleanup, Free
  <1> QED
    BY <1>1, <1>2, <1>3, <1>4, <1>5, <1>6, <1>7, <1>8 DEF Next

\* Under the same condition no eviction frees a slot that a request being served holds,
\* in its row or as its match.
THEOREM EvictionsSpareRequests == Spec /\ MatchSurvives => EvictionSparesServed
  <1>1. IndInv /\ OwnerInv /\ [Next]_vars /\ [GoneSlots \cap Range(blocks) = {}]_vars
           => [GoneSlots \cap (Range(blocks) \cup UNION {RowSlots(r) : r \in Req}) = {}]_vars
    <2> SUFFICES ASSUME IndInv, OwnerInv, [Next]_vars, GoneSlots \cap Range(blocks) = {}
                 PROVE  GoneSlots \cap (Range(blocks) \cup UNION {RowSlots(r) : r \in Req}) = {}
      OBVIOUS
    <2>1. \A r \in Req : GoneSlots \cap RowSlots(r) = {}
      BY StepSparesRows
    <2> QED
      BY <2>1
  <1> QED
    BY <1>1, OwnersKept, PTL DEF Spec, MatchSurvives, EvictionSparesServed

-----------------------------------------------------------------------------
(* What a request holds                                                    *)

\* allocate_slots leaves the rows and the charges of the others, and does not charge a
\* request for more than its row grows by.
LEMMA AllocateHolding ==
    ASSUME IndInv, HoldingInv, NEW r \in Req, NEW n \in Int, NEW prefix \in Seq(Nat),
           \/ AllocateNothing(r, n, prefix)
           \/ AllocateSucceeds(r, n, prefix)
           \/ AllocateFails(r, n, prefix)
    PROVE  /\ lastNode' = lastNode /\ outLen' = outLen
           /\ \A q \in Req \ {r} : row'[q] = row[q] /\ charged'[q] = charged[q]
           /\ \A q \in Req : charged'[q] <= Len(row'[q])
           /\ AllocateSucceeds(r, n, prefix) =>
                Len(row'[r]) = Len(row[r]) + Len(prefix) + n
           /\ ~AllocateSucceeds(r, n, prefix) => Len(row'[r]) = Len(row[r]) + Len(prefix)
  <1>1. /\ BackendTypeOK /\ PoolInv /\ row \in [Req -> Seq(Nat)] /\ charged \in [Req -> Nat]
        /\ Len(row[r]) \in Nat /\ Len(prefix) \in Nat
        /\ Len(row[r] \o prefix) = Len(row[r]) + Len(prefix)
    <2>1. row[r] \in Seq(Nat)
      BY DEF IndInv, TypeOK, BackendTypeOK
    <2> QED
      BY <2>1 DEF IndInv, TypeOK, BackendTypeOK
  <1>2. \A q \in Req : charged[q] <= Len(row[q])
    BY DEF HoldingInv
  <1>3. lastNode' = lastNode /\ outLen' = outLen
    BY DEF AllocateNothing, AllocateSucceeds, AllocateFails
  <1>4. CASE AllocateSucceeds(r, n, prefix)
    <2>1. /\ n > 0 /\ \A q \in Req \ {r} : row'[q] = row[q]
          /\ Len(row'[r]) = Len(row[r]) + Len(prefix) + n
          /\ charged' = [charged EXCEPT ![r] = @ + n]
      BY <1>1, <1>4, AllocateSucceedsInv
    <2>2. /\ \A q \in Req \ {r} : charged'[q] = charged[q]
          /\ charged'[r] = charged[r] + n /\ charged[r] \in Nat
      BY <1>1, <2>1
    <2>3. charged'[r] <= Len(row'[r])
      BY <1>1, <1>2, <2>1, <2>2
    <2> QED
      BY <1>2, <1>3, <1>4, <2>1, <2>2, <2>3
  <1>5. CASE ~AllocateSucceeds(r, n, prefix)
    <2>1. row' = [row EXCEPT ![r] = @ \o prefix] /\ charged' = charged
      BY <1>5 DEF AllocateNothing, AllocateFails
    <2>2. charged[r] <= Len(row[r] \o prefix)
      BY <1>1, <1>2
    <2> QED
      BY <1>1, <1>2, <1>3, <1>5, <2>1, <2>2
  <1> QED
    BY <1>4, <1>5

\* The invariant after a step, from what the step does to each request.
HoldsNext(q) ==
    /\ charged'[q] <= Len(row'[q])
    /\ status'[q] \in {"prefill", "freed"} => lastNode'[q] = <<>>
    /\ status'[q] = "decoding" =>
         Len(row'[q]) = Len(Prompt[q]) + outLen'[q] + Ahead(q)'

LEMMA HoldingNext ==
    ASSUME \A q \in Req : HoldsNext(q), at' = "raised_oom" => Len(row'[cur']) = numComputed'[cur']
    PROVE  HoldingInv'
  BY DEF HoldingInv, HoldsNext

\* A request that a step leaves alone.
LEMMA HoldingStays ==
    ASSUME HoldingInv, NEW q \in Req, charged'[q] = charged[q], row'[q] = row[q],
           status'[q] = status[q], lastNode'[q] = lastNode[q], outLen'[q] = outLen[q],
           Ahead(q)' = Ahead(q)
    PROVE  HoldsNext(q)
  BY DEF HoldingInv, HoldsNext

\* allocate_slots in a prefill.
LEMMA PrefillAllocateHolding ==
    ASSUME IndInv, HoldingInv, PrefillAllocate
    PROVE  HoldingInv'
  <1> DEFINE n == Len(Prompt[cur]) - numComputed[cur]
  <1>1. /\ cur \in Req /\ cur' = cur /\ status' = status /\ status[cur] = "prefill"
        /\ blocks \in Seq(Nat) /\ row[cur] = <<>> /\ Len(blocks) = numComputed[cur]
        /\ numComputed[cur] \in Nat /\ n \in Int /\ at = "prefill_allocate"
        /\ at' \in {"prefill_sync", "raised_oom"}
    <2>1. /\ cur \in Req /\ cur' = cur /\ status' = status /\ status[cur] = "prefill"
          /\ blocks \in Seq(Nat) /\ row[cur] = <<>> /\ Len(blocks) = numComputed[cur]
          /\ numComputed[cur] \in Nat /\ at = "prefill_allocate"
          /\ at' \in {"prefill_sync", "raised_oom"}
      BY DEF PrefillAllocate, IndInv, ControlInv, RowInv, TypeOK, HandlerTypeOK
    <2>2. Len(Prompt[cur]) \in Nat
      BY <2>1, TextType
    <2> QED
      BY <2>1, <2>2
  <1>2. \/ AllocateNothing(cur, n, blocks) \/ AllocateSucceeds(cur, n, blocks)
        \/ AllocateFails(cur, n, blocks) /\ at' = "raised_oom" /\ numComputed' = numComputed
    BY DEF PrefillAllocate
  <1>3. at' = "raised_oom" => AllocateFails(cur, n, blocks) /\ numComputed' = numComputed
    BY DEF PrefillAllocate
  <1> HIDE DEF n
  <1>4. /\ lastNode' = lastNode /\ outLen' = outLen
        /\ \A q \in Req \ {cur} : row'[q] = row[q] /\ charged'[q] = charged[q]
        /\ \A q \in Req : charged'[q] <= Len(row'[q])
        /\ ~AllocateSucceeds(cur, n, blocks) => Len(row'[cur]) = Len(row[cur]) + Len(blocks)
    BY <1>1, <1>2, AllocateHolding
  <1>5. \A q \in Req : Ahead(q) = 0 /\ Ahead(q)' = 0
    BY <1>1 DEF Ahead
  <1>6. \A q \in Req \ {cur} : HoldsNext(q)
    BY <1>1, <1>4, <1>5, HoldingStays
  <1>7. HoldsNext(cur)
    BY <1>1, <1>4 DEF HoldsNext, HoldingInv
  <1>8. at' = "raised_oom" => Len(row'[cur']) = numComputed'[cur']
    <2> SUFFICES ASSUME at' = "raised_oom" PROVE Len(row'[cur]) = numComputed[cur]
      BY <1>1, <1>3
    <2>1. row' = [row EXCEPT ![cur] = @ \o blocks]
      BY <1>3 DEF AllocateFails
    <2>2. row'[cur] = <<>> \o blocks
      BY <1>1, <2>1 DEF IndInv, TypeOK, BackendTypeOK
    <2> QED
      BY <1>1, <2>2
  <1> QED
    BY <1>6, <1>7, <1>8, HoldingNext

\* allocate_slots in a decode.
LEMMA DecodeAllocateHolding ==
    ASSUME IndInv, HoldingInv, NEW r \in Req, DecodeAllocate(r)
    PROVE  HoldingInv'
  <1> DEFINE n == 1 + Drafts(r)
  <1>1. /\ status' = status /\ status[r] = "decoding" /\ at = "idle" /\ n \in Int
        /\ at' \in {"idle", "decode_rollback"} /\ <<>> \in Seq(Nat) /\ Len(<<>>) = 0
        /\ Drafts(r) \in Nat
    BY DraftsNatural DEF DecodeAllocate, IndInv, TypeOK
  <1>2. \/ AllocateSucceeds(r, n, <<>>) /\ at' = "decode_rollback" /\ cur' = r
             /\ drafts' = Drafts(r)
        \/ AllocateFails(r, n, <<>>) /\ at' = "idle"
    BY <1>1 DEF DecodeAllocate
  <1>3. /\ lastNode' = lastNode /\ outLen' = outLen
        /\ \A q \in Req \ {r} : row'[q] = row[q] /\ charged'[q] = charged[q]
        /\ \A q \in Req : charged'[q] <= Len(row'[q])
        /\ AllocateSucceeds(r, n, <<>>) => Len(row'[r]) = Len(row[r]) + 0 + n
        /\ ~AllocateSucceeds(r, n, <<>>) => Len(row'[r]) = Len(row[r]) + 0
    <2> HIDE DEF n
    <2> QED
      BY <1>1, <1>2, AllocateHolding
  <1>4. /\ \A q \in Req : Ahead(q) = 0
        /\ \A q \in Req \ {r} : Ahead(q)' = 0
        /\ Ahead(r)' = IF at' = "decode_rollback" THEN n ELSE 0
    BY <1>1, <1>2 DEF Ahead
  <1>5. \A q \in Req \ {r} : HoldsNext(q)
    BY <1>1, <1>3, <1>4, HoldingStays
  <1>6. HoldsNext(r)
    <2>1. Len(row[r]) = Len(Prompt[r]) + outLen[r]
      <3>1. /\ Len(row[r]) = Len(Prompt[r]) + outLen[r] + Ahead(r)
            /\ Len(Prompt[r]) \in Nat /\ outLen[r] \in Nat
        BY <1>1, TextType DEF HoldingInv, IndInv, TypeOK, BackendTypeOK
      <3> QED
        BY <1>4, <3>1
    <2>2. Len(Prompt[r]) \in Nat /\ outLen[r] \in Nat
      BY TextType DEF IndInv, TypeOK, BackendTypeOK
    <2>3. AllocateSucceeds(r, n, <<>>) <=> at' = "decode_rollback"
      BY <1>2 DEF AllocateSucceeds, AllocateFails
    <2>4. Len(row'[r]) = Len(Prompt[r]) + outLen[r] + Ahead(r)'
      <3> HIDE DEF n
      <3> QED
        BY <1>1, <1>3, <1>4, <2>1, <2>2, <2>3
    <2> QED
      BY <1>1, <1>3, <2>4 DEF HoldsNext
  <1> QED
    BY <1>1, <1>5, <1>6, HoldingNext

\* free_rejected_slots.
LEMMA RollbackHolding ==
    ASSUME IndInv, IndInv', HoldingInv, DecodeRollback
    PROVE  HoldingInv'
  <1>1. /\ cur \in Req /\ status[cur] = "decoding" /\ status' = status /\ cur' = cur
        /\ at = "decode_rollback" /\ at' = "decode_sync" /\ drafts' = drafts /\ drafts \in Nat
    BY HandlerAssumption DEF HandlerAssumption, DecodeRollback, IndInv, ControlInv,
       ContractsKept, TypeOK, HandlerTypeOK
  <1>2. PICK a \in 0..drafts : FreeRejectedSlots(cur, drafts - a) /\ accepted' = a
    BY DEF DecodeRollback, IndInv, ControlInv, ContractsKept
  <1> DEFINE m == drafts - a
  <1>3. m \in Nat /\ a \in Nat /\ m + a = drafts
    BY <1>1
  <1>4. FreeRejectedSlots(cur, m)
    BY <1>2
  <1> HIDE DEF m
  <1>5. /\ \A q \in Req \ {cur} : row'[q] = row[q]
        /\ Len(row'[cur]) = Len(row[cur]) - m
        /\ charged' = [charged EXCEPT ![cur] = Monus(@, m)] /\ outLen' = outLen
    BY <1>1, <1>3, <1>4, FreeRejectedInv DEF IndInv, TypeOK
  <1>6. lastNode' = lastNode
    BY <1>4 DEF FreeRejectedSlots, backendVars, handleVars
  <1>7. charged \in [Req -> Nat] /\ outLen[cur] \in Nat /\ Len(row[cur]) \in Nat
    <2>1. row[cur] \in Seq(Nat)
      BY <1>1 DEF IndInv, TypeOK, BackendTypeOK
    <2> QED
      BY <1>1, <2>1 DEF IndInv, TypeOK, BackendTypeOK
  <1>8. /\ \A q \in Req \ {cur} : Ahead(q) = 0 /\ Ahead(q)' = 0
        /\ Ahead(cur) = 1 + drafts /\ Ahead(cur)' = 1 + a
    BY <1>1, <1>2 DEF Ahead
  <1>9. \A q \in Req \ {cur} : HoldsNext(q)
    BY <1>1, <1>5, <1>6, <1>7, <1>8, HoldingStays
  <1>10. HoldsNext(cur)
    <2>1. /\ Len(row[cur]) = Len(Prompt[cur]) + outLen[cur] + Ahead(cur)
          /\ Len(Prompt[cur]) \in Nat /\ charged[cur] <= Len(row[cur])
      BY <1>1, TextType DEF HoldingInv
    <2>2. charged'[cur] <= Len(row'[cur])
      <3>1. charged'[cur] = Monus(charged[cur], m) /\ charged[cur] \in Nat
        BY <1>1, <1>5, <1>7
      <3>2. m <= Len(row[cur])
        BY <1>3, <1>7, <1>8, <2>1
      <3> QED
        BY <1>3, <1>5, <1>7, <2>1, <3>1, <3>2 DEF Monus
    <2>3. Len(row'[cur]) = Len(Prompt[cur]) + outLen'[cur] + Ahead(cur)'
      <3>1. \A l, p, o \in Nat : l = p + o + (1 + drafts) => l - m = p + o + (1 + a)
        BY <1>1, <1>3
      <3>2. Len(row[cur]) = Len(Prompt[cur]) + outLen[cur] + (1 + drafts)
        BY <1>8, <2>1
      <3>3. Len(row[cur]) - m = Len(Prompt[cur]) + outLen[cur] + (1 + a)
        BY <1>7, <2>1, <3>1, <3>2, Zenon
      <3> QED
        BY <1>5, <1>8, <3>3, Zenon
    <2> QED
      BY <1>1, <2>2, <2>3 DEF HoldsNext
  <1> QED
    BY <1>1, <1>9, <1>10, HoldingNext

\* The two calls of sync_state.
LEMMA SyncHolding ==
    ASSUME IndInv, IndInv', HoldingInv, PrefillSync \/ DecodeSync
    PROVE  HoldingInv'
  <1> DEFINE n == IF at = "prefill_sync" THEN 0 ELSE outLen[cur] + Bonus(cur) + accepted
  <1>1. /\ cur \in Req /\ SyncState(cur, n) /\ at' = "idle" /\ n \in Nat /\ cur' = NoReq
        /\ outLen[cur] \in Nat
    <2>1. CASE PrefillSync
      BY <2>1 DEF PrefillSync, IndInv, ControlInv, ContractsKept, TypeOK, BackendTypeOK
    <2>2. CASE DecodeSync
      <3>1. at' = "idle" /\ at = "decode_sync" /\ cur' = NoReq
        BY <2>2 DEF DecodeSync, IndInv, ControlInv, ContractsKept
      <3> QED
        BY <2>2, <3>1, DecodeSyncText DEF IndInv, TypeOK, BackendTypeOK
    <2> QED
      BY <2>1, <2>2
  <1>2. /\ row' = row /\ charged' = charged /\ outLen' = [outLen EXCEPT ![cur] = n]
        /\ \A q \in Req \ {cur} : lastNode'[q] = lastNode[q] /\ outLen'[q] = outLen[q]
        /\ outLen'[cur] = n
    BY <1>1 DEF SyncState, IndInv, TypeOK, BackendTypeOK
  <1>3. /\ \A q \in Req \ {cur} : status'[q] = status[q]
        /\ status'[cur] \in {"decoding", "finished"}
    <2>1. CASE PrefillSync
      BY <1>1, <2>1 DEF PrefillSync, IndInv, ControlInv, ContractsKept, TypeOK, HandlerTypeOK
    <2>2. CASE DecodeSync
      BY <1>1, <2>2 DEF DecodeSync, IndInv, ControlInv, ContractsKept, TypeOK, HandlerTypeOK
    <2> QED
      BY <2>1, <2>2
  <1>4. \A q \in Req : Ahead(q)' = 0 /\ (q # cur => Ahead(q) = 0)
    BY <1>1 DEF Ahead
  <1>5. \A q \in Req \ {cur} : HoldsNext(q)
    BY <1>2, <1>3, <1>4, HoldingStays
  <1>6. ASSUME status'[cur] = "decoding"
        PROVE  Len(row[cur]) = Len(Prompt[cur]) + n
    <2>1. CASE PrefillSync
      <3>1. Len(row[cur]) = Len(Prompt[cur]) /\ n = 0
        BY <2>1 DEF PrefillSync, IndInv, RowInv
      <3> QED
        BY <1>1, <3>1, TextType
    <2>2. CASE DecodeSync
      <3>1. /\ at = "decode_sync" /\ status[cur] = "decoding" /\ accepted \in Nat
            /\ n = outLen[cur] + Bonus(cur) + accepted /\ n < Len(Output[cur])
        <4>1. /\ at = "decode_sync" /\ status[cur] = "decoding" /\ accepted \in Nat
          BY <2>2, HandlerAssumption DEF HandlerAssumption, DecodeSync, IndInv, ControlInv,
             TypeOK, HandlerTypeOK
        <4>2. n = outLen[cur] + Bonus(cur) + accepted
          BY <4>1
        <4>3. status' = [status EXCEPT ![cur] = IF n >= Len(Output[cur]) THEN "finished" ELSE @]
          BY <2>2, <4>2 DEF DecodeSync, IndInv, ControlInv, ContractsKept
        <4>4. ~(n >= Len(Output[cur])) /\ Len(Output[cur]) \in Nat
          BY <1>1, <1>6, <4>3, TextType DEF IndInv, TypeOK, HandlerTypeOK
        <4> HIDE DEF n
        <4> QED
          BY <1>1, <4>1, <4>2, <4>4
      <3>2. Ahead(cur) = 1 + accepted
        BY <3>1 DEF Ahead
      <3>3. Bonus(cur) = 1
        <4>1. Len(Output[cur]) \in Nat /\ Bonus(cur) \in Nat
          BY <1>1, TextType DEF Bonus
        <4> HIDE DEF n
        <4>2. outLen[cur] < Len(Output[cur])
          BY <1>1, <3>1, <4>1
        <4> QED
          BY <4>2 DEF Bonus
      <3>4. Len(row[cur]) = Len(Prompt[cur]) + outLen[cur] + Ahead(cur) /\ Len(Prompt[cur]) \in Nat
        BY <1>1, <3>1, TextType DEF HoldingInv
      <3> HIDE DEF n
      <3>5. \A p, o \in Nat : p + o + (1 + accepted) = p + (o + 1 + accepted)
        BY <3>1
      <3>6. n = outLen[cur] + 1 + accepted
        BY <3>1, <3>3, Zenon
      <3> QED
        BY <1>1, <3>2, <3>4, <3>5, <3>6, Zenon
    <2> QED
      BY <2>1, <2>2
  <1>7. ASSUME NEW q \in Req, q = cur PROVE HoldsNext(q)
    <2>1. Len(Prompt[q]) + n = Len(Prompt[q]) + n + 0
      BY <1>1, TextType
    <2> HIDE DEF n
    <2>2. charged'[q] <= Len(row'[q])
      BY <1>1, <1>2 DEF HoldingInv
    <2>3. status'[q] \notin {"prefill", "freed"}
      BY <1>3, <1>7
    <2>4. ASSUME status'[q] = "decoding"
          PROVE  Len(row'[q]) = Len(Prompt[q]) + outLen'[q] + Ahead(q)'
      <3>1. Len(row'[q]) = Len(Prompt[q]) + n
        BY <1>2, <1>6, <1>7, <2>4
      <3>2. Ahead(q)' = 0 /\ outLen'[q] = n
        BY <1>2, <1>4, <1>7
      <3> QED
        BY <2>1, <3>1, <3>2, Zenon
    <2> QED
      BY <2>2, <2>3, <2>4 DEF HoldsNext
  <1> HIDE DEF n
  <1>8. \A q \in Req : HoldsNext(q)
    BY <1>5, <1>7
  <1> QED
    BY <1>1, <1>8, HoldingNext

\* No step charges a request for more than it holds.
LEMMA HoldingStep ==
    ASSUME IndInv, IndInv', HoldingInv, [Next]_vars
    PROVE  HoldingInv'
  <1>1. CASE UNCHANGED vars
    BY <1>1 DEF HoldingInv, Ahead, vars, handlerVars, backendVars, handleVars
  <1>2. ASSUME NEW r \in Req, PrefillMatch(r) PROVE HoldingInv'
    <2>1. /\ UNCHANGED <<row, charged, lastNode, outLen, status>>
          /\ at = "idle" /\ at' = "prefill_allocate"
      BY <1>2 DEF PrefillMatch, backendVars, handleVars
    <2>2. \A q \in Req : Ahead(q) = 0 /\ Ahead(q)' = 0
      BY <2>1 DEF Ahead
    <2>3. \A q \in Req : HoldsNext(q)
      BY <2>1, <2>2, HoldingStays
    <2> QED
      BY <2>1, <2>3, HoldingNext
  <1>3. ASSUME NEW r \in Req, Cleanup(r) PROVE HoldingInv'
    <2>1. /\ Free(r) /\ status' = [status EXCEPT ![r] = "freed"] /\ at = "idle" /\ at' = "idle"
          /\ cur' = cur
      BY <1>3 DEF Cleanup
    <2>2. \A q \in Req : Ahead(q) = 0 /\ Ahead(q)' = 0
      BY <2>1 DEF Ahead
    <2>3. /\ row' = [row EXCEPT ![r] = <<>>] /\ lastNode' = [lastNode EXCEPT ![r] = <<>>]
          /\ charged' = [charged EXCEPT ![r] = 0] /\ outLen' = outLen
      BY <2>1 DEF Free
    <2>4. \A q \in Req \ {r} : HoldsNext(q)
      BY <2>1, <2>2, <2>3, HoldingStays DEF IndInv, TypeOK, BackendTypeOK, HandlerTypeOK
    <2>5. HoldsNext(r)
      BY <2>1, <2>3 DEF HoldsNext, IndInv, TypeOK, BackendTypeOK, HandlerTypeOK
    <2> QED
      BY <2>1, <2>4, <2>5, HoldingNext
  <1> QED
    BY <1>1, <1>2, <1>3, PrefillAllocateHolding, DecodeAllocateHolding, RollbackHolding,
       SyncHolding DEF Next

-----------------------------------------------------------------------------
(* No slot is lost: what a request has locked is cached in the slots of its row *)

\* A position within the lock of a served request is in its row and in its text.
LEMMA LockedPositions ==
    ASSUME IndInv, LockInv, NEW r \in Req, status[r] \in {"decoding", "finished"}
    PROVE  /\ lastNode[r] \in Seq(Token) /\ Len(lastNode[r]) \in Nat
           /\ Len(lastNode[r]) = PageFloor(Len(Text(r, outLen[r])))
           /\ Len(lastNode[r]) <= Len(Text(r, outLen[r]))
           /\ Len(Text(r, outLen[r])) + Ahead(r) <= Len(row[r]) /\ Ahead(r) \in Nat
           /\ Len(Text(r, outLen[r])) \in Nat /\ Len(row[r]) \in Nat
           /\ Len(lastNode[r]) <= Len(row[r])
  <1> DEFINE t == Text(r, outLen[r])
             f == PageFloor(Len(t))
  <1>1. /\ t \in Seq(Token) /\ Len(t) = Len(Prompt[r]) + outLen[r]
        /\ row[r] \in Seq(Nat) /\ outLen[r] \in Nat /\ Prompt[r] \in Seq(Token)
    BY TextsTyped, WorkloadAssumption DEF WorkloadAssumption, IndInv, TypeOK, BackendTypeOK
  <1>2. lastNode[r] = SubSeq(t, 1, f)
    BY DEF LockInv, PageAligned
  <1> HIDE DEF t, f
  <1>3. Len(t) \in Nat /\ Len(row[r]) \in Nat
    BY <1>1
  <1>4. f \in Nat /\ f <= Len(t)
    BY <1>3, PageFloorBounds DEF f
  <1>5. lastNode[r] \in Seq(Token) /\ Len(lastNode[r]) = f
    BY <1>1, <1>2, <1>4
  <1>6. Ahead(r) \in Nat
    <2>1. drafts \in Nat /\ accepted \in Nat
      BY HandlerAssumption DEF IndInv, TypeOK, HandlerTypeOK, HandlerAssumption
    <2> QED
      BY <2>1 DEF Ahead
  <1>7. Len(t) + Ahead(r) <= Len(row[r])
    BY <1>1 DEF IndInv, RowInv
  <1>8. f <= Len(row[r])
    BY <1>3, <1>4, <1>6, <1>7
  <1> QED
    BY <1>3, <1>4, <1>5, <1>6, <1>7, <1>8 DEF t, f

\* The locked pages are cached after the step, position by position.
LEMMA LockedCachedNext ==
    ASSUME \A q \in Req : status'[q] \in {"decoding", "finished"} =>
               \A i \in 1..Len(lastNode'[q]) : CachedNext(lastNode'[q], i, row'[q][i])
    PROVE  LockedCachedInv'
  BY DEF LockedCachedInv, CachedNext, CachedAt, CachedSlot, PageOf, PageWithin, PageFloor

\* The page of a position within a text is one of its whole pages.
LEMMA PageOfPrefix ==
    ASSUME NEW text \in Seq(Token), NEW i \in Nat \ {0}, i <= PageFloor(Len(text))
    PROVE  /\ PageOf(text, i) \in PrefixPages(text, NumPages(text))
           /\ PageFloor(i - 1) + PageSize <= PageFloor(Len(text))
           /\ PageFloor(i - 1) + PageSize \in Nat
  <1> DEFINE n == NumPages(text)
             j == ((i - 1) \div PageSize) + 1
  <1>1. /\ Len(text) \in Nat /\ n \in Nat /\ PageSize \in Nat \ {0} /\ i - 1 \in Nat
        /\ n * PageSize \in Nat /\ n * PageSize = PageFloor(Len(text))
    <2>1. Len(text) \in Nat
      OBVIOUS
    <2> QED
      BY <2>1, PageFloorBounds, SizeAssumption DEF SizeAssumption, NumPages, PageFloor
  <1>2. j \in 1..n /\ (i - 1) \div PageSize \in Nat
    <2>1. i \in 1..(n * PageSize)
      BY <1>1
    <2> QED
      BY <1>1, <2>1, PageOfPosition, PageParts
  <1>3. j * PageSize = PageFloor(i - 1) + PageSize
    BY <1>1, <1>2, PagesStep DEF PageFloor
  <1>4. j * PageSize <= n * PageSize /\ j * PageSize \in Nat
    BY <1>1, <1>2, PageEnds
  <1>5. PageOf(text, i) = SubSeq(text, 1, j * PageSize)
    BY <1>3 DEF PageOf
  <1> QED
    BY <1>1, <1>2, <1>3, <1>4, <1>5 DEF PrefixPages

\* A locked page that a step leaves in the tree as it was keeps its positions cached.
LEMMA LockedStays ==
    ASSUME IndInv, LockInv, LockedCachedInv, NEW q \in Req,
           status[q] \in {"decoding", "finished"}, lastNode'[q] = lastNode[q],
           \A i \in 1..Len(lastNode[q]) : row'[q][i] = row[q][i],
           \A p \in DOMAIN tree :
               IsPrefix(p, lastNode[q]) => p \in DOMAIN tree' /\ tree'[p] = tree[p],
           NEW i \in 1..Len(lastNode'[q])
    PROVE  CachedNext(lastNode'[q], i, row'[q][i])
  <1> DEFINE s == lastNode[q]
             e == PageFloor(i - 1) + PageSize
  <1>1. s \in Seq(Token) /\ Len(s) \in Nat /\ i \in 1..Len(s)
    BY LockedPositions
  <1>2. CachedAt(s, i, row[q][i])
    BY <1>1 DEF LockedCachedInv
  <1>3. PageOf(s, i) = SubSeq(s, 1, e) /\ e <= Len(s) /\ PageOf(s, i) \in DOMAIN tree
    BY <1>2 DEF PageOf, CachedAt, PageWithin
  <1>4. e \in Nat
    <2>1. i \in Nat \ {0}
      BY <1>1
    <2>2. PageFloor(i - 1) \in Nat /\ PageSize \in Nat
      BY <2>1, PageAround
    <2> QED
      BY <2>2
  <1> HIDE DEF s, e
  <1>5. IsPrefix(PageOf(s, i), s)
    BY <1>1, <1>3, <1>4 DEF IsPrefix
  <1>6. PageOf(s, i) \in DOMAIN tree' /\ tree'[PageOf(s, i)] = tree[PageOf(s, i)]
    BY <1>3, <1>5 DEF s
  <1>7. row'[q][i] = row[q][i] /\ lastNode'[q] = s
    BY <1>1 DEF s
  <1> QED
    BY <1>2, <1>6, <1>7 DEF CachedNext, CachedAt, CachedSlot, PageOf

\* allocate_slots leaves the locked pages and what rows have already.
LEMMA AllocateStays ==
    ASSUME IndInv, LockInv, NEW r \in Req, NEW n \in Int, NEW prefix \in Seq(Nat),
           \/ AllocateNothing(r, n, prefix)
           \/ AllocateSucceeds(r, n, prefix)
           \/ AllocateFails(r, n, prefix)
    PROVE  /\ lastNode' = lastNode
           /\ \A q \in Req : \A p \in DOMAIN tree :
                 IsPrefix(p, lastNode[q]) => p \in DOMAIN tree' /\ tree'[p] = tree[p]
           /\ \A q \in Req : \A i \in DOMAIN row[q] :
                 i \in DOMAIN row'[q] /\ row'[q][i] = row[q][i]
  <1>1. BackendTypeOK /\ row \in [Req -> Seq(Nat)] /\ row[r] \in Seq(Nat)
    BY DEF IndInv, TypeOK, BackendTypeOK
  <1>2. ASSUME NEW taken \in Seq(Nat), row' = [row EXCEPT ![r] = @ \o prefix \o taken]
        PROVE  \A q \in Req : \A i \in DOMAIN row[q] :
                 i \in DOMAIN row'[q] /\ row'[q][i] = row[q][i]
    <2> SUFFICES ASSUME NEW i \in DOMAIN row[r] 
                 PROVE  /\ i \in DOMAIN ((row[r] \o prefix) \o taken)
                        /\ ((row[r] \o prefix) \o taken)[i] = row[r][i]
      BY <1>1, <1>2
    <2>1. (row[r] \o prefix)[i] = row[r][i] /\ i \in DOMAIN (row[r] \o prefix)
      BY <1>1
    <2>2. row[r] \o prefix \in Seq(Nat)
      BY <1>1
    <2>3. \A s \in Seq(Nat) : i \in DOMAIN s => i \in DOMAIN (s \o taken) /\ (s \o taken)[i] = s[i]
      OBVIOUS
    <2> QED
      BY <2>1, <2>2, <2>3
  <1>3. ASSUME NEW order \in Evictions(n), tree' = WithoutPages(order), NEW q \in Req,
               NEW p \in DOMAIN tree, IsPrefix(p, lastNode[q])
        PROVE  p \in DOMAIN tree' /\ tree'[p] = tree[p]
    <2>1. p \notin Range(order)
      BY <1>3, EvictedUnlocked DEF Unlocked
    <2> QED
      BY <1>3, <2>1 DEF WithoutPages, Restrict
  <1>4. CASE AllocateNothing(r, n, prefix)
    <2>1. row' = [row EXCEPT ![r] = @ \o prefix] /\ lastNode' = lastNode /\ tree' = tree
      BY <1>4 DEF AllocateNothing
    <2>2. \A i \in DOMAIN row[r] :
             i \in DOMAIN (row[r] \o prefix) /\ (row[r] \o prefix)[i] = row[r][i]
      BY <1>1
    <2> QED
      BY <1>1, <2>1, <2>2
  <1>5. CASE AllocateSucceeds(r, n, prefix)
    <2>1. PICK order \in Evictions(n) :
             LET pool == freeList \o EvictedSlots(order)
             IN /\ tree' = WithoutPages(order)
                /\ row' = [row EXCEPT ![r] = @ \o prefix \o FlatTaken(n, pool)]
      BY <1>5 DEF AllocateSucceeds
    <2> DEFINE taken == FlatTaken(n, freeList \o EvictedSlots(order))
    <2>2. lastNode' = lastNode /\ n \in Nat \ {0}
      BY <1>5 DEF AllocateSucceeds
    <2>3. taken \in Seq(Nat)
      <3>1. freeList \o EvictedSlots(order) \in Seq(Nat) /\ nextIdx \in Nat
        BY <1>1, EvictedAccounting DEF BackendTypeOK, IndInv, PoolInv
      <3> QED
        BY <2>2, <3>1, FlatTypes
    <2>4. row' = [row EXCEPT ![r] = @ \o prefix \o taken]
      BY <2>1
    <2> HIDE DEF taken
    <2> QED
      BY <1>3, <1>2, <2>1, <2>2, <2>3, <2>4
  <1>6. CASE AllocateFails(r, n, prefix)
    <2>1. PICK order \in Evictions(n) : tree' = WithoutPages(order)
      BY <1>6 DEF AllocateFails
    <2>2. lastNode' = lastNode /\ row' = [row EXCEPT ![r] = @ \o prefix]
      BY <1>6 DEF AllocateFails
    <2>3. \A i \in DOMAIN row[r] :
             i \in DOMAIN (row[r] \o prefix) /\ (row[r] \o prefix)[i] = row[r][i]
      BY <1>1
    <2> QED
      BY <1>1, <1>3, <2>1, <2>2, <2>3
  <1> QED
    BY <1>4, <1>5, <1>6

\* After allocate_slots, what was locked is still cached in the slots of the rows.
LEMMA AllocateKeepsCached ==
    ASSUME IndInv, LockInv, LockedCachedInv, status' = status,
           NEW r \in Req, NEW n \in Int, NEW prefix \in Seq(Nat),
           \/ AllocateNothing(r, n, prefix)
           \/ AllocateSucceeds(r, n, prefix)
           \/ AllocateFails(r, n, prefix)
    PROVE  LockedCachedInv'
  <1>1. /\ lastNode' = lastNode
        /\ \A q \in Req : \A p \in DOMAIN tree :
              IsPrefix(p, lastNode[q]) => p \in DOMAIN tree' /\ tree'[p] = tree[p]
        /\ \A q \in Req : \A i \in DOMAIN row[q] :
              i \in DOMAIN row'[q] /\ row'[q][i] = row[q][i]
    BY AllocateStays
  <1>2. ASSUME NEW q \in Req, status[q] \in {"decoding", "finished"},
               NEW i \in 1..Len(lastNode[q])
        PROVE  row'[q][i] = row[q][i]
    <2>1. row[q] \in Seq(Nat) /\ DOMAIN row[q] = 1..Len(row[q])
      BY DEF IndInv, TypeOK, BackendTypeOK
    <2>2. Len(lastNode[q]) <= Len(row[q]) /\ Len(lastNode[q]) \in Nat /\ Len(row[q]) \in Nat
      BY <1>2, LockedPositions
    <2>3. i \in DOMAIN row[q]
      BY <2>1, <2>2
    <2> QED
      BY <1>1, <2>3
  <1> QED
    BY <1>1, <1>2, LockedStays, LockedCachedNext

\* The page of a position, cut out of a sequence, has that position's member at its place.
LEMMA PageOfRow ==
    ASSUME NEW s \in Seq(Nat), NEW i \in Nat \ {0}, PageFloor(i - 1) + PageSize <= Len(s)
    PROVE  LET e == PageFloor(i - 1) + PageSize
           IN SubSeq(s, e - PageSize + 1, e)[((i - 1) % PageSize) + 1] = s[i]
  <1> DEFINE c == PageFloor(i - 1)
             e == c + PageSize
             o == ((i - 1) % PageSize) + 1
  <1>1. c \in Nat /\ o \in 1..PageSize /\ i = c + o /\ PageSize \in Nat \ {0} /\ Len(s) \in Nat
    <2> DEFINE m == (i - 1) % PageSize
    <2>1. c \in Nat /\ m + 1 \in 1..PageSize /\ i = c + m + 1 /\ PageSize \in Nat \ {0}
      BY PageAround
    <2>2. m \in Nat
      BY PageParts, i - 1 \in Nat
    <2> HIDE DEF m, c
    <2>3. i = c + (m + 1)
      BY <2>1, <2>2
    <2> QED
      BY <2>1, <2>3 DEF m
  <1>2. e <= Len(s)
    OBVIOUS
  <1> HIDE DEF c, o
  <1>3. e - PageSize + 1 = c + 1 /\ e \in Nat
    BY <1>1
  <1>4. SubSeq(s, c + 1, c + PageSize)[o] = s[(c + 1) + o - 1]
    BY <1>1, <1>2
  <1>5. (c + 1) + o - 1 = i
    BY <1>1
  <1>6. SubSeq(s, e - PageSize + 1, e)[o] = s[i]
    BY <1>3, <1>4, <1>5
  <1> QED
    BY <1>6 DEF c, o

\* Rounding down twice is rounding down once.
LEMMA PageFloorTwice ==
    ASSUME NEW n \in Nat
    PROVE  PageFloor(PageFloor(n)) = PageFloor(n)
  <1>1. n \div PageSize \in Nat /\ 0 \in 0..(PageSize - 1) /\ PageFloor(n) \in Nat
    BY PageFloorBounds, SizeAssumption DEF SizeAssumption
  <1>2. ((n \div PageSize) * PageSize + 0) \div PageSize = n \div PageSize
    BY <1>1, PageUnique
  <1>3. (n \div PageSize) * PageSize + 0 = PageFloor(n)
    BY <1>1 DEF PageFloor
  <1> QED
    BY <1>2, <1>3 DEF PageFloor

\* After sync_state, the lock of the request is cached in the slots of its row, if none of
\* its pages had been computed a second time.
LEMMA SyncKeepsCached ==
    ASSUME IndInv, LockInv, LockedCachedInv, NEW r \in Req, NEW n \in 0..Len(Output[r]),
           SyncState(r, n), \A q \in Req \ {r} : status'[q] = status[q],
           \A i \in 1..PageFloor(Len(Text(r, n))) :
               PageOf(Text(r, n), i) \in DOMAIN tree => row[r][i] = CachedSlot(Text(r, n), i)
    PROVE  LockedCachedInv'
  <1> DEFINE t == Text(r, n)
             f == PageFloor(Len(t))
             key == SubSeq(t, 1, f)
             values == SubSeq(row[r], 1, f)
  <1>1. /\ t \in Seq(Token) /\ f \in Nat /\ f <= Len(t) /\ Len(t) \in Nat
        /\ row[r] \in Seq(Nat) /\ Len(row[r]) \in Nat /\ lastNode \in [Req -> Seq(Token)]
    <2>1. t \in Seq(Token)
      BY TextType
    <2>2. row[r] \in Seq(Nat) /\ lastNode \in [Req -> Seq(Token)]
      BY DEF IndInv, TypeOK, BackendTypeOK
    <2> HIDE DEF t
    <2>3. Len(t) \in Nat /\ Len(row[r]) \in Nat
      BY <2>1, <2>2
    <2> QED
      BY <2>1, <2>2, <2>3, PageFloorBounds
  <1>2. /\ f <= Len(row[r]) /\ lastNode' = [lastNode EXCEPT ![r] = key]
        /\ tree' = Inserted(key, SubSeq(row[r], 1, Len(key))) /\ row' = row
    BY <1>1 DEF SyncState, RowTooShort, PageAligned
  <1>3. /\ key \in Seq(Token) /\ Len(key) = f
    BY <1>1
  <1>4. values \in Seq(Nat) /\ Len(values) = f /\ \A i \in 1..f : values[i] = row[r][i]
    <2> HIDE DEF f
    <2> QED
      BY <1>1, <1>2
  <1>5. DOMAIN tree \subseteq DOMAIN tree' /\ \A p \in DOMAIN tree : tree'[p] = tree[p]
    BY <1>2 DEF Inserted
  <1>6. ASSUME NEW i \in 1..Len(lastNode'[r]) PROVE CachedNext(lastNode'[r], i, row'[r][i])
    <2> DEFINE e == PageFloor(i - 1) + PageSize
               o == ((i - 1) % PageSize) + 1
               p == PageOf(key, i)
    <2>1. lastNode'[r] = key /\ i \in 1..f /\ i \in Nat \ {0} /\ i <= f
      BY <1>1, <1>2, <1>3
    <2>2. PageFloor(Len(key)) = f
      BY <1>1, <1>3, PageFloorTwice
    <2>3. /\ p \in PrefixPages(key, NumPages(key)) /\ e <= f /\ e \in Nat
      BY <1>3, <2>1, <2>2, PageOfPrefix
    <2>4. p = SubSeq(key, 1, e) /\ PageOf(t, i) = SubSeq(t, 1, e)
      BY DEF PageOf
    <2> HIDE DEF e, p
    <2>5. p = PageOf(t, i) /\ Len(p) = e
      BY <1>1, <2>3, <2>4
    <2> HIDE DEF key, values, t, f
    <2>6. p \in DOMAIN tree'
      BY <1>2, <2>3 DEF Inserted
    <2>7. CASE p \in DOMAIN tree
      <3>1. row[r][i] = tree[p][o]
        BY <2>1, <2>4, <2>5, <2>7 DEF CachedSlot, PageOf, t, f, e
      <3> QED
        BY <1>2, <1>3, <1>5, <2>1, <2>3, <2>6, <2>7, <3>1 DEF CachedNext, PageWithin, e, p
    <2>8. CASE p \notin DOMAIN tree
      <3>1. tree'[p] = SubSeq(values, e - PageSize + 1, e)
        BY <1>2, <1>3, <2>3, <2>5, <2>8 DEF Inserted, values
      <3>2. e <= Len(values)
        BY <1>4, <2>3
      <3>3. SubSeq(values, e - PageSize + 1, e)[o] = values[i]
        BY <1>4, <2>1, <3>2, PageOfRow DEF e
      <3>4. tree'[p][o] = row[r][i]
        BY <1>4, <2>1, <3>1, <3>3
      <3> QED
        BY <1>2, <1>3, <2>1, <2>3, <2>6, <3>4 DEF CachedNext, PageWithin, e, p
    <2> QED
      BY <2>7, <2>8
  <1>7. ASSUME NEW q \in Req \ {r}, status'[q] \in {"decoding", "finished"},
               NEW i \in 1..Len(lastNode'[q])
        PROVE  CachedNext(lastNode'[q], i, row'[q][i])
    <2>1. lastNode'[q] = lastNode[q] /\ status[q] \in {"decoding", "finished"} /\ row'[q] = row[q]
      BY <1>1, <1>2, <1>7
    <2> QED
      BY <1>5, <1>7, <2>1, LockedStays
  <1> QED
    BY <1>6, <1>7, LockedCachedNext

\* A step that leaves the tree and the locks keeps what is locked cached.
LEMMA TreeKeepsCached ==
    ASSUME IndInv, LockInv, LockedCachedInv, tree' = tree,
           \A q \in Req : status'[q] \in {"decoding", "finished"} =>
               /\ status[q] \in {"decoding", "finished"} /\ lastNode'[q] = lastNode[q]
               /\ \A i \in 1..Len(lastNode[q]) : row'[q][i] = row[q][i]
    PROVE  LockedCachedInv'
  BY LockedStays, LockedCachedNext

\* free_rejected_slots leaves the pages below the node of every request cached.
LEMMA RollbackKeepsCached ==
    ASSUME IndInv, IndInv', LockInv, LockedCachedInv, DecodeRollback
    PROVE  LockedCachedInv'
  <1>1. /\ cur \in Req /\ status[cur] = "decoding" /\ status' = status /\ cur' = cur
    BY DEF DecodeRollback, IndInv, ControlInv
  <1>2. PICK a \in 0..drafts : FreeRejectedSlots(cur, drafts - a)
    BY DEF DecodeRollback, IndInv, ControlInv, ContractsKept
  <1>3. /\ tree' = tree /\ lastNode' = lastNode /\ outLen' = outLen
        /\ \A q \in Req \ {cur} : row'[q] = row[q]
        /\ row \in [Req -> Seq(Nat)]
    BY <1>2 DEF FreeRejectedSlots, backendVars, handleVars, IndInv, TypeOK, BackendTypeOK
  <1>4. ASSUME NEW i \in 1..Len(lastNode[cur]) PROVE row'[cur][i] = row[cur][i]
    <2> DEFINE m == drafts - a
    <2>1. m \in Nat /\ m <= drafts /\ drafts \in Nat
      <3>1. drafts \in Nat
        BY HandlerAssumption DEF IndInv, TypeOK, HandlerTypeOK, HandlerAssumption
      <3> QED
        BY <3>1
    <2>2. /\ Len(lastNode[cur]) <= Len(Text(cur, outLen[cur])) /\ Len(lastNode[cur]) \in Nat
          /\ Len(Text(cur, outLen[cur])) + Ahead(cur) <= Len(row[cur])
          /\ Len(Text(cur, outLen[cur])) \in Nat /\ Len(row[cur]) \in Nat
      BY <1>1, LockedPositions
    <2>3. Ahead(cur) = 1 + drafts
      BY DEF DecodeRollback, Ahead
    <2>4. /\ Len(row[cur]) - m \in Nat /\ i \in 1..(Len(row[cur]) - m)
          /\ Len(row[cur]) - m <= Len(row[cur])
      BY <2>1, <2>2, <2>3
    <2>5. row' = row \/ row' = [row EXCEPT ![cur] = SubSeq(@, 1, Len(@) - m)]
      BY <1>2 DEF FreeRejectedSlots, backendVars, handleVars
    <2> HIDE DEF m
    <2>6. SubSeq(row[cur], 1, Len(row[cur]) - m)[i] = row[cur][i]
      BY <1>1, <1>3, <2>4
    <2> QED
      BY <1>1, <1>3, <2>5, <2>6
  <1> QED
    BY <1>1, <1>3, <1>4, TreeKeepsCached

\* What a match returns is cached for the prompt until it is allocated, and the row of a
\* prefill begins with what of it is cached still.
MatchedInv == MatchCached /\ RowMatched

\* allocate_slots puts the match first in the row, and charges for what follows it.
LEMMA PrefillAllocateMatches ==
    ASSUME IndInv, IndInv', HoldingInv, MatchCached, PrefillAllocate
    PROVE  RowMatched'
  <1> SUFFICES ASSUME at' = "prefill_sync"
               PROVE  RowMatched'
    BY DEF RowMatched
  <1> DEFINE n == Len(Prompt[cur]) - numComputed[cur]
  <1>1. /\ cur \in Req /\ cur' = cur /\ row[cur] = <<>> /\ Len(blocks) = numComputed[cur]
        /\ blocks \in Seq(Nat) /\ row \in [Req -> Seq(Nat)] /\ charged \in [Req -> Nat]
        /\ numComputed[cur] \in Nat /\ Prompt[cur] \in Seq(Token) /\ at = "prefill_allocate"
    BY WorkloadAssumption
       DEF WorkloadAssumption, PrefillAllocate, IndInv, ControlInv, RowInv, TypeOK,
           BackendTypeOK, HandlerTypeOK
  <1>2. AllocateNothing(cur, n, blocks) \/ AllocateSucceeds(cur, n, blocks)
    BY DEF PrefillAllocate
  <1>3. charged[cur] = 0
    <2>1. charged[cur] <= 0
      BY <1>1 DEF HoldingInv
    <2> QED
      BY <1>1, <2>1
  <1>4. Len(row'[cur]) = Len(Prompt[cur])
    BY <1>1 DEF IndInv, RowInv
  <1>5. /\ Len(row'[cur]) - charged'[cur] = Len(blocks)
        /\ \A i \in 1..Len(blocks) : row'[cur][i] = blocks[i]
        /\ \A p \in DOMAIN tree' : p \in DOMAIN tree /\ tree'[p] = tree[p]
    <2>1. CASE AllocateNothing(cur, n, blocks)
      <3>1. row'[cur] = blocks /\ charged' = charged /\ tree' = tree
        BY <1>1, <2>1 DEF AllocateNothing
      <3> QED
        BY <1>1, <1>3, <3>1
    <2>2. CASE AllocateSucceeds(cur, n, blocks)
      <3>1. PICK order \in Evictions(n) :
               /\ tree' = WithoutPages(order)
               /\ row' = [row EXCEPT ![cur] = @ \o blocks \o
                             FlatTaken(n, freeList \o EvictedSlots(order))]
        BY <2>2 DEF AllocateSucceeds
      <3> DEFINE taken == FlatTaken(n, freeList \o EvictedSlots(order))
      <3>2. taken \in Seq(Nat)
        <4>1. freeList \o EvictedSlots(order) \in Seq(Nat) /\ nextIdx \in Nat /\ n \in Nat \ {0}
          <5>1. BackendTypeOK /\ FullUseCoversSlots /\ nextIdx \in Nat
            BY DEF BackendTypeOK, IndInv, PoolInv, TypeOK
          <5>2. n > 0 /\ n \in Int
            <6>1. n > 0
              BY <2>2 DEF AllocateSucceeds
            <6>2. Len(Prompt[cur]) \in Nat /\ numComputed[cur] \in Nat
              BY <1>1, TextType DEF IndInv, TypeOK, HandlerTypeOK
            <6> QED
              BY <6>1, <6>2
          <5> HIDE DEF n
          <5>3. freeList \o EvictedSlots(order) \in Seq(Nat)
            BY <5>1, <5>2, EvictedAccounting
          <5> QED
            BY <5>1, <5>2, <5>3
        <4> HIDE DEF n
        <4> QED
          BY <4>1, FlatTypes
      <3>3. charged'[cur] = n
        BY <1>1, <1>3, <2>2 DEF AllocateSucceeds
      <3> HIDE DEF taken
      <3>4. row'[cur] = blocks \o taken
        BY <1>1, <3>1 DEF taken
      <3>5. \A p \in DOMAIN tree' : p \in DOMAIN tree /\ tree'[p] = tree[p]
        BY <3>1 DEF WithoutPages, Restrict
      <3>6. Len(row'[cur]) - charged'[cur] = Len(blocks)
        BY <1>1, <1>4, <3>3
      <3> QED
        BY <1>1, <3>2, <3>4, <3>5, <3>6
    <2> QED
      BY <1>2, <2>1, <2>2
  <1>6. ASSUME NEW i \in 1..Len(blocks), PageOf(Prompt[cur], i) \in DOMAIN tree'
        PROVE  row'[cur][i] = CachedSlot(Prompt[cur], i)'
    <2>1. CachedAt(Prompt[cur], i, blocks[i])
      BY <1>1 DEF MatchCached
    <2> QED
      BY <1>1, <1>5, <1>6, <2>1 DEF CachedAt, CachedSlot, PageOf
  <1> QED
    BY <1>1, <1>5, <1>6 DEF RowMatched, PageOf

\* Nothing comes between the match and its allocation, nor between that and sync_state.
LEMMA MatchedStep ==
    ASSUME IndInv, IndInv', HoldingInv, MatchedInv, [Next]_vars
    PROVE  MatchedInv'
  <1>1. CASE UNCHANGED vars
    BY <1>1 DEF MatchedInv, MatchCached, RowMatched, CachedAt, CachedSlot, PageOf, PageWithin,
       vars, handlerVars, backendVars, handleVars
  <1>2. ASSUME NEW r \in Req, PrefillMatch(r) PROVE MatchedInv'
    <2>1. at' = "prefill_allocate"
      BY <1>2 DEF PrefillMatch
    <2> QED
      BY <1>2, <2>1, PrefillMatchMatches DEF MatchedInv, RowMatched
  <1>3. CASE PrefillAllocate
    <2>1. at' # "prefill_allocate"
      BY <1>3 DEF PrefillAllocate
    <2> QED
      BY <1>3, <2>1, PrefillAllocateMatches DEF MatchedInv, MatchCached
  <1>4. CASE at' \notin {"prefill_allocate", "prefill_sync"}
    BY <1>4 DEF MatchedInv, MatchCached, RowMatched
  <1>5. ASSUME NEW r \in Req, DecodeAllocate(r) \/ Cleanup(r)
        PROVE  at' \notin {"prefill_allocate", "prefill_sync"}
    BY <1>5 DEF DecodeAllocate, Cleanup
  <1>6. ASSUME PrefillSync \/ DecodeRollback \/ DecodeSync
        PROVE  at' \notin {"prefill_allocate", "prefill_sync"}
    BY <1>6 DEF PrefillSync, DecodeRollback, DecodeSync
  <1> QED
    BY <1>1, <1>2, <1>3, <1>4, <1>5, <1>6 DEF Next

\* What the handler knows to be cached is cached in the slots of its row, and that is all
\* that sync_state finds cached when no page was computed again.
KnownCached(n) ==
    \A i \in 1..PageFloor(Len(Text(cur, n))) :
        PageOf(Text(cur, n), i) \in DOMAIN tree => row[cur][i] = CachedSlot(Text(cur, n), i)

\* A cached page of the text that is about to be inserted ends within what is known.
LEMMA KnownBounds ==
    ASSUME IndInv, NoPageRecomputed, at \in {"prefill_sync", "decode_sync"},
           NextText \in Seq(Token), NEW i \in 1..PageFloor(Len(NextText)),
           PageOf(NextText, i) \in DOMAIN tree, Known \in Int
    PROVE  i \in 1..Known
  <1> DEFINE e == PageFloor(i - 1) + PageSize
             s == NextText
  <1>1. Len(s) \in Nat /\ PageFloor(Len(s)) \in Nat /\ PageFloor(Len(s)) <= Len(s)
    <2>1. Len(s) \in Nat
      OBVIOUS
    <2> QED
      BY <2>1, PageFloorBounds
  <1>2. i \in Nat \ {0} /\ i <= PageFloor(Len(s))
    BY <1>1
  <1>3. /\ PageOf(s, i) \in PrefixPages(s, NumPages(s)) /\ e \in Nat
        /\ e <= PageFloor(Len(s))
    BY <1>2, PageOfPrefix
  <1>4. Len(PageOf(s, i)) <= Known
    BY <1>3 DEF NoPageRecomputed
  <1>5. i <= e
    BY <1>2, PageAround
  <1> HIDE DEF e, s
  <1>6. Len(PageOf(s, i)) = e
    <2>1. PageOf(s, i) = SubSeq(s, 1, e)
      BY DEF PageOf, e
    <2>2. s \in Seq(Token) /\ e <= Len(s)
      BY <1>1, <1>3 DEF s
    <2> QED
      BY <1>3, <2>1, <2>2
  <1> QED
    BY <1>2, <1>3, <1>4, <1>5, <1>6

\* For a prefill that is its match.
LEMMA PrefillKnows ==
    ASSUME IndInv, RowMatched, NoPageRecomputed, at = "prefill_sync"
    PROVE  KnownCached(0)
  <1>1. /\ cur \in Req /\ Prompt[cur] \in Seq(Token) /\ row[cur] \in Seq(Nat)
        /\ charged[cur] \in Nat
    BY WorkloadAssumption
       DEF WorkloadAssumption, IndInv, ControlInv, TypeOK, BackendTypeOK
  <1>2. Text(cur, 0) = Prompt[cur]
    BY <1>1, TextsTyped
  <1>3. NextText = Prompt[cur] /\ Known = Len(row[cur]) - charged[cur]
    BY <1>2 DEF NextText, Known
  <1>4. Known \in Int
    BY <1>1, <1>3
  <1> QED
    BY <1>1, <1>2, <1>3, <1>4, KnownBounds DEF KnownCached, RowMatched

\* For a decode it is what it has locked.
LEMMA DecodeKnows ==
    ASSUME IndInv, LockInv, LockedCachedInv, NoPageRecomputed, at = "decode_sync",
           NEW n \in Nat, n = outLen[cur] + Bonus(cur) + accepted, n <= Len(Output[cur])
    PROVE  KnownCached(n)
  <1> DEFINE t == Text(cur, n)
             s == Text(cur, outLen[cur])
             l == lastNode[cur]
             f == PageFloor(Len(s))
  <1>1. /\ cur \in Req /\ status[cur] = "decoding" /\ outLen[cur] \in Nat
        /\ accepted \in Nat /\ Len(Output[cur]) \in Nat
    BY WorkloadAssumption, HandlerAssumption
       DEF WorkloadAssumption, HandlerAssumption, IndInv, ControlInv, TypeOK, BackendTypeOK,
           HandlerTypeOK
  <1>2. outLen[cur] <= n
    BY <1>1 DEF Bonus
  <1>3. t \in Seq(Token) /\ s \in Seq(Token)
    BY <1>1, <1>2, TextType
  <1>4. /\ l \in Seq(Token) /\ Len(l) \in Nat /\ Len(l) = f /\ f <= Len(s)
    BY <1>1, LockedPositions
  <1>5. l = SubSeq(t, 1, f)
    <2>1. l = SubSeq(s, 1, f)
      BY <1>1 DEF LockInv, PageAligned
    <2>2. SubSeq(t, 1, f) = SubSeq(s, 1, f)
      BY <1>1, <1>2, <1>4, TextGrows
    <2> QED
      BY <2>1, <2>2
  <1>6. NextText = t /\ Known = f
    BY <1>4 DEF NextText, Known
  <1>7. f <= Len(t)
    <2>1. Len(s) = Len(Prompt[cur]) + outLen[cur] /\ Len(t) = Len(Prompt[cur]) + n
          /\ Len(Prompt[cur]) \in Nat
      <3>1. n \in 0..Len(Output[cur]) /\ outLen[cur] \in 0..Len(Output[cur])
        BY <1>1, <1>2
      <3> QED
        BY <1>1, <3>1, TextType
    <2> QED
      BY <1>1, <1>2, <1>4, <2>1
  <1>8. ASSUME NEW i \in 1..PageFloor(Len(t)), PageOf(t, i) \in DOMAIN tree
        PROVE  row[cur][i] = CachedSlot(t, i)
    <2> HIDE DEF t, s, l, f
    <2>1. i \in 1..f
      BY <1>3, <1>4, <1>6, <1>8, KnownBounds
    <2>2. CachedAt(l, i, row[cur][i])
      BY <1>1, <1>4, <2>1 DEF LockedCachedInv, l
    <2> DEFINE e == PageFloor(i - 1) + PageSize
    <2>3. e <= Len(l) /\ PageOf(l, i) = SubSeq(l, 1, e) /\ PageOf(t, i) = SubSeq(t, 1, e)
      BY <2>2 DEF CachedAt, PageWithin, PageOf
    <2>4. e \in Nat
      <3>1. i \in Nat \ {0}
        BY <1>4, <2>1
      <3>2. PageFloor(i - 1) \in Nat /\ PageSize \in Nat
        BY <3>1, PageAround
      <3> QED
        BY <3>2
    <2> HIDE DEF e
    <2>5. PageOf(l, i) = PageOf(t, i)
      BY <1>3, <1>4, <1>5, <1>7, <2>3, <2>4
    <2> QED
      BY <2>2, <2>5 DEF CachedAt, CachedSlot, PageOf
  <1> QED
    BY <1>8 DEF KnownCached

\* No step leaves a locked page of a row uncached, when no page is computed again.
LEMMA CachedStep ==
    ASSUME IndInv, IndInv', LockInv, LockedCachedInv, RowMatched, NoPageRecomputed,
           [Next]_vars
    PROVE  LockedCachedInv'
  <1>1. CASE UNCHANGED vars
    BY <1>1, TreeKeepsCached DEF vars, handlerVars, backendVars, handleVars
  <1>2. ASSUME NEW r \in Req, PrefillMatch(r) PROVE LockedCachedInv'
    BY <1>2, TreeKeepsCached DEF PrefillMatch, backendVars, handleVars
  <1>3. CASE PrefillAllocate
    <2> DEFINE n == Len(Prompt[cur]) - numComputed[cur]
    <2>1. cur \in Req /\ n \in Int /\ blocks \in Seq(Nat) /\ status' = status
      <3>1. cur \in Req /\ status' = status /\ blocks \in Seq(Nat)
        BY <1>3 DEF PrefillAllocate, IndInv, ControlInv, TypeOK, HandlerTypeOK
      <3>2. Prompt[cur] \in Seq(Token) /\ numComputed[cur] \in Nat
        BY <3>1, WorkloadAssumption DEF WorkloadAssumption, IndInv, TypeOK, HandlerTypeOK
      <3> QED
        BY <3>1, <3>2
    <2>2. \/ AllocateNothing(cur, n, blocks)
          \/ AllocateSucceeds(cur, n, blocks)
          \/ AllocateFails(cur, n, blocks)
      BY <1>3 DEF PrefillAllocate
    <2> HIDE DEF n
    <2> QED
      BY <2>1, <2>2, AllocateKeepsCached
  <1>4. ASSUME NEW r \in Req, DecodeAllocate(r) PROVE LockedCachedInv'
    <2> DEFINE n == 1 + Drafts(r)
    <2>1. /\ status' = status /\ <<>> \in Seq(Nat)
          /\ AllocateSucceeds(r, n, <<>>) \/ AllocateFails(r, n, <<>>)
      BY <1>4 DEF DecodeAllocate
    <2>2. n \in Int
      BY DraftsNatural DEF IndInv, TypeOK
    <2> HIDE DEF n
    <2> QED
      BY <2>1, <2>2, AllocateKeepsCached
  <1>5. CASE PrefillSync
    <2>1. /\ cur \in Req /\ SyncState(cur, 0) /\ 0 \in 0..Len(Output[cur])
          /\ status' = [status EXCEPT ![cur] = "decoding"] /\ at = "prefill_sync"
      BY <1>5, WorkloadAssumption
         DEF WorkloadAssumption, PrefillSync, IndInv, ControlInv, ContractsKept
    <2>2. \A q \in Req \ {cur} : status'[q] = status[q]
      BY <2>1 DEF IndInv, TypeOK, HandlerTypeOK
    <2>3. KnownCached(0)
      BY <2>1, PrefillKnows
    <2> QED
      BY <2>1, <2>2, <2>3, SyncKeepsCached DEF KnownCached
  <1>6. CASE DecodeSync
    <2> DEFINE n == outLen[cur] + Bonus(cur) + accepted
    <2>1. cur \in Req /\ SyncState(cur, n) /\ n \in Nat /\ n <= Len(Output[cur])
      BY <1>6, DecodeSyncText
    <2>2. n \in 0..Len(Output[cur])
      <3>1. Len(Output[cur]) \in Nat
        BY <2>1, WorkloadAssumption DEF WorkloadAssumption
      <3> HIDE DEF n
      <3> QED
        BY <2>1, <3>1
    <2>3. at = "decode_sync" /\ \A q \in Req \ {cur} : status'[q] = status[q]
      BY <1>6 DEF DecodeSync, IndInv, ControlInv, ContractsKept, TypeOK, HandlerTypeOK
    <2>4. KnownCached(n)
      BY <2>1, <2>3, DecodeKnows
    <2> HIDE DEF n
    <2> QED
      BY <2>1, <2>2, <2>3, <2>4, SyncKeepsCached DEF KnownCached
  <1>7. CASE DecodeRollback
    BY <1>7, RollbackKeepsCached
  <1>8. ASSUME NEW r \in Req, Cleanup(r) PROVE LockedCachedInv'
    <2>1. /\ status' = [status EXCEPT ![r] = "freed"] /\ row' = [row EXCEPT ![r] = <<>>]
          /\ lastNode' = [lastNode EXCEPT ![r] = <<>>] /\ tree' = tree
      BY <1>8 DEF Cleanup, Free
    <2>2. \A q \in Req : status'[q] \in {"decoding", "finished"} =>
             /\ status[q] \in {"decoding", "finished"} /\ lastNode'[q] = lastNode[q]
             /\ \A i \in 1..Len(lastNode[q]) : row'[q][i] = row[q][i]
      BY <2>1 DEF IndInv, TypeOK, BackendTypeOK, HandlerTypeOK
    <2> QED
      BY <2>1, <2>2, TreeKeepsCached
  <1> QED
    BY <1>1, <1>2, <1>3, <1>4, <1>5, <1>6, <1>7, <1>8 DEF Next

\* Where every slot handed out is: in use, or free.
InUse == Range(freeList) \cup TreeSlots \cup UNION {RowSlots(q) : q \in Req}

\* The slots in use after the step.
LEMMA UsedNext ==
    ASSUME NEW x, \/ x \in Range(freeList')
                  \/ \E p \in DOMAIN tree' : x \in Range(tree'[p])
                  \/ \E q \in Req : x \in Range(row'[q])
    PROVE  x \in InUse'
  BY DEF InUse, TreeSlots, RowSlots

\* Every slot handed out so far is in use, so none is lost.
LEMMA LostNothing ==
    ASSUME nextIdx' \in Nat, \A x \in 0..(nextIdx' - 1) : x \in InUse'
    PROVE  NoSlotLost'
  BY DEF NoSlotLost, InUse

\* allocate_slots that evicts, hands out and keeps the rest.
LEMMA HandedOut ==
    ASSUME IndInv, NoSlotLost, NEW r \in Req, NEW n \in Int, NEW order \in Evictions(n),
           tree' = WithoutPages(order),
           NEW taken, Splits(freeList \o EvictedSlots(order), taken, freeList', nextIdx'),
           NEW held \in Seq(Nat), row' = [row EXCEPT ![r] = held \o taken],
           \A q \in Req : \A i \in DOMAIN row[q] :
               i \in DOMAIN row'[q] /\ row'[q][i] = row[q][i]
    PROVE  NoSlotLost'
  <1>1. /\ BackendTypeOK /\ freeList \in Seq(Nat) /\ EvictedSlots(order) \in Seq(Nat)
        /\ row \in [Req -> Seq(Nat)] /\ nextIdx \in Nat
    BY EvictedPlaces DEF IndInv, TypeOK, BackendTypeOK
  <1>2. Range(freeList \o EvictedSlots(order))
           = Range(freeList) \cup UNION {Range(tree[p]) : p \in Range(order)}
    BY <1>1, JoinedRange, EvictedRange
  <1>3. /\ Range(taken) \cup Range(freeList')
             = Range(freeList) \cup (UNION {Range(tree[p]) : p \in Range(order)})
                  \cup nextIdx..(nextIdx' - 1)
        /\ nextIdx' \in Nat /\ nextIdx <= nextIdx' /\ taken \in Seq(Nat)
    BY <1>2 DEF Splits
  <1>4. Range(taken) \subseteq Range(row'[r])
    <2>1. Range(held \o taken) = Range(held) \cup Range(taken)
      BY <1>3, JoinedRange
    <2> QED
      BY <1>1, <2>1
  <1>5. \A x : x \in Range(taken) \cup Range(freeList') => x \in InUse'
    BY <1>4, UsedNext
  <1> SUFFICES ASSUME NEW x \in 0..(nextIdx' - 1) PROVE x \in InUse'
    BY <1>3, LostNothing
  <1>6. CASE x \in 0..(nextIdx - 1)
    <2>1. CASE x \in Range(freeList)
      BY <1>3, <1>5, <2>1
    <2>2. CASE x \in TreeSlots
      <3>1. PICK p \in DOMAIN tree : x \in Range(tree[p])
        BY <2>2 DEF TreeSlots
      <3>2. CASE p \in Range(order)
        BY <1>3, <1>5, <3>1, <3>2
      <3>3. CASE p \notin Range(order)
        <4>1. p \in DOMAIN tree' /\ tree'[p] = tree[p]
          BY <3>3 DEF WithoutPages, Restrict
        <4> QED
          BY <3>1, <4>1, UsedNext
      <3> QED
        BY <3>2, <3>3
    <2>3. ASSUME NEW q \in Req, x \in RowSlots(q) PROVE x \in InUse'
      <3>1. PICK i \in DOMAIN row[q] : row[q][i] = x
        BY <2>3 DEF RowSlots, Range
      <3>2. x \in Range(row'[q])
        BY <3>1 DEF Range
      <3> QED
        BY <3>2, UsedNext
    <2> QED
      BY <1>6, <2>1, <2>2, <2>3 DEF NoSlotLost
  <1>7. CASE x \notin 0..(nextIdx - 1)
    <2>1. x \in nextIdx..(nextIdx' - 1)
      BY <1>1, <1>3, <1>7
    <2> QED
      BY <1>3, <1>5, <2>1
  <1> QED
    BY <1>6, <1>7

\* allocate_slots moves slots between the tree, the free list and the row of its request.
LEMMA AllocateLosesNothing ==
    ASSUME IndInv, LockInv, NoSlotLost, NEW r \in Req, NEW n \in Int, NEW prefix \in Seq(Nat),
           \/ AllocateNothing(r, n, prefix)
           \/ AllocateSucceeds(r, n, prefix)
           \/ AllocateFails(r, n, prefix)
    PROVE  NoSlotLost'
  <1>1. /\ BackendTypeOK /\ row[r] \in Seq(Nat) /\ row[r] \o prefix \in Seq(Nat)
        /\ nextIdx \in Nat
    BY DEF IndInv, TypeOK, BackendTypeOK
  <1>2. \A q \in Req : \A i \in DOMAIN row[q] :
           i \in DOMAIN row'[q] /\ row'[q][i] = row[q][i]
    BY AllocateStays
  <1>3. CASE AllocateNothing(r, n, prefix)
    <2>1. freeList' = freeList /\ nextIdx' = nextIdx /\ tree' = tree
      BY <1>3 DEF AllocateNothing, poolVars
    <2>2. ASSUME NEW q \in Req, NEW x \in RowSlots(q) PROVE x \in Range(row'[q])
      BY <1>2 DEF RowSlots, Range
    <2>3. ASSUME NEW x \in 0..(nextIdx' - 1) PROVE x \in InUse'
      BY <2>1, <2>2, UsedNext DEF NoSlotLost, TreeSlots
    <2> QED
      BY <1>1, <2>1, <2>3, LostNothing
  <1>4. CASE AllocateSucceeds(r, n, prefix)
    <2>1. PICK order \in Evictions(n) :
             LET pool == freeList \o EvictedSlots(order)
             IN /\ tree' = WithoutPages(order)
                /\ freeList' = FlatRest(n, pool) /\ nextIdx' = FlatNext(n, pool)
                /\ row' = [row EXCEPT ![r] = @ \o prefix \o FlatTaken(n, pool)]
      BY <1>4 DEF AllocateSucceeds
    <2> DEFINE pool == freeList \o EvictedSlots(order)
    <2>2. n \in Nat \ {0}
      BY <1>4 DEF AllocateSucceeds
    <2>3. pool \in Seq(Nat)
      BY <1>1, EvictedAccounting DEF IndInv, PoolInv
    <2>4. Splits(pool, FlatTaken(n, pool), freeList', nextIdx')
      BY <1>1, <2>1, <2>2, <2>3, TakenApart
    <2> DEFINE taken == FlatTaken(n, pool)
    <2>5. row' = [row EXCEPT ![r] = (row[r] \o prefix) \o taken]
      BY <2>1
    <2>6. Splits(freeList \o EvictedSlots(order), taken, freeList', nextIdx')
      BY <2>4
    <2> HIDE DEF taken, pool
    <2> QED
      BY <1>1, <1>2, <2>1, <2>5, <2>6, HandedOut
  <1>5. CASE AllocateFails(r, n, prefix)
    <2>1. PICK order \in Evictions(n) :
             tree' = WithoutPages(order) /\ freeList' = freeList \o EvictedSlots(order)
      BY <1>5 DEF AllocateFails
    <2>2. nextIdx' = nextIdx /\ row' = [row EXCEPT ![r] = (row[r] \o prefix) \o <<>>]
      BY <1>1, <1>5 DEF AllocateFails
    <2>3. freeList' \in Seq(Nat)
      BY <1>1, <2>1, EvictedAccounting DEF IndInv, PoolInv
    <2>4. /\ <<>> \in Seq(Nat) /\ IsInjective(<<>>) /\ Range(<<>>) = {}
          /\ nextIdx..(nextIdx - 1) = {}
      BY <1>1 DEF IsInjective, Range
    <2>5. Splits(freeList \o EvictedSlots(order), <<>>, freeList', nextIdx')
      BY <1>1, <2>1, <2>2, <2>3, <2>4 DEF Splits
    <2> QED
      BY <1>1, <1>2, <2>1, <2>2, <2>5, HandedOut
  <1> QED
    BY <1>3, <1>4, <1>5

\* The end of a row goes to the free list, and what was before it stays in the row or is
\* cached.
LEMMA TailLosesNothing ==
    ASSUME IndInv, NoSlotLost, NEW r \in Req, NEW k \in 0..Len(row[r]), NEW j \in 0..k,
           freeList' = freeList \o SubSeq(row[r], k + 1, Len(row[r])),
           row' = [row EXCEPT ![r] = SubSeq(@, 1, j)], tree' = tree, nextIdx' = nextIdx,
           \A i \in (j + 1)..k : row[r][i] \in TreeSlots
    PROVE  NoSlotLost'
  <1> DEFINE l == Len(row[r])
             tail == SubSeq(row[r], k + 1, l)
             head == SubSeq(row[r], 1, j)
  <1>1. /\ row \in [Req -> Seq(Nat)] /\ row[r] \in Seq(Nat) /\ DOMAIN row[r] = 1..l /\ l \in Nat
        /\ k \in Nat /\ j \in Nat /\ k <= l /\ j <= k /\ freeList \in Seq(Nat) /\ nextIdx \in Nat
    BY DEF IndInv, TypeOK, BackendTypeOK
  <1> HIDE DEF l
  <1>2. tail \in Seq(Nat) /\ \A i \in (k + 1)..l : row[r][i] \in Range(tail)
    <2>1. k + 1 \in Nat \ {0} /\ l <= Len(row[r])
      BY <1>1 DEF l
    <2>2. tail \in Seq(Nat) /\ Range(tail) = {row[r][i] : i \in (k + 1)..l}
      BY <1>1, <2>1, PartApart
    <2> QED
      BY <2>2
  <1>3. DOMAIN head = 1..j /\ \A i \in 1..j : head[i] = row[r][i]
    BY <1>1 DEF l
  <1>4. freeList' = freeList \o tail /\ row'[r] = head
    BY <1>1 DEF l
  <1> HIDE DEF tail, head
  <1>5. Range(freeList') = Range(freeList) \cup Range(tail)
    BY <1>1, <1>2, <1>4, JoinedRange
  <1> SUFFICES ASSUME NEW x \in 0..(nextIdx - 1) PROVE x \in InUse'
    BY <1>1, LostNothing
  <1>6. CASE x \in Range(freeList)
    BY <1>5, <1>6, UsedNext
  <1>7. CASE x \in TreeSlots
    BY <1>7, UsedNext DEF TreeSlots
  <1>8. ASSUME NEW q \in Req, x \in RowSlots(q) PROVE x \in InUse'
    <2>1. CASE q # r
      BY <1>1, <1>8, <2>1, UsedNext DEF RowSlots
    <2>2. CASE q = r
      <3>1. PICK i \in 1..l : row[r][i] = x
        BY <1>1, <1>8, <2>2 DEF RowSlots, Range
      <3>2. i \in 1..j \/ i \in (j + 1)..k \/ i \in (k + 1)..l
        BY <1>1
      <3>3. CASE i \in 1..j
        <4>1. x \in Range(row'[r])
          BY <1>3, <1>4, <3>1, <3>3 DEF Range
        <4> QED
          BY <4>1, UsedNext
      <3>4. CASE i \in (j + 1)..k
        BY <1>7, <3>1, <3>4
      <3>5. CASE i \in (k + 1)..l
        <4>1. x \in Range(tail)
          BY <1>2, <3>1, <3>5
        <4> QED
          BY <1>5, <4>1, UsedNext
      <3> QED
        BY <3>2, <3>3, <3>4, <3>5
    <2> QED
      BY <2>1, <2>2
  <1> QED
    BY <1>6, <1>7, <1>8 DEF NoSlotLost

\* free_rejected_slots moves the rejected slots of the row to the free list.
LEMMA RollbackLosesNothing ==
    ASSUME IndInv, IndInv', NoSlotLost, DecodeRollback
    PROVE  NoSlotLost'
  <1>1. cur \in Req
    BY DEF DecodeRollback, IndInv, ControlInv
  <1>2. PICK a \in 0..drafts : FreeRejectedSlots(cur, drafts - a)
    BY DEF DecodeRollback, IndInv, ControlInv, ContractsKept
  <1> DEFINE m == drafts - a
             k == Len(row[cur]) - m
  <1>3. m \in Nat
    <2>1. drafts \in Nat
      BY HandlerAssumption DEF IndInv, TypeOK, HandlerTypeOK, HandlerAssumption
    <2> QED
      BY <2>1
  <1>4. FreeRejectedSlots(cur, m)
    BY <1>2
  <1>5. row \in [Req -> Seq(Nat)] /\ row[cur] \in Seq(Nat) /\ Len(row[cur]) \in Nat
    <2>1. row \in [Req -> Seq(Nat)] /\ row[cur] \in Seq(Nat)
      BY <1>1 DEF IndInv, TypeOK, BackendTypeOK
    <2> QED
      BY <2>1
  <1> HIDE DEF m
  <1>6. CASE m <= 0
    <2>1. UNCHANGED <<nextIdx, freeList, tree, row>>
      BY <1>4, <1>6 DEF FreeRejectedSlots, backendVars, poolVars, handleVars
    <2> QED
      BY <2>1 DEF NoSlotLost, TreeSlots, RowSlots
  <1>7. CASE ~(m <= 0)
    <2>1. /\ freeList' = freeList \o SubSeq(row[cur], Len(row[cur]) - m + 1, Len(row[cur]))
          /\ row' = [row EXCEPT ![cur] = SubSeq(@, 1, Len(@) - m)]
          /\ tree' = tree /\ nextIdx' = nextIdx /\ ~RejectedTailMissing(cur, m)
      BY <1>4, <1>7 DEF FreeRejectedSlots, FreeFlat
    <2>2. k \in 0..Len(row[cur]) /\ k \in 0..k /\ (k + 1)..k = {} /\ Len(row[cur]) - m + 1 = k + 1
      <3>1. ~(Len(row[cur]) < m)
        BY <1>3, <1>7, <2>1 DEF RejectedTailMissing
      <3> QED
        BY <1>3, <1>5, <3>1
    <2>3. row' = [row EXCEPT ![cur] = SubSeq(@, 1, k)]
      BY <1>1, <1>5, <2>1
    <2>4. freeList' = freeList \o SubSeq(row[cur], k + 1, Len(row[cur]))
      BY <2>1, <2>2
    <2> HIDE DEF k
    <2> QED
      BY <1>1, <2>1, <2>2, <2>3, <2>4, TailLosesNothing
  <1> QED
    BY <1>6, <1>7

\* free returns every slot of the row that the tree does not keep.
LEMMA CleanupLosesNothing ==
    ASSUME IndInv, LockInv, LockedCachedInv, NoSlotLost, NEW r \in Req, Cleanup(r)
    PROVE  NoSlotLost'
  <1>1. Free(r) /\ status[r] = "finished"
    BY DEF Cleanup
  <1> DEFINE f == PageFloor(Len(Text(r, outLen[r])))
             l == Len(row[r])
  <1>2. /\ lastNode[r] \in Seq(Token) /\ Len(lastNode[r]) = f /\ f \in Nat /\ l \in Nat
        /\ f <= l
    BY <1>1, LockedPositions
  <1>3. row \in [Req -> Seq(Nat)] /\ row[r] \in Seq(Nat) /\ freeList \in Seq(Nat) /\ BackendTypeOK
    BY DEF IndInv, TypeOK, BackendTypeOK
  <1>4. /\ tree' = tree /\ nextIdx' = nextIdx /\ row' = [row EXCEPT ![r] = <<>>]
        /\ l > f => freeList' = freeList \o SubSeq(row[r], f + 1, l)
        /\ ~(l > f) => freeList' = freeList
    BY <1>1 DEF Free, FreeFlat
  <1>5. \A i \in 1..f : row[r][i] \in TreeSlots
    <2> SUFFICES ASSUME NEW i \in 1..f PROVE row[r][i] \in TreeSlots
      OBVIOUS
    <2>1. CachedAt(lastNode[r], i, row[r][i]) /\ i \in Nat \ {0}
      BY <1>1, <1>2 DEF LockedCachedInv
    <2> QED
      BY <1>2, <1>3, <2>1, CachedInPage
  <1> HIDE DEF f, l
  <1>6. freeList' = freeList \o SubSeq(row[r], f + 1, l)
    <2>1. CASE ~(l > f)
      <3>1. l = f
        BY <1>2, <2>1
      <3>2. SubSeq(row[r], l + 1, l) = <<>> /\ freeList \o <<>> = freeList
        BY <1>2, <1>3
      <3> QED
        BY <1>4, <2>1, <3>1, <3>2
    <2> QED
      BY <1>4, <2>1
  <1>7. f \in 0..l /\ 0 \in 0..f /\ 0 + 1 = 1
    BY <1>2
  <1>8. row' = [row EXCEPT ![r] = SubSeq(@, 1, 0)]
    <2>1. SubSeq(row[r], 1, 0) = <<>>
      BY <1>3
    <2> QED
      BY <1>3, <1>4, <2>1
  <1> QED
    BY <1>4, <1>5, <1>6, <1>7, <1>8, TailLosesNothing DEF l

\* No step loses a slot, when no page is computed again.
LEMMA LossStep ==
    ASSUME IndInv, IndInv', LockInv, LockedCachedInv, NoSlotLost, [Next]_vars
    PROVE  NoSlotLost'
  <1>1. ASSUME UNCHANGED <<nextIdx, freeList, row>>, DOMAIN tree \subseteq DOMAIN tree',
               \A p \in DOMAIN tree : tree'[p] = tree[p]
        PROVE  NoSlotLost'
    <2>1. nextIdx' \in Nat
      BY <1>1 DEF IndInv, TypeOK, BackendTypeOK
    <2>2. ASSUME NEW x \in 0..(nextIdx' - 1) PROVE x \in InUse'
      <3>1. x \in Range(freeList) \/ x \in TreeSlots \/ \E q \in Req : x \in RowSlots(q)
        BY <1>1 DEF NoSlotLost
      <3> QED
        BY <1>1, <3>1, UsedNext DEF TreeSlots, RowSlots
    <2> QED
      BY <2>1, <2>2, LostNothing
  <1>2. CASE UNCHANGED vars
    BY <1>1, <1>2 DEF vars, backendVars, poolVars, handleVars
  <1>3. ASSUME NEW r \in Req, PrefillMatch(r) PROVE NoSlotLost'
    BY <1>1, <1>3 DEF PrefillMatch, backendVars, poolVars, handleVars
  <1>4. CASE PrefillAllocate
    <2> DEFINE n == Len(Prompt[cur]) - numComputed[cur]
    <2>1. cur \in Req /\ n \in Int /\ blocks \in Seq(Nat)
      <3>1. cur \in Req /\ blocks \in Seq(Nat)
        BY <1>4 DEF PrefillAllocate, IndInv, ControlInv, TypeOK, HandlerTypeOK
      <3>2. Prompt[cur] \in Seq(Token) /\ numComputed[cur] \in Nat
        BY <3>1, WorkloadAssumption DEF WorkloadAssumption, IndInv, TypeOK, HandlerTypeOK
      <3> QED
        BY <3>1, <3>2
    <2>2. \/ AllocateNothing(cur, n, blocks)
          \/ AllocateSucceeds(cur, n, blocks)
          \/ AllocateFails(cur, n, blocks)
      BY <1>4 DEF PrefillAllocate
    <2> HIDE DEF n
    <2> QED
      BY <2>1, <2>2, AllocateLosesNothing
  <1>5. ASSUME NEW r \in Req, DecodeAllocate(r) PROVE NoSlotLost'
    <2> DEFINE n == 1 + Drafts(r)
    <2>1. <<>> \in Seq(Nat) /\ (AllocateSucceeds(r, n, <<>>) \/ AllocateFails(r, n, <<>>))
      BY <1>5 DEF DecodeAllocate
    <2>2. n \in Int
      BY DraftsNatural DEF IndInv, TypeOK
    <2> HIDE DEF n
    <2> QED
      BY <2>1, <2>2, AllocateLosesNothing
  <1>6. ASSUME NEW r \in Req, NEW n, SyncState(r, n) PROVE NoSlotLost'
    BY <1>1, <1>6 DEF SyncState, Inserted
  <1>7. CASE PrefillSync
    BY <1>6, <1>7 DEF PrefillSync, IndInv, ControlInv, ContractsKept
  <1>8. CASE DecodeSync
    BY <1>6, <1>8, DecodeSyncText
  <1>9. CASE DecodeRollback
    BY <1>9, RollbackLosesNothing
  <1>10. ASSUME NEW r \in Req, Cleanup(r) PROVE NoSlotLost'
    BY <1>10, CleanupLosesNothing
  <1> QED
    BY <1>2, <1>3, <1>4, <1>5, <1>7, <1>8, <1>9, <1>10 DEF Next

\* Where the slots of the requests are, when no page is computed again.
PlaceInv == LockInv /\ HoldingInv /\ MatchedInv /\ LockedCachedInv

LEMMA PlacesKept == Spec /\ []NoPageRecomputed => [](IndInv /\ PlaceInv)
  <1>1. Init => PlaceInv
    <2> SUFFICES ASSUME Init PROVE PlaceInv
      OBVIOUS
    <2>1. /\ \A q \in Req : /\ status[q] = "prefill" /\ row[q] = <<>> /\ lastNode[q] = <<>>
                            /\ charged[q] = 0
          /\ at = "idle"
      BY DEF Init, BackendInit
    <2>2. HoldingInv
      BY <2>1 DEF HoldingInv
    <2> QED
      BY <2>1, <2>2 DEF PlaceInv, LockInv, MatchedInv, MatchCached, RowMatched, LockedCachedInv
  <1>2. IndInv /\ IndInv' /\ PlaceInv /\ NoPageRecomputed /\ [Next]_vars => PlaceInv'
    BY LockStep, HoldingStep, MatchedStep, CachedStep DEF PlaceInv, MatchedInv
  <1> QED
    BY <1>1, <1>2, Inductive, PTL DEF Spec

\* As long as no request inserts a page that it computed a second time, every slot handed
\* out is free, in a row or in the tree.
THEOREM SlotsNeverLost == Spec /\ []NoPageRecomputed => []NoSlotLost
  <1>1. Init => NoSlotLost
    <2> SUFFICES ASSUME Init PROVE NoSlotLost
      OBVIOUS
    <2>1. nextIdx = 0 /\ 0..(0 - 1) = {}
      BY DEF Init, BackendInit
    <2> QED
      BY <2>1 DEF NoSlotLost
  <1>2. IndInv /\ IndInv' /\ PlaceInv /\ NoSlotLost /\ [Next]_vars => NoSlotLost'
    BY LossStep DEF PlaceInv
  <1> QED
    BY <1>1, <1>2, PlacesKept, PTL DEF Spec

-----------------------------------------------------------------------------
(* The use of the full pool: cached pages, and what requests hold beside them *)

\* The pages that an eviction takes out are unlocked ones, each once.
LEMMA EvictedCount ==
    ASSUME IsFiniteSet(DOMAIN tree),
           NEW order \in BoundedSeq(Unlocked, Cardinality(Unlocked)), IsInjective(order)
    PROVE  /\ IsFiniteSet(Unlocked) /\ Cardinality(Unlocked) \in Nat
           /\ Len(order) \in Nat /\ Len(order) <= Cardinality(Unlocked)
           /\ Cardinality(Unlocked \ Range(order)) = Cardinality(Unlocked) - Len(order)
  <1>1. IsFiniteSet(Unlocked) /\ Cardinality(Unlocked) \in Nat
    BY FS_Subset, FS_CardinalityType DEF Unlocked
  <1>2. PICK m \in 0..Cardinality(Unlocked) : order \in [1..m -> Unlocked]
    BY DEF BoundedSeq, SeqOf
  <1>3. m \in Nat /\ Len(order) = m /\ m <= Cardinality(Unlocked)
    BY <1>1, <1>2
  <1>4. IsFiniteSet(1..m) /\ Cardinality(1..m) = m
    BY <1>3, FS_Interval
  <1>5. /\ order \in Surjection(1..m, Range(order))
        /\ order \in Injection(1..m, Range(order))
    BY <1>2 DEF Surjection, Injection, Range, IsInjective
  <1>6. Cardinality(Range(order)) = m
    BY <1>4, <1>5, FS_Surjection
  <1>7. Unlocked \cap Range(order) = Range(order)
    BY <1>2 DEF Range
  <1>8. Cardinality(Unlocked \ Range(order))
            = Cardinality(Unlocked) - Cardinality(Unlocked \cap Range(order))
    BY <1>1, FS_Difference
  <1> QED
    BY <1>1, <1>3, <1>6, <1>7, <1>8

\* What is left in the cache by an eviction that takes out order.
LEMMA EvictionLeaves ==
    ASSUME IsFiniteSet(DOMAIN tree), BackendTypeOK, NEW n \in Int,
           NEW order \in Evictions(n), tree' = WithoutPages(order), lastNode' = lastNode
    PROVE  /\ IsFiniteSet(DOMAIN tree')
           /\ Cardinality(Unlocked) \in Nat /\ Len(order) \in Nat
           /\ Len(order) <= Cardinality(Unlocked)
           /\ Cardinality(Unlocked') = Cardinality(Unlocked) - Len(order)
           /\ Len(EvictedSlots(order)) = Len(order) * PageSize
  <1>1. DOMAIN tree' = DOMAIN tree \ Range(order)
    BY DEF WithoutPages, Restrict
  <1>2. IsFiniteSet(DOMAIN tree')
    BY <1>1, FS_Subset
  <1>3. Unlocked' = Unlocked \ Range(order)
    BY <1>1 DEF Unlocked
  <1>4. order = <<>> \/ (order \in BoundedSeq(Unlocked, Cardinality(Unlocked))
                         /\ IsInjective(order))
    BY DEF Evictions, EvictionOrders
  <1>5. /\ Cardinality(Unlocked) \in Nat /\ Len(order) \in Nat
        /\ Len(order) <= Cardinality(Unlocked)
        /\ Cardinality(Unlocked \ Range(order)) = Cardinality(Unlocked) - Len(order)
    <2>1. CASE order = <<>>
      <3>1. Cardinality(Unlocked) \in Nat
        BY FS_Subset, FS_CardinalityType DEF Unlocked
      <3>2. Len(order) = 0 /\ Range(order) = {}
        BY <2>1 DEF Range
      <3>3. Unlocked \ Range(order) = Unlocked
        BY <3>2
      <3> QED
        BY <3>1, <3>2, <3>3
    <2>2. CASE order \in BoundedSeq(Unlocked, Cardinality(Unlocked)) /\ IsInjective(order)
      BY <2>2, EvictedCount
    <2> QED
      BY <1>4, <2>1, <2>2
  <1>6. Len(EvictedSlots(order)) = Len(order) * PageSize
    <2>1. PageSize \in Nat
      BY SizeAssumption DEF SizeAssumption
    <2>2. Len(order) * PageSize \in Nat
      BY <1>5, <2>1
    <2> DEFINE m == Len(order) * PageSize
    <2>3. DOMAIN EvictedSlots(order) = 1..m /\ EvictedSlots(order) \in Seq(Nat)
      BY EvictedType DEF EvictedSlots
    <2> HIDE DEF m
    <2>4. Len(EvictedSlots(order)) = m
      BY <2>2, <2>3 DEF m
    <2> QED
      BY <2>4 DEF m
  <1> QED
    BY <1>2, <1>3, <1>5, <1>6

\* A text has finitely many pages.
LEMMA FinitePages ==
    ASSUME NEW t, NEW k \in Nat
    PROVE  IsFiniteSet(PrefixPages(t, k))
  <1> DEFINE f == [j \in 1..k |-> SubSeq(t, 1, j * PageSize)]
             S == 1..k
  <1>1. IsFiniteSet(S)
    BY FS_Interval
  <1>2. f \in Surjection(S, PrefixPages(t, k))
    BY DEF Surjection, PrefixPages
  <1> HIDE DEF f, S
  <1> QED
    BY <1>1, <1>2, FS_Surjection

\* The cache stays finite through whatever allocate_slots and sync_state do to it.
LEMMA TreeStaysFinite ==
    ASSUME IsFiniteSet(DOMAIN tree),
           \/ \E r, n, prefix : \/ AllocateNothing(r, n, prefix)
                                \/ AllocateSucceeds(r, n, prefix)
                                \/ AllocateFails(r, n, prefix)
           \/ \E r \in Req : \E n \in 0..Len(Output[r]) : SyncState(r, n)
    PROVE  IsFiniteSet(DOMAIN tree')
  <1>1. ASSUME NEW r, NEW n, NEW prefix,
               \/ AllocateNothing(r, n, prefix) \/ AllocateSucceeds(r, n, prefix)
               \/ AllocateFails(r, n, prefix)
        PROVE  IsFiniteSet(DOMAIN tree')
    <2>1. \A order : DOMAIN WithoutPages(order) \in SUBSET DOMAIN tree
      BY DEF WithoutPages, Restrict
    <2>2. DOMAIN tree' \in SUBSET DOMAIN tree
      BY <1>1, <2>1 DEF AllocateNothing, AllocateSucceeds, AllocateFails
    <2> QED
      BY <2>2, FS_Subset
  <1>2. ASSUME NEW r \in Req, NEW n \in 0..Len(Output[r]), SyncState(r, n)
        PROVE  IsFiniteSet(DOMAIN tree')
    <2> DEFINE key == PageAligned(Text(r, n))
               new == PrefixPages(key, NumPages(key))
    <2>1. Len(key) \in Nat
      <3> DEFINE s == Text(r, n)
      <3>1. s \in Seq(Token) /\ Len(s) \in Nat
        BY TextType
      <3> HIDE DEF s
      <3>2. PageFloor(Len(s)) \in 0..Len(s)
        BY <3>1, PageFloorBounds
      <3>3. SubSeq(s, 1, PageFloor(Len(s))) \in Seq(Token)
        BY <3>1, <3>2
      <3> QED
        BY <3>3 DEF PageAligned, s
    <2>2. NumPages(key) \in Nat
      <3> HIDE DEF key
      <3> QED
        BY <2>1, SizeAssumption, DivBounds DEF NumPages, SizeAssumption
    <2>3. DOMAIN tree' = DOMAIN tree \cup new
      BY <1>2 DEF SyncState, Inserted
    <2>4. IsFiniteSet(new)
      BY <2>2, FinitePages
    <2> HIDE DEF new
    <2> QED
      BY <2>3, <2>4, FS_Union
  <1> QED
    BY <1>1, <1>2

\* What the requests hold beside the cache, a number of tokens each.
Owned == SumFunctionOnSet([q \in Req |-> Own(q)], Req)
OwnTyped == \A q \in Req : Own(q) \in Nat

LEMMA OwnType == IndInv /\ LockInv => OwnTyped
  <1> SUFFICES ASSUME IndInv, LockInv, NEW q \in Req PROVE Own(q) \in Nat
    BY DEF OwnTyped
  <1>1. charged[q] \in Nat
    BY DEF IndInv, TypeOK, BackendTypeOK
  <1>2. CASE status[q] \in {"decoding", "finished"}
    <2>1. /\ Len(lastNode[q]) \in Nat /\ Len(row[q]) \in Nat
          /\ Len(lastNode[q]) <= Len(row[q])
      BY <1>2, LockedPositions
    <2> QED
      BY <1>2, <2>1 DEF Own
  <1> QED
    BY <1>1, <1>2 DEF Own

\* When it changes for one request, the sum changes by as much.
LEMMA OwnedChange ==
    ASSUME OwnTyped, OwnTyped', NEW r \in Req,
           \A q \in Req \ {r} : Own(q)' = Own(q)
    PROVE  /\ Owned \in Nat /\ Owned' \in Nat /\ Own(r) \in Nat /\ Own(r)' \in Nat
           /\ Owned' = Owned + (Own(r)' - Own(r))
  <1> DEFINE f == [q \in Req |-> Own(q)]
             d == [q \in Req |-> Own(q)']
  <1>1. IsFiniteSet(Req)
    BY WorkloadAssumption DEF WorkloadAssumption
  <1>2. Owned = SumFunctionOnSet(f, Req) /\ Owned' = SumFunctionOnSet(d, Req)
    BY DEF Owned
  <1>3. /\ \A q \in Req : f[q] = Own(q) /\ d[q] = Own(q)' /\ f[q] \in Nat /\ d[q] \in Nat
        /\ \A q \in Req \ {r} : d[q] = f[q]
    BY DEF OwnTyped
  <1> HIDE DEF f, d
  <1>4. DiffersAt(f, d, Req, r)
    BY <1>3 DEF DiffersAt
  <1>5. SumFunctionOnSet(d, Req) = SumFunctionOnSet(f, Req) + (d[r] - f[r])
    BY <1>1, <1>4, SumDiffers
  <1>6. SumFunctionOnSet(f, Req) \in Nat /\ SumFunctionOnSet(d, Req) \in Nat
    BY <1>1, <1>3, SumBounds
  <1> QED
    BY <1>2, <1>3, <1>5, <1>6

\* A pool used for t pages and s tokens is, after k of the pages were given back, used for
\* the rest.
LEMMA UseWithout ==
    ASSUME NEW f \in Nat, NEW t \in Nat, NEW s \in Nat, NEW k \in Nat, NEW p \in Nat, k <= t,
           f <= p * t + s
    PROVE  Monus(f, k * p) <= p * (t - k) + s
  <1>1. k * p \in Nat /\ p * (t - k) \in Nat /\ p * t \in Nat /\ p * t = k * p + p * (t - k)
    BY Z3
  <1> DEFINE a == k * p
             b == p * (t - k)
             c == p * t
  <1>2. a \in Nat /\ b \in Nat /\ c = a + b /\ f <= c + s
    BY <1>1
  <1> HIDE DEF a, b, c
  <1>3. Monus(f, a) <= b + s
    BY <1>2 DEF Monus
  <1> QED
    BY <1>3 DEF a, b

\* What the pool is used for, in whole and finitely many pages.
FullInv == IsFiniteSet(DOMAIN tree) /\ WholePages /\ FullUseInv

LEMMA FullUse == FullUseInv <=> fullUsed <= PageSize * Cardinality(DOMAIN tree) + Owned
  BY DEF FullUseInv, Owned

\* Evicting gives back what the pages took.
LEMMA EvictionFull ==
    ASSUME FullInv, BackendTypeOK, Owned \in Nat, NEW n \in Int, NEW order \in Evictions(n),
           tree' = WithoutPages(order), lastNode' = lastNode
    PROVE  /\ IsFiniteSet(DOMAIN tree') /\ WholePages'
           /\ Monus(fullUsed, Len(EvictedSlots(order)))
                <= PageSize * Cardinality(DOMAIN tree') + Owned
  <1> DEFINE t == Cardinality(DOMAIN tree)
             k == Len(order)
  <1>1. /\ IsFiniteSet(DOMAIN tree') /\ Len(EvictedSlots(order)) = k * PageSize
        /\ Cardinality(Unlocked) \in Nat /\ k \in Nat /\ k <= Cardinality(Unlocked)
        /\ Cardinality(Unlocked') = Cardinality(Unlocked) - k
    BY EvictionLeaves DEF FullInv
  <1>2. DOMAIN tree' = DOMAIN tree \ Range(order)
    BY DEF WithoutPages, Restrict
  <1>3. WholePages'
    BY <1>2 DEF FullInv, WholePages
  <1>4. Cardinality(DOMAIN tree') = t - k /\ t \in Nat /\ k <= t
    <2>1. Range(order) \subseteq Unlocked /\ Unlocked \subseteq DOMAIN tree
      BY EvictedUnlocked DEF Unlocked
    <2>2. /\ IsFiniteSet(DOMAIN tree) /\ IsFiniteSet(Unlocked) /\ IsFiniteSet(Range(order))
      BY <2>1, FS_Subset DEF FullInv
    <2>3. Unlocked' = Unlocked \ Range(order)
      BY <1>2 DEF Unlocked
    <2>4. Unlocked \cap Range(order) = Range(order) /\ DOMAIN tree \cap Range(order) = Range(order)
      BY <2>1
    <2>5. Cardinality(Unlocked \ Range(order))
            = Cardinality(Unlocked) - Cardinality(Unlocked \cap Range(order))
      BY <2>2, FS_Difference
    <2>6. Cardinality(DOMAIN tree \ Range(order)) = t - Cardinality(DOMAIN tree \cap Range(order))
      BY <2>2, FS_Difference
    <2>7. /\ Cardinality(Range(order)) \in Nat /\ t \in Nat
          /\ Cardinality(Unlocked) <= t
      BY <2>1, <2>2, FS_CardinalityType, FS_Subset
    <2> HIDE DEF t, k
    <2>8. \A u, c, x \in Nat : (u - c = u - x) => c = x
      OBVIOUS
    <2>9. Cardinality(Range(order)) = k
      <3>1. Cardinality(Unlocked) - Cardinality(Range(order)) = Cardinality(Unlocked) - k
        BY <1>1, <2>3, <2>4, <2>5, Zenon
      <3> QED
        BY <1>1, <2>7, <2>8, <3>1, Zenon
    <2>10. Cardinality(DOMAIN tree') = t - k
      BY <1>2, <2>4, <2>6, <2>9, Zenon
    <2>11. \A u, c, x \in Nat : x <= c /\ c <= u => x <= u
      OBVIOUS
    <2>12. k <= t
      BY <1>1, <2>7, <2>11, Zenon
    <2> QED
      BY <2>7, <2>10, <2>12
  <1>5. fullUsed \in Nat /\ fullUsed <= PageSize * t + Owned /\ PageSize \in Nat
    BY FullUse, SizeAssumption DEF FullInv, BackendTypeOK, SizeAssumption
  <1> HIDE DEF t, k
  <1>6. Monus(fullUsed, k * PageSize) <= PageSize * (t - k) + Owned
    BY <1>1, <1>4, <1>5, UseWithout
  <1> QED
    BY <1>1, <1>3, <1>4, <1>6

\* allocate_slots adds as much to the pool as to what its request holds.
LEMMA AllocateFull ==
    ASSUME IndInv, HoldingInv, OwnTyped, OwnTyped', FullInv, status' = status,
           NEW r \in Req, NEW n \in Int, NEW prefix \in Seq(Nat),
           \/ status[r] = "prefill"
           \/ status[r] = "decoding" /\ prefix = <<>>,
           \/ AllocateNothing(r, n, prefix)
           \/ AllocateSucceeds(r, n, prefix)
           \/ AllocateFails(r, n, prefix)
    PROVE  FullInv'
  <1>1. /\ BackendTypeOK /\ charged \in [Req -> Nat] /\ fullUsed \in Nat
        /\ Len(row[r]) \in Nat /\ Len(lastNode[r]) \in Nat /\ PageSize \in Nat
    <2>1. row[r] \in Seq(Nat) /\ lastNode[r] \in Seq(Token)
      BY DEF IndInv, TypeOK, BackendTypeOK
    <2> QED
      BY <2>1, SizeAssumption DEF IndInv, TypeOK, BackendTypeOK, SizeAssumption
  <1>2. /\ lastNode' = lastNode
        /\ \A q \in Req \ {r} : row'[q] = row[q] /\ charged'[q] = charged[q]
        /\ AllocateSucceeds(r, n, prefix) =>
             Len(row'[r]) = Len(row[r]) + Len(prefix) + n
        /\ ~AllocateSucceeds(r, n, prefix) => Len(row'[r]) = Len(row[r]) + Len(prefix)
    BY AllocateHolding
  <1>3. \A q \in Req \ {r} : Own(q)' = Own(q)
    BY <1>2 DEF Own
  <1>4. /\ Owned \in Nat /\ Owned' \in Nat /\ Own(r) \in Nat /\ Own(r)' \in Nat
        /\ Owned' = Owned + (Own(r)' - Own(r))
    BY <1>3, OwnedChange
  <1>5. status[r] = "decoding" => Len(prefix) = 0
    OBVIOUS
  <1>6. CASE AllocateNothing(r, n, prefix)
    <2>1. /\ tree' = tree /\ charged' = charged /\ fullUsed' = fullUsed
          /\ ~AllocateSucceeds(r, n, prefix)
      BY <1>6 DEF AllocateNothing, AllocateSucceeds, poolVars
    <2>2. Own(r)' = Own(r)
      <3>1. CASE status[r] = "decoding"
        <4>1. Len(row'[r]) = Len(row[r])
          BY <1>1, <1>2, <1>5, <2>1, <3>1
        <4> QED
          BY <1>2, <2>1, <3>1, <4>1 DEF Own
      <3>2. CASE status[r] = "prefill"
        BY <2>1, <3>2 DEF Own
      <3> QED
        BY <3>1, <3>2
    <2>3. Owned' = Owned
      BY <1>4, <2>2
    <2> QED
      BY <2>1, <2>3, FullUse DEF FullInv, WholePages, FullUseInv, Owned
  <1>7. CASE AllocateSucceeds(r, n, prefix)
    <2>1. PICK order \in Evictions(n) :
             /\ tree' = WithoutPages(order)
             /\ fullUsed' = Monus(fullUsed, Len(EvictedSlots(order))) + n
      BY <1>7 DEF AllocateSucceeds
    <2>2. charged' = [charged EXCEPT ![r] = @ + n] /\ n \in Nat
      BY <1>7 DEF AllocateSucceeds
    <2>3. Own(r)' = Own(r) + n
      <3>1. charged'[r] = charged[r] + n
        BY <1>1, <2>2
      <3>2. CASE status[r] = "prefill"
        BY <3>1, <3>2 DEF Own
      <3>3. CASE status[r] = "decoding" /\ prefix = <<>>
        <4>1. Len(row'[r]) = Len(row[r]) + n
          BY <1>1, <1>2, <1>5, <1>7, <3>3
        <4>2. Len(row'[r]) - Len(lastNode[r]) = (Len(row[r]) - Len(lastNode[r])) + n
          BY <1>1, <2>2, <4>1
        <4> QED
          BY <1>2, <3>3, <4>2 DEF Own
      <3> QED
        BY <3>2, <3>3
    <2>4. /\ IsFiniteSet(DOMAIN tree') /\ WholePages'
          /\ Monus(fullUsed, Len(EvictedSlots(order)))
                <= PageSize * Cardinality(DOMAIN tree') + Owned
      BY <1>1, <1>2, <1>4, <2>1, EvictionFull
    <2>5. fullUsed' <= PageSize * Cardinality(DOMAIN tree') + Owned'
      <3> DEFINE w == PageSize * Cardinality(DOMAIN tree')
                 m == Monus(fullUsed, Len(EvictedSlots(order)))
      <3>1. w \in Nat /\ m \in Nat
        <4>1. Len(EvictedSlots(order)) \in Nat
          BY <1>1, EvictedType
        <4>2. Cardinality(DOMAIN tree') \in Nat
          BY <2>4, FS_CardinalityType
        <4> QED
          BY <1>1, <4>1, <4>2, PagesMonotonic, Z3 DEF Monus
      <3>2. fullUsed' = m + n /\ m <= w + Owned
        BY <2>1, <2>4
      <3> HIDE DEF w, m
      <3>3. fullUsed' <= w + Owned'
        BY <1>4, <2>2, <2>3, <3>1, <3>2
      <3> QED
        BY <3>3 DEF w
    <2> QED
      BY <2>4, <2>5 DEF FullInv, FullUseInv, Owned
  <1>8. CASE AllocateFails(r, n, prefix)
    <2>1. PICK order \in Evictions(n) :
             /\ tree' = WithoutPages(order)
             /\ fullUsed' = Monus(fullUsed, Len(EvictedSlots(order)))
      BY <1>8 DEF AllocateFails
    <2>2. charged' = charged /\ row' = [row EXCEPT ![r] = @ \o prefix]
      BY <1>8 DEF AllocateFails
    <2>3. Own(r)' = Own(r)
      <3>1. CASE status[r] = "prefill"
        BY <2>2, <3>1 DEF Own
      <3>2. CASE status[r] = "decoding" /\ prefix = <<>>
        <4>1. row'[r] = row[r]
          BY <2>2, <3>2 DEF IndInv, TypeOK, BackendTypeOK
        <4> QED
          BY <1>2, <3>2, <4>1 DEF Own
      <3> QED
        BY <3>1, <3>2
    <2>4. Owned' = Owned
      BY <1>4, <2>3
    <2>5. /\ IsFiniteSet(DOMAIN tree') /\ WholePages'
          /\ fullUsed' <= PageSize * Cardinality(DOMAIN tree') + Owned
      BY <1>1, <1>2, <1>4, <2>1, EvictionFull
    <2> QED
      BY <2>4, <2>5 DEF FullInv, FullUseInv, Owned
  <1> QED
    BY <1>6, <1>7, <1>8

\* What is given back at the end of a row is given back to the pool, unless its use has
\* been lower already.
LEMMA ReturnFull ==
    ASSUME OwnTyped, OwnTyped', FullInv, BackendTypeOK, tree' = tree, NEW r \in Req, NEW m \in Nat,
           \A q \in Req \ {r} : Own(q)' = Own(q), Own(r)' = Own(r) - m,
           fullUsed' = Monus(fullUsed, m)
    PROVE  FullInv'
  <1>1. /\ Owned \in Nat /\ Owned' \in Nat /\ Own(r) \in Nat /\ Own(r)' \in Nat
        /\ Owned' = Owned + (Own(r)' - Own(r))
    BY OwnedChange
  <1> DEFINE w == PageSize * Cardinality(DOMAIN tree)
  <1>2. w \in Nat /\ fullUsed \in Nat /\ fullUsed <= w + Owned
    <2>1. Cardinality(DOMAIN tree) \in Nat /\ PageSize \in Nat
      BY FS_CardinalityType, SizeAssumption DEF FullInv, SizeAssumption
    <2> QED
      BY <2>1, FullUse, Z3 DEF FullInv, BackendTypeOK
  <1> HIDE DEF w
  <1>3. fullUsed' <= w + Owned'
    BY <1>1, <1>2 DEF Monus
  <1> QED
    BY <1>3 DEF FullInv, WholePages, FullUseInv, Owned, w

\* The whole pages of a text are those of its aligned part, which they fill.
LEMMA AlignedPages ==
    ASSUME NEW t \in Seq(Token)
    PROVE  LET key == PageAligned(t)
           IN /\ key \in Seq(Token) /\ Len(key) = PageFloor(Len(t)) /\ Len(key) \in Nat
              /\ NumPages(key) = NumPages(t) /\ NumPages(t) \in Nat
              /\ NumPages(t) * PageSize = Len(key)
              /\ PrefixPages(key, NumPages(key)) = PrefixPages(t, NumPages(t))
  <1> DEFINE key == PageAligned(t)
             f == PageFloor(Len(t))
             m == NumPages(t)
  <1>1. Len(t) \in Nat
    OBVIOUS
  <1>2. m \in Nat /\ m * PageSize = f /\ f \in Nat /\ f <= Len(t)
    BY <1>1, PageFloorBounds DEF NumPages, PageFloor
  <1>3. key = SubSeq(t, 1, f)
    BY DEF PageAligned
  <1> HIDE DEF key, f, m
  <1>4. key \in Seq(Token) /\ Len(key) = f
    BY <1>2, <1>3
  <1>5. NumPages(key) = m
    <2>1. 0 \in 0..(PageSize - 1)
      BY SizeAssumption DEF SizeAssumption
    <2>2. (m * PageSize + 0) \div PageSize = m
      BY <1>2, <2>1, PageUnique
    <2>3. m * PageSize + 0 = f
      BY <1>2
    <2> QED
      BY <1>4, <2>2, <2>3 DEF NumPages
  <1>6. ASSUME NEW j \in 1..m
        PROVE  SubSeq(key, 1, j * PageSize) = SubSeq(t, 1, j * PageSize)
    <2> DEFINE e == j * PageSize
    <2>1. e \in Nat /\ e <= f
      BY <1>2, PageEnds
    <2> HIDE DEF e
    <2>2. SubSeq(key, 1, e) = SubSeq(t, 1, e)
      BY <1>1, <1>2, <1>3, <2>1
    <2> QED
      BY <2>2 DEF e
  <1>7. PrefixPages(key, m) = PrefixPages(t, m)
    BY <1>6 DEF PrefixPages
  <1> QED
    BY <1>2, <1>4, <1>5, <1>7 DEF key, f, m

\* Pages of a text that are longer than the cached ones are as many as the tokens beyond
\* those need.
LEMMA PagesBeyond ==
    ASSUME NEW key \in Seq(Token), NEW m \in Nat, m * PageSize = Len(key),
           NEW D, IsFiniteSet(D), NEW known \in Nat,
           \A p \in PrefixPages(key, m) \cap D : Len(p) <= known
    PROVE  /\ IsFiniteSet(D \cup PrefixPages(key, m))
           /\ PageSize * Cardinality(D) + Len(key)
                <= PageSize * Cardinality(D \cup PrefixPages(key, m)) + known
  <1> DEFINE all == D \cup PrefixPages(key, m)
  <1>1. /\ IsFiniteSet(all) /\ Cardinality(all) \in Nat /\ Cardinality(D) \in Nat
        /\ Cardinality(D) <= Cardinality(all) /\ PageSize \in Nat \ {0} /\ Len(key) \in Nat
    <2>1. IsFiniteSet(all)
      BY FinitePages, FS_Union
    <2> QED
      BY <2>1, FS_CardinalityType, FS_Subset, SizeAssumption DEF SizeAssumption
  <1> HIDE DEF all
  <1>2. CASE Len(key) <= known
    <2>1. \A u, w \in Nat : u <= w => PageSize * u <= PageSize * w /\ PageSize * u \in Nat
                                      /\ PageSize * w \in Nat
      BY <1>1, Z3
    <2>2. /\ PageSize * Cardinality(D) <= PageSize * Cardinality(all)
          /\ PageSize * Cardinality(D) \in Nat /\ PageSize * Cardinality(all) \in Nat
      BY <1>1, <2>1
    <2> DEFINE u == PageSize * Cardinality(D)
               w == PageSize * Cardinality(all)
    <2>3. u <= w /\ u \in Nat /\ w \in Nat
      BY <2>2
    <2> HIDE DEF u, w
    <2>4. u + Len(key) <= w + known
      BY <1>1, <1>2, <2>3
    <2> QED
      BY <1>1, <2>4 DEF u, w, all
  <1>3. CASE known < Len(key)
    <2> DEFINE k == known \div PageSize
               J == (k + 1)..m
               g == [j \in J |-> SubSeq(key, 1, j * PageSize)]
               G == {g[j] : j \in J}
    <2>1. /\ k \in Nat /\ k * PageSize \in Nat
          /\ k * PageSize <= known /\ known < k * PageSize + PageSize
      BY <1>1, DivBounds
    <2> HIDE DEF k
    <2>2. k < m
      <3>1. k * PageSize < m * PageSize
        BY <1>1, <1>3, <2>1
      <3> QED
        BY <1>1, <2>1, <3>1, PagesCancel
    <2>3. ASSUME NEW j \in J
          PROVE  /\ j \in 1..m /\ g[j] \in PrefixPages(key, m) /\ Len(g[j]) = j * PageSize
                 /\ j * PageSize \in Nat /\ g[j] \notin D
      <3>1. j \in 1..m /\ j \in Nat /\ k + 1 <= j
        BY <2>1
      <3>2. j * PageSize \in Nat /\ j * PageSize <= Len(key)
        BY <3>1, PageEnds
      <3>3. g[j] = SubSeq(key, 1, j * PageSize)
        OBVIOUS
      <3>4. g[j] \in PrefixPages(key, m)
        BY <3>1, <3>3 DEF PrefixPages
      <3> DEFINE e == j * PageSize
      <3>5. e \in Nat /\ e <= Len(key) /\ g[j] = SubSeq(key, 1, e)
        BY <3>2, <3>3
      <3> HIDE DEF e, g
      <3>6. Len(g[j]) = e
        BY <1>1, <3>5
      <3>7. known < e
        <4>1. (k + 1) * PageSize <= j * PageSize /\ (k + 1) * PageSize = k * PageSize + PageSize
          BY <1>1, <2>1, <3>1, PagesMonotonic, PagesStep
        <4>2. k * PageSize + PageSize <= e
          BY <4>1 DEF e
        <4> QED
          BY <1>1, <2>1, <3>5, <4>2
      <3>8. g[j] \notin D
        <4>1. ~(e <= known)
          BY <3>5, <3>7
        <4>2. g[j] \in D => g[j] \in PrefixPages(key, m) \cap D
          BY <3>4
        <4> QED
          BY <3>6, <4>1, <4>2, Zenon
      <3> QED
        BY <3>1, <3>4, <3>5, <3>6, <3>8 DEF e
    <2>4. g \in Injection(J, G) /\ g \in Surjection(J, G)
      <3>1. ASSUME NEW i \in J, NEW j \in J, g[i] = g[j] PROVE i = j
        <4>1. i * PageSize = j * PageSize /\ i \in Nat /\ j \in Nat
          BY <2>3, <3>1
        <4>2. \A x, y \in Nat : ~(x * PageSize < y * PageSize) => ~(x < y)
          <5> SUFFICES ASSUME NEW x \in Nat, NEW y \in Nat, x < y PROVE x * PageSize < y * PageSize
            OBVIOUS
          <5> QED
            BY <1>1, Z3
        <4>3. ~(i * PageSize < j * PageSize) /\ ~(j * PageSize < i * PageSize)
          BY <2>3, <4>1
        <4> QED
          BY <4>1, <4>2, <4>3
      <3>2. g \in [J -> G] /\ DOMAIN g = J
        OBVIOUS
      <3>3. \A x \in G : \E j \in J : g[j] = x
        OBVIOUS
      <3> HIDE DEF g, G, J
      <3>4. IsInjective(g)
        BY <3>1, <3>2 DEF IsInjective
      <3> QED
        BY <3>2, <3>3, <3>4 DEF Injection, Surjection
    <2>5. IsFiniteSet(J) /\ Cardinality(J) = m - k
      BY <2>1, <2>2, FS_Interval
    <2>6. /\ G \cap D = {} /\ G \subseteq PrefixPages(key, m)
      BY <2>3
    <2> HIDE DEF J, g, G
    <2>7. IsFiniteSet(G) /\ Cardinality(G) = m - k
      BY <2>4, <2>5, FS_Surjection
    <2>8. Cardinality(D) + (m - k) <= Cardinality(all)
      <3>1. Cardinality(D \cup G) = Cardinality(D) + Cardinality(G) - Cardinality(D \cap G)
        BY <2>7, FS_Union
      <3>2. D \cap G = {} /\ Cardinality({}) = 0
        BY <2>6, FS_EmptySet
      <3>3. D \cup G \subseteq all
        BY <2>6 DEF all
      <3>4. Cardinality(D \cup G) <= Cardinality(all)
        BY <1>1, <3>3, FS_Subset
      <3> DEFINE x == m - k
      <3>5. \A c : (x \in Nat /\ c \in Nat) => c + x - 0 = c + x
        OBVIOUS
      <3>6. x \in Nat
        BY <2>1, <2>2
      <3> HIDE DEF x
      <3>7. Cardinality(D \cup G) = Cardinality(D) + x - 0
        BY <2>7, <3>1, <3>2, Zenon DEF x
      <3>8. Cardinality(D) + x <= Cardinality(all)
        BY <1>1, <3>4, <3>5, <3>6, <3>7, Zenon
      <3> QED
        BY <3>8 DEF x
    <2>9. PageSize * Cardinality(D) + Len(key) <= PageSize * Cardinality(all) + known
      <3>1. \A c, d \in Nat : c + (m - k) <= d =>
               PageSize * c + (m * PageSize - k * PageSize) <= PageSize * d
        <4> SUFFICES ASSUME NEW c \in Nat, NEW d \in Nat, c + (m - k) <= d
                     PROVE  PageSize * c + (m * PageSize - k * PageSize) <= PageSize * d
          OBVIOUS
        <4> QED
          BY <1>1, <2>1, Z3
      <3>2. PageSize * Cardinality(D) + (m * PageSize - k * PageSize)
               <= PageSize * Cardinality(all)
        BY <1>1, <2>8, <3>1
      <3>3. PageSize * Cardinality(D) \in Nat /\ PageSize * Cardinality(all) \in Nat
        BY <1>1, Z3
      <3> DEFINE u == PageSize * Cardinality(D)
                 w == PageSize * Cardinality(all)
                 x == k * PageSize
                 y == m * PageSize
      <3>4. /\ u + (y - x) <= w /\ u \in Nat /\ w \in Nat /\ x \in Nat /\ x <= known
            /\ y = Len(key)
        BY <2>1, <3>2, <3>3
      <3> HIDE DEF u, w, x, y
      <3>5. u + Len(key) <= w + known
        BY <1>1, <3>4
      <3> QED
        BY <3>5 DEF u, w
    <2> QED
      BY <1>1, <2>9 DEF all
  <1> QED
    BY <1>1, <1>2, <1>3

\* sync_state caches what the request held, all but what was known to be cached.
LEMMA SyncFull ==
    ASSUME IndInv, OwnTyped, OwnTyped', FullInv, NEW r \in Req, NEW n \in 0..Len(Output[r]),
           SyncState(r, n), NEW known \in Nat, Own(r) = Len(row[r]) - known,
           \A p \in PrefixPages(Text(r, n), NumPages(Text(r, n))) \cap DOMAIN tree :
               Len(p) <= known,
           \A q \in Req \ {r} : status'[q] = status[q], status'[r] \in {"decoding", "finished"}
    PROVE  FullInv'
  <1> DEFINE t == Text(r, n)
             key == PageAligned(t)
             D == DOMAIN tree
             new == PrefixPages(key, NumPages(key))
  <1>1. t \in Seq(Token) /\ IsFiniteSet(D)
    BY TextType DEF FullInv
  <1>2. /\ lastNode' = [lastNode EXCEPT ![r] = key] /\ row' = row /\ charged' = charged
        /\ DOMAIN tree' = D \cup new /\ fullUsed' = fullUsed
        /\ lastNode \in [Req -> Seq(Token)]
    BY DEF SyncState, Inserted, IndInv, TypeOK, BackendTypeOK
  <1> HIDE DEF t
  <1>3. /\ key \in Seq(Token) /\ Len(key) \in Nat
        /\ NumPages(key) \in Nat /\ NumPages(key) * PageSize = Len(key)
        /\ new = PrefixPages(t, NumPages(t))
    BY <1>1, AlignedPages
  <1> HIDE DEF key
  <1>4. \A q \in Req \ {r} : Own(q)' = Own(q)
    BY <1>2 DEF Own
  <1>5. Own(r)' = Len(row[r]) - Len(key) /\ Len(row[r]) \in Nat
    <2>1. row[r] \in Seq(Nat)
      BY DEF IndInv, TypeOK, BackendTypeOK
    <2> QED
      BY <1>2, <2>1 DEF Own
  <1>6. /\ Owned \in Nat /\ Owned' \in Nat /\ Owned' = Owned + (Own(r)' - Own(r))
    BY <1>4, OwnedChange
  <1>7. \A p \in new \cap D : Len(p) <= known
    BY <1>3 DEF t
  <1>8. /\ IsFiniteSet(D \cup new)
        /\ PageSize * Cardinality(D) + Len(key) <= PageSize * Cardinality(D \cup new) + known
    BY <1>1, <1>3, <1>7, PagesBeyond
  <1>9. WholePages'
    <2> SUFFICES ASSUME NEW p \in D \cup new PROVE p # <<>> /\ Len(p) % PageSize = 0
      BY <1>2 DEF WholePages
    <2>1. CASE p \in D
      BY <2>1 DEF FullInv, WholePages
    <2>2. CASE p \in new
      <3>1. PICK j \in 1..NumPages(key) : p = SubSeq(key, 1, j * PageSize)
        BY <2>2 DEF PrefixPages
      <3> DEFINE e == j * PageSize
      <3>2. e \in Nat /\ PageSize <= e /\ e <= Len(key) /\ PageSize \in Nat \ {0}
        <4>1. j * PageSize <= NumPages(key) * PageSize /\ j * PageSize \in Nat
              /\ PageSize <= j * PageSize
          BY <1>3, PageEnds
        <4> QED
          BY <1>3, <4>1, SizeAssumption DEF SizeAssumption
      <3>3. e % PageSize = 0
        <4>1. j \in Nat /\ 0 \in 0..(PageSize - 1)
          BY <1>3, <3>2
        <4>2. (j * PageSize + 0) % PageSize = 0
          BY <4>1, PageUnique
        <4>3. j * PageSize + 0 = e
          BY <3>2
        <4> QED
          BY <4>2, <4>3
      <3>4. p = SubSeq(key, 1, e)
        BY <3>1
      <3> HIDE DEF e
      <3>5. Len(p) = e
        BY <1>3, <3>2, <3>4
      <3> QED
        BY <3>2, <3>3, <3>5
    <2> QED
      BY <2>1, <2>2
  <1>10. fullUsed' <= PageSize * Cardinality(D \cup new) + Owned'
    <2> DEFINE u == PageSize * Cardinality(D)
               w == PageSize * Cardinality(D \cup new)
    <2>1. u \in Nat /\ w \in Nat
      <3>1. Cardinality(D) \in Nat /\ Cardinality(D \cup new) \in Nat /\ PageSize \in Nat
        BY <1>1, <1>8, FS_CardinalityType, SizeAssumption DEF SizeAssumption
      <3> QED
        BY <3>1, Z3
    <2>2. u + Len(key) <= w + known
      BY <1>8
    <2>3. fullUsed \in Nat /\ fullUsed <= u + Owned
      BY FullUse DEF FullInv, IndInv, TypeOK, BackendTypeOK
    <2> HIDE DEF u, w
    <2>4. fullUsed' <= w + Owned'
      BY <1>2, <1>3, <1>5, <1>6, <2>1, <2>2, <2>3
    <2> QED
      BY <2>4 DEF w
  <1> HIDE DEF D, new
  <1> QED
    BY <1>2, <1>8, <1>9, <1>10 DEF FullInv, FullUseInv, Owned

\* No step uses the pool for anything else, when no page is computed again.
LEMMA FullStep ==
    ASSUME IndInv, IndInv', PlaceInv, OwnTyped, OwnTyped', NoPageRecomputed, FullInv,
           [Next]_vars
    PROVE  FullInv'
  <1>0. /\ LockInv /\ HoldingInv /\ BackendTypeOK
        /\ row \in [Req -> Seq(Nat)] /\ lastNode \in [Req -> Seq(Token)]
        /\ charged \in [Req -> Nat]
        /\ status \in [Req -> {"prefill", "decoding", "finished", "freed"}]
    BY DEF PlaceInv, IndInv, TypeOK, BackendTypeOK, HandlerTypeOK
  <1>1. CASE UNCHANGED <<status, row, lastNode, charged, tree, fullUsed>>
    BY <1>1 DEF FullInv, WholePages, FullUseInv, Own
  <1>2. CASE UNCHANGED vars
    BY <1>1, <1>2 DEF vars, handlerVars, backendVars, poolVars, handleVars
  <1>3. ASSUME NEW r \in Req, PrefillMatch(r) PROVE FullInv'
    BY <1>1, <1>3 DEF PrefillMatch, backendVars, poolVars, handleVars
  <1>4. CASE PrefillAllocate
    <2> DEFINE n == Len(Prompt[cur]) - numComputed[cur]
    <2>1. /\ cur \in Req /\ n \in Int /\ blocks \in Seq(Nat) /\ status' = status
          /\ status[cur] = "prefill"
      <3>1. /\ cur \in Req /\ status' = status /\ blocks \in Seq(Nat)
            /\ status[cur] = "prefill" /\ numComputed[cur] \in Nat
        BY <1>4 DEF PrefillAllocate, IndInv, ControlInv, TypeOK, HandlerTypeOK
      <3> QED
        BY <3>1, TextType
    <2>2. \/ AllocateNothing(cur, n, blocks)
          \/ AllocateSucceeds(cur, n, blocks)
          \/ AllocateFails(cur, n, blocks)
      BY <1>4 DEF PrefillAllocate
    <2> HIDE DEF n
    <2> QED
      BY <1>0, <2>1, <2>2, AllocateFull
  <1>5. ASSUME NEW r \in Req, DecodeAllocate(r) PROVE FullInv'
    <2> DEFINE n == 1 + Drafts(r)
    <2>1. /\ status' = status /\ status[r] = "decoding" /\ <<>> \in Seq(Nat)
          /\ AllocateSucceeds(r, n, <<>>) \/ AllocateFails(r, n, <<>>)
      BY <1>5 DEF DecodeAllocate
    <2>2. n \in Int
      BY <1>0, DraftsNatural
    <2> HIDE DEF n
    <2> QED
      BY <1>0, <2>1, <2>2, AllocateFull
  <1>6. CASE PrefillSync
    <2>1. /\ cur \in Req /\ SyncState(cur, 0) /\ at = "prefill_sync" /\ status[cur] = "prefill"
          /\ status' = [status EXCEPT ![cur] = "decoding"]
      BY <1>6 DEF PrefillSync, IndInv, ControlInv, ContractsKept
    <2> DEFINE known == Len(row[cur]) - charged[cur]
    <2>2. /\ known \in Nat /\ Own(cur) = Len(row[cur]) - known
      <3>1. charged[cur] <= Len(row[cur]) /\ Len(row[cur]) \in Nat /\ charged[cur] \in Nat
        BY <1>0, <2>1 DEF HoldingInv
      <3> QED
        BY <2>1, <3>1 DEF Own
    <2>3. NextText = Text(cur, 0) /\ Known = known
      BY <2>1 DEF NextText, Known
    <2>4. \A p \in PrefixPages(Text(cur, 0), NumPages(Text(cur, 0))) \cap DOMAIN tree :
             Len(p) <= known
      BY <2>1, <2>3 DEF NoPageRecomputed
    <2>5. /\ \A q \in Req \ {cur} : status'[q] = status[q]
          /\ status'[cur] \in {"decoding", "finished"} /\ 0 \in 0..Len(Output[cur])
      BY <1>0, <2>1, TextType
    <2> HIDE DEF known
    <2> QED
      BY <2>1, <2>2, <2>4, <2>5, SyncFull
  <1>7. CASE DecodeSync
    <2> DEFINE n == outLen[cur] + Bonus(cur) + accepted
    <2>1. /\ cur \in Req /\ SyncState(cur, n) /\ n \in Nat /\ n <= Len(Output[cur])
      BY <1>7, DecodeSyncText
    <2>2. /\ at = "decode_sync" /\ status[cur] = "decoding"
          /\ \A q \in Req \ {cur} : status'[q] = status[q]
          /\ status'[cur] \in {"decoding", "finished"}
      BY <1>0, <1>7, <2>1 DEF DecodeSync, IndInv, ControlInv, ContractsKept
    <2>3. NextText = Text(cur, n) /\ Known = Len(lastNode[cur])
      BY <2>2 DEF NextText, Known
    <2>4. n \in 0..Len(Output[cur])
      <3>1. Len(Output[cur]) \in Nat
        BY <2>1, TextType
      <3> HIDE DEF n
      <3> QED
        BY <2>1, <3>1
    <2> HIDE DEF n
    <2>5. Len(lastNode[cur]) \in Nat /\ Own(cur) = Len(row[cur]) - Len(lastNode[cur])
      BY <1>0, <2>1, <2>2 DEF Own
    <2>6. \A p \in PrefixPages(Text(cur, n), NumPages(Text(cur, n))) \cap DOMAIN tree :
             Len(p) <= Len(lastNode[cur])
      BY <2>2, <2>3 DEF NoPageRecomputed
    <2> QED
      BY <2>1, <2>2, <2>4, <2>5, <2>6, SyncFull
  <1>8. CASE DecodeRollback
    <2>1. /\ cur \in Req /\ status[cur] = "decoding" /\ status' = status /\ cur' = cur
      BY <1>8 DEF DecodeRollback, IndInv, ControlInv
    <2>2. PICK a \in 0..drafts : FreeRejectedSlots(cur, drafts - a)
      BY <1>8 DEF DecodeRollback, IndInv, ControlInv, ContractsKept
    <2> DEFINE m == drafts - a
    <2>3. m \in Nat /\ FreeRejectedSlots(cur, m)
      BY <2>2, HandlerAssumption DEF HandlerAssumption, IndInv, TypeOK, HandlerTypeOK
    <2> HIDE DEF m
    <2>4. CASE m <= 0
      <3>1. UNCHANGED backendVars
        BY <2>3, <2>4 DEF FreeRejectedSlots
      <3> QED
        BY <1>1, <2>1, <3>1 DEF backendVars, poolVars, handleVars
    <2>5. CASE ~(m <= 0)
      <3>1. /\ tree' = tree /\ lastNode' = lastNode
            /\ fullUsed' = Monus(fullUsed,
                                 Len(SubSeq(row[cur], Len(row[cur]) - m + 1, Len(row[cur]))))
            /\ ~(Len(row[cur]) < m) /\ Len(row[cur]) \in Nat
        BY <1>0, <2>1, <2>3, <2>5 DEF FreeRejectedSlots, FreeFlat, RejectedTailMissing
      <3>2. Len(SubSeq(row[cur], Len(row[cur]) - m + 1, Len(row[cur]))) = m
        BY <1>0, <2>1, <2>3, <2>5, <3>1
      <3>3. /\ \A q \in Req \ {cur} : row'[q] = row[q] /\ charged'[q] = charged[q]
            /\ Len(row'[cur]) = Len(row[cur]) - m
        <4>1. /\ \A q \in Req \ {cur} : row'[q] = row[q]
              /\ Len(row'[cur]) = Len(row[cur]) - m
              /\ charged' = [charged EXCEPT ![cur] = Monus(@, m)]
          BY <1>0, <2>1, <2>3, FreeRejectedInv DEF IndInv
        <4> QED
          BY <1>0, <4>1
      <3>4. \A q \in Req \ {cur} : Own(q)' = Own(q)
        BY <2>1, <3>1, <3>3 DEF Own
      <3>5. Own(cur)' = Own(cur) - m
        <4>1. Len(lastNode[cur]) \in Nat
          BY <1>0, <2>1
        <4>2. \A u, w \in Nat : (u - m) - w = (u - w) - m
          BY <2>3
        <4>3. Own(cur) = Len(row[cur]) - Len(lastNode[cur])
              /\ Own(cur)' = Len(row'[cur]) - Len(lastNode[cur])
          BY <2>1, <3>1 DEF Own
        <4> QED
          BY <3>1, <3>3, <4>1, <4>2, <4>3, Zenon
      <3>6. tree' = tree /\ fullUsed' = Monus(fullUsed, m)
        BY <3>1, <3>2, Zenon
      <3> QED
        BY <1>0, <2>1, <2>3, <3>4, <3>5, <3>6, ReturnFull
    <2> QED
      BY <2>4, <2>5
  <1>9. ASSUME NEW r \in Req, Cleanup(r) PROVE FullInv'
    <2>1. /\ Free(r) /\ status[r] = "finished" /\ status' = [status EXCEPT ![r] = "freed"]
      BY <1>9 DEF Cleanup
    <2> DEFINE f == PageFloor(Len(Text(r, outLen[r])))
               l == Len(row[r])
               m == l - f
    <2>2. Len(lastNode[r]) = f /\ f \in Nat /\ l \in Nat /\ f <= l
      BY <1>0, <2>1, LockedPositions
    <2>3. /\ tree' = tree /\ lastNode' = [lastNode EXCEPT ![r] = <<>>]
          /\ row' = [row EXCEPT ![r] = <<>>] /\ charged' = [charged EXCEPT ![r] = 0]
          /\ l > f => fullUsed' = Monus(fullUsed, Len(SubSeq(row[r], f + 1, l)))
          /\ ~(l > f) => fullUsed' = fullUsed
      BY <2>1 DEF Free, FreeFlat
    <2>4. \A q \in Req \ {r} : Own(q)' = Own(q)
      BY <1>0, <2>1, <2>3 DEF Own
    <2>5. Own(r) = m /\ Own(r)' = 0
      BY <1>0, <2>1, <2>2, <2>3 DEF Own
    <2>6. fullUsed' = Monus(fullUsed, m) /\ fullUsed \in Nat
      <3>1. fullUsed \in Nat
        BY <1>0 DEF BackendTypeOK
      <3>2. CASE l > f
        <4>1. Len(SubSeq(row[r], f + 1, l)) = m
          <5>1. row[r] \in Seq(Nat) /\ Len(row[r]) = l
            BY <1>0
          <5> HIDE DEF f, l
          <5> QED
            BY <2>2, <3>2, <5>1
        <4> QED
          BY <2>3, <3>1, <3>2, <4>1
      <3>3. CASE ~(l > f)
        <4>1. m = 0 /\ fullUsed' = fullUsed
          <5> HIDE DEF f, l
          <5> QED
            BY <2>2, <2>3, <3>3
        <4> QED
          BY <3>1, <4>1 DEF Monus
      <3> QED
        BY <3>1, <3>2, <3>3
    <2>7. m \in Nat /\ m - m = 0
      <3> HIDE DEF f, l
      <3> QED
        BY <2>2
    <2> HIDE DEF m, f, l
    <2> QED
      BY <1>0, <2>3, <2>4, <2>5, <2>6, <2>7, ReturnFull
  <1> QED
    BY <1>2, <1>3, <1>4, <1>5, <1>6, <1>7, <1>8, <1>9 DEF Next

\* So every state has those invariants.
LEMMA FullPoolKept == Spec /\ []NoPageRecomputed => [](IndInv /\ PlaceInv /\ FullInv)
  <1>1. Init => FullInv
    <2> SUFFICES ASSUME Init PROVE FullInv
      OBVIOUS
    <2>1. /\ tree = <<>> /\ fullUsed = 0
          /\ \A q \in Req : status[q] = "prefill" /\ charged[q] = 0
      BY DEF Init, BackendInit
    <2>2. DOMAIN tree = {}
      BY <2>1
    <2>3. IsFiniteSet(DOMAIN tree) /\ Cardinality(DOMAIN tree) = 0
      BY <2>2, FS_EmptySet
    <2>4. Owned = 0
      <3> DEFINE f == [q \in Req |-> Own(q)]
      <3>1. \A q \in Req : f[q] = 0
        BY <2>1 DEF Own
      <3> HIDE DEF f
      <3>2. SumFunctionOnSet(f, Req) = 0
        BY <3>1, SumZero, WorkloadAssumption DEF WorkloadAssumption
      <3> QED
        BY <3>2 DEF Owned, f
    <2>5. PageSize * 0 = 0
      BY SizeAssumption DEF SizeAssumption
    <2>6. fullUsed <= PageSize * Cardinality(DOMAIN tree) + Owned
      BY <2>1, <2>3, <2>4, <2>5
    <2> QED
      BY <2>2, <2>3, <2>6, FullUse DEF FullInv, WholePages
  <1>2. IndInv /\ PlaceInv => OwnTyped
    BY OwnType DEF PlaceInv
  <1>3. IndInv /\ IndInv' /\ PlaceInv /\ OwnTyped /\ OwnTyped' /\ NoPageRecomputed /\ FullInv
           /\ [Next]_vars => FullInv'
    BY FullStep
  <1> QED
    BY <1>1, <1>2, <1>3, PlacesKept, PTL DEF Spec

\* The use of the full pool is never more than the tokens of the cached pages and of what
\* the requests hold beside them: nothing that was evicted, rolled back or freed stays
\* charged, where no page is computed a second time (the copy that sync_state finds
\* cached already is charged, and given back by nobody).
THEOREM FullPoolExplained == Spec /\ []NoPageRecomputed => []FullUseInv
  <1>1. FullInv => FullUseInv
    BY DEF FullInv
  <1> QED
    BY <1>1, FullPoolKept, PTL
=============================================================================
