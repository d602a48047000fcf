----------------------------- MODULE PooledBuffer -----------------------------
(***************************************************************************)
(* PooledBuffer of fssystem_pooled_buffer.cpp: threads allocate buffers    *)
(* from one buddy heap (g_heap, under g_heap_mutex) with AllocateCore,      *)
(* trim them, record the free-size peak, and give them back with Shrink(0) *)
(* (the buffer's Deallocate).  Sizes are counted in heap blocks            *)
(* (HeapBlockSize, 4 KB in the code).                                      *)
(*                                                                         *)
(* The buddy heap (FileSystemBuddyHeap) is a collaborator: it is modelled  *)
(* by what it gives, a set of free blocks from which an aligned run of     *)
(* 2^order blocks is allocated, and whose largest free block is the        *)
(* largest aligned free run (a buddy heap coalesces every freed pair).     *)
(* Its Free requires an aligned 2^order run that is allocated; a call that *)
(* is not sets `fault'.  g_retry_count and g_reduce_allocation_count are   *)
(* statistics no control depends on, and are left out.                   *)
(***************************************************************************)
EXTENDS Naturals, FiniteSets

CONSTANTS
  Threads,           \* the threads that own a PooledBuffer each
  HeapOrder,         \* the heap holds 2^HeapOrder blocks
  HeapOrderTrim,     \* HeapAllocatableSizeTrim  = 2^HeapOrderTrim blocks
  HeapOrderMax,      \* HeapAllocatableSizeMax   = 2^HeapOrderMax blocks
  HeapOrderMaxForLarge,
  Requests,          \* the (ideal, required, large) calls of AllocateCore
  NoBuffer           \* m_buffer == nullptr

Pow2(k) == 2^k

HeapBlocks == 0 .. Pow2(HeapOrder) - 1
Orders     == 0 .. HeapOrder

HeapAllocatableSizeTrim        == Pow2(HeapOrderTrim)
HeapAllocatableSizeMax         == Pow2(HeapOrderMax)
HeapAllocatableSizeMaxForLarge == Pow2(HeapOrderMaxForLarge)

\* PooledBuffer::GetAllocatableSizeMaxCore, lines 93-95.
GetAllocatableSizeMaxCore(large) ==
  IF large THEN HeapAllocatableSizeMaxForLarge ELSE HeapAllocatableSizeMax

\* The precondition of line 104 is kept by every request.
ASSUME PooledBufferAssumption ==
  /\ HeapOrder \in Nat
  /\ HeapOrderTrim \in Nat
  /\ HeapOrderTrim <= HeapOrderMax
  /\ HeapOrderMax <= HeapOrderMaxForLarge
  /\ HeapOrderMaxForLarge <= HeapOrder
  /\ Requests \subseteq [ideal : Nat, required : Nat \ {0}, large : BOOLEAN]
  /\ \A r \in Requests : r.required <= GetAllocatableSizeMaxCore(r.large)
  /\ NoBuffer \notin Nat

AlignUp(x, a) == ((x + a - 1) \div a) * a
MinOf(a, b) == IF a <= b THEN a ELSE b
MaxOf(a, b) == IF a >= b THEN a ELSE b

\* util::FloorPowerOfTwo and util::LeastSignificantOneBit, for x > 0.
FloorPowerOfTwo(x) == CHOOSE p \in {Pow2(k) : k \in Orders} : p <= x /\ x < 2 * p
LeastSignificantOneBit(x) == CHOOSE p \in {Pow2(k) : k \in Orders} : x % (2 * p) = p

VARIABLES
  free,      \* the free blocks of g_heap
  m_buffer,  \* m_buffer[t]: the first block of t's buffer, or NoBuffer
  m_size,    \* m_size[t], in blocks
  pc,        \* pc[t]: where thread t is
  req,       \* req[t]: the arguments of t's AllocateCore
  peak,      \* g_heap_free_size_peak
  fault      \* a buddy heap call broke its precondition

vars == <<free, m_buffer, m_size, pc, req, peak, fault>>

\* The blocks [a, a + n).
Run(a, n) == {a + i : i \in 0 .. n - 1}

(***************************************************************************)
(* The buddy heap.                                                         *)
(***************************************************************************)
\* The free blocks of order k, each aligned to its size.
FreeRuns(k) == {a \in HeapBlocks : a % Pow2(k) = 0 /\ Run(a, Pow2(k)) \subseteq free}

\* GetAllocatableSizeMax: the size of the largest free block, 0 if none.
AllocatableSizeMax ==
  LET ks == {k \in Orders : FreeRuns(k) # {}}
  IN  IF ks = {} THEN 0 ELSE Pow2(CHOOSE k \in ks : \A j \in ks : j <= k)

\* GetOrderFromBytes: the least order whose block holds n blocks.
GetOrderFromBytes(n) == CHOOSE k \in Orders : n <= Pow2(k) /\ (k = 0 \/ Pow2(k - 1) < n)

\* GetTotalFreeSize.
TotalFreeSize == Cardinality(free)

Init ==
  /\ free = HeapBlocks
  /\ m_buffer = [t \in Threads |-> NoBuffer]
  /\ m_size = [t \in Threads |-> 0]
  /\ pc = [t \in Threads |-> "idle"]
  /\ req = [t \in Threads |-> CHOOSE r \in Requests : TRUE]
  /\ peak = Pow2(HeapOrder)
  /\ fault = FALSE

(***************************************************************************)
(* Shrink, lines 162-198.                                                  *)
(***************************************************************************)
\* Mutant: the piece size not bounded by the tail's alignment.
ShrinkPiecesNoTailAlign(buf, size, new_size) ==
  LET P[m \in 0 .. size] ==
        IF m <= new_size THEN {}
        ELSE LET f == FloorPowerOfTwo(m - new_size)
             IN  {[addr |-> buf + m - f, size |-> f]} \cup P[m - f]
  IN  P[size]

\* The pieces the loop of lines 177-190 frees, from the tail down to
\* new_size: each is min(FloorPowerOfTwo(m_size - new_size),
\* LeastSignificantOneBit(m_size)) blocks at the end of what is left.
ShrinkPieces(buf, size, new_size) ==
  LET P[m \in 0 .. size] ==
        IF m <= new_size THEN {}
        ELSE LET f == MinOf(FloorPowerOfTwo(m - new_size),
                            LeastSignificantOneBit(m))
             IN  {[addr |-> buf + m - f, size |-> f]} \cup P[m - f]
  IN  P[size]

\* FileSystemBuddyHeap::Free's precondition: an aligned block of its
\* order that is allocated.
ValidFree(p) == p.addr % p.size = 0 /\ Run(p.addr, p.size) \cap free = {}

\* Shrink(ideal_size) of t's buffer, under g_heap_mutex; sizes are in
\* blocks, so AlignUp(ideal_size, HeapBlockSize) is ideal_size.
Shrink(t, ideal_size) ==
  IF m_size[t] > ideal_size
    THEN LET pieces == ShrinkPieces(m_buffer[t], m_size[t], ideal_size)
         IN  /\ free' = free \cup UNION {Run(p.addr, p.size) : p \in pieces}
             /\ fault' = (fault \/ \E p \in pieces : ~ValidFree(p))
             /\ m_size' = [m_size EXCEPT ![t] = ideal_size]
             /\ m_buffer' = IF ideal_size = 0
                              THEN [m_buffer EXCEPT ![t] = NoBuffer]
                              ELSE m_buffer
    ELSE UNCHANGED <<free, fault, m_size, m_buffer>>

(***************************************************************************)
(* AllocateCore(ideal_size, required_size, large), lines 97-160.           *)
(***************************************************************************)
TargetSize(r) ==
  MinOf(MaxOf(r.ideal, r.required), GetAllocatableSizeMaxCore(r.large))

\* Lines 114-118: at most half of the largest free block.
AllocatableSize ==
  IF AllocatableSizeMax > 1 THEN AllocatableSizeMax \div 2 ELSE AllocatableSizeMax

\* The call, with the asserts of lines 99-104 as its guard.
Allocate(t, r) ==
  /\ pc[t] = "idle"
  /\ m_buffer[t] = NoBuffer
  /\ req' = [req EXCEPT ![t] = r]
  /\ pc' = [pc EXCEPT ![t] = "try"]
  /\ UNCHANGED <<free, m_buffer, m_size, peak, fault>>

\* Mutant: the acceptance test of line 121 left out.
TryAllocateNoRequiredCheck(t) ==
  LET order == GetOrderFromBytes(MinOf(TargetSize(req[t]), AllocatableSize))
  IN  /\ pc[t] = "try"
      /\ AllocatableSize > 0
      /\ \E a \in FreeRuns(order) :
           /\ free' = free \ Run(a, Pow2(order))
           /\ m_buffer' = [m_buffer EXCEPT ![t] = a]
           /\ m_size' = [m_size EXCEPT ![t] = Pow2(order)]
      /\ pc' = [pc EXCEPT ![t] = "trim"]
      /\ UNCHANGED <<req, peak, fault>>

\* Mutant: m_size set to the size asked for, not to the block's size.
TryAllocateSizeUnrounded(t) ==
  LET size  == MinOf(TargetSize(req[t]), AllocatableSize)
      order == GetOrderFromBytes(size)
  IN  /\ pc[t] = "try"
      /\ \/ /\ AllocatableSize >= req[t].required
            /\ \E a \in FreeRuns(order) :
                 /\ free' = free \ Run(a, Pow2(order))
                 /\ m_buffer' = [m_buffer EXCEPT ![t] = a]
                 /\ m_size' = [m_size EXCEPT ![t] = size]
            /\ pc' = [pc EXCEPT ![t] = "trim"]
            /\ UNCHANGED <<req, peak, fault>>
         \/ /\ AllocatableSize < req[t].required
            /\ UNCHANGED vars

(***************************************************************************)
(* One iteration of the loop: the critical section of lines 111-129, then  *)
(* the test of line 132.  The block of the order asked for always exists:  *)
(* min(target_size, allocatable_size) is at most the largest free block.   *)
(* A failed test sleeps and retries (g_retry_count++): a stutter here.     *)
(***************************************************************************)
TryAllocate(t) ==
  LET order == GetOrderFromBytes(MinOf(TargetSize(req[t]), AllocatableSize))
  IN  /\ pc[t] = "try"
      /\ \/ /\ AllocatableSize >= req[t].required
            /\ \E a \in FreeRuns(order) :
                 /\ free' = free \ Run(a, Pow2(order))
                 /\ m_buffer' = [m_buffer EXCEPT ![t] = a]
                 /\ m_size' = [m_size EXCEPT ![t] = Pow2(order)]
            /\ pc' = [pc EXCEPT ![t] = "trim"]
            /\ UNCHANGED <<req, peak, fault>>
         \/ /\ AllocatableSize < req[t].required
            /\ UNCHANGED vars

\* Lines 133-143: trim the end when it is a whole trim unit too large
\* (g_reduce_allocation_count++ is left out).
Trim(t) ==
  LET target == TargetSize(req[t])
  IN  /\ pc[t] = "trim"
      /\ IF m_size[t] >= target + HeapAllocatableSizeTrim
           THEN Shrink(t, AlignUp(target, HeapAllocatableSizeTrim))
           ELSE UNCHANGED <<free, fault, m_size, m_buffer>>
      /\ pc' = [pc EXCEPT ![t] = "metrics"]
      /\ UNCHANGED <<req, peak>>

\* Lines 151-159: the peak, in a critical section of its own.
UpdateMetrics(t) ==
  /\ pc[t] = "metrics"
  /\ peak' = MinOf(peak, TotalFreeSize)
  /\ pc' = [pc EXCEPT ![t] = "hold"]
  /\ UNCHANGED <<free, m_buffer, m_size, req, fault>>

\* The owner gives the buffer back: Deallocate is Shrink(0).
Deallocate(t) ==
  /\ pc[t] = "hold"
  /\ Shrink(t, 0)
  /\ pc' = [pc EXCEPT ![t] = "idle"]
  /\ UNCHANGED <<req, peak>>

\* ClearPooledBufferPeak, lines 250-255 (the counters are left out).
ClearPooledBufferPeak ==
  /\ peak' = TotalFreeSize
  /\ UNCHANGED <<free, m_buffer, m_size, pc, req, fault>>

Next ==
  \/ \E t \in Threads :
       \/ \E r \in Requests : Allocate(t, r)
       \/ TryAllocate(t)
       \/ Trim(t)
       \/ UpdateMetrics(t)
       \/ Deallocate(t)
  \/ ClearPooledBufferPeak

(***************************************************************************)
(* Fairness: a thread inside AllocateCore keeps running its loop, and an   *)
(* owner gives its buffer back (PooledBuffer is a scoped object).  Nobody  *)
(* is obliged to allocate.                                                 *)
(***************************************************************************)
Fairness ==
  \A t \in Threads : /\ WF_vars(TryAllocate(t))
                     /\ WF_vars(Trim(t))
                     /\ WF_vars(UpdateMetrics(t))
                     /\ WF_vars(Deallocate(t))

Spec == Init /\ [][Next]_vars /\ Fairness

-----------------------------------------------------------------------------
TypeOK ==
  /\ free \subseteq HeapBlocks
  /\ m_buffer \in [Threads -> HeapBlocks \cup {NoBuffer}]
  /\ m_size \in [Threads -> 0 .. Pow2(HeapOrder)]
  /\ pc \in [Threads -> {"idle", "try", "trim", "metrics", "hold"}]
  /\ req \in [Threads -> Requests]
  /\ peak \in 0 .. Pow2(HeapOrder)
  /\ fault \in BOOLEAN

\* The blocks of t's buffer.
Owned(t) == IF m_buffer[t] = NoBuffer THEN {} ELSE Run(m_buffer[t], m_size[t])

(***************************************************************************)
(* Every block of the heap is either free or in exactly one buffer: the    *)
(* allocation takes a whole block of the heap and records its size, and    *)
(* Shrink gives back exactly the tail it cuts off.                         *)
(***************************************************************************)
HeapAccounted ==
  /\ \A t \in Threads : Owned(t) \cap free = {}
  /\ \A t, u \in Threads : t # u => Owned(t) \cap Owned(u) = {}
  /\ free \cup UNION {Owned(t) : t \in Threads} = HeapBlocks

(***************************************************************************)
(* Every piece Shrink hands to g_heap.Free is a block the buddy heap can   *)
(* take back: aligned to its own power-of-two size, and allocated.         *)
(***************************************************************************)
HeapCallsValid == ~fault

(***************************************************************************)
(* The AMS_ASSERT of line 137: once allocated and trimmed, the buffer      *)
(* holds at least required_size.                                           *)
(***************************************************************************)
AllocatedEnough ==
  \A t \in Threads : pc[t] \in {"metrics", "hold"} => m_size[t] >= req[t].required

(***************************************************************************)
(* The comment of line 108, "Loop until we allocate": every AllocateCore   *)
(* eventually returns with a buffer.                                       *)
(***************************************************************************)
AllocationCompletes == \A t \in Threads : pc[t] = "try" ~> pc[t] = "hold"
=============================================================================
