# Verification project for the memory-layout core (and its neighbours)

TLA+ models of the code under `src/`, TLC configurations that check them on
small instances, and TLAPS proofs of their main invariants for every value of
the constants.

## 1. Inventory

The source tree bundles one kernel component and several unrelated userland
pieces.  Each is listed with its state, its operations, how it interacts and
what makes it correct.

### 1.1 Memory block tree — `kern_k_memory_layout.cpp` (the core)

* **State.** An ordered set of blocks `[address, address+size)` over the
  64-bit address space, each with a type (a bitmask with a derivation
  order: `CanDerive(t)` iff every bit of the old type is in `t`), an attribute
  word and a pair address (the corresponding address in the other space, or
  `numeric_limits<uintptr_t>::max()` for none).  Block storage comes from a
  fixed-capacity arena, the block allocator.
* **Operations.** `Insert(address, size, type_id, new_attr, old_attr)` (lines
  20-72): find the containing block; return false unless its attribute is
  `old_attr`, the range fits inside it and its type can derive `type_id`;
  otherwise erase it and insert the before/new/after pieces, reusing the
  erased storage for the first piece and drawing the others from the
  allocator; pair addresses are shifted by each piece's offset.
  `GetRandomAlignedRegion(size, alignment, type_id)` (74-111): rejection
  sampling of an aligned candidate inside the derived extents of `type_id`
  that fits in one block of exactly that type.
* **Correctness.** The blocks tile the space after every Insert; pair
  addresses stay linear; types only move down the lattice; the arena is not
  leaked; a random region is aligned, in range, inside one block of the type.

### 1.2 Memory layout and the boot builders — same file

* **State.** `KMemoryLayout` owns the physical and virtual trees, the two
  linear trees derived from them and the two linear offsets.
* **Operations.** `InitializeLinearMemoryBlockTrees` (113-132) sets the
  offsets and copies every `LinearMapped` physical block and every
  DRAM-derived virtual block into the linear trees.
  `SetupPoolPartitionMemoryBlocks` (225-282) computes the application,
  applet, non-secure system, metadata and system pools backwards from the end
  of DRAM (splitting the application pool at the DRAM midpoint) and inserts
  each into both trees through `InsertPoolPartitionBlockIntoBothTrees`
  (183-187), which inserts the physical block, looks it up again by
  (type, attr) and inserts the virtual block at its pair address.
  `SetupCoreLocalRegionMemoryBlocks` (191-223) finds a random virtual region
  (`GetCoreLocalRegionVirtualAddress`, 150-181), inserts it, allocates pages
  and maps them per core.
* **Interaction.** Calls into the tree; the page allocator, `Map`, the random
  source and `SetInitArguments` are external.
* **Correctness.** The five pools are contiguous, ordered and sum to the
  pool-partition region; physical and virtual trees stay in lock-step; the
  linear trees equal the linear part of the trees.
* **Concurrency.** None: boot is single-threaded.  The hard behaviours are
  arithmetic edges, long call sequences and the unbounded retry loops.

### 1.3 os semaphore — second half of `fs_file_storage.cpp`

* **State.** `count`, `max_count`, `state`, a critical section, a condition
  variable `cv_not_zero`, a multi-wait list.
* **Operations.** Initialize, Finalize, Acquire (waits while count is 0),
  TryAcquire, TimedAcquire (waits with a timeout), Release and Release(count)
  (add, signal the condition variable once, wake the wait list),
  GetCurrentSemaphoreCount.
* **Hard.** Threads interleave; `Release(count)` signals one waiter only; the
  timeout races a release.  `FinalizeSemaphore` asserts with `=` (line 221),
  so the assert is an assignment.
* **Correctness.** `0 <= count <= max_count`; no waiter blocked forever while
  count is positive (under fair scheduling); a timed acquire that fails saw 0.

### 1.4 File storage — first half of `fs_file_storage.cpp`

* **State.** `m_size` (cached, `InvalidSize` when unknown) and the base file.
* **Operations.** `UpdateSize`, `Read`, `Write`, `Flush`, `GetSize`, `SetSize`
  (invalidates the cache), `OperateRange`, for `FileStorage` (no lock) and
  `FileHandleStorage` (Read and Write under `m_mutex`, the others not).
* **Hard.** The cached size is shared without a lock by SetSize/GetSize and
  checked by Read/Write: a stale or invalid size can be used.
* **Correctness.** A read or write is range-checked against the file's real
  size; a successful GetSize returns it.

### 1.5 Pooled buffer — `fssystem_pooled_buffer.cpp`

* **State.** A global buddy heap under `g_heap_mutex`, the retry and
  reduce-allocation counters, the free-size peak; per buffer `m_buffer`,
  `m_size`.  `AdditionalDeviceAddressEntry` (registered, address, size) under
  its own mutex.
* **Operations.** `AllocateCore` (retry loop: take at most half of the largest
  free block, trim, count reductions), `Shrink` (free the tail in aligned
  power-of-two pieces), `InitializeBufferPool`, `ClearPooledBufferPeak`,
  Register/Unregister/IsAdditionalDeviceAddress.
* **Hard.** Threads contend for the heap and sleep-retry; the peak is updated
  in a second critical section; Shrink's arithmetic.
* **Correctness.** Buffers never overlap; the heap's free space plus the
  buffers is the heap; Shrink frees
  exactly the tail.

### 1.6 Location resolver glue and `util::Atomic` — `src/unnamed/part_000`

IPC wrappers around libnx (`lrInitialize`, `lrOpen...`) with one flag, and a
`std::atomic` wrapper whose `Store` drops its argument (line 157).  Not
modelled (pure I/O; an uninstantiated template).

## 2. Plan

Modules, in order (the most important behaviour first):

1. `MemoryBlockTree` — the tree and `Insert` (done).  `MC_MemoryBlockTree`
   instantiates it; `MemoryBlockTreeProofs` proves its type invariant,
   Coverage, SlotAccounting, PairPropagation, the action property
   TypeOnlyDerives and the refinement of `AddressMap` (done).
2. `CoreLocalRegion` — `GetRandomAlignedRegion`,
   `GetCoreLocalRegionVirtualAddress` and the Insert of
   `SetupCoreLocalRegionMemoryBlocks` over an instance of the tree: one step
   per random draw; safety of the returned region, and liveness (under strong
   fairness of a fitting draw) when a fitting region exists (done);
   `CoreLocalRegionProofs` proves RegionPlaced and CoreLocalInserted (done).
3. `PoolPartition` — `SetupPoolPartitionMemoryBlocks` composing two
   `MemoryBlockTree` instances (physical and virtual) with the pool
   arithmetic; the pool layout scenario of the spec and lock-step of the two
   trees (done).
4. `MemoryLayout` — `InitializeLinearMemoryBlockTrees` after the builders,
   composed with `PoolPartition` (done).
5. `Semaphore` — threads over one semaphore; count bounds, the one-signal
   release as a liveness question, the timeout (done, with
   `SemaphoreProofs`).
6. `FileStorage` — the size cache under concurrent SetSize/Read (done).
7. `PooledBuffer` — allocation retry and Shrink (done).

Abstract specifications worth stating: the tree as a map from address to
(type, attr, pair) refined by the block representation; the semaphore as a
counter with blocking acquire.  The first is done (`AddressMap`, checked by
the run `tree_refinement`).  Theorems: Coverage, SlotAccounting,
PairPropagation, the refinement of the abstract tree, RegionPlaced, CoreLocalInserted, TypeOnlyDerives, the
semaphore count bounds (all done); still to prove: the pool partition's
invariants and `LinearTranslation`.

## 3. Modules

### MemoryBlockTree

| Code | Model |
|---|---|
| block storage of the tree | `blocks`, a set of records `[addr, size, pair, attr, type]` |
| block allocator's handed-out slots | `used` |
| return value of Insert | `ret` |
| `Insert` (20-72) | `Insert`, split into `InsertAllowed` (the three early returns), `SplitPieces` (before/new/after), `PairAt` (pair shift), `FreshSlots` (allocator draws), `InsertOk`, `InsertFail` |
| `uintptr_t` arithmetic | `Wrap(x) == x % 2^W` on every sum the code computes |
| `KMemoryBlock` accessors, `FindContainingBlock`, `CanDerive` (headers, not under `src/`) | `LastAddress`, `EndAddress`, `Contains`, `CanDerive`, `IsDerivedFrom`, from the spec |

Types are sets of bits (`CanDerive` is `\subseteq`).  `Next` lets a caller
call Insert with any address, any size from `MinInsertSize` up to the top of
the space, any type and any attribute pair: the builders' calls are among
these.  When the allocator would be exhausted the boot aborts; the model
disables such an Insert.

### AddressMap (the abstract tree) and the refinement

`AddressMap` is what the tree promises with the blocks forgotten: `mem[a]`
is the type, attribute and pair address of address `a`.  An Insert is
either `Refuse` (`ret` FALSE, nothing changes) or `Reclassify`: a non-empty
range whose every address had the expected old attribute and a type the new
type derives from gets the new type and attribute, and every address keeps
its pair address.  `MemoryBlockTree` maps its blocks to this view with
`MemOf` (the containing block's type and attribute, and `PairAt` at the
address's offset) and states `ImplementsAddressMap == Abstract!Spec`.  The
abstract module models no code of its own: it is the specification the
block representation (splitting, the pair shift, the allocator) is checked
against.

### CoreLocalRegion

| Code | Model |
|---|---|
| the virtual tree | `Tree == INSTANCE MemoryBlockTree` (`blocks`, `used`, `ret`) |
| where boot is in the two loops | `pc`: `extents`, `draw`, `bounds`, `insert`, `done`, `abort` |
| `candidate` / `candidate_start` | `cand` |
| `core_local_virt_start` | `region` |
| constants of lines 143-146 | `CoreLocalRegionAlign`, `CoreLocalRegionSize`, `CoreLocalRegionSizeWithGuards`, `BoundsAlign` |
| `GetDerivedRegionExtents` and the alignment abort (75-82) | `Extents` (with `FirstDerived`, `LastDerived`) |
| one iteration of the draw loop (84-110) | `Draw`, its four `continue`s in `CandidateOk` |
| the five checks of `GetCoreLocalRegionVirtualAddress` (150-181) | `BoundsOk`, `CheckBounds` (a rejection goes back to `extents`, a fresh call of `GetRandomAlignedRegion`) |
| the Insert of line 193 | `InsertCoreLocal` (calls `Tree!Insert`) |

`GenerateRandomRange` is a nondeterministic choice of a value in
`[first_address, last_address]`.  Boot is single-threaded and the search only
reads the tree, so the tree is fixed during the search.

Fairness.  Every value of the random source has a positive probability on
every draw, so a draw that passes both loops' checks happens with probability
1 if the loop keeps drawing: `SF_vars(FittingDraw)`.  (Strong fairness of each
single value is the same assumption, but TLC's tableau for 64 such conjuncts
is too large.)  The other steps are straight-line code: weak fairness.

### Semaphore

| Code | Model |
|---|---|
| `sema->count` | `count` |
| threads blocked in `cv_not_zero.Wait` / `TimedWait` | `waiters` |
| threads woken (by `Signal` or by the timeout), not yet back in `cs_sema` | `woken` |
| which call a blocked thread is in | `op[t]` (`"acquire"`, `"timed"`) |
| `TimeoutHelper::TimedOut()` after the wait's timeout | `expired` |
| `InitializeSemaphore` (201-218) | `Init` |
| `AcquireSemaphore` (236-248) | `Acquire` (first test), `Relock` (re-test after a wake) |
| `TryAcquireSemaphore` (250-264) | `TryAcquire` (the `false` return changes nothing) |
| `TimedAcquireSemaphore` (266-285) | `TimedAcquire` (first test; its `TimedOut()` may already be true), `WaitTimeout`, `Relock` |
| `ReleaseSemaphore(sema)` (287-300) | `ReleaseOne` |
| `ReleaseSemaphore(sema, count)` (302-315) | `ReleaseMany(n)`, `n` from `ReleaseAmounts` |
| `cv_not_zero.Signal()` | `Signal`: one waiter, chosen by `\E`, moves to `woken` |

Every critical section of the code holds `cs_sema` from its first to its
last access, so it is one step; only the condition-variable wait splits an
operation.  Releases are made by any thread of the program (they never
block), so they are not tied to `Threads`.  The asserts on `max_count` are
preconditions of the callers (guards).  Fairness: weak fairness of each
woken thread's `Relock` (it is runnable, and `cs_sema` is only held for
short sections) and of each timed waiter's `WaitTimeout` (time passes).
Nobody is obliged to call the semaphore.

### FileStorage

| Code | Model |
|---|---|
| the file's real size | `fileSize` |
| `m_size` (`InvalidSize` = -1) | `m_size` |
| `m_mutex` | `lock` (a thread or `NoThread`) |
| where each thread is | `pc[t]` |
| the `(offset, size)` of a Read/Write | `arg[t]` |
| the size `GetFileSize` read, or `SetSize`'s argument | `val[t]` |
| `Read` / `Write` (110-146) | `Read` / `Write` (`StartAccess`: lock, size 0), `UpdateSizeTest`, `UpdateSizeStore`, `AccessCheck`, `AccessIo`, `AccessEnd` (unlock) |
| `UpdateSize` (105-108) | `UpdateSizeTest` (test of `m_size`, then the file query or its failure), `UpdateSizeStore` (the store into `m_size`) |
| `GetSize` (152-156) | `GetSize`, `UpdateSizeTest`, `UpdateSizeStore`, `GetSizeReturn` (the second read of `m_size`) |
| `SetSize` (158-161) | `SetSize` (invalidate), `SetFileSize` (the file changes, or the call fails) |

Each access of `m_size` or of the file is a step of its own: the unlocked
ones race in the code, and every interleaving of word-sized accesses is an
outcome a build can produce.  `SerializedResize` says whether callers keep
`SetSize` apart from every other call (the discipline under which the cache
is correct) or not.  Nothing in the code enforces that discipline.
`FileStorage` (lines 20-69), the same cache with no lock at all, is not
modelled.

### PooledBuffer

| Code | Model |
|---|---|
| `g_heap` (a `FileSystemBuddyHeap`, not under `src/`) | `free`, the set of free blocks; `FreeRuns(k)`, `AllocatableSizeMax`, `GetOrderFromBytes`, `TotalFreeSize`, `ValidFree` (the precondition of its `Free`) |
| `m_buffer`, `m_size` of each thread's buffer | `m_buffer[t]` (first block or `NoBuffer`), `m_size[t]` (blocks) |
| where each thread is | `pc[t]`: `idle`, `try`, `trim`, `metrics`, `hold` |
| `g_heap_free_size_peak` | `peak` |
| `HeapOrderTrim` / `Max` / `MaxForLarge` (71-77) | constants, in blocks |
| `InitializeBufferPool` (200-214) | `Init` |
| `AllocateCore` (97-160) | `Allocate` (entry and asserts), `TryAllocate` (one iteration: the critical section and the test of line 132; a refusal sleeps and retries), `Trim` (133-143), `UpdateMetrics` (151-159) |
| `Shrink` (162-198) | `Shrink`, with the loop as `ShrinkPieces` (a recursive function over the remaining size) |
| `Deallocate` (the header's `Shrink(0)`) | `Deallocate` |
| `ClearPooledBufferPeak` (250-255) | `ClearPooledBufferPeak` |

The buddy heap is a collaborator and is modelled by what it promises: blocks
are handed out as aligned runs of `2^order` blocks, a freed pair coalesces
(so the largest free block is the largest aligned free run), and `Free` must
be given an allocated, aligned block of its order (`fault` records a call
that is not).  The two statistics counters are left out: no control reads
them.  Each critical section under `g_heap_mutex` is one step; the steps
between them (the test after the allocation, the trim's Shrink, the metrics
section) are separate, so other threads interleave there.  Fairness: weak
fairness of every step of a thread inside `AllocateCore` and of the owner's
`Deallocate` (a `PooledBuffer` is a scoped object); nobody is obliged to
allocate.

### PoolPartition

| Code | Model |
|---|---|
| the physical and virtual `KMemoryBlockTree` | `pblocks`, `vblocks`: two instances `Phys`, `Virt` of `MemoryBlockTree`, sharing one block allocator (`used`) and the last Insert's result (`ret`) |
| `GetApplicationPoolSize` / `GetAppletPoolSize` / `GetMinimumNonSecureSystemPoolSize` | `conf`, chosen in `Init` from small sets |
| `GetDerivedRegionExtents`, `FindFirstDerivedBlock`, `FindFirstBlockByTypeAttr` (header, not under `src/`) | `FirstDerived`, `LastDerived`, `FindFirstBlockByTypeAttr` |
| `SetupPoolPartitionMemoryBlocks` (225-280): the kernel start check, the pool addresses, the midpoint split, the overhead sum | `Plan` computes the list of Inserts `PoolCalls` (`ApplicationPoolCalls`, `UnsafeSystemPoolStart`, `OverheadOf`), in W-bit words (`Wrap`) |
| `InsertPoolPartitionBlockIntoBothTrees` (183-187) | `PhysInsert` then `VirtInsert` (at the pair address of the physical block found again by type and attribute); a failed Insert is `MESOSPHERE_INIT_ABORT_UNLESS`, `pc = "abort"` |
| `KMemoryManager::CalculateMetadataOverheadSize` (not under `src/`) | the constant operator `MetadataOverhead` |

The builder runs once on the boot core: every configuration is a single
deterministic run, so the spec has no fairness and no property is temporal.
`Room(c)` computes, in exact (unwrapped) arithmetic, whether the pools fit;
`NoAbortWhenRoom` says the wrapped code aborts only when they do not.
Types carry a `LinearMapped` bit: the DRAM types of the physical tree have
it, and the virtual pool types derive from `Dram`, as in the code's type
constants, so that `MemoryLayout` can select the blocks the linear trees
copy.

### MemoryLayout

| Code | Model |
|---|---|
| the pool partition before it | `EXTENDS PoolPartition`: its variables and steps unchanged |
| physical and virtual linear trees | `plin`, `vlin` |
| `s_linear_phys_to_virt_diff`, `s_linear_virt_to_phys_diff` | `p2v`, `v2p` (W-bit words) |
| whether the call has happened | `linear` |
| `InitializeLinearMemoryBlockTrees` (113-132) | `InitializeLinearMemoryBlockTrees`: the two differences, then both loops at once (`PhysLinearBlocks`, the `HasTypeAttribute(LinearMapped)` filter; `VirtLinearBlocks`, the `IsDerivedFrom(Dram)` filter), one allocator slot per `Create` (`LinearCopy`, a copy without pair address) from the slab the pools used; a slab exhausted aborts the boot |
| the boot sequence (`kern_init_core.cpp`, not under `src/`) | `LayoutNext`: the pool builder's steps, then the linear trees once the builder has returned |

The two loops are one step: boot is single-threaded and they only read the
trees they copy.


## 4. Runs

| run | cfg | what it shows |
|---|---|---|
| `tree_insert` | `MC_MemoryBlockTree.cfg` | W = 3 (8 addresses), a reserved block `[0,2)` without pair and a DRAM block `[2,8)` paired with `[0,6)`, two type bits, attributes {0,1}, 4 allocator slots: every Insert sequence keeps `Coverage`, `PairPropagation`, `SlotAccounting`, `TypeOnlyDerives`, `TypeOK`. 22k states, depth 7. |
| `core_local_search` | `MC_CoreLocalRegion.cfg` | W = 7, pages of 2 units, two cores (region 6 units, 10 with guards), 32-unit windows; None blocks `[8,20)` (no window fits), `[28,80)` (the window `[32,64)` fits; candidates from 56 up straddle into `[64,96)`, which ends past the block) and `[96,128)` (the top window, where `AlignUp` wraps to 0): `RegionPlaced`, `CoreLocalInserted`, `SearchTerminates` hold. 135 states. |
| `semaphore` | `MC_Semaphore.cfg` | three threads, max count 2, initial count 0, releases of one unit (`ReleaseAmounts = {1}`; `ReleaseMany` runs with `n = 1`): `TypeOK`, `NoStrandedCount` and `StrandedWaiterResolved` hold.  1.1k states. |
| `semaphore_release_many` | `MC_Semaphore_ReleaseMany.cfg` | the same with `ReleaseSemaphore(sema, 2)` allowed: `StrandedWaiterResolved` fails.  Two threads wait, a release of 2 signals once, the woken thread takes one unit, and the other stays blocked with the count at 1. |
| `file_storage` | `MC_FileStorage.cfg` | two threads, file sizes {1, 2}, accesses `(0,0)`, `(1,1)`, `(0,2)`, `(1,2)` (empty, inside 2 but not 1, past the end), resizes serialized: `CacheCoherent`, `AccessInRange`, `GetSizeReturnsFileSize` hold.  5.4k states. |
| `file_storage_stale_cache` | `MC_FileStorage_StaleCache.cfg` | the same with `SetSize` concurrent: `CacheCoherent` fails.  A Read queries the file (size 2), SetSize invalidates and shrinks the file to 1, the Read stores 2: the cache stays 2 after SetSize returned. |
| `file_storage_getsize_race` | `MC_FileStorage_GetSizeRace.cfg` | the same: `GetSizeReturnsFileSize` fails.  GetSize's UpdateSize fills the cache, SetSize invalidates it, GetSize returns `InvalidSize`. |
| `tree_insert_empty` | `MC_MemoryBlockTree_EmptyInsert.cfg` | the same with size 0 allowed: `Coverage` fails after one Insert (a zero-size block and a duplicate key). |
| `pooled_buffer` | `MC_PooledBuffer.cfg` | three threads (symmetric), a heap of 8 blocks, trim unit 1, normal maximum 4, large maximum 8; requests (ideal 3, required 1) (trimmed from 4 blocks to 3, so its later Shrink(0) frees pieces of 1 and 2), (2, 2) (refused when two buffers fragment the heap) and (8, 1, large) (reduced to 4).  `HeapAccounted`, `HeapCallsValid`, `AllocatedEnough` hold.  The free-size peak is modelled but no property is checked of it: every write sets it from a fresh read of the free size under the lock. |
| `pooled_buffer_starvation` | `MC_PooledBuffer_Starvation.cfg` | two threads, a heap of 4 blocks: `AllocationCompletes` fails.  One thread asks for 2 blocks, which needs the whole heap free; the other allocates and frees one block in a cycle, and every retry of the first comes while the other holds its block. |
| `tree_refinement` | `MC_MemoryBlockTree_Refinement.cfg` | the tree of `tree_insert` with one type bit (the refinement check enumerates every abstract step, so the smaller lattice keeps it at 14 s): `ImplementsAddressMap` holds, every Insert is a `Reclassify` or a `Refuse` of the address map.  1.5k states.  A split that gives the remainder after the range the new attribute passes every `tree_insert` property and breaks this one. |
| `memory_layout` | `MC_MemoryLayout.cfg` | the whole boot layout. W = 6 (64 addresses); DRAM `[4,28)` with the kernel at `[4,8)` and the pool partition `[8,28)`, virtual counterparts at `[0,4)` and `[4,24)`; application sizes {2,4,8,12,14,18} (the DRAM midpoint is 16, so sizes above 12 straddle it and are split; 18 does not fit), applet sizes {0,2,3}, non-secure minimums {1,2,4}, carveout alignment 2 and maximum 6, metadata overhead size/8; DRAM linear-mapped at virtual `[0,24)` (start pair (4, 0)); 31 slab slots.  `PoolsPartitionDram`, `TreesInLockStep`, `TreesTile`, `NoAbortWhenRoom` and `LinearTranslation` hold.  528 states.  31 is the least capacity with which no fitting configuration aborts: with 30, a configuration that splits the application pool fits the pools and then exhausts the slab in the copy loops. |

Bounds: 8 addresses allow a block to be split at its start, middle and end,
twice over, and a DRAM block to be split into three; 4 slots allow two
three-way splits' worth of pieces, enough to reach the capacity limit; two
type bits give a three-level lattice with incomparable types; two
attributes make the compare-and-swap fail and succeed.

## 5. Proofs

`MemoryBlockTreeProofs` proves, for every W >= 1, type-bit set, attribute
set, initial tiling and capacity:

* `TypeCorrect`: `Spec => []TypeOK`.  Rests on `PiecesType` (the pieces are
  blocks, one to three of them) and `WrapType`.
* `CoverageInvariant`: with `MinInsertSize = 1`, `Spec => []Coverage`.  The
  inductive invariant is `TypeOK /\ Coverage`.  `SplitTiles` shows that the
  pieces of a permitted Insert tile exactly the interval of the replaced
  block (the wrapped `inserted_block_last` and `old_end - inserted_block_end`
  computations are evaluated with `WrapId`, `WrapBelow`, `WrapSpace`);
  `TilesReplace` shows that replacing one tile by such pieces keeps a tiling.
* `SlotAccountingInvariant`: with `MinInsertSize = 1`,
  `Spec => []SlotAccounting`.  The inductive invariant `SlotInv` adds
  `Coverage` and the finiteness of `blocks` to `TypeOK`: the count goes up by
  one slot per extra piece, so the cardinality arithmetic needs the pieces
  to be distinct from the blocks that stay (`PiecesFresh`: a piece lies
  inside the replaced tile and so is disjoint from every other tile).
* `PairPropagationInvariant`: with `MinInsertSize = 1` and
  `InitPairsInRange` (no initial block's pair range `[pair, pair + size)`
  runs past the top of the space), `Spec => []PairPropagation`.  The
  property is not inductive: after a split it speaks of the new piece's
  start only, while the next split shifts the pair from any address inside
  it.  `PairInv` therefore adds `Coverage`, `PairInRange` for every block and
  `PairsAgree`: at every address of every block, the pair the block gives
  it (`PairAt`) is the initial pair of that address.  `SplitTiles` is
  extended to say what each piece's pair and type are, and `PairShift`
  shows that a piece's shifted pair agrees with its parent's at every
  address, and stays in range.  The hypothesis is needed.  With DRAM
  `[2,8)` paired at 3 in a 3-bit space, the pair range wraps past the top.
  A split then gives a piece the pair 7 = 2^W - 1, the "no pair" sentinel of
  lines 61 and 67 of `kern_k_memory_layout.cpp`.  The next split of that
  piece keeps 7 instead of shifting it, and TLC reports `PairPropagation`
  violated.  In the kernel the pair ranges are physical and virtual regions,
  which never wrap.
* `RefinesAddressMap`: under the same two hypotheses,
  `Spec => ImplementsAddressMap`.  `Init` maps to the abstract `Init`.
  `RefineStep` maps a step satisfying `PairInv` to an abstract step:
  * a refused Insert is `Refuse`;
  * a stutter is a stutter;
  * a permitted Insert is `Reclassify(address, size, ...)`, shown address by
    address.

* `TypeOnlyDerivesProperty`: with `MinInsertSize = 1`,
  `Spec => TypeOnlyDerives`, the action property that no step takes a type
  bit away from an address.  From `IInv` (so from `CoverageStep`) each step
  starts in a tiling, where two overlapping blocks are one (`OverlapSame`).
  `DerivesOnStep` splits on the step.  A block that stays is compared only
  with itself.  A piece lies inside the replaced block and so overlaps no
  other old block.  Its type is either the old type or `type_id`, which
  contains the old type because `CanDerive` passed.

  `TileUnique` and `MemOfAt` show that `MemOf`'s CHOOSE finds the unique
  tile containing an address. From there the value at each address follows
  from which piece, if any, now covers it.  `Reclassify` writes the new cell
  as an explicit record (type, attribute, the old pair) rather than with
  EXCEPT, which the provers could not compare.

`SemaphoreProofs` proves, for every finite set of threads, `max_count` and
initial count:

* `TypeCorrect`: `Spec => []TypeOK` (the count stays in `0..max_count`).
* `NoStrandedCountInvariant`: when `ReleaseAmounts \subseteq {1}`,
  `Spec => []NoStrandedCount`.  The inductive invariant is
  `TypeOK /\ NoStrandedCount`: `TypeOK` gives the finiteness of `woken`
  (`WokenFinite`) that the cardinality arithmetic needs.  `SignalStep` shows
  that one unit added with one `Signal` keeps the bound.  A `Relock` that
  takes a unit removes one woken thread and one unit.  The steps that find
  the count at 0 leave it at 0.  The hypothesis on `ReleaseAmounts` is
  needed: the run `semaphore_release_many` breaks the bound.

Assumptions used: `WAssumption` (W >= 1, so 2^W >= 2, stated because the
provers know nothing of `^`), `InitBlocksAssumption` (the initial tree is a
finite tiling within capacity), `CapacityAssumption`, `MinSizeAssumption`.

The FileStorage invariants are only model-checked, and only under
`SerializedResize = TRUE`.  That hypothesis is a caller discipline the code
(lines 152-161) does not enforce, and it removes exactly the interleavings
that make the cache go wrong (`file_storage_stale_cache`,
`file_storage_getsize_race`), so a proof under it would say little; no
theorem is stated about them.

`CoreLocalRegionProofs` proves, for every width, page size, core count,
window alignment and initial tiling satisfying `WindowsFit`:

* `RegionPlacedInvariant`: `Spec => []RegionPlaced`.  `WindowsFit` requires
  two things:
  * `BoundsAlign` divides 2^W (1 GB divides 2^64 in the kernel);
  * the guarded region is smaller than the space.

  The inductive invariant `CLInv` has four parts:
  * `TreeUntouched`: the blocks are the initial tiling until the Insert;
  * `CandidateTaken`: a candidate past the first loop is page aligned and
    passed `candidate < candidate + size`;
  * `BoundsTaken`: past the bounds checks, `BoundsOk` held and the region is
    `candidate + PageSize`;
  * `BuilderTypeOK`: the builder's variables are in range.

  `PlacedFromInv` carries the arithmetic.  The first loop's test rules out
  a wrapped candidate, so `candidate_last` is the unwrapped last address.
  The two `AlignDown` checks put it in the candidate's window.
  `AlignUp(candidate_last)` is the first aligned address above the window
  start (`AlignedGap`).  Either it is below 2^W and the last check bounds the
  block's end, or it is 2^W and wraps to 0, in which case `0 - 1` wraps to
  the top address and the block runs to the top.  The lemmas on `%` by a
  positive divisor are `ModRange`, `AlignDownBounds`, `ModOffset` and
  `WrapRange`.

  The divisibility hypothesis is needed.  With `BoundsAlign = 48` in the run's
  128-unit space, TLC violates `RegionPlaced`:
  * the candidate 96 gets the window `[96,144)`, which runs past the top;
  * `AlignUp` wraps its end to 16, so the last check compares 15 with the
    block's last address and passes.

* `CoreLocalInsertedInvariant`: under `WindowsFit` and `UnusedAttrZero`
  (every unused initial block carries attribute 0), `Spec => []CoreLocalInserted`:
  the Insert of the core-local region never fails.  The inductive invariant
  is `CLInv /\ CoreLocalInserted`.  Until the Insert the tree is the initial
  tiling, so `Site` finds the unused block that `RegionPlaced` puts the
  guarded region in.  `InitSpan` and `InitDisjoint` turn `Contains` on an
  initial block into an unwrapped interval test and show that the block is
  the only one containing the region's start.  `InsertStep` then shows that
  `InsertAllowed` holds for that block (attribute 0 is the `old_attr` the
  code passes at line 193, the type bits only grow, the region ends inside
  the block) and computes the three pieces, with the guard pages in the
  before and after pieces.  The hypothesis is needed: with the unused block
  `[28,80)` given attribute 1 and `Attrs = {0,1}`, TLC finds the Insert
  refused and `CoreLocalInserted` violated.  In the kernel the unused
  virtual space is inserted with the default attribute 0.

  The proofs use the new `TreeAssumption` of `CoreLocalRegion`.  It restates
  the tree's assumptions on the constants passed to it: W >= 1, and the
  initial blocks are a tiling.  TLC evaluates it in `core_local_search`.

`PooledBuffer` is only model-checked: its Shrink loop is a recursive
function, and what it frees for every size is induction over data.  The
bounds are what make its cases happen: 8 blocks with a normal maximum of 4
is the least heap where a trimmed buffer of 3 (pieces 1 and 2 at different
alignments) and a fragmented refusal both occur.

Out of the provers' reach, left to TLC: liveness and `ENABLED`
(`SearchTerminates`, `StrandedWaiterResolved`, `AllocationCompletes`), and
anything about recursive definitions (`PooledBuffer`).  Not yet proved,
so only model-checked: the pool
partition's `PoolsPartitionDram`, `TreesInLockStep`, `TreesTile` and
`NoAbortWhenRoom`, and `LinearTranslation`.  The pool properties rest on the
pool arithmetic for every size the `KSystemControl` queries may return.

## 6. Not modelled

`FinalizeSemaphore` (its first assert is written with `=` at line 221, so it
assigns rather than compares and never fires), the multi-wait list and
`InitializeMultiWaitHolder`, and `GetCurrentSemaphoreCount`, which reads the
count without `cs_sema` and changes nothing.

The page-table construction, the initial page allocator, the random source
(a nondeterministic choice when modelled), `SetInitArguments`; the
location-resolver IPC glue and `util::Atomic` (see 1.6).
