---------------------------- MODULE MC_PooledBuffer ----------------------------
(***************************************************************************)
(* A heap of 8 blocks, orders scaled down from the code's 3 / 7 / 10 so    *)
(* that trimming, halving and large requests all happen: a trim unit of 1  *)
(* block, a normal maximum of 4 blocks and a large one of 8.  Three        *)
(* threads: two buffers can fragment the heap so that a third request is   *)
(* refused and retried.                                                    *)
(***************************************************************************)
EXTENDS PooledBuffer, TLC

\* (ideal, required, large): a request trimmed from 4 blocks to 3, one that
\* needs 2 blocks, and a large one that is reduced.
MCRequests ==
  { [ideal |-> 3, required |-> 1, large |-> FALSE],
    [ideal |-> 2, required |-> 2, large |-> FALSE],
    [ideal |-> 8, required |-> 1, large |-> TRUE] }

\* Two threads cycling one-block buffers, one asking for two blocks.
MCStarveRequests ==
  { [ideal |-> 2, required |-> 2, large |-> FALSE],
    [ideal |-> 1, required |-> 1, large |-> FALSE] }

\* The threads are interchangeable: only safety is checked with it.
MCSymmetry == Permutations(Threads)
=============================================================================
