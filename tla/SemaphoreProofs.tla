--------------------------- MODULE SemaphoreProofs ---------------------------
(***************************************************************************)
(* Proofs about the os semaphore model, for every finite set of threads,   *)
(* every max_count and initial count.                                      *)
(***************************************************************************)
EXTENDS Semaphore, FiniteSetTheorems, TLAPS

\* The woken threads form a finite set, counted by a natural number.
LEMMA WokenFinite ==
  ASSUME TypeOK
  PROVE  /\ IsFiniteSet(woken)
         /\ Cardinality(woken) \in Nat
BY SemaphoreAssumption, FS_Subset, FS_CardinalityType DEF TypeOK

(***************************************************************************)
(* Each step keeps the count within 0 .. max_count (the loop re-test       *)
(* before every decrement, the max_count assert before every increment),   *)
(* and no thread both waits and is woken.                                  *)
(***************************************************************************)
LEMMA TypeStep == TypeOK /\ [Next]_vars => TypeOK'
<1> SUFFICES ASSUME TypeOK, [Next]_vars PROVE TypeOK'
  OBVIOUS
<1> USE SemaphoreAssumption DEF TypeOK, Running, Wait
<1>1. ASSUME NEW t \in Threads, Acquire(t) PROVE TypeOK'
  BY <1>1 DEF Acquire
<1>2. ASSUME NEW t \in Threads, TryAcquire(t) PROVE TypeOK'
  BY <1>2 DEF TryAcquire
<1>3. ASSUME NEW t \in Threads, TimedAcquire(t) PROVE TypeOK'
  BY <1>3 DEF TimedAcquire, vars
<1>4. ASSUME NEW t \in Threads, WaitTimeout(t) PROVE TypeOK'
  BY <1>4 DEF WaitTimeout
<1>5. ASSUME NEW t \in Threads, Relock(t) PROVE TypeOK'
  BY <1>5 DEF Relock
<1>6. ASSUME ReleaseOne PROVE TypeOK'
  BY <1>6 DEF ReleaseOne, Signal
<1>7. ASSUME NEW n \in ReleaseAmounts, ReleaseMany(n) PROVE TypeOK'
  BY <1>7 DEF ReleaseMany, Signal
<1>8. CASE UNCHANGED vars
  BY <1>8 DEF vars
<1> QED
  BY <1>1, <1>2, <1>3, <1>4, <1>5, <1>6, <1>7, <1>8 DEF Next

\* The semaphore's state is always well typed; in particular
\* 0 <= count <= max_count.
THEOREM TypeCorrect == Spec => []TypeOK
<1>1. Init => TypeOK
  BY SemaphoreAssumption DEF Init, TypeOK
<1> QED
  BY <1>1, TypeStep, PTL DEF Spec

-----------------------------------------------------------------------------
IInv == TypeOK /\ NoStrandedCount

\* A Signal after adding one unit: either nobody waits, or one more thread
\* is woken.
LEMMA SignalStep ==
  ASSUME TypeOK, NoStrandedCount, Signal, count' = count + 1,
         TypeOK'
  PROVE  NoStrandedCount'
<1>1. CASE waiters = {}
  BY <1>1 DEF Signal, NoStrandedCount
<1>2. CASE waiters # {}
  <2>1. PICK w \in waiters : /\ waiters' = waiters \ {w}
                             /\ woken' = woken \cup {w}
    BY <1>2 DEF Signal
  <2>2. w \notin woken
    BY <2>1 DEF TypeOK
  <2>3. IsFiniteSet(woken) /\ Cardinality(woken) \in Nat
    BY WokenFinite
  <2>4. Cardinality(woken \cup {w}) = Cardinality(woken) + 1
    BY <2>2, <2>3, FS_AddElement
  <2>5. count <= Cardinality(woken)
    BY <1>2 DEF NoStrandedCount
  <2>6. count \in Nat
    BY DEF TypeOK
  <2> QED
    BY <2>1, <2>3, <2>4, <2>5, <2>6 DEF NoStrandedCount
<1> QED
  BY <1>1, <1>2

(***************************************************************************)
(* When every release adds a single unit, no unit is ever stranded: while  *)
(* a thread waits on cv_not_zero, the count never exceeds the number of    *)
(* woken threads.  Each ReleaseSemaphore(sema) pairs its unit with the one *)
(* waiter its Signal wakes; a woken thread that takes a unit removes both; *)
(* the threads that find the count at 0 (to wait, or to give up) leave it  *)
(* at 0.                                                                   *)
(***************************************************************************)
THEOREM NoStrandedCountInvariant ==
  ASSUME ReleaseAmounts \subseteq {1}
  PROVE  Spec => []NoStrandedCount
<1>1. Init => IInv
  BY SemaphoreAssumption DEF Init, IInv, TypeOK, NoStrandedCount
<1>2. IInv /\ [Next]_vars => IInv'
  <2> SUFFICES ASSUME IInv, [Next]_vars PROVE IInv'
    OBVIOUS
  <2>0. TypeOK'
    BY TypeStep DEF IInv
  <2> USE DEF IInv
  <2>9. IsFiniteSet(woken) /\ Cardinality(woken) \in Nat
    BY WokenFinite
  <2>1. ASSUME NEW t \in Threads, Acquire(t) PROVE NoStrandedCount'
    BY <2>1, <2>9 DEF Acquire, Wait, NoStrandedCount, TypeOK
  <2>2. ASSUME NEW t \in Threads, TryAcquire(t) PROVE NoStrandedCount'
    BY <2>2, <2>9 DEF TryAcquire, NoStrandedCount, TypeOK
  <2>3. ASSUME NEW t \in Threads, TimedAcquire(t) PROVE NoStrandedCount'
    BY <2>3, <2>9 DEF TimedAcquire, Wait, NoStrandedCount, TypeOK, vars
  <2>4. ASSUME NEW t \in Threads, WaitTimeout(t) PROVE NoStrandedCount'
    <3>0. Cardinality(woken \cup {t})
            = IF t \in woken THEN Cardinality(woken) ELSE Cardinality(woken) + 1
      BY <2>9, FS_AddElement
    <3>1. /\ Cardinality(woken \cup {t}) \in Nat
          /\ Cardinality(woken \cup {t}) >= Cardinality(woken)
      BY <3>0, <2>9
    <3>2. waiters # {} /\ woken' = woken \cup {t} /\ count' = count
      BY <2>4 DEF WaitTimeout
    <3>3. count <= Cardinality(woken)
      BY <3>2 DEF NoStrandedCount
    <3>4. count' <= Cardinality(woken')
      BY <3>1, <3>2, <3>3, <2>9 DEF TypeOK
    <3> QED
      BY <3>4 DEF NoStrandedCount
  <2>5. ASSUME NEW t \in Threads, Relock(t) PROVE NoStrandedCount'
    <3>1. Cardinality(woken \ {t}) = Cardinality(woken) - 1
      BY <2>5, <2>9, FS_RemoveElement DEF Relock
    <3>2. CASE count > 0
      BY <2>5, <3>1, <3>2, <2>9 DEF Relock, NoStrandedCount, TypeOK
    <3>3. CASE count = 0
      <4>1. count' = 0 /\ woken' = woken \ {t}
        BY <2>5, <3>3 DEF Relock
      <4>2. Cardinality(woken \ {t}) \in Nat
        <5>1. IsFiniteSet(woken \ {t})
          BY <2>9, FS_RemoveElement
        <5> QED
          BY <5>1, FS_CardinalityType
      <4>3. count' <= Cardinality(woken')
        BY <4>1, <4>2
      <4> QED
        BY <4>3 DEF NoStrandedCount
    <3> QED
      BY <3>2, <3>3 DEF TypeOK
  <2>6. ASSUME ReleaseOne PROVE NoStrandedCount'
    BY <2>6, <2>0, SignalStep DEF ReleaseOne
  <2>7. ASSUME NEW n \in ReleaseAmounts, ReleaseMany(n) PROVE NoStrandedCount'
    <3>1. n = 1
      OBVIOUS
    <3> QED
      BY <2>7, <2>0, <3>1, SignalStep DEF ReleaseMany
  <2>8. CASE UNCHANGED vars
    BY <2>8 DEF vars, NoStrandedCount, TypeOK
  <2> QED
    <3>1. NoStrandedCount'
      BY <2>1, <2>2, <2>3, <2>4, <2>5, <2>6, <2>7, <2>8 DEF Next
    <3> QED
      BY <2>0, <3>1
<1>3. IInv => NoStrandedCount
  BY DEF IInv
<1> QED
  BY <1>1, <1>2, <1>3, PTL DEF Spec
=============================================================================
