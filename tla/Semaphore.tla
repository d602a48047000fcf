------------------------------ MODULE Semaphore ------------------------------
(***************************************************************************)
(* The os semaphore of the second half of fs_file_storage.cpp: a count     *)
(* under a critical section (cs_sema) and a condition variable             *)
(* (cv_not_zero) that Acquire and TimedAcquire wait on while the count is  *)
(* 0.  Every critical section is one atomic step: all of them hold         *)
(* cs_sema from their first to their last access of the semaphore.  A      *)
(* Wait on the condition variable releases cs_sema and blocks (the thread  *)
(* joins `waiters'); a Signal, or the timeout of a TimedWait, wakes one    *)
(* (it moves to `woken'), and the woken thread re-takes cs_sema and        *)
(* re-tests the loop condition in a step of its own.                       *)
(*                                                                         *)
(* The multi-wait list (waitlist, SignalAllThreads) only serves            *)
(* MultiWait holders, which nothing here creates, and is left out.         *)
(***************************************************************************)
EXTENDS Naturals, FiniteSets

CONSTANTS
  Threads,        \* the threads that use the semaphore
  MaxCount,       \* max_count of InitializeSemaphore
  InitCount,      \* count of InitializeSemaphore
  ReleaseAmounts  \* the counts callers pass to ReleaseSemaphore(sema, count)

\* The asserts of InitializeSemaphore (lines 202-203).
ASSUME SemaphoreAssumption ==
  /\ MaxCount \in Nat \ {0}
  /\ InitCount \in 0 .. MaxCount
  /\ ReleaseAmounts \subseteq Nat \ {0}
  /\ IsFiniteSet(Threads)

VARIABLES
  count,    \* sema->count
  waiters,  \* threads blocked in Wait/TimedWait on cv_not_zero
  woken,    \* threads woken from the wait, not yet back in cs_sema
  op,       \* op[t]: the call a blocked thread is in, "acquire" or "timed"
  expired   \* threads whose TimedWait returned by its timeout

vars == <<count, waiters, woken, op, expired>>

\* A thread that is not blocked inside the semaphore.
Running == Threads \ (waiters \cup woken)

\* Lines 212-217.
Init ==
  /\ count = InitCount
  /\ waiters = {}
  /\ woken = {}
  /\ op = [t \in Threads |-> "acquire"]
  /\ expired = {}

\* ConditionVariable::Wait / TimedWait: release cs_sema and block.
Wait(t, kind) ==
  /\ waiters' = waiters \cup {t}
  /\ op' = [op EXCEPT ![t] = kind]
  /\ expired' = expired \ {t}

\* ConditionVariable::Signal: wake one waiter, if there is one.
Signal ==
  IF waiters = {}
    THEN UNCHANGED <<waiters, woken>>
    ELSE \E w \in waiters : /\ waiters' = waiters \ {w}
                            /\ woken' = woken \cup {w}

(***************************************************************************)
(* AcquireSemaphore, lines 236-248: the first test of the loop.            *)
(***************************************************************************)
Acquire(t) ==
  /\ t \in Running
  /\ IF count = 0
       THEN Wait(t, "acquire") /\ UNCHANGED <<count, woken>>
       ELSE count' = count - 1 /\ UNCHANGED <<waiters, woken, op, expired>>

\* TryAcquireSemaphore, lines 250-264: returns false when the count is 0.
TryAcquire(t) ==
  /\ t \in Running
  /\ count > 0
  /\ count' = count - 1
  /\ UNCHANGED <<waiters, woken, op, expired>>

(***************************************************************************)
(* TimedAcquireSemaphore, lines 266-285: the first test of the loop.  With *)
(* the count at 0, TimedOut() is true when the timeout has already         *)
(* elapsed (a timeout of 0 among others): it returns false.                *)
(***************************************************************************)
TimedAcquire(t) ==
  /\ t \in Running
  /\ \/ /\ count > 0
        /\ count' = count - 1
        /\ UNCHANGED <<waiters, woken, op, expired>>
     \/ /\ count = 0
        /\ UNCHANGED vars
     \/ /\ count = 0
        /\ Wait(t, "timed")
        /\ UNCHANGED <<count, woken>>

\* The TimedWait of line 279 returns by its timeout.
WaitTimeout(t) ==
  /\ t \in waiters
  /\ op[t] = "timed"
  /\ waiters' = waiters \ {t}
  /\ woken' = woken \cup {t}
  /\ expired' = expired \cup {t}
  /\ UNCHANGED <<count, op>>

(***************************************************************************)
(* A woken thread back in cs_sema re-tests `count == 0': it takes a unit,  *)
(* or (TimedAcquire) returns false once TimedOut(), or waits again.        *)
(* TimedOut() is true after the wait's own timeout, and may have become    *)
(* true since.                                                             *)
(***************************************************************************)
\* Mutant: `if' for `while': the woken thread takes a unit without
\* re-testing the count.
RelockNoRecheck(t) ==
  /\ t \in woken
  /\ woken' = woken \ {t}
  /\ count' = count - 1
  /\ UNCHANGED <<waiters, op, expired>>

\* Mutant: TimedOut() tested before the count, so a woken TimedAcquire
\* gives up even when a unit is there for it.
RelockTimeoutFirst(t) ==
  /\ t \in woken
  /\ woken' = woken \ {t}
  /\ \/ /\ op[t] = "timed"
        /\ UNCHANGED <<count, waiters, op, expired>>
     \/ /\ count > 0
        /\ op[t] = "acquire"
        /\ count' = count - 1
        /\ UNCHANGED <<waiters, op, expired>>
     \/ /\ count = 0
        /\ op[t] = "acquire"
        /\ Wait(t, op[t])
        /\ UNCHANGED count

Relock(t) ==
  /\ t \in woken
  /\ woken' = woken \ {t}
  /\ \/ /\ count > 0
        /\ count' = count - 1
        /\ UNCHANGED <<waiters, op, expired>>
     \/ /\ count = 0
        /\ op[t] = "timed"
        /\ UNCHANGED <<count, waiters, op, expired>>
     \/ /\ count = 0
        /\ t \notin expired
        /\ Wait(t, op[t])
        /\ UNCHANGED count

\* ReleaseSemaphore(sema), lines 287-300; the assert of line 293 is a
\* precondition callers keep.  The releasing thread never blocks here; it
\* may be one of Threads or any other thread of the program.
\* Mutant: the Signal of line 297 left out.
ReleaseOneNoSignal ==
  /\ count + 1 <= MaxCount
  /\ count' = count + 1
  /\ UNCHANGED <<waiters, woken, op, expired>>

ReleaseOne ==
  /\ count + 1 <= MaxCount
  /\ count' = count + 1
  /\ Signal
  /\ UNCHANGED <<op, expired>>

\* ReleaseSemaphore(sema, count), lines 302-315: one Signal whatever count.
ReleaseMany(n) ==
  /\ count + n <= MaxCount
  /\ count' = count + n
  /\ Signal
  /\ UNCHANGED <<op, expired>>

Next ==
  \/ \E t \in Threads :
       \/ Acquire(t)
       \/ TryAcquire(t)
       \/ TimedAcquire(t)
       \/ WaitTimeout(t)
       \/ Relock(t)
  \/ ReleaseOne
  \/ \E n \in ReleaseAmounts : ReleaseMany(n)

(***************************************************************************)
(* Fairness: a woken thread is runnable and gets cs_sema (every critical   *)
(* section is short and ends), and time passes, so a TimedWait's timeout   *)
(* fires.  Nobody is obliged to call the semaphore.                        *)
(***************************************************************************)
Fairness ==
  \A t \in Threads : WF_vars(Relock(t)) /\ WF_vars(WaitTimeout(t))

Spec == Init /\ [][Next]_vars /\ Fairness

-----------------------------------------------------------------------------
TypeOK ==
  /\ count \in 0 .. MaxCount
  /\ waiters \subseteq Threads
  /\ woken \subseteq Threads
  /\ waiters \cap woken = {}
  /\ op \in [Threads -> {"acquire", "timed"}]
  /\ expired \subseteq Threads

(***************************************************************************)
(* No unit is stranded: while a thread waits on cv_not_zero, every unit of *)
(* the count has a woken thread on its way to take it (Release must wake   *)
(* as many waiters as it adds units, and a woken thread that gives up must *)
(* leave no unit behind).                                                  *)
(***************************************************************************)
NoStrandedCount == waiters = {} \/ count <= Cardinality(woken)

(***************************************************************************)
(* A thread blocked in Acquire or TimedAcquire while the count is positive *)
(* is eventually woken, or the count drops back to 0.                      *)
(***************************************************************************)
StrandedWaiterResolved ==
  \A t \in Threads :
    (t \in waiters /\ count > 0) ~> (t \notin waiters \/ count = 0)
=============================================================================
