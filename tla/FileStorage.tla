----------------------------- MODULE FileStorage -----------------------------
(***************************************************************************)
(* FileHandleStorage of fs_file_storage.cpp: an IStorage over a file       *)
(* handle that caches the file's size in m_size (InvalidSize when          *)
(* unknown).  Read and Write hold m_mutex from start to end; GetSize and   *)
(* SetSize take no lock.  Threads call the four operations concurrently.   *)
(*                                                                         *)
(* Each access of m_size or of the file is one step: UpdateSize is a test  *)
(* of m_size, then GetFileSize (a query of the file, then the store into   *)
(* m_size); CheckAccessRange and `*out_size = m_size' read m_size again.   *)
(* The unlocked accesses race in the code (a data race): the model lets    *)
(* them interleave at every access, which covers every order a build can   *)
(* produce for a word-sized field.                                         *)
(*                                                                         *)
(* Flush and OperateRange use neither m_size nor the lock; buffers and     *)
(* data are abstracted away: an access is an (offset, size) pair.          *)
(***************************************************************************)
EXTENDS Integers

CONSTANTS
  Threads,          \* the threads sharing one storage
  Sizes,            \* the file sizes SetSize is called with
  InitSize,         \* the file's size when the storage is created
  Accesses,         \* the (offset, size) ranges Read and Write are called with
  SerializedResize, \* TRUE: callers never run SetSize alongside other calls
  NoThread          \* m_mutex is free

\* FileHandleStorage::InvalidSize.
InvalidSize == -1

ASSUME FileStorageAssumption ==
  /\ Sizes \subseteq Nat
  /\ InitSize \in Sizes
  /\ Accesses \subseteq [offset : Nat, size : Nat]
  /\ Accesses # {}
  /\ SerializedResize \in BOOLEAN
  /\ NoThread \notin Threads

VARIABLES
  fileSize,  \* the size of the file behind m_handle
  m_size,    \* the cached size
  lock,      \* the holder of m_mutex, or NoThread
  pc,        \* pc[t]: where thread t is
  arg,       \* arg[t]: the access of a Read/Write
  val        \* val[t]: the size GetFileSize read, or SetSize's argument

vars == <<fileSize, m_size, lock, pc, arg, val>>

Idle == {t \in Threads : pc[t] = "idle"}
InSetSize == {t \in Threads : pc[t] \in {"ss_file"}}

Init ==
  /\ fileSize = InitSize
  /\ m_size = InvalidSize
  /\ lock = NoThread
  /\ pc = [t \in Threads |-> "idle"]
  /\ arg = [t \in Threads |-> CHOOSE a \in Accesses : TRUE]
  /\ val = [t \in Threads |-> InitSize]

\* With SerializedResize, SetSize runs alone: it starts when every other
\* thread is idle, and nothing starts while it runs.
MayStart(t) ==
  /\ pc[t] = "idle"
  /\ SerializedResize => InSetSize = {}

\* IStorage::CheckAccessRange(offset, size, total_size).
CheckAccessRange(offset, size, total) ==
  offset >= 0 /\ size >= 0 /\ offset + size <= total

Goto(t, where) == pc' = [pc EXCEPT ![t] = where]

(***************************************************************************)
(* Read / Write (lines 110-146): take m_mutex; a size 0 access succeeds at *)
(* once.  Both have the same control; they differ in the call at the end.  *)
(***************************************************************************)
StartAccess(t, a, first) ==
  /\ MayStart(t)
  /\ lock = NoThread
  /\ lock' = t
  /\ arg' = [arg EXCEPT ![t] = a]
  /\ Goto(t, IF a.size = 0 THEN "rw_end" ELSE first)
  /\ UNCHANGED <<fileSize, m_size, val>>

Read(t, a)  == StartAccess(t, a, "rw_upd")
Write(t, a) == StartAccess(t, a, "rw_upd")

(***************************************************************************)
(* UpdateSize (lines 105-108), from `from': when m_size is valid go on to  *)
(* `next'; else GetFileSize queries the file (or fails, and the caller     *)
(* returns its error), and stores the result in a step of its own.         *)
(***************************************************************************)
\* Mutant: the R_TRY dropped, a failed GetFileSize is ignored.
UpdateSizeTestNoTry(t, from, store, next, fail) ==
  /\ pc[t] = from
  /\ \/ /\ m_size # InvalidSize
        /\ Goto(t, next)
        /\ UNCHANGED val
     \/ /\ m_size = InvalidSize
        /\ val' = [val EXCEPT ![t] = fileSize]
        /\ Goto(t, store)
     \/ /\ m_size = InvalidSize
        /\ Goto(t, next)
        /\ UNCHANGED val
  /\ UNCHANGED <<fileSize, m_size, lock, arg>>

UpdateSizeTest(t, from, store, next, fail) ==
  /\ pc[t] = from
  /\ \/ /\ m_size # InvalidSize
        /\ Goto(t, next)
        /\ UNCHANGED val
     \/ /\ m_size = InvalidSize
        /\ val' = [val EXCEPT ![t] = fileSize]
        /\ Goto(t, store)
     \/ /\ m_size = InvalidSize
        /\ Goto(t, fail)
        /\ UNCHANGED val
  /\ UNCHANGED <<fileSize, m_size, lock, arg>>

UpdateSizeStore(t, store, next) ==
  /\ pc[t] = store
  /\ m_size' = val[t]
  /\ Goto(t, next)
  /\ UNCHANGED <<fileSize, lock, arg, val>>

\* Lines 124 / 143: the range check against m_size, then
\* ReadFile / WriteFile, which happen in "rw_io".
\* Mutant: the offset left out of the range check.
AccessCheckNoOffset(t) ==
  /\ pc[t] = "rw_check"
  /\ Goto(t, IF CheckAccessRange(0, arg[t].size, m_size)
               THEN "rw_io" ELSE "rw_end")
  /\ UNCHANGED <<fileSize, m_size, lock, arg, val>>

AccessCheck(t) ==
  /\ pc[t] = "rw_check"
  /\ Goto(t, IF CheckAccessRange(arg[t].offset, arg[t].size, m_size)
               THEN "rw_io" ELSE "rw_end")
  /\ UNCHANGED <<fileSize, m_size, lock, arg, val>>

AccessIo(t) ==
  /\ pc[t] = "rw_io"
  /\ Goto(t, "rw_end")
  /\ UNCHANGED <<fileSize, m_size, lock, arg, val>>

\* The scoped_lock is released on every return path.
AccessEnd(t) ==
  /\ pc[t] = "rw_end"
  /\ lock' = NoThread
  /\ Goto(t, "idle")
  /\ UNCHANGED <<fileSize, m_size, arg, val>>

(***************************************************************************)
(* GetSize (lines 152-156): UpdateSize, then *out_size = m_size.           *)
(***************************************************************************)
GetSize(t) ==
  /\ MayStart(t)
  /\ Goto(t, "gs_upd")
  /\ UNCHANGED <<fileSize, m_size, lock, arg, val>>

\* *out_size = m_size: the caller's variable, not modelled, gets m_size.
GetSizeReturn(t) ==
  /\ pc[t] = "gs_ret"
  /\ Goto(t, "idle")
  /\ UNCHANGED <<fileSize, m_size, lock, arg, val>>

(***************************************************************************)
(* SetSize (lines 158-161): invalidate m_size, then SetFileSize, which may *)
(* fail and leave the file as it was.                                      *)
(***************************************************************************)
\* Mutant: m_size not invalidated.
SetSizeNoInvalidate(t, n) ==
  /\ MayStart(t)
  /\ SerializedResize => Idle = Threads
  /\ val' = [val EXCEPT ![t] = n]
  /\ Goto(t, "ss_file")
  /\ UNCHANGED <<fileSize, m_size, lock, arg>>

SetSize(t, n) ==
  /\ MayStart(t)
  /\ SerializedResize => Idle = Threads
  /\ m_size' = InvalidSize
  /\ val' = [val EXCEPT ![t] = n]
  /\ Goto(t, "ss_file")
  /\ UNCHANGED <<fileSize, lock, arg>>

SetFileSize(t) ==
  /\ pc[t] = "ss_file"
  /\ \/ fileSize' = val[t]
     \/ UNCHANGED fileSize
  /\ Goto(t, "idle")
  /\ UNCHANGED <<m_size, lock, arg, val>>

Next ==
  \E t \in Threads :
    \/ \E a \in Accesses : Read(t, a) \/ Write(t, a)
    \/ UpdateSizeTest(t, "rw_upd", "rw_store", "rw_check", "rw_end")
    \/ UpdateSizeStore(t, "rw_store", "rw_check")
    \/ AccessCheck(t)
    \/ AccessIo(t)
    \/ AccessEnd(t)
    \/ GetSize(t)
    \/ UpdateSizeTest(t, "gs_upd", "gs_store", "gs_ret", "idle")
    \/ UpdateSizeStore(t, "gs_store", "gs_ret")
    \/ GetSizeReturn(t)
    \/ \E n \in Sizes : SetSize(t, n)
    \/ SetFileSize(t)

Spec == Init /\ [][Next]_vars

-----------------------------------------------------------------------------
PC == {"idle", "rw_upd", "rw_store", "rw_check", "rw_io", "rw_end",
       "gs_upd", "gs_store", "gs_ret", "ss_file"}

TypeOK ==
  /\ fileSize \in Sizes
  /\ m_size \in Sizes \cup {InvalidSize}
  /\ lock \in Threads \cup {NoThread}
  /\ pc \in [Threads -> PC]
  /\ arg \in [Threads -> Accesses]
  /\ val \in [Threads -> Sizes]

(***************************************************************************)
(* The cached size is never stale: whenever no SetSize is between its      *)
(* invalidation and its SetFileSize, m_size is InvalidSize or the file's   *)
(* size.  A GetFileSize result stored after a resize breaks it.            *)
(***************************************************************************)
CacheCoherent == InSetSize = {} => m_size \in {InvalidSize, fileSize}

(***************************************************************************)
(* ReadFile and WriteFile are only called for a range inside the file:     *)
(* the check against the cached size stands for a check against the file. *)
(***************************************************************************)
AccessInRange ==
  \A t \in Threads :
    pc[t] = "rw_io" => arg[t].offset + arg[t].size <= fileSize

(***************************************************************************)
(* A GetSize that succeeds returns the file's size (never InvalidSize).    *)
(***************************************************************************)
GetSizeReturnsFileSize ==
  \A t \in Threads : pc[t] = "gs_ret" => m_size = fileSize
=============================================================================
