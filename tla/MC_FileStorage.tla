---------------------------- MODULE MC_FileStorage ----------------------------
(* Two threads over one FileHandleStorage whose file is 1 or 2 bytes long. *)
EXTENDS FileStorage

\* Accesses: empty, inside a file of 2 but not of 1, and past the end of 2.
MCAccesses ==
  { [offset |-> 0, size |-> 0], [offset |-> 1, size |-> 1],
    [offset |-> 0, size |-> 2], [offset |-> 1, size |-> 2] }
=============================================================================
