----------------------------- MODULE AddressMap -----------------------------
(***************************************************************************)
(* What a KMemoryBlockTree promises its callers, with the blocks           *)
(* forgotten: every address of the W-bit space has a type, an attribute   *)
(* word and a pair address.  An Insert either reports failure and changes  *)
(* nothing, or reclassifies a non-empty range whose every address carried  *)
(* the expected old attribute and a type the new one derives from; the    *)
(* pair address of every address is kept.                                  *)
(***************************************************************************)
EXTENDS Naturals

CONSTANTS
  W,         \* width in bits of an address
  TypeBits,  \* the bits a region type is made of
  Attrs,     \* the attribute words
  InitMem    \* the classification before the first Insert

Space == 2 ^ W
Addr  == 0 .. (Space - 1)
Cell  == [type : SUBSET TypeBits, attr : Attrs, pair : Addr]

VARIABLES
  mem,  \* mem[a]: the type, attribute and pair of address a
  ret   \* what the last Insert returned

vars == <<mem, ret>>

Init ==
  /\ mem = InitMem
  /\ ret = TRUE

Range(address, size) == {a \in Addr : address <= a /\ a < address + size}

\* A successful Insert: the compare-and-swap on the attribute and the
\* derivation test hold at every address of the range.
Reclassify(address, size, type_id, new_attr, old_attr) ==
  /\ \A a \in Range(address, size) :
        mem[a].attr = old_attr /\ mem[a].type \subseteq type_id
  /\ mem' = [a \in Addr |->
               IF a \in Range(address, size)
                 THEN [type |-> type_id, attr |-> new_attr, pair |-> mem[a].pair]
                 ELSE mem[a]]
  /\ ret' = TRUE

\* A failed Insert: nothing changes.
Refuse ==
  /\ ret' = FALSE
  /\ UNCHANGED mem

\* The type, new and old attribute of a Reclassify are those the first
\* address of its range has after and before it.
Next ==
  \/ Refuse
  \/ \E address \in Addr : \E size \in 1 .. (Space - address) :
       Reclassify(address, size, mem'[address].type, mem'[address].attr,
                  mem[address].attr)

Spec == Init /\ [][Next]_vars
=============================================================================
