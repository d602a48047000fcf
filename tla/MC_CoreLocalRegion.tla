------------------------- MODULE MC_CoreLocalRegion -------------------------
(* A 128-unit virtual space (W = 7), pages of 2 units, two cores: the      *)
(* core-local region is 6 units, 10 with its guard pages, and must sit in  *)
(* one 32-unit window wholly inside an unused block.  Kernel [0,8), None   *)
(* [8,20) (no window fits), Dram [20,28), None [28,80) (the window         *)
(* [32,64) fits, [64,96) runs past the block), Dram [80,96), None [96,128) *)
(* (the top window, where AlignUp wraps to 0).                             *)
EXTENDS CoreLocalRegion

MCTypeBits == {"Kernel", "Dram", "CoreLocal"}

MCInitBlocks ==
  { [addr |-> 0,  size |-> 8,  pair |-> 127, attr |-> 0, type |-> {"Kernel"}],
    [addr |-> 8,  size |-> 12, pair |-> 127, attr |-> 0, type |-> {}],
    [addr |-> 20, size |-> 8,  pair |-> 127, attr |-> 0, type |-> {"Dram"}],
    [addr |-> 28, size |-> 52, pair |-> 127, attr |-> 0, type |-> {}],
    [addr |-> 80, size |-> 16, pair |-> 127, attr |-> 0, type |-> {"Dram"}],
    [addr |-> 96, size |-> 32, pair |-> 127, attr |-> 0, type |-> {}] }
=============================================================================
