------------------------ MODULE CoreLocalRegionProofs ------------------------
(***************************************************************************)
(* Proof that the region SetupCoreLocalRegionMemoryBlocks hands to Insert  *)
(* is where the search meant it to be (RegionPlaced), for every width,     *)
(* page size, core count, window alignment and initial tiling in which the *)
(* window alignment divides the address space and the guarded region is   *)
(* smaller than it.  The argument is arithmetic on the wrapped checks of   *)
(* GetRandomAlignedRegion and GetCoreLocalRegionVirtualAddress: the first  *)
(* loop's test candidate < candidate + size rules out a wrapped candidate, *)
(* so every later wrapped test reads as the unwrapped one.                 *)
(***************************************************************************)
EXTENDS CoreLocalRegion, Integers, TLAPS

Space == Tree!Space
GuardedSize == CoreLocalRegionSizeWithGuards

\* The constants of the real kernel: the 1 GB window divides the 2^64 address
\* space and the guarded region is a handful of pages.
WindowsFit ==
  /\ Space % BoundsAlign = 0
  /\ GuardedSize < Space

\* The blocks are those of the initial tiling until the region is inserted.
TreeUntouched == pc # "done" => blocks = InitBlocks

\* A candidate that passed GetRandomAlignedRegion's loop: page aligned and
\* not wrapping past the top of the space.
CandidateTaken ==
  pc \in {"bounds", "insert"} =>
    /\ IsAligned(cand, CoreLocalRegionAlign)
    /\ cand < Wrap(cand + GuardedSize)

\* A candidate that also passed GetCoreLocalRegionVirtualAddress's checks,
\* and the start of the region past its lower guard page.
BoundsTaken ==
  pc = "insert" =>
    /\ BoundsOk(cand)
    /\ region = Wrap(cand + PageSize)

\* The builder's own variables keep their types (the tree's are the
\* business of MemoryBlockTreeProofs).
BuilderTypeOK ==
  /\ pc \in {"extents", "draw", "bounds", "insert", "done", "abort"}
  /\ cand \in Addr
  /\ region \in Addr

CLInv ==
  /\ BuilderTypeOK
  /\ TreeUntouched
  /\ CandidateTaken
  /\ BoundsTaken

-----------------------------------------------------------------------------
(***************************************************************************)
(* Remainders by a positive divisor: the facts about % the alignment       *)
(* helpers rest on.                                                        *)
(***************************************************************************)
LEMMA ModRange ==
  ASSUME NEW x \in Int, NEW a \in Nat \ {0}
  PROVE  /\ x % a \in 0 .. (a - 1)
         /\ x \in Nat => x % a <= x
BY SMTT(20)

\* AlignDown returns a multiple of the alignment at most a below x.
LEMMA AlignDownBounds ==
  ASSUME NEW x \in Int, NEW a \in Nat \ {0}
  PROVE  /\ AlignDown(x, a) \in Int
         /\ AlignDown(x, a) <= x
         /\ x < AlignDown(x, a) + a
         /\ AlignDown(x, a) % a = 0
<1>1. (x - (x % a)) % a = 0
  BY SMTT(30)
<1>. QED
  BY <1>1, ModRange DEF AlignDown

\* Within one aligned window the remainder is the offset from its start.
LEMMA ModOffset ==
  ASSUME NEW x \in Int, NEW a \in Nat \ {0}, NEW y \in Int,
         y % a = 0, y <= x, x < y + a
  PROVE  x % a = x - y
BY SMTT(30)

\* Two distinct multiples of a are at least a apart.
LEMMA AlignedGap ==
  ASSUME NEW q \in Int, NEW m \in Int, NEW a \in Nat \ {0},
         q % a = 0, m % a = 0, q < m
  PROVE  q + a <= m
<1>1. SUFFICES ASSUME m < q + a PROVE FALSE
  OBVIOUS
<1>2. q <= m /\ m < q + a
  BY <1>1
<1>3. m % a = m - q
  BY <1>2, ModOffset, Zenon
<1>. QED
  BY <1>1, <1>3

\* Wrap on the two intervals the checks reach.
LEMMA WrapRange ==
  ASSUME NEW x \in Int
  PROVE  /\ x \in 0 .. (Space - 1) => Wrap(x) = x
         /\ x \in Space .. (2 * Space - 1) => Wrap(x) = x - Space
         /\ x \in (-Space) .. (-1) => Wrap(x) = x + Space
         /\ Wrap(x) \in Addr
<1>1. Space \in Nat \ {0} /\ Space % Space = 0
  BY TreeAssumption DEF Space
<1>2. x \in 0 .. (Space - 1) => x % Space = x
  BY <1>1, ModOffset
<1>3. ASSUME x \in Space .. (2 * Space - 1) PROVE x % Space = x - Space
  <2>1. Space \in Int /\ Space <= x /\ x < Space + Space
    BY <1>1, <1>3
  <2>. QED
    BY <1>1, <2>1, ModOffset, Zenon
<1>4. x % Space \in 0 .. (Space - 1)
  BY <1>1, ModRange
<1>5. ASSUME x \in (-Space) .. (-1) PROVE x % Space = x + Space
  <2>1. (-Space) % Space = 0
    BY <1>1, SMTT(30)
  <2>2. -Space \in Int /\ -Space <= x /\ x < -Space + Space
    BY <1>1, <1>5
  <2>3. x % Space = x - (-Space)
    BY <1>1, <2>1, <2>2, ModOffset, Zenon
  <2>. QED
    BY <1>1, <2>3
<1>. QED
  BY <1>2, <1>3, <1>4, <1>5 DEF Wrap, Tree!Wrap, Addr, Tree!Addr, Space

-----------------------------------------------------------------------------
(***************************************************************************)
(* CLInv is inductive.                                                     *)
(***************************************************************************)
LEMMA ParamTypes ==
  /\ PageSize \in Nat \ {0}
  /\ BoundsAlign \in Nat \ {0}
  /\ GuardedSize \in Nat
  /\ GuardedSize >= 2 * PageSize
  /\ Space \in Nat \ {0}
<1>1. PageSize * (1 + NumCores) \in Nat
  BY CoreLocalAssumption
<1>. QED
  BY <1>1, CoreLocalAssumption, TreeAssumption
  DEF GuardedSize, CoreLocalRegionSizeWithGuards, CoreLocalRegionSize, Space

LEMMA CLInit == Init => CLInv
<1>1. 0 \in Addr
  BY ParamTypes DEF Addr, Tree!Addr, Space
<1>. QED
  BY <1>1 DEF Init, Tree!Init, CLInv, BuilderTypeOK, TreeUntouched,
              CandidateTaken, BoundsTaken

LEMMA CLStep ==
  ASSUME CLInv, [Next]_vars
  PROVE  CLInv'
<1>. USE DEF CLInv
<1>1. CASE Extents(CoreLocalRegionAlign, NoneType)
  BY <1>1 DEF Extents, BuilderTypeOK, TreeUntouched, CandidateTaken, BoundsTaken
<1>2. ASSUME NEW r \in Addr,
             Draw(r, GuardedSize, CoreLocalRegionAlign, NoneType)
      PROVE  CLInv'
  <2>. DEFINE c == AlignDown(r, PageSize)
  <2>1. r \in Nat /\ r <= Space - 1
    BY DEF Addr, Tree!Addr, Space
  <2>2. c \in Addr /\ IsAligned(c, CoreLocalRegionAlign)
    <3>0. r \in Int /\ r \in Nat /\ PageSize \in Nat \ {0}
      BY <2>1, ParamTypes
    <3>1. c \in Int /\ c <= r /\ c % PageSize = 0
      BY <3>0, AlignDownBounds, Zenon
    <3>2. r % PageSize <= r
      BY <3>0, ModRange, Zenon
    <3>3. c >= 0
      BY <3>0, <3>2 DEF AlignDown
    <3>4. c <= Space - 1
      BY <2>1, <3>1, ParamTypes
    <3>. QED
      BY <3>1, <3>3, <3>4 DEF Addr, Tree!Addr, Space, IsAligned, CoreLocalRegionAlign
  <2>3. cand' = c /\ pc' \in {"bounds", "draw"}
        /\ (pc' = "bounds" => CandidateOk(c, GuardedSize, NoneType))
        /\ pc = "draw" /\ UNCHANGED <<blocks, region>>
    BY <1>2 DEF Draw, CoreLocalRegionAlign
  <2>4. pc' = "bounds" => c < Wrap(c + GuardedSize)
    BY <2>3 DEF CandidateOk
  <2>. QED
    BY <2>2, <2>3, <2>4 DEF BuilderTypeOK, TreeUntouched, CandidateTaken, BoundsTaken
<1>3. CASE CheckBounds
  <2>1. pc = "bounds" /\ UNCHANGED <<blocks, cand>>
    BY <1>3 DEF CheckBounds
  <2>2. CASE BoundsOk(cand)
    <3>1. pc' = "insert" /\ region' = Wrap(cand + PageSize)
      BY <1>3, <2>2 DEF CheckBounds
    <3>2. cand + PageSize \in Int
      BY ParamTypes DEF BuilderTypeOK, Addr, Tree!Addr
    <3>3. region' \in Addr
      BY <3>1, <3>2, WrapRange
    <3>. QED
      BY <2>1, <2>2, <3>1, <3>3
      DEF BuilderTypeOK, TreeUntouched, CandidateTaken, BoundsTaken,
          BoundsOk, ContainingBlock
  <2>3. CASE ~BoundsOk(cand)
    <3>1. pc' = "extents" /\ region' = region
      BY <1>3, <2>3 DEF CheckBounds
    <3>. QED
      BY <2>1, <3>1 DEF BuilderTypeOK, TreeUntouched, CandidateTaken, BoundsTaken
  <2>. QED
    BY <2>2, <2>3
<1>4. CASE InsertCoreLocal
  BY <1>4 DEF InsertCoreLocal, BuilderTypeOK, TreeUntouched, CandidateTaken, BoundsTaken
<1>5. CASE Finished \/ UNCHANGED vars
  <2>1. UNCHANGED vars
    BY <1>5 DEF Finished
  <2>. QED
    BY <2>1 DEF vars, BuilderTypeOK, TreeUntouched, CandidateTaken, BoundsTaken,
                BoundsOk, ContainingBlock
<1>. QED
  BY <1>1, <1>2, <1>3, <1>4, <1>5 DEF Next, GuardedSize

-----------------------------------------------------------------------------
(***************************************************************************)
(* From CLInv to RegionPlaced: the arithmetic of the wrapped checks.       *)
(***************************************************************************)
LEMMA PlacedFromInv ==
  ASSUME WindowsFit, CLInv
  PROVE  RegionPlaced
<1>. DEFINE c   == cand
            G   == GuardedSize
            BA  == BoundsAlign
            cl  == Wrap(Wrap(c + G) - 1)
            b   == ContainingBlock(c)
            win == AlignDown(c, BA)
            u   == AlignDown(cl + BA - 1, BA)
<1>1. SUFFICES ASSUME pc = "insert"
               PROVE  /\ IsAligned(region - PageSize, CoreLocalRegionAlign)
                      /\ \E bb \in blocks :
                           /\ bb.type = NoneType
                           /\ bb.addr <= AlignDown(region - PageSize, BA)
                           /\ region - PageSize + G - 1
                                < AlignDown(region - PageSize, BA) + BA
                           /\ AlignDown(region - PageSize, BA) + BA
                                <= bb.addr + bb.size
  BY DEF RegionPlaced, GuardedSize
<1>2. /\ c \in Addr /\ IsAligned(c, CoreLocalRegionAlign)
      /\ c < Wrap(c + G) /\ BoundsOk(c)
      /\ region = Wrap(c + PageSize) /\ blocks = InitBlocks
  BY <1>1 DEF CLInv, BuilderTypeOK, TreeUntouched, CandidateTaken, BoundsTaken
<1>3. /\ c \in Nat /\ c <= Space - 1
      /\ Space \in Nat \ {0} /\ G \in Nat /\ G >= 2 * PageSize /\ G < Space
      /\ PageSize \in Nat \ {0} /\ BA \in Nat \ {0} /\ Space % BA = 0
  BY <1>2, ParamTypes DEF Addr, Tree!Addr, Space, WindowsFit
<1>. USE <1>3
\* The first loop's check leaves no room for a wrapped candidate.
<1>4. c + G <= Space - 1
  <2>1. SUFFICES ASSUME c + G >= Space PROVE FALSE
    BY <1>3
  <2>2. c + G \in Int /\ c + G \in Space .. (2 * Space - 1)
    BY <1>3, <2>1
  <2>3. Wrap(c + G) = c + G - Space
    <3>1. \A x \in Int : x \in Space .. (2 * Space - 1) => Wrap(x) = x - Space
      BY WrapRange
    <3>. QED
      BY <2>2, <3>1
  <2>. QED
    BY <1>2, <1>3, <2>3
<1>5. cl = c + G - 1
  <2>1. c + G \in Int /\ c + G \in 0 .. (Space - 1)
    BY <1>3, <1>4
  <2>2. Wrap(c + G) = c + G
    BY <2>1, WrapRange, Zenon
  <2>3. c + G - 1 \in Int /\ c + G - 1 \in 0 .. (Space - 1)
    BY <1>3, <1>4
  <2>4. Wrap(c + G - 1) = c + G - 1
    BY <2>3, WrapRange, Zenon
  <2>. QED
    BY <2>2, <2>4
<1>6. region - PageSize = c
  <2>1. c + PageSize \in Int /\ c + PageSize \in 0 .. (Space - 1)
    BY <1>3, <1>4
  <2>2. Wrap(c + PageSize) = c + PageSize
    BY <2>1, WrapRange, Zenon
  <2>. QED
    BY <1>2, <1>3, <2>2
<1>7. /\ b \in blocks /\ b \in Tree!Block /\ Tree!Contains(b, c)
      /\ b.size > 0 /\ b.addr + b.size <= Space
  <2>1. \E bb \in InitBlocks : Tree!Contains(bb, c)
    BY <1>2, TreeAssumption DEF Tree!Tiles, Addr
  <2>2. b \in InitBlocks /\ Tree!Contains(b, c)
    BY <1>2, <2>1 DEF ContainingBlock
  <2>. QED
    BY <1>2, <2>2, TreeAssumption DEF Tree!Tiles, Space
<1>8. Tree!LastAddress(b) = b.addr + b.size - 1
  <2>1. b.addr \in Nat /\ b.size \in Nat
    BY <1>7 DEF Tree!Block, Tree!Addr
  <2>2. b.addr + b.size - 1 \in Int /\ b.addr + b.size - 1 \in 0 .. (Space - 1)
    BY <1>3, <1>7, <2>1
  <2>3. Wrap(b.addr + b.size - 1) = b.addr + b.size - 1
    BY <2>2, WrapRange, Zenon
  <2>. QED
    BY <2>3 DEF Tree!LastAddress, Wrap
<1>9. /\ b.type = NoneType
      /\ win = AlignDown(cl, BA)
      /\ ~(b.addr > win)
      /\ ~(Wrap(AlignUp(cl, BA) - 1) > Tree!LastAddress(b))
  BY <1>2 DEF BoundsOk, GuardedSize
<1>10. /\ win \in Int /\ win <= c /\ c < win + BA /\ win % BA = 0
       /\ cl < win + BA
  <2>1. c \in Int /\ cl \in Int
    BY <1>3, <1>5
  <2>2. win \in Int /\ win <= c /\ c < win + BA /\ win % BA = 0
    BY <1>3, <2>1, AlignDownBounds, Zenon
  <2>3. cl < AlignDown(cl, BA) + BA
    BY <1>3, <2>1, AlignDownBounds, Zenon
  <2>. QED
    BY <1>9, <2>2, <2>3
\* The end of the window is the first aligned address above cl.
<1>11. /\ win + BA <= u /\ u <= Space
       /\ AlignUp(cl, BA) = Wrap(u) /\ u \in Int
  <2>1. cl + BA - 1 \in Int
    BY <1>3, <1>5
  <2>2. u \in Int /\ u <= cl + BA - 1 /\ cl + BA - 1 < u + BA /\ u % BA = 0
    BY <1>3, <2>1, AlignDownBounds, Zenon
  <2>3. win < u
    BY <1>3, <1>5, <1>10, <2>2
  <2>4. win + BA <= u
    BY <1>3, <1>10, <2>2, <2>3, AlignedGap, Zenon
  <2>5. u <= Space
    <3>1. SUFFICES ASSUME Space < u PROVE FALSE
      BY <1>3, <2>2
    <3>2. Space \in Int
      BY <1>3
    <3>3. Space + BA <= u
      BY <1>3, <2>2, <3>1, <3>2, AlignedGap, Zenon
    <3>. QED
      BY <1>3, <1>4, <1>5, <2>2, <3>3
  <2>. QED
    BY <2>2, <2>4, <2>5 DEF AlignUp
<1>12. win + BA <= b.addr + b.size
  <2>1. b.addr \in Nat /\ b.size \in Nat
    BY <1>7 DEF Tree!Block, Tree!Addr
  <2>2. CASE u < Space
    <3>1. u \in 0 .. (Space - 1) /\ u - 1 \in 0 .. (Space - 1)
      BY <1>3, <1>10, <1>11, <2>2
    <3>2. Wrap(Wrap(u) - 1) = u - 1
      BY <1>11, <3>1, WrapRange
    <3>3. Wrap(AlignUp(cl, BA) - 1) = u - 1
      BY <1>11, <3>2
    <3>4. u - 1 <= b.addr + b.size - 1
      BY <1>8, <1>9, <1>11, <2>1, <3>3
    <3>. QED
      BY <1>10, <1>11, <2>1, <3>4
  <2>3. CASE u = Space
    <3>1. Wrap(Space) = 0
      BY <1>3, WrapRange
    <3>2. Wrap(0 - 1) = Space - 1
      BY <1>3, WrapRange
    <3>3. Wrap(AlignUp(cl, BA) - 1) = Space - 1
      BY <1>11, <2>3, <3>1, <3>2
    <3>4. Space - 1 <= b.addr + b.size - 1
      BY <1>3, <1>8, <1>9, <2>1, <3>3
    <3>. QED
      BY <1>3, <1>10, <1>11, <2>1, <2>3, <3>4
  <2>. QED
    BY <1>11, <2>2, <2>3
<1>13. IsAligned(region - PageSize, CoreLocalRegionAlign)
  BY <1>2, <1>6
<1>14. AlignDown(region - PageSize, BA) = win /\ region - PageSize + G - 1 = cl
  BY <1>5, <1>6
<1>15. b.addr \in Nat /\ b.addr <= win
  BY <1>7, <1>9, <1>10 DEF Tree!Block, Tree!Addr
<1>. QED
  BY <1>7, <1>9, <1>10, <1>12, <1>13, <1>14, <1>15

(***************************************************************************)
(* RegionPlaced for every width, page size, core count, window alignment   *)
(* and initial tiling in which the window alignment divides the address    *)
(* space and the guarded region is smaller than it: the region that        *)
(* SetupCoreLocalRegionMemoryBlocks passes to Insert is page aligned and,  *)
(* with its guard pages, lies in one BoundsAlign window that is itself     *)
(* wholly inside one unused block.                                         *)
(***************************************************************************)
THEOREM RegionPlacedInvariant ==
  ASSUME WindowsFit
  PROVE  Spec => []RegionPlaced
<1>1. Spec => []CLInv
  BY CLInit, CLStep, PTL DEF Spec
<1>. QED
  BY <1>1, PlacedFromInv, PTL
-----------------------------------------------------------------------------
(***************************************************************************)
(* The Insert of line 193.  In the kernel the unused (None) space of the   *)
(* virtual tree is what remains of the initial block, made with the        *)
(* default attribute 0, and line 193 passes the default old_attr 0.        *)
(***************************************************************************)
UnusedAttrZero == \A b \in InitBlocks : b.type = NoneType => b.attr = 0

\* An initial block is a non-empty interval that does not wrap, and
\* Contains is membership in it.
LEMMA InitSpan ==
  ASSUME NEW x \in InitBlocks
  PROVE  /\ x \in Tree!Block
         /\ x.addr \in Nat /\ x.size \in Nat /\ x.size > 0
         /\ x.addr + x.size <= Space
         /\ Tree!LastAddress(x) = x.addr + x.size - 1
         /\ \A a \in Int : Tree!Contains(x, a) <=> (x.addr <= a /\ a < x.addr + x.size)
<1>1. x \in Tree!Block /\ x.size > 0 /\ x.addr + x.size <= Space
  BY TreeAssumption DEF Tree!Tiles, Space
<1>2. x.addr \in Nat /\ x.size \in Nat /\ Space \in Nat \ {0}
  BY <1>1, ParamTypes DEF Tree!Block, Tree!Addr
<1>3. x.addr + x.size - 1 \in Int /\ x.addr + x.size - 1 \in 0 .. (Space - 1)
  BY <1>1, <1>2
<1>4. Wrap(x.addr + x.size - 1) = x.addr + x.size - 1
  BY <1>3, WrapRange, Zenon
<1>5. Tree!LastAddress(x) = x.addr + x.size - 1
  BY <1>4 DEF Tree!LastAddress, Wrap
<1>. QED
  BY <1>1, <1>2, <1>5 DEF Tree!Contains

\* Two initial blocks that share an address are the same block.
LEMMA InitDisjoint ==
  ASSUME NEW x \in InitBlocks, NEW y \in InitBlocks, NEW a \in Int,
         x.addr <= a, a < x.addr + x.size, y.addr <= a, a < y.addr + y.size
  PROVE  x = y
<1>1. x # y => x.addr + x.size <= y.addr \/ y.addr + y.size <= x.addr
  BY TreeAssumption DEF Tree!Tiles
<1>2. x.addr \in Nat /\ x.size \in Nat /\ y.addr \in Nat /\ y.size \in Nat
  BY InitSpan
<1>. QED
  BY <1>1, <1>2

\* Where the search put the region: inside one unused initial block,
\* together with both guard pages.
LEMMA Site ==
  ASSUME WindowsFit, CLInv, pc = "insert"
  PROVE  /\ region - PageSize \in Nat
         /\ blocks = InitBlocks
         /\ \E b \in InitBlocks :
              /\ b.type = NoneType
              /\ b.addr <= region - PageSize
              /\ region - PageSize + GuardedSize <= b.addr + b.size
<1>. DEFINE s   == region - PageSize
            BA  == BoundsAlign
            win == AlignDown(s, BA)
<1>1. blocks = InitBlocks /\ region \in Addr
  BY DEF CLInv, TreeUntouched, BuilderTypeOK
<1>2. PICK b \in blocks :
        /\ b.type = NoneType
        /\ b.addr <= win
        /\ s + GuardedSize - 1 < win + BA
        /\ win + BA <= b.addr + b.size
  BY PlacedFromInv DEF RegionPlaced, GuardedSize
<1>3. /\ s \in Int /\ BA \in Nat \ {0} /\ GuardedSize \in Nat
      /\ b \in InitBlocks /\ b.addr \in Nat /\ b.size \in Nat
  BY <1>1, <1>2, ParamTypes, InitSpan DEF Addr, Tree!Addr
<1>4. win \in Int /\ win <= s
  BY <1>3, AlignDownBounds, Zenon
<1>. QED
  BY <1>1, <1>2, <1>3, <1>4
\* FindContainingBlock returns a None block when every block containing the
\* address is one.
LEMMA ChooseNone ==
  ASSUME NEW bs, NEW a,
         \E x \in bs : Tree!Contains(x, a),
         \A x \in bs : Tree!Contains(x, a) => x.type = NoneType
  PROVE  (CHOOSE x \in bs : Tree!Contains(x, a)).type = NoneType
BY Zenon

\* The Insert of line 193 succeeds, leaves a CoreLocal block at the region
\* and unused space on either side of it.
LEMMA InsertStep ==
  ASSUME WindowsFit, UnusedAttrZero, CLInv, InsertCoreLocal
  PROVE  CoreLocalInserted'
<1>. DEFINE P  == PageSize
            S  == CoreLocalRegionSize
            G  == GuardedSize
            r  == region
            s  == region - PageSize
<1>1. pc = "insert" /\ pc' = "done" /\ region' = region
      /\ Tree!Insert(r, S, CoreLocalType, 0, 0)
  BY DEF InsertCoreLocal
<1>2. /\ s \in Nat /\ blocks = InitBlocks
      /\ \E b \in InitBlocks : /\ b.type = NoneType /\ b.addr <= s
                              /\ s + G <= b.addr + b.size
  BY <1>1, Site
<1>3. PICK b \in InitBlocks : /\ b.type = NoneType /\ b.addr <= s
                             /\ s + G <= b.addr + b.size
  BY <1>2
<1>. DEFINE e == b.addr + b.size
<1>4. /\ P \in Nat \ {0} /\ S \in Nat /\ S >= P /\ G = S + 2 * P
      /\ Space \in Nat \ {0} /\ r = s + P /\ r \in Nat
      /\ b \in Tree!Block /\ b.addr \in Nat /\ b.size \in Nat /\ e <= Space
      /\ Tree!LastAddress(b) = e - 1 /\ b.attr = 0
  <2>1. S = P * (1 + NumCores) /\ NumCores \in Nat \ {0}
    BY CoreLocalAssumption DEF CoreLocalRegionSize
  <2>2. S \in Nat /\ S >= P
    BY <2>1, ParamTypes
  <2>3. region \in Int
    BY DEF CLInv, BuilderTypeOK, Addr, Tree!Addr
  <2>4. /\ b \in Tree!Block /\ b.addr \in Nat /\ b.size \in Nat
        /\ b.addr + b.size <= Space /\ Tree!LastAddress(b) = b.addr + b.size - 1
    BY <1>3, InitSpan
  <2>5. b.attr = 0
    BY <1>3 DEF UnusedAttrZero
  <2>. QED
    BY <1>2, <2>2, <2>3, <2>4, <2>5, ParamTypes
    DEF GuardedSize, CoreLocalRegionSizeWithGuards
<1>. USE <1>4
\* The wrapped quantities of Insert, each the unwrapped one.
<1>5. /\ Wrap(r + S - 1) = r + S - 1
      /\ Wrap(r + S) = r + S
      /\ Wrap(Wrap(r + S) - 1) = r + S - 1
      /\ Wrap(r - P) = s
      /\ Wrap(Tree!EndAddress(b) - Wrap(r + S)) = e - (r + S)
  <2>1. \A x \in Int : x \in 0 .. (Space - 1) => Wrap(x) = x
    BY WrapRange
  <2>2. Wrap(r + S - 1) = r + S - 1 /\ Wrap(r + S) = r + S /\ Wrap(r - P) = s
    BY <1>2, <1>3, <2>1
  <2>3. Wrap(Tree!EndAddress(b) - (r + S)) = e - (r + S)
    <3>1. CASE e < Space
      <4>1. Tree!EndAddress(b) = e
        BY <2>1, <3>1 DEF Tree!EndAddress, Wrap
      <4>. QED
        BY <1>3, <2>1, <3>1, <4>1
    <3>2. CASE e = Space
      <4>1. Tree!EndAddress(b) = 0
        BY <3>2, WrapRange DEF Tree!EndAddress, Wrap
      <4>2. \A x \in Int : x \in (-Space) .. (-1) => Wrap(x) = x + Space
        BY WrapRange
      <4>. QED
        BY <1>2, <1>3, <3>2, <4>1, <4>2
    <3>. QED
      BY <3>1, <3>2
  <2>. QED
    BY <2>2, <2>3
<1>6. PICK it \in blocks :
        /\ Tree!Contains(it, r)
        /\ IF Tree!InsertAllowed(it, r, S, CoreLocalType, 0)
             THEN Tree!InsertOk(it, r, S, CoreLocalType, 0)
             ELSE Tree!InsertFail
  BY <1>1 DEF Tree!Insert
<1>7. it = b
  <2>1. it \in InitBlocks /\ r \in Int
    BY <1>2
  <2>2. it.addr <= r /\ r < it.addr + it.size
    BY <1>6, <2>1, InitSpan
  <2>. QED
    BY <1>3, <2>1, <2>2, InitDisjoint
<1>8. Tree!InsertAllowed(b, r, S, CoreLocalType, 0)
  BY <1>3, <1>5 DEF Tree!InsertAllowed, Tree!CanDerive, NoneType, Wrap
<1>. DEFINE newb   == [addr |-> r, size |-> S,
                       pair |-> Tree!PairAt(b, r - b.addr),
                       attr |-> 0, type |-> CoreLocalType]
            before == [addr |-> b.addr, size |-> r - b.addr,
                       pair |-> b.pair, attr |-> b.attr, type |-> b.type]
            after  == [addr |-> r + S, size |-> e - (r + S),
                       pair |-> Tree!PairAt(b, Wrap(Wrap(r + S) - b.addr)),
                       attr |-> b.attr, type |-> b.type]
<1>9. Tree!SplitPieces(b, r, S, CoreLocalType, 0) = {newb, before, after}
  <2>1. b.addr # r /\ Tree!LastAddress(b) # Wrap(Wrap(r + S) - 1)
    BY <1>3, <1>5
  <2>. QED
    BY <1>5, <2>1 DEF Tree!SplitPieces, Wrap
<1>10. blocks' = (InitBlocks \ {b}) \cup {newb, before, after} /\ ret' = TRUE
  BY <1>2, <1>6, <1>7, <1>8, <1>9 DEF Tree!InsertOk
\* Where each piece ends.
<1>11. /\ Tree!LastAddress(before) = r - 1
       /\ Tree!LastAddress(newb) = r + S - 1
       /\ Tree!LastAddress(after) = e - 1
  <2>1. \A x \in Int : x \in 0 .. (Space - 1) => Tree!Wrap(x) = x
    BY WrapRange DEF Wrap
  <2>2. r + S - 1 \in 0 .. (Space - 1) /\ r - 1 \in 0 .. (Space - 1)
        /\ e - 1 \in 0 .. (Space - 1)
    BY <1>3
  <2>. QED
    BY <2>1, <2>2 DEF Tree!LastAddress
\* An address of the unused block outside the new one lies in no other
\* initial block.
<1>12. ASSUME NEW a \in Int, NEW x \in InitBlocks \ {b},
              b.addr <= a, a < e
       PROVE  ~Tree!Contains(x, a)
  BY <1>12, InitSpan, InitDisjoint
<1>13. (ContainingBlock(Wrap(r - P)).type = NoneType)'
  <2>1. \E x \in blocks' : Tree!Contains(x, s)
    <3>1. before \in blocks' /\ Tree!Contains(before, s)
      BY <1>3, <1>10, <1>11 DEF Tree!Contains
    <3>. QED
      BY <3>1
  <2>2. \A x \in blocks' : Tree!Contains(x, s) => x.type = NoneType
    BY <1>3, <1>10, <1>11, <1>12 DEF Tree!Contains
  <2>3. (CHOOSE x \in blocks' : Tree!Contains(x, s)).type = NoneType
    BY <2>1, <2>2, ChooseNone
  <2>. QED
    BY <1>1, <1>5, <2>3 DEF ContainingBlock
<1>14. (ContainingBlock(Wrap(r + S)).type = NoneType)'
  <2>1. \E x \in blocks' : Tree!Contains(x, r + S)
    <3>1. after \in blocks' /\ Tree!Contains(after, r + S)
      BY <1>3, <1>10, <1>11 DEF Tree!Contains
    <3>. QED
      BY <3>1
  <2>2. \A x \in blocks' : Tree!Contains(x, r + S) => x.type = NoneType
    BY <1>3, <1>10, <1>11, <1>12 DEF Tree!Contains
  <2>3. (CHOOSE x \in blocks' : Tree!Contains(x, r + S)).type = NoneType
    BY <2>1, <2>2, ChooseNone
  <2>. QED
    BY <1>1, <1>5, <2>3 DEF ContainingBlock
<1>15. \E x \in blocks' : x.addr = region' /\ x.size = S /\ x.type = CoreLocalType
  <2>1. newb \in blocks'
    BY <1>10
  <2>. QED
    BY <1>1, <2>1
<1>. QED
  BY <1>1, <1>10, <1>13, <1>14, <1>15 DEF CoreLocalInserted
\* No step but the Insert of line 193 reaches "done", and nothing changes
\* after it.
LEMMA InsertedStep ==
  ASSUME WindowsFit, UnusedAttrZero, CLInv, CoreLocalInserted, [Next]_vars
  PROVE  CoreLocalInserted'
<1>1. CASE Extents(CoreLocalRegionAlign, NoneType)
  BY <1>1 DEF Extents, CoreLocalInserted
<1>2. CASE \E r \in Addr : Draw(r, GuardedSize, CoreLocalRegionAlign, NoneType)
  BY <1>2 DEF Draw, CoreLocalInserted
<1>3. CASE CheckBounds
  BY <1>3 DEF CheckBounds, CoreLocalInserted
<1>4. CASE InsertCoreLocal
  BY <1>4, InsertStep
<1>5. CASE Finished \/ UNCHANGED vars
  <2>1. UNCHANGED vars
    BY <1>5 DEF Finished
  <2>. QED
    BY <2>1 DEF vars, CoreLocalInserted, ContainingBlock
<1>. QED
  BY <1>1, <1>2, <1>3, <1>4, <1>5 DEF Next, GuardedSize

(***************************************************************************)
(* CoreLocalInserted for every width, page size, core count, window        *)
(* alignment and initial tiling satisfying WindowsFit in which the unused  *)
(* blocks carry the default attribute 0: the MESOSPHERE_INIT_ABORT_UNLESS  *)
(* of line 193 never fires, the tree then holds the region as one CoreLocal *)
(* block, and the guard page on either side of it is still unused space.   *)
(***************************************************************************)
THEOREM CoreLocalInsertedInvariant ==
  ASSUME WindowsFit, UnusedAttrZero
  PROVE  Spec => []CoreLocalInserted
<1>1. Init => CLInv /\ CoreLocalInserted
  BY CLInit DEF Init, CoreLocalInserted
<1>2. CLInv /\ CoreLocalInserted /\ [Next]_vars => CLInv' /\ CoreLocalInserted'
  BY CLStep, InsertedStep
<1>. QED
  BY <1>1, <1>2, PTL DEF Spec
=============================================================================
