----------------------------- MODULE ArenaProofs -----------------------------
(***************************************************************************)
(* Proofs about Arena for every preallocated size, all sizes asked for and *)
(* every number of blocks.  A region lies below the part of its block that *)
(* is still free (InBounds), and the next one starts there: that is why    *)
(* regions in use are disjoint, whichever block is found first.            *)
(***************************************************************************)
EXTENDS Arena, TLAPS

Records == [allocated : Nat, used : Nat]

Blocks == {b \in Records : b.used <= b.allocated}

\* The bound on used, in the type of the elements.
LEMMA FilledInBounds ==
  ASSUME NEW s
  PROVE  s \in Seq(Blocks) <=>
           s \in Seq(Records) /\ \A i \in DOMAIN s : s[i].used <= s[i].allocated
<1>1. ASSUME s \in Seq(Blocks)
      PROVE  s \in Seq(Records) /\ \A i \in DOMAIN s : s[i].used <= s[i].allocated
  <2>1. \A i \in DOMAIN s : s[i] \in Blocks
    BY <1>1
  <2>2. \A i \in DOMAIN s : s[i] \in Records /\ s[i].used <= s[i].allocated
    BY <2>1 DEF Blocks
  <2> QED
    BY <1>1, <2>2
<1>2. ASSUME s \in Seq(Records), \A i \in DOMAIN s : s[i].used <= s[i].allocated
      PROVE  s \in Seq(Blocks)
  <2>1. \A i \in DOMAIN s : s[i] \in Records
    BY <1>2
  <2>2. \A i \in DOMAIN s : s[i] \in Blocks
    BY <1>2, <2>1 DEF Blocks
  <2> QED
    BY <1>2, <2>2
<1> QED
  BY <1>1, <1>2

\* Every block of the arena is filled within its size.
LEMMA BlocksAreFilledInBounds ==
  ASSUME TypeOK
  PROVE  blocks \in Seq(Blocks)
<1>1. blocks \in Seq(Records)
  BY DEF TypeOK, Records
<1> QED
  BY <1>1, FilledInBounds DEF TypeOK

\* A block made for a request has room for it, and as much again.
LEMMA NewBlockHasRoom ==
  ASSUME NEW size \in Sizes
  PROVE  /\ NewBlockSize(size) \in Nat /\ size \in Nat
         /\ Fits(Block(NewBlockSize(size)), size)
         /\ size <= NewBlockSize(size) - size
<1>1. Preallocate \in Nat /\ size \in Nat
  BY ArenaAssumption
<1>2. /\ NewBlockSize(size) \in Nat
      /\ size <= NewBlockSize(size) /\ size <= NewBlockSize(size) - size
  BY <1>1 DEF NewBlockSize
<1> QED
  BY <1>1, <1>2 DEF Fits, Block

\* What an allocation that succeeds does, wherever it finds its room: one block
\* grows at its end, and the region is what it grew by.
Grows(i, size) ==
  /\ \/ i \in DOMAIN blocks /\ DOMAIN blocks' = DOMAIN blocks
     \/ i = Len(blocks) + 1 /\ DOMAIN blocks' = 1 .. Len(blocks) + 1
  /\ blocks' \in Seq(Blocks)
  /\ \A j \in DOMAIN blocks \ {i} : blocks'[j] = blocks[j]
  /\ \E offset \in Nat :
       /\ i \in DOMAIN blocks => offset = blocks[i].used
       /\ live' = live \cup {[block |-> i, offset |-> offset, size |-> size]}
       /\ blocks'[i].used = offset + size

\* sl_arena_allocate hands out the next octets of one block, be it an old one or
\* one made for the request.
LEMMA AllocationGrows ==
  ASSUME TypeOK, NEW size \in Sizes,
         AllocateFromBlock(size) \/ AllocateFromNewBlock(size)
  PROVE  \E i \in Nat \ {0} : Grows(i, size)
<1> USE BlocksAreFilledInBounds
<1>1. size \in Nat
  BY ArenaAssumption
<1>2. CASE AllocateFromBlock(size)
  <2>1. PICK i \in DOMAIN blocks :
          /\ FirstFit(i, size)
          /\ live' = live \cup {Region(i, blocks[i], size)}
          /\ blocks' = [blocks EXCEPT ![i] = Advanced(@, size)]
    BY <1>2 DEF AllocateFromBlock
  <2>2. /\ i \in Nat \ {0} /\ blocks[i] \in Blocks
        /\ size <= blocks[i].allocated - blocks[i].used
    BY <2>1 DEF FirstFit, Fits
  <2>3. Advanced(blocks[i], size) \in Blocks
        /\ Advanced(blocks[i], size).used = blocks[i].used + size
    BY <1>1, <2>2, SMTT(60) DEF Advanced, Blocks, Records
  <2>4. blocks' \in Seq(Blocks) /\ DOMAIN blocks' = DOMAIN blocks
        /\ blocks'[i] = Advanced(blocks[i], size)
        /\ \A j \in DOMAIN blocks \ {i} : blocks'[j] = blocks[j]
    BY <2>1, <2>3
  <2>5. blocks[i].used \in Nat
    BY <2>2 DEF Blocks, Records
  <2>6. Grows(i, size)
    BY <2>1, <2>3, <2>4, <2>5 DEF Grows, Region
  <2> QED
    BY <2>2, <2>6
<1>3. CASE AllocateFromNewBlock(size)
  <2> DEFINE block == Block(NewBlockSize(size))
  <2> DEFINE i == Len(blocks) + 1
  <2>1. /\ Fits(block, size) /\ NewBlockSize(size) \in Nat
        /\ size <= NewBlockSize(size)
    BY <1>1, NewBlockHasRoom
  <2>2. /\ blocks' = Append(blocks, Advanced(block, size))
        /\ live' = live \cup {Region(i, block, size)}
    BY <1>3, <2>1 DEF AllocateFromNewBlock
  <2>3. Advanced(block, size) = [allocated |-> NewBlockSize(size), used |-> 0 + size]
    BY DEF Advanced, Block
  <2>4. Advanced(block, size) \in Blocks
    BY <1>1, <2>1, <2>3 DEF Blocks, Records
  <2>5. i \in Nat \ {0} /\ i \notin DOMAIN blocks
    OBVIOUS
  <2>6. blocks' \in Seq(Blocks) /\ DOMAIN blocks' = 1 .. i
        /\ blocks'[i] = Advanced(block, size)
        /\ \A j \in DOMAIN blocks \ {i} : blocks'[j] = blocks[j]
    BY <2>2, <2>4
  <2>7. Grows(i, size)
    BY <2>2, <2>3, <2>5, <2>6 DEF Grows, Region, Block
  <2> QED
    BY <2>5, <2>7
<1> QED
  BY <1>2, <1>3

\* Every other step leaves the regions alone or gives them up.
LEMMA OtherSteps ==
  ASSUME TypeOK, [Next]_vars
  PROVE  \/ \E size \in Sizes :
              /\ AllocateFromBlock(size) \/ AllocateFromNewBlock(size)
              /\ created' \in {created, created + 1}
              /\ period' = Append(period, size) /\ previous' = previous
         \/ Rewind \/ Destroy
         \/ UNCHANGED vars
<1>1. ASSUME NEW size \in Sizes, AllocateFromNewBlock(size)
      PROVE  /\ created' = created + 1
             /\ period' = Append(period, size) /\ previous' = previous
  BY <1>1, NewBlockHasRoom DEF AllocateFromNewBlock
<1>2. ASSUME NEW size \in Sizes, AllocateFromBlock(size)
      PROVE  /\ created' = created
             /\ period' = Append(period, size) /\ previous' = previous
  BY <1>2 DEF AllocateFromBlock
<1> QED
  BY <1>1, <1>2 DEF Next, Allocate, OutOfMemory

\* No block is ever filled beyond its size.
THEOREM TypeCorrectness == Spec => []TypeOK
<1>1. Init => TypeOK
  BY DEF Init, TypeOK
<1>2. TypeOK /\ [Next]_vars => TypeOK'
  <2> SUFFICES ASSUME TypeOK, [Next]_vars
               PROVE  TypeOK'
    OBVIOUS
  <2>1. ASSUME blocks' \in Seq(Blocks)
        PROVE  /\ blocks' \in Seq([allocated : Nat, used : Nat])
               /\ \A i \in DOMAIN blocks' : blocks'[i].used <= blocks'[i].allocated
    BY <2>1, FilledInBounds DEF Records
  <2>2. ASSUME NEW size \in Sizes,
               AllocateFromBlock(size) \/ AllocateFromNewBlock(size),
               created' \in {created, created + 1},
               period' = Append(period, size), previous' = previous
        PROVE  TypeOK'
    <3>1. PICK i \in Nat \ {0} : Grows(i, size)
      BY <2>2, AllocationGrows
    <3>2. live' \subseteq [block : Nat, offset : Nat, size : Sizes]
      BY <3>1 DEF Grows, TypeOK
    <3>3. blocks' \in Seq(Blocks)
      BY <3>1 DEF Grows
    <3>4. period' \in Seq(Sizes) /\ previous' \in Seq(Sizes) /\ created' \in Nat
      BY <2>2 DEF TypeOK
    <3> QED
      BY <2>1, <3>2, <3>3, <3>4 DEF TypeOK
  <2>3. CASE Rewind
    <3>1. blocks' = [i \in 1 .. Len(blocks) |-> [blocks[i] EXCEPT !.used = 0]]
      BY <2>3 DEF Rewind, TypeOK
    <3>2. ASSUME NEW i \in 1 .. Len(blocks)
          PROVE  [blocks[i] EXCEPT !.used = 0] \in Blocks
      <4>1. blocks[i] \in Blocks
        BY BlocksAreFilledInBounds
      <4> QED
        BY <4>1 DEF Blocks, Records
    <3>3. Len(blocks) \in Nat
      BY DEF TypeOK
    <3>4. blocks' \in Seq(Blocks)
      BY <3>1, <3>2, <3>3
    <3> QED
      BY <2>1, <2>3, <3>4, SMTT(60) DEF Rewind, TypeOK
  <2>4. CASE Destroy
    BY <2>4 DEF Destroy, TypeOK
  <2>5. CASE UNCHANGED vars
    BY <2>5 DEF vars, TypeOK
  <2> QED
    BY <2>2, <2>3, <2>4, <2>5, OtherSteps
<1> QED
  BY <1>1, <1>2, PTL DEF Spec

\* Every region in use lies in the used part of its block.
THEOREM RegionsInBounds == Spec => []InBounds
<1>1. Init => InBounds
  BY DEF Init, InBounds
<1>2. TypeOK /\ InBounds /\ [Next]_vars => InBounds'
  <2> SUFFICES ASSUME TypeOK, InBounds, [Next]_vars
               PROVE  InBounds'
    OBVIOUS
  <2>1. ASSUME NEW size \in Sizes,
               AllocateFromBlock(size) \/ AllocateFromNewBlock(size)
        PROVE  InBounds'
    <3> SUFFICES ASSUME NEW r \in live'
                 PROVE  /\ r.block \in DOMAIN blocks'
                        /\ r.offset + r.size <= blocks'[r.block].used
      BY DEF InBounds
    <3>1. PICK i \in Nat \ {0} : Grows(i, size)
      BY <2>1, AllocationGrows
    <3>2. PICK offset \in Nat :
            /\ i \in DOMAIN blocks => offset = blocks[i].used
            /\ live' = live \cup {[block |-> i, offset |-> offset, size |-> size]}
            /\ blocks'[i].used = offset + size
      BY <3>1 DEF Grows
    <3>3. size \in Nat /\ blocks \in Seq(Blocks)
      BY ArenaAssumption, BlocksAreFilledInBounds
    <3>4. i \in DOMAIN blocks' /\ DOMAIN blocks \subseteq DOMAIN blocks'
      BY <3>1, <3>3 DEF Grows
    <3>5. CASE r \notin live
      BY <3>2, <3>3, <3>4, <3>5
    <3>6. CASE r \in live
      <4>1. /\ r.block \in DOMAIN blocks /\ r.offset \in Nat /\ r.size \in Nat
            /\ r.offset + r.size <= blocks[r.block].used
        BY <3>6, ArenaAssumption DEF InBounds, TypeOK
      <4>2. CASE r.block = i
        BY <3>2, <3>3, <3>4, <4>1, <4>2
      <4>3. CASE r.block # i
        BY <3>1, <3>4, <4>1, <4>3 DEF Grows
      <4> QED
        BY <4>2, <4>3
    <3> QED
      BY <3>5, <3>6
  <2>2. CASE Rewind \/ Destroy
    BY <2>2 DEF Rewind, Destroy, InBounds
  <2>3. CASE UNCHANGED vars
    BY <2>3 DEF vars, InBounds
  <2> QED
    BY <2>1, <2>2, <2>3, OtherSteps
<1> QED
  BY <1>1, <1>2, TypeCorrectness, PTL DEF Spec

\* The arena is an allocator: a region it hands out shares no octet with any
\* that is in use, through reused blocks and rewinds.
THEOREM Refinement == Spec => ImplementsAllocator
<1>1. Init => Heap!Init
  BY DEF Init, Heap!Init
<1>2. TypeOK /\ InBounds /\ [Next]_vars => [Heap!Next]_live
  <2> SUFFICES ASSUME TypeOK, InBounds, [Next]_vars
               PROVE  [Heap!Next]_live
    OBVIOUS
  <2>1. ASSUME NEW size \in Sizes,
               AllocateFromBlock(size) \/ AllocateFromNewBlock(size)
        PROVE  Heap!HandOut
    <3>1. PICK i \in Nat \ {0} : Grows(i, size)
      BY <2>1, AllocationGrows
    <3>2. PICK offset \in Nat :
            /\ i \in DOMAIN blocks => offset = blocks[i].used
            /\ live' = live \cup {[block |-> i, offset |-> offset, size |-> size]}
      BY <3>1 DEF Grows
    <3> DEFINE r == [block |-> i, offset |-> offset, size |-> size]
    <3>3. r \in live' /\ r \in Regions
      BY <3>2 DEF Regions
    <3>4. ASSUME NEW s \in live
          PROVE  Heap!Disjoint(r, s)
      <4>1. /\ s.block \in DOMAIN blocks /\ s.offset \in Nat /\ s.size \in Nat
            /\ s.offset + s.size <= blocks[s.block].used
        BY ArenaAssumption DEF InBounds, TypeOK
      <4>2. ASSUME NEW x \in Heap!Octets(r), x \in Heap!Octets(s)
            PROVE  FALSE
        <5>1. PICK m \in r.offset .. r.offset + r.size - 1 : x = <<r.block, m>>
          BY <4>2 DEF Heap!Octets
        <5>2. PICK n \in s.offset .. s.offset + s.size - 1 : x = <<s.block, n>>
          BY <4>2 DEF Heap!Octets
        <5>3. s.block = i /\ m = n
          BY <5>1, <5>2
        <5>4. offset = blocks[i].used
          BY <3>2, <4>1, <5>3
        <5>5. size \in Nat
          BY ArenaAssumption
        <5> QED
          BY <4>1, <5>1, <5>2, <5>3, <5>4, <5>5
      <4> QED
        BY <4>2 DEF Heap!Disjoint
    <3> QED
      BY <3>2, <3>3, <3>4 DEF Heap!HandOut
  <2>2. CASE Rewind \/ Destroy
    BY <2>2 DEF Rewind, Destroy, Heap!Next, Heap!GiveUpAll
  <2>3. CASE UNCHANGED vars
    BY <2>3 DEF vars
  <2> QED
    BY <2>1, <2>2, <2>3, OtherSteps DEF Heap!Next
<1> QED
  BY <1>1, <1>2, TypeCorrectness, RegionsInBounds, PTL
     DEF Spec, ImplementsAllocator, Heap!Spec

\* A new block serves the request it was made for and leaves as much room:
\* the NULL at the end of sl_arena_allocate is never returned.
THEOREM NewBlocksServe == Spec => NewBlocksHaveRoom
<1> DEFINE P == Len(blocks') > Len(blocks) =>
       LET block == blocks'[Len(blocks')] IN
         /\ live' # live
         /\ block.used <= block.allocated - block.used
<1>1. TypeOK /\ InBounds /\ [Next]_vars => [P]_vars
  <2> SUFFICES ASSUME TypeOK, InBounds, [Next]_vars, Len(blocks') > Len(blocks)
               PROVE  /\ live' # live
                      /\ blocks'[Len(blocks')].used <=
                           blocks'[Len(blocks')].allocated - blocks'[Len(blocks')].used
    OBVIOUS
  <2>1. blocks \in Seq(Blocks) /\ Len(blocks) \in Nat
    BY BlocksAreFilledInBounds
  <2>2. ASSUME NEW size \in Sizes, AllocateFromNewBlock(size)
        PROVE  /\ live' # live
               /\ blocks'[Len(blocks')].used <=
                    blocks'[Len(blocks')].allocated - blocks'[Len(blocks')].used
    <3> DEFINE block == Block(NewBlockSize(size))
    <3>1. /\ Fits(block, size) /\ NewBlockSize(size) \in Nat /\ size \in Nat
          /\ size <= NewBlockSize(size) - size
      BY NewBlockHasRoom
    <3>2. /\ blocks' = Append(blocks, Advanced(block, size))
          /\ live' = live \cup {Region(Len(blocks) + 1, block, size)}
      BY <2>2, <3>1 DEF AllocateFromNewBlock
    <3>3. Advanced(block, size) = [allocated |-> NewBlockSize(size), used |-> 0 + size]
      BY DEF Advanced, Block
    <3>4. blocks'[Len(blocks')] = Advanced(block, size)
      BY <2>1, <3>2
    <3>5. Region(Len(blocks) + 1, block, size) \notin live
      <4>1. Region(Len(blocks) + 1, block, size).block \notin DOMAIN blocks
        BY <2>1 DEF Region
      <4> QED
        BY <4>1 DEF InBounds
    <3> QED
      BY <3>1, <3>2, <3>3, <3>4, <3>5
  <2>3. ASSUME NEW size \in Sizes, AllocateFromBlock(size)
        PROVE  Len(blocks') = Len(blocks)
    BY <2>1, <2>3 DEF AllocateFromBlock
  <2>4. CASE Rewind
    <3>1. blocks' = [i \in 1 .. Len(blocks) |-> [blocks[i] EXCEPT !.used = 0]]
      BY <2>1, <2>4 DEF Rewind
    <3>2. Len(blocks') = Len(blocks)
      BY <2>1, <3>1
    <3> QED
      BY <2>1, <3>2
  <2>5. CASE Destroy
    BY <2>1, <2>5 DEF Destroy
  <2>6. CASE UNCHANGED vars
    BY <2>1, <2>6 DEF vars
  <2> QED
    BY <2>1, <2>2, <2>3, <2>4, <2>5, <2>6, OtherSteps
<1> QED
  BY <1>1, TypeCorrectness, RegionsInBounds, PTL DEF Spec, NewBlocksHaveRoom

-----------------------------------------------------------------------------
(***************************************************************************)
(* A repeated period needs no memory.  What first fit makes of a sequence  *)
(* of sizes is fixed by the blocks: Replay(h, s) says that h[k] is how far *)
(* the blocks are filled by the first k sizes of s, starting from empty    *)
(* blocks.  Blocks made later are found last and change nothing.           *)
(***************************************************************************)

Fills == [Nat -> Nat]

NothingUsed == [i \in Nat |-> 0]

Used == [i \in Nat |-> IF i \in DOMAIN blocks THEN blocks[i].used ELSE 0]

\* The first of the blocks bs with room, were they filled as f says.
Places(bs, f, i, size) ==
  /\ i \in DOMAIN bs
  /\ size <= bs[i].allocated - f[i]
  /\ \A j \in DOMAIN bs : j < i => ~(size <= bs[j].allocated - f[j])

Filled(f, i, size) == [f EXCEPT ![i] = @ + size]

Replay(bs, h, s) ==
  /\ h \in [0 .. Len(s) -> Fills]
  /\ h[0] = NothingUsed
  /\ \A k \in 1 .. Len(s) :
       \E i \in DOMAIN bs :
         Places(bs, h[k - 1], i, s[k]) /\ h[k] = Filled(h[k - 1], i, s[k])

\* The period so far is the start of the one before.
IsRepeat ==
  /\ Len(period) <= Len(previous)
  /\ \A k \in 1 .. Len(period) : period[k] = previous[k]

\* Both periods fill the blocks there are as first fit does, and a repeated one
\* is on the way of the one before.
Replayed ==
  /\ \E h : Replay(blocks, h, period) /\ h[Len(period)] = Used
  /\ \E h : /\ Replay(blocks, h, previous)
            /\ IsRepeat => created = 0 /\ h[Len(period)] = Used

\* How far each block is filled, as a function.
LEMMA UsedIsFills == TypeOK => Used \in Fills
  BY BlocksAreFilledInBounds DEF Used, Fills, Blocks, Records

\* The empty period fills nothing.
LEMMA EmptyReplay ==
  ASSUME NEW bs \in Seq(Blocks), NEW s \in Seq(Sizes), s = <<>>
  PROVE  \E h : Replay(bs, h, s) /\ h[0] = NothingUsed
<1> DEFINE h == [k \in 0 .. 0 |-> NothingUsed]
<1>1. Len(s) = 0
  OBVIOUS
<1>2. Replay(bs, h, s) /\ h[0] = NothingUsed
  BY <1>1 DEF Replay, Fills, NothingUsed
<1> QED
  BY <1>2

\* The blocks bs keep their sizes in cs; others may follow them.
Kept(bs, cs) ==
  /\ DOMAIN bs \subseteq DOMAIN cs
  /\ \A i \in DOMAIN bs :
       /\ cs[i].allocated = bs[i].allocated
       /\ \A j \in DOMAIN cs : j < i => j \in DOMAIN bs

\* What is placed in a block stays there when blocks follow.
LEMMA PlaceIsKept ==
  ASSUME NEW bs, NEW cs, Kept(bs, cs), NEW f, NEW size,
         NEW i \in DOMAIN bs, Places(bs, f, i, size)
  PROVE  i \in DOMAIN cs /\ Places(cs, f, i, size)
  BY DEF Kept, Places

\* So does a whole period.
LEMMA ReplayIsKept ==
  ASSUME NEW bs, NEW cs, Kept(bs, cs), NEW h, NEW s, Replay(bs, h, s)
  PROVE  Replay(cs, h, s)
<1>1. ASSUME NEW k \in 1 .. Len(s)
      PROVE  \E i \in DOMAIN cs :
               Places(cs, h[k - 1], i, s[k]) /\ h[k] = Filled(h[k - 1], i, s[k])
  <2>1. PICK i \in DOMAIN bs :
          Places(bs, h[k - 1], i, s[k]) /\ h[k] = Filled(h[k - 1], i, s[k])
    BY DEF Replay
  <2> QED
    BY <2>1, PlaceIsKept
<1> QED
  BY <1>1 DEF Replay

\* The block that first fit finds depends on nothing else.
LEMMA PlaceIsUnique ==
  ASSUME NEW bs \in Seq(Blocks), NEW f, NEW size,
         NEW i \in DOMAIN bs, Places(bs, f, i, size),
         NEW j \in DOMAIN bs, Places(bs, f, j, size)
  PROVE  i = j
<1>1. i \in Nat /\ j \in Nat
  OBVIOUS
<1>2. ~(i < j) /\ ~(j < i)
  BY DEF Places
<1> QED
  BY <1>1, <1>2

\* Filling one block more keeps the type.
LEMMA FilledIsFills ==
  ASSUME NEW f \in Fills, NEW i \in Nat, NEW size \in Nat
  PROVE  Filled(f, i, size) \in Fills
<1>1. f[i] + size \in Nat
  BY DEF Fills
<1> QED
  BY <1>1 DEF Filled, Fills

\* One more size.
LEMMA ReplayIsExtended ==
  ASSUME NEW bs \in Seq(Blocks), NEW s \in Seq(Sizes), NEW size \in Sizes,
         NEW h, Replay(bs, h, s),
         NEW i \in DOMAIN bs, Places(bs, h[Len(s)], i, size)
  PROVE  \E g : /\ Replay(bs, g, Append(s, size))
                /\ g[Len(s) + 1] = Filled(h[Len(s)], i, size)
<1> DEFINE t == Append(s, size)
           g == [k \in 0 .. Len(t) |->
                   IF k <= Len(s) THEN h[k] ELSE Filled(h[Len(s)], i, size)]
<1>1. /\ Len(s) \in Nat /\ Len(t) = Len(s) + 1
      /\ t[Len(s) + 1] = size
      /\ \A k \in 1 .. Len(s) : t[k] = s[k]
  OBVIOUS
<1>2. h[Len(s)] \in Fills
  BY <1>1 DEF Replay
<1>3. Filled(h[Len(s)], i, size) \in Fills
  <2>1. i \in Nat /\ size \in Nat
    BY ArenaAssumption
  <2> QED
    BY <1>2, <2>1, FilledIsFills
<1>4. g \in [0 .. Len(t) -> Fills] /\ g[0] = NothingUsed
  <2>1. \A k \in 0 .. Len(t) : k <= Len(s) => h[k] \in Fills
    BY <1>1 DEF Replay
  <2>2. g \in [0 .. Len(t) -> Fills]
    BY <1>3, <2>1
  <2>3. g[0] = h[0]
    BY <1>1
  <2> QED
    BY <2>2, <2>3 DEF Replay
<1>5. ASSUME NEW k \in 1 .. Len(t)
      PROVE  \E b \in DOMAIN bs :
               Places(bs, g[k - 1], b, t[k]) /\ g[k] = Filled(g[k - 1], b, t[k])
  <2>1. CASE k \in 1 .. Len(s)
    <3>1. g[k - 1] = h[k - 1] /\ g[k] = h[k] /\ t[k] = s[k]
      BY <1>1, <2>1
    <3>2. PICK b \in DOMAIN bs :
            Places(bs, h[k - 1], b, s[k]) /\ h[k] = Filled(h[k - 1], b, s[k])
      BY <2>1 DEF Replay
    <3> HIDE DEF g, t
    <3> QED
      BY <3>1, <3>2
  <2>2. CASE k = Len(s) + 1
    <3>1. g[k - 1] = h[Len(s)] /\ g[k] = Filled(h[Len(s)], i, size) /\ t[k] = size
      BY <1>1, <2>2
    <3> HIDE DEF g, t
    <3> QED
      BY <3>1
  <2>3. k \in 1 .. Len(s) \/ k = Len(s) + 1
    BY <1>1
  <2> HIDE DEF g, t
  <2> QED
    BY <2>1, <2>2, <2>3
<1>6. g[Len(s) + 1] = Filled(h[Len(s)], i, size)
  BY <1>1
<1> HIDE DEF g
<1>7. Replay(bs, g, t)
  BY <1>4, <1>5 DEF Replay
<1> QED
  BY <1>6, <1>7

\* An allocation is placed by first fit among the blocks there are then, and
\* fills one of them.
LEMMA AllocationPlaces ==
  ASSUME TypeOK, NEW size \in Sizes,
         AllocateFromBlock(size) \/ AllocateFromNewBlock(size)
  PROVE  /\ Kept(blocks, blocks')
         /\ \E i \in DOMAIN blocks' :
              Places(blocks', Used, i, size) /\ Used' = Filled(Used, i, size)
<1> USE BlocksAreFilledInBounds
<1>1. size \in Nat
  BY ArenaAssumption
<1>2. CASE AllocateFromBlock(size)
  <2>1. PICK i \in DOMAIN blocks :
          /\ FirstFit(i, size)
          /\ blocks' = [blocks EXCEPT ![i] = Advanced(@, size)]
    BY <1>2 DEF AllocateFromBlock
  <2>2. /\ DOMAIN blocks' = DOMAIN blocks /\ i \in Nat
        /\ blocks'[i].allocated = blocks[i].allocated
        /\ blocks'[i].used = blocks[i].used + size
        /\ \A j \in DOMAIN blocks \ {i} : blocks'[j] = blocks[j]
    BY <2>1 DEF Advanced, Blocks, Records
  <2>3. Kept(blocks, blocks')
    BY <2>2 DEF Kept
  <2>4. Places(blocks, Used, i, size)
    BY <2>1 DEF FirstFit, Fits, Places, Used
  <2>5. Places(blocks', Used, i, size)
    BY <2>3, <2>4, PlaceIsKept
  <2>6. Used' = Filled(Used, i, size)
    BY <2>2 DEF Used, Filled
  <2> QED
    BY <2>2, <2>3, <2>5, <2>6
<1>3. CASE AllocateFromNewBlock(size)
  <2> DEFINE block == Block(NewBlockSize(size))
  <2> DEFINE i == Len(blocks) + 1
  <2>1. /\ Fits(block, size) /\ NewBlockSize(size) \in Nat
        /\ size <= NewBlockSize(size)
    BY <1>1, NewBlockHasRoom
  <2>2. /\ blocks' = Append(blocks, Advanced(block, size))
        /\ \A j \in DOMAIN blocks : ~Fits(blocks[j], size)
    BY <1>3, <2>1 DEF AllocateFromNewBlock
  <2>3. Advanced(block, size) = [allocated |-> NewBlockSize(size), used |-> 0 + size]
    BY DEF Advanced, Block
  <2>4. /\ i \in Nat /\ DOMAIN blocks = 1 .. Len(blocks) /\ DOMAIN blocks' = 1 .. i
        /\ blocks'[i] = Advanced(block, size)
        /\ \A j \in DOMAIN blocks : blocks'[j] = blocks[j]
    BY <2>2
  <2>5. Kept(blocks, blocks')
    BY <2>4 DEF Kept
  <2>6. /\ Used[i] = 0 /\ \A j \in DOMAIN blocks : Used[j] = blocks[j].used
    BY <2>4 DEF Used
  <2>7. Places(blocks', Used, i, size)
    <3>1. size <= blocks'[i].allocated - Used[i]
      BY <1>1, <2>1, <2>3, <2>4, <2>6
    <3>2. ASSUME NEW j \in DOMAIN blocks', j < i
          PROVE  ~(size <= blocks'[j].allocated - Used[j])
      <4>1. j \in DOMAIN blocks
        BY <2>4, <3>2
      <4> QED
        BY <2>2, <2>4, <2>6, <4>1 DEF Fits
    <3>3. i \in DOMAIN blocks'
      BY <2>4
    <3> QED
      BY <3>1, <3>2, <3>3 DEF Places
  <2>8. blocks'[i].used = size
    BY <1>1, <2>3, <2>4
  <2> HIDE DEF block
  <2>9. Used' = Filled(Used, i, size)
    <3>1. \A j \in Nat : Used'[j] = IF j = i THEN Used[j] + size ELSE Used[j]
      BY <1>1, <2>4, <2>6, <2>8 DEF Used
    <3>2. Filled(Used, i, size) =
            [j \in Nat |-> IF j = i THEN Used[j] + size ELSE Used[j]]
      BY <2>4 DEF Used, Filled
    <3>3. Used' = [j \in Nat |-> Used'[j]]
      BY DEF Used
    <3> QED
      BY <3>1, <3>2, <3>3
  <2> QED
    BY <2>4, <2>5, <2>7, <2>9
<1> QED
  BY <1>2, <1>3

\* First fit goes the same way again.
LEMMA ReplayedStep ==
  ASSUME TypeOK, TypeOK', Replayed, [Next]_vars
  PROVE  Replayed'
<1> USE BlocksAreFilledInBounds
<1>0. blocks \in Seq(Blocks) /\ blocks' \in Seq(Blocks)
      /\ period \in Seq(Sizes) /\ previous \in Seq(Sizes)
      /\ period' \in Seq(Sizes) /\ previous' \in Seq(Sizes)
  <2>1. blocks' \in Seq(Records)
        /\ \A i \in DOMAIN blocks' : blocks'[i].used <= blocks'[i].allocated
    BY DEF TypeOK, Records
  <2> QED
    BY <2>1, FilledInBounds DEF TypeOK
<1>1. PICK h : Replay(blocks, h, period) /\ h[Len(period)] = Used
  BY DEF Replayed
<1>2. PICK hp : /\ Replay(blocks, hp, previous)
                /\ IsRepeat => created = 0 /\ hp[Len(period)] = Used
  BY DEF Replayed
<1>3. ASSUME NEW size \in Sizes,
             AllocateFromBlock(size) \/ AllocateFromNewBlock(size)
      PROVE  Replayed'
  <2> DEFINE n == Len(period) + 1
  <2>1. /\ period' = Append(period, size) /\ previous' = previous
        /\ Len(period') = n /\ period'[n] = size /\ n \in Nat /\ n - 1 = Len(period)
        /\ \A k \in 1 .. Len(period) : period'[k] = period[k]
    <3>1. period' = Append(period, size) /\ previous' = previous
      BY <1>3, NewBlockHasRoom DEF AllocateFromBlock, AllocateFromNewBlock
    <3> QED
      BY <1>0, <3>1
  <2>2. Kept(blocks, blocks')
    BY <1>3, AllocationPlaces
  <2>3. PICK i \in DOMAIN blocks' :
          Places(blocks', Used, i, size) /\ Used' = Filled(Used, i, size)
    BY <1>3, AllocationPlaces
  <2>4. \E g : Replay(blocks', g, period') /\ g[Len(period')] = Used'
    <3>1. Replay(blocks', h, period)
      BY <1>1, <2>2, ReplayIsKept
    <3>2. \E g : /\ Replay(blocks', g, Append(period, size))
                 /\ g[n] = Filled(h[Len(period)], i, size)
      BY <1>0, <1>1, <2>3, <3>1, ReplayIsExtended, ZenonT(60)
    <3> QED
      BY <1>1, <2>1, <2>3, <3>2
  <2>5. Replay(blocks', hp, previous')
    BY <1>2, <2>1, <2>2, ReplayIsKept
  <2>6. ASSUME IsRepeat'
        PROVE  created' = 0 /\ hp[Len(period')] = Used'
    <3>1. n <= Len(previous) /\ size = previous[n] /\ IsRepeat
      <4>1. n <= Len(previous) /\ \A k \in 1 .. n : period'[k] = previous[k]
        BY <2>1, <2>6 DEF IsRepeat
      <4>2. Len(period) \in Nat /\ Len(previous) \in Nat
        BY <1>0
      <4> QED
        BY <2>1, <4>1, <4>2 DEF IsRepeat
    <3>2. created = 0 /\ hp[n - 1] = Used
      BY <1>2, <2>1, <3>1
    <3>3. n \in 1 .. Len(previous)
      BY <1>0, <3>1
    <3>4. PICK j \in DOMAIN blocks :
            Places(blocks, Used, j, size) /\ hp[n] = Filled(Used, j, size)
      BY <1>2, <3>1, <3>2, <3>3 DEF Replay
    <3>5. j \in DOMAIN blocks' /\ Places(blocks', Used, j, size)
      BY <2>2, <3>4, PlaceIsKept
    <3>6. i = j
      BY <1>0, <2>3, <3>5, PlaceIsUnique
    <3>7. Fits(blocks[j], size)
      BY <1>0, <3>4 DEF Places, Used, Fits
    <3>8. created' = created
      BY <1>3, <3>7 DEF AllocateFromBlock, AllocateFromNewBlock
    <3> QED
      BY <2>1, <2>3, <3>2, <3>4, <3>6, <3>8
  <2> QED
    BY <2>4, <2>5, <2>6 DEF Replayed
<1>4. CASE Rewind
  <2>1. /\ DOMAIN blocks' = DOMAIN blocks
        /\ \A i \in DOMAIN blocks : /\ blocks'[i].allocated = blocks[i].allocated
                                    /\ blocks'[i].used = 0
        /\ previous' = period /\ period' = <<>> /\ created' = 0
    BY <1>0, <1>4 DEF Rewind, Blocks, Records
  <2>2. Used' = NothingUsed
    BY <2>1 DEF Used, NothingUsed
  <2>3. Kept(blocks, blocks')
    BY <2>1 DEF Kept
  <2>4. \E g : Replay(blocks', g, period') /\ g[Len(period')] = Used'
    BY <1>0, <2>1, <2>2, EmptyReplay
  <2>5. Replay(blocks', h, previous')
    BY <1>1, <2>1, <2>3, ReplayIsKept
  <2>6. h[Len(period')] = Used'
    BY <2>1, <2>2, <2>5 DEF Replay
  <2> QED
    BY <2>1, <2>4, <2>5, <2>6 DEF Replayed
<1>5. CASE Destroy
  <2>1. blocks' = <<>> /\ period' = <<>> /\ previous' = <<>> /\ created' = 0
    BY <1>5 DEF Destroy
  <2>2. Used' = NothingUsed
    BY <2>1 DEF Used, NothingUsed
  <2>3. \E g : Replay(blocks', g, <<>>) /\ g[0] = NothingUsed
    BY <1>0, <2>1, EmptyReplay
  <2> QED
    BY <2>1, <2>2, <2>3 DEF Replayed
<1>6. CASE UNCHANGED vars
  BY <1>6 DEF vars, Replayed, IsRepeat, Used
<1> QED
  BY <1>3, <1>4, <1>5, <1>6 DEF Next, Allocate, OutOfMemory

\* The code path of sl_arena_allocate and sl_arena_rewind goes the same way when
\* the sizes repeat, whatever the sizes and however many blocks there are.
THEOREM PeriodsReplay == Spec => []Replayed
<1>1. Init => Replayed
  <2> SUFFICES ASSUME Init PROVE Replayed
    OBVIOUS
  <2>1. blocks = <<>> /\ period = <<>> /\ previous = <<>> /\ created = 0
    BY DEF Init
  <2>2. Used = NothingUsed
    BY <2>1 DEF Used, NothingUsed
  <2>3. \E g : Replay(blocks, g, <<>>) /\ g[0] = NothingUsed
    <3>1. blocks \in Seq(Blocks) /\ <<>> \in Seq(Sizes)
      BY <2>1
    <3> QED
      BY <3>1, EmptyReplay
  <2> QED
    BY <2>1, <2>2, <2>3 DEF Replayed
<1>2. TypeOK /\ TypeOK' /\ Replayed /\ [Next]_vars => Replayed'
  BY ReplayedStep
<1> QED
  BY <1>1, <1>2, TypeCorrectness, PTL DEF Spec

\* A kept connection whose requests ask for the same sizes in the same order
\* gets them from the blocks its arena has: no malloc() after the first.
THEOREM RepeatsAreFree == Spec => []RepeatNeedsNoMemory
<1>1. TypeOK /\ Replayed => RepeatNeedsNoMemory
  <2> SUFFICES ASSUME TypeOK, Replayed, Len(period) <= Len(previous),
                      period = SubSeq(previous, 1, Len(period))
               PROVE  created = 0
    BY DEF RepeatNeedsNoMemory
  <2>1. period \in Seq(Sizes) /\ previous \in Seq(Sizes)
    BY DEF TypeOK
  <2>2. \A k \in 1 .. Len(period) : period[k] = previous[k]
    BY <2>1
  <2> QED
    BY <2>2 DEF Replayed, IsRepeat
<1> QED
  BY <1>1, TypeCorrectness, PeriodsReplay, PTL

=============================================================================
