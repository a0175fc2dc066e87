-------------------------------- MODULE Arena --------------------------------
(***************************************************************************)
(* The arena of sl_arena.c: a list of blocks got from malloc(), each cut   *)
(* off from its start.  There is no free(): rewinding makes all blocks     *)
(* empty and keeps them, destroying gives them back.                       *)
(*                                                                         *)
(* A worker rewinds the arena of a connection whenever the connection is   *)
(* made or kept, so what one request allocates the next one finds ready.   *)
(*                                                                         *)
(* The counters allocations, allocated, blocks and used of the struct are  *)
(* never read and are left out.  Sizes are far below the largest size_t in *)
(* the program (a 16 bit content length or a 31 bit parameter length,      *)
(* doubled twice), so sums do not wrap.                                    *)
(*                                                                         *)
(* An operator named X_Variant is X with a plausible mistake.              *)
(***************************************************************************)
EXTENDS Naturals, Sequences, FiniteSets

CONSTANTS
  Preallocate,  \* arena->preallocate
  Sizes,        \* what is asked for
  MaxBlocks,    \* bound: malloc() fails when there are so many blocks
  MaxPeriod     \* bound: so many allocations between two rewinds

ASSUME ArenaAssumption == Preallocate \in Nat /\ Sizes \subseteq Nat

VARIABLES
  blocks,    \* the list from first to last
  live,      \* the regions handed out since the arena was rewound
  period,    \* history: the sizes allocated since then
  previous,  \* history: those of the period before
  created    \* history: the blocks created in this period

vars == <<blocks, live, period, previous, created>>

Block(allocated) == [allocated |-> allocated, used |-> 0]

\* Variant: an empty block is meant.
Fits_Empty(block, size) == size <= block.allocated

\* sl_arena_allocate_from_block finds room.
Fits(block, size) == size <= block.allocated - block.used

\* The first block with room.
FirstFit(i, size) ==
  /\ i \in DOMAIN blocks
  /\ Fits(blocks[i], size)
  /\ \A j \in DOMAIN blocks : j < i => ~Fits(blocks[j], size)

\* Variant: the size of this allocation only.
Advanced_Assigned(block, size) == [block EXCEPT !.used = size]

Advanced(block, size) == [block EXCEPT !.used = @ + size]

Region(i, block, size) == [block |-> i, offset |-> block.used, size |-> size]

\* Variant: the block is as large as the request at least.
NewBlockSize_Exact(size) == IF size > Preallocate THEN size ELSE Preallocate

\* Twice the request when it takes more than half of the usual block.
NewBlockSize(size) == IF size > Preallocate \div 2 THEN 2 * size ELSE Preallocate

-----------------------------------------------------------------------------

Init ==
  /\ blocks = <<>>
  /\ live = {}
  /\ period = <<>> /\ previous = <<>> /\ created = 0

AllocateFromBlock(size) ==
  /\ \E i \in DOMAIN blocks :
       /\ FirstFit(i, size)
       /\ live' = live \cup {Region(i, blocks[i], size)}
       /\ blocks' = [blocks EXCEPT ![i] = Advanced(@, size)]
  /\ period' = Append(period, size)
  /\ UNCHANGED <<previous, created>>

AllocateFromNewBlock(size) ==
  LET block == Block(NewBlockSize(size)) IN
  /\ \A i \in DOMAIN blocks : ~Fits(blocks[i], size)
  /\ Len(blocks) < MaxBlocks
  /\ IF Fits(block, size)
     THEN /\ blocks' = Append(blocks, Advanced(block, size))
          /\ live' = live \cup {Region(Len(blocks) + 1, block, size)}
          /\ period' = Append(period, size)
     ELSE /\ blocks' = Append(blocks, block)
          /\ UNCHANGED <<live, period>>
  /\ created' = created + 1
  /\ UNCHANGED previous

\* malloc() fails: sl_arena_allocate returns NULL and leaves all as it is.
OutOfMemory(size) ==
  /\ \A i \in DOMAIN blocks : ~Fits(blocks[i], size)
  /\ UNCHANGED vars

\* Variant: only the first block becomes empty.
Rewind_First ==
  /\ blocks' = [i \in DOMAIN blocks |->
                  IF i = 1 THEN [blocks[i] EXCEPT !.used = 0] ELSE blocks[i]]
  /\ live' = {}
  /\ previous' = period
  /\ period' = <<>>
  /\ created' = 0

\* sl_arena_rewind
Rewind ==
  /\ blocks' = [i \in DOMAIN blocks |-> [blocks[i] EXCEPT !.used = 0]]
  /\ live' = {}
  /\ previous' = period
  /\ period' = <<>>
  /\ created' = 0

\* sl_arena_destroy
Destroy ==
  /\ blocks' = <<>>
  /\ live' = {}
  /\ period' = <<>> /\ previous' = <<>> /\ created' = 0

Allocate(size) ==
  /\ Len(period) < MaxPeriod
  /\ \/ AllocateFromBlock(size)
     \/ AllocateFromNewBlock(size)
     \/ OutOfMemory(size)

Next ==
  \/ \E size \in Sizes : Allocate(size)
  \/ Rewind
  \/ Destroy

Spec == Init /\ [][Next]_vars

-----------------------------------------------------------------------------

TypeOK ==
  /\ blocks \in Seq([allocated : Nat, used : Nat])
  /\ \A i \in DOMAIN blocks : blocks[i].used <= blocks[i].allocated
  /\ live \subseteq [block : Nat, offset : Nat, size : Sizes]
  /\ period \in Seq(Sizes) /\ previous \in Seq(Sizes)
  /\ created \in Nat

\* A region in use lies in the used part of its block, also after rewinding and
\* when small requests go back to early blocks: what is allocated later starts
\* behind it.
InBounds ==
  \A r \in live :
    r.block \in DOMAIN blocks /\ r.offset + r.size <= blocks[r.block].used

Regions == [block : Nat \ {0}, offset : Nat, size : Sizes]

Heap == INSTANCE Allocator

\* The arena hands out regions that share no octet while they are in use.
ImplementsAllocator == Heap!Spec

\* A kept connection does not grow: a period that asks for what the period
\* before it was given, in that order, makes no new block.
RepeatNeedsNoMemory ==
  (Len(period) <= Len(previous) /\ period = SubSeq(previous, 1, Len(period)))
    => created = 0

\* A block that malloc() gave always serves the request it was made for, so
\* that the NULL at the end of sl_arena_allocate is never returned, and half
\* of the block at least is left for later ones.
NewBlocksHaveRoom ==
  [][Len(blocks') > Len(blocks) =>
       LET block == blocks'[Len(blocks')] IN
         /\ live' # live
         /\ block.used <= block.allocated - block.used]_vars

=============================================================================
