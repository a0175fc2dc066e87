------------------------------ MODULE Pow2Bits ------------------------------
(***************************************************************************)
(* sl_arena_pow2_size of sl_arena.c, statement by statement, on a size_t   *)
(* of Width bits: a decrement, one "or" with itself shifted right for each *)
(* power of two below 64, an increment.                                    *)
(***************************************************************************)
EXTENDS Pow2, Bitwise, Sequences, SequencesExt

CONSTANTS
  Width,     \* 64 in the program
  Arguments  \* the sizes tried

Wrapped(n) == n % 2 ^ Width

ShiftIn(size, shift) == size | shiftR(size, shift)

\* size |= size >> 1 and so on
Smeared(size) == FoldLeft(ShiftIn, size, <<1, 2, 4, 8, 16, 32>>)

Pow2SizeOfBits(size) == Wrapped(Smeared(Wrapped(size + 2 ^ Width - 1)) + 1)

\* The bits of the highest one and all below it are set before the increment:
\* sizes are rounded up to a power of two; zero, and a size above the largest
\* power of two there is, give zero.
ASSUME RoundsUp == \A n \in Arguments : Pow2SizeOfBits(n) = Wrapped(Pow2Size(n))

=============================================================================
