-------------------------------- MODULE Pow2 --------------------------------
(***************************************************************************)
(* What sl_arena_pow2_size returns: the arena, the hash table and the      *)
(* strings round their sizes with it.  Pow2Bits shows that the shifts of   *)
(* the code compute it.                                                    *)
(***************************************************************************)
EXTENDS Naturals

SizeBits == 64  \* of a size_t

\* The least power of two that is not below n; the decrement wraps for zero,
\* and the increment wraps back.
Pow2Size(n) ==
  IF n = 0
  THEN 0
  ELSE 2 ^ (CHOOSE k \in 0 .. SizeBits : n <= 2 ^ k /\ (k = 0 \/ 2 ^ (k - 1) < n))

=============================================================================
