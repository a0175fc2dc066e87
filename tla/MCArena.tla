------------------------------- MODULE MCArena -------------------------------
(***************************************************************************)
(* Arena with a block of four octets and requests that share one, fill one *)
(* or need a larger one; and the rounding of sizes on 28 bits, below,      *)
(* at and above every power of two.                                        *)
(***************************************************************************)
EXTENDS Arena, Pow2Bits

MCArguments ==
  0 .. 1024 \cup UNION {{2 ^ k - 1, 2 ^ k, 2 ^ k + 1, 3 * 2 ^ (k - 1)} : k \in 11 .. 27}

=============================================================================
