------------------------------- MODULE KeyHash -------------------------------
(***************************************************************************)
(* sl_hashtable_compute_hash on a size_t of HashBits bits.  The octets of  *)
(* a string are of type char, which is signed.                             *)
(***************************************************************************)
EXTENDS Integers, SequencesExt

CONSTANT HashBits

SignedChar(octet) == IF octet < 128 THEN octet ELSE octet - 256

\* hash = octet + (hash << 5) - hash, which is 31 * hash + octet.
ComputeHash(key) ==
  FoldLeft(LAMBDA hash, octet : (SignedChar(octet) + 31 * hash) % 2 ^ HashBits,
           0, key)

=============================================================================
