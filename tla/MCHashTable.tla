----------------------------- MODULE MCHashTable -----------------------------
(***************************************************************************)
(* HashTable with keys that collide: "Aa" and "BB" have the same hash, an  *)
(* odd "A" and an octet above 127 meet them in small tables only.          *)
(***************************************************************************)
EXTENDS HashTable, KeyHash

MCKeys == {<<65, 97>>, <<66, 66>>, <<65>>, <<200>>}

MCHash == [key \in MCKeys |-> ComputeHash(key)]

=============================================================================
