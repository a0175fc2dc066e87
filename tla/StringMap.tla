------------------------------ MODULE StringMap ------------------------------
(***************************************************************************)
(* What the hash table promises: it is a map.  A call either stores the    *)
(* value under the key or changes nothing.  It may report an error in both *)
(* cases, but only for a key that was not there: giving a new value to a   *)
(* key never fails.                                                        *)
(***************************************************************************)
EXTENDS Integers

CONSTANTS Keys, Values

VARIABLES
  map,     \* a function from the keys that are there to their values
  result   \* of the last call: 0, or -1 for an error

vars == <<map, result>>

Init == map = <<>> /\ result = 0

Stored(key, value) ==
  [k \in DOMAIN map \cup {key} |-> IF k = key THEN value ELSE map[k]]

Add(key, value) ==
  /\ key \notin DOMAIN map
  /\ map' = Stored(key, value)
  /\ result' \in {0, -1}

Change(key, value) ==
  /\ key \in DOMAIN map
  /\ map' = Stored(key, value)
  /\ result' = 0

Refuse(key) ==
  /\ key \notin DOMAIN map
  /\ map' = map
  /\ result' = -1

Next ==
  \E key \in Keys :
    Refuse(key) \/ \E value \in Values : Add(key, value) \/ Change(key, value)

Spec == Init /\ [][Next]_vars

=============================================================================
