------------------------------ MODULE HashTable ------------------------------
(***************************************************************************)
(* The hash table of sl_hashtable.c, used for the parameters of a request  *)
(* and the headers of a response: an array of buckets, each the first node *)
(* of a chain.  It is allocated with the first key, and doubled when three *)
(* quarters as many keys as buckets are there; the new array gets new      *)
(* nodes, so that a resize that runs out of memory half-way has spoilt     *)
(* nothing.                                                                *)
(*                                                                         *)
(* A call is one action, chosen by whether the key is there and which      *)
(* allocation fails, if any.  A chain is the set of its nodes: no key is   *)
(* in it twice (KeysAreUnique), so a search finds the same node in every   *)
(* order.  The counters resizes and wasted are never read and are left     *)
(* out.                                                                    *)
(*                                                                         *)
(* An operator named X_Variant is X with a plausible mistake.              *)
(***************************************************************************)
EXTENDS Integers, FiniteSets, Pow2

CONSTANTS
  Keys, Values,
  Hash,            \* what sl_hashtable_compute_hash makes of each key
  Preallocations,  \* the sizes sl_hashtable_init may be called with
  Null             \* what the lookup of an unknown key returns

ASSUME HashAssumption == Hash \in [Keys -> Nat]
\* Zero, and what has no power of two above it, would be rounded to zero.
ASSUME PreallocateAssumption ==
  \A n \in Preallocations : Pow2Size(n) \in Nat \ {0}
ASSUME NullAssumption == Null \notin Values

MaxLoad == 75  \* SL_HASHTABLE_MAX_LOAD

VARIABLES
  preallocate,
  size,
  buckets,  \* [0 .. size - 1 -> the nodes of a chain]
  count,
  result,   \* of the last call
  starved   \* history: a resize has failed

vars == <<preallocate, size, buckets, count, result, starved>>

Node(key, value) == [hash |-> Hash[key], key |-> key, value |-> value]

\* hash & (size - 1), for a size that is a power of two.
BucketOf(hash, n) == hash % n

\* Variant: the keys themselves are not compared.
IsKey_ByHash(node, key) == node.hash = Hash[key]

IsKey(node, key) == node.hash = Hash[key] /\ node.key = key

NodesOf(chains) == UNION {chains[b] : b \in DOMAIN chains}

Nodes == NodesOf(buckets)

\* sl_hashtable_get looks through all buckets.
Get(key) ==
  LET found == {node \in Nodes : IsKey(node, key)}
  IN  IF found = {} THEN Null ELSE (CHOOSE node \in found : TRUE).value

-----------------------------------------------------------------------------
(***************************************************************************)
(* The table when its first array has been allocated.                      *)
(***************************************************************************)

Rounded(n) == Pow2Size(n)

\* sl_hashtable_allocate is called with preallocate, so it allocates that.
ReadySize == IF size = 0 THEN preallocate ELSE size

Ready == IF size = 0 THEN [b \in 0 .. preallocate - 1 |-> {}] ELSE buckets

\* The bucket sl_hashtable_set searches, and the only one.
Home(key) == BucketOf(Hash[key], ReadySize)

IsThere(key) == \E node \in Ready[Home(key)] : IsKey(node, key)

Inserted(key, value) == [Ready EXCEPT ![Home(key)] = @ \cup {Node(key, value)}]

\* Variant: the limit itself is allowed.
NeedsResize_Above(n) == (n * 100) \div ReadySize > MaxLoad

NeedsResize(n) == (n * 100) \div ReadySize >= MaxLoad

\* Variant: the chains are chosen with the mask of the old array.
Rehashed_OldMask(nodes, n) ==
  [b \in 0 .. n - 1 |-> {node \in nodes : BucketOf(node.hash, ReadySize) = b}]

\* sl_hashtable_resize: each node is copied to its new chain.
Rehashed(nodes, n) ==
  [b \in 0 .. n - 1 |-> {node \in nodes : BucketOf(node.hash, n) = b}]

-----------------------------------------------------------------------------

Init ==
  /\ \E n \in Preallocations : preallocate = Rounded(n)
  /\ size = 0
  /\ buckets = <<>>
  /\ count = 0
  /\ result = 0
  /\ starved = FALSE

\* The first array cannot be allocated.
NoArray ==
  /\ size = 0
  /\ result' = -1
  /\ UNCHANGED <<preallocate, size, buckets, count, starved>>

\* The key is there: its node gets the new key and value.
Replace(key, value) ==
  /\ IsThere(key)
  /\ \E old \in {node \in Ready[Home(key)] : IsKey(node, key)} :
       buckets' = [buckets EXCEPT ![Home(key)] =
                     (@ \ {old})
                       \cup {[hash |-> old.hash, key |-> key, value |-> value]}]
  /\ result' = 0
  /\ UNCHANGED <<preallocate, size, count, starved>>

\* The node cannot be allocated; the array may be new.
NoNode(key) ==
  /\ ~IsThere(key)
  /\ size' = ReadySize
  /\ buckets' = Ready
  /\ result' = -1
  /\ UNCHANGED <<preallocate, count, starved>>

Insert(key, value) ==
  /\ ~IsThere(key)
  /\ ~NeedsResize(count + 1)
  /\ size' = ReadySize
  /\ buckets' = Inserted(key, value)
  /\ count' = count + 1
  /\ result' = 0
  /\ UNCHANGED <<preallocate, starved>>

InsertAndResize(key, value) ==
  /\ ~IsThere(key)
  /\ NeedsResize(count + 1)
  /\ size' = 2 * ReadySize
  /\ buckets' = Rehashed(NodesOf(Inserted(key, value)), 2 * ReadySize)
  /\ count' = count + 1
  /\ result' = 0
  /\ UNCHANGED <<preallocate, starved>>

\* Variant: the key is taken for not inserted.
InsertButNotResize_Uncounted(key, value) ==
  /\ ~IsThere(key)
  /\ NeedsResize(count + 1)
  /\ size' = ReadySize
  /\ buckets' = Inserted(key, value)
  /\ count' = count
  /\ result' = -1
  /\ starved' = TRUE
  /\ UNCHANGED preallocate

\* The new array or one of its nodes cannot be allocated: the call fails, with
\* the key in the old array.
InsertButNotResize(key, value) ==
  /\ ~IsThere(key)
  /\ NeedsResize(count + 1)
  /\ size' = ReadySize
  /\ buckets' = Inserted(key, value)
  /\ count' = count + 1
  /\ result' = -1
  /\ starved' = TRUE
  /\ UNCHANGED preallocate

\* sl_hashtable_set
Set(key, value) ==
  \/ NoArray
  \/ Replace(key, value)
  \/ NoNode(key)
  \/ Insert(key, value)
  \/ InsertAndResize(key, value)
  \/ InsertButNotResize(key, value)

Next == \E key \in Keys, value \in Values : Set(key, value)

Spec == Init /\ [][Next]_vars

-----------------------------------------------------------------------------

IsPow2(n) == n = Pow2Size(n)

TypeOK ==
  /\ preallocate \in Nat \ {0} /\ IsPow2(preallocate)
  /\ size \in Nat /\ IsPow2(size)
  /\ buckets \in [0 .. size - 1 -> SUBSET [hash : Nat, key : Keys, value : Values]]
  /\ count \in Nat
  /\ result \in {0, -1}
  /\ starved \in BOOLEAN

\* sl_hashtable_set searches one bucket only: every node is in the bucket its
\* hash selects under the present size, also after resizes that failed.
PlacedByHash ==
  \A b \in DOMAIN buckets : \A node \in buckets[b] :
    /\ node.hash = Hash[node.key]
    /\ BucketOf(node.hash, size) = b

\* No key is in the table twice, so the response writes each header once.
KeysAreUnique ==
  \A m, n \in Nodes : m.key = n.key => m = n

\* The number resizing depends on is the number of nodes, whatever failed.
CountIsExact == count = Cardinality(Nodes)

\* The chains stay short: less than three quarters as many keys as buckets,
\* unless a resize has failed.
LoadIsBounded ==
  ~starved /\ size > 0 => count * 100 < MaxLoad * size

Map == [key \in {k \in Keys : Get(k) # Null} |-> Get(key)]

Abstract == INSTANCE StringMap WITH map <- Map

\* Seen through sl_hashtable_get, the table is a map.
ImplementsMap == Abstract!Spec

=============================================================================
