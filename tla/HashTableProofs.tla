--------------------------- MODULE HashTableProofs ---------------------------
(***************************************************************************)
(* Proofs about HashTable for all keys and values, every hash function and *)
(* every preallocated size that is not rounded to zero.  That a size is a  *)
(* power of two makes "hash & (size - 1)" a remainder and is used for      *)
(* nothing else.                                                           *)
(*                                                                         *)
(* All calls do one of two things to the set of nodes: they add one with a *)
(* key that was not there, or give the node of a key another value.  What  *)
(* resizing does to the chains cannot be seen in the set.                  *)
(***************************************************************************)
EXTENDS HashTable, FiniteSetTheorems, TLAPS

NodeType == [hash : Nat, key : Keys, value : Values]

\* PlacedByHash of any array.
Placed(chains, n) ==
  /\ n \in Nat /\ chains \in [0 .. n - 1 -> SUBSET NodeType]
  /\ \A b \in 0 .. n - 1 : \A node \in chains[b] :
       node.hash = Hash[node.key] /\ BucketOf(node.hash, n) = b

\* A hash selects a bucket of the array.
LEMMA BucketExists ==
  ASSUME NEW h \in Nat, NEW n \in Nat \ {0}
  PROVE  BucketOf(h, n) \in 0 .. n - 1
BY DEF BucketOf

\* The nodes of an array are those of its buckets.
LEMMA NodesAre ==
  ASSUME NEW chains, NEW n, Placed(chains, n)
  PROVE  /\ NodesOf(chains) \subseteq NodeType
         /\ \A node : node \in NodesOf(chains) <=>
              \E b \in 0 .. n - 1 : node \in chains[b]
BY DEF Placed, NodesOf

\* A new node keeps the hash of its key.
LEMMA NodeHasType ==
  ASSUME NEW key \in Keys, NEW value \in Values
  PROVE  /\ Node(key, value) \in NodeType
         /\ Node(key, value).hash = Hash[key]
         /\ Node(key, value).key = key /\ Node(key, value).value = value
         /\ Hash[key] \in Nat
BY HashAssumption DEF Node, NodeType

\* The inductive invariant.
Shape ==
  /\ preallocate \in Nat \ {0}
  /\ Placed(buckets, size)
  /\ result \in {0, -1}

Contents ==
  /\ KeysAreUnique
  /\ IsFiniteSet(Nodes) /\ count = Cardinality(Nodes)

IInv == Shape /\ Contents

\* The first array is placed, and has the nodes there were: none.
LEMMA ReadyIsPlaced ==
  ASSUME Shape
  PROVE  /\ ReadySize \in Nat \ {0}
         /\ Placed(Ready, ReadySize)
         /\ NodesOf(Ready) = Nodes
<1>1. ReadySize \in Nat \ {0}
  BY DEF ReadySize, Shape, Placed
<1>2. CASE size = 0
  <2>1. Ready = [b \in 0 .. preallocate - 1 |-> {}] /\ ReadySize = preallocate
    BY <1>2 DEF Ready, ReadySize
  <2>2. Placed(Ready, ReadySize)
    BY <1>1, <2>1 DEF Placed
  <2>3. NodesOf(Ready) = {}
    BY <2>1 DEF NodesOf
  <2>4. 0 .. size - 1 = {}
    BY <1>2
  <2>5. Nodes = {}
    BY <2>4 DEF Nodes, NodesOf, Shape, Placed
  <2> QED
    BY <1>1, <2>2, <2>3, <2>5
<1>3. CASE size # 0
  BY <1>1, <1>3 DEF Ready, ReadySize, Nodes, Shape
<1> QED
  BY <1>2, <1>3

\* The bucket a key is searched in.
LEMMA HomeExists ==
  ASSUME Shape, NEW key \in Keys
  PROVE  Home(key) \in 0 .. ReadySize - 1
BY ReadyIsPlaced, HashAssumption, BucketExists DEF Home

\* To search one bucket is enough.
LEMMA SearchIsComplete ==
  ASSUME Shape, NEW key \in Keys
  PROVE  /\ IsThere(key) <=> \E node \in Nodes : node.key = key
         /\ \A node \in Nodes : IsKey(node, key) <=> node.key = key
<1>1. \A node \in Nodes : IsKey(node, key) <=> node.key = key
  <2> SUFFICES ASSUME NEW node \in Nodes, node.key = key
               PROVE  node.hash = Hash[key]
    BY DEF IsKey
  <2>1. PICK b \in 0 .. size - 1 : node \in buckets[b]
    BY NodesAre DEF Shape, Nodes
  <2> QED
    BY <2>1 DEF Shape, Placed
<1>2. ASSUME IsThere(key)
      PROVE  \E node \in Nodes : node.key = key
  BY <1>2, ReadyIsPlaced, HomeExists, NodesAre DEF IsThere, IsKey
<1>3. ASSUME NEW node \in Nodes, node.key = key
      PROVE  IsThere(key)
  <2>1. PICK b \in 0 .. ReadySize - 1 : node \in Ready[b]
    BY ReadyIsPlaced, NodesAre
  <2>2. b = Home(key)
    BY <1>3, <2>1, ReadyIsPlaced DEF Placed, Home
  <2> QED
    BY <1>1, <1>3, <2>1, <2>2 DEF IsThere
<1> QED
  BY <1>1, <1>2, <1>3

\* A node is inserted in the bucket of its hash.
LEMMA InsertedIsPlaced ==
  ASSUME Shape, NEW key \in Keys, NEW value \in Values
  PROVE  /\ Placed(Inserted(key, value), ReadySize)
         /\ NodesOf(Inserted(key, value)) = Nodes \cup {Node(key, value)}
<1>1. /\ ReadySize \in Nat /\ Ready \in [0 .. ReadySize - 1 -> SUBSET NodeType]
      /\ Home(key) \in 0 .. ReadySize - 1
      /\ Node(key, value) \in NodeType
      /\ NodesOf(Ready) = Nodes
  BY ReadyIsPlaced, HomeExists, NodeHasType DEF Placed
<1>2. /\ Inserted(key, value) \in [0 .. ReadySize - 1 -> SUBSET NodeType]
      /\ \A b \in 0 .. ReadySize - 1 :
           Inserted(key, value)[b] =
             IF b = Home(key) THEN Ready[b] \cup {Node(key, value)} ELSE Ready[b]
  BY <1>1 DEF Inserted
<1>3. Placed(Inserted(key, value), ReadySize)
  BY <1>1, <1>2, ReadyIsPlaced, NodeHasType DEF Placed, Home
<1>4. NodesOf(Inserted(key, value)) = NodesOf(Ready) \cup {Node(key, value)}
  BY <1>1, <1>2 DEF NodesOf
<1> QED
  BY <1>1, <1>3, <1>4

\* sl_hashtable_resize puts every node in the bucket of its hash in the new size
\* and loses none.
LEMMA RehashedIsPlaced ==
  ASSUME NEW nodes \in SUBSET NodeType, NEW n \in Nat \ {0},
         \A node \in nodes : node.hash = Hash[node.key]
  PROVE  /\ Placed(Rehashed(nodes, n), n)
         /\ NodesOf(Rehashed(nodes, n)) = nodes
<1>1. Placed(Rehashed(nodes, n), n)
  BY DEF Placed, Rehashed
<1>2. \A node \in nodes : BucketOf(node.hash, n) \in 0 .. n - 1
  BY BucketExists DEF NodeType
<1>3. NodesOf(Rehashed(nodes, n)) = nodes
  BY <1>2 DEF NodesOf, Rehashed
<1> QED
  BY <1>1, <1>3

-----------------------------------------------------------------------------
(***************************************************************************)
(* The two things a call does to the nodes, and that they keep Contents.   *)
(***************************************************************************)

Adds(key, value) ==
  /\ \A node \in Nodes : node.key # key
  /\ Nodes' = Nodes \cup {Node(key, value)}
  /\ count' = count + 1

Changes(key, value) ==
  /\ \E old \in Nodes :
       old.key = key /\ Nodes' = (Nodes \ {old}) \cup {Node(key, value)}
  /\ count' = count

\* Adding a key that is nowhere keeps keys unique and the count exact.
LEMMA AddsKeepsContents ==
  ASSUME Contents, NEW key \in Keys, NEW value \in Values, Adds(key, value)
  PROVE  Contents'
<1>1. Node(key, value) \notin Nodes /\ Node(key, value).key = key
  BY NodeHasType DEF Adds
<1>2. KeysAreUnique'
  BY <1>1 DEF Adds, Contents, KeysAreUnique
<1>3. IsFiniteSet(Nodes') /\ Cardinality(Nodes') = Cardinality(Nodes) + 1
  BY <1>1, FS_AddElement DEF Adds, Contents
<1> QED
  BY <1>2, <1>3 DEF Adds, Contents

\* So does replacing the value of a key that is there.
LEMMA ChangesKeepsContents ==
  ASSUME Contents, NEW key \in Keys, NEW value \in Values, Changes(key, value)
  PROVE  Contents'
<1>1. PICK old \in Nodes :
        old.key = key /\ Nodes' = (Nodes \ {old}) \cup {Node(key, value)}
  BY DEF Changes
<1>2. Node(key, value).key = key
  BY NodeHasType
<1>3. \A node \in Nodes \ {old} : node.key # key
  BY <1>1 DEF Contents, KeysAreUnique
<1>4. KeysAreUnique'
  BY <1>1, <1>2, <1>3 DEF Contents, KeysAreUnique
<1>5. /\ IsFiniteSet(Nodes \ {old})
      /\ Cardinality(Nodes \ {old}) = Cardinality(Nodes) - 1
  BY <1>1, FS_RemoveElement DEF Contents
<1>6. /\ IsFiniteSet(Nodes')
      /\ Cardinality(Nodes') = Cardinality(Nodes \ {old}) + 1
  BY <1>1, <1>2, <1>3, <1>5, FS_AddElement
<1>7. Cardinality(Nodes) \in Nat
  BY FS_CardinalityType DEF Contents
<1> QED
  BY <1>4, <1>5, <1>6, <1>7 DEF Changes, Contents

\* What each outcome of a call is.
Effect(key, value) ==
  \/ Nodes' = Nodes /\ count' = count /\ result' = -1
       /\ \A node \in Nodes : node.key # key
  \/ Adds(key, value) /\ result' \in {0, -1}
  \/ Changes(key, value) /\ result' = 0

\* sl_hashtable_set, whatever of it fails, adds a key, replaces a value or does
\* nothing.
LEMMA SetHasEffect ==
  ASSUME Shape, NEW key \in Keys, NEW value \in Values, Set(key, value)
  PROVE  Shape' /\ Effect(key, value)
<1> DEFINE Fresh == \A node \in Nodes : node.key # key
<1>0. ~IsThere(key) => Fresh
  BY SearchIsComplete
<1>1. CASE NoArray
  <2>1. UNCHANGED <<preallocate, size, buckets, count>> /\ result' = -1 /\ size = 0
    BY <1>1 DEF NoArray
  <2>2. Nodes = {}
    <3>1. 0 .. size - 1 = {}
      BY <2>1
    <3> QED
      BY <3>1 DEF Nodes, NodesOf, Shape, Placed
  <2> QED
    BY <2>1, <2>2 DEF Shape, Placed, Effect, Nodes
<1>2. CASE Replace(key, value)
  <2>1. PICK old \in {node \in Ready[Home(key)] : IsKey(node, key)} :
          buckets' = [buckets EXCEPT ![Home(key)] =
                        (@ \ {old})
                          \cup {[hash |-> old.hash, key |-> key, value |-> value]}]
    BY <1>2 DEF Replace
  <2>2. size # 0
    <3> SUFFICES ASSUME size = 0
                 PROVE  FALSE
      OBVIOUS
    <3>1. Ready[Home(key)] = {}
      BY HomeExists DEF Ready, ReadySize
    <3> QED
      BY <2>1, <3>1
  <2>3. Ready = buckets /\ ReadySize = size
    BY <2>2 DEF Ready, ReadySize
  <2>4. /\ old \in NodeType /\ old \in buckets[Home(key)] /\ old.key = key
        /\ old.hash = Hash[key] /\ Home(key) \in 0 .. size - 1
    BY <2>1, <2>3, HomeExists DEF Shape, Placed, IsKey
  <2>5. [hash |-> old.hash, key |-> key, value |-> value] = Node(key, value)
    BY <2>4 DEF Node
  <2>6. /\ buckets' \in [0 .. size - 1 -> SUBSET NodeType]
        /\ \A b \in 0 .. size - 1 :
             buckets'[b] = IF b = Home(key)
                           THEN (buckets[b] \ {old}) \cup {Node(key, value)}
                           ELSE buckets[b]
    <3>1. buckets' = [buckets EXCEPT ![Home(key)] =
                        (buckets[Home(key)] \ {old}) \cup {Node(key, value)}]
      BY <2>1, <2>5
    <3>2. /\ buckets \in [0 .. size - 1 -> SUBSET NodeType]
          /\ Node(key, value) \in NodeType
      BY NodeHasType DEF Shape, Placed
    <3> QED
      BY <2>4, <3>1, <3>2
  <2>7. UNCHANGED <<preallocate, size, count>> /\ result' = 0
    BY <1>2 DEF Replace
  <2>8. Shape'
    BY <2>3, <2>6, <2>7, NodeHasType DEF Shape, Placed, Home
  <2>9. Nodes' = (Nodes \ {old}) \cup {Node(key, value)}
    <3>1. \A b \in 0 .. size - 1 : b # Home(key) => old \notin buckets[b]
      BY <2>3, <2>4 DEF Shape, Placed, Home
    <3>2. DOMAIN buckets = 0 .. size - 1 /\ DOMAIN buckets' = 0 .. size - 1
      BY <2>6 DEF Shape, Placed
    <3> QED
      BY <2>4, <2>6, <3>1, <3>2 DEF Nodes, NodesOf
  <2>10. old \in Nodes
    BY <2>4, NodesAre DEF Nodes, Shape
  <2> QED
    BY <2>4, <2>7, <2>8, <2>9, <2>10 DEF Effect, Changes
<1>3. CASE NoNode(key)
  <2>1. /\ size' = ReadySize /\ buckets' = Ready /\ result' = -1
        /\ preallocate' = preallocate /\ count' = count /\ Fresh
    BY <1>0, <1>3 DEF NoNode
  <2>2. Nodes' = Nodes
    BY <2>1, ReadyIsPlaced DEF Nodes, NodesOf
  <2> QED
    BY <2>1, <2>2, ReadyIsPlaced DEF Shape, Placed, Effect
<1>4. CASE Insert(key, value) \/ InsertButNotResize(key, value)
  <2>1. /\ size' = ReadySize /\ buckets' = Inserted(key, value)
        /\ result' \in {0, -1} /\ preallocate' = preallocate
        /\ count' = count + 1 /\ Fresh
    BY <1>0, <1>4 DEF Insert, InsertButNotResize
  <2>2. Nodes' = Nodes \cup {Node(key, value)}
    BY <2>1, InsertedIsPlaced DEF Nodes, NodesOf
  <2> QED
    BY <2>1, <2>2, InsertedIsPlaced DEF Shape, Placed, Effect, Adds
<1>5. CASE InsertAndResize(key, value)
  <2> DEFINE nodes == Nodes \cup {Node(key, value)}
  <2>1. /\ size' = 2 * ReadySize /\ buckets' = Rehashed(nodes, 2 * ReadySize)
        /\ result' = 0 /\ preallocate' = preallocate
        /\ count' = count + 1 /\ Fresh
    BY <1>0, <1>5, InsertedIsPlaced DEF InsertAndResize
  <2>2. 2 * ReadySize \in Nat \ {0}
    BY ReadyIsPlaced
  <2>3. nodes \in SUBSET NodeType /\ \A node \in nodes : node.hash = Hash[node.key]
    <3>1. nodes = NodesOf(Inserted(key, value))
      BY InsertedIsPlaced
    <3> QED
      BY <3>1, InsertedIsPlaced, NodesAre DEF Placed
  <2>4. Placed(Rehashed(nodes, 2 * ReadySize), 2 * ReadySize)
        /\ NodesOf(Rehashed(nodes, 2 * ReadySize)) = nodes
    BY <2>2, <2>3, RehashedIsPlaced
  <2>5. Nodes' = nodes
    BY <2>1, <2>4 DEF Nodes, NodesOf
  <2>6. Shape'
    BY <2>1, <2>4 DEF Shape, Placed
  <2> QED
    BY <2>1, <2>5, <2>6 DEF Effect, Adds
<1> QED
  BY <1>1, <1>2, <1>3, <1>4, <1>5 DEF Set

\* The same for every step.
LEMMA StepHasEffect ==
  ASSUME Shape, [Next]_vars
  PROVE  /\ Shape'
         /\ \/ \E key \in Keys, value \in Values : Set(key, value) /\ Effect(key, value)
            \/ UNCHANGED vars /\ Nodes' = Nodes
<1>1. CASE UNCHANGED vars
  BY <1>1 DEF vars, Shape, Placed, Nodes, NodesOf
<1>2. CASE Next
  BY <1>2, SetHasEffect DEF Next
<1> QED
  BY <1>1, <1>2

-----------------------------------------------------------------------------

\* The empty table.
LEMMA InvInit == Init => IInv
<1> SUFFICES ASSUME Init
             PROVE  IInv
  OBVIOUS
<1>1. preallocate \in Nat \ {0}
  BY PreallocateAssumption DEF Init, Rounded
<1>2. size = 0 /\ buckets = <<>> /\ 0 .. size - 1 = {} /\ result \in {0, -1}
  BY DEF Init
<1>3. Placed(buckets, size)
  BY <1>2 DEF Placed
<1>4. Nodes = {}
  BY <1>2 DEF Nodes, NodesOf
<1>5. IsFiniteSet({}) /\ Cardinality({}) = 0
  BY FS_EmptySet
<1> QED
  BY <1>1, <1>2, <1>3, <1>4, <1>5 DEF Init, IInv, Shape, Contents, KeysAreUnique

\* IInv is inductive.
LEMMA InvStep == IInv /\ [Next]_vars => IInv'
<1> SUFFICES ASSUME IInv, [Next]_vars
             PROVE  IInv'
  OBVIOUS
<1>1. Shape'
  BY StepHasEffect DEF IInv
<1>2. ASSUME NEW key \in Keys, NEW value \in Values, Effect(key, value)
      PROVE  Contents'
  <2>1. CASE Nodes' = Nodes /\ count' = count
    BY <2>1 DEF IInv, Contents, KeysAreUnique
  <2> QED
    BY <1>2, <2>1, AddsKeepsContents, ChangesKeepsContents DEF Effect, IInv
<1>3. ASSUME UNCHANGED vars, Nodes' = Nodes
      PROVE  Contents'
  BY <1>3 DEF vars, IInv, Contents, KeysAreUnique
<1> QED
  BY <1>1, <1>2, <1>3, StepHasEffect DEF IInv

\* In every table sl_hashtable_set can make, each node is in the bucket of its
\* hash, no key is there twice and the count is the number of nodes.
THEOREM Invariance == Spec => []IInv
BY InvInit, InvStep, PTL DEF Spec

\* Every node is in the bucket its hash selects, through all resizes.
THEOREM NodesInPlace == Spec => []PlacedByHash
<1>1. IInv => PlacedByHash
  BY DEF IInv, Shape, Placed, PlacedByHash
<1> QED
  BY <1>1, Invariance, PTL

\* No key is in the table twice.
THEOREM UniqueKeys == Spec => []KeysAreUnique
<1>1. IInv => KeysAreUnique
  BY DEF IInv, Contents
<1> QED
  BY <1>1, Invariance, PTL

\* The counter is the number of nodes, although calls fail half-way.
THEOREM ExactCount == Spec => []CountIsExact
<1>1. IInv => CountIsExact
  BY DEF IInv, Contents, CountIsExact
<1> QED
  BY <1>1, Invariance, PTL

-----------------------------------------------------------------------------
(***************************************************************************)
(* The load of the table.                                                  *)
(***************************************************************************)

\* The load of the table is a quotient of integers.
LEMMA QuotientIsBelow ==
  ASSUME NEW x \in Nat, NEW n \in Nat \ {0}, NEW m \in Nat, x \div n < m
  PROVE  x < m * n
<1>1. x < n * (x \div n) + n
  OBVIOUS
<1>2. x < n * m
  BY <1>1
<1> QED
  BY <1>2

\* Less than three quarters as many keys as buckets, from the first key on.
LoadInv == ~starved => count * 100 < MaxLoad * ReadySize

\* The chains stay short: a table that was never short of memory is resized in
\* time.
THEOREM BoundedLoad == Spec => []LoadIsBounded
<1>1. Init => LoadInv
  <2> SUFFICES ASSUME Init
               PROVE  count * 100 < MaxLoad * ReadySize
    BY DEF LoadInv
  <2>1. preallocate \in Nat \ {0} /\ count = 0 /\ ReadySize = preallocate
    BY PreallocateAssumption DEF Init, Rounded, ReadySize
  <2> QED
    BY <2>1 DEF MaxLoad
<1>2. IInv /\ LoadInv /\ [Next]_vars => LoadInv'
  <2> SUFFICES ASSUME IInv, LoadInv, [Next]_vars, ~starved'
               PROVE  count' * 100 < MaxLoad * ReadySize'
    BY DEF LoadInv
  <2>1. ReadySize \in Nat \ {0} /\ count \in Nat /\ MaxLoad = 75
    BY ReadyIsPlaced, FS_CardinalityType DEF IInv, Contents, MaxLoad
  <2>2. ASSUME ~starved, count' = count, ReadySize' = ReadySize
        PROVE  count' * 100 < MaxLoad * ReadySize'
    BY <2>2 DEF LoadInv
  <2>3. ASSUME NEW key \in Keys, NEW value \in Values, Set(key, value)
        PROVE  count' * 100 < MaxLoad * ReadySize'
    <3>1. CASE NoArray \/ Replace(key, value) \/ NoNode(key)
      <4>1. /\ starved' = starved /\ count' = count
            /\ preallocate' = preallocate /\ size' \in {size, ReadySize}
        BY <3>1 DEF NoArray, Replace, NoNode
      <4> QED
        BY <2>1, <2>2, <4>1 DEF ReadySize
    <3>2. CASE Insert(key, value)
      <4>1. ~NeedsResize(count + 1) /\ count' = count + 1 /\ size' = ReadySize
        BY <3>2 DEF Insert
      <4>2. ReadySize' = ReadySize
        BY <2>1, <4>1 DEF ReadySize
      <4>3. ((count + 1) * 100) \div ReadySize < MaxLoad
        BY <2>1, <4>1 DEF NeedsResize
      <4> QED
        BY <2>1, <4>1, <4>2, <4>3, QuotientIsBelow
    <3>3. CASE InsertAndResize(key, value)
      <4>1. count' = count + 1 /\ size' = 2 * ReadySize /\ starved' = starved
        BY <3>3 DEF InsertAndResize
      <4>2. ReadySize' = 2 * ReadySize
        BY <2>1, <4>1 DEF ReadySize
      <4>3. count * 100 < 75 * ReadySize
        BY <2>1, <4>1 DEF LoadInv
      <4> QED
        BY <2>1, <4>1, <4>2, <4>3
    <3>4. CASE InsertButNotResize(key, value)
      BY <3>4 DEF InsertButNotResize
    <3> QED
      BY <2>3, <3>1, <3>2, <3>3, <3>4 DEF Set
  <2>4. CASE UNCHANGED vars
    BY <2>2, <2>4 DEF vars, ReadySize
  <2> QED
    BY <2>3, <2>4 DEF Next
<1>3. LoadInv => LoadIsBounded
  BY DEF LoadInv, LoadIsBounded, ReadySize
<1> QED
  BY <1>1, <1>2, <1>3, Invariance, PTL DEF Spec

-----------------------------------------------------------------------------
(***************************************************************************)
(* The table is a map.  GetIn and MapOf are Get and Map as functions of    *)
(* the set of nodes.                                                       *)
(***************************************************************************)

GetIn(nodes, key) ==
  LET found == {node \in nodes : IsKey(node, key)}
  IN  IF found = {} THEN Null ELSE (CHOOSE node \in found : TRUE).value

MapOf(nodes) ==
  [key \in {k \in Keys : GetIn(nodes, k) # Null} |-> GetIn(nodes, key)]

\* What the invariant says of the nodes.
Good(nodes) ==
  /\ nodes \in SUBSET NodeType
  /\ \A node \in nodes : node.hash = Hash[node.key]
  /\ \A m, n \in nodes : m.key = n.key => m = n

KeysIn(nodes) == {node.key : node \in nodes}

\* The map a set of nodes stands for, when no key is in it twice.
LEMMA MapOfNodes ==
  ASSUME NEW nodes, Good(nodes)
  PROVE  /\ DOMAIN MapOf(nodes) = KeysIn(nodes)
         /\ \A node \in nodes : MapOf(nodes)[node.key] = node.value
<1>1. ASSUME NEW node \in nodes
      PROVE  node.key \in Keys /\ GetIn(nodes, node.key) = node.value
             /\ node.value # Null
  <2>1. {n \in nodes : IsKey(n, node.key)} = {node}
    BY DEF Good, IsKey
  <2>2. (CHOOSE n \in {node} : TRUE) = node
    OBVIOUS
  <2>3. node.key \in Keys /\ node.value \in Values
    BY DEF Good, NodeType
  <2> QED
    BY <2>1, <2>2, <2>3, NullAssumption DEF GetIn
<1>2. ASSUME NEW key \in Keys \ KeysIn(nodes)
      PROVE  GetIn(nodes, key) = Null
  <2>1. {n \in nodes : IsKey(n, key)} = {}
    BY DEF IsKey, KeysIn
  <2> QED
    BY <2>1 DEF GetIn
<1>3. KeysIn(nodes) \subseteq Keys
  BY <1>1 DEF KeysIn
<1>4. {k \in Keys : GetIn(nodes, k) # Null} = KeysIn(nodes)
  BY <1>1, <1>2, <1>3 DEF KeysIn
<1> QED
  BY <1>1, <1>4 DEF MapOf, KeysIn

\* Two sets of nodes where one has another value for one key.
LEMMA MapOfOther ==
  ASSUME NEW nodes, NEW others, Good(nodes), Good(others),
         NEW key \in Keys, NEW value \in Values,
         Node(key, value) \in others,
         \A node : node.key # key => (node \in nodes <=> node \in others)
  PROVE  MapOf(others) = [k \in DOMAIN MapOf(nodes) \cup {key} |->
                            IF k = key THEN value ELSE MapOf(nodes)[k]]
<1>1. Node(key, value).key = key /\ Node(key, value).value = value
  BY NodeHasType
<1>2. KeysIn(others) = KeysIn(nodes) \cup {key}
  BY <1>1 DEF KeysIn
<1>3. MapOf(others)[key] = value
  BY <1>1, MapOfNodes
<1>4. ASSUME NEW k \in KeysIn(nodes), k # key
      PROVE  MapOf(others)[k] = MapOf(nodes)[k]
  <2>1. PICK node \in nodes : node.key = k
    BY DEF KeysIn
  <2> QED
    BY <1>4, <2>1, MapOfNodes
<1>5. MapOf(others) = [k \in KeysIn(others) |-> MapOf(others)[k]]
  BY MapOfNodes DEF MapOf
<1> QED
  BY <1>2, <1>3, <1>4, <1>5, MapOfNodes

\* The nodes of the table are such a set.
LEMMA NodesAreGood ==
  ASSUME NEW chains, NEW n, Placed(chains, n),
         \A k, m \in NodesOf(chains) : k.key = m.key => k = m
  PROVE  Good(NodesOf(chains))
BY NodesAre DEF Good, Placed

\* Seen through sl_hashtable_get the table is a map, with collisions, resizes
\* and failures.
THEOREM Refinement == Spec => ImplementsMap
<1>1. Init => Abstract!Init
  <2> SUFFICES ASSUME Init
               PROVE  Map = <<>>
    BY DEF Init, Abstract!Init
  <2>1. Nodes = {}
    BY DEF Init, Nodes, NodesOf
  <2>2. \A key \in Keys : Get(key) = Null
    BY <2>1 DEF Get
  <2>3. DOMAIN Map = {}
    BY <2>2 DEF Map
  <2> QED
    BY <2>3 DEF Map
<1>2. IInv /\ IInv' /\ [Next]_vars => [Abstract!Next]_Abstract!vars
  <2> SUFFICES ASSUME IInv, IInv', [Next]_vars
               PROVE  [Abstract!Next]_Abstract!vars
    OBVIOUS
  <2>1. Good(Nodes) /\ Good(Nodes')
    BY NodesAreGood DEF IInv, Shape, Contents, KeysAreUnique, Nodes
  <2>2. Map = MapOf(Nodes) /\ Map' = MapOf(Nodes')
    BY DEF Map, Get, MapOf, GetIn
  <2>3. DOMAIN Map = KeysIn(Nodes)
    BY <2>1, <2>2, MapOfNodes
  <2>4. ASSUME NEW key \in Keys, NEW value \in Values, Effect(key, value)
        PROVE  Abstract!Next
    <3> DEFINE stored == [k \in DOMAIN Map \cup {key} |->
                            IF k = key THEN value ELSE Map[k]]
    <3>1. CASE /\ Nodes' = Nodes /\ count' = count /\ result' = -1
               /\ \A node \in Nodes : node.key # key
      <4>1. key \notin DOMAIN Map /\ Map' = Map
        BY <2>2, <2>3, <3>1 DEF KeysIn
      <4> QED
        BY <3>1, <4>1 DEF Abstract!Next, Abstract!Refuse
    <3>2. CASE Adds(key, value) /\ result' \in {0, -1}
      <4>1. key \notin DOMAIN Map
        BY <2>3, <3>2 DEF Adds, KeysIn
      <4>2. Map' = stored
        <5>1. Node(key, value).key = key /\ Node(key, value) \in Nodes'
          BY <3>2, NodeHasType DEF Adds
        <5>2. \A node : node.key # key => (node \in Nodes <=> node \in Nodes')
          BY <3>2, <5>1 DEF Adds
        <5> QED
          BY <2>1, <2>2, <5>1, <5>2, MapOfOther
      <4> QED
        BY <3>2, <4>1, <4>2 DEF Abstract!Next, Abstract!Add, Abstract!Stored
    <3>3. CASE Changes(key, value) /\ result' = 0
      <4>1. PICK old \in Nodes :
              old.key = key /\ Nodes' = (Nodes \ {old}) \cup {Node(key, value)}
        BY <3>3 DEF Changes
      <4>2. key \in DOMAIN Map
        BY <2>3, <4>1 DEF KeysIn
      <4>3. Map' = stored
        <5>1. Node(key, value).key = key /\ Node(key, value) \in Nodes'
          BY <4>1, NodeHasType
        <5>2. \A node : node.key # key => (node \in Nodes <=> node \in Nodes')
          BY <4>1, <5>1
        <5> QED
          BY <2>1, <2>2, <5>1, <5>2, MapOfOther, SMTT(60)
      <4> QED
        BY <3>3, <4>2, <4>3 DEF Abstract!Next, Abstract!Change, Abstract!Stored
    <3> QED
      BY <2>4, <3>1, <3>2, <3>3 DEF Effect
  <2>5. CASE UNCHANGED vars /\ Nodes' = Nodes
    BY <2>2, <2>5 DEF vars, Abstract!vars
  <2> QED
    BY <2>4, <2>5, StepHasEffect DEF IInv
<1> QED
  BY <1>1, <1>2, Invariance, PTL DEF Spec, ImplementsMap, Abstract!Spec

=============================================================================
