------------------------------ MODULE Allocator ------------------------------
(***************************************************************************)
(* What the users of an arena rely on: a region it hands out shares no     *)
(* octet with another one that is still in use, stays where it is, and     *)
(* lives until all are given up at once.                                   *)
(***************************************************************************)
EXTENDS Naturals

CONSTANT Regions  \* what may be handed out: [block, offset, size]

VARIABLE live

\* The octets of a region.
Octets(r) == {<<r.block, n>> : n \in r.offset .. r.offset + r.size - 1}

Disjoint(r, s) == Octets(r) \cap Octets(s) = {}

Init == live = {}

\* One region more.
HandOut ==
  \E r \in live' :
    /\ r \in Regions
    /\ \A s \in live : Disjoint(r, s)
    /\ live' = live \cup {r}

GiveUpAll == live' = {}

Next == HandOut \/ GiveUpAll

Spec == Init /\ [][Next]_live

=============================================================================
