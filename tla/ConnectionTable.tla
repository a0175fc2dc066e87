--------------------------- MODULE ConnectionTable ---------------------------
(***************************************************************************)
(* What a worker promises about its connections, whatever slot each one    *)
(* sits in: a table from open descriptors to the peer the worker believes  *)
(* to be at the other end.  A step adds one entry, removes one entry or,   *)
(* as the worker ends, removes them all; no step ever changes or moves the *)
(* entry of another descriptor, two entries never name one peer, and the   *)
(* table has a capacity.                                                   *)
(***************************************************************************)
EXTENDS Naturals, FiniteSets

CONSTANTS Capacity, Fds, Clients, NoClient

VARIABLE table

Entries == {f \in Fds : table[f] # NoClient}

Init == table = [f \in Fds |-> NoClient]

Register(f, c) ==
  /\ f \notin Entries
  /\ \A g \in Fds : table[g] # c
  /\ Cardinality(Entries) < Capacity
  /\ table' = [table EXCEPT ![f] = c]

Unregister(f) ==
  /\ f \in Entries
  /\ table' = [table EXCEPT ![f] = NoClient]

Clear == table' = [f \in Fds |-> NoClient]

Next ==
  \/ \E f \in Fds : Unregister(f) \/ \E c \in Clients : Register(f, c)
  \/ Clear

Spec == Init /\ [][Next]_table

=============================================================================
