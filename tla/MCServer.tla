------------------------------ MODULE MCServer ------------------------------
(***************************************************************************)
(* Server on a small instance: each worker has one slot and a descriptor   *)
(* to spare.                                                               *)
(***************************************************************************)
EXTENDS Server, TLC

Symmetry == Permutations(Fds) \cup Permutations(Clients)

=============================================================================
