----------------------------- MODULE MCEventLoop -----------------------------
(***************************************************************************)
(* EventLoop on small instances.  Descriptors and peers are only told      *)
(* apart, so permuting them is a symmetry of the safety runs.              *)
(***************************************************************************)
EXTENDS EventLoop, TLC

Symmetry == Permutations(Fds) \cup Permutations(Clients)

=============================================================================
