----------------------------- MODULE MCSockets ------------------------------
(* Sockets on small instances. *)
EXTENDS Sockets, TLC

\* Neither threads nor objects have an order; descriptors do.
Symmetry == Permutations(Threads) \cup Permutations(Socks)
=============================================================================
