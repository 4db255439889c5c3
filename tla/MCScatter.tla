----------------------------- MODULE MCScatter ------------------------------
(* Scatter on small instances. *)
EXTENDS Scatter
=============================================================================
