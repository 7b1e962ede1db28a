------------------------------ MODULE MCFdCache ------------------------------
(* Instances of FdCache for TLC. *)
EXTENDS FdCache

CONSTANTS a, b, w1, w2
=============================================================================
