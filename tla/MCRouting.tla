------------------------------ MODULE MCRouting ------------------------------
(* Routing for TLC. *)
EXTENDS Routing
CONSTANTS a, b, c
=============================================================================
