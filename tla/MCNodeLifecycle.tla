--------------------------- MODULE MCNodeLifecycle ---------------------------
(* NodeLifecycle for TLC. *)
EXTENDS NodeLifecycle
CONSTANTS w1, w2
=============================================================================
