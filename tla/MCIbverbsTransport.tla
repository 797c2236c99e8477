------------------------- MODULE MCIbverbsTransport -------------------------
(* IbverbsTransport for TLC. *)
EXTENDS IbverbsTransport
CONSTANTS w1, w2
=============================================================================
