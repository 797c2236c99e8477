---------------------------- MODULE MCSsdHostCrash ----------------------------
(***************************************************************************)
(* Two slots, one block inside the header's page and one that spans pages. *)
(***************************************************************************)
EXTENDS SsdHostCrash, TLC

CONSTANTS small, large

MCSize == (small :> 1) @@ (large :> 2)
=============================================================================
