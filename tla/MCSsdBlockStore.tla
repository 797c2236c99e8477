--------------------------- MODULE MCSsdBlockStore ---------------------------
(***************************************************************************)
(* Two slots, a block that fits the header's page, two that span pages,    *)
(* and one that is larger than a slot.                                     *)
(***************************************************************************)
EXTENDS SsdBlockStore, TLC

CONSTANTS small, large1, large2, oversize

MCSize == (small :> 1) @@ (large1 :> 2) @@ (large2 :> 3) @@ (oversize :> 4)
=============================================================================
