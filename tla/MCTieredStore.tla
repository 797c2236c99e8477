---------------------------- MODULE MCTieredStore ----------------------------
(***************************************************************************)
(* Instances of TieredStore: blocks of one byte, or one block larger than  *)
(* the DRAM tier.                                                          *)
(***************************************************************************)
EXTENDS TieredStore

CONSTANTS b1, b2, b3, c1, c2

MCSize == [b \in Ids |-> 1]
MCMixedSize == [b \in Ids |-> IF b = b1 THEN 2 ELSE 1]
=============================================================================
