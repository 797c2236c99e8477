---------------------------- MODULE MCReplicator ----------------------------
(***************************************************************************)
(* Instances of Replicator with three nodes: the node is the primary of b1 *)
(* and a replica of b2.                                                    *)
(***************************************************************************)
EXTENDS Replicator

CONSTANTS b1, b2, p, q, self, w1, h1

MCRank == [b \in Blocks |->
              [n \in Nodes |-> CASE n = self -> IF b = b1 THEN 1 ELSE 2
                                 [] n = p -> IF b = b1 THEN 2 ELSE 1
                                 [] n = q -> 3]]
=============================================================================
