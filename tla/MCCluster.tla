------------------------------ MODULE MCCluster ------------------------------
(* Cluster for TLC: three nodes, the block's primary n1, its replica n2. *)
EXTENDS Cluster
CONSTANTS n1, n2, n3, b1
MCRank == [b \in {b1} |-> [n \in {n1, n2, n3} |-> CASE n = n1 -> 1 [] n = n2 -> 2 [] n = n3 -> 3]]
=============================================================================
