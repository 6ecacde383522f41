----------------------------- MODULE MCPurging -----------------------------
(* Purging for TLC: replication factor R in a nodeset without failure      *)
(* domains.                                                                *)
EXTENDS Purging, TLC

CONSTANT R

MCCopySets == {c \in SUBSET Shards : Cardinality(c) = R}

ShardSymmetry == Permutations(Shards \ Busy)
=============================================================================
