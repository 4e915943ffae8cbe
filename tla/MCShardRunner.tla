--------------------------- MODULE MCShardRunner ---------------------------
(* Instances of ShardRunner for TLC.                                       *)
EXTENDS ShardRunner, TLC

\* Shard 0 has two datasets, shard 1 has one; step 2 finds no shard.
CONSTANTS d1, d2, d4
MCShardOf == (d1 :> 0) @@ (d2 :> 0) @@ (d4 :> 1)
MCRank == (d1 :> 1) @@ (d2 :> 2) @@ (d4 :> 1)
=============================================================================
