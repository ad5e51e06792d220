------------------------------- MODULE MCCluster -------------------------------
(* ClusterRestore for TLC: two shards, of two replicas and of one.           *)
EXTENDS ClusterRestore, TLC

CONSTANTS r1, r2, r3

MCHost == {<<1, r1>>, <<1, r2>>, <<2, r3>>}

\* The two replicas of shard 1 can change places.
MCSymmetry == Permutations({r1, r2})
=============================================================================
