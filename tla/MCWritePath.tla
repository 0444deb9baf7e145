---------------------------- MODULE MCWritePath ----------------------------
(* Instances of WritePath for TLC.                                         *)
EXTENDS WritePath, TLC

CONSTANTS n1, n2, n3

(* Times 0..1 and one shard-group duration of 2 give the one group [0, 2) *)
(* with two shards: a batch fills one bucket, the other, or both.         *)
MCShards == {<<0, 2, k>> : k \in 0..1}

(* The first shard on the local node and a peer, the second on the local *)
(* node only: QUORUM of one owner is one, and of two is two.              *)
MCOwners == (<<0, 2, 0>> :> {n1, n2}) @@ (<<0, 2, 1>> :> {n1})
=============================================================================
