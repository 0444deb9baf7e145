--------------------------- MODULE MCClusterWrite ---------------------------
(* Instances of ClusterWrite for TLC.                                      *)
EXTENDS ClusterWrite, TLC

CONSTANTS n1, n2, s1

(* One shard with a replica on the writing node and one on the peer: the  *)
(* peer's answer decides ONE when the local write fails, and ALL needs it. *)
MCOwners == s1 :> {n1, n2}
=============================================================================
