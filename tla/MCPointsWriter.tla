--------------------------- MODULE MCPointsWriter ---------------------------
EXTENDS PointsWriter, TLC

CONSTANTS n1, n2, n3, s1, s2

(* One shard on the local node and two peers: QUORUM (2 of 3) differs     *)
(* from ONE and ALL, and the two peers are interchangeable.               *)
MCOwnersReplicated == s1 :> {n1, n2, n3}

(* One shard on the local node and a peer, for the lifecycle instance.   *)
MCOwnersPair == s1 :> {n1, n2}

(* A caller that may call Close on a writer it already closed.            *)
MCNextAnyClose == WriteStep \/ Close \/ Open

MCSpecAnyClose == Init /\ [][MCNextAnyClose]_vars
=============================================================================
