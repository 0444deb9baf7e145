------------------------- MODULE MCClusterService --------------------------
(* Instances of ClusterService for TLC.                                    *)
EXTENDS ClusterService, TLC

CONSTANTS c1, c2, sh1

\* a request of each kind, with the ReadLV and DecodeLV outcomes that
\* change what the handler does
MCAllReqs ==
    {[type |-> "write", shard |-> sh1, dbrp |-> TRUE, frame |-> "ok"],
     [type |-> "write", shard |-> sh1, dbrp |-> TRUE, frame |-> "badlv"],
     [type |-> "exec", shard |-> sh1, dbrp |-> TRUE, frame |-> "ok"],
     [type |-> "iter", shard |-> sh1, dbrp |-> TRUE, frame |-> "ok"],
     [type |-> "iter", shard |-> sh1, dbrp |-> TRUE, frame |-> "baddecode"],
     [type |-> "fields", shard |-> sh1, dbrp |-> TRUE, frame |-> "ok"]}

\* every request kind and outcome the handlers tell apart, the writes also
\* without a database and retention policy and with a payload that does
\* not decode
MCServiceReqs ==
    MCAllReqs \cup
    {[type |-> "write", shard |-> sh1, dbrp |-> FALSE, frame |-> "ok"],
     [type |-> "write", shard |-> sh1, dbrp |-> TRUE, frame |-> "baddecode"]}

=============================================================================
