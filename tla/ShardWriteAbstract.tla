------------------------- MODULE ShardWriteAbstract -------------------------
(***************************************************************************)
(* What one WritePoints call promises, without goroutines or channels:    *)
(* replicas of each shard of the batch become durable (stored on an       *)
(* owner) or queued (hinted handoff) one at a time and never disappear;   *)
(* the call decides its outcome once, and may decide success only when    *)
(* every shard has enough acknowledged replicas for the consistency       *)
(* level (spec invariants 4 and 5).  Replicas may still land after the    *)
(* call has decided (writers are not cancelled).                          *)
(***************************************************************************)
EXTENDS Naturals, FiniteSets

CONSTANTS
    Nodes,
    Shards,
    Owners          \* Owners[s]: the owner nodes of shard s

Levels == {"any", "one", "quorum", "all"}
Failures == {"timeout", "partial", "failed", "writefailed"}
Undecided == "none"

VARIABLES
    level,          \* the consistency level of the call
    targets,        \* the shards of the batch
    durable,        \* <<shard, owner>> replicas holding the points
    queued,         \* <<shard, owner>> replicas queued in hinted handoff
    result          \* the call's outcome, once decided

avars == <<level, targets, durable, queued, result>>

Replicas == {<<s, o>> \in Shards \X Nodes : o \in Owners[s]}

(* The spec's required-ack predicate for shard s.                         *)
Acked(s) ==
    LET d == {o \in Owners[s] : <<s, o>> \in durable}
        q == {o \in Owners[s] : <<s, o>> \in queued}
    IN CASE level = "any"    -> d \cup q # {}
         [] level = "one"    -> d # {}
         [] level = "quorum" -> 2 * Cardinality(d) > Cardinality(Owners[s])
         [] level = "all"    -> d = Owners[s]

AInit ==
    /\ level \in Levels
    /\ targets \in SUBSET Shards \ {{}}
    /\ durable = {}
    /\ queued = {}
    /\ result = Undecided

Store(r) ==
    /\ r[1] \in targets
    /\ durable' = durable \cup {r}
    /\ UNCHANGED <<level, targets, queued, result>>

Queue(r) ==
    /\ r[1] \in targets
    /\ queued' = queued \cup {r}
    /\ UNCHANGED <<level, targets, durable, result>>

Succeed ==
    /\ result = Undecided
    /\ \A s \in targets : Acked(s)
    /\ result' = "ok"
    /\ UNCHANGED <<level, targets, durable, queued>>

Fail ==
    /\ result = Undecided
    /\ \E f \in Failures : result' = f
    /\ UNCHANGED <<level, targets, durable, queued>>

ANext == (\E r \in Replicas : Store(r) \/ Queue(r)) \/ Succeed \/ Fail

ASpec == AInit /\ [][ANext]_avars

=============================================================================
