----------------------------- MODULE WritePath -----------------------------
(***************************************************************************)
(* One PointsWriter.WritePoints call from its points to its answer: the   *)
(* retention-policy lookup and MapShards (MapShards.tla) bucket the batch *)
(* by shard, and the fan-out (PointsWriter.tla) then writes every bucket  *)
(* the mapping holds, with `mapped` taken from the keys of                *)
(* shardMappings.Points instead of being chosen at the start.  The        *)
(* writer's Close and Open run concurrently with the whole call.           *)
(***************************************************************************)
EXTENDS Naturals, FiniteSets, Sequences, SequencesExt

CONSTANTS
    Nodes, Self, Owners,                        \* as in PointsWriter
    Times, Hashes, Durations, MinTimes,         \* as in MapShards
    MaxPoints, ShardsPerGroup,
    Shards          \* every shard MapShards can map a point of the batch to

VARIABLES
    \* MapShards, for the one caller
    groups, sgDuration, pc, pts, minT, i, list, buckets, out,
    \* the fan-out of PointsWriter
    consistency, mapped, closing, closes, panicked, wpc, res, stored, hh, ch,
    spc, wrote, recvd, writeError, sres, top, tcount, batch,
    \* WritePoints: map (in MapShards), write (in the fan-out), returned
    phase

msvars == <<groups, sgDuration, pc, pts, minT, i, list, buckets, out>>
pwvars == <<consistency, mapped, closing, closes, panicked, wpc, res, stored,
            hh, ch, spc, wrote, recvd, writeError, sres, top, tcount, batch>>
vars == <<msvars, pwvars, phase>>

Caller == "caller"

MS == INSTANCE MapShards WITH Writers <- {Caller}
PW == INSTANCE PointsWriter WITH MaxCloses <- 1

-----------------------------------------------------------------------------
(* Before the hand-over `mapped` holds no meaning; it is fixed to one     *)
(* value so that it adds no initial states.                               *)
Init ==
    /\ MS!Init
    /\ PW!Init
    /\ mapped = Shards
    /\ phase = "map"

(* WritePoints up to MapShards' return.                                    *)
MapStep ==
    /\ phase = "map"
    /\ MS!ResolvePolicy(Caller) \/ MS!Start(Caller) \/ MS!Scan(Caller)
       \/ MS!MapPoints(Caller)
    /\ UNCHANGED <<pwvars, phase>>

(* WritePoints after MapShards returned: an error is returned as is; else *)
(* one shard goroutine per key of shardMappings.Points is started, and a   *)
(* mapping with no keys makes both loops empty and the call return nil.   *)
HandOver ==
    /\ phase = "map"
    /\ pc[Caller] = "done"
    /\ \/ /\ out[Caller] = "error"
          /\ phase' = "returned"
          /\ UNCHANGED <<mapped, batch>>
       \/ /\ out[Caller] = "ok"
          /\ DOMAIN buckets[Caller] = {}
          /\ mapped' = {}
          /\ batch' = "ok"
          /\ phase' = "returned"
       \/ /\ out[Caller] = "ok"
          /\ DOMAIN buckets[Caller] # {}
          /\ mapped' = DOMAIN buckets[Caller]
          /\ phase' = "write"
          /\ UNCHANGED batch
    /\ UNCHANGED <<msvars, consistency, closing, closes, panicked, wpc, res,
                   stored, hh, ch, spc, wrote, recvd, writeError, sres, top,
                   tcount>>

(* The fan-out's steps, once the buckets are known.                        *)
WriteStep ==
    /\ phase = "write"
    /\ PW!WriteStep
    /\ UNCHANGED <<msvars, phase>>

(* The server's Close and Open of the writer, at any point of the call.   *)
Lifecycle ==
    /\ PW!Shutdown \/ PW!Open
    /\ UNCHANGED <<msvars, phase>>

Next == MapStep \/ HandOver \/ WriteStep \/ Lifecycle

Spec == Init /\ [][Next]_vars

-----------------------------------------------------------------------------
(* Properties                                                              *)

(* The type invariant: the fan-out's, a phase of the call, and the shards  *)
(* started are keys of the mapping; in particular writeToShard waits for  *)
(* one to all owners of each shard it writes.                             *)
TypeOK ==
    /\ PW!TypeOK
    /\ phase \in {"map", "write", "returned"}
    /\ phase = "write" => mapped = DOMAIN buckets[Caller]

\* the points of the batch MapShards keeps: at or after the retention minimum
Retained == {j \in 1..Len(pts[Caller]) : MS!Time(pts[Caller][j]) >= minT[Caller]}

\* the bucket of shard s holds point j
InBucket(s, j) == \E k \in 1..Len(buckets[Caller][s]) : buckets[Caller][s][k] = j

\* shard s is acknowledged at the level by durable (or, at ANY, queued) replicas
ShardAcked(s) ==
    IF consistency = "any" THEN PW!Durable(s) \cup PW!Queued(s) # {}
                           ELSE PW!LevelMet(s, Cardinality(PW!Durable(s)))

(* Spec invariants 1 and 4 together, for the whole call: when WritePoints *)
(* returns nil, every point of the batch at or after the retention        *)
(* minimum is in the bucket of a shard that holds it on enough owners for *)
(* the level.  Breaks if MapShards loses a retained point or maps it to a *)
(* shard the fan-out never writes, or if the fan-out miscounts acks.      *)
RetainedPointsDurable ==
    batch = "ok" =>
        \A j \in Retained : \E s \in mapped : InBucket(s, j) /\ ShardAcked(s)

=============================================================================
