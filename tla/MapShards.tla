----------------------------- MODULE MapShards -----------------------------
(***************************************************************************)
(* PointsWriter.MapShards and the sgList it builds (points_writer.go):    *)
(* the first loop walks the batch and asks the meta client for a shard    *)
(* group for every retained point no group of the list covers, keeping    *)
(* the list sorted by (EndTime, StartTime); the second loop looks every   *)
(* point up with ShardGroupAt and appends it to the bucket of the shard   *)
(* ShardFor picks.  The meta client is an external collaborator: its      *)
(* shard groups live here as `groups`, and the retention policy's shard   *)
(* group duration may be altered between calls.                           *)
(***************************************************************************)
EXTENDS Naturals, Sequences, FiniteSets, SequencesExt

CONSTANTS
    Writers,        \* concurrent WritePoints callers (model values)
    Times,          \* point timestamps, a small interval of Nat
    Hashes,         \* series-key hashes, a small interval of Nat
    Durations,      \* shard group durations the retention policy may have
    MinTimes,       \* possible values of `min` (time.Now() - rp.Duration)
    MaxPoints,      \* bound on the batch length
    ShardsPerGroup  \* len(ShardGroupInfo.Shards)

ASSUME Durations \subseteq Nat \ {0} /\ ShardsPerGroup \in Nat \ {0}

Points == Times \X Hashes           \* a point: <<time, hash>>
Time(p) == p[1]
Hash(p) == p[2]

\* A shard group covers [start, end).
Groups == [start : Nat, end : Nat]
GroupContains(g, t) == g.start <= t /\ t < g.end
\* meta.ShardGroupInfos ordering: EndTime, then StartTime.
Before(a, b) == a.end < b.end \/ (a.end = b.end /\ a.start < b.start)
Shard(g, k) == <<g.start, g.end, k>>

None == "none"
\* the nil *ShardGroupInfo: an empty interval, never a group of the store
NoGroup == [start |-> 0, end |-> 0]

VARIABLES
    groups,         \* the retention policy's shard groups in the meta store
    sgDuration,     \* the retention policy's ShardGroupDuration
    pc,             \* per writer: idle, start, scan, done
    pts,            \* per writer: the batch
    minT,           \* per writer: `min`
    i,              \* per writer: index of the first loop
    list,           \* per writer: the sgList
    buckets,        \* per writer: ShardMapping.Points, shard -> point indices
    out             \* per writer: what MapShards returned

vars == <<groups, sgDuration, pc, pts, minT, i, list, buckets, out>>

-----------------------------------------------------------------------------
(* Variant of ShardGroupAt searching for the first group ending at or     *)
(* after t (EndTime not Before t instead of EndTime After t).             *)
ShardGroupAtEndInclusive(l, t) ==
    LET idx == SelectInSeq(l, LAMBDA g : g.end >= t)
    IN IF idx = 0 \/ t < l[idx].start THEN NoGroup ELSE l[idx]

(* sgList.ShardGroupAt: sort.Search for the first group ending after t,   *)
(* nil when there is none or it starts after t.                           *)
ShardGroupAt(l, t) ==
    LET idx == SelectInSeq(l, LAMBDA g : g.end > t)
    IN IF idx = 0 \/ t < l[idx].start THEN NoGroup ELSE l[idx]

(* sgList.Covers.                                                          *)
Covers(l, t) == Len(l) > 0 /\ ShardGroupAt(l, t) # NoGroup

(* sgList.Append: append, then sort.Sort by (EndTime, StartTime).          *)
AppendSorted(l, g) ==
    InsertAt(l, 1 + Cardinality({k \in 1..Len(l) : ~Before(g, l[k])}), g)

(* Variant of ShardFor taking the hash modulo one more than the shards.    *)
ShardForOffByOne(g, h) == Shard(g, h % (ShardsPerGroup + 1))

(* ShardGroupInfo.ShardFor: Shards[hash % len(Shards)].                   *)
ShardFor(g, h) == Shard(g, h % ShardsPerGroup)

(* MetaClient.CreateShardGroup: the group of the policy containing t that *)
(* comes first in the meta store's (EndTime, StartTime) order, else a new *)
(* group [t truncated to the duration, + duration).                       *)
Covering(t) == {g \in groups : GroupContains(g, t)}
FirstOf(S) == CHOOSE g \in S : \A h \in S \ {g} : Before(g, h)
NewGroup(t) ==
    [start |-> t - (t % sgDuration), end |-> t - (t % sgDuration) + sgDuration]

-----------------------------------------------------------------------------
Init ==
    /\ groups = {}
    /\ sgDuration \in Durations
    /\ pc = [w \in Writers |-> "idle"]
    /\ pts = [w \in Writers |-> <<>>]
    /\ minT = [w \in Writers |-> 0]
    /\ i = [w \in Writers |-> 1]
    /\ list = [w \in Writers |-> <<>>]
    /\ buckets = [w \in Writers |-> <<>>]
    /\ out = [w \in Writers |-> None]

(* WritePoints' prologue: a call naming no retention policy takes the    *)
(* database's default, and fails with ErrDatabaseNotFound when the meta   *)
(* client does not know the database.                                     *)
ResolvePolicy(w) ==
    /\ pc[w] = "idle"
    /\ \E named, dbKnown \in BOOLEAN :
          IF named \/ dbKnown
             THEN pc' = [pc EXCEPT ![w] = "start"] /\ UNCHANGED out
             ELSE /\ pc' = [pc EXCEPT ![w] = "done"]
                  /\ out' = [out EXCEPT ![w] = "error"]
    /\ UNCHANGED <<groups, sgDuration, pts, minT, i, list, buckets>>

(* MapShards starts: MetaClient.RetentionPolicy fails or finds no policy  *)
(* and the call returns the error; otherwise `min` is computed from the   *)
(* policy's duration and the first loop begins.                           *)
Start(w) ==
    /\ pc[w] = "start"
    /\ \/ /\ \E n \in 1..MaxPoints, b \in [1..MaxPoints -> Points], m \in MinTimes :
                /\ pts' = [pts EXCEPT ![w] = SubSeq(b, 1, n)]
                /\ minT' = [minT EXCEPT ![w] = m]
          /\ pc' = [pc EXCEPT ![w] = "scan"]
          /\ UNCHANGED out
       \/ /\ pc' = [pc EXCEPT ![w] = "done"]
          /\ out' = [out EXCEPT ![w] = "error"]
          /\ UNCHANGED <<pts, minT>>
    /\ UNCHANGED <<groups, sgDuration, i, list, buckets>>

(* One iteration of the first loop: skip a point outside the policy or    *)
(* covered by the list, else get a group from the meta client (which may  *)
(* fail or return nil) and add it to the list.                            *)
Scan(w) ==
    /\ pc[w] = "scan"
    /\ i[w] <= Len(pts[w])
    /\ LET t == Time(pts[w][i[w]]) IN
       \/ /\ t < minT[w] \/ Covers(list[w], t)
          /\ i' = [i EXCEPT ![w] = @ + 1]
          /\ UNCHANGED <<groups, pc, list, out>>
       \/ /\ ~(t < minT[w] \/ Covers(list[w], t))
          /\ LET g == IF Covering(t) # {} THEN FirstOf(Covering(t))
                      ELSE NewGroup(t)
             IN /\ groups' = groups \cup {g}
                /\ list' = [list EXCEPT ![w] = AppendSorted(@, g)]
          /\ i' = [i EXCEPT ![w] = @ + 1]
          /\ UNCHANGED <<pc, out>>
       \/ /\ ~(t < minT[w] \/ Covers(list[w], t))
          /\ pc' = [pc EXCEPT ![w] = "done"]
          /\ out' = [out EXCEPT ![w] = "error"]
          /\ UNCHANGED <<groups, i, list>>
    /\ UNCHANGED <<sgDuration, pts, minT, buckets>>

(* NewShardMapping: no shard mapped yet.                                  *)
NewShardMapping == <<>>

(* ShardMapping.MapPoint: append point j to the bucket of shard s, making *)
(* the bucket for a shard not mapped yet.  The capacity check only sizes  *)
(* a new bucket: a bucket made with capacity n = len(batch) keeps at      *)
(* least that capacity, so it is never remade once it holds points.       *)
MapPoint(m, s, j) ==
    IF s \in DOMAIN m THEN [m EXCEPT ![s] = Append(@, j)]
                      ELSE (s :> <<j>>) @@ m

(* The second loop: in batch order, a point the list has no group for is *)
(* skipped, any other goes to the bucket of its shard.                    *)
MapPoints(w) ==
    /\ pc[w] = "scan"
    /\ i[w] > Len(pts[w])
    /\ LET p == pts[w]
           sg(j) == ShardGroupAt(list[w], Time(p[j]))
           Map(m, j) == IF sg(j) = NoGroup THEN m
                        ELSE MapPoint(m, ShardFor(sg(j), Hash(p[j])), j)
       IN buckets' = [buckets EXCEPT ![w] = FoldLeftDomain(Map, NewShardMapping, p)]
    /\ pc' = [pc EXCEPT ![w] = "done"]
    /\ out' = [out EXCEPT ![w] = "ok"]
    /\ UNCHANGED <<groups, sgDuration, pts, minT, i, list>>

(* ALTER RETENTION POLICY ... SHARD DURATION: later groups get the new    *)
(* duration; existing ones keep theirs.                                   *)
AlterDuration ==
    /\ \E d \in Durations \ {sgDuration} : sgDuration' = d
    /\ UNCHANGED <<groups, pc, pts, minT, i, list, buckets, out>>

(* A writer whose call has returned makes the next call.                  *)
Restart(w) ==
    /\ pc[w] = "done"
    /\ pc' = [pc EXCEPT ![w] = "idle"]
    /\ i' = [i EXCEPT ![w] = 1]
    /\ list' = [list EXCEPT ![w] = <<>>]
    /\ buckets' = [buckets EXCEPT ![w] = <<>>]
    /\ out' = [out EXCEPT ![w] = None]
    /\ UNCHANGED <<groups, sgDuration, pts, minT>>

Next ==
    \/ \E w \in Writers : ResolvePolicy(w) \/ Start(w) \/ Scan(w) \/ MapPoints(w)
                          \/ Restart(w)
    \/ AlterDuration

Spec == Init /\ [][Next]_vars

-----------------------------------------------------------------------------
(* Properties                                                              *)

GroupOf(s) == [start |-> s[1], end |-> s[2]]
Holders(w, j) == {s \in DOMAIN buckets[w] : \E k \in 1..Len(buckets[w][s]) :
                                               buckets[w][s][k] = j}

(* Every bucket key is a shard of a group the meta store holds (the       *)
(* ShardMapping invariant that each key of Points has its ShardInfo), and *)
(* every list entry is such a group.                                      *)
TypeOK ==
    /\ sgDuration \in Durations
    /\ groups \subseteq Groups
    /\ \A w \in Writers :
          /\ pc[w] \in {"idle", "start", "scan", "done"}
          /\ \A k \in 1..Len(list[w]) : list[w][k] \in groups
          /\ \A s \in DOMAIN buckets[w] :
                /\ GroupOf(s) \in groups
                /\ s[3] \in 0..ShardsPerGroup - 1

(* A point MapShards put in a bucket is in exactly that one bucket, once,  *)
(* and the bucket's shard group contains the point's time.                *)
MappedPointsInTheirGroup ==
    \A w \in Writers : \A s \in DOMAIN buckets[w] :
        \A k \in 1..Len(buckets[w][s]) :
            LET j == buckets[w][s][k] IN
            /\ GroupContains(GroupOf(s), Time(pts[w][j]))
            /\ Holders(w, j) = {s}
            /\ \A k2 \in 1..Len(buckets[w][s]) : buckets[w][s][k2] = j => k2 = k

(* Spec, invariant 1: every point of the batch at or after `min` is put   *)
(* in a bucket when MapShards succeeds; none is lost.                     *)
RetainedPointsMapped ==
    \A w \in Writers : out[w] = "ok" =>
        \A j \in 1..Len(pts[w]) :
            Time(pts[w][j]) >= minT[w] => Holders(w, j) # {}

(* Spec, 4.3 and invariant 1: a point before `min` is dropped, never put  *)
(* in a bucket.                                                           *)
ExpiredPointsDropped ==
    \A w \in Writers : out[w] = "ok" =>
        \A j \in 1..Len(pts[w]) :
            Time(pts[w][j]) < minT[w] => Holders(w, j) = {}

=============================================================================
