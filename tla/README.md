# TLA+ models of the influxcloud clustered points writer

These modules model `src/cluster/points_writer.go`. That file holds two Go files one after the other:

- lines 1–398: `PointsWriter`, the write path of a data node;
- lines 399–844: `Service`, the cluster RPC server that receives writes from peer nodes.

All line numbers below refer to that file.

## 1. Inventory

### Components

| # | Component | Code | State it keeps | Operations that change state |
|---|---|---|---|---|
| C1 | Shard-group list `sgList` | 203–238 | a slice of shard groups sorted by (EndTime, StartTime) | `Append` (insert, then sort) |
| C2 | Shard mapping | 86–109, 150–201 | `Points`: shard id → points; `Shards`: shard id → ShardInfo | `MapPoint`; `MapShards` (two loops, calls `MetaClient.CreateShardGroup`) |
| C3 | Points writer | 30–148, 240–398 | `closing` channel under `mu`; per call: a channel of shard results and, per shard, a channel of owner results with counters `wrote`, `writeError` and a timer | `Open`, `Close`, `WritePoints`, `writeToShard`, the writer goroutines, `isRetryable` |
| C4 | Cluster RPC service | 419–656, 833 | `closing`, wait group `wg`, listener; per connection a watchdog and a `closing` channel | `Open`/`serve`, `Close`, `handleConn`, `processWriteShardRequest`, `writeShardResponse`, `processCreateIteratorRequest`, `processFieldDimensionsRequest` |
| C5 | TLV framing | 784–796 and package `tlv` (not in this repository) | none (stream position) | `ReadTLV`, `tlv.ReadType`, `tlv.ReadLV`, `tlv.WriteTLV` |
| — | Empty stubs | 580–594, 658–843 | none | none (empty bodies) |
| — | External collaborators | 39–56, 434–440 | meta store, TSDB store, peer ShardWriter, hinted-handoff queue | modelled as nondeterministic answers |

### How the components interact

1. `WritePoints` resolves the retention policy and calls `MapShards` (C2).
2. `MapShards` builds an `sgList` (C1). For every point that no group in the list covers, it calls `MetaClient.CreateShardGroup`. It then buckets the points by shard.
3. `WritePoints` starts one goroutine per bucket. Each one runs `writeToShard`.
4. `writeToShard` starts two goroutines per owner. The local one writes through `TSDBStore.WriteToShard` when the owner is this node. The remote one writes through `ShardWriter.WriteShard` when it is not. On a retryable error the remote goroutine falls back to `HintedHandoff.WriteShard`.
5. Results come back over buffered channels. `writeToShard` returns as soon as `required` owners have answered nil. Otherwise it returns on the timer, on `closing`, or after every owner has answered.
6. On a peer, `Service.handleConn` (C4) reads TLV frames (C5). `processWriteShardRequest` applies each write to the local store and creates a missing shard lazily. The response it sends back is what `ShardWriter` reports to the writer.

### What is hard here

- **Concurrency.** Goroutines race per owner and per shard. Readers return early on success, timeout or close, and leave writers behind, so the channel capacities are what stop goroutines leaking.
- **Partial failure.** Handoff counts as success only at ANY. A batch fails on the first shard error while the other shards stay written. A peer answers code 0 when it drops a stale write.
- **Timeouts.** A peer may never answer, and a late answer may land after `Timeout` was returned.
- **Ordering.** Replica results are consumed in arrival order. Shard groups overlap after an `ALTER ... SHARD DURATION`, and the order of points in a batch decides what is created.
- **Lifecycle.** `Open`/`Close` run concurrently with writes. Neither `Close` guards against a second call.
- **Framing.** An unknown message type is not consumed.

### Properties that make each component correct

- **C1/C2**
  - Every point at or after `min` ends up in exactly one bucket, and that bucket's group contains the point.
  - A point before `min` is dropped.
  - Every bucket key is a shard of a known group.
- **C3**
  - An acknowledged write is durable on enough owners for its consistency level. At ANY only, a handoff enqueue counts.
  - A failure is reported only once every owner has answered and the level was missed.
  - `WritePoints` always returns.
  - No goroutine is left blocked.
  - `Close` closes the channel exactly once.
- **C4**
  - Every `WriteShardRequest` gets exactly one response.
  - Code 0 means the points are stored. The drop path breaks this, as intended.
  - `ShardNotFound` leads to at most one `CreateShard` and one retry.
  - `Close` returns only after all handlers have ended, and it does return.
- **C5**
  - Frames are read in the order they were written.
  - The service never processes a payload as a message it was not sent as.

The hazards in `PROJECT.json` list each of these at the line where it can go wrong.

## 2. Plan

| Step | Module | Composes | Status |
|---|---|---|---|
| 1 | `PointsWriter` (C3): write fan-out, consistency, handoff, timeout, closing | — | done (sitting 1) |
| 2 | `WritePath`: `MapShards` composed into `PointsWriter` (mapping from points, not chosen in `Init`), with the default-RP lookup (`ResolvePolicy`) | `MapShards`, `PointsWriter` | done (sitting 4); zero-owner shards stay out (section 5) |
| 3 | `MapShards` (C1, C2) with the meta store as environment | — | done (sitting 1) |
| 4 | `ClusterService` (C4): serve loop, connections, watchdog, `processWriteShardRequest` with lazy create, the response, `Close`/`wg`, the iterator handlers | — | done (sitting 1) |
| 5 | `ClusterWrite`: `PointsWriter`'s remote writers talking to a `ClusterService` peer through the `ShardWriter` | `PointsWriter`, `ClusterService`, `ShardWriteAbstract` | done (sitting 3) |
| 6 | `TlvStream` (C5): the byte stream as `handleConn` reads it, including unknown types and short reads | `ClusterService` (the read loop) | done (sitting 2) |
| 7 | `ShardWriteAbstract`: a shard write either acks with ≥ required durable replicas or fails; `PointsWriter` refines it through `INSTANCE ... WITH` (`batch` ↦ result, `stored`/`hh` ↦ replicas) | `PointsWriter` | done (sitting 2) |

### Runs planned next

- A second `Service.Close`, and `PointsWriter.Open` on a writer that is still open. Each needs a violation run of its own. Neither has displaced one of the existing runs, whose findings say more.

## 3. Modules

### `PointsWriter.tla` (C3)

The model covers one `WritePoints` call after `MapShards`. The set of occupied shards (`mapped`) and the consistency level are chosen in `Init`. `WritePath.tla` composes it with `MapShards`, where `mapped` becomes the keys of the mapping.

| Model | Code |
|---|---|
| `Spawn(s)` | `writeToShard`'s prologue: `required`, the channel, starting the goroutines, the timer |
| `LocalWrite(w)` | the local goroutine (`TSDBStore.WriteToShard`) |
| `RemoteWrite(w)` | the remote goroutine's `ShardWriter.WriteShard`. It is not fair, so a peer may never answer. A transport error may come after the peer stored the points. |
| `Handoff(w)` | the hinted-handoff fallback and its three sends |
| `Send(w)` | `ch <- result`. It blocks while the channel holds `Capacity(s)` = `len(Owners)` results. |
| `Receive(s)`, `TimeoutFire(s)`, `ShardClosed(s)` | the three cases of `writeToShard`'s select. `Receive` folds in the classification after the loop (`Finish`). |
| `ShardSend(s)` | the shard goroutine's send to `WritePoints`' channel |
| `Collect`, `BatchClosed` | the two cases of `WritePoints`' select |
| `Open`, `Close` | `PointsWriter.Open` and `Close`. `Shutdown` is the server's call, made once per `Open`. |

The goroutine of a branch that does not apply (local for a remote owner, remote for the local one) returns without sending. It therefore has no action.

Results are `"ok"` or an error kind. Outcomes are `ok`, `timeout`, `partial`, `failed` (the wrapped first error) and `writefailed`.

**Fairness** is weak fairness on every goroutine step except `RemoteWrite`. Go schedules runnable goroutines, the local store and the handoff queue return, and `time.After` fires. A peer, though, may hang. `Close` and `Open` are the caller's choice and are not fair.

**Deadlock checking is off** in every PointsWriter configuration. The model is one call: after `WritePoints` returns and every goroutine has ended, the system really stops. Blocked goroutines are caught by the liveness properties instead.

Properties:

- `FailureOnlyAfterAllReplies`: `partial` or `failed` is returned only when every owner's result has been consumed and the owners that answered nil miss the level. `partial` is returned exactly when at least one answered nil.
- `WritePointsTerminates` (liveness): every `WritePoints` call eventually returns.
- `NoLeakedWorkers` (liveness): every writer goroutine and shard goroutine holding a result eventually completes its send.
- `TypeOK`: the types, plus "required is between 1 and the owner count". It is checked through `WritePath`'s `TypeOK`.
- `NoDoubleClose`: the spec's "Close closes exactly once". This property is violated.

### `MapShards.tla` (C1, C2)

The model covers repeated `MapShards` calls by a set of writers.

- `ResolvePolicy` is WritePoints' prologue (lines 247–255): a call that names no retention policy takes the database's default, and it returns ErrDatabaseNotFound when the database is unknown.
- `Start` either returns the error of MetaClient.RetentionPolicy (a failed lookup, or no such policy), or picks a batch of at most `MaxPoints` points (time, hash) and the value of `min`.
- `Scan` is one iteration of the first loop. It has three disjuncts: the point is skipped; `CreateShardGroup` succeeds and the group is added with `AppendSorted`; or the meta call fails or returns nil.
- `MapPoints` is the second loop: a left fold (`FoldLeftDomain`) over the batch that skips a point with no group and otherwise applies `MapPoint` (ShardMapping.MapPoint, lines 102–109) to the shard `ShardFor` picks, starting from `NewShardMapping` (lines 92–99). MapPoint's capacity check only sizes a new bucket: a bucket made with capacity len(batch) never falls below it, so it is never remade once it holds points, and the model leaves capacities out.
- `ShardGroupAt` is `sort.Search`, written with `SelectInSeq`. `Covers` and `AppendSorted` translate `Covers` and `Append`.

The meta store is modelled from its contract (`Covering`, `FirstOf`, `NewGroup`). It returns the covering group that comes first in (end, start) order, or else creates `[t truncated to the duration, + duration)`.

`AlterDuration` models an administrator's `ALTER RETENTION POLICY ... SHARD DURATION`. `Restart` is a writer making its next call.

Properties:

- `TypeOK`: every bucket key is a shard of a known group, with an index below `ShardsPerGroup`.
- `MappedPointsInTheirGroup`: a mapped point is in exactly one bucket, once, and that bucket's group contains it.
- `RetainedPointsMapped` (spec invariant 1): this property is violated.
- `ExpiredPointsDropped` (spec 4.3): this property is violated.

### `ClusterService.tla` (C4)

The model covers one service, a set of peer connections `Conns`, and one `Close`. Each connection's peer is the client: a `ShardWriter` or remote iterator. It sends one request from `Reqs`, then waits for the answer or for the connection to close.

A request is a record with these fields:

- `type`: write, exec, iter or fields.
- `shard`: the shard it is for.
- `dbrp`: whether it carries a database and retention policy.
- `frame`: how its frame reads. The values are `ok`, `badlv` (`tlv.ReadLV` fails) and `baddecode` (unmarshal or `DecodeLV` fails).

| Model | Code |
|---|---|
| `Open`, `ServeCheck`, `Accept(c)`, `AcceptError` | `Open`, then `serve`: the check of `s.closing`, `Accept` with `wg.Add(1)`, and an accept error that either returns ("connection closed" in the text) or loops |
| `Watchdog(c)` | the goroutine `handleConn` starts. It closes the socket once the handler's own `closing` or `s.closing` is closed. |
| `ReadError`, `ReadEOF`, `ReadRequest` | `tlv.ReadType` and `ReadLV`. The handler returns on an error or on EOF, without an answer. |
| `ServeIterator`, `IteratorPanic`, `ServeFieldDimensions` | `processCreateIteratorRequest` and `processFieldDimensionsRequest`. Each answers once, then the handler returns. On a decode error the iterator path panics on `itr.Close()`. |
| `ProcessWrite`, `CreateShard`, `Retry` | `processWriteShardRequest`. The first write can fail to decode, write a held shard, or drop the request (`ShardNotFound` without db/rp). Otherwise `CreateShard` runs, followed by exactly one retry. |
| `ProcessExecute`, `Respond` | `processExecuteStatementRequest`, which returns nil, and `writeShardResponse`, which answers code 0 or 1. A write to a socket the watchdog closed is lost. |
| `CloseListener`, `CloseSignal`, `CloseWait` | `Service.Close`: the listener, then `close(s.closing)`, then `wg.Wait()`. |

The TSDB store is an environment. `StoreWrite` applies the points or fails. `CreateShard` succeeds (and is a no-op for a held shard) or fails. A panic sets `crashed` and stops every step.

Fairness is weak fairness on every goroutine of the service: serve, the handlers, the watchdogs and a started `Close`. It also covers `Open`, which server startup calls, and a peer noticing a closed connection. A peer is never obliged to send or to hang up, and the server is never obliged to call `Close`. An idle pooled connection is therefore a legal behaviour, and `CloseTerminates` has to cope with it.

Properties:

- `TypeOK` includes that the `WaitGroup` counter never goes negative.
- `AckedWritesStored`: a write carrying db/rp and answered with code 0 was stored. This holds across two peers racing the lazy create and retry for the same missing shard. It checks code-0 answers only. The model takes `CreateShard` on a shard already created by the other handler to succeed, as the store's create is idempotent. A spurious code 1 from that race is therefore outside what it can see.
- `CloseWaitsForHandlers` (spec §5): when `Close` returns, serve and every handler it accepted have returned.
- `CloseTerminates`: a started `Close` returns, or the node crashed.
- `RequestsAnswered`: a waiting peer gets its answer or sees the connection close.
- `NoCrash`: this property is violated.

### `ShardWriteAbstract.tla`: what a `WritePoints` call promises

This module has no goroutines, channels or counters. Its state:

- `durable`: replicas that hold the points.
- `queued`: replicas queued in hinted handoff.
- `result`: the call's outcome.

Its actions:

- `Store(r)` and `Queue(r)`: a replica is added. It is never removed.
- `Succeed`: the call decides `ok`. This is allowed only when every shard of the batch has `Acked`: the spec's consistency predicate, where a queued replica counts only at ANY.
- `Fail`: the call decides on a failure.

Both `Succeed` and `Fail` can happen only once. Replicas may still be added after the decision, because writers are not cancelled.

`PointsWriter` instantiates this module as `Abstract`, under this mapping:

| Abstract | `PointsWriter` |
|---|---|
| `level` | `consistency` |
| `targets` | `mapped` |
| `durable` | `stored` |
| `queued` | `hh` |
| `result` | `batch` |

`ImplementsShardWrite == Abstract!ASpec` is checked as a `PROPERTY` in `pw_replicated`. Each detailed step maps to one abstract step or to a stutter:

- `LocalWrite` and `RemoteWrite` map to `Store`.
- `Handoff` maps to `Queue`.
- `Collect` and `BatchClosed` map to `Succeed` or `Fail`.
- Every other step is a stutter.

The refinement carries the per-shard acknowledgement check: the guard of `Succeed` is the spec's level predicate, and `durable` and `queued` only grow. So no separate invariant "nil means every shard is acknowledged" is checked next to it. A variant of `Handoff` that counts a queued write as an ack at every level breaks the refinement when TLC checks it.

### `TlvStream.tla` (C5 and `handleConn`'s read loop)

The model covers the bytes of one peer connection.

The peer side:

- `PeerWrite` appends whole frames. Each frame is a type byte, a big-endian length and the payload, written by `tlv.WriteTLV`.
- `PeerCrash` appends a proper prefix of a frame, then closes the connection.
- `PeerClose` closes the connection after whole frames.

The handler side:

- `ReadType` consumes one byte. A known type goes on to `ReadLV`; an unknown type `continue`s with the next byte.
- `ReadLV` reads the length and checks it against `MaxMessageSize`. It then reads the payload and records the request as `dispatched`. The handler loops after a write or execute request, and ends after an iterator or field-dimensions request.
- `ReadTypeEOF` and `ReadLVShortRead` are the EOF and short-read errors.

Modelling choices:

- The `tlv` package is not in this repository, so the framing is taken from spec C5.
- The length field is narrowed from 8 bytes to 2. The width only changes how many zero bytes precede the low byte.
- The type codes are opaque in the spec. The MC module sets them to 1, 3, 5 and 7, and uses 9 for a type this node does not know.

### `ClusterWrite.tla`: the write path across two nodes

`ClusterWrite` composes a `WritePoints` call on node `Self` with the cluster service of node `Peer`. It instantiates `PointsWriter` as `PW` and `ClusterService` as `CS`, each on variables of its own. The three names they share are renamed: the writer's `closing`, `stored` and `spc` become `wclosing`, `local` and `shardpc`; the service's become `sclosing`, `applied` and `serve`. Each replica on `Peer` has its own connection (`RemoteWorkers`, the `Conns` of `CS`), and the writer sends one request on it.

Each step is one of three kinds:

- A step of the writer, `WriterStep`: every `PointsWriter` action except `RemoteWrite`.
- A step of the peer, `PeerStep`: serve, accept, the handlers, the watchdogs and `Close` of `ClusterService`. The client actions of `ClusterService` are replaced by the `ShardWriter`.
- A step of the `ShardWriter`, which replaces `RemoteWrite`. It is not in this repository, so it is modelled from spec sections 6 and 7:
  - `WriteShard` sends the `WriteShardRequest` and waits. A connection reset in the peer's backlog fails the call at once.
  - `WriteShardResponse` turns code 0 into nil. A non-zero code becomes the peer's error, which may be a field type conflict.
  - `WriteShardError` is a transport error or the writer's deadline, while the peer may still apply the write. The error is retryable, so the writer goes on to hinted handoff.

The constant `WithDbrp` says whether a request carries its database and retention policy. It does when the sender's metadata knows them.

The refinement maps `durable` to the local store's replicas together with the requests the peer's store applied. `RemoteAckApplied` says a remote replica the writer counts as written was applied by the peer, or queued in hinted handoff. It is `AckedWritesStored` carried across the RPC. It runs only in `cw_write`, where every request carries its database and retention policy, so the drop path is left to `cw_stale_drop`.

### `WritePath.tla`: one `WritePoints` call from points to answer

`WritePath` composes one `MapShards` call (`MS`, for a single caller) with the fan-out of `PointsWriter` (`PW`). The two modules share no variable names, so nothing is renamed. A variable `phase` says where `WritePoints` is:

- `MapStep` (phase `map`): `ResolvePolicy`, `Start`, `Scan` and `MapPoints` of the caller.
- `HandOver` is `WritePoints` after `MapShards` returned (lines 257–264). An error is returned as is. A mapping with no keys, because every point was before `min`, skips both loops and returns nil. Otherwise `mapped` becomes the keys of `shardMappings.Points`, one shard goroutine each.
- `WriteStep` (phase `write`): every step of `PW!WriteStep`.
- `Lifecycle`: the server's `Close` and `Open` of the writer, at any point of the call.

`mapped` means nothing before the hand-over. `Init` fixes it to `Shards` so that it adds no initial states.

Properties:

- `TypeOK`: `PointsWriter`'s type invariant, a phase, and, in phase `write`, `mapped` equal to the mapping's keys.
- `RetainedPointsDurable` combines spec invariants 1 and 4 for the whole call. When `WritePoints` returns nil, every point at or after the retention minimum is in the bucket of a shard stored on enough owners for the level, or queued at ANY.

## 4. Runs

| Run | Configuration | What it checks and shows | States |
|---|---|---|---|
| `pw_replicated` | shard `s1` on n1 (local), n2, n3; all levels; one Close | `ImplementsShardWrite` (refinement of `ShardWriteAbstract`), `FailureOnlyAfterAllReplies`, and under `Fairness` `WritePointsTerminates` and `NoLeakedWorkers`. No symmetry, because the run checks liveness. | ≈5.8·10⁵ |
| `wp_write_path` | batches of ≤ 2 points at times 0..1 with hashes 0..1, `min` = 1, one group [0, 2) of two shards: `<<0,2,0>>` on {n1, n2}, `<<0,2,1>>` on {n1}; all levels; one writer Close and Open | `TypeOK`, `RetainedPointsDurable` with one or two shards racing | ≈7.1·10⁶ |
| `pw_double_close` | a caller allowed to call `Close` twice | `NoDoubleClose` is violated: `Close; Close` panics | — |
| `mapshards` | times 0..3, hashes 0..2, durations {1, 4}, `min` ∈ {0, 1}, batches of ≤ 2 points, 2 shards per group | `TypeOK`, `MappedPointsInTheirGroup` | ≈10⁵ |
| `mapshards_lost_point` | same | `RetainedPointsMapped` is violated | — |
| `mapshards_expired_point` | same | `ExpiredPointsDropped` is violated | — |
| `cs_service` | 2 peers, shard `sh1` initially held or not, 1 request each: a write (frame ok, bad length-value or undecodable; with and without db/rp), an execute, an iterator (ok or undecodable) or a field-dimensions request; `Close` at any time | `TypeOK`, `AckedWritesStored`, `CloseWaitsForHandlers`, and under `Fairness` `CloseTerminates` and `RequestsAnswered` | ≈2.2·10⁵ |
| `cs_iterator_panic` | 1 peer | `NoCrash` is violated: a malformed CreateIterator request crashes the node | — |
| `tlv_aligned` | ≤ 3 frames of known types: payloads of length 0 to 3 with `MaxMessageSize` = 2, and cut-off frames | `FramesAligned`, `HandlerEnds` | ≈3·10³ |
| `cw_write` | shard `s1` on n1 (local) and n2 (the peer), which may or may not hold it; all levels; one writer Close and one peer Close; requests carry db/rp | `ImplementsShardWrite` (both nodes together refine `ShardWriteAbstract`), `RemoteAckApplied` | ≈2.8·10⁶ |
| `cw_stale_drop` | the same, with requests that may lack db/rp | `ImplementsShardWrite` is violated: the peer drops the stale request, answers code 0, and `WritePoints` returns nil with the points on no node | — |
| `tlv_unknown_type` | the same frames plus one of unknown type 9 | `FramesAligned` is violated: the handler parses the unknown frame's length and payload as a write request | — |

### Why these bounds are enough

- **Three owners** are the smallest set where QUORUM differs from both ONE and ALL. With n1 local, both the local and the remote code paths run.
- **Two shards in `wp_write_path`** are enough for one shard's error to race another shard's success. A batch fills one bucket, the other, both, or none, when every point is before `min` = 1. A point at time 1 sits exactly on the retention boundary. One duration keeps groups from nesting, since `mapshards_lost_point` already shows what nesting does. The second shard has only the local owner, which keeps the run near two minutes. QUORUM of one owner is still one, and the first shard still has a remote owner for hinted handoff.
- **The liveness properties in `pw_replicated`** are checked with two remote owners. That is enough for a hung peer and for results sent after a timeout. A channel one slot short is a leak case.
- **Durations {1, 4} over times 0..3** give a group nested strictly inside another, with a later start and an earlier end. With a duration ratio of 2 that nesting is impossible; a ratio of 4 is the smallest aligned one where it happens. Real shard-group durations are 1h, 1d and 7d, so the ratio is at least 7.

- **Two peers in `cs_service`** are enough for two handlers to race the lazy `CreateShard` of one missing shard. The first can create the shard between the second's `ShardNotFound` and its `CreateShard`. They also let one connection be accepted while `Close` is already waiting.
- **Three frames in `tlv_aligned`** are enough for each branch to be followed by another frame: a loop after a write, an end after an iterator, a rejected oversize frame and a cut-off frame.
- **One request per peer in `cs_service`** keeps the liveness graph small, and each request kind and frame outcome is still sent. The handler still loops back to `ReadType` after answering, so the idle-connection case that the watchdog must break is covered.

- **One shard with a local and a remote replica in `cw_write`** is enough for the peer's answer to decide the outcome. At ONE it counts when the local write fails, and ALL needs it. The peer may lack the shard, so the lazy `CreateShard` and retry run. The peer's `Close` can close the connection between the apply and the response.

### Findings

1. **Retained point silently dropped.** This is a code bug at line 227. `ShardGroupAt` inspects only the first group ending after `t`. After a shard-duration change, a nested group that ends earlier hides the outer group that contains `t`, and the point is silently dropped. Trace:
   1. The group `[1,2)` exists.
   2. The duration becomes 4.
   3. A batch arrives with points at times 1 and 0.
   4. `[0,4)` is created, but the point at 0 is dropped.
2. **Expired point written.** This is a divergence from the spec at line 190. The second loop of `MapShards` does not re-check `min`, so expired points that share a group with a retained point are written.
3. **Double `Close` panics.** This is a divergence from the spec at line 124: a second `PointsWriter.Close` closes a closed channel.
4. **A malformed CreateIterator request crashes the node.** This is a code bug at line 691. When `DecodeLV` fails, `processCreateIteratorRequest` calls `itr.Close()` on a nil interface. The panic is not recovered and ends the process. The spec says the handler replies once and closes.
5. **Unknown message type desyncs the stream.** This is a divergence from the spec at line 573. The default case of `handleConn` continues without consuming the frame's length and payload, so those bytes are parsed as frames. TLC finds one frame of type 9 with payload `<0,1,0,0>` that is acted on as an empty `WriteShardRequest` the peer never sent. The spec says the connection continues; what actually happens is that frames the peer never sent get executed.
6. **A dropped stale write is acknowledged as written.** This is a gap in the spec at line 612. The peer drops a write for a shard it lacks when the request has no database or retention policy, and answers code 0 (line 642). The spec calls the drop intended (4.4, 7), but it also says code 0 means OK and that a write succeeds once enough owners succeed (invariant 4). TLC composes the two. In its trace, at ANY, the peer's code 0 meets the level before the local writer has run, and `WritePoints` returns nil with the points stored and queued nowhere. At ONE the same ack suffices. At ALL, nil comes back with the points only on the writing node. A request lacks its database and retention policy when the sender's metadata no longer knows the shard group, for example one deleted mid-write.

## 5. Not modelled (yet), and why

- **`ReadTLV`** (lines 784–796) is an exported helper that nothing in this file calls. The `tlv` package itself is outside the repository; its framing is modelled from the spec.
- **Shards with no owners** (line 350) are excluded by the spec's data model, which says owners is a non-empty list. For such a shard the code would return `ErrWriteFailed`. That is a safe outcome.
- **In C4, a second `Service.Close` and the marshal error in `writeShardResponse`** are not modelled. A `WriteShardResponse` with a code and a message cannot fail to marshal. `processFieldDimensionsRequest` does not compile as written, because its closure has no final `return`; it is modelled as its two intended paths, each of which sends one answer.
- **The empty stubs** change no state.
- **Point encoding, tag hashing, logging and statistics** do not affect any property. A point is a (time, hash) pair.
- **The data race on `w.closing`** (lines 273 and 352 against 115) is modelled as a read of one open/closed flag, and `PointsWriter.Open` runs only after a `Close`, as in the server's restart. `Open` on a writer that is still open would leave running selects on the replaced channel. No later `Close` would reach them, and they would end only on their timer. Modelling this needs a channel identity per select, and the runs would no longer fit in their time bounds.
