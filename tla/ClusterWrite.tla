---------------------------- MODULE ClusterWrite ----------------------------
(***************************************************************************)
(* The write path across two nodes: a WritePoints call on node Self       *)
(* (PointsWriter) whose shards have replicas on node Peer, composed with   *)
(* the cluster service of Peer (ClusterService).  The remote writer       *)
(* goroutine of a replica on Peer calls ShardWriter.WriteShard, which      *)
(* sends one WriteShardRequest on its own connection to Peer's listener    *)
(* and waits for the WriteShardResponse; the connection may be closed by   *)
(* Peer's shutdown, and the call may give up first.  Both modules are      *)
(* instantiated on variables of their own; the ShardWriter, which is not   *)
(* in this repository, is modelled from the spec (C3, sections 6 and 7).   *)
(***************************************************************************)
EXTENDS Naturals, FiniteSets, Sequences

CONSTANTS
    Nodes,          \* data nodes
    Self,           \* the node running WritePoints
    Peer,           \* the node whose cluster service is modelled
    Shards,         \* shard ids
    Owners,         \* Owners[s]: the owners of shard s, among Self and Peer
    WithDbrp        \* whether a request carries its database and retention
                    \* policy: TRUE when the sender's metadata knows them

ASSUME Peer \in Nodes \ {Self} /\ WithDbrp \subseteq BOOLEAN

VARIABLES
    \* WritePoints on Self (PointsWriter's variables)
    consistency, mapped, wclosing, closes, panicked, wpc, res, local, hh, ch,
    shardpc, wrote, recvd, writeError, sres, top, tcount, batch,
    \* the cluster service of Peer (ClusterService's variables)
    serve, lis, sclosing, cpc, wg, cstate, hpc, wdog, sock, cur, err, inbox,
    reqs, awaiting, hungup, resp, shards, applied, crashed

pwvars == <<consistency, mapped, wclosing, closes, panicked, wpc, res, local,
            hh, ch, shardpc, wrote, recvd, writeError, sres, top, tcount, batch>>
csvars == <<serve, lis, sclosing, cpc, wg, cstate, hpc, wdog, sock, cur, err,
            inbox, reqs, awaiting, hungup, resp, shards, applied, crashed>>
vars == <<pwvars, csvars>>

PW == INSTANCE PointsWriter
    WITH closing <- wclosing, stored <- local, spc <- shardpc, MaxCloses <- 1

(* The replicas on Peer: the remote goroutine of writeToShard calls the    *)
(* ShardWriter for these (w.Node.ID != owner.NodeID), each on its own      *)
(* connection to Peer.                                                     *)
RemoteWorkers == {w \in PW!Workers : w[2] = Peer}

(* The WriteShardRequest of shard s as the ShardWriter encodes it.        *)
ShardRequest(s, dbrp) ==
    [type |-> "write", shard |-> s, dbrp |-> dbrp, frame |-> "ok"]

ShardRequests == {ShardRequest(s, b) : s \in Shards, b \in WithDbrp}

CS == INSTANCE ClusterService
    WITH Conns <- RemoteWorkers, Reqs <- ShardRequests, MaxReqs <- 1,
         spc <- serve, closing <- sclosing, stored <- applied

(* The replicas Peer's store applied.                                      *)
Applied == {w \in RemoteWorkers : <<w, 1>> \in applied}

-----------------------------------------------------------------------------
Init == PW!Init /\ CS!Init

(* ShardWriter.WriteShard: the request goes out on the replica's          *)
(* connection and the writer waits; a connection reset in Peer's backlog  *)
(* after its listener closed fails the call at once with a transport      *)
(* error, which is retryable and goes on to hinted handoff.               *)
WriteShard(w) ==
    /\ wpc[w] = "run"
    /\ w[2] # Self
    /\ IF CS!Dead(w)
          THEN /\ res' = [res EXCEPT ![w] = "errRemote"]
               /\ wpc' = [wpc EXCEPT ![w] = "handoff"]
               /\ UNCHANGED <<inbox, reqs, awaiting>>
          ELSE /\ \E b \in WithDbrp :
                    /\ inbox' = [inbox EXCEPT ![w] = Append(@, ShardRequest(w[1], b))]
                    /\ reqs' = [reqs EXCEPT ![w] = Append(@, ShardRequest(w[1], b))]
               /\ awaiting' = [awaiting EXCEPT ![w] = TRUE]
               /\ wpc' = [wpc EXCEPT ![w] = "call"]
               /\ UNCHANGED res
    /\ UNCHANGED <<consistency, mapped, wclosing, closes, panicked, local, hh,
                   ch, shardpc, wrote, recvd, writeError, sres, top, tcount, batch>>
    /\ UNCHANGED <<serve, lis, sclosing, cpc, wg, cstate, hpc, wdog, sock, cur,
                   err, hungup, resp, shards, applied, crashed>>

(* Variant of WriteShardResponse that takes every answer for success.     *)
WriteShardResponseIgnoresCode(w) ==
    /\ wpc[w] = "call"
    /\ ~awaiting[w]
    /\ resp[w] # <<>>
    /\ res' = [res EXCEPT ![w] = "ok"]
    /\ wpc' = [wpc EXCEPT ![w] = "send"]
    /\ UNCHANGED <<consistency, mapped, wclosing, closes, panicked, local, hh,
                   ch, shardpc, wrote, recvd, writeError, sres, top, tcount, batch>>
    /\ UNCHANGED csvars

(* The WriteShardResponse arrives: code 0 is nil; a non-zero code is an   *)
(* error carrying Peer's message, which may be the store's field type     *)
(* conflict (not retryable) or any other error (retryable).               *)
WriteShardResponse(w) ==
    /\ wpc[w] = "call"
    /\ ~awaiting[w]
    /\ resp[w] # <<>>
    /\ \E r \in IF resp[w][1][2] = 0 THEN {"ok"} ELSE {"errRemote", "errConflict"} :
          /\ res' = [res EXCEPT ![w] = r]
          /\ wpc' = [wpc EXCEPT ![w] = IF r # "ok" /\ PW!IsRetryable(r)
                                           THEN "handoff" ELSE "send"]
    /\ UNCHANGED <<consistency, mapped, wclosing, closes, panicked, local, hh,
                   ch, shardpc, wrote, recvd, writeError, sres, top, tcount, batch>>
    /\ UNCHANGED csvars

(* The call fails before an answer: Peer closed the connection, or the     *)
(* writer's deadline passed (Peer may still apply the request).  The      *)
(* writer closes its end; the transport error goes on to hinted handoff.  *)
WriteShardError(w) ==
    /\ wpc[w] = "call"
    /\ awaiting[w]
    /\ res' = [res EXCEPT ![w] = "errRemote"]
    /\ wpc' = [wpc EXCEPT ![w] = "handoff"]
    /\ awaiting' = [awaiting EXCEPT ![w] = FALSE]
    /\ hungup' = [hungup EXCEPT ![w] = TRUE]
    /\ UNCHANGED <<consistency, mapped, wclosing, closes, panicked, local, hh,
                   ch, shardpc, wrote, recvd, writeError, sres, top, tcount, batch>>
    /\ UNCHANGED <<serve, lis, sclosing, cpc, wg, cstate, hpc, wdog, sock, cur,
                   err, inbox, reqs, resp, shards, applied, crashed>>

(* The steps of WritePoints on Self other than the remote calls.          *)
WriterStep ==
    /\ \/ \E s \in Shards : PW!Spawn(s) \/ PW!Receive(s) \/ PW!TimeoutFire(s)
                            \/ PW!ShardClosed(s) \/ PW!ShardSend(s)
       \/ \E w \in PW!Workers : PW!LocalWrite(w) \/ PW!Handoff(w) \/ PW!Send(w)
       \/ PW!Collect \/ PW!BatchClosed \/ PW!Shutdown \/ PW!Open
    /\ UNCHANGED csvars

(* The steps of Peer's cluster service: serve, its handlers and watchdogs, *)
(* and Close.                                                              *)
PeerStep ==
    /\ \/ CS!Open \/ CS!ServeCheck \/ CS!AcceptError
       \/ CS!CloseListener \/ CS!CloseSignal \/ CS!CloseWait
       \/ \E c \in RemoteWorkers : CS!Accept(c) \/ CS!Handler(c) \/ CS!Watchdog(c)
    /\ UNCHANGED pwvars

Next ==
    \/ WriterStep
    \/ PeerStep
    \/ \E w \in RemoteWorkers :
          WriteShard(w) \/ WriteShardResponse(w) \/ WriteShardError(w)

Spec == Init /\ [][Next]_vars

-----------------------------------------------------------------------------
(* Properties                                                              *)

(* A replica on Peer that the writer counts as written was applied by     *)
(* Peer's store, or (at ANY) queued in hinted handoff: a WriteShard-       *)
(* Response with code 0 means the points are stored on Peer.  This is what *)
(* spec invariant 4 needs of an "owner-success" across the RPC.            *)
RemoteAckApplied ==
    \A w \in RemoteWorkers :
        res[w] = "ok" => w \in Applied \cup hh

(* The write path across both nodes implements ShardWriteAbstract, with    *)
(* Peer's applied writes as the durable replicas on Peer: no replica is    *)
(* lost, the call decides once, and it answers nil only when every shard   *)
(* of the batch is acknowledged at the level by replicas really stored.    *)
Abstract == INSTANCE ShardWriteAbstract
    WITH level <- consistency, targets <- mapped, durable <- local \cup Applied,
         queued <- hh, result <- batch
ImplementsShardWrite == Abstract!ASpec

=============================================================================
