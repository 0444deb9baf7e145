--------------------------- MODULE ClusterService ---------------------------
(***************************************************************************)
(* cluster.Service (points_writer.go, second file): the serve loop that   *)
(* accepts peer connections, one handleConn goroutine per connection with *)
(* its watchdog, the message handlers (write shard with lazy shard        *)
(* creation and one retry, execute statement, create iterator, field      *)
(* dimensions), the response, and Close with its wait group.  Each        *)
(* connection's client is a peer's ShardWriter: it sends one request and  *)
(* waits for the answer or for the connection to close.                   *)
(***************************************************************************)
EXTENDS Naturals, Sequences, FiniteSets

CONSTANTS
    Conns,          \* peer connections (model values)
    Shards,         \* shard ids (model values)
    Reqs,           \* the requests clients may send
    MaxReqs         \* bound on the requests a client sends on a connection

\* A request as the handler sees it: its message type, the shard, whether
\* it carries a database and retention policy, and how its frame reads:
\* "ok", "badlv" (tlv.ReadLV fails) or "baddecode" (unmarshal or
\* tlv.DecodeLV fails).
Types == {"write", "exec", "iter", "fields"}
Requests == [type : Types, shard : Shards, dbrp : BOOLEAN,
             frame : {"ok", "badlv", "baddecode"}]
ASSUME Reqs \subseteq Requests /\ MaxReqs \in Nat \ {0}
\* no request yet
NoReq == [type |-> "none", shard |-> "none", dbrp |-> FALSE, frame |-> "none"]

VARIABLES
    spc,        \* serve goroutine: init, check, accept, done
    lis,        \* listener: open, closed
    closing,    \* s.closing: open, closed
    cpc,        \* Close: idle, lis (listener closed), wait, returned
    wg,         \* s.wg counter
    cstate,     \* per connection: new (in the backlog), accepted
    hpc,        \* handleConn: none, read, process, create, retry, respond, ended
    wdog,       \* watchdog goroutine: none, run, done
    sock,       \* the socket: open, closed (by the server)
    cur,        \* the request being handled
    err,        \* the handler's pending error
    inbox,      \* requests sent by the client, not yet read
    reqs,       \* the requests the client sent on the connection, in order
    awaiting,   \* the client waits for an answer
    hungup,     \* the client closed its end
    resp,       \* answers the client got: <<request index, code>>, where
                \* code is 0, 1, or "reply" for the iterator and field
                \* dimensions responses
    shards,     \* the shards the local TSDB store holds
    stored,     \* <<conn, index>> of write requests the store applied
    crashed     \* a handler goroutine panicked: the process is gone

vars == <<spc, lis, closing, cpc, wg, cstate, hpc, wdog, sock, cur, err,
          inbox, reqs, awaiting, hungup, resp, shards, stored, crashed>>

-----------------------------------------------------------------------------
Init ==
    /\ spc = "init"
    /\ lis = "open"
    /\ closing = "open"
    /\ cpc = "idle"
    /\ wg = 0
    /\ cstate = [c \in Conns |-> "new"]
    /\ hpc = [c \in Conns |-> "none"]
    /\ wdog = [c \in Conns |-> "none"]
    /\ sock = [c \in Conns |-> "open"]
    /\ cur = [c \in Conns |-> NoReq]
    /\ err = [c \in Conns |-> FALSE]
    /\ inbox = [c \in Conns |-> <<>>]
    /\ reqs = [c \in Conns |-> <<>>]
    /\ awaiting = [c \in Conns |-> FALSE]
    /\ hungup = [c \in Conns |-> FALSE]
    /\ resp = [c \in Conns |-> <<>>]
    /\ shards \in SUBSET Shards
    /\ stored = {}
    /\ crashed = FALSE

(* Variant of Open starting serve without wg.Add(1).                       *)
OpenNoAdd ==
    /\ spc = "init"
    /\ spc' = "check"
    /\ UNCHANGED <<wg, lis, closing, cpc, cstate, hpc, wdog, sock, cur, err, inbox,
                   reqs, awaiting, hungup, resp, shards, stored, crashed>>

(* Service.Open: wg.Add(1) and start serve.                                *)
Open ==
    /\ spc = "init"
    /\ spc' = "check"
    /\ wg' = wg + 1
    /\ UNCHANGED <<lis, closing, cpc, cstate, hpc, wdog, sock, cur, err, inbox,
                   reqs, awaiting, hungup, resp, shards, stored, crashed>>

(* The top of serve's loop: return if s.closing is closed.                *)
ServeCheck ==
    /\ spc = "check"
    /\ IF closing = "closed"
          THEN spc' = "done" /\ wg' = wg - 1
          ELSE spc' = "accept" /\ UNCHANGED wg
    /\ UNCHANGED <<lis, closing, cpc, cstate, hpc, wdog, sock, cur, err, inbox,
                   reqs, awaiting, hungup, resp, shards, stored, crashed>>

(* Variant of Accept starting the handler without wg.Add(1).              *)
AcceptNoAdd(c) ==
    /\ spc = "accept"
    /\ lis = "open"
    /\ cstate[c] = "new"
    /\ cstate' = [cstate EXCEPT ![c] = "accepted"]
    /\ hpc' = [hpc EXCEPT ![c] = "read"]
    /\ wdog' = [wdog EXCEPT ![c] = "run"]
    /\ spc' = "check"
    /\ UNCHANGED <<wg, lis, closing, cpc, sock, cur, err, inbox, reqs, awaiting,
                   hungup, resp, shards, stored, crashed>>

(* Listener.Accept hands over a connection: wg.Add(1), then handleConn    *)
(* starts its watchdog.                                                   *)
Accept(c) ==
    /\ spc = "accept"
    /\ lis = "open"
    /\ cstate[c] = "new"
    /\ cstate' = [cstate EXCEPT ![c] = "accepted"]
    /\ wg' = wg + 1
    /\ hpc' = [hpc EXCEPT ![c] = "read"]
    /\ wdog' = [wdog EXCEPT ![c] = "run"]
    /\ spc' = "check"
    /\ UNCHANGED <<lis, closing, cpc, sock, cur, err, inbox, reqs, awaiting,
                   hungup, resp, shards, stored, crashed>>

(* Accept on a closed listener fails: serve returns if the error text     *)
(* contains "connection closed", else logs it and loops.                  *)
AcceptError ==
    /\ spc = "accept"
    /\ lis = "closed"
    /\ \/ spc' = "done" /\ wg' = wg - 1
       \/ spc' = "check" /\ UNCHANGED wg
    /\ UNCHANGED <<lis, closing, cpc, cstate, hpc, wdog, sock, cur, err, inbox,
                   reqs, awaiting, hungup, resp, shards, stored, crashed>>

-----------------------------------------------------------------------------
(* handleConn.  A step that makes the handler return runs its defers:     *)
(* close(closing), which wakes the watchdog, and the serve closure's       *)
(* wg.Done.                                                               *)
HandlerReturn(c) ==
    /\ hpc' = [hpc EXCEPT ![c] = "ended"]
    /\ wg' = wg - 1

(* The client reads the answer to its last request.                       *)
Answer(c, code) ==
    /\ resp' = [resp EXCEPT ![c] = Append(@, <<Len(reqs[c]), code>>)]
    /\ awaiting' = [awaiting EXCEPT ![c] = FALSE]

(* tlv.ReadType on a socket the watchdog closed fails: return.            *)
ReadError(c) ==
    /\ hpc[c] = "read"
    /\ sock[c] = "closed"
    /\ HandlerReturn(c)
    /\ UNCHANGED <<spc, lis, closing, cpc, cstate, wdog, sock, cur, err, inbox,
                   reqs, awaiting, hungup, resp, shards, stored, crashed>>

(* tlv.ReadType returns EOF after the client closed its end: return.      *)
ReadEOF(c) ==
    /\ hpc[c] = "read"
    /\ sock[c] = "open"
    /\ inbox[c] = <<>>
    /\ hungup[c]
    /\ HandlerReturn(c)
    /\ UNCHANGED <<spc, lis, closing, cpc, cstate, wdog, sock, cur, err, inbox,
                   reqs, awaiting, hungup, resp, shards, stored, crashed>>

(* The next frame is read: its type byte and, for a write shard or        *)
(* execute statement request, tlv.ReadLV.  A failed ReadLV makes the      *)
(* handler return without an answer.                                      *)
ReadRequest(c) ==
    /\ hpc[c] = "read"
    /\ sock[c] = "open"
    /\ inbox[c] # <<>>
    /\ Head(inbox[c]).type \in {"write", "exec"}
    /\ inbox' = [inbox EXCEPT ![c] = Tail(@)]
    /\ cur' = [cur EXCEPT ![c] = Head(inbox[c])]
    /\ IF Head(inbox[c]).frame = "badlv"
          THEN HandlerReturn(c)
          ELSE hpc' = [hpc EXCEPT ![c] = "process"] /\ UNCHANGED wg
    /\ UNCHANGED <<spc, lis, closing, cpc, cstate, wdog, sock, err, reqs,
                   awaiting, hungup, resp, shards, stored, crashed>>

(* processCreateIteratorRequest: a request that decodes is answered, the  *)
(* nil iterator is not streamed, the connection is closed (its defer) and *)
(* handleConn returns.                                                    *)
ServeIterator(c) ==
    /\ hpc[c] = "read"
    /\ sock[c] = "open"
    /\ inbox[c] # <<>>
    /\ Head(inbox[c]).type = "iter"
    /\ Head(inbox[c]).frame = "ok"
    /\ inbox' = [inbox EXCEPT ![c] = Tail(@)]
    /\ cur' = [cur EXCEPT ![c] = Head(inbox[c])]
    /\ Answer(c, "reply")
    /\ sock' = [sock EXCEPT ![c] = "closed"]
    /\ HandlerReturn(c)
    /\ UNCHANGED <<spc, lis, closing, cpc, cstate, wdog, err, reqs, hungup,
                   shards, stored, crashed>>

(* processCreateIteratorRequest: when tlv.DecodeLV fails, the error path  *)
(* calls itr.Close() on the nil iterator; the panic is not recovered and  *)
(* ends the process.                                                      *)
IteratorPanic(c) ==
    /\ hpc[c] = "read"
    /\ sock[c] = "open"
    /\ inbox[c] # <<>>
    /\ Head(inbox[c]).type = "iter"
    /\ Head(inbox[c]).frame # "ok"
    /\ inbox' = [inbox EXCEPT ![c] = Tail(@)]
    /\ cur' = [cur EXCEPT ![c] = Head(inbox[c])]
    /\ crashed' = TRUE
    /\ UNCHANGED <<spc, lis, closing, cpc, wg, cstate, hpc, wdog, sock, err,
                   reqs, awaiting, hungup, resp, shards, stored>>

(* processFieldDimensionsRequest: both its paths encode one response;     *)
(* then handleConn returns.                                               *)
ServeFieldDimensions(c) ==
    /\ hpc[c] = "read"
    /\ sock[c] = "open"
    /\ inbox[c] # <<>>
    /\ Head(inbox[c]).type = "fields"
    /\ inbox' = [inbox EXCEPT ![c] = Tail(@)]
    /\ cur' = [cur EXCEPT ![c] = Head(inbox[c])]
    /\ Answer(c, "reply")
    /\ HandlerReturn(c)
    /\ UNCHANGED <<spc, lis, closing, cpc, cstate, wdog, sock, err, reqs,
                   hungup, shards, stored, crashed>>

(* Variant of ProcessExecute that never writes the response.              *)
ProcessExecuteNoResponse(c) ==
    /\ hpc[c] = "process"
    /\ cur[c].type = "exec"
    /\ hpc' = [hpc EXCEPT ![c] = "read"]
    /\ UNCHANGED <<spc, lis, closing, cpc, wg, cstate, wdog, sock, cur, err,
                   inbox, reqs, awaiting, hungup, resp, shards, stored, crashed>>

(* processExecuteStatementRequest returns nil; the answer follows.        *)
ProcessExecute(c) ==
    /\ hpc[c] = "process"
    /\ cur[c].type = "exec"
    /\ hpc' = [hpc EXCEPT ![c] = "respond"]
    /\ err' = [err EXCEPT ![c] = FALSE]
    /\ UNCHANGED <<spc, lis, closing, cpc, wg, cstate, wdog, sock, cur,
                   inbox, reqs, awaiting, hungup, resp, shards, stored, crashed>>

(* TSDBStore.WriteToShard on a shard the store holds: the points are      *)
(* applied, or the store fails.                                           *)
StoreWrite(c) ==
    \/ /\ stored' = stored \cup {<<c, Len(reqs[c])>>}
       /\ err' = [err EXCEPT ![c] = FALSE]
    \/ /\ UNCHANGED stored
       /\ err' = [err EXCEPT ![c] = TRUE]

(* processWriteShardRequest up to the first WriteToShard: an undecodable  *)
(* request fails; a held shard is written; for a missing shard the        *)
(* request is dropped (nil) without a database and retention policy, and  *)
(* goes on to CreateShard with them.                                      *)
ProcessWrite(c) ==
    /\ hpc[c] = "process"
    /\ cur[c].type = "write"
    /\ LET r == cur[c] IN
       \/ /\ r.frame = "baddecode"
          /\ err' = [err EXCEPT ![c] = TRUE]
          /\ hpc' = [hpc EXCEPT ![c] = "respond"]
          /\ UNCHANGED stored
       \/ /\ r.frame = "ok"
          /\ r.shard \in shards
          /\ StoreWrite(c)
          /\ hpc' = [hpc EXCEPT ![c] = "respond"]
       \/ /\ r.frame = "ok"
          /\ r.shard \notin shards
          /\ ~r.dbrp
          /\ err' = [err EXCEPT ![c] = FALSE]
          /\ hpc' = [hpc EXCEPT ![c] = "respond"]
          /\ UNCHANGED stored
       \/ /\ r.frame = "ok"
          /\ r.shard \notin shards
          /\ r.dbrp
          /\ hpc' = [hpc EXCEPT ![c] = "create"]
          /\ UNCHANGED <<err, stored>>
    /\ UNCHANGED <<spc, lis, closing, cpc, wg, cstate, wdog, sock, cur,
                   inbox, reqs, awaiting, hungup, resp, shards, crashed>>

(* TSDBStore.CreateShard(db, rp, id, true): the shard exists afterwards   *)
(* (creating a held shard is a no-op), or it fails and the error is       *)
(* returned.                                                              *)
CreateShard(c) ==
    /\ hpc[c] = "create"
    /\ \/ /\ shards' = shards \cup {cur[c].shard}
          /\ hpc' = [hpc EXCEPT ![c] = "retry"]
          /\ UNCHANGED err
       \/ /\ err' = [err EXCEPT ![c] = TRUE]
          /\ hpc' = [hpc EXCEPT ![c] = "respond"]
          /\ UNCHANGED shards
    /\ UNCHANGED <<spc, lis, closing, cpc, wg, cstate, wdog, sock, cur,
                   inbox, reqs, awaiting, hungup, resp, stored, crashed>>

(* Variant of Retry that drops the error of the second WriteToShard.      *)
RetryIgnoresError(c) ==
    /\ hpc[c] = "retry"
    /\ \/ stored' = stored \cup {<<c, Len(reqs[c])>>}
       \/ UNCHANGED stored
    /\ err' = [err EXCEPT ![c] = FALSE]
    /\ hpc' = [hpc EXCEPT ![c] = "respond"]
    /\ UNCHANGED <<spc, lis, closing, cpc, wg, cstate, wdog, sock, cur,
                   inbox, reqs, awaiting, hungup, resp, shards, crashed>>

(* The one retry of WriteToShard; its outcome is final.                   *)
Retry(c) ==
    /\ hpc[c] = "retry"
    /\ StoreWrite(c)
    /\ hpc' = [hpc EXCEPT ![c] = "respond"]
    /\ UNCHANGED <<spc, lis, closing, cpc, wg, cstate, wdog, sock, cur,
                   inbox, reqs, awaiting, hungup, resp, shards, crashed>>

(* writeShardResponse: code 1 on an error, else 0.  tlv.WriteTLV on a     *)
(* socket the watchdog closed fails and is only logged.  The handler      *)
(* loops to the next frame.                                               *)
Respond(c) ==
    /\ hpc[c] = "respond"
    /\ IF sock[c] = "open"
          THEN Answer(c, IF err[c] THEN 1 ELSE 0)
          ELSE UNCHANGED <<resp, awaiting>>
    /\ hpc' = [hpc EXCEPT ![c] = "read"]
    /\ err' = [err EXCEPT ![c] = FALSE]
    /\ UNCHANGED <<spc, lis, closing, cpc, wg, cstate, wdog, sock, cur,
                   inbox, reqs, hungup, shards, stored, crashed>>

(* Variant of Watchdog that waits only for the handler's own closing.     *)
WatchdogOwnOnly(c) ==
    /\ wdog[c] = "run"
    /\ hpc[c] = "ended"
    /\ sock' = [sock EXCEPT ![c] = "closed"]
    /\ wdog' = [wdog EXCEPT ![c] = "done"]
    /\ UNCHANGED <<spc, lis, closing, cpc, wg, cstate, hpc, cur, err, inbox,
                   reqs, awaiting, hungup, resp, shards, stored, crashed>>

(* The watchdog: once the handler returned or s.closing is closed, it     *)
(* closes the socket.                                                     *)
Watchdog(c) ==
    /\ wdog[c] = "run"
    /\ hpc[c] = "ended" \/ closing = "closed"
    /\ sock' = [sock EXCEPT ![c] = "closed"]
    /\ wdog' = [wdog EXCEPT ![c] = "done"]
    /\ UNCHANGED <<spc, lis, closing, cpc, wg, cstate, hpc, cur, err, inbox,
                   reqs, awaiting, hungup, resp, shards, stored, crashed>>

-----------------------------------------------------------------------------
(* The peer's side of a connection: a ShardWriter or remote iterator that *)
(* sends one request, then waits for the answer or for the connection to  *)
(* close.  A connection still in the backlog is reset when the listener   *)
(* closes.                                                                *)
Dead(c) == sock[c] = "closed" \/ (cstate[c] = "new" /\ lis = "closed")

ClientSend(c) ==
    /\ ~awaiting[c]
    /\ ~hungup[c]
    /\ ~Dead(c)
    /\ Len(reqs[c]) < MaxReqs
    /\ \E r \in Reqs :
          /\ inbox' = [inbox EXCEPT ![c] = Append(@, r)]
          /\ reqs' = [reqs EXCEPT ![c] = Append(@, r)]
    /\ awaiting' = [awaiting EXCEPT ![c] = TRUE]
    /\ UNCHANGED <<spc, lis, closing, cpc, wg, cstate, hpc, wdog, sock, cur,
                   err, hungup, resp, shards, stored, crashed>>

ClientSeesClose(c) ==
    /\ awaiting[c]
    /\ Dead(c)
    /\ awaiting' = [awaiting EXCEPT ![c] = FALSE]
    /\ hungup' = [hungup EXCEPT ![c] = TRUE]
    /\ UNCHANGED <<spc, lis, closing, cpc, wg, cstate, hpc, wdog, sock, cur,
                   err, inbox, reqs, resp, shards, stored, crashed>>

ClientHangup(c) ==
    /\ ~awaiting[c]
    /\ ~hungup[c]
    /\ hungup' = [hungup EXCEPT ![c] = TRUE]
    /\ UNCHANGED <<spc, lis, closing, cpc, wg, cstate, hpc, wdog, sock, cur,
                   err, inbox, reqs, awaiting, resp, shards, stored, crashed>>

-----------------------------------------------------------------------------
(* Service.Close: close the listener, close(s.closing), s.wg.Wait().      *)
CloseListener ==
    /\ cpc = "idle"
    /\ spc # "init"
    /\ lis' = "closed"
    /\ cpc' = "lis"
    /\ UNCHANGED <<spc, closing, wg, cstate, hpc, wdog, sock, cur, err, inbox,
                   reqs, awaiting, hungup, resp, shards, stored, crashed>>

CloseSignal ==
    /\ cpc = "lis"
    /\ closing' = "closed"
    /\ cpc' = "wait"
    /\ UNCHANGED <<spc, lis, wg, cstate, hpc, wdog, sock, cur, err, inbox,
                   reqs, awaiting, hungup, resp, shards, stored, crashed>>

CloseWait ==
    /\ cpc = "wait"
    /\ wg = 0
    /\ cpc' = "returned"
    /\ UNCHANGED <<spc, lis, closing, wg, cstate, hpc, wdog, sock, cur, err,
                   inbox, reqs, awaiting, hungup, resp, shards, stored, crashed>>

-----------------------------------------------------------------------------
(* Every handler step of connection c.                                     *)
Handler(c) ==
    \/ ReadError(c) \/ ReadEOF(c) \/ ReadRequest(c)
    \/ ServeIterator(c) \/ IteratorPanic(c) \/ ServeFieldDimensions(c)
    \/ ProcessExecute(c) \/ ProcessWrite(c) \/ CreateShard(c) \/ Retry(c)
    \/ Respond(c)

(* Nothing runs once a handler panicked.                                   *)
Next ==
    /\ ~crashed
    /\ \/ Open \/ ServeCheck \/ AcceptError
       \/ CloseListener \/ CloseSignal \/ CloseWait
       \/ \E c \in Conns :
             \/ Accept(c) \/ Handler(c) \/ Watchdog(c)
             \/ ClientSend(c) \/ ClientSeesClose(c) \/ ClientHangup(c)

(* Goroutines that can run are eventually scheduled: serve, the handlers, *)
(* the watchdogs, Close once called, and the server's startup Open.  A    *)
(* client need not send or hang up, and the server need not call Close.   *)
Fairness ==
    /\ WF_vars(~crashed /\ (Open \/ ServeCheck \/ AcceptError))
    /\ WF_vars(~crashed /\ (CloseSignal \/ CloseWait))
    /\ \A c \in Conns :
          /\ WF_vars(~crashed /\ Accept(c))
          /\ WF_vars(~crashed /\ Handler(c))
          /\ WF_vars(~crashed /\ Watchdog(c))
          /\ WF_vars(~crashed /\ ClientSeesClose(c))

Spec == Init /\ [][Next]_vars /\ Fairness

-----------------------------------------------------------------------------
(* Properties                                                              *)

(* The type invariant; in particular s.wg never goes negative (sync       *)
(* panics on a negative WaitGroup counter).                               *)
TypeOK ==
    /\ spc \in {"init", "check", "accept", "done"}
    /\ cpc \in {"idle", "lis", "wait", "returned"}
    /\ wg \in Nat
    /\ \A c \in Conns :
          /\ hpc[c] \in {"none", "read", "process", "create", "retry",
                         "respond", "ended"}
          /\ Len(reqs[c]) <= MaxReqs
          /\ \A j \in 1..Len(resp[c]) : resp[c][j][1] \in 1..Len(reqs[c])
    /\ shards \subseteq Shards

(* A write shard request carrying a database and retention policy that   *)
(* the peer sees answered with code 0 was applied by the local store,     *)
(* whether the shard was held or created on the way (processWriteShard-   *)
(* Request's create-and-retry path).  Only the intended drop of a request *)
(* without them answers 0 for points never stored.                        *)
AckedWritesStored ==
    \A c \in Conns : \A j \in 1..Len(resp[c]) :
        LET k == resp[c][j][1]
            r == reqs[c][k]
        IN r.type = "write" /\ r.dbrp /\ resp[c][j][2] = 0 =>
              <<c, k>> \in stored

(* Spec 5: Close does not return until serve and every connection handler *)
(* it accepted have returned (the wait group of Open, serve and Close).   *)
CloseWaitsForHandlers ==
    cpc = "returned" =>
        /\ spc = "done"
        /\ \A c \in Conns : hpc[c] \in {"none", "ended"}

(* Close, once called, returns: the watchdogs unblock handlers waiting on *)
(* idle connections by closing their sockets when s.closing is closed.    *)
CloseTerminates == (cpc # "idle") ~> (cpc = "returned" \/ crashed)

(* A peer waiting for the answer to a request eventually gets it or sees  *)
(* the connection closed; no request is left hanging.                     *)
RequestsAnswered ==
    \A c \in Conns : awaiting[c] ~> (~awaiting[c] \/ crashed)

(* No request a peer can send brings the node down.                       *)
NoCrash == ~crashed

=============================================================================
