---------------------------- MODULE PointsWriter ----------------------------
(***************************************************************************)
(* The replicated write fan-out of cluster.PointsWriter: one WritePoints   *)
(* call (points_writer.go) after MapShards has bucketed its points.  Each  *)
(* occupied shard gets a goroutine running writeToShard, which starts one  *)
(* writer goroutine per owner (local store or remote ShardWriter with      *)
(* hinted-handoff fallback) and collects their results on a channel of     *)
(* capacity len(Owners) until the consistency level is met, the write      *)
(* timeout fires, the writer is closed, or every owner has replied.        *)
(* WritePoints collects the shard results on a second buffered channel and *)
(* returns on the first error.  Open and Close run concurrently with the   *)
(* write.                                                                  *)
(***************************************************************************)
EXTENDS Naturals, FiniteSets, Sequences

CONSTANTS
    Nodes,          \* data nodes (model values)
    Self,           \* w.Node.ID, the node running the PointsWriter
    Shards,         \* shard ids the mapping may hold (model values)
    Owners,         \* Owners[s]: the owner nodes of shard s (shard.Owners)
    MaxCloses       \* bound on the number of Close calls of the lifecycle

ASSUME Self \in Nodes
ASSUME Owners \in [Shards -> SUBSET Nodes \ {{}}]
ASSUME MaxCloses \in Nat

Levels == {"any", "one", "quorum", "all"}    \* models.ConsistencyLevel

\* What a writer goroutine sends on the result channel: nil or an error
\* (the error's origin is all that the model keeps of its text).
Ok == "ok"
Errors == {"errLocal", "errRemote", "errConflict", "errHH"}
Results == {Ok} \cup Errors
None == "none"

\* What writeToShard and WritePoints return.
Outcomes == {"ok", "timeout", "partial", "failed", "writefailed"}

Workers == {<<s, o>> \in Shards \X Nodes : o \in Owners[s]}

VARIABLES
    consistency,    \* the consistency level of the call
    mapped,         \* the shard ids of shardMappings.Points
    closing,        \* w.closing: "open" or "closed"
    closes,         \* number of Close calls so far
    panicked,       \* a Close closed an already closed channel
    wpc,            \* writer goroutine of each (shard, owner)
    res,            \* the result a writer goroutine is about to send
    stored,         \* (shard, owner) pairs whose store holds the points
    hh,             \* (shard, owner) pairs queued in hinted handoff
    ch,             \* per-shard result channel
    spc,            \* per-shard goroutine: idle, wait, send, done
    wrote,          \* writeToShard's wrote counter
    recvd,          \* iterations of writeToShard's `for range shard.Owners`
    writeError,     \* writeToShard's first error
    sres,           \* what writeToShard returned
    top,            \* WritePoints' channel of shard results
    tcount,         \* iterations of WritePoints' collection loop
    batch           \* what WritePoints returned

vars == <<consistency, mapped, closing, closes, panicked, wpc, res, stored,
          hh, ch, spc, wrote, recvd, writeError, sres, top, tcount, batch>>

N(s) == Cardinality(Owners[s])

-----------------------------------------------------------------------------
(* Variant of Required that forgets the +1 of a majority.                 *)
RequiredNoPlusOne(s) ==
    CASE consistency \in {"any", "one"} -> 1
      [] consistency = "quorum"         -> N(s) \div 2
      [] OTHER                          -> N(s)

(* The required number of acknowledgements (writeToShard's prologue).     *)
Required(s) ==
    CASE consistency \in {"any", "one"} -> 1
      [] consistency = "quorum"         -> N(s) \div 2 + 1
      [] OTHER                          -> N(s)

(* Variant of Capacity one slot short of one per owner.                   *)
CapacityOneLess(s) == N(s) - 1

(* The capacity of writeToShard's result channel.                         *)
Capacity(s) == N(s)

(* isRetryable: a field type conflict is never queued for retry.          *)
IsRetryable(err) == err # "errConflict"

-----------------------------------------------------------------------------
(* WritePoints after MapShards: the buckets are fixed, nothing has run.   *)
Init ==
    /\ consistency \in Levels
    /\ mapped \in SUBSET Shards \ {{}}
    /\ closing = "open"
    /\ closes = 0
    /\ panicked = FALSE
    /\ wpc = [w \in Workers |-> "idle"]
    /\ res = [w \in Workers |-> None]
    /\ stored = {}
    /\ hh = {}
    /\ ch = [s \in Shards |-> <<>>]
    /\ spc = [s \in Shards |-> "idle"]
    /\ wrote = [s \in Shards |-> 0]
    /\ recvd = [s \in Shards |-> 0]
    /\ writeError = [s \in Shards |-> None]
    /\ sres = [s \in Shards |-> None]
    /\ top = <<>>
    /\ tcount = 0
    /\ batch = None

(* A shard goroutine enters writeToShard: it computes `required`, makes   *)
(* the channel, starts the goroutines of every owner and arms the timer.  *)
(* The goroutine of the branch that does not apply to an owner (local for *)
(* a remote owner, remote for the local one) returns without sending.     *)
Spawn(s) ==
    /\ s \in mapped
    /\ spc[s] = "idle"
    /\ spc' = [spc EXCEPT ![s] = "wait"]
    /\ wpc' = [w \in Workers |-> IF w[1] = s THEN "run" ELSE wpc[w]]
    /\ UNCHANGED <<consistency, mapped, closing, closes, panicked, res, stored,
                   hh, ch, wrote, recvd, writeError, sres, top, tcount, batch>>

(* The local owner: TSDBStore.WriteToShard succeeds, fails, or fails with *)
(* a field type conflict; its result is sent as is.                       *)
LocalWrite(w) ==
    /\ w[2] = Self
    /\ wpc[w] = "run"
    /\ \E r \in {Ok, "errLocal", "errConflict"} :
          /\ res' = [res EXCEPT ![w] = r]
          /\ stored' = IF r = Ok THEN stored \cup {w} ELSE stored
    /\ wpc' = [wpc EXCEPT ![w] = "send"]
    /\ UNCHANGED <<consistency, mapped, closing, closes, panicked, hh, ch, spc,
                   wrote, recvd, writeError, sres, top, tcount, batch>>

(* A remote owner: ShardWriter.WriteShard answers (or never does: this    *)
(* action is not fair).  A transport error may come after the peer stored *)
(* the points.  A retryable error goes on to hinted handoff.              *)
RemoteWrite(w) ==
    /\ w[2] # Self
    /\ wpc[w] = "run"
    /\ \E r \in {Ok, "errRemote", "errConflict"} :
          /\ res' = [res EXCEPT ![w] = r]
          /\ \/ r \in {Ok, "errRemote"} /\ stored' = stored \cup {w}
             \/ r # Ok /\ stored' = stored
          /\ wpc' = [wpc EXCEPT ![w] = IF r # Ok /\ IsRetryable(r)
                                           THEN "handoff" ELSE "send"]
    /\ UNCHANGED <<consistency, mapped, closing, closes, panicked, hh, ch, spc,
                   wrote, recvd, writeError, sres, top, tcount, batch>>

(* HintedHandoff.WriteShard after a retryable remote error: its own error *)
(* is sent if it fails; if it succeeds, nil is sent at ANY and the        *)
(* original remote error otherwise.                                       *)
Handoff(w) ==
    /\ wpc[w] = "handoff"
    /\ \/ /\ hh' = hh \cup {w}
          /\ res' = [res EXCEPT ![w] = IF consistency = "any" THEN Ok ELSE @]
       \/ /\ hh' = hh
          /\ res' = [res EXCEPT ![w] = "errHH"]
    /\ wpc' = [wpc EXCEPT ![w] = "send"]
    /\ UNCHANGED <<consistency, mapped, closing, closes, panicked, stored, ch,
                   spc, wrote, recvd, writeError, sres, top, tcount, batch>>

(* `ch <- &AsyncWriteResult{owner, err}`: blocks while the channel is     *)
(* full, also after writeToShard has returned and stopped reading.        *)
Send(w) ==
    /\ wpc[w] = "send"
    /\ Len(ch[w[1]]) < Capacity(w[1])
    /\ ch' = [ch EXCEPT ![w[1]] = Append(@, res[w])]
    /\ wpc' = [wpc EXCEPT ![w] = "done"]
    /\ UNCHANGED <<consistency, mapped, closing, closes, panicked, res, stored,
                   hh, spc, wrote, recvd, writeError, sres, top, tcount, batch>>

(* What writeToShard returns once every owner has replied without the     *)
(* level being met.                                                        *)
Finish(wr, err) ==
    IF wr > 0 THEN "partial" ELSE IF err # None THEN "failed" ELSE "writefailed"

(* writeToShard returns `out`: the shard goroutine goes on to send it.     *)
Return(s, out) ==
    /\ spc' = [spc EXCEPT ![s] = "send"]
    /\ sres' = [sres EXCEPT ![s] = out]

(* Variant of Receive whose loop stops one result short.                  *)
ReceiveEarlyFinish(s) ==
    /\ spc[s] = "wait"
    /\ ch[s] # <<>>
    /\ LET r     == Head(ch[s])
           wr    == wrote[s] + (IF r = Ok THEN 1 ELSE 0)
           err   == IF r # Ok /\ writeError[s] = None THEN r ELSE writeError[s]
           n     == recvd[s] + 1
       IN /\ ch' = [ch EXCEPT ![s] = Tail(@)]
          /\ wrote' = [wrote EXCEPT ![s] = wr]
          /\ writeError' = [writeError EXCEPT ![s] = err]
          /\ recvd' = [recvd EXCEPT ![s] = n]
          /\ IF r = Ok /\ wr >= Required(s) THEN Return(s, "ok")
             ELSE IF n >= N(s) - 1 THEN Return(s, Finish(wr, err))
             ELSE UNCHANGED <<spc, sres>>
    /\ UNCHANGED <<consistency, mapped, closing, closes, panicked, wpc, res,
                   stored, hh, top, tcount, batch>>

(* Variant of Receive without the `continue` after an error: the error is *)
(* kept and then counted as a write as well.                              *)
ReceiveNoContinue(s) ==
    /\ spc[s] = "wait"
    /\ ch[s] # <<>>
    /\ LET r     == Head(ch[s])
           wr    == wrote[s] + 1
           err   == IF r # Ok /\ writeError[s] = None THEN r ELSE writeError[s]
           n     == recvd[s] + 1
       IN /\ ch' = [ch EXCEPT ![s] = Tail(@)]
          /\ wrote' = [wrote EXCEPT ![s] = wr]
          /\ writeError' = [writeError EXCEPT ![s] = err]
          /\ recvd' = [recvd EXCEPT ![s] = n]
          /\ IF wr >= Required(s) THEN Return(s, "ok")
             ELSE IF n = N(s) THEN Return(s, Finish(wr, err))
             ELSE UNCHANGED <<spc, sres>>
    /\ UNCHANGED <<consistency, mapped, closing, closes, panicked, wpc, res,
                   stored, hh, top, tcount, batch>>

(* One iteration of writeToShard's loop taking a result off the channel:  *)
(* the first error is kept, a nil counts towards `required`, and after    *)
(* len(Owners) iterations the loop ends and the outcome is classified.    *)
Receive(s) ==
    /\ spc[s] = "wait"
    /\ ch[s] # <<>>
    /\ LET r     == Head(ch[s])
           wr    == wrote[s] + (IF r = Ok THEN 1 ELSE 0)
           err   == IF r # Ok /\ writeError[s] = None THEN r ELSE writeError[s]
           n     == recvd[s] + 1
       IN /\ ch' = [ch EXCEPT ![s] = Tail(@)]
          /\ wrote' = [wrote EXCEPT ![s] = wr]
          /\ writeError' = [writeError EXCEPT ![s] = err]
          /\ recvd' = [recvd EXCEPT ![s] = n]
          /\ IF r = Ok /\ wr >= Required(s) THEN Return(s, "ok")
             ELSE IF n = N(s) THEN Return(s, Finish(wr, err))
             ELSE UNCHANGED <<spc, sres>>
    /\ UNCHANGED <<consistency, mapped, closing, closes, panicked, wpc, res,
                   stored, hh, top, tcount, batch>>

(* Variant of writeToShard's select without the timeout case.            *)
TimeoutFireNever(s) == FALSE

(* The `time.After(w.WriteTimeout)` case: the writers are not cancelled.  *)
TimeoutFire(s) ==
    /\ spc[s] = "wait"
    /\ Return(s, "timeout")
    /\ UNCHANGED <<consistency, mapped, closing, closes, panicked, wpc, res,
                   stored, hh, ch, wrote, recvd, writeError, top, tcount, batch>>

(* The `<-w.closing` case of writeToShard's select.                       *)
ShardClosed(s) ==
    /\ spc[s] = "wait"
    /\ closing = "closed"
    /\ Return(s, "writefailed")
    /\ UNCHANGED <<consistency, mapped, closing, closes, panicked, wpc, res,
                   stored, hh, ch, wrote, recvd, writeError, top, tcount, batch>>

(* The shard goroutine sends writeToShard's result to WritePoints.        *)
ShardSend(s) ==
    /\ spc[s] = "send"
    /\ Len(top) < Cardinality(mapped)
    /\ top' = Append(top, sres[s])
    /\ spc' = [spc EXCEPT ![s] = "done"]
    /\ UNCHANGED <<consistency, mapped, closing, closes, panicked, wpc, res,
                   stored, hh, ch, wrote, recvd, writeError, sres, tcount, batch>>

(* Variant of Collect where the last shard's result wins.                 *)
CollectLastWins ==
    /\ batch = None
    /\ top # <<>>
    /\ top' = Tail(top)
    /\ tcount' = tcount + 1
    /\ batch' = IF tcount + 1 = Cardinality(mapped) THEN Head(top) ELSE None
    /\ UNCHANGED <<consistency, mapped, closing, closes, panicked, wpc, res,
                   stored, hh, ch, spc, wrote, recvd, writeError, sres>>

(* One iteration of WritePoints' loop: the first error is returned, nil   *)
(* after every shard has answered.                                        *)
Collect ==
    /\ batch = None
    /\ top # <<>>
    /\ top' = Tail(top)
    /\ tcount' = tcount + 1
    /\ batch' = IF Head(top) # "ok" THEN Head(top)
                ELSE IF tcount + 1 = Cardinality(mapped) THEN "ok"
                ELSE None
    /\ UNCHANGED <<consistency, mapped, closing, closes, panicked, wpc, res,
                   stored, hh, ch, spc, wrote, recvd, writeError, sres>>

(* The `<-w.closing` case of WritePoints' select.                         *)
BatchClosed ==
    /\ batch = None
    /\ closing = "closed"
    /\ batch' = "writefailed"
    /\ UNCHANGED <<consistency, mapped, closing, closes, panicked, wpc, res,
                   stored, hh, ch, spc, wrote, recvd, writeError, sres, top, tcount>>

(* PointsWriter.Close: close(w.closing) under the lock, with no check     *)
(* that the channel is still open: closing it twice panics.               *)
Close ==
    /\ closes < MaxCloses
    /\ closes' = closes + 1
    /\ IF closing = "closed"
          THEN panicked' = TRUE /\ UNCHANGED closing
          ELSE closing' = "closed" /\ UNCHANGED panicked
    /\ UNCHANGED <<consistency, mapped, wpc, res, stored, hh, ch, spc, wrote,
                   recvd, writeError, sres, top, tcount, batch>>

(* PointsWriter.Open: a fresh closing channel.                            *)
Open ==
    /\ closing = "closed"
    /\ closing' = "open"
    /\ UNCHANGED <<consistency, mapped, closes, panicked, wpc, res, stored, hh,
                   ch, spc, wrote, recvd, writeError, sres, top, tcount, batch>>

(* The server closes the writer once per Open (Server.Close).             *)
Shutdown == closing = "open" /\ Close

WriteStep ==
    \/ \E s \in Shards : Spawn(s) \/ Receive(s) \/ TimeoutFire(s)
                         \/ ShardClosed(s) \/ ShardSend(s)
    \/ \E w \in Workers : LocalWrite(w) \/ RemoteWrite(w) \/ Handoff(w) \/ Send(w)
    \/ Collect
    \/ BatchClosed

Next == WriteStep \/ Shutdown \/ Open

(* Goroutines are scheduled fairly, the store and the handoff queue       *)
(* answer, and the timer fires; a peer may never answer ShardWriter, and  *)
(* nothing forces the server to Close or Open.                            *)
Fairness ==
    /\ \A s \in Shards : WF_vars(Spawn(s)) /\ WF_vars(Receive(s))
                         /\ WF_vars(TimeoutFire(s)) /\ WF_vars(ShardSend(s))
    /\ \A w \in Workers : WF_vars(LocalWrite(w)) /\ WF_vars(Handoff(w))
                          /\ WF_vars(Send(w))
    /\ WF_vars(Collect)

Spec == Init /\ [][Next]_vars /\ Fairness

-----------------------------------------------------------------------------
(* Properties                                                              *)

TypeOK ==
    /\ consistency \in Levels
    /\ closing \in {"open", "closed"}
    /\ wpc \in [Workers -> {"idle", "run", "handoff", "send", "done"}]
    /\ res \in [Workers -> Results \cup {None}]
    /\ stored \subseteq Workers /\ hh \subseteq Workers
    /\ spc \in [Shards -> {"idle", "wait", "send", "done"}]
    /\ sres \in [Shards -> Outcomes \cup {None}]
    /\ batch \in Outcomes \cup {None}
    \* the ack count writeToShard waits for is between one and all owners
    /\ \A s \in mapped : Required(s) \in 1..N(s)

(* The levels as the spec defines them, for k owners that acknowledged.   *)
LevelMet(s, k) ==
    CASE consistency \in {"any", "one"} -> k >= 1
      [] consistency = "quorum"         -> 2 * k > N(s)
      [] consistency = "all"            -> k = N(s)

Durable(s) == {o \in Owners[s] : <<s, o>> \in stored}
Queued(s)  == {o \in Owners[s] : <<s, o>> \in hh}

(* writeToShard reports a partial or failed write only when every owner's *)
(* result has been taken off the channel and the owners that answered nil *)
(* fall short of the level; partial means at least one of them did.       *)
FailureOnlyAfterAllReplies ==
    \A s \in mapped :
        sres[s] \in {"partial", "failed"} =>
            LET oks == {o \in Owners[s] : res[<<s, o>>] = Ok}
            IN /\ \A o \in Owners[s] : wpc[<<s, o>>] = "done"
               /\ ch[s] = <<>>
               /\ ~LevelMet(s, Cardinality(oks))
               /\ (sres[s] = "partial") = (oks # {})

(* Every WritePoints call returns, even when a peer never answers.        *)
WritePointsTerminates == <>(batch # None)

(* No goroutine is left blocked on a send once it has its result, also    *)
(* when the reader returned early on success, timeout or close.           *)
NoLeakedWorkers ==
    /\ \A w \in Workers : wpc[w] = "send" ~> wpc[w] = "done"
    /\ \A s \in Shards : spc[s] = "send" ~> spc[s] = "done"

(* Refinement: a WritePoints call implements ShardWriteAbstract under the *)
(* mapping below; each of its steps stores or queues one replica, decides *)
(* the outcome once, or leaves the abstract state alone.  This is spec    *)
(* invariants 4 and 5 as a property of whole behaviours: no replica is    *)
(* ever lost, the call never changes its answer, and it answers nil only  *)
(* once every shard of the batch has enough acknowledged replicas.        *)
Abstract == INSTANCE ShardWriteAbstract
    WITH level <- consistency, targets <- mapped, durable <- stored,
         queued <- hh, result <- batch
ImplementsShardWrite == Abstract!ASpec

(* Close never closes an already closed channel (spec: Close closes the   *)
(* closing channel exactly once).                                         *)
NoDoubleClose == ~panicked

=============================================================================
