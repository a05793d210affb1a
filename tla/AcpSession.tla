----------------------------- MODULE AcpSession -----------------------------
(***************************************************************************)
(* The ACP server of internal/acp (session.go, server.go, eventcache.go)   *)
(* with the gateway's dispatcher (cmd/gateway/acp_dispatcher.go) and the   *)
(* client (client.go). A client runs an agent over one TCP connection;     *)
(* when it loses the connection it dials again and resumes from the event  *)
(* cache, while the server may still be serving the old connection.        *)
(*                                                                         *)
(* Each connection has a serve goroutine and a writer goroutine that share *)
(* the bounded channel sendCh. The events of a run are numbered by their   *)
(* place on the event bus; the last one is terminal (done or error).       *)
(***************************************************************************)
EXTENDS Naturals, Sequences, FiniteSets

CONSTANTS
  Run,             \* runs, one client each
  Session,         \* connections; each is used once
  NoSession,
  MaxConnections,  \* capacity of the server's semaphore
  QueueCap,        \* capacity of sendCh (256 in the code)
  WireCap,         \* frames a socket takes while the client does not read
  EventCount,      \* events a run publishes
  Hidden,          \* events of kinds that mapQueueEventACP does not map
  Faults           \* what may go wrong, see Fault

\* net      a connection breaks, unnoticed by the server until it writes
\* cache    ZADD fails
\* bus      SUBSCRIBE, XADD or the cache read fail
\* timeout  the run exceeds the dispatcher's hard timeout
\* bad      the client sends a request that cannot be decoded
\* stop     the gateway is told to stop, and is started again
Fault == {"net", "cache", "bus", "timeout", "bad", "stop"}

ASSUME AcpAssumption ==
  /\ Run # {} /\ NoSession \notin Session
  /\ MaxConnections \in Nat \ {0}
  /\ QueueCap \in Nat \ {0} /\ WireCap \in Nat \ {0}
  /\ EventCount \in Nat \ {0}
  /\ Hidden \subseteq 1..(EventCount - 1)
  /\ Faults \subseteq Fault

VARIABLES
  phase,       \* where the serve goroutine of a session is
  runOf,       \* the run the session was opened for
  resuming,    \* will the client send RESUME rather than RUN
  inbound,     \* what the client has sent and the server not read
  closed,      \* session.closed
  queue,       \* sendCh
  queueOpen,   \* sendCh is not closed
  writer,      \* where the writer goroutine is
  conn,        \* the server's end of the connection is open
  wire,        \* frames written and not yet read by the client
  seqGen,      \* session.seqGen
  cursor,      \* events of the run the dispatcher has taken from the bus
  pending,     \* events to send: the one being emitted, or the replayed ones
  cache,       \* Redis: the set of cached events of a run
  dropped,     \* history: the events whose append to the cache failed
  published,   \* runs whose task is in the stream
  produced,    \* how many events of a run are on the bus
  client,      \* where the client of a run is
  using,       \* the session that client reads from
  got,         \* the events it has received, in order
  gateway      \* the gateway process: its first life, stopping, its second life

serveVars  == <<phase, seqGen, cursor, pending>>
sendVars   == <<closed, queue, conn>>
outVars    == <<queueOpen, writer, wire>>
clientVars == <<client, using, got, runOf, resuming>>
envVars    == <<cache, dropped, published, produced, gateway>>
vars == <<serveVars, sendVars, outVars, inbound, clientVars, envVars>>

\* The event the dispatcher makes up when the run takes too long.
Timeout == 0
Terminal(ev) == ev \in {Timeout, EventCount}

Event == [seq : Nat, ev : 0..EventCount]
Frame == [kind : {"ack", "pong", "event", "error", "close"}, event : Event, last : BOOLEAN]

NoEvent == [seq |-> 0, ev |-> 0]
Control(kind) == [kind |-> kind, event |-> NoEvent, last |-> kind \in {"error", "close"}]
EventFrame(e, last) == [kind |-> "event", event |-> e, last |-> last]

Phase == {"none", "hello", "loop", "subscribe", "publish", "stream", "emit", "replay",
          "failed", "close", "finish", "await", "ended"}

TypeOK ==
  /\ phase \in [Session -> Phase]
  /\ runOf \in [Session -> Run] /\ resuming \in [Session -> BOOLEAN]
  /\ inbound \in [Session -> {"none", "ping", "request", "bad"}]
  /\ closed \in [Session -> BOOLEAN] /\ queueOpen \in [Session -> BOOLEAN]
  /\ \A s \in Session : queue[s] \in Seq(Frame) /\ Len(queue[s]) <= QueueCap
  /\ \A s \in Session : wire[s] \in Seq(Frame) /\ Len(wire[s]) <= WireCap
  /\ writer \in [Session -> {"loop", "drain", "done"}]
  /\ conn \in [Session -> BOOLEAN]
  /\ seqGen \in [Session -> Nat]
  /\ cursor \in [Session -> 0..EventCount]
  /\ \A s \in Session : pending[s] \in Seq(Event)
  /\ cache \in [Run -> SUBSET Event] /\ dropped \in [Run -> SUBSET Event]
  /\ published \subseteq Run
  /\ produced \in [Run -> 0..EventCount]
  /\ client \in [Run -> {"new", "dialled", "live", "lost", "done"}]
  /\ using \in [Run -> Session \cup {NoSession}]
  /\ \A r \in Run : got[r] \in Seq(Event)
  /\ gateway \in {"first", "stopping", "second"}

Init ==
  /\ phase = [s \in Session |-> "none"]
  /\ runOf = [s \in Session |-> CHOOSE r \in Run : TRUE]
  /\ resuming = [s \in Session |-> FALSE]
  /\ inbound = [s \in Session |-> "none"]
  /\ closed = [s \in Session |-> FALSE]
  /\ queue = [s \in Session |-> <<>>]
  /\ queueOpen = [s \in Session |-> TRUE]
  /\ writer = [s \in Session |-> "loop"]
  /\ conn = [s \in Session |-> FALSE]
  /\ wire = [s \in Session |-> <<>>]
  /\ seqGen = [s \in Session |-> 0]
  /\ cursor = [s \in Session |-> 0]
  /\ pending = [s \in Session |-> <<>>]
  /\ cache = [r \in Run |-> {}] /\ dropped = [r \in Run |-> {}]
  /\ published = {}
  /\ produced = [r \in Run |-> 0]
  /\ client = [r \in Run |-> "new"]
  /\ using = [r \in Run |-> NoSession]
  /\ got = [r \in Run |-> <<>>]
  /\ gateway = "first"

-----------------------------------------------------------------------------
(* Sending.                                                                *)

\* The root context, and with it every session's, is cancelled.
stopping == gateway = "stopping"

\* send: dropped after closed; a full queue closes the connection instead of
\* blocking, and leaves sendCh open.
Send(s, f) ==
  \/ closed[s] /\ UNCHANGED sendVars
  \/ /\ ~closed[s] /\ Len(queue[s]) < QueueCap
     /\ queue' = [queue EXCEPT ![s] = Append(@, f)]
     /\ UNCHANGED <<closed, conn>>
  \/ /\ ~closed[s] /\ Len(queue[s]) >= QueueCap
     /\ closed' = [closed EXCEPT ![s] = TRUE]
     /\ conn' = [conn EXCEPT ![s] = FALSE]
     /\ UNCHANGED queue

Goto(s, p) == phase' = [phase EXCEPT ![s] = p]

\* Does the client of the session still read from it?
Attached(s) == using[runOf[s]] = s

\* writerLoop: a frame the client will not read is lost in the network.
Write(s) ==
  /\ writer[s] = "loop"
  /\ queue[s] # <<>> /\ conn[s]
  /\ Len(wire[s]) < WireCap
  /\ queue' = [queue EXCEPT ![s] = Tail(@)]
  /\ wire' = [wire EXCEPT ![s] = IF Attached(s) THEN Append(@, Head(queue[s])) ELSE @]
  /\ UNCHANGED <<serveVars, closed, conn, queueOpen, writer, inbound, clientVars, envVars>>

\* Seeded fault: writes have no deadline.
MutWriteFailsNoDeadline(s) ==
  /\ writer[s] = "loop"
  /\ queue[s] # <<>>
  /\ ~conn[s] \/ ~Attached(s)
  /\ queue' = [queue EXCEPT ![s] = Tail(@)]
  /\ conn' = [conn EXCEPT ![s] = FALSE]
  /\ writer' = [writer EXCEPT ![s] = "drain"]
  /\ UNCHANGED <<serveVars, closed, queueOpen, wire, inbound, clientVars, envVars>>

\* The connection is closed or broken, or the write deadline has passed.
WriteFails(s) ==
  /\ writer[s] = "loop"
  /\ queue[s] # <<>>
  /\ ~conn[s] \/ ~Attached(s) \/ Len(wire[s]) = WireCap
  /\ queue' = [queue EXCEPT ![s] = Tail(@)]
  /\ conn' = [conn EXCEPT ![s] = FALSE]
  /\ writer' = [writer EXCEPT ![s] = "drain"]
  /\ UNCHANGED <<serveVars, closed, queueOpen, wire, inbound, clientVars, envVars>>

Drain(s) ==
  /\ writer[s] = "drain"
  /\ queue[s] # <<>>
  /\ queue' = [queue EXCEPT ![s] = Tail(@)]
  /\ UNCHANGED <<serveVars, closed, conn, outVars, inbound, clientVars, envVars>>

\* The range over sendCh ends only when the channel is closed.
WriterExit(s) ==
  /\ writer[s] \in {"loop", "drain"}
  /\ queue[s] = <<>> /\ ~queueOpen[s]
  /\ writer' = [writer EXCEPT ![s] = "done"]
  /\ UNCHANGED <<serveVars, sendVars, queueOpen, wire, inbound, clientVars, envVars>>

-----------------------------------------------------------------------------
(* The serve goroutine: handshake and main loop.                           *)

Hello(s) ==
  /\ phase[s] = "hello"
  /\ Send(s, Control("ack"))
  /\ Goto(s, "loop")
  /\ UNCHANGED <<seqGen, cursor, pending, outVars, inbound, clientVars, envVars>>

\* The connection ends before HELLO, or the frame is not a HELLO.
HelloFails(s) ==
  /\ phase[s] = "hello"
  /\ ~Attached(s) \/ "bad" \in Faults
  /\ Goto(s, "finish")
  /\ UNCHANGED <<seqGen, cursor, pending, sendVars, outVars, inbound, clientVars, envVars>>

ReadPing(s) ==
  /\ phase[s] = "loop"
  /\ inbound[s] = "ping"
  /\ inbound' = [inbound EXCEPT ![s] = "none"]
  /\ Send(s, Control("pong"))
  /\ UNCHANGED <<serveVars, outVars, clientVars, envVars>>

\* A RUN or RESUME frame that cannot be decoded is answered with an ERROR.
ReadBad(s) ==
  /\ phase[s] = "loop"
  /\ inbound[s] = "bad"
  /\ inbound' = [inbound EXCEPT ![s] = "none"]
  /\ Send(s, Control("error"))
  /\ Goto(s, "finish")
  /\ UNCHANGED <<seqGen, cursor, pending, outVars, clientVars, envVars>>

\* CLOSE, end of file or the read deadline.
ReadEnd(s) ==
  /\ phase[s] = "loop"
  /\ inbound[s] = "none"
  /\ Goto(s, "finish")
  /\ UNCHANGED <<seqGen, cursor, pending, sendVars, outVars, inbound, clientVars, envVars>>

ReadRun(s) ==
  /\ phase[s] = "loop"
  /\ inbound[s] = "request" /\ ~resuming[s]
  /\ inbound' = [inbound EXCEPT ![s] = "none"]
  /\ Goto(s, "subscribe")
  /\ UNCHANGED <<seqGen, cursor, pending, sendVars, outVars, clientVars, envVars>>

-----------------------------------------------------------------------------
(* handleRun: the dispatcher subscribes, publishes the task and forwards   *)
(* the events of the run.                                                  *)

Subscribe(s) ==
  /\ phase[s] = "subscribe"
  /\ ~stopping
  /\ cursor' = [cursor EXCEPT ![s] = produced[runOf[s]]]
  /\ Goto(s, "publish")
  /\ UNCHANGED <<seqGen, pending, sendVars, outVars, inbound, clientVars, envVars>>

PublishTask(s) ==
  /\ phase[s] = "publish"
  /\ ~stopping
  /\ published' = published \cup {runOf[s]}
  /\ Goto(s, "stream")
  /\ UNCHANGED <<seqGen, cursor, pending, sendVars, outVars, inbound, clientVars, cache,
                 dropped, produced, gateway>>

\* Subscribing or publishing failed: Run returns the error.
DispatchFails(s) ==
  /\ phase[s] \in {"subscribe", "publish"}
  /\ "bus" \in Faults \/ stopping
  /\ Goto(s, "failed")
  /\ UNCHANGED <<seqGen, cursor, pending, sendVars, outVars, inbound, clientVars, envVars>>

SendInternalError(s) ==
  /\ phase[s] = "failed"
  /\ Send(s, Control("error"))
  /\ Goto(s, "close")
  /\ UNCHANGED <<seqGen, cursor, pending, outVars, inbound, clientVars, envVars>>

\* The worker (external) executes the run and publishes its events.
Produce(r) ==
  /\ r \in published
  /\ produced[r] < EventCount
  /\ produced' = [produced EXCEPT ![r] = @ + 1]
  /\ UNCHANGED <<serveVars, sendVars, outVars, inbound, clientVars, cache, dropped,
                 published, gateway>>

HasEvent(s) == phase[s] = "stream" /\ cursor[s] < produced[runOf[s]]

SkipHidden(s) ==
  /\ HasEvent(s)
  /\ cursor[s] + 1 \in Hidden
  /\ cursor' = [cursor EXCEPT ![s] = @ + 1]
  /\ UNCHANGED <<phase, seqGen, pending, sendVars, outVars, inbound, clientVars, envVars>>

\* emit refuses because the session is closed: the dispatcher returns.
EmitRefused(s) ==
  /\ HasEvent(s)
  /\ cursor[s] + 1 \notin Hidden
  /\ closed[s]
  /\ cursor' = [cursor EXCEPT ![s] = @ + 1]
  /\ Goto(s, "close")
  /\ UNCHANGED <<seqGen, pending, sendVars, outVars, inbound, clientVars, envVars>>

\* Seeded fault: terminal events bypass the cache.
MutEmitCacheSkipsTerminal(s, ev) ==
  LET e == [seq |-> seqGen[s] + 1, ev |-> ev] IN
  /\ ~closed[s]
  /\ seqGen' = [seqGen EXCEPT ![s] = @ + 1]
  /\ pending' = [pending EXCEPT ![s] = <<e>>]
  /\ cache' = IF Terminal(ev) THEN cache ELSE [cache EXCEPT ![runOf[s]] = @ \cup {e}]
  /\ UNCHANGED dropped
  /\ Goto(s, "emit")

\* emit, first half: number the event and append it to the cache. The error
\* of the append is dropped; under a cancelled context it always fails.
EmitCache(s, ev) ==
  LET e == [seq |-> seqGen[s] + 1, ev |-> ev] IN
  /\ ~closed[s]
  /\ seqGen' = [seqGen EXCEPT ![s] = @ + 1]
  /\ pending' = [pending EXCEPT ![s] = <<e>>]
  /\ \/ /\ ~stopping
        /\ cache' = [cache EXCEPT ![runOf[s]] = @ \cup {e}]
        /\ UNCHANGED dropped
     \/ /\ stopping \/ "cache" \in Faults
        /\ dropped' = [dropped EXCEPT ![runOf[s]] = @ \cup {e}]
        /\ UNCHANGED cache
  /\ Goto(s, "emit")

\* Seeded fault: the dispatcher stops when the connection is gone.
MutEmitNextStopsWithConn(s) ==
  /\ HasEvent(s)
  /\ cursor[s] + 1 \notin Hidden
  /\ cursor' = [cursor EXCEPT ![s] = @ + 1]
  /\ IF conn[s] THEN EmitCache(s, cursor[s] + 1)
                ELSE Goto(s, "close") /\ UNCHANGED <<seqGen, pending, cache, dropped>>
  /\ UNCHANGED <<sendVars, outVars, inbound, clientVars, published, produced, gateway>>

EmitNext(s) ==
  /\ HasEvent(s)
  /\ cursor[s] + 1 \notin Hidden
  /\ cursor' = [cursor EXCEPT ![s] = @ + 1]
  /\ EmitCache(s, cursor[s] + 1)
  /\ UNCHANGED <<sendVars, outVars, inbound, clientVars, published, produced, gateway>>

\* hard.Done(): the run timeout or the gateway's shutdown, reported alike.
\* If emit refuses, the dispatcher returns all the same.
EmitTimeout(s) ==
  /\ phase[s] = "stream"
  /\ "timeout" \in Faults \/ stopping
  /\ IF closed[s] THEN Goto(s, "close") /\ UNCHANGED <<seqGen, pending, cache, dropped>>
                  ELSE EmitCache(s, Timeout)
  /\ UNCHANGED <<cursor, sendVars, outVars, inbound, clientVars, published, produced, gateway>>

\* The subscription ends with the context; the dispatcher may see that first.
BusClosed(s) ==
  /\ phase[s] = "stream"
  /\ stopping
  /\ Goto(s, "close")
  /\ UNCHANGED <<seqGen, cursor, pending, sendVars, outVars, inbound, clientVars, envVars>>

\* emit, second half: send the frame; a terminal event ends the dispatcher.
EmitSend(s) ==
  LET e == Head(pending[s]) IN
  /\ phase[s] = "emit"
  /\ Send(s, EventFrame(e, Terminal(e.ev)))
  /\ pending' = [pending EXCEPT ![s] = <<>>]
  /\ Goto(s, IF Terminal(e.ev) THEN "close" ELSE "stream")
  /\ UNCHANGED <<seqGen, cursor, outVars, inbound, clientVars, envVars>>

-----------------------------------------------------------------------------
(* handleResume: replay what the cache holds beyond the client's last seq. *)

LastSeq(r) == IF got[r] = <<>> THEN 0 ELSE got[r][Len(got[r])].seq

\* Seeded fault: the range is closed, so the last event is sent again.
MutReplayFromLast(r) ==
  LET S == {e \in cache[r] : e.seq >= LastSeq(r)} IN
  CHOOSE q \in [1..Cardinality(S) -> S] :
    \A i, j \in 1..Cardinality(S) : i < j => q[i] # q[j] /\ q[i].seq <= q[j].seq

\* ZRANGEBYSCORE (last +inf: by ascending seq.
Replay(r) ==
  LET S == {e \in cache[r] : e.seq > LastSeq(r)} IN
  CHOOSE q \in [1..Cardinality(S) -> S] :
    \A i, j \in 1..Cardinality(S) : i < j => q[i] # q[j] /\ q[i].seq <= q[j].seq

ReadResume(s) ==
  /\ phase[s] = "loop"
  /\ inbound[s] = "request" /\ resuming[s]
  /\ inbound' = [inbound EXCEPT ![s] = "none"]
  /\ ~stopping
  /\ pending' = [pending EXCEPT ![s] = Replay(runOf[s])]
  /\ Goto(s, "replay")
  /\ UNCHANGED <<seqGen, cursor, sendVars, outVars, clientVars, envVars>>

ResumeFails(s) ==
  /\ phase[s] = "loop"
  /\ inbound[s] = "request" /\ resuming[s]
  /\ inbound' = [inbound EXCEPT ![s] = "none"]
  /\ "bus" \in Faults \/ stopping
  /\ Send(s, Control("error"))
  /\ Goto(s, "finish")
  /\ UNCHANGED <<seqGen, cursor, pending, outVars, clientVars, envVars>>

\* Replayed frames never carry END_STREAM.
ReplaySend(s) ==
  LET e == Head(pending[s]) IN
  /\ phase[s] = "replay"
  /\ pending[s] # <<>>
  /\ Send(s, EventFrame(e, FALSE))
  /\ pending' = [pending EXCEPT ![s] = Tail(@)]
  /\ seqGen' = [seqGen EXCEPT ![s] = IF e.seq > @ THEN e.seq ELSE @]
  /\ UNCHANGED <<phase, cursor, outVars, inbound, clientVars, envVars>>

\* The CLOSE at the end of handleRun and of handleResume.
SendClose(s) ==
  /\ phase[s] = "close" \/ (phase[s] = "replay" /\ pending[s] = <<>>)
  /\ Send(s, Control("close"))
  /\ Goto(s, "finish")
  /\ UNCHANGED <<seqGen, cursor, pending, outVars, inbound, clientVars, envVars>>

-----------------------------------------------------------------------------
(* The end of a session.                                                   *)

\* serve's deferred function: close sendCh unless closed was already set.
Finish(s) ==
  /\ phase[s] = "finish"
  /\ closed' = [closed EXCEPT ![s] = TRUE]
  /\ queueOpen' = [queueOpen EXCEPT ![s] = @ /\ closed[s]]
  /\ Goto(s, "await")
  /\ UNCHANGED <<seqGen, cursor, pending, queue, conn, writer, wire, inbound, clientVars,
                 envVars>>

\* <-sendDone, then handleConn closes the connection and frees the permit.
End(s) ==
  /\ phase[s] = "await"
  /\ writer[s] = "done"
  /\ conn' = [conn EXCEPT ![s] = FALSE]
  /\ Goto(s, "ended")
  /\ UNCHANGED <<seqGen, cursor, pending, closed, queue, outVars, inbound, clientVars, envVars>>

-----------------------------------------------------------------------------
(* The server and the client.                                              *)

Serving == {s \in Session : phase[s] \notin {"none", "ended"}}

\* A connection gets a permit or is dropped at once. The client sends HELLO;
\* a client that has lost its connection will ask to resume its run.
Dial(r, s) ==
  /\ client[r] \in {"new", "lost"}
  /\ phase[s] = "none"
  /\ ~stopping
  /\ Cardinality(Serving) < MaxConnections
  /\ Goto(s, "hello")
  /\ conn' = [conn EXCEPT ![s] = TRUE]
  /\ runOf' = [runOf EXCEPT ![s] = r]
  /\ resuming' = [resuming EXCEPT ![s] = client[r] = "lost"]
  /\ client' = [client EXCEPT ![r] = "dialled"]
  /\ using' = [using EXCEPT ![r] = s]
  /\ UNCHANGED <<seqGen, cursor, pending, closed, queue, outVars, inbound, got, envVars>>

\* The client knows its run id once it has read HELLO_ACK.
Detach(r, next) ==
  /\ client' = [client EXCEPT ![r] = next]
  /\ using' = [using EXCEPT ![r] = NoSession]

LostState(r) == IF client[r] = "dialled" /\ ~resuming[using[r]] THEN "new" ELSE "lost"

\* NextEvent (and Dial) of the client: read one frame and react to it.
ClientRead(r) ==
  LET s == using[r]
      f == Head(wire[s])
      seen == Append(got[r], f.event)
      complete(q) == \E i \in DOMAIN q : Terminal(q[i].ev) IN
  /\ s # NoSession
  /\ wire[s] # <<>>
  /\ \/ /\ f.kind \in {"ack", "pong"}
        /\ \E m \in {"ping", "request"} \cup (IF "bad" \in Faults THEN {"bad"} ELSE {}) :
             inbound' = [inbound EXCEPT ![s] = m]
        /\ client' = [client EXCEPT ![r] = "live"]
        /\ UNCHANGED <<using, got>>
     \/ /\ f.kind = "event"
        /\ got' = [got EXCEPT ![r] = seen]
        /\ IF f.last THEN Detach(r, "done") ELSE UNCHANGED <<client, using>>
        /\ UNCHANGED inbound
     \/ /\ f.kind = "error"
        /\ Detach(r, IF resuming[s] THEN "lost" ELSE "done")
        /\ UNCHANGED <<got, inbound>>
     \/ /\ f.kind = "close"
        /\ Detach(r, IF complete(got[r]) THEN "done" ELSE "lost")
        /\ UNCHANGED <<got, inbound>>
  /\ wire' = [wire EXCEPT ![s] = IF f.last THEN <<>> ELSE Tail(@)]
  /\ UNCHANGED <<serveVars, sendVars, queueOpen, writer, runOf, resuming, envVars>>

\* The client reads to the end of a connection the server has closed.
ClientLost(r) ==
  /\ using[r] # NoSession
  /\ ~conn[using[r]] /\ wire[using[r]] = <<>>
  /\ Detach(r, LostState(r))
  /\ UNCHANGED <<serveVars, sendVars, outVars, inbound, got, runOf, resuming, envVars>>

\* The connection breaks: what is under way is lost, in one or both directions,
\* and the server does not know yet.
Break(r) ==
  LET s == using[r] IN
  /\ "net" \in Faults
  /\ s # NoSession
  /\ Detach(r, LostState(r))
  /\ wire' = [wire EXCEPT ![s] = <<>>]
  /\ \E m \in {inbound[s], "none"} : inbound' = [inbound EXCEPT ![s] = m]
  /\ UNCHANGED <<serveVars, sendVars, queueOpen, writer, got, runOf, resuming, envVars>>

\* SIGTERM: the listener closes and every session's context is cancelled.
Stop ==
  /\ "stop" \in Faults
  /\ gateway = "first"
  /\ gateway' = "stopping"
  /\ UNCHANGED <<serveVars, sendVars, outVars, inbound, clientVars, cache, dropped,
                 published, produced>>

\* gracefulWait ends, at the latest after ShutdownTimeout; the process exits
\* and a new one takes its place.
Restart ==
  /\ stopping
  /\ phase' = [s \in Session |-> IF phase[s] = "none" THEN "none" ELSE "ended"]
  /\ conn' = [s \in Session |-> FALSE]
  /\ queue' = [s \in Session |-> <<>>]
  /\ pending' = [s \in Session |-> <<>>]
  /\ writer' = [s \in Session |-> IF phase[s] = "none" THEN "loop" ELSE "done"]
  /\ gateway' = "second"
  /\ UNCHANGED <<seqGen, cursor, closed, queueOpen, wire, inbound, clientVars,
                 cache, dropped, published, produced>>

ServeStep(s) ==
  \/ Hello(s) \/ HelloFails(s) \/ ReadPing(s) \/ ReadBad(s) \/ ReadEnd(s)
  \/ ReadRun(s) \/ Subscribe(s) \/ PublishTask(s) \/ DispatchFails(s) \/ SendInternalError(s)
  \/ SkipHidden(s) \/ EmitRefused(s) \/ EmitNext(s) \/ EmitTimeout(s) \/ BusClosed(s)
  \/ EmitSend(s) \/ ReadResume(s) \/ ResumeFails(s) \/ ReplaySend(s) \/ SendClose(s)
  \/ Finish(s) \/ End(s)

WriterStep(s) == Write(s) \/ WriteFails(s) \/ Drain(s) \/ WriterExit(s)

Next ==
  \/ \E s \in Session : ServeStep(s) \/ WriterStep(s)
  \/ \E r \in Run : Produce(r) \/ ClientRead(r) \/ ClientLost(r) \/ Break(r)
  \/ \E r \in Run, s \in Session : Dial(r, s)
  \/ Stop \/ Restart

Spec == Init /\ [][Next]_vars

\* Both goroutines of a session run when they can: reads and writes have
\* deadlines and the dispatcher a hard timeout. Nothing is assumed of the
\* worker or of the client.
FairSpec ==
  /\ Spec
  /\ \A s \in Session : WF_vars(ServeStep(s)) /\ WF_vars(WriterStep(s))

-----------------------------------------------------------------------------
\* The events up to the n-th that are forwarded to the client, in order.
VisibleUpTo[n \in 0..EventCount] ==
  IF n = 0 THEN << >>
  ELSE IF n \in Hidden THEN VisibleUpTo[n - 1] ELSE Append(VisibleUpTo[n - 1], n)

Visible == VisibleUpTo[EventCount]

\* What a client has received over all its connections is the run's event
\* stream, without a repetition or a change of order; only the dispatcher's
\* timeout may end it early, and an event is missing from it only if its append
\* to the cache failed and the client was away when it was sent.
GapFree ==
  \A r \in Run :
    /\ \A i, j \in DOMAIN got[r] : i < j => got[r][i].seq < got[r][j].seq
    /\ \A i \in DOMAIN got[r] :
         \/ got[r][i].ev = Timeout /\ i = Len(got[r])
         \/ got[r][i].seq <= Len(Visible) /\ got[r][i].ev = Visible[got[r][i].seq]
    /\ \A k \in 1..LastSeq(r) :
         (\E i \in DOMAIN got[r] : got[r][i].seq = k) \/ (\E e \in dropped[r] : e.seq = k)

\* The stream without a hole, numbered 1, 2, 3, ...: so as long as no append fails
\* before the gateway is stopped.
Unbroken == \A r \in Run : \A i \in DOMAIN got[r] : got[r][i].seq = i

\* session.go:205-208: the append to the cache is tried before the event is
\* sent. What a client has is in the cache, or is one of the events whose failed
\* append the code ignores: a failing Redis, or a gateway told to stop.
DurableBeforeDelivery ==
  \A r \in Run : \A i \in DOMAIN got[r] : got[r][i] \in cache[r] \cup dropped[r]

\* A full queue made send close the connection.
Overflowed(s) == closed[s] /\ queueOpen[s]

\* A run session that reached its end has cached the whole run, although the
\* client may have left at any moment: a later RESUME can complete the stream,
\* but for the events whose append failed.
\* Exempt are a session whose queue overflowed, a run that took too long and
\* a gateway that was stopped.
WholeRunCached ==
  \A s \in Session :
    LET events == {e.ev : e \in cache[runOf[s]] \cup dropped[runOf[s]]} IN
    /\ phase[s] \in {"finish", "await", "ended"}
    /\ cursor[s] > 0
    /\ ~Overflowed(s) /\ Timeout \notin events /\ gateway = "first"
    => events = {Visible[i] : i \in DOMAIN Visible}

\* session.go:61: the teardown closes sendCh and the writer exits. Once a
\* request was accepted, the session ends and its permit is freed.
SessionEnds ==
  \A s \in Session :
    phase[s] \notin {"none", "hello", "loop", "ended"} ~> phase[s] = "ended"

\* The same for the code as it is: only an overflow keeps a session, even if
\* the client never reads or the worker never ends the run.
SessionEndsOrOverflows ==
  \A s \in Session :
    phase[s] \notin {"none", "hello", "loop", "ended"}
      ~> (phase[s] = "ended" \/ Overflowed(s))

=============================================================================
