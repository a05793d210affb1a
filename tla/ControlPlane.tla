---------------------------- MODULE ControlPlane -----------------------------
(***************************************************************************)
(* The runs the control plane starts on its agents, from the HTTP request  *)
(* to the browser: StartRun and consumeRun (internal/controlplane/         *)
(* service.go), the gateway's RunAgent (cmd/gateway/service.go) in between *)
(* the control plane and the task queue, the worker's attempts at the run, *)
(* the event log kept for the browser and its SSE replay (http.go).        *)
(*                                                                         *)
(* A run has a consumer goroutine in the control plane, a stream through   *)
(* the gateway, a task in the queue and a row in Postgres. The four live   *)
(* on: nothing joins them when one ends. Events are abstracted to "note"   *)
(* (state, token and tool events), "done" and "error".                     *)
(***************************************************************************)
EXTENDS AgentRegistry, Sequences, FiniteSets

CONSTANTS
  Runs,      \* run ids
  MaxRetry,  \* attempts the task queue grants, see TaskStream
  MaxReads   \* bound: SSE connections per run

\* append    writing the event log fails      net     the gateway stream breaks
\* queue     XADD fails or its reply is lost  bus     an event is not delivered
\* deadline  consumeRun's own deadline comes  worker  a worker dies in an attempt
\* crash     the control plane dies
ControlFault == RegistryFault \cup {"append", "net", "queue", "bus", "deadline", "worker", "crash"}

ASSUME ControlAssumption ==
  /\ MaxRequests \in Nat /\ MaxRetry \in Nat \ {0} /\ MaxReads \in Nat
  /\ Weathers \subseteq SUBSET ControlFault

VARIABLES
  run,       \* the agent_runs table: status and agent of each run
  consumer,  \* where consumeRun is
  gateway,   \* where the gateway's RunAgent is
  chan,      \* events between the bus and RunAgent
  wire,      \* events between RunAgent and consumeRun
  task,      \* where the queue's task for the run is
  failures,  \* attempts of the task that failed
  log,       \* ui:run_events, the ids and kinds of the events
  seq,       \* ui:run_event_seq
  reader,    \* the browser following the run
  disturbed, \* history: a fault touched the run
  crashed    \* has the control plane died

streamVars == <<gateway, chan, wire, disturbed>>
taskVars == <<task, failures>>
logVars == <<log, seq>>
vars == <<registryVars, run, consumer, streamVars, taskVars, logVars, reader, crashed>>

Terminal == {"done", "error"}

NoReader == [open |-> FALSE, reads |-> 0, last |-> 0, got |-> << >>]

Init ==
  /\ RegistryInit
  /\ run = [r \in Runs |-> [status |-> "none", agent |-> Idle.agent]]
  /\ consumer = [r \in Runs |-> "none"]
  /\ gateway = [r \in Runs |-> "none"]
  /\ chan = [r \in Runs |-> << >>]
  /\ wire = [r \in Runs |-> << >>]
  /\ task = [r \in Runs |-> "none"]
  /\ failures = [r \in Runs |-> 0]
  /\ log = [r \in Runs |-> << >>]
  /\ seq = [r \in Runs |-> 0]
  /\ reader = [r \in Runs |-> NoReader]
  /\ disturbed = [r \in Runs |-> FALSE]
  /\ crashed = FALSE

Disturb(r) == disturbed' = [disturbed EXCEPT ![r] = TRUE]

(***************************************************************************)
(* Service.StartRun: the agent's status is checked, then the row inserted. *)
(* Postgres refuses a second running row of the agent, and a row without   *)
(* an agent.                                                               *)
(***************************************************************************)
StartRun(q, a) ==
  /\ row[a].status = "running"
  /\ Serve(q, a, "run.insert")
  /\ UNCHANGED <<agentVars, run, consumer, streamVars, taskVars, logVars, reader, crashed>>

Insertable(a) ==
  /\ HasRow(a)
  /\ \A r \in Runs : ~(run[r].status = "running" /\ run[r].agent = a)

CreateRun(q, r) ==
  /\ At(q, "run.insert")
  /\ run[r].status = "none"
  /\ Insertable(req[q].agent)
  /\ run' = [run EXCEPT ![r] = [status |-> "running", agent |-> req[q].agent]]
  /\ consumer' = [consumer EXCEPT ![r] = "connect"]
  /\ Return(q)
  /\ UNCHANGED <<agentVars, streamVars, taskVars, logVars, reader, crashed>>

CreateRunFails(q) ==
  /\ At(q, "run.insert")
  /\ ~Insertable(req[q].agent) \/ "db" \in faults
  /\ Return(q)
  /\ UNCHANGED <<agentVars, run, consumer, streamVars, taskVars, logVars, reader, crashed>>

\* Deleting the agent's row deletes its runs with it.
DeleteAgentRow(q) ==
  /\ DeleteRow(q)
  /\ run' = [r \in Runs |->
               IF run[r].agent = req[q].agent /\ run[r].status # "none"
                 THEN [run[r] EXCEPT !.status = "deleted"] ELSE run[r]]
  /\ UNCHANGED <<consumer, streamVars, taskVars, logVars, reader, crashed>>

(***************************************************************************)
(* Service.consumeRun: open the stream, copy its events to the log until   *)
(* a terminal one is stored, or the stream ends, and write the row once.   *)
(***************************************************************************)
Connect(r) ==
  /\ consumer[r] = "connect"
  /\ \/ /\ consumer' = [consumer EXCEPT ![r] = "receive"]
        /\ gateway' = [gateway EXCEPT ![r] = "open"]
        /\ UNCHANGED disturbed
     \/ /\ "net" \in faults
        /\ consumer' = [consumer EXCEPT ![r] = "failed"]
        /\ Disturb(r)
        /\ UNCHANGED gateway
  /\ UNCHANGED <<registryVars, run, chan, wire, taskVars, logVars, reader, crashed>>

\* EventStore.Append: INCR, then RPUSH. ok tells whether the caller sees success;
\* a failed append may have used up an id, or even have stored the event.
AppendEvent(r, kind, ok) ==
  LET id == seq[r] + 1
      Stored == /\ seq' = [seq EXCEPT ![r] = id]
                /\ log' = [log EXCEPT ![r] = Append(@, [id |-> id, kind |-> kind])]
  IN IF ok THEN Stored
     ELSE /\ "append" \in faults
          /\ \/ Stored
             \/ seq' = [seq EXCEPT ![r] = id] /\ UNCHANGED log
             \/ UNCHANGED logVars

ConvertEvent(kind) ==
  CASE kind = "done" -> "completed" [] kind = "error" -> "failed" [] OTHER -> "receive"

\* An event that cannot be stored is skipped, a terminal one too.
Receive(r, ok) ==
  /\ consumer[r] = "receive"
  /\ wire[r] # << >>
  /\ AppendEvent(r, Head(wire[r]), ok)
  /\ wire' = [wire EXCEPT ![r] = Tail(@)]
  /\ consumer' = [consumer EXCEPT ![r] = IF ok THEN ConvertEvent(Head(wire[r])) ELSE @]
  /\ disturbed' = [disturbed EXCEPT ![r] = @ \/ ~ok]
  /\ UNCHANGED <<registryVars, run, gateway, chan, taskVars, reader, crashed>>

\* Seeded fault: the end of the stream does not end the loop
MutStreamEndsLoops(r) ==
  /\ consumer[r] = "receive"
  /\ gateway[r] = "closed" /\ wire[r] = << >>
  /\ UNCHANGED vars

StreamEnds(r) ==
  /\ consumer[r] = "receive"
  /\ gateway[r] = "closed" /\ wire[r] = << >>
  /\ consumer' = [consumer EXCEPT ![r] = "failed"]
  /\ UNCHANGED <<registryVars, run, streamVars, taskVars, logVars, reader, crashed>>

\* The goroutine's own deadline.
Expire(r) ==
  /\ "deadline" \in faults
  /\ consumer[r] \in {"connect", "receive"}
  /\ consumer' = [consumer EXCEPT ![r] = "failed"]
  /\ Disturb(r)
  /\ UNCHANGED <<registryVars, run, gateway, chan, wire, taskVars, logVars, reader, crashed>>

\* Seeded fault: the loop goes on after the terminal event
MutFinishRunGoesOn(r) ==
  /\ consumer[r] \in {"completed", "failed"}
  /\ run' = [run EXCEPT ![r].status = consumer[r]]
  /\ consumer' = [consumer EXCEPT ![r] = "receive"]
  /\ UNCHANGED <<registryVars, streamVars, taskVars, logVars, reader, crashed>>

\* Store.FinishRun writes the row whatever it holds, if it is still there; an
\* error is dropped.
FinishRun(r) ==
  /\ consumer[r] \in {"completed", "failed"}
  /\ \/ /\ run' = IF run[r].status = "deleted" THEN run
                    ELSE [run EXCEPT ![r].status = consumer[r]]
        /\ consumer' = [consumer EXCEPT ![r] = "finished"]
     \/ /\ "db" \in faults
        /\ consumer' = [consumer EXCEPT ![r] = "unsaved"]
        /\ UNCHANGED run
  /\ UNCHANGED <<registryVars, streamVars, taskVars, logVars, reader, crashed>>

(***************************************************************************)
(* The gateway's RunAgent: subscribe, then publish the task, then forward  *)
(* events up to the first terminal one.                                    *)
(***************************************************************************)
Subscribe(r) ==
  /\ gateway[r] = "open"
  /\ \/ gateway' = [gateway EXCEPT ![r] = "subscribed"] /\ UNCHANGED disturbed
     \/ "bus" \in faults /\ gateway' = [gateway EXCEPT ![r] = "closed"] /\ Disturb(r)
  /\ UNCHANGED <<registryVars, run, consumer, chan, wire, taskVars, logVars, reader, crashed>>

PublishTask(r) ==
  /\ gateway[r] = "subscribed"
  /\ \/ /\ gateway' = [gateway EXCEPT ![r] = "waiting"]
        /\ task' = [task EXCEPT ![r] = "queued"]
        /\ UNCHANGED disturbed
     \/ /\ "queue" \in faults
        /\ gateway' = [gateway EXCEPT ![r] = "closed"]
        /\ \E t \in {"none", "queued"} : task' = [task EXCEPT ![r] = t]
        /\ Disturb(r)
  /\ UNCHANGED <<registryVars, run, consumer, chan, wire, failures, logVars, reader, crashed>>

CloseStream(r) ==
  /\ gateway' = [gateway EXCEPT ![r] = "closed"]
  /\ chan' = [chan EXCEPT ![r] = << >>]

\* Seeded fault: the loop is left before the terminal event is sent
MutForwardStopsShort(r) ==
  /\ gateway[r] = "waiting"
  /\ chan[r] # << >>
  /\ IF Head(chan[r]) \in Terminal
       THEN CloseStream(r) /\ UNCHANGED wire
       ELSE /\ wire' = [wire EXCEPT ![r] = Append(@, Head(chan[r]))]
            /\ chan' = [chan EXCEPT ![r] = Tail(@)]
            /\ UNCHANGED gateway
  /\ UNCHANGED <<registryVars, run, consumer, disturbed, taskVars, logVars, reader, crashed>>

Forward(r) ==
  /\ gateway[r] = "waiting"
  /\ chan[r] # << >>
  /\ wire' = [wire EXCEPT ![r] = Append(@, Head(chan[r]))]
  /\ IF Head(chan[r]) \in Terminal
       THEN CloseStream(r)
       ELSE chan' = [chan EXCEPT ![r] = Tail(@)] /\ UNCHANGED gateway
  /\ UNCHANGED <<registryVars, run, consumer, disturbed, taskVars, logVars, reader, crashed>>

RunTimeout(r) ==
  /\ gateway[r] = "waiting"
  /\ wire' = [wire EXCEPT ![r] = Append(@, "error")]
  /\ CloseStream(r)
  /\ Disturb(r)
  /\ UNCHANGED <<registryVars, run, consumer, taskVars, logVars, reader, crashed>>

\* The connection between control plane and gateway breaks; events under way may
\* be lost with it.
Break(r) ==
  /\ "net" \in faults
  /\ gateway[r] \in {"open", "subscribed", "waiting"} \/ wire[r] # << >>
  /\ \E w \in {wire[r], << >>} : wire' = [wire EXCEPT ![r] = w]
  /\ CloseStream(r)
  /\ Disturb(r)
  /\ UNCHANGED <<registryVars, run, consumer, taskVars, logVars, reader, crashed>>

\* consumeRun has returned, or died: the stream's context is cancelled.
Cancelled(r) ==
  /\ consumer[r] \notin {"none", "connect", "receive"}
  /\ gateway[r] \in {"open", "subscribed", "waiting"} \/ wire[r] # << >>
  /\ wire' = [wire EXCEPT ![r] = << >>]
  /\ CloseStream(r)
  /\ UNCHANGED <<registryVars, run, consumer, disturbed, taskVars, logVars, reader, crashed>>

(***************************************************************************)
(* The task queue and the worker, see TaskStream and AgentRunner: attempts *)
(* until one succeeds, each publishing notes and one terminal event.       *)
(***************************************************************************)
Publish(r, kind) ==
  \/ /\ chan' = IF gateway[r] \in {"subscribed", "waiting"}
                  THEN [chan EXCEPT ![r] = Append(@, kind)] ELSE chan
     /\ UNCHANGED disturbed
  \/ "bus" \in faults /\ Disturb(r) /\ UNCHANGED chan

Attempt(r) ==
  /\ task[r] = "queued"
  /\ task' = [task EXCEPT ![r] = "think"]
  /\ Publish(r, "note")
  /\ UNCHANGED <<registryVars, run, consumer, gateway, wire, failures, logVars, reader, crashed>>

\* AgentDockerDriver.Acquire wants the one container of the agent, running; Exec
\* then works in its volume.
Exec(r) ==
  /\ task[r] = "think"
  /\ container[run[r].agent] = "up"
  /\ task' = [task EXCEPT ![r] = "exec"]
  /\ UNCHANGED <<registryVars, run, consumer, streamVars, failures, logVars, reader, crashed>>

ExecEnds(r) ==
  /\ task[r] = "exec"
  /\ task' = [task EXCEPT ![r] = "think"]
  /\ UNCHANGED <<registryVars, run, consumer, streamVars, failures, logVars, reader, crashed>>

Answer(r) ==
  /\ task[r] = "think"
  /\ task' = [task EXCEPT ![r] = "done"]
  /\ Publish(r, "done")
  /\ UNCHANGED <<registryVars, run, consumer, gateway, wire, failures, logVars, reader, crashed>>

AttemptFails(r) ==
  /\ task[r] = "think"
  /\ failures' = [failures EXCEPT ![r] = @ + 1]
  /\ task' = [task EXCEPT ![r] = IF failures'[r] < MaxRetry THEN "queued" ELSE "dead"]
  /\ Publish(r, "error")
  /\ UNCHANGED <<registryVars, run, consumer, gateway, wire, logVars, reader, crashed>>

WorkerDies(r) ==
  /\ "worker" \in faults
  /\ task[r] \in {"think", "exec"}
  /\ task' = [task EXCEPT ![r] = "stuck"]
  /\ Disturb(r)
  /\ UNCHANGED <<registryVars, run, consumer, gateway, chan, wire, failures, logVars, reader, crashed>>

(***************************************************************************)
(* HTTPServer.events: the browser follows the log over SSE. A connection   *)
(* starts where Last-Event-ID says, or from the beginning.                 *)
(***************************************************************************)
Follow(r, resume) ==
  /\ run[r].status # "none"
  /\ ~reader[r].open /\ reader[r].reads < MaxReads
  /\ reader' = [reader EXCEPT ![r] =
       [open |-> TRUE, reads |-> @.reads + 1,
        last |-> IF resume THEN @.last ELSE 0, got |-> IF resume THEN @.got ELSE << >>]]
  /\ UNCHANGED <<registryVars, run, consumer, streamVars, taskVars, logVars, crashed>>

\* The events of the run's list that have one of the ids.
EventsWith(r, ids) ==
  LET picked[i \in 0..Len(log[r])] ==
        IF i = 0 THEN << >>
        ELSE IF log[r][i].id \in ids THEN Append(picked[i - 1], log[r][i]) ELSE picked[i - 1]
  IN  picked[Len(log[r])]

\* Seeded fault: the last event is sent again
MutAfterRepeats(r, last) == EventsWith(r, Nat \ (0..(last - 1)))

\* EventStore.After
After(r, last) == EventsWith(r, Nat \ (0..last))

\* The browser has received the first n of the events; if that is not all of
\* them, the connection broke.
Received(read, events, n) ==
  [open  |-> n > 0 /\ n = Len(events) /\ events[n].kind \notin Terminal,
   reads |-> read.reads,
   last  |-> IF n = 0 THEN read.last ELSE events[n].id,
   got   |-> read.got \o [k \in 1..n |-> events[k].id]]

\* One turn of the loop: the new events are written, none after a terminal one.
Poll(r) ==
  LET events == After(r, reader[r].last)
  IN /\ reader[r].open
     /\ \E n \in 0..Len(events) :
          /\ events # << >>
          /\ \A k \in 1..n : events[k].kind \in Terminal => k = n
          /\ reader' = [reader EXCEPT ![r] = Received(@, events, n)]
     /\ UNCHANGED <<registryVars, run, consumer, streamVars, taskVars, logVars, crashed>>

-----------------------------------------------------------------------------
\* The control plane dies with its requests, goroutines and connections; the
\* next one finds the tables as they are and resumes nothing.
Crash ==
  /\ "crash" \in faults
  /\ ~crashed
  /\ crashed' = TRUE
  /\ req' = [q \in Requests |-> Idle]
  /\ consumer' = [r \in Runs |->
       IF consumer[r] \in {"connect", "receive", "completed", "failed"} THEN "lost" ELSE consumer[r]]
  /\ reader' = [r \in Runs |-> [reader[r] EXCEPT !.open = FALSE]]
  /\ UNCHANGED <<agentVars, served, faults, run, streamVars, taskVars, logVars>>

\* The registry's handlers do not touch the runs, but for DeleteAgentRow.
RegistryPart ==
  /\ \E q \in Requests : HandlerStep(q) \/ \E a \in Agents : Arrival(q, a)
  /\ UNCHANGED <<run, consumer, streamVars, taskVars, logVars, reader, crashed>>

RequestPart ==
  \E q \in Requests :
    \/ DeleteAgentRow(q) \/ CreateRunFails(q)
    \/ \E a \in Agents : StartRun(q, a)
    \/ \E r \in Runs : CreateRun(q, r)

ConsumerStep(r) ==
  Connect(r) \/ (\E ok \in BOOLEAN : Receive(r, ok)) \/ StreamEnds(r) \/ FinishRun(r)

GatewayStep(r) ==
  Subscribe(r) \/ PublishTask(r) \/ Forward(r) \/ RunTimeout(r) \/ Cancelled(r)

WorkerStep(r) ==
  Attempt(r) \/ Exec(r) \/ ExecEnds(r) \/ Answer(r) \/ AttemptFails(r) \/ WorkerDies(r)

ReaderStep(r) == (\E resume \in BOOLEAN : Follow(r, resume)) \/ Poll(r)

Next ==
  \/ RegistryPart \/ RequestPart \/ Crash
  \/ \E r \in Runs :
       ConsumerStep(r) \/ Expire(r) \/ GatewayStep(r) \/ Break(r) \/ WorkerStep(r) \/ ReaderStep(r)

Spec == Init /\ [][Next]_vars

\* The goroutines of a run get on with it, and the gateway's deadline comes; no
\* worker has to make progress and no request has to be finished.
Fairness == \A r \in Runs : WF_vars(ConsumerStep(r)) /\ WF_vars(GatewayStep(r))

FairSpec == Spec /\ Fairness

-----------------------------------------------------------------------------
TypeOK ==
  /\ RegistryTypeOK
  /\ req \in [Requests -> [step : RegistryStep \cup {"run.insert"}, agent : Agents, cid : BOOLEAN]]
  /\ run \in [Runs -> [status : {"none", "running", "completed", "failed", "deleted"}, agent : Agents]]
  /\ consumer \in [Runs -> {"none", "connect", "receive", "completed", "failed", "finished", "unsaved", "lost"}]
  /\ gateway \in [Runs -> {"none", "open", "subscribed", "waiting", "closed"}]
  /\ \A r \in Runs : {chan[r], wire[r]} \subseteq Seq(Terminal \cup {"note"})
  /\ task \in [Runs -> {"none", "queued", "think", "exec", "done", "dead", "stuck"}]
  /\ failures \in [Runs -> 0..MaxRetry]
  /\ \A r \in Runs : log[r] \in Seq([id : 1..seq[r], kind : Terminal \cup {"note"}])
  /\ reader \in [Runs -> [open : BOOLEAN, reads : 0..MaxReads, last : Nat, got : Seq(Nat)]]
  /\ disturbed \in [Runs -> BOOLEAN] /\ crashed \in BOOLEAN

\* The row of a run carries the verdict of the run's first attempt, which is what
\* the gateway forwards before it closes the stream: "completed" only if the
\* worker answered, after no failure, and with the "done" event stored for the
\* browser; "failed" only if an attempt failed. Only a fault makes it differ: a
\* lost event, a broken or late stream, an event that could not be stored.
RowIsFirstVerdict ==
  \A r \in Runs :
    /\ run[r].status = "completed" =>
         /\ task[r] = "done"
         /\ log[r] # << >> /\ log[r][Len(log[r])].kind = "done"
         /\ failures[r] = 0 \/ disturbed[r]
    /\ run[r].status = "failed" => failures[r] > 0 \/ disturbed[r]

\* FinishRun overwrites whatever the row holds, and yet a verdict is final: after
\* "completed" or "failed" the row is only ever deleted, with its agent, and a
\* deleted row does not return, however late the run's goroutine finishes.
VerdictIsFinal ==
  [][\A r \in Runs :
       run[r].status \in {"completed", "failed", "deleted"} => run'[r].status \in {run[r].status, "deleted"}]_vars

\* The SSE replay: over any number of broken connections, resumed with
\* Last-Event-ID or started afresh, what the browser has received is exactly the
\* stored events up to its last id, each once and in order, though appends that
\* failed left holes in the ids.
ReplayExact ==
  \A r \in Runs :
    LET upTo == EventsWith(r, 0..reader[r].last)
    IN reader[r].got = [k \in 1..Len(upTo) |-> upTo[k].id]

\* Every run gets its verdict, and its agent can start another: not if the
\* control plane dies (nothing resumes the run) or FinishRun fails (nothing
\* retries it); then the row stays "running" and blocks the agent for good.
RunSettles ==
  \A r \in Runs :
    run[r].status = "running" ~> run[r].status # "running" \/ consumer[r] \in {"lost", "unsaved"}

\* docs/ARCHITECTURE.md: one agent has one active run at a time, so that its
\* workspace is never written to by two of them.
OneWriterPerWorkspace ==
  \A r, s \in Runs :
    task[r] = "exec" /\ task[s] = "exec" /\ run[r].agent = run[s].agent => r = s
=============================================================================
