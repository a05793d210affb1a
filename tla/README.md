# AgentForge in TLA+

A verification project for AgentForge, a multi-service runtime for LLM agents written in Go.
The modules here model the parts of the system whose correctness depends on the order of events:
queues, pools, sessions, retries, shutdown. TLC checks them on small instances; TLAPS proves the
most important properties for every value of the constants.

## 1. The system

    browser -> controlplane -> gateway -> Redis stream -> worker -> model, tools, sandbox
                   ^              ^                          |
                   |              +---- Redis pub/sub <------+   events of the run
                   +-- Postgres: agents, runs, event log

| Component | State | Operations | Interacts through |
|---|---|---|---|
| task queue (`internal/queue/stream.go`) | Redis stream, consumer group with pending list, dead-letter stream | `Publish`, `Consume`, `deadLetter` | gateway publishes, worker goroutines consume |
| worker (`cmd/worker`) | consumer goroutines under one root context | start, SIGTERM, 10 s wait, exit | task queue, tool queue, scheduler |
| sandbox pool (`internal/sandbox`) | channel of warm slots, in-flight map, closing channel | `Acquire`, `Release`, refill goroutine, `Close` | tool runner, Docker |
| agent runner (`internal/agent`) | state of one run, conversation | `Run`: render, compact, call model, call tools, publish states | queue handler, event bus, history, hooks, skills, retrieval |
| event bus (`internal/queue/pubsub.go`) | subscriptions, buffers of 256 | `Publish`, `Subscribe` | runner to gateway |
| tool path (`internal/queue/tool_stream.go`, `internal/tool`) | tool stream, one result topic per call | `execTool`, `Consume`, `Handle`, five built-in tools | gateway, worker, hooks, sandbox |
| hook service (`internal/hook`, `cmd/hookd`) | list of hooks, fixed at start | `Execute`: deny, redact, WASI modules | tool runner, agent runner |
| gateway (`cmd/gateway`) | one subscription per request | `RunAgent`, `RunPipeline`, ACP dispatch | clients, queue, event bus |
| ACP server (`internal/acp`) | session, send queue of 256, event cache, connection semaphore | HELLO, RUN, RESUME, PING, CLOSE | clients, gateway dispatcher |
| control plane (`internal/controlplane`) | agents, runs, events (Postgres); containers (Docker) | create, start, stop, delete agent; start run, consume run; SSE | browser, gateway, Docker |
| scheduler (`internal/scheduler`, `cmd/scheduler`) | set of worker ids and records with a TTL in Redis | `Register`, `Heartbeat`, `List`, `Pick` | workers, election |
| election (`internal/discovery`) | etcd session and key, cached leader and flag | campaign, resign, `Leader` | scheduler RPCs |
| orchestrator (`internal/orchestrator`) | pipeline graph | parse, validate, order, run | gateway |
| history (`internal/history`) | message list per conversation in Redis | append, patch, hide, fold, render | runner |
| skill and retrieval services | selector cache; document store | select; ingest, retrieve | runner |

### What is hard

* **Several commands make one logical step.** A retry is XADD then XACK, a dead letter is XADD then
  XACK; the process may die, be shut down, or lose the connection in between, and every error of
  these commands is dropped.
* **The Redis client retries.** go-redis repeats a command after a network error, so one XADD may
  leave two entries.
* **Shutdown leaves goroutines running with a cancelled context.** All their later commands fail.
* **Goroutines race through channels.** In the sandbox pool an `Acquire` has taken a slot before it is
  registered, a refill may push into a pool that `Close` already drained.
* **Handlers without a transaction.** The control plane reads an agent's row once and then calls
  Docker and Postgres in turn; the handlers of one agent interleave between any two calls.
* **Four lives of one run.** A run has a row in Postgres, a goroutine in the control plane, a stream
  through the gateway and a task in the queue; nothing joins them when one of them ends.
* **Two writers of one flag.** The election loop and every slow RPC write the node's leadership.
* **Lists read piece by piece.** `List` gets worker after worker, and removes what it does not find,
  while workers register, renew and expire.
* **One timer for a chain of calls.** Acquire, hook, tool and hook share the timer of an execution; each
  may find it expired, and a failed hook is ignored or fatal as configured.
* **Partial failure.** A failed spawn shrinks the pool for good; a failed run is published as failed
  and then retried; an event that cannot be cached is sent all the same.
* **Something must happen eventually.** Every accepted run ends; the pool refills; a session ends;
  sandboxes come back; some node leads.

`PROJECT.json` lists each hazard at its line, with the properties that cover it.

## 2. Modules

| Module | Models | Extends |
|---|---|---|
| `TaskStream` | `internal/queue/stream.go`, start and shutdown of `cmd/worker` | |
| `TaskLifecycle` | abstract specification: what the queue promises about a run | |
| `TaskStreamProofs`, `MCTaskStream` | theorems; instances | `TaskStream` |
| `SandboxPool` | `internal/sandbox/docker.go` | |
| `SandboxPoolProofs`, `MCSandboxPool` | theorems; instances | `SandboxPool` |
| `AcpSession` | `internal/acp` (session, server, event cache, client), `cmd/gateway/acp_dispatcher.go` | |
| `AcpSessionProofs`, `MCAcpSession` | theorems; instances | `AcpSession` |
| `AgentRunner` | `internal/agent/runner.go`, `state.go`, compaction, subagent dispatch, history as used | |
| `AgentRunnerProofs`, `MCAgentRunner` | theorems; instances | `AgentRunner` |
| `AgentRegistry` | agents of `internal/controlplane`: `service.go`, `store.go`, `docker.go` | |
| `ControlPlane` | runs, event log and SSE of `internal/controlplane`, with the gateway's `RunAgent`, the queue and the worker between them | `AgentRegistry` |
| `ControlPlaneProofs`, `MCControlPlane` | theorems; instances | `ControlPlane` |
| `HookEngine` | `internal/hook`: loading of hooks, `Execute`, WASI answers, as functions | |
| `BuiltinTools` | `Invoke` of the tools in `internal/tool`, `safePath`, allow list, as functions | |
| `ToolPath` | a tool call: `execTool`, `tool_stream.go`, `tool/runner.go`, the tool consumers of the worker | `HookEngine`, `BuiltinTools` |
| `ToolPathProofs`, `MCToolPath` | theorems; instances | `ToolPath` |
| `Election` | `Elector` of `internal/discovery/etcd.go` | |
| `Cluster` | `internal/scheduler`, `cmd/scheduler`, `runScheduler` of the worker, `Elector.Leader` | `Election` |
| `ClusterProofs`, `MCCluster` | theorems; instances | `Cluster` |
| `Pipeline` | `internal/orchestrator/pipeline.go`, `RunPipeline` of `cmd/gateway/service.go` | |
| `PipelineProofs`, `MCPipeline` | theorems; instances | `Pipeline` |

`ControlPlane` is the composition: it joins the registry of agents with the runs on them, and holds
the queue and the worker in the abstract form that `TaskStream` and `AgentRunner` work out (at most
`MaxRetry` attempts, one terminal event each). `ToolPath` composes the queue, the hooks, the tools and
(as a number) the sandbox pool; `Cluster` composes the election with the registry behind it.

Definitions whose name starts with `Mut` are seeded faults. They are not part of any specification:
each is a plausible mistake in the definition that follows it, and `PROJECT.json` says which
property notices it. Each module has a constant `Faults` (`Weathers` in the control plane: sets of
faults that strike together; `Scenarios` in the tool path; `MaxFaults` in the cluster) that selects what may go wrong in an instance; the theorems hold for
every choice unless they say otherwise.

### TaskStream

`log` is the stream, an entry's id is its index; `next` is the group's last delivered id; `pel` the
pending ids; `dlq` the ids that were copied to the dead-letter stream. `pc[c]` and `cur[c]` are the
program counter and local message of consumer goroutine `c`. `cancelled[w]` is the root context of
worker process `w`. Each Redis command of `Consume` is an action:

| Action | Code |
|---|---|
| `Publish` | XADD by the gateway; may fail, be doubled, or succeed without the caller knowing |
| `Read`, `ReadReplyLost` | XREADGROUP `>` with COUNT 1 |
| `HandlerOk`, `HandlerError` | the handler returns |
| `Retry`, `DeadLetter`, `Ack` | the XADD and XACK that follow, errors dropped |
| `Exit` | the context check at the top of the loop |
| `Shutdown`, `Die`, `Start` | SIGTERM, end of the process, a new process in the same group |

A task is reduced to whether its payload can be decoded. Under a cancelled context a new command
fails before it is sent, but a blocked read may still deliver.

`TaskLifecycle` says what a user of the queue may rely on: a run is waiting, running, failing, done,
dead or abandoned; it runs at most `MaxRetry` times, one handler at a time; ends are final. It is
also honest about the gaps: `Abandon` may happen to any run that has not ended, because nothing
claims entries that a dead worker left pending.

### SandboxPool

`pool`, `inFlight` and `closing` are the fields of `DockerDriver`. A caller is a tool execution;
`job[s]` is the refill goroutine started for slot `s`. Acquire is cut between the receive and the
registration, refill at every Docker call and select, Close between draining and waiting.
`live` is what Docker runs; `stray` the containers whose removal failed. `memory.go` has the same
structure without Docker. Stats counters and the contents of the workspace are left out.

### AcpSession

A session is one connection: a serve goroutine (`phase`), a writer goroutine (`writer`), the bounded
`sendCh` between them (`queue`, `queueOpen`) and the flag `closed`. `send` is written out with its
overflow branch, which closes the connection but not the channel. RUN subscribes, publishes the task
and forwards events until a terminal one or the hard timeout; each event gets a seq, is cached and
is then sent; an append that fails is recorded in `dropped`, for the properties only: the code ignores
the error and has used up the seq. RESUME replays the cache after `last_seq` and closes. The client dials, sends RUN or
RESUME, reads, and dials again when the connection breaks; the old session may still be running.
`gateway` has two lives, with `Stop` and `Restart` between them. Events are their place on the bus;
some are `Hidden`, of kinds the dispatcher does not forward.

### AgentRunner

One action per call that `Run` makes: append the prompt, render, fold and render again, one model
stream, one tool or subagent call, the ends. `history` is what is stored, `msgs` the request that is
built from it; a message is its role, the ids of the tool calls it carries or the id it answers, and the
attempt that wrote it. The model answers with one of `Replies`: tool and subagent calls with ids up to `MaxId`,
or with the empty id `NoId`. A call with the empty id is answered under a fresh one (`CallId`, `NewRunID`),
while the assistant message keeps the empty one.
`Retry` is the queue handing the same task out again. Any call may fail and, once the worker's
context is cancelled, every call does. The inside of a child run is one step.

### AgentRegistry and ControlPlane

An agent is a row (`row`: status and whether a container id is recorded), a container and a volume.
A request (`req`) is the handler's next call, its agent and its copy of the row's container id. Every
call to Docker or Postgres is an action; a Docker call that reports an error may have taken effect.

| Actions | Code |
|---|---|
| `Create` ... `CreateRecord`, `CreateFailed` | `Service.Create`: row, volume, container, start, `UpdateRuntime` |
| `Start*`, `Stop*` | `StartAgent`, `StopAgent` |
| `Delete*` | `DeleteAgent`: container, volume under the policy, row |
| `StartRun`, `CreateRun` | status check, then INSERT under the unique index on running runs |
| `Connect`, `Receive`, `StreamEnds`, `Expire`, `FinishRun` | `consumeRun` |
| `Subscribe`, `PublishTask`, `Forward`, `RunTimeout`, `Break`, `Cancelled` | the gateway's `RunAgent` and its stream |
| `Attempt`, `Exec`, `ExecEnds`, `Answer`, `AttemptFails`, `WorkerDies` | the queue and the worker |
| `Follow`, `Poll` | SSE with `Last-Event-ID` |
| `Crash` | the control plane dies; nothing resumes what it did |

### HookEngine, BuiltinTools and ToolPath

`HookEngine!Execute` is the loop over the hooks as a recursive function (`runHook` is one turn); what a
WASI module does is its parameter. A
payload is the set of marks its text carries: `danger`, what the deny hook finds under the keys it looks up;
`unseen`, the same under a key that only the decoder of the bash tool accepts; `secret`, the pattern of the
built-in redacting hook; `broken`, no JSON any more. Manifests are records with the pattern and the kind of
replacement of a redacting hook. `BuiltinTools!Invoke` says what a
tool makes of its arguments and of what the sandbox returns, `ExitCode` what its metadata says of it; paths are
sequences of segments, so that `safePath` with its cleaning is there in full. A path is `literal` when a shell
takes it as it stands; of one that is not, `Touched` says that fs_read and fs_write, which run a script, may touch any
path, since `%q` is no quoting for a shell.

`ToolPath` runs calls through them. `gateway[c]` is `execTool`: subscribe, XADD, wait for the first
result or the timeout. `handler[k]` is a consumer goroutine: where `ExecuteInWorkspace` is, whether it
holds a sandbox, whether its timer has fired (`late`), and the request as the hooks have rewritten it
(`Patched`). `ran[c]` records each invocation with the verdict it was allowed by, the request it was made with
and the exit code. A scenario is a choice of settings, hook manifests, faults and requests.

| Action | Code |
|---|---|
| `execTool`, `PublishTask`, `TakeResult`, `GiveUp` | the gateway's handler |
| `Read`, `Exit`, `HandlerFailed`, `Ack` | `Consume` of the tool stream, errors dropped |
| `Acquire`, `executePreToolHook`, `InvokeTool`, `executePostToolHook` | `ExecuteInWorkspace`; `Return` releases the sandbox on each way out |
| `SendResult` | `ToolBus.Publish` of the result or of the error |
| `Stop`, `Crash` | SIGTERM; a death and restart of the worker |

Texts, output limits, metrics and the matched-hooks report are left out.

### Election and Cluster

etcd is a set of keys, each under a lease; `kept[n]` says whether the node's session is being renewed.
`Campaign` creates the key, `Win` waits until no older key is left, as the etcd client does, which does
not look whether its own key still exists. `leader[n]` and `isLeader[n]` are the fields of `Elector`.
In `Cluster` an RPC is a sequence of steps: `cachedLeader`, `LeaderGet`, `LeaderLearn`, then the answer
or the list, one Redis command at a time. Every heartbeat that the worker sends carries load 0, so what
`Pick` sorts by is the number `Rank`. `steady[q]` records which workers were on the list ever since the
call began, `unread[q]` those of them whose record the call could not read. Every Redis command of a Pick
may fail; after a failed GET the SREM of the clean-up may fail at no further cost, as it would in an
outage. `Registrar` of etcd.go is left out: nobody reads what it writes.

### Pipeline

`Parsed`, `ValidatePipeline` and `TopologicalOrder` are functions of a document, a sequence of lines.
Kahn's algorithm is a recursive function: `Kahn` is one turn of the loop with its sorted ready set, `Sorted`
makes as many turns as there are steps. Repeated dependencies are counted as the code does.
`RunPipeline` then executes step after step: subscribe, publish, collect tokens until done, error, timeout
or a closed channel. The run of a step is what the gateway sees of it, including lost events, a second
attempt after a failed one, and a worker that dies.

## 3. Runs

| Run | Question | Bounds |
|---|---|---|
| `stream_faults` | do retry budget, exclusive execution and finality survive failing XADDs, lost replies, crashes and shutdowns, and is this still `TaskLifecycle`? | 2 runs (one undecodable), 2 workers, 2 attempts |
| `stream_live` | with doubled XADDs, lost replies and crashes: is an accepted run ever lost without a trace, is the attempt limit kept, is every run settled or visibly stranded? | 1 run, 2 workers, 2 attempts |
| `pool` | ownership, single use, accounting of capacity and containers, what Close waits for, refilling | 2 callers, 2 slots, 3 acquisitions, 5 containers |
| `acp_faults` | is what a client received over all its connections the run in order, with no gap but where an append failed, cached before delivery, and is the run cached whole? | 4 events, 2 connections, queue of 1, socket of 1 |
| `acp_live` | does a session end and free its permit, even with a client that does not read? | 3 events, 2 connections, queue of 2 |
| `agent` | are requests well-formed, do history and request agree, do published states follow the table and tell the truth, does the run end? | 2 attempts, 1 tool round of up to 2 calls, with and without ids, 0 or 2 earlier messages, 2 configurations |
| `control` | are deletes clean, does a row carry the first verdict and keep it, is the replay exact, does every run settle? | 1 agent, 1 run, 2 requests at once and 3 in all, 2 attempts, 2 SSE connections, 4 kinds of weather |
| `control_writers` | is a workspace used by one run at a time? **violated** | 2 runs, no faults |
| `tools` | does a tool run at most once per queued entry, are hooks respected, is the answer true, does everything come free? | 2 calls, 2 consumers, 1 sandbox, 12 scenarios |
| `cluster` | is there one leader with a key, is the choice right for a list that changes while it is read and that may be read in part, does someone lead in the end? | 2 nodes, 2 workers, 1 caller, 1 fault |
| `cluster_flag` | does the leadership flag settle on who leads? **violated** | 2 nodes, 1 caller, 1 fault |
| `pipeline` | are documents accepted and ordered by the definition, are steps fed by ended dependencies? | 796 documents of up to 3 steps, 2 attempts, answers of 1 token |

Eight further configurations check one property each that the code does not have; they are kept for
reproducing the counterexamples described under Findings: `TaskStream_dlq.cfg` (`ExhaustedGoesToDLQ`),
`SandboxPool_drain.cfg` (`CloseLeavesNothing`), `AcpSession_leak.cfg` (`SessionEnds`),
`AcpSession_hole.cfg` (`Unbroken`), `AgentRunner_ids.cfg` (`AnswersNameCalls`), `ToolPath_stranded.cfg`
(`NothingStranded`), `ToolPath_unseen.cfg` (`InvocationsConfined`) and `ToolPath_codes.cfg` (`CodeTold`).

Why the bounds are enough. The properties of the stream concern one run and the consumers that may
touch it: two consumers on two workers let one crash while the other goes on, two attempts let a
retry happen and be exhausted, the second entry makes the order of the stream matter. In the pool
two callers compete for a slot and three acquisitions force a slot to be replaced; the fifth
container leaves room for two refills. In ACP a queue of one makes overflow happen, a queue of two
makes it avoidable; two connections let a resumed client overlap its abandoned session; four events
leave some before, at and after a cut. In the runner two calls in one reply let the first succeed and
the second fail, a reply with one id missing tells the two apart, and two earlier messages trigger a fold. In the control plane two requests in
flight are the smallest race, the third comes after both; `Weathers` combines faults that meet in
the code (Docker, Postgres and a crash; log and stream; queue and bus; the goroutine's deadline and
the worker) instead of all at once. In the tool path two calls compete for one sandbox and the scenarios
pair each setting of the hooks with the faults it matters for. In the cluster one fault is enough for a
change of leader during a call, and two workers for a choice; the proofs of `ClusterProofs` cover the rest.
Three steps give chains, joins, forks and cycles of each length; two steps give all mistakes in ids,
tasks and dependencies. The proofs remove the bounds for the safety properties they
cover.

The payload without a task field (`noField`, acknowledged and dropped) is part of the model and of
the proofs but of no instance: a third entry makes the instance too large.

Deadlock checking is off: a bounded behaviour in which everything was published and settled ends.

### Findings

* `TaskStream_dlq.cfg`: `deadLetter` acknowledges whether or not its XADD worked. A run that exhausted its
  retries is then in no stream, although the comment on `maxRetry` says it goes to the DLQ.
* `SandboxPool_drain.cfg`: `Close` returns while a caller holds a slot that it has not yet registered, or while a
  refill puts a new container into the pool that was just drained; the interface promises that it
  blocks until all are released and the pool is empty.
* `AcpSession_leak.cfg`: after an overflow nobody closes `sendCh`. The writer never exits, `serve` waits for it
  for ever and the server has one connection permit less.
* `control_writers`: the first failed attempt ends the run for the control plane, which frees the
  agent for the next run, while the queue retries the task in the same container. ARCHITECTURE.md
  says that one active run per agent avoids concurrent writes to the workspace.
* `cluster_flag`: `Elector.Leader` writes what it read from etcd over what the election loop has set
  since. A leader can be left with the flag off, so that nobody picks; or a follower with the flag on,
  which picks beside the leader until its campaign succeeds. The guide says that only the leader picks.
* `ToolPath_stranded.cfg`: the comment at `tool/runner.go:345` wants no task to stay in the PEL for ever. A
  worker that is stopped leaves the entry it executes there, since its XACK uses the cancelled context.
* `AcpSession_hole.cfg`: the error of an append to the cache is dropped (`session.go:207`) after the seq was
  drawn. A client that was away then gets a resumed stream with a seq missing and an end like any other.
* `AgentRunner_ids.cfg`: a tool call without an id is given one for its answer (`runner.go:260`), and the assistant
  message that carries the call was built before (`runner.go:215`). In the next request a tool message names
  a call that no message has.
* `ToolPath_unseen.cfg`: the deny hook reads the arguments as a map with exact keys (`engine.go:203`), the bash tool
  decodes the same bytes into a struct, where the case of a key does not matter (`bash.go:34`): what the hook
  judged is not always what runs. And `safePath` judges the text of a path that fs_read and fs_write
  hand to `sh -c` with Go's `%q` (`fs.go:79`, `fs.go:148`), so that the shell may make another path of it.
* `ToolPath_codes.cfg`: with a hook client the metadata of a result comes back from JSON, where a number is a
  float64; the type assertion to int fails (`tool/runner.go:194`) and the exit code told is 0, although the
  result is marked as a failure.

Met while modelling, stated in the models, without a run of their own:

* RESUME replays the cache and closes; `pkg/acp/spec.md:105` has it follow the live run.
* A fold that fails is announced as COMPACTING all the same (`AgentRunner!unfolded`); the bus then shows one
  transition that is not in the table, which `TransitionsFollowTable` names (`UnfoldedJump`).
* A replacement of a redacting hook that breaks the JSON of the result undoes all redaction: the result is then
  told as the tool returned it (`tool/runner.go:318`). `AnswerTruthful` exempts it where such a hook is loaded.
* A worker whose record `List` could not read is skipped without a word; if the SREM after it fails as well, the
  worker stays on the list and "no live workers" may be said of a list that is not empty (`inmemory.go:93`).
* A retried attempt rebuilds its request from the history, without tool calls and their ids
  (`FromHistory`). A model stream cut by cancellation ends without an error, so the beginning of a reply is taken for the answer
  (`StreamCut`).
* A Create that fails after ContainerCreate leaves a container whose id nobody recorded. A later
  delete removes the row alone, or, under the policy "delete", fails for ever because the volume is
  in use. `DeletedIsClean` exempts rows without a container id for this reason.
* `finishRun` after a broken stream stores no terminal event: the browser polls for ever. A row says
  "failed" though a later attempt succeeded. A crash of the control plane leaves the row "running",
  which blocks the agent (`RunSettles` exempts it).
* HOOK_FAIL_CLOSED does not cover a hookd that is unreachable when the worker starts: the runner then has
  no hook client and checks nothing (`cmd/worker/main.go:201`; the scenario `dial`).
* A WASI hook reads the request as it was sent, and its payload replaces what a redacting hook before it
  made. After the tool, its denial is ignored, and a payload without `is_error` turns a failure into a
  success. `InvocationsVetted` and `AnswerTruthful` exempt what a module wrote.
* With hook failures ignored, an expired timer skips the redaction of a result.
* `runScheduler` registers once (its comment says periodically). A worker whose record expired, or whose
  id `List` removed after a failed GET, is not listed again until it restarts.
* `Pick` lists twice and may answer with a worker but no address.
* A pipeline ends at the first failed attempt of a step although the queue retries it; when the error
  event is lost, a summary holds the tokens of both attempts.

## 4. Fairness

Weak fairness throughout, of goroutines that the Go scheduler runs once they are not blocked.

* `stream_live`: each consumer. Redis answers, a handler returns because its model calls have a
  client timeout. Nobody has to publish, no worker has to start.
* `pool`: callers that hold or wait for a slot (`Exec` has a hard timeout, `Acquire` a timeout), refill
  goroutines (Docker calls have contexts with timeouts) and a Close in progress; nobody has to call
  `Acquire` or `Close`.
* `acp_live`: both goroutines of a session; reads and writes have deadlines, the
  dispatcher a hard timeout. Nothing is assumed of client or worker.
* `agent`: the attempt in progress; model, tools and Redis have timeouts.
* `tools`: each consumer (Redis, hook and sandbox calls have timeouts), the gateway's XADD and its wait, which
  ends by a timer. No caller has to call.
* `cluster`, `cluster_flag`: the loop of each node (etcd calls return; a second's pause separates attempts),
  each RPC, and etcd's expiry of leases that nobody renews. No worker has to register.
* `control`: the consumer goroutine and the gateway, whose timeout is an action among its steps. No
  request has to be finished and no worker has to make progress.

## 5. Proofs

Every safety invariant and every action property that a run checks is also proved, for all values of the
constants. 38 theorems in 8 modules are listed in `PROJECT.json`. Their assumptions are the
modules' named ones (a positive retry limit, nonempty sets, known faults) and the hypotheses below;
each hypothesis names a fault that the code does not survive, or a value that the code passes.

| Module | Theorems | Hypotheses |
|---|---|---|
| `TaskStreamProofs` | `TypeCorrect`, `AttemptsAreBounded` | none |
| | `NothingIsLost` | no XADD fails |
| | `StreamInvariant`, `ExecutionsDoNotOverlap`, `RetriesAreBudgeted`, `OutcomesAreFinal`, `StreamImplementsLifecycle` | no XADD is doubled |
| | `ExhaustedRunsAreDeadLettered` | both |
| `SandboxPoolProofs` | all | none |
| `ControlPlaneProofs`, `ClusterProofs`, `AgentRunnerProofs`, `PipelineProofs` | all | none |
| `ToolPathProofs` | all | `MaxRetry = 1`, which `cmd/worker/main.go` passes to the tool stream |
| `AcpSessionProofs` | `EventsAreDurable` | none |
| | `StreamsAreGapFree`, `RunsAreCached` | no append to the event cache fails before the gateway is stopped |

The two hypotheses on XADD are sharp: with a doubled XADD TLC finds one run executed twice at once, with a failing
one it finds `TaskStream_dlq.cfg`. The one on the cache is sharp for `Unbroken`, the stream without a hole, which
`StreamsAreGapFree` also proves and `AcpSession_hole.cfg` refutes without it; that the events whose append failed are
the only ones missing (`GapFree`, `WholeRunCached` as they stand) is checked by `acp_faults` with failing appends and
proved without them. None of the properties is inductive; what each proof adds is told
here.

**`TaskStreamProofs`.** `StreamInv`: a consumer holds a delivered entry exactly while
busy and no two hold the same (`Holding`); an entry has no outcome until its consumer turns to XACK
(`OutcomeOpen`); entries of one run have rising attempts and all but the last are spent, that is
delivered, without outcome and held by nobody but to be acknowledged (`Chain`). From `Chain`, two
running entries of one run would both be the last one, so executions do not overlap; attempts below
`MaxRetry` that rise strictly are at most `MaxRetry` many; and an entry with an outcome has no
successor. `NothingIsLost` does not need the chain. `Kept` says that what is delivered stays pending until it
is covered, that is until it has an outcome or a later attempt of its run is in the stream, and that
a consumer acknowledges nothing that is not covered unless its context is cancelled, when the XACK
does nothing. `StreamImplementsLifecycle` maps each command to a step of `TaskLifecycle` or to none: the
run's state there is read off its last entry, which by `Chain` is the only one that can be running.

**`SandboxPoolProofs`.** `Placement` is the strengthening: what was handed out is held or being replaced,
a freshly spawned container is known to one refill only. Exclusive use, single use and the
accounting of containers (`NoOrphans`) follow; the capacity theorem counts the same parts with the
cardinality theorems of the library. `CloseWaits` needs that a caller that uses a sandbox is in the
in-flight map (`Registered`): nobody but its holder removes it.

**`ControlPlaneProofs`**, with any agents, requests, runs and faults, has three invariants.

* `RegistryInv`, for the handlers. `DeletedIsClean` is not inductive: a request could still be about to create
  what was deleted. An agent has one creator and requests come with a row (`OneCreator`); while the creator
  is at work nobody knows the container id (`KnownAfterCreate`), so a request that knows it comes after, when
  nothing makes a container or a volume any more; a request may therefore rely on what it has removed
  (`Progress`), and a row that is running or stopped has an id (`KnownRows`). There is a lemma per kind of
  step, resting on two facts: a request moves within its handler (`GotoMoves`, `ReturnMoves`), and a step that
  leaves the rows alone and makes something only for the agent it is creating keeps the invariant
  (`DaemonStepKeeps`).
* `RunInv`, for runs. It relates the four places where a run lives: which of consumer, gateway and queue may be
  at work together (`Linked`), what each terminal event says of the attempt it comes from (`Truthful`), and that
  the first terminal event is the one the row takes (`FirstCounts`).
* `ReadInv`, for SSE. The ids of the log ascend and what the browser has is what the log holds up to its last
  id (`HasRead`). `After` is a loop over the log; the proof shows first that on ascending ids it returns the
  rest of the log.

**`ClusterProofs`**, with any nodes, workers, callers and faults. `OneLiveLeader`
needs that lease numbers are given out once and that a leading loop has outlasted every older key
(`ElectionInv`): two leaders with keys would each be the older one. `PickIsBest` needs to know where a
worker is that has been on the list all the time (`PickInv`): still to be read, read, about to be
removed, after which it has not been on the list all the time, or among those the call could not read. A step of one call, of a worker and of
the election each have a lemma; that there is a best worker rests on the library's theorem that the
natural numbers are well-founded.

**`ToolPathProofs`**, for any hooks, requests, paths, faults and number of consumers. `Execute` and
`LoadWithConfig` come first: the built-in hooks are loaded before any other, what they deny is
denied, and a secret is left in a payload only by a module or next to a broken replacement. The invariant is then that an entry is in one place (`Unique`), that the runs there were and
those there may still be are no more than the entries (`Budget`), that what a handler holds has been vetted up
to where it is and what ran was vetted (`Vetted`), and that whatever is on its way to the caller, and not only what arrived, is
true (`AllHonest`).

**`AgentRunnerProofs`.** `Shape` says how far the calls of the last assistant message are answered at each
program counter, and that all before it are; `Story` where the attempt's messages are in history and request; `Shown` and `Told` what
the bus has shown of the attempt. `OfAttempt`, a loop over a list, is the one definition that needs induction.

**`AcpSessionProofs`** is the longest. `Base` holds under all faults, `Inv` adds what needs that appends work. A session plays a role by its phase (`Roles`); one
session at most executes a run (`Alone`) and subscribes before its first event (`Fresh`); its numbers are those of the visible
events (`Counting`); everything in a queue, on the wire or with the client was emitted and its append tried (`EventsKnown`, which gives
`EventsAreDurable`). While no append fails (`Undropped`) the
cache is contiguous and holds the run up to what was emitted (`Cached`). `Flow` ties these together:
received events, then those on the wire of the connection in use, then its queue, then what it has yet to emit or replay
continue each other without a gap. That what RESUME reads from the cache is such a continuation is a lemma of its own
(`SortedIs`): a set with one event for each number has one order by number.

**`PipelineProofs`**, for every document. After n turns of Kahn's loop (`AtTurn`) the counts are the numbers of dependencies
that are not out, with repetitions, the ready set is that of the free steps, and each step that is out was the smallest
free one. Too few turns mean that nothing is free, so that the steps left wait for each other; otherwise the step of a set
that is out first waits for none of it. Hence `ValidatePipeline` decides `Sound`. The request's
invariant is that m steps of this order have been run: each is reported with the summary that later ones are fed, and has
ended unless the client has gone, after which no further step is begun.

Induction over data is done with sets of numbers: the lemma `Induction` (a set that has 0 and with i - 1 also i has everything
up to n) and `Recursion` (a function defined step by step exists) are proved from well-foundedness in each module that
needs them, and applied to loops written as recursive functions.

Only model-checked: liveness under fairness, which is outside what the prover handles. These are `EventuallySettled` of the
stream, `PoolRecovers`, `SessionEndsOrOverflows`, `RunEnds` of the runner, `RunSettles` of the control plane,
`ToolPathSettles` and `SomeoneLeads`. The type invariants of the stream, the pool and the runner are theorems (`TypeCorrect`,
`PoolTypeCorrect`, `RunnerTypes`); no run spends time on them. Those of the other modules are conjuncts of the invariants above.

## 6. Not modelled, and the plan

Not modelled and not planned: model providers (seen by the runner as chunks), the in-memory sandbox
driver (the Docker driver's structure, for tests), the etcd registrar, configuration, metrics, key names,
command line, console and deployment. Left out of what is modelled:

* a node with election enabled whose elector was not started: each such node picks (`cmd/scheduler/service.go:60`);
* the 64 KiB a line of a pipeline may have: `bufio.Scanner` ends with an error (`pipeline.go:96`), as it
  does for a document that does not parse;
* INCR and RPUSH of the event log repeated by the Redis client: each takes effect once or not at all;
* symbolic links in the workspace: `safePath` is about names, and so is the model;
* replacements of redacting hooks that contain needles or patterns themselves, and hooks that change the
  path of a request.

Planned, in this order:

1. `Ingest`: the retrieval service deletes and inserts the chunks of a source in two steps
   (`rag/service.go:25`); two ingestions of one source, or one that fails in between, against the comment
   that it replaces all chunks.
2. Two consumers of one worker in `AgentRunner`, which share the runner's map of subagents without a lock
   (`agent/runner.go:495`).
3. Algorithms over bounded inputs: the ACP frame codec and its limits, the chunker, the skill selector.

Theorems to come: abstract specifications of the pool (a set of single-use resources) and of the pipeline's request, with their
refinements; `GapFree` and `WholeRunCached` with failing appends; the tool stream with a retry limit above 1.
