------------------------------ MODULE ToolPath -------------------------------
(***************************************************************************)
(* One ExecTool call from the gateway to the worker and back:              *)
(* toolHandler.execTool (cmd/gateway/tool_handler.go), the tool stream and *)
(* the result bus (internal/queue/tool_stream.go), Runner.Handle with the  *)
(* hooks around the tool and the sandbox it borrows (internal/tool/        *)
(* runner.go), and the consumers of one worker (cmd/worker/main.go).       *)
(*                                                                         *)
(* The sandbox pool is a number of ready sandboxes, SandboxPool has its    *)
(* detail. Time is abstracted to timers that may fire at any moment: the   *)
(* gateway's starts with the call, the worker's with the execution.        *)
(***************************************************************************)
EXTENDS HookEngine, BuiltinTools, FiniteSets

CONSTANTS
  Calls,      \* call ids
  Consumers,  \* tool consumers of the worker
  PoolSize,   \* sandboxes of the worker
  MaxRetry,   \* what the worker passes to Consume: 1
  Scenarios,  \* settings, hook manifests, faults and requests a behaviour may meet
  MaxDoubles  \* bound: calls whose XADD is repeated

\* redis  a Redis command fails               reply  its effect is there, its reply not
\* double the client repeats an XADD          bus    a subscriber misses a result
\* dial   hookd is unreachable at start       hook   hookd is unreachable later
\* stop   SIGTERM                             crash  the worker dies
ToolFault == {"redis", "reply", "double", "bus", "dial", "hook", "stop", "crash"}

\* A request names a tool, one that is none ("unknown"), or nothing. Arguments
\* that are no JSON hold no command and no pattern.
ToolNames == Builtins \cup {"unknown", ""}
Request == [tool : ToolNames, shape : {"good", "malformed", "missing", "no_http"},
            path : [abs : BOOLEAN, segments : Seq(STRING), literal : BOOLEAN], marks : JSON]
Decodes(r) == r.shape = "malformed" => r.marks = {}

ASSUME ToolAssumption ==
  /\ PoolSize \in Nat \ {0} /\ MaxRetry \in Nat \ {0} /\ MaxDoubles \in Nat
  /\ \A s \in Scenarios :
       /\ s.faults \subseteq ToolFault /\ s.files \in Seq(Manifest)
       /\ \A c \in Calls : \A r \in s.requests[c] : r \in Request /\ Decodes(r)

VARIABLES
  faults,   \* what may go wrong in this behaviour
  config,   \* is there a hook client, does it fail closed, hookd's hooks; the
            \* requests each call may be made with
  gateway,  \* execTool of each call: where it is, the request, the answer
  results,  \* results waiting in the subscription of the call
  stream,   \* entries of queue:tool_tasks not yet delivered
  pending,  \* entries delivered and not acknowledged
  dlq,      \* entries of the dead-letter stream
  handler,  \* the consumers: where Handle is with which entry
  ready,    \* sandboxes that can be acquired
  life,     \* the worker: "up", "stopping" or, after a crash, "restarted"
  added,    \* history: entries the gateway appended for the call
  ran       \* history: the invocations of the call's tool

streamVars == <<stream, pending, dlq>>
workerVars == <<handler, ready, life, ran>>
vars == <<faults, config, gateway, results, streamVars, workerVars, added>>

Nothing == [kind |-> "none", marks |-> {}, by |-> "request", code |-> "zero"]
NoPath == [abs |-> FALSE, segments |-> << >>, literal |-> TRUE]
NoRequest == [tool |-> "", shape |-> "missing", path |-> NoPath, marks |-> {}]
Idle == [pc |-> "read", entry |-> [call |-> "none", attempt |-> 0, copy |-> 0], held |-> FALSE,
         late |-> FALSE, request |-> NoRequest, verdict |-> "none", by |-> "request", out |-> Nothing]
Gone == [Idle EXCEPT !.pc = "gone"]

\* cmd/worker/main.go: a hookd that cannot be reached when the worker starts
\* leaves the runner without a hook client.
Init ==
  /\ \E s \in Scenarios :
       /\ faults = s.faults
       /\ config = [client |-> s.enabled /\ "dial" \notin s.faults, failClosed |-> s.failClosed,
                    hooks |-> LoadWithConfig(s.files), requests |-> s.requests]
  /\ gateway = [c \in Calls |-> [pc |-> "none", request |-> NoRequest, answer |-> Nothing]]
  /\ results = [c \in Calls |-> << >>]
  /\ stream = << >>
  /\ pending = {}
  /\ dlq = {}
  /\ handler = [k \in Consumers |-> Idle]
  /\ ready = PoolSize
  /\ life = "up"
  /\ added = [c \in Calls |-> 0]
  /\ ran = [c \in Calls |-> << >>]

Fault(f) == f \in faults

(***************************************************************************)
(* The gateway: toolHandler.execTool.                                      *)
(***************************************************************************)
Subscribed(c) == gateway[c].pc \in {"publish", "wait"}

\* Unknown tools are refused; then the call subscribes, before it publishes.
execTool(c, request) ==
  /\ gateway[c].pc = "none"
  /\ \/ /\ request.tool \in Builtins
        /\ gateway' = [gateway EXCEPT ![c] = [pc |-> "publish", request |-> request, answer |-> Nothing]]
     \/ /\ request.tool \notin Builtins \/ Fault("redis")
        /\ gateway' = [gateway EXCEPT ![c].pc = "refused"]
  /\ UNCHANGED <<faults, config, results, streamVars, workerVars, added>>

\* ToolStreamQueue.Publish: one XADD, which the Redis client may repeat, and
\* whose reply may be lost: the caller then sees an error, the task runs.
PublishTask(c) ==
  /\ gateway[c].pc = "publish"
  /\ \E n \in 0..2 :
       /\ n = 2 => Fault("double") /\ Cardinality({d \in Calls : added[d] = 2}) < MaxDoubles
       /\ stream' = stream \o [i \in 1..n |-> [call |-> c, attempt |-> 0, copy |-> i]]
       /\ added' = [added EXCEPT ![c] = n]
       /\ \/ n > 0 /\ gateway' = [gateway EXCEPT ![c].pc = "wait"]
          \/ /\ IF n = 0 THEN Fault("redis") ELSE Fault("reply")
             /\ gateway' = [gateway EXCEPT ![c].pc = "refused"]
  /\ UNCHANGED <<faults, config, results, pending, dlq, workerVars>>

\* The first result is the answer.
TakeResult(c) ==
  /\ gateway[c].pc = "wait"
  /\ results[c] # << >>
  /\ gateway' = [gateway EXCEPT ![c].pc = "answered", ![c].answer = Head(results[c])]
  /\ results' = [results EXCEPT ![c] = << >>]
  /\ UNCHANGED <<faults, config, streamVars, workerVars, added>>

\* The timeout of the gateway, or the caller goes away and the subscription's
\* channel closes. A result that is already waiting may lose the race.
GiveUp(c) ==
  /\ gateway[c].pc = "wait"
  /\ gateway' = [gateway EXCEPT ![c].pc = "timeout"]
  /\ results' = [results EXCEPT ![c] = << >>]
  /\ UNCHANGED <<faults, config, streamVars, workerVars, added>>

(***************************************************************************)
(* The worker: ToolStreamQueue.Consume around Runner.Handle.               *)
(***************************************************************************)
At(k, pc) == handler[k].pc = pc

Stopping == life = "stopping"

Goto(k, pc) == handler' = [handler EXCEPT ![k].pc = pc]

Outcome(kind, marks, by, code) == [kind |-> kind, marks |-> marks, by |-> by, code |-> code]

\* XREADGROUP reads new entries only. When its reply is lost the entry stays
\* pending and nobody reads it again. A read that is blocked when the context
\* is cancelled may have its entry all the same, or lose it.
Read(k) ==
  /\ At(k, "read")
  /\ stream # << >>
  /\ stream' = Tail(stream)
  /\ pending' = pending \cup {Head(stream)}
  /\ \/ handler' = [handler EXCEPT ![k] =
                      [Idle EXCEPT !.pc = "acquire", !.entry = Head(stream),
                                   !.request = gateway[Head(stream).call].request]]
     \/ Fault("reply") /\ ~Stopping /\ UNCHANGED handler
     \/ Stopping /\ Goto(k, "gone")
  /\ UNCHANGED <<faults, config, gateway, results, dlq, ready, life, added, ran>>

\* Consume returns once its context is cancelled.
Exit(k) ==
  /\ At(k, "read") /\ Stopping
  /\ Goto(k, "gone")
  /\ UNCHANGED <<faults, config, gateway, results, streamVars, ready, life, added, ran>>

\* The context of an execution is done when Handle's is cancelled or when the
\* timer has fired (HardTimeout, or the caller's if shorter), which it may
\* have done by any step, and then stays so.
Timer(k) == {handler[k].late \/ Stopping, TRUE}

\* Seeded fault: a denied call keeps its sandbox.
MutRelease(k) == ready' = ready + IF handler[k].pc = "post" THEN 1 ELSE 0

\* The sandbox is released by the deferred call, on every way out: it is
\* destroyed and the pool refilled with a context of its own.
Release(k) == ready' = ready + IF handler[k].held THEN 1 ELSE 0

\* ExecuteInWorkspace returns.
Return(k, out) ==
  /\ Release(k)
  /\ handler' = [handler EXCEPT ![k] =
                   [Idle EXCEPT !.pc = "send", !.entry = handler[k].entry, !.out = out]]

InternalError == Outcome("execute", {}, "request", "zero")
Denied == Outcome("denied", {}, "request", "zero")

Acquire(k) ==
  /\ At(k, "acquire")
  /\ \/ /\ ready > 0
        /\ ready' = ready - 1
        /\ handler' = [handler EXCEPT ![k].pc = "pre", ![k].held = TRUE]
     \/ Return(k, InternalError)  \* the timer, a cancelled context or the pool
  /\ UNCHANGED <<faults, config, gateway, results, streamVars, life, added, ran>>

\* Answers the modules of the loaded hooks may give.
Answers(hooks) == [{i \in DOMAIN hooks : hooks[i].type = "wasm"} -> WasmAnswer]

\* A call of the hook client.
HookReplies(k, done, event, payload) ==
  IF done THEN {Failed}
  ELSE {Execute(config.hooks, event, handler[k].request.tool, payload, f) : f \in Answers(config.hooks)}
         \cup IF Fault("hook") THEN {Failed} ELSE {}

Proceed(k, late, verdict, request, by) ==
  /\ handler' = [handler EXCEPT ![k].pc = "invoke", ![k].late = late, ![k].verdict = verdict,
                                ![k].request = request, ![k].by = by]
  /\ UNCHANGED ready

\* The arguments a response stands for: those the hooks have made of them. It
\* is those of the request when the payload is no JSON, or a module's that has
\* no args_json. A module keeps to the path of the request.
Patched(request, resp) ==
  LET made(shapes) == {[request EXCEPT !.marks = resp.payload, !.shape = s] : s \in shapes}
  IN  CASE "broken" \in resp.payload -> {request}
        [] "broken" \notin resp.payload /\ resp.by = "wasm" ->
             {request} \cup made({request.shape, "malformed"})
        [] "broken" \notin resp.payload /\ resp.by # "wasm" -> made({request.shape})

\* Seeded fault: a hook call that fails counts as permission, whatever is configured.
MutPreHook(k, late, resp) ==
  LET request == handler[k].request
  IN  CASE ~config.client -> Proceed(k, late, "unhooked", request, "request")
        [] config.client /\ resp.err -> Proceed(k, late, "skipped", request, "request")
        [] config.client /\ ~resp.err /\ ~resp.allowed ->
             Return(k, Denied)
        [] config.client /\ ~resp.err /\ resp.allowed ->
             \E patched \in Patched(request, resp) : Proceed(k, late, "allowed", patched, resp.by)

\* The client's verdict on the call: without a client there is none, a failed
\* call ends the execution or is ignored, as configured.
PreHook(k, late, resp) ==
  LET request == handler[k].request
  IN  CASE ~config.client -> Proceed(k, late, "unhooked", request, "request")
        [] config.client /\ resp.err /\ config.failClosed -> Return(k, InternalError)
        [] config.client /\ resp.err /\ ~config.failClosed ->
             Proceed(k, late, "skipped", request, "request")
        [] config.client /\ ~resp.err /\ ~resp.allowed ->
             Return(k, Denied)
        [] config.client /\ ~resp.err /\ resp.allowed ->
             \E patched \in Patched(request, resp) : Proceed(k, late, "allowed", patched, resp.by)

\* Arguments that are no JSON cannot be put into the payload, which is empty then.
Marshalled(request) == IF request.shape = "malformed" THEN {} ELSE request.marks

executePreToolHook(k) ==
  /\ At(k, "pre")
  /\ \E late \in Timer(k) :
       \E resp \in HookReplies(k, late, "PreToolUse", Marshalled(handler[k].request)) :
         PreHook(k, late, resp)
  /\ UNCHANGED <<faults, config, gateway, results, streamVars, life, added, ran>>

\* tool.Invoke returns; the output of a tool that ran may hold a secret.
Invoked(k, late, leak, exec) ==
  LET request == handler[k].request
      result == Invoke(request.tool, request, exec)
      code == ExitCode(request.tool, request, exec)
  IN  /\ leak # {} => exec # "err" /\ result # "error"
      /\ ran' = [ran EXCEPT ![handler[k].entry.call] = Append(@,
                   [verdict |-> handler[k].verdict, by |-> handler[k].by, request |-> request,
                    result |-> result, code |-> code])]
      /\ IF result = "error"
           THEN Return(k, InternalError)
           ELSE /\ handler' = [handler EXCEPT ![k].pc = "post", ![k].late = late,
                                              ![k].out = Outcome(result, leak, "request", code)]
                /\ UNCHANGED ready

InvokeTool(k) ==
  /\ At(k, "invoke")
  /\ \E late \in Timer(k), leak \in SUBSET {"secret"} :
       \E exec \in ExecOutcome(handler[k].late \/ Stopping) : Invoked(k, late, leak, exec)
  /\ UNCHANGED <<faults, config, gateway, results, streamVars, life, added>>

\* Seeded fault: the result is sent as the tool returned it.
MutPostHook(k, resp) == Return(k, handler[k].out)

\* What a payload makes of the result: content and is_error are rewritten (a
\* field it lacks becomes empty, or false), unless it is no JSON or has fields
\* of other types. The metadata comes back with its numbers as float64, where
\* executeInWorkspace looks for an int: no exit code is found in it.
Rewritten(out, resp) ==
  IF "broken" \in resp.payload THEN {[out EXCEPT !.by = "broken"]}
  ELSE IF resp.by = "wasm"
    THEN {[out EXCEPT !.by = "wasm"]}
           \cup {Outcome(kind, resp.payload, "wasm", code) : kind \in {"ok", "fail"}, code \in {"zero", out.code}}
    ELSE {Outcome(out.kind, resp.payload, "request", "zero")}

\* The hook after the tool; whether it allows the result is not looked at.
\* by = "failed": the hook did not see the result.
PostHook(k, resp) ==
  LET out == handler[k].out
  IN  CASE ~config.client -> Return(k, out)
        [] config.client /\ resp.err /\ config.failClosed -> Return(k, InternalError)
        [] config.client /\ resp.err /\ ~config.failClosed -> Return(k, [out EXCEPT !.by = "failed"])
        [] config.client /\ ~resp.err -> \E told \in Rewritten(out, resp) : Return(k, told)

executePostToolHook(k) ==
  /\ At(k, "post")
  /\ \E late \in Timer(k) :
       \E resp \in HookReplies(k, late, "PostToolUse", handler[k].out.marks) : PostHook(k, resp)
  /\ UNCHANGED <<faults, config, gateway, results, streamVars, life, added, ran>>

\* ToolBus.Publish reaches the subscriber there is, if any. When it fails,
\* Handle returns the error, unless publishError met a cancelled context.
SendResult(k) ==
  LET c == handler[k].entry.call
      delivered == results' = [results EXCEPT ![c] = Append(@, handler[k].out)]
  IN  /\ At(k, "send")
      /\ \/ /\ ~Stopping
            /\ \/ Subscribed(c) /\ delivered
               \/ (Subscribed(c) => Fault("bus")) /\ UNCHANGED results
            /\ \/ Goto(k, "ack")
               \/ Fault("reply") /\ Goto(k, "failed")
         \/ /\ Fault("redis") \/ Stopping
            /\ Goto(k, IF Stopping /\ handler[k].out.kind = "execute" THEN "ack" ELSE "failed")
            /\ UNCHANGED results
      /\ UNCHANGED <<faults, config, gateway, streamVars, ready, life, added, ran>>

\* Seeded fault: the attempts are counted from zero.
MutRetry(k) ==
  LET entry == handler[k].entry
  IN  IF entry.attempt >= MaxRetry
        THEN dlq' = dlq \cup {entry} /\ UNCHANGED stream
        ELSE stream' = Append(stream, [entry EXCEPT !.attempt = @ + 1]) /\ UNCHANGED dlq

\* Consume after an error: the dead-letter stream, or one more attempt. The
\* errors of the XADD are dropped, the entry is acknowledged all the same.
Retry(k) ==
  LET entry == handler[k].entry
  IN  IF entry.attempt + 1 >= MaxRetry
        THEN dlq' = dlq \cup {entry} /\ UNCHANGED stream
        ELSE stream' = Append(stream, [entry EXCEPT !.attempt = @ + 1]) /\ UNCHANGED dlq

HandlerFailed(k) ==
  /\ At(k, "failed")
  /\ \/ ~Stopping /\ Retry(k)
     \/ (Stopping \/ Fault("redis")) /\ UNCHANGED <<stream, dlq>>
  /\ Goto(k, "ack")
  /\ UNCHANGED <<faults, config, gateway, results, pending, ready, life, added, ran>>

\* XACK, its error dropped; on a cancelled context it fails.
Ack(k) ==
  /\ At(k, "ack")
  /\ \/ ~Stopping /\ pending' = pending \ {handler[k].entry}
     \/ (Stopping \/ Fault("redis")) /\ UNCHANGED pending
  /\ handler' = [handler EXCEPT ![k] = IF Stopping THEN Gone ELSE Idle]
  /\ UNCHANGED <<faults, config, gateway, results, stream, dlq, ready, life, added, ran>>

\* SIGTERM cancels the context of all consumers.
Stop ==
  /\ Fault("stop") /\ life = "up"
  /\ life' = "stopping"
  /\ UNCHANGED <<faults, config, gateway, results, streamVars, handler, ready, added, ran>>

\* The worker dies and is started again under the same consumer names.
Crash ==
  /\ Fault("crash") /\ life = "up"
  /\ life' = "restarted"
  /\ handler' = [k \in Consumers |-> Idle]
  /\ ready' = PoolSize
  /\ UNCHANGED <<faults, config, gateway, results, streamVars, added, ran>>

Worker(k) ==
  \/ Read(k) \/ Exit(k) \/ Acquire(k) \/ executePreToolHook(k) \/ InvokeTool(k) \/ executePostToolHook(k)
  \/ SendResult(k) \/ HandlerFailed(k) \/ Ack(k)

Next ==
  \/ \E c \in Calls :
       (\E r \in config.requests[c] : execTool(c, r)) \/ PublishTask(c) \/ TakeResult(c) \/ GiveUp(c)
  \/ \E k \in Consumers : Worker(k)
  \/ Stop \/ Crash

Spec == Init /\ [][Next]_vars

\* Steps of a consumer and the gateway's timer come; callers and signals need not.
FairSpec ==
  /\ Spec
  /\ \A c \in Calls : WF_vars(PublishTask(c)) /\ WF_vars(TakeResult(c) \/ GiveUp(c))
  /\ \A k \in Consumers : WF_vars(Worker(k))

-----------------------------------------------------------------------------
\* A tool runs at most once per entry the gateway appended for the call: no
\* failed publication, lost acknowledgement, shutdown or restart of the
\* worker repeats its effect (maxRetry = 1 of cmd/worker/main.go, Consume).
RunsAtMostOnce == \A c \in Calls : Len(ran[c]) <= added[c]

\* With a hook client, bash with these marks runs past a failed call that may be
\* ignored, or because a module rewrote the arguments.
Excused(x) == x.by = "wasm" \/ (x.verdict = "skipped" /\ ~config.failClosed)

\* What a tool was called with: a dangerous command the hook can see is not run
\* unless excused; fs_list, and fs_read and fs_write with a path the shell
\* takes as it stands, touch nothing outside the workspace (executePreToolHook,
\* safePath).
InvocationsVetted ==
  \A c \in Calls : \A i \in DOMAIN ran[c] :
    LET x == ran[c][i]
        r == x.request
    IN  /\ config.client /\ r.tool = "bash" /\ "danger" \in r.marks => Excused(x)
        /\ r.tool = "fs_list" \/ r.path.literal
             => \A place \in Touched(r.tool, r) : Under(place, WorkspaceContainer)

\* The same without the two provisos, which the code breaks: BashTool.Invoke runs
\* what denyDangerousBash did not look up, and sh -c expands what safePath judged.
InvocationsConfined ==
  \A c \in Calls : \A i \in DOMAIN ran[c] :
    LET x == ran[c][i]
        r == x.request
    IN  /\ config.client /\ r.tool = "bash" /\ r.marks \cap {"danger", "unseen"} # {} => Excused(x)
        /\ \A place \in Touched(r.tool, r) : Under(place, WorkspaceContainer)

\* A result is that of the invocation x: its kind, unless a module rewrote it, and
\* its exit code, which a hook client loses.
Tells(x, answer) ==
  /\ answer.kind = x.result \/ answer.by = "wasm"
  /\ answer.code = x.code \/ (config.client /\ answer.code = "zero")

\* Some loaded hook may leave text that is no JSON.
Breaks == \E i \in DOMAIN config.hooks : config.hooks[i].replacement = "broken"

\* What the caller is told is what happened: a result is that of an invocation
\* for this call, a denial that of an entry whose tool did not run, and a
\* secret in it was put there by a module, or let through where hook failures
\* are ignored or a loaded hook breaks the payload (Runner.Handle,
\* executePostToolHook).
AnswerTruthful ==
  \A c \in Calls :
    LET answer == gateway[c].answer
    IN  /\ answer.kind \in {"ok", "fail"} => \E i \in DOMAIN ran[c] : Tells(ran[c][i], answer)
        /\ answer.kind = "denied" => Len(ran[c]) < added[c]
        /\ config.client /\ "secret" \in answer.marks
             => \/ answer.by = "wasm"
                \/ answer.by = "failed" /\ ~config.failClosed
                \/ answer.by = "broken" /\ Breaks

\* The exit code is that of the command (the gateway reads it off the result).
CodeTold ==
  \A c \in Calls :
    LET answer == gateway[c].answer
    IN  answer.kind \in {"ok", "fail"} /\ answer.by # "wasm"
          => \E i \in DOMAIN ran[c] : ran[c][i].code = answer.code

\* Everything comes to an end: the callers have their answer or an error, the
\* consumers are idle, all sandboxes are back, and an entry is still pending
\* only where a Redis reply was lost, or the worker was stopped or killed.
ToolPathSettles ==
  <>[](/\ \A c \in Calls : gateway[c].pc \notin {"publish", "wait"}
       /\ \A k \in Consumers : handler[k] \in {Idle, Gone}
       /\ ready = PoolSize
       /\ pending # {} => Fault("redis") \/ Fault("reply") \/ life # "up")

\* "Do not let a task stay in the PEL for ever": an entry no consumer holds is
\* not pending (Runner.publishError returns nil so that the stream acks).
NothingStranded ==
  \A e \in pending : \E k \in Consumers : handler[k].entry = e
===============================================================================
