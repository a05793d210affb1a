------------------------------ MODULE Pipeline -------------------------------
(***************************************************************************)
(* Pipelines: the parser, the validation and the order of the steps        *)
(* (internal/orchestrator/pipeline.go), and the request that runs them one *)
(* after the other over the task queue (RunPipeline and runPipelineStep of *)
(* cmd/gateway/service.go).                                                *)
(*                                                                         *)
(* A document is a sequence of lines [key, val]. Ids are numbers in the    *)
(* order of the strings they stand for, 0 is the empty one; of a task only *)
(* matters whether it is blank. The worker's run is what the gateway sees  *)
(* of it: tokens, then done or error, and after an error, which ends the   *)
(* attempt only, the same again; any event may be lost on its way.         *)
(***************************************************************************)
EXTENDS Integers, Sequences, SequencesExt, FiniteSetsExt

CONSTANTS
  Documents,  \* specifications that are sent
  AnswerLen,  \* tokens of a run's answer
  MaxRetry    \* attempts the queue makes at a task

\* What the value of a line may be.
Value(key) ==
  CASE key \in {"item", "id"} -> Nat
    [] key = "task" -> BOOLEAN
    [] key = "depends_on" -> Seq(Nat)
    [] OTHER -> STRING

ASSUME PipelineAssumption ==
  /\ AnswerLen \in Nat /\ MaxRetry \in Nat \ {0}
  /\ \A d \in Documents : Len(d) \in Nat /\ \A i \in 1..Len(d) : d[i].val \in Value(d[i].key)

VARIABLES
  doc,        \* the request's document
  pc,         \* where RunPipeline and runPipelineStep are
  order,      \* the ordered steps that are still to run, the current one first
  results,    \* resp.Results
  summaries,  \* the summary by step id
  prompt,     \* what the task of the current step says of its dependencies
  text,       \* the tokens received for the current step
  run,        \* the current step's run: where it is, which attempt, the tokens sent
  events,     \* its events on the way to the gateway
  cancelled,  \* has the client gone
  finished    \* history: steps whose run came to its end

vars == <<doc, pc, order, results, summaries, prompt, text, run, events, cancelled, finished>>
request == <<doc, order, results, summaries, prompt, cancelled>>
worker == <<run, events, finished>>

NoRun == [at |-> "none", attempt |-> 0, sent |-> 0]

-----------------------------------------------------------------------------
(* ParsePipeline. The step being read is the last one of the list.          *)

NewStep(id) == [id |-> id, task |-> FALSE, deps |-> << >>]

parseList(list) ==
  LET kept[i \in 0..Len(list)] ==
        IF i = 0 THEN << >>
        ELSE IF list[i] # 0 THEN Append(kept[i - 1], list[i]) ELSE kept[i - 1]
  IN  kept[Len(list)]

\* "- key: value" begins a step and is read for an id only.
ParseLine(steps, line) ==
  LET cur == Len(steps) IN
  CASE line.key = "item"                     -> Append(steps, NewStep(line.val))
    [] line.key = "id" /\ cur > 0            -> [steps EXCEPT ![cur].id = line.val]
    [] line.key = "task" /\ cur > 0          -> [steps EXCEPT ![cur].task = line.val]
    [] line.key = "depends_on" /\ cur > 0    -> [steps EXCEPT ![cur].deps = parseList(line.val)]
    [] OTHER                                 -> steps

Parsed(lines) ==
  LET steps[i \in 0..Len(lines)] == IF i = 0 THEN << >> ELSE ParseLine(steps[i - 1], lines[i])
  IN  steps[Len(lines)]

IdsOf(p) == {p[i].id : i \in DOMAIN p}
Occurrences(list, id) == Cardinality({k \in DOMAIN list : list[k] = id})

\* One turn of the loop of TopologicalOrder: the first of the sorted ready
\* list is put out, its children have their count lowered once for each time
\* they name it.
Kahn(p, s) ==
  IF s.ready = {} THEN s
  ELSE LET id    == Min(s.ready)
           kids  == {i \in DOMAIN p : Occurrences(p[i].deps, id) > 0}
           indeg == [i \in DOMAIN p |-> s.indeg[i] - Occurrences(p[i].deps, id)]
       IN  [ready |-> (s.ready \ {id}) \cup {p[i].id : i \in {j \in kids : indeg[j] = 0}},
            indeg |-> indeg,
            out   |-> Append(s.out, p[CHOOSE i \in DOMAIN p : p[i].id = id])]

\* The loop begins with the steps of count 0. A turn finds nothing ready before
\* all steps are out only if there is a cycle.
Sorted(p, indeg) ==
  LET ready == {p[i].id : i \in {j \in DOMAIN p : indeg[j] = 0}}
      turn[n \in 0..Len(p)] ==
        IF n = 0 THEN [ready |-> ready, indeg |-> indeg, out |-> << >>] ELSE Kahn(p, turn[n - 1])
  IN  turn[Len(p)].out

\* Seeded fault: a dependency that is named twice is counted once.
MutTopologicalOrder(p) == Sorted(p, [i \in DOMAIN p |-> Cardinality(ToSet(p[i].deps))])

TopologicalOrder(p) == Sorted(p, [i \in DOMAIN p |-> Len(p[i].deps)])

ValidatePipeline(p) ==
  LET seen(i) == \E j \in 1..(i - 1) : p[j].id = p[i].id
      bad     == {i \in DOMAIN p : p[i].id = 0 \/ seen(i) \/ ~p[i].task}
      first   == Min(bad)
  IN  IF bad # {}
      THEN IF p[first].id # 0 /\ seen(first) THEN "duplicate" ELSE "missing"
      ELSE IF \E i \in DOMAIN p : ~ToSet(p[i].deps) \subseteq IdsOf(p) THEN "missing"
      ELSE IF Len(TopologicalOrder(p)) # Len(p) THEN "cycle"
      ELSE "ok"

-----------------------------------------------------------------------------
Init ==
  /\ doc \in Documents
  /\ pc = "request"
  /\ order = << >> /\ results = << >> /\ summaries = << >> /\ prompt = << >> /\ text = << >>
  /\ run = NoRun /\ events = << >>
  /\ cancelled = FALSE /\ finished = {}

\* A blank or an invalid document is refused as a whole.
RunPipeline ==
  /\ pc = "request"
  /\ LET p == Parsed(doc) IN
       IF doc = << >> \/ ValidatePipeline(p) # "ok"
       THEN pc' = "refused" /\ UNCHANGED order
       ELSE pc' = "next" /\ order' = TopologicalOrder(p)
  /\ UNCHANGED <<doc, results, summaries, prompt, text, cancelled, worker>>

Result(status) == [id |-> Head(order).id, status |-> status, summary |-> text]

\* Seeded fault: the request goes on after a step that failed.
MutStepFails ==
  /\ results' = Append(results, Result("error"))
  /\ order' = Tail(order)
  /\ text' = << >>
  /\ pc' = "next"
  /\ UNCHANGED <<doc, summaries, prompt, cancelled, worker>>

\* The first error ends the request: the rest of the steps is not run.
StepFails ==
  /\ results' = Append(results, Result("error"))
  /\ pc' = "answered"
  /\ UNCHANGED <<doc, order, summaries, prompt, text, cancelled, worker>>

StepOk ==
  /\ results' = Append(results, Result("ok"))
  /\ summaries' = [id \in DOMAIN summaries \cup {Head(order).id} |->
                     IF id = Head(order).id THEN text ELSE summaries[id]]
  /\ order' = Tail(order)
  /\ text' = << >>
  /\ pc' = "next"
  /\ UNCHANGED <<doc, prompt, cancelled, worker>>

\* The step's prompt, and the subscription to its events.
Subscribe ==
  /\ pc = "next" /\ order # << >> /\ ~cancelled
  /\ prompt' = [k \in DOMAIN Head(order).deps |->
                  IF Head(order).deps[k] \in DOMAIN summaries THEN summaries[Head(order).deps[k]] ELSE << >>]
  /\ events' = << >> /\ run' = NoRun
  /\ pc' = "publish"
  /\ UNCHANGED <<doc, order, results, summaries, text, cancelled, finished>>

\* Redis fails, or the client has gone.
SubscribeFails == pc = "next" /\ order # << >> /\ StepFails

PublishTask ==
  /\ pc = "publish" /\ ~cancelled
  /\ run' = [at |-> "running", attempt |-> 1, sent |-> 0]
  /\ pc' = "wait"
  /\ UNCHANGED <<request, text, events, finished>>

PublishFails == pc = "publish" /\ StepFails

Receive ==
  /\ pc = "wait" /\ events # << >>
  /\ Head(events) = "token"
  /\ text' = Append(text, Head(events))
  /\ events' = Tail(events)
  /\ UNCHANGED <<request, pc, run, finished>>

ReceiveDone == pc = "wait" /\ events # << >> /\ Head(events) = "done" /\ StepOk

ReceiveError == pc = "wait" /\ events # << >> /\ Head(events) = "error" /\ StepFails

\* The hard timeout, or the client's: what has come so far is the summary.
HardTimeout == pc = "wait" /\ StepFails

\* With the client gone the channel is closed as well as the context done, and
\* select takes either.
ChannelClosed == pc = "wait" /\ cancelled /\ StepOk

Answer ==
  /\ pc = "next" /\ order = << >>
  /\ pc' = "answered"
  /\ UNCHANGED <<request, text, worker>>

ClientGoes ==
  /\ pc \in {"next", "publish", "wait"} /\ ~cancelled
  /\ cancelled' = TRUE
  /\ UNCHANGED <<doc, pc, order, results, summaries, prompt, text, worker>>

-----------------------------------------------------------------------------
(* The run of the step's task, on some worker.                              *)

Running == pc = "wait" /\ run.at = "running"

Token ==
  /\ Running /\ run.sent < AnswerLen
  /\ run' = [run EXCEPT !.sent = @ + 1]
  /\ \E lost \in BOOLEAN : events' = IF lost THEN events ELSE Append(events, "token")
  /\ UNCHANGED <<request, pc, text, finished>>

RunEnds(kind) ==
  /\ Running
  /\ kind = "done" => run.sent = AnswerLen
  /\ run' = [run EXCEPT !.at = kind]
  /\ finished' = IF kind = "done" THEN finished \cup {Head(order).id} ELSE finished
  /\ \E lost \in BOOLEAN : events' = IF lost THEN events ELSE Append(events, kind)
  /\ UNCHANGED <<request, pc, text>>

\* The handler's error makes the queue hand the task out once more. The gateway
\* sees it when the error event was lost, or is still on its way.
Retry ==
  /\ pc = "wait" /\ run.at = "error" /\ run.attempt < MaxRetry
  /\ run' = [at |-> "running", attempt |-> run.attempt + 1, sent |-> 0]
  /\ UNCHANGED <<request, pc, text, events, finished>>

\* The worker dies: nobody claims the task, the run never ends.
WorkerDies ==
  /\ Running
  /\ run' = [run EXCEPT !.at = "dead"]
  /\ UNCHANGED <<request, pc, text, events, finished>>

Next ==
  \/ RunPipeline \/ Subscribe \/ SubscribeFails \/ PublishTask \/ PublishFails
  \/ Receive \/ ReceiveDone \/ ReceiveError \/ HardTimeout \/ ChannelClosed \/ Answer \/ ClientGoes
  \/ Token \/ RunEnds("done") \/ RunEnds("error") \/ Retry \/ WorkerDies

Spec == Init /\ [][Next]_vars

-----------------------------------------------------------------------------
(* What a pipeline and its order are for.                                   *)

\* Its ids are names of their own, its tasks are not blank, its dependencies
\* exist and no set of steps waits for itself.
Sound(p) ==
  LET deps(i) == ToSet(p[i].deps) IN
  /\ \A i \in DOMAIN p : p[i].id # 0 /\ p[i].task /\ deps(i) \subseteq IdsOf(p)
  /\ \A i, j \in DOMAIN p : p[i].id = p[j].id => i = j
  /\ \A w \in (SUBSET DOMAIN p) \ {{}} : \E i \in w : deps(i) \cap {p[j].id : j \in w} = {}

\* The ids before place k.
Before(s, k) == {s[j].id : j \in 1..(k - 1)}

\* The steps that may be next when those of O are out.
Free(p, O) ==
  {p[i].id : i \in {j \in DOMAIN p : p[j].id \notin O /\ ToSet(p[j].deps) \subseteq O}}

\* ValidatePipeline and TopologicalOrder against what they are for: a pipeline
\* is accepted exactly when it is sound, and each step of the order is the
\* smallest of those whose dependencies are all before it, so that the order
\* does not hang on Go's map order.
OrderIsRight ==
  LET p == Parsed(doc) IN
  /\ pc = "refused" => doc = << >> \/ ~Sound(p)
  /\ pc = "next" /\ results = << >> =>
       /\ Sound(p)
       /\ Len(order) = Len(p)
       /\ \A k \in DOMAIN order :
            /\ Free(p, Before(order, k)) # {}
            /\ order[k].id = Min(Free(p, Before(order, k)))

\* A step's task is in the queue only after the run of each of its
\* dependencies came to its end, and tells the summaries that the response
\* reports for them, whatever was lost, timed out, died or was cancelled
\* (agentService.RunPipeline; a dependency that failed ends the request).
DependenciesFed ==
  pc = "wait" =>
    \A k \in DOMAIN Head(order).deps :
      /\ Head(order).deps[k] \in finished
      /\ \E r \in ToSet(results) :
           r.id = Head(order).deps[k] /\ r.status = "ok" /\ r.summary = prompt[k]
===============================================================================
