----------------------------- MODULE AgentRunner -----------------------------
(***************************************************************************)
(* agent.Runner (internal/agent/runner.go, state.go): how a worker executes*)
(* one run, attempt after attempt as the task queue hands it out. An       *)
(* attempt writes the prompt to the history, reads the history back, folds *)
(* it when it is long, and then alternates between the model and the tools *)
(* until the model answers without tool calls. States and outcomes are     *)
(* published on the event bus for whoever follows the run.                 *)
(*                                                                         *)
(* One action is one call to Redis, the model or a tool with the appends   *)
(* and events that report it; any of these may fail, and all of them do    *)
(* once the worker's context is cancelled.                                 *)
(***************************************************************************)
EXTENDS Naturals, Sequences

CONSTANTS
  MaxRetry,      \* attempts the task queue grants, see TaskStream
  ToolMaxSteps,  \* effective ToolMaxSteps
  MaxChildren,   \* effective SubagentMaxChildren
  KeepHead,      \* CompactPolicy.KeepHead
  KeepTail,      \* effective CompactPolicy.KeepTail
  Prior,         \* how many messages may already be stored under the run id
  MaxId,         \* bound: the ids the model gives to its tool calls
  Replies,       \* bound: the tool calls that a reply of the model may carry
  Configs,       \* how the worker may be configured, see Config
  Faults         \* what may go wrong, see Fault

\* tools     a tool registry is configured
\* multi     MultiAgentEnabled
\* compact   CompactPolicy.Enabled
\* failClosed  a hook client is configured and HookFailClosed is set
Config == [tools : BOOLEAN, multi : BOOLEAN, compact : BOOLEAN, failClosed : BOOLEAN]

\* history  reading or appending fails      fold     History.Fold fails
\* llm      the model stream breaks         tool     a tool cannot be executed
\* hook     the hook service fails          publish  an event is not published
\* cancel   the worker's context is cancelled
Fault == {"history", "fold", "llm", "tool", "hook", "publish", "cancel"}

\* The ids the model gives to the calls of a reply, and the empty one.
GivenId == 0..MaxId
NoId == 0

Call == [kind : {"tool", "subagent"}, id : GivenId]

ASSUME RunnerAssumption ==
  /\ MaxRetry \in Nat \ {0} /\ ToolMaxSteps \in Nat \ {0} /\ MaxChildren \in Nat \ {0}
  /\ KeepHead \in Nat /\ KeepTail \in Nat \ {0}
  /\ Prior \subseteq Nat
  /\ MaxId \in Nat /\ \A r \in Replies : r \in Seq(Call)
  /\ Configs \subseteq Config /\ Faults \subseteq Fault

VARIABLES
  config,      \* the worker's configuration
  pc,          \* where the attempt is
  attempt,     \* attempts started, the running one included
  cur,         \* the local variable of the same name
  history,     \* the visible messages of the run, as Render returns them
  msgs,        \* the messages of the next request to the model
  calls,       \* tool calls of the last reply not yet executed
  toolRounds,  \* the local variable of the same name
  children,    \* SubagentChildren[run]
  cancelled,   \* is the context cancelled
  seen,        \* the last state on the event bus
  outcome,     \* the terminal event of this attempt on the bus
  lost,        \* history: an event of this attempt was not published
  unfolded,    \* history: this attempt announced a compaction that failed
  unsaved      \* history: an append of this attempt failed

runVars  == <<config, attempt, cancelled>>
loopVars == <<msgs, calls, toolRounds, children>>
busVars  == <<seen, outcome, lost>>
noteVars == <<unfolded, unsaved>>
vars == <<runVars, pc, cur, history, loopVars, busVars, noteVars>>

State == {"PENDING", "RUNNING", "WAITING_TOOL", "COMPACTING", "DONE", "FAILED"}

\* An assistant message carries the ids of its tool calls, a tool message the id
\* it answers. Attempt 0 stands for earlier runs.
Message == [role : {"user", "assistant", "tool"}, calls : Seq(GivenId), to : Nat, attempt : Nat]

Phase == {"idle", "user", "render", "compact", "fold", "rerender", "assemble", "llm",
          "decide", "tool", "finish", "fail", "ok", "error", "dead", "gone"}

TypeOK ==
  /\ config \in Configs
  /\ pc \in Phase
  /\ attempt \in 0..MaxRetry
  /\ cur \in State /\ seen \in State
  /\ history \in Seq(Message) /\ msgs \in Seq(Message)
  /\ calls \in Seq(Call)
  /\ toolRounds \in 0..ToolMaxSteps
  /\ children \in 0..MaxChildren
  /\ cancelled \in BOOLEAN
  /\ outcome \in {"none", "done", "error"}
  /\ lost \in BOOLEAN /\ unfolded \in BOOLEAN /\ unsaved \in BOOLEAN

Said(role, ids, to) == [role |-> role, calls |-> ids, to |-> to, attempt |-> attempt]
Prompt == Said("user", <<>>, NoId)

\* A message of no attempt: of an earlier run, or the summary of a fold.
Old(role) == [role |-> role, calls |-> <<>>, to |-> NoId, attempt |-> 0]

Init ==
  /\ config \in Configs
  /\ pc = "idle"
  /\ attempt = 0
  /\ cur = "PENDING" /\ seen = "PENDING"
  /\ \E k \in Prior : history = [i \in 1..k |-> Old("user")]
  /\ msgs = <<>> /\ calls = <<>> /\ toolRounds = 0 /\ children = 0
  /\ cancelled = FALSE
  /\ outcome = "none" /\ lost = FALSE
  /\ unfolded = FALSE /\ unsaved = FALSE

-----------------------------------------------------------------------------
Goto(p) == pc' = p

\* A call that fails when it meets fault f, or because the context is cancelled.
MayFail(f) == f \in Faults \/ cancelled
MayWork == ~cancelled

\* validTransitions.
CanTransit(from, to) ==
  CASE from = "PENDING"      -> to \in {"RUNNING", "FAILED"}
    [] from = "RUNNING"      -> to \in {"WAITING_TOOL", "COMPACTING", "DONE", "FAILED"}
    [] from \in {"WAITING_TOOL", "COMPACTING"} -> to \in {"RUNNING", "FAILED"}
    [] OTHER                 -> FALSE

\* publishState: an illegal transition is refused, which the callers drop like
\* any other error.
PublishState(from, to) ==
  \/ MayWork /\ CanTransit(from, to) /\ seen' = to /\ UNCHANGED lost
  \/ (MayFail("publish") \/ ~CanTransit(from, to)) /\ lost' = TRUE /\ UNCHANGED seen

\* The state event, then the done or error event.
PublishEnd(to, kind) ==
  /\ PublishState(cur, to)
  /\ \/ MayWork /\ outcome' = kind
     \/ MayFail("publish") /\ UNCHANGED outcome

-----------------------------------------------------------------------------
\* The task queue hands the run to this or another worker. The count of
\* children is kept by the worker process.
Begin ==
  /\ pc = "idle"
  /\ attempt < MaxRetry
  /\ ~cancelled
  /\ attempt' = attempt + 1
  /\ cur' = "RUNNING"
  /\ \/ seen' = "RUNNING" /\ lost' = FALSE
     \/ "publish" \in Faults /\ lost' = TRUE /\ UNCHANGED seen
  /\ outcome' = "none"
  /\ children' \in {0, children}
  /\ Goto("user")
  /\ UNCHANGED <<config, history, msgs, calls, toolRounds, cancelled, noteVars>>

AppendUser ==
  /\ pc = "user"
  /\ \/ MayWork /\ history' = Append(history, Prompt) /\ Goto("render")
     \/ MayFail("history") /\ Goto("fail") /\ UNCHANGED history
  /\ UNCHANGED <<runVars, cur, loopVars, busVars, noteVars>>

\* Nobody else writes the history of the run, so what Render returns is what
\* the later steps work on.
Render ==
  /\ pc = "render"
  /\ \/ MayWork /\ Goto(IF config.compact THEN "compact" ELSE "assemble")
     \/ MayFail("history") /\ Goto("fail")
  /\ UNCHANGED <<runVars, cur, history, loopVars, busVars, noteVars>>

\* compactHistory up to the fold. Whether the history exceeds MaxChars depends
\* on the messages' texts; their number must leave something to fold.
CompactSkip ==
  /\ pc = "compact"
  /\ Goto("assemble")
  /\ UNCHANGED <<runVars, cur, history, loopVars, busVars, noteVars>>

CompactAnnounce ==
  /\ pc = "compact"
  /\ Len(history) > KeepHead + KeepTail + 1
  /\ \/ MayWork /\ seen' = "COMPACTING" /\ Goto("fold") /\ UNCHANGED lost
     \/ MayFail("publish") /\ lost' = TRUE /\ Goto("assemble") /\ UNCHANGED seen
  /\ UNCHANGED <<runVars, cur, history, loopVars, outcome, noteVars>>

\* Seeded fault: the fold reaches one message too far into the tail.
MutFoldedTooFar(h) ==
  SubSeq(h, 1, KeepHead) \o SubSeq(h, Len(h) - KeepTail + 2, Len(h))
    \o <<Old("assistant")>>

\* CompactIfNeeded and Fold: the messages between head and tail are hidden,
\* their summary is a new message and so comes last.
Folded(h) ==
  SubSeq(h, 1, KeepHead) \o SubSeq(h, Len(h) - KeepTail + 1, Len(h))
    \o <<Old("assistant")>>

\* Seeded fault: the fold is repeated until it works.
MutFoldRetries ==
  /\ pc = "fold"
  /\ MayWork
  /\ history' = Folded(history)
  /\ Goto("rerender")
  /\ UNCHANGED <<runVars, cur, loopVars, busVars, noteVars>>

\* A failed fold is logged, and the attempt goes on as if nothing was said.
Fold ==
  /\ pc = "fold"
  /\ \/ MayWork /\ history' = Folded(history) /\ Goto("rerender") /\ UNCHANGED unfolded
     \/ MayFail("fold") /\ unfolded' = TRUE /\ Goto("assemble") /\ UNCHANGED history
  /\ UNCHANGED <<runVars, cur, loopVars, busVars, unsaved>>

RenderAfterCompact ==
  /\ pc = "rerender"
  /\ \/ MayWork /\ PublishState("COMPACTING", "RUNNING") /\ Goto("assemble")
     \/ MayFail("history") /\ Goto("fail") /\ UNCHANGED <<seen, lost>>
  /\ UNCHANGED <<runVars, cur, history, loopVars, outcome, noteVars>>

\* The rendered history keeps roles and texts; tool calls and the ids they are
\* answered with are left behind in the tags.
FromHistory(h) == [i \in DOMAIN h |-> [h[i] EXCEPT !.calls = <<>>, !.to = NoId]]

\* Skills, retrieval and the PreLLM hook only add system messages; a hook that
\* fails closed ends the attempt.
Assemble ==
  /\ pc = "assemble"
  /\ \/ msgs' = FromHistory(history) /\ Goto("llm")
     \/ config.failClosed /\ MayFail("hook") /\ Goto("fail") /\ UNCHANGED msgs
  /\ UNCHANGED <<runVars, cur, history, calls, toolRounds, children, busVars, noteVars>>

-----------------------------------------------------------------------------
(* The loop between model and tools.                                       *)

\* Append to the history; an error is logged only.
Save(m) ==
  \/ MayWork /\ history' = Append(history, m) /\ UNCHANGED unsaved
  \/ MayFail("history") /\ unsaved' = TRUE /\ UNCHANGED history

\* The message that carries the calls of a reply.
Assistant(reply) == Said("assistant", [k \in DOMAIN reply |-> reply[k].id], NoId)

\* streamOnce and the append of the assistant message. Tokens are published
\* while the stream lasts; a reply with neither text nor calls is not stored,
\* which nothing downstream tells from an append that failed.
StreamOnce ==
  /\ pc = "llm"
  /\ MayWork
  /\ \E reply \in Replies :
       /\ calls' = reply
       /\ msgs' = Append(msgs, Assistant(reply))
       /\ \/ Save(Assistant(reply))
          \/ reply = <<>> /\ unsaved' = TRUE /\ UNCHANGED history
  /\ Goto("decide")
  /\ UNCHANGED <<runVars, cur, toolRounds, children, busVars, unfolded>>

StreamFails ==
  /\ pc = "llm"
  /\ MayFail("llm")
  /\ Goto("fail")
  /\ UNCHANGED <<runVars, cur, history, loopVars, busVars, noteVars>>

\* A provider that finds its context cancelled closes the channel without an
\* error, and streamOnce takes what it has for the whole reply.
StreamCut ==
  /\ pc = "llm"
  /\ cancelled
  /\ calls' = <<>>
  /\ msgs' = Append(msgs, Assistant(<<>>))
  /\ unsaved' = TRUE
  /\ Goto("decide")
  /\ UNCHANGED <<runVars, cur, history, toolRounds, children, busVars, unfolded>>

\* A reply without tool calls is the answer.
Answered ==
  /\ pc = "decide"
  /\ calls = <<>>
  /\ Goto("finish")
  /\ UNCHANGED <<runVars, cur, history, loopVars, busVars, noteVars>>

OnlySubagents == \A i \in DOMAIN calls : calls[i].kind = "subagent"
ToolsUsable == config.tools \/ (config.multi /\ OnlySubagents)

MoreRounds == toolRounds < ToolMaxSteps

\* No tool runtime, or too many rounds.
Refused ==
  /\ pc = "decide"
  /\ calls # <<>>
  /\ ~ToolsUsable \/ ~MoreRounds
  /\ Goto("fail")
  /\ UNCHANGED <<runVars, cur, history, loopVars, busVars, noteVars>>

EnterTools ==
  /\ pc = "decide"
  /\ calls # <<>>
  /\ ToolsUsable /\ MoreRounds
  /\ toolRounds' = toolRounds + 1
  /\ PublishState(cur, "WAITING_TOOL")
  /\ cur' = "WAITING_TOOL"
  /\ Goto("tool")
  /\ UNCHANGED <<runVars, history, msgs, calls, children, outcome, noteVars>>

\* obs.NewRunID, an id that the model has not heard of.
NewRunID == MaxId + Len(msgs)

\* callID: a call that came without an id is given one here. The assistant
\* message that carries the call keeps the empty id.
CallId == IF Head(calls).id = NoId THEN NewRunID ELSE Head(calls).id

Answer == Said("tool", <<>>, CallId)

\* Seeded fault: a tool result that is an error is not given to the model.
MutToolResultDropsErrors ==
  \/ msgs' = Append(msgs, Answer) /\ Save(Answer)
  \/ UNCHANGED <<msgs, history, unsaved>>

\* Seeded fault: the result is not stored.
MutToolResultUnstored ==
  /\ msgs' = Append(msgs, Answer)
  /\ UNCHANGED <<history, unsaved>>

\* The result, be it an error for the model to see, becomes a message.
ToolResult ==
  /\ msgs' = Append(msgs, Answer)
  /\ Save(Answer)

\* executeToolCall with a tool of the registry.
RunTool ==
  /\ pc = "tool"
  /\ calls # <<>>
  /\ Head(calls).kind = "tool" \/ ~config.multi
  /\ MayWork
  /\ ToolResult
  /\ calls' = Tail(calls)
  /\ UNCHANGED <<runVars, pc, cur, toolRounds, children, busVars, unfolded>>

ToolFails ==
  /\ pc = "tool"
  /\ calls # <<>>
  /\ Head(calls).kind = "tool" \/ ~config.multi
  /\ MayFail("tool")
  /\ Goto("fail")
  /\ UNCHANGED <<runVars, cur, history, loopVars, busVars, noteVars>>

\* dispatchSubagent: bad arguments, a limit that is reached and a child that
\* fails all come back as a result; only a dispatched child is counted.
RunSubagent ==
  /\ pc = "tool"
  /\ calls # <<>>
  /\ Head(calls).kind = "subagent" /\ config.multi
  /\ ToolResult
  /\ calls' = Tail(calls)
  /\ children' \in {children} \cup (IF children < MaxChildren THEN {children + 1} ELSE {})
  /\ UNCHANGED <<runVars, pc, cur, toolRounds, busVars, unfolded>>

\* Seeded fault: the return to RUNNING is not published.
MutLeaveToolsSilent ==
  /\ pc = "tool"
  /\ calls = <<>>
  /\ cur' = "RUNNING"
  /\ Goto("llm")
  /\ UNCHANGED <<runVars, history, loopVars, busVars, noteVars>>

LeaveTools ==
  /\ pc = "tool"
  /\ calls = <<>>
  /\ PublishState(cur, "RUNNING")
  /\ cur' = "RUNNING"
  /\ Goto("llm")
  /\ UNCHANGED <<runVars, history, loopVars, outcome, noteVars>>

-----------------------------------------------------------------------------
(* The end of an attempt.                                                  *)

\* The local variables of Run are gone.
Return(p) ==
  /\ Goto(p)
  /\ msgs' = <<>> /\ calls' = <<>> /\ toolRounds' = 0
  /\ unfolded' = FALSE /\ unsaved' = FALSE

Finish ==
  /\ pc = "finish"
  /\ PublishEnd("DONE", "done")
  /\ Return("ok")
  /\ UNCHANGED <<runVars, cur, history, children>>

\* Seeded fault: only the state is published.
MutFailSilent ==
  /\ pc = "fail"
  /\ PublishState(cur, "FAILED")
  /\ Return("error")
  /\ UNCHANGED <<runVars, cur, history, children, outcome>>

\* fail: the handler returns the error to the task queue.
Fail ==
  /\ pc = "fail"
  /\ PublishEnd("FAILED", "error")
  /\ Return("error")
  /\ UNCHANGED <<runVars, cur, history, children>>

\* The task queue (TaskStream) retries, buries, or has lost its context too.
Retry ==
  /\ pc = "error"
  /\ Goto(IF cancelled THEN "gone" ELSE IF attempt < MaxRetry THEN "idle" ELSE "dead")
  /\ UNCHANGED <<runVars, cur, history, loopVars, busVars, noteVars>>

Cancel ==
  /\ "cancel" \in Faults
  /\ pc \notin {"idle", "ok", "dead", "gone"}
  /\ ~cancelled
  /\ cancelled' = TRUE
  /\ UNCHANGED <<config, attempt, pc, cur, history, loopVars, busVars, noteVars>>

Step ==
  \/ Begin \/ AppendUser \/ Render \/ CompactSkip \/ CompactAnnounce \/ Fold
  \/ RenderAfterCompact \/ Assemble \/ StreamOnce \/ StreamFails \/ StreamCut
  \/ Answered \/ Refused \/ EnterTools \/ RunTool \/ ToolFails \/ RunSubagent
  \/ LeaveTools \/ Finish \/ Fail \/ Retry

Next == Step \/ Cancel

Spec == Init /\ [][Next]_vars

\* Model streams, tools and Redis calls have timeouts, so an attempt goes on.
FairSpec == Spec /\ WF_vars(Step)

-----------------------------------------------------------------------------
\* After a fold that failed (logged only) the bus still says COMPACTING, and the
\* next event of the attempt may be one that only RUNNING may be left with.
UnfoldedJump == unfolded /\ seen = "COMPACTING" /\ seen' \in {"WAITING_TOOL", "DONE"}

\* state.go:18: who follows the run sees only transitions of the table, each
\* attempt starting from PENDING again, but for the one event after a fold that
\* failed and for what follows a lost event. And an event is lost only because
\* it could not be published: no step of the runner asks for a transition the
\* table refuses (publishState drops such an event, runner.go:609).
TransitionsFollowTable ==
  [][/\ seen' # seen /\ pc # "idle" => CanTransit(seen, seen') \/ lost \/ UnfoldedJump
     /\ lost' /\ ~lost => cancelled \/ "publish" \in Faults]_vars

\* Message m of the attempt answers a call. A call that came without an id is
\* answered under an id that names none of the model's calls.
Answers(m, call) ==
  /\ m.role = "tool" /\ m.attempt = attempt
  /\ IF call = NoId THEN m.to \notin GivenId ELSE m.to = call

\* Every request to the model is well-formed as far as the model gave its calls
\* ids: the calls of an assistant message are answered, all of them and in
\* order, by the messages that follow it, and no answer names another call.
CallsAnswered ==
  pc = "llm" =>
    \A i \in DOMAIN msgs : msgs[i].role = "assistant" =>
      \A k \in DOMAIN msgs[i].calls :
        i + k \in DOMAIN msgs /\ Answers(msgs[i + k], msgs[i].calls[k])

\* What a provider asks of a request: a tool message names a call of an
\* assistant message. It fails when the model sends a call without an id, which
\* the answer replaces and the assistant message does not (runner.go:215, 260).
AnswersNameCalls ==
  pc = "llm" =>
    \A i \in DOMAIN msgs : msgs[i].role = "tool" /\ msgs[i].attempt = attempt =>
      \E j \in 1..(i - 1) : \E k \in DOMAIN msgs[j].calls : msgs[j].calls[k] = msgs[i].to

\* Folding never hides the prompt of the attempt from the model.
PromptInRequest ==
  pc = "llm" =>
    \E i \in DOMAIN msgs : msgs[i] = Prompt

\* An attempt that has ended said so, and truthfully: the queue is told that
\* the run is done exactly when the done event is on the bus.
EndIsPublished ==
  /\ pc \in {"ok", "error"} /\ ~cancelled /\ "publish" \notin Faults => outcome # "none"
  /\ pc = "ok" => outcome # "error" /\ (seen = "DONE" \/ lost)
  /\ pc = "error" => outcome # "done" /\ (seen = "FAILED" \/ lost)

\* The messages of attempt a in s, in order.
OfAttempt(s, a) ==
  LET said[i \in 0..Len(s)] ==
        IF i = 0 THEN << >>
        ELSE IF s[i].attempt = a THEN Append(said[i - 1], s[i]) ELSE said[i - 1]
  IN  said[Len(s)]

\* As long as appending works, the stored history and the request agree on
\* what was said in this attempt.
HistoryMatchesRequest ==
  pc = "llm" /\ ~unsaved => OfAttempt(history, attempt) = OfAttempt(msgs, attempt)

\* The run ends: the model cannot keep an attempt busy for ever.
RunEnds == <>(pc \in {"ok", "dead", "gone"})

=============================================================================
