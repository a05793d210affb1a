--------------------------- MODULE MCAgentRunner ---------------------------
(* Instances of AgentRunner: two attempts, a tool round of up to two        *)
(* calls, under a worker with everything enabled and one without tools.     *)
EXTENDS AgentRunner

FullWorker == [tools |-> TRUE, multi |-> TRUE, compact |-> TRUE, failClosed |-> TRUE]
BareWorker == [tools |-> FALSE, multi |-> FALSE, compact |-> FALSE, failClosed |-> FALSE]
TwoWorkers == {FullWorker, BareWorker}

CallOf(kind, id) == [kind |-> kind, id |-> id]

\* No call, one or two, to a tool or a subagent, with an id or without.
SomeReplies ==
  {<<>>,
   <<CallOf("tool", 1)>>, <<CallOf("subagent", 1)>>, <<CallOf("tool", NoId)>>,
   <<CallOf("tool", 1), CallOf("subagent", 2)>>,
   <<CallOf("subagent", 1), CallOf("subagent", 2)>>,
   <<CallOf("tool", NoId), CallOf("tool", 2)>>}

=============================================================================
