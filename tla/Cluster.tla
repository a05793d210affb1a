------------------------------- MODULE Cluster -------------------------------
(***************************************************************************)
(* The scheduler: its worker list in Redis (internal/scheduler/            *)
(* inmemory.go), the RPCs of its nodes (cmd/scheduler/service.go and the   *)
(* handlers of main.go), the workers that register (runScheduler of        *)
(* cmd/worker/main.go), on top of the Election of the nodes.               *)
(*                                                                         *)
(* A worker's record is there or has expired. Load and in-flight count are *)
(* 0 in all heartbeats that runScheduler sends, so what Pick sorts by is   *)
(* the concurrency and then the id: Rank numbers the workers that way.     *)
(***************************************************************************)
EXTENDS Election

CONSTANTS
  Workers,  \* worker ids
  NoWorker,
  Rank,     \* position of a worker in Pick's order
  Callers   \* clients of the scheduler

ASSUME ClusterAssumption ==
  /\ NoWorker \notin Workers
  /\ Rank \in [Workers -> Nat]
  /\ \A v, w \in Workers : Rank[v] = Rank[w] => v = w

VARIABLES
  member,  \* the set workers: ids that List looks up
  record,  \* worker:{id}: has the worker a record that has not expired
  agent,   \* where runScheduler of each worker is
  call,    \* the RPC each caller is making
  steady,  \* history: workers on the list ever since the caller's Pick began
  unread   \* history: workers whose record the caller's Pick could not read

registryVars == <<member, record, agent>>
notes == <<steady, unread>>
vars == <<electionVars, faults, registryVars, call, notes>>

\* bad: the id whose GET failed; down: it failed because Redis did.
NoCall == [pc |-> "idle", node |-> NoNode, info |-> NoNode, todo |-> {}, bad |-> {}, down |-> FALSE,
           live |-> {}, picked |-> NoWorker, reply |-> "none"]

Init ==
  /\ ElectionInit
  /\ member = {}
  /\ record = [w \in Workers |-> FALSE]
  /\ agent = [w \in Workers |-> "start"]
  /\ call = [q \in Callers |-> NoCall]
  /\ steady = [q \in Callers |-> {}]
  /\ unread = [q \in Callers |-> {}]

\* Every step that may take a worker off the list shortens the histories.
Watch ==
  /\ steady' = [q \in Callers |-> {w \in steady[q] : w \in member' /\ record'[w]}]
  /\ UNCHANGED unread

(***************************************************************************)
(* The workers: register once, then send heartbeats.                       *)
(***************************************************************************)
Register(w) ==
  /\ agent[w] = "start"
  /\ agent' = [agent EXCEPT ![w] = "beat"]
  /\ record' = [record EXCEPT ![w] = TRUE]
  /\ member' = member \cup {w}
  /\ UNCHANGED <<electionVars, faults, call, notes>>

\* The dial or the registration fails: runScheduler returns, and the worker
\* works on unknown to the scheduler.
RegisterFails(w) ==
  /\ agent[w] = "start" /\ Faulty
  /\ agent' = [agent EXCEPT ![w] = "unknown"]
  /\ UNCHANGED <<electionVars, member, record, call, notes>>

\* Heartbeat is a GET and a SET with a new TTL; without a record it is an
\* error, which the worker logs.
HeartbeatGet(w) ==
  /\ agent[w] = "beat"
  /\ record[w]
  /\ agent' = [agent EXCEPT ![w] = "set"]
  /\ UNCHANGED <<electionVars, faults, member, record, call, notes>>

HeartbeatSet(w) ==
  /\ agent[w] = "set"
  /\ agent' = [agent EXCEPT ![w] = "beat"]
  /\ record' = [record EXCEPT ![w] = TRUE]
  /\ UNCHANGED <<electionVars, faults, member, call, notes>>

runScheduler(w) == Register(w) \/ RegisterFails(w) \/ HeartbeatGet(w) \/ HeartbeatSet(w)

\* The TTL passes: the worker is gone, or its heartbeats do not come through.
RecordExpires(w) ==
  /\ record[w]
  /\ IF agent[w] \in {"beat", "set"} THEN Faulty ELSE UNCHANGED faults
  /\ record' = [record EXCEPT ![w] = FALSE]
  /\ UNCHANGED <<electionVars, member, agent, call>>
  /\ Watch

\* A worker dies and comes back under the same id.
WorkerRestart(w) ==
  /\ agent[w] # "start" /\ Faulty
  /\ agent' = [agent EXCEPT ![w] = "start"]
  /\ UNCHANGED <<electionVars, member, record, call, notes>>

(***************************************************************************)
(* The RPCs. Pick and Leader first ask Elector.Leader, which answers from  *)
(* the cache or reads etcd and writes what it read to the cache.           *)
(***************************************************************************)
Serving(q, pc) == call[q].pc = pc

cachedLeader(q, n) ==
  /\ Serving(q, "idle")
  /\ n \notin stopped
  /\ call' = [call EXCEPT ![q] = [NoCall EXCEPT !.node = n,
                                  !.pc = IF leader[n] = NoNode THEN "get" ELSE "check"]]
  /\ steady' = [steady EXCEPT ![q] = {w \in member : record[w]}]
  /\ unread' = [unread EXCEPT ![q] = {}]
  /\ UNCHANGED <<electionVars, faults, registryVars>>

\* The GET of the oldest key; without one, or when it fails, the node names
\* itself and writes nothing.
LeaderGet(q) ==
  /\ Serving(q, "get")
  /\ \/ \E k \in keys :
          /\ \A j \in keys : k.lease <= j.lease
          /\ call' = [call EXCEPT ![q].pc = "learn", ![q].info = k.node]
     \/ call' = [call EXCEPT ![q].pc = "check"]
  /\ UNCHANGED <<electionVars, faults, registryVars, notes>>

LeaderLearn(q) ==
  /\ Serving(q, "learn")
  /\ setLeader(call[q].node, call[q].info, call[q].info = call[q].node)
  /\ call' = [call EXCEPT ![q].pc = "check", ![q].info = NoNode]
  /\ UNCHANGED <<lease, kept, granted, keys, loop, stopped, faults, registryVars, notes>>

Answer(q, reply) ==
  /\ call' = [call EXCEPT ![q] = [NoCall EXCEPT !.reply = reply]]
  /\ steady' = [steady EXCEPT ![q] = {}]
  /\ UNCHANGED <<electionVars, registryVars, unread>>

\* schedulerService.Leader and the handler of /leader end here.
Leader(q) ==
  /\ Serving(q, "check")
  /\ Answer(q, IF isLeader[call[q].node] THEN "leader" ELSE "not_leader")
  /\ UNCHANGED faults

PickNotLeader(q) ==
  /\ Serving(q, "check")
  /\ ~isLeader[call[q].node]
  /\ Answer(q, "not_leader")
  /\ UNCHANGED faults

\* RedisScheduler.List: SMEMBERS, then a GET for each id, in any order. It
\* runs twice: to choose the worker, and to find its address. /workers calls
\* it as well, with the same effects.
Members(q, pc) ==
  call' = [call EXCEPT ![q].pc = pc, ![q].todo = member, ![q].live = {}]

PickList(q) ==
  /\ Serving(q, "check")
  /\ isLeader[call[q].node]
  /\ Members(q, "list")
  /\ UNCHANGED <<electionVars, faults, registryVars, notes>>

\* SMEMBERS fails, and Pick with it.
PickFails(q) ==
  /\ Serving(q, "check")
  /\ isLeader[call[q].node]
  /\ Faulty
  /\ Answer(q, "error")

Listing == {"list", "address"}

ListGet(q, w) ==
  /\ call[q].pc \in Listing /\ call[q].bad = {}
  /\ w \in call[q].todo
  /\ \/ /\ record[w]
        /\ call' = [call EXCEPT ![q].todo = @ \ {w}, ![q].live = @ \cup {w}]
        /\ UNCHANGED faults
        /\ UNCHANGED unread
     \/ /\ IF record[w] THEN Faulty ELSE UNCHANGED faults
        /\ call' = [call EXCEPT ![q].todo = @ \ {w}, ![q].bad = {w}, ![q].down = record[w]]
        /\ unread' = IF record[w] /\ call[q].pc = "list"
                     THEN [unread EXCEPT ![q] = @ \cup {w}] ELSE unread
  /\ UNCHANGED <<electionVars, registryVars, steady>>

\* The record was not there at the GET, or the GET failed: the id is removed,
\* whatever happened since.
ListRemove(q) ==
  /\ call[q].pc \in Listing /\ call[q].bad # {}
  /\ member' = member \ call[q].bad
  /\ call' = [call EXCEPT ![q].bad = {}, ![q].down = FALSE]
  /\ UNCHANGED <<electionVars, faults, record, agent>>
  /\ Watch

\* The SREM fails, as it may after a GET that failed because Redis did: the id
\* stays, and this listing goes on without it.
ListRemoveFails(q) ==
  /\ call[q].pc \in Listing /\ call[q].bad # {}
  /\ IF call[q].down THEN UNCHANGED faults ELSE Faulty
  /\ call' = [call EXCEPT ![q].bad = {}, ![q].down = FALSE]
  /\ UNCHANGED <<electionVars, registryVars, notes>>

Listed(q) == Serving(q, "list") /\ call[q].todo = {} /\ call[q].bad = {}

\* Seeded fault: the last in the order is taken.
MutBest(live) == CHOOSE w \in live : \A v \in live : Rank[w] >= Rank[v]

Best(live) == CHOOSE w \in live : \A v \in live : Rank[w] <= Rank[v]

Choose(q) ==
  /\ Listed(q)
  /\ call[q].live # {}
  /\ call' = [call EXCEPT ![q].pc = "address", ![q].picked = Best(call[q].live),
                          ![q].todo = member, ![q].live = {}]
  /\ UNCHANGED <<electionVars, faults, registryVars, notes>>

NoLiveWorkers(q) ==
  /\ Listed(q)
  /\ call[q].live = {}
  /\ Answer(q, "no_workers")
  /\ UNCHANGED faults

\* The second SMEMBERS fails: the worker is named without its address.
AddressFails(q) ==
  /\ Listed(q)
  /\ call[q].live # {}
  /\ Faulty
  /\ Answer(q, "no_address")

\* The answer has no address when the worker left the list in between.
Pick(q) ==
  /\ Serving(q, "address") /\ call[q].todo = {} /\ call[q].bad = {}
  /\ Answer(q, IF call[q].picked \in call[q].live THEN "picked" ELSE "no_address")
  /\ UNCHANGED faults

\* A node that dies takes its calls with it.
NodeRestart(n) ==
  /\ Restart(n)
  /\ call' = [q \in Callers |-> IF call[q].node = n THEN NoCall ELSE call[q]]
  /\ UNCHANGED <<registryVars, notes>>

RpcStep(q) ==
  \/ LeaderGet(q) \/ LeaderLearn(q) \/ Leader(q) \/ PickNotLeader(q) \/ PickList(q) \/ PickFails(q)
  \/ (\E w \in Workers : ListGet(q, w)) \/ ListRemove(q) \/ ListRemoveFails(q)
  \/ Choose(q) \/ AddressFails(q) \/ NoLiveWorkers(q) \/ Pick(q)

Next ==
  \/ \E n \in Nodes : ElectorStep(n) /\ UNCHANGED <<registryVars, call, notes>>
  \/ \E k \in keys : Expire(k) /\ UNCHANGED <<registryVars, call, notes>>
  \/ \E n \in Nodes : (Partition(n) \/ Stop(n)) /\ UNCHANGED <<registryVars, call, notes>>
  \/ \E n \in Nodes : NodeRestart(n)
  \/ \E w \in Workers : runScheduler(w) \/ RecordExpires(w) \/ WorkerRestart(w)
  \/ \E q \in Callers, n \in Nodes : cachedLeader(q, n)
  \/ \E q \in Callers : RpcStep(q)

Spec == Init /\ [][Next]_vars

\* The loops of the nodes run, RPCs end and etcd drops leases nobody renews.
FairSpec ==
  /\ Spec
  /\ \A n \in Nodes : WF_vars(ElectorStep(n) /\ UNCHANGED <<registryVars, call, notes>>)
  /\ WF_vars(\E k \in keys : Expire(k) /\ UNCHANGED <<registryVars, call, notes>>)
  /\ \A q \in Callers : WF_vars(RpcStep(q))

-----------------------------------------------------------------------------
\* Pick answers for the list as a whole although it reads it id by id while
\* records expire, workers register and other calls clean up: no worker that
\* was on the list all through the call comes before the one it chose, and
\* "no live workers" is not said while there was one (RedisScheduler.Pick) - but
\* for workers whose record it could not read. These it skips without a word,
\* whether or not it then gets them off the list.
PickIsBest ==
  \A q \in Callers :
    LET there == steady[q] \ unread[q]
    IN  /\ call[q].picked # NoWorker => \A w \in there : Rank[call[q].picked] <= Rank[w]
        /\ Listed(q) /\ call[q].live = {} => there = {}
===============================================================================
