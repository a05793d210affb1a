------------------------------ MODULE Election -------------------------------
(***************************************************************************)
(* The leader election of the scheduler nodes (internal/discovery/         *)
(* etcd.go): Elector.loop, which campaigns for a key in etcd under a       *)
(* leased session, and the flag and the cached leader that the RPCs of the *)
(* node read. Elector.Leader, which writes both, is part of a call and in  *)
(* the module Cluster.                                                     *)
(*                                                                         *)
(* etcd is external: leases and the keys created under them. A lease lives *)
(* while its client keeps it alive and some time longer. Lease numbers are *)
(* also the creation revisions of the keys.                                *)
(***************************************************************************)
EXTENDS Integers, FiniteSets

CONSTANTS
  Nodes,     \* scheduler nodes
  NoNode,    \* an empty LeaderInfo
  MaxFaults  \* bound: partitions, crashes, stops, lapses in a behaviour

ASSUME ElectionAssumption == NoNode \notin Nodes /\ MaxFaults \in Nat

VARIABLES
  lease,     \* the lease of the node's current session, 0 without one
  kept,      \* is the session of the node being kept alive
  granted,   \* the last lease number etcd gave out
  keys,      \* election keys in etcd: the node they name, by lease
  loop,      \* where Elector.loop of each node is
  leader,    \* Elector.leader: the cached leader
  isLeader,  \* Elector.isLeader
  stopped,   \* nodes whose context was cancelled
  faults     \* faults so far

electionVars == <<lease, kept, granted, keys, loop, leader, isLeader, stopped>>

ElectionInit ==
  /\ lease = [n \in Nodes |-> 0]
  /\ kept = [n \in Nodes |-> FALSE]
  /\ granted = 0
  /\ keys = {}
  /\ loop = [n \in Nodes |-> "session"]
  /\ leader = [n \in Nodes |-> NoNode]
  /\ isLeader = [n \in Nodes |-> FALSE]
  /\ stopped = {}
  /\ faults = 0

Goes(n, pc) == loop' = [loop EXCEPT ![n] = pc]

setLeader(n, info, flag) ==
  /\ leader' = [leader EXCEPT ![n] = info]
  /\ isLeader' = [isLeader EXCEPT ![n] = flag]

\* NewSession, and the first half of Campaign: the node's key is created. What
\* fails in between is tried again after a second.
Campaign(n) ==
  /\ loop[n] = "session" /\ n \notin stopped
  /\ granted' = granted + 1
  /\ lease' = [lease EXCEPT ![n] = granted + 1]
  /\ kept' = [kept EXCEPT ![n] = TRUE]
  /\ keys' = keys \cup {[node |-> n, lease |-> granted + 1]}
  /\ Goes(n, "wait")
  /\ UNCHANGED <<leader, isLeader, stopped, faults>>

\* Campaign waits until all keys created before its own are gone. Whether its
\* own key is still there is not checked.
Earliest(n) == \A k \in keys : k.lease >= lease[n]

\* Seeded fault: the flag is set without waiting for Campaign to return.
MutWin(n) ==
  /\ loop[n] = "wait" /\ n \notin stopped
  /\ setLeader(n, n, TRUE)
  /\ Goes(n, "lead")
  /\ UNCHANGED <<lease, kept, granted, keys, stopped, faults>>

Win(n) ==
  /\ loop[n] = "wait" /\ n \notin stopped
  /\ Earliest(n)
  /\ setLeader(n, n, TRUE)
  /\ Goes(n, "lead")
  /\ UNCHANGED <<lease, kept, granted, keys, stopped, faults>>

\* session.Done: the client no longer keeps the lease alive; or ctx.Done.
StepDown(n) ==
  /\ loop[n] = "lead"
  /\ ~kept[n] \/ n \in stopped
  /\ setLeader(n, NoNode, FALSE)
  /\ Goes(n, "resign")
  /\ UNCHANGED <<lease, kept, granted, keys, stopped, faults>>

\* Seeded fault: a session that ended is kept, and its key stays behind.
MutResign(n) ==
  /\ loop[n] = "resign"
  /\ kept' = [kept EXCEPT ![n] = TRUE]
  /\ Goes(n, "session")
  /\ UNCHANGED <<lease, granted, keys, leader, isLeader, stopped, faults>>

\* Resign deletes the key and Close revokes the lease, unless etcd cannot be
\* reached; then the key goes when the lease expires. A cancelled campaign
\* closes its session, too.
Resign(n) ==
  /\ loop[n] = "resign" \/ (loop[n] = "wait" /\ n \in stopped)
  /\ \/ keys' = {k \in keys : k.lease # lease[n]}
     \/ ~kept[n] /\ UNCHANGED keys
  /\ lease' = [lease EXCEPT ![n] = 0]
  /\ kept' = [kept EXCEPT ![n] = FALSE]
  /\ Goes(n, "session")
  /\ UNCHANGED <<granted, leader, isLeader, stopped, faults>>

\* etcd drops a lease that nobody keeps alive, and its key with it.
Expire(k) ==
  /\ k \in keys
  /\ ~\E n \in Nodes : lease[n] = k.lease /\ kept[n]
  /\ keys' = keys \ {k}
  /\ UNCHANGED <<lease, kept, granted, loop, leader, isLeader, stopped, faults>>

Faulty == faults < MaxFaults /\ faults' = faults + 1

\* A node is cut off from etcd, or paused, for longer than the lease lasts.
Partition(n) ==
  /\ kept[n] /\ Faulty
  /\ kept' = [kept EXCEPT ![n] = FALSE]
  /\ UNCHANGED <<lease, granted, keys, loop, leader, isLeader, stopped>>

\* A node dies and is started again under the same id.
Restart(n) ==
  /\ Faulty
  /\ lease' = [lease EXCEPT ![n] = 0]
  /\ kept' = [kept EXCEPT ![n] = FALSE]
  /\ setLeader(n, NoNode, FALSE)
  /\ Goes(n, "session")
  /\ UNCHANGED <<granted, keys, stopped>>

\* SIGTERM: the node's context is cancelled (Elector.Close waits for the loop).
Stop(n) ==
  /\ n \notin stopped /\ Faulty
  /\ stopped' = stopped \cup {n}
  /\ UNCHANGED <<lease, kept, granted, keys, loop, leader, isLeader>>

ElectorStep(n) == Campaign(n) \/ Win(n) \/ StepDown(n) \/ Resign(n)

\* The node whose key etcd would name as the leader's.
Owns(n) == \E k \in keys : k.node = n /\ k.lease = lease[n] /\ \A j \in keys : k.lease <= j.lease

-----------------------------------------------------------------------------
\* Two nodes that won and whose keys still exist are one (Elector.loop): a
\* new leader comes only after the key of the old one is gone.
OneLiveLeader ==
  \A n, m \in Nodes :
    loop[n] = "lead" /\ loop[m] = "lead"
      /\ [node |-> n, lease |-> lease[n]] \in keys /\ [node |-> m, lease |-> lease[m]] \in keys
      => n = m

\* Whatever was lost, the loop of some node leads in the end, with a key that
\* etcd has and a session that is alive, unless all nodes were stopped
\* (Elector.loop: no key of a dead session keeps the others waiting for ever).
SomeoneLeads ==
  <>[](stopped # Nodes => \E n \in Nodes : loop[n] = "lead" /\ Owns(n) /\ kept[n])

\* "Only the leader performs the choice, a non-leader returns the current
\* leader" (docs/CLI_RUNTIME_GUIDE.md): once nothing fails any more, the flag
\* that Pick asks says who holds the leader's key. A slow Elector.Leader
\* writes what it read long ago over what the loop has set since.
FlagSettles ==
  <>[](\A n \in Nodes : isLeader[n] <=> (loop[n] = "lead" /\ Owns(n)))
===============================================================================
