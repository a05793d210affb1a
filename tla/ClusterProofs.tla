---------------------------- MODULE ClusterProofs ----------------------------
(***************************************************************************)
(* Proofs about Cluster, for any nodes, workers, callers and any number of *)
(* faults.                                                                 *)
(***************************************************************************)
EXTENDS Cluster, WellFoundedInduction, TLAPS

LoopPc == {"session", "wait", "lead", "resign"}

\* The election. A lease number is given out once; a loop that leads has
\* outlasted all keys older than its own.
ElectionInv ==
  /\ granted \in Nat
  /\ lease \in [Nodes -> Nat] /\ \A n \in Nodes : lease[n] <= granted
  /\ loop \in [Nodes -> LoopPc]
  /\ keys \subseteq [node : Nodes, lease : Nat]
  /\ \A k \in keys : k.lease <= granted
  /\ \A j, k \in keys : j.lease = k.lease => j = k
  /\ \A n \in Nodes : loop[n] = "lead" => Earliest(n)

electionState == <<granted, lease, loop, keys>>

LEMMA LeadersHoldOneKey == ElectionInv => OneLiveLeader
<1> SUFFICES ASSUME ElectionInv, NEW n \in Nodes, NEW m \in Nodes,
                    loop[n] = "lead", loop[m] = "lead",
                    [node |-> n, lease |-> lease[n]] \in keys,
                    [node |-> m, lease |-> lease[m]] \in keys
             PROVE  n = m
  BY DEF OneLiveLeader
<1>1. lease[n] <= lease[m] /\ lease[m] <= lease[n]
  BY DEF ElectionInv, Earliest
<1>2. lease[n] = lease[m]
  BY <1>1 DEF ElectionInv
<1> QED BY <1>2 DEF ElectionInv

LEMMA ElectionStarts == ElectionInit => ElectionInv
BY DEF ElectionInit, ElectionInv, LoopPc

LEMMA ElectionStutters ==
  ASSUME ElectionInv, UNCHANGED electionState
  PROVE  ElectionInv'
BY DEF ElectionInv, electionState, Earliest

LEMMA CampaignKeeps ==
  ASSUME ElectionInv, NEW n \in Nodes, Campaign(n)
  PROVE  ElectionInv'
<1> DEFINE new == [node |-> n, lease |-> granted + 1]
<1>1. /\ granted' = granted + 1 /\ granted \in Nat
      /\ lease' = [lease EXCEPT ![n] = granted + 1]
      /\ loop' = [loop EXCEPT ![n] = "wait"]
      /\ keys' = keys \cup {new}
  BY DEF Campaign, Goes, ElectionInv
<1>2. granted' \in Nat /\ lease' \in [Nodes -> Nat] /\ loop' \in [Nodes -> LoopPc]
  BY <1>1 DEF ElectionInv, LoopPc
<1>3. \A m \in Nodes : lease'[m] <= granted'
  BY <1>1 DEF ElectionInv
<1>4. keys' \subseteq [node : Nodes, lease : Nat]
  BY <1>1 DEF ElectionInv
<1>5. \A k \in keys' : k.lease <= granted'
  BY <1>1 DEF ElectionInv
<1>6. \A j, k \in keys' : j.lease = k.lease => j = k
  BY <1>1 DEF ElectionInv
<1>7. ASSUME NEW m \in Nodes, loop'[m] = "lead" PROVE Earliest(m)'
  <2>1. m # n /\ loop[m] = "lead" /\ lease'[m] = lease[m]
    BY <1>1, <1>7 DEF ElectionInv
  <2> QED BY <1>1, <2>1 DEF ElectionInv, Earliest
<1> QED BY <1>2, <1>3, <1>4, <1>5, <1>6, <1>7 DEF ElectionInv

\* A step that takes keys away, and in which a node may end up without a
\* lease and out of the lead.
LEMMA ShrinkingKeeps ==
  ASSUME ElectionInv, NEW n \in Nodes, NEW pc \in LoopPc,
         granted' = granted, keys' \subseteq keys,
         \/ UNCHANGED <<lease, loop>>
         \/ /\ lease' = [lease EXCEPT ![n] = 0] \/ UNCHANGED lease
            /\ loop' = [loop EXCEPT ![n] = pc] /\ pc # "lead"
  PROVE  ElectionInv'
<1>1. granted' \in Nat /\ lease' \in [Nodes -> Nat] /\ loop' \in [Nodes -> LoopPc]
  BY DEF ElectionInv
<1>2. \A m \in Nodes : lease'[m] <= granted'
  BY DEF ElectionInv
<1>3. \A m \in Nodes : loop'[m] = "lead" => loop[m] = "lead" /\ lease'[m] = lease[m]
  BY DEF ElectionInv
<1>4. \A m \in Nodes : loop'[m] = "lead" => Earliest(m)'
  BY <1>3 DEF ElectionInv, Earliest
<1> QED BY <1>1, <1>2, <1>4 DEF ElectionInv

LEMMA WinKeeps ==
  ASSUME ElectionInv, NEW n \in Nodes, Win(n)
  PROVE  ElectionInv'
<1>1. /\ UNCHANGED <<granted, lease, keys>>
      /\ loop' = [loop EXCEPT ![n] = "lead"]
      /\ Earliest(n)
  BY DEF Win, Goes
<1>2. \A m \in Nodes : loop'[m] = "lead" => Earliest(m)'
  BY <1>1 DEF ElectionInv, Earliest
<1> QED BY <1>1, <1>2 DEF ElectionInv, LoopPc

LEMMA ElectorKeeps ==
  ASSUME ElectionInv, NEW n \in Nodes, ElectorStep(n)
  PROVE  ElectionInv'
<1>1. CASE Campaign(n)
  BY <1>1, CampaignKeeps
<1>2. CASE Win(n)
  BY <1>2, WinKeeps
<1>3. CASE StepDown(n)
  BY <1>3, ShrinkingKeeps DEF StepDown, Goes, LoopPc
<1>4. CASE Resign(n)
  BY <1>4, ShrinkingKeeps DEF Resign, Goes, LoopPc
<1> QED BY <1>1, <1>2, <1>3, <1>4 DEF ElectorStep

LEMMA ElectionNext == ElectionInv /\ [Next]_vars => ElectionInv'
<1> SUFFICES ASSUME ElectionInv, [Next]_vars PROVE ElectionInv'
  OBVIOUS
<1>1. CASE \E n \in Nodes : ElectorStep(n)
  BY <1>1, ElectorKeeps
<1>2. CASE \E k \in keys : Expire(k)
  <2>1. PICK k \in keys : Expire(k)
    BY <1>2
  <2>2. k.node \in Nodes /\ "session" \in LoopPc
    BY <2>1 DEF ElectionInv, LoopPc
  <2> QED BY <2>1, <2>2, ShrinkingKeeps DEF Expire
<1>3. CASE \E n \in Nodes : Partition(n) \/ Stop(n)
  BY <1>3, ElectionStutters DEF Partition, Stop, electionState
<1>4. CASE \E n \in Nodes : NodeRestart(n)
  BY <1>4, ShrinkingKeeps DEF NodeRestart, Restart, Goes, LoopPc
<1>5. CASE \E w \in Workers : runScheduler(w) \/ RecordExpires(w) \/ WorkerRestart(w)
  BY <1>5, ElectionStutters
     DEF runScheduler, Register, RegisterFails, HeartbeatGet, HeartbeatSet, RecordExpires,
         WorkerRestart, electionVars, electionState
<1>6. CASE \E q \in Callers, n \in Nodes : cachedLeader(q, n)
  BY <1>6, ElectionStutters DEF cachedLeader, electionVars, electionState
<1>7. CASE \E q \in Callers : RpcStep(q)
  BY <1>7, ElectionStutters
     DEF RpcStep, LeaderGet, LeaderLearn, Leader, PickNotLeader, PickList, PickFails, ListGet, ListRemove,
         ListRemoveFails, Choose, AddressFails, NoLiveWorkers, Pick, Answer, electionVars, electionState
<1>8. CASE UNCHANGED vars
  BY <1>8, ElectionStutters DEF vars, electionVars, electionState
<1> QED BY <1>1, <1>2, <1>3, <1>4, <1>5, <1>6, <1>7, <1>8 DEF Next

\* Elector.loop: whatever nodes crash, lose their session or are stopped, and
\* however often, no two of them lead with keys that etcd still has.
THEOREM OneLeaderAtATime == Spec => []OneLiveLeader
<1>1. Init => ElectionInv
  BY ElectionStarts DEF Init
<1> QED BY <1>1, ElectionNext, LeadersHoldOneKey, PTL DEF Spec

-----------------------------------------------------------------------------
\* The calls. What was on the list since Pick began, and could be read, is still
\* to be read or has been read; and the chosen worker is no worse.
Call ==
  [pc : {"idle", "get", "learn", "check", "list", "address"},
   node : Nodes \cup {NoNode}, info : Nodes \cup {NoNode},
   todo : SUBSET Workers, bad : SUBSET Workers, down : BOOLEAN, live : SUBSET Workers,
   picked : Workers \cup {NoWorker},
   reply : {"none", "leader", "not_leader", "no_workers", "picked", "no_address", "error"}]

CallOk(c, s) ==
  /\ c.pc = "list" => s \subseteq c.todo \cup c.live
  /\ c.picked # NoWorker => c.pc = "address" /\ \A w \in s : Rank[c.picked] <= Rank[w]

OnList == {w \in member : record[w]}

PickInv ==
  /\ member \subseteq Workers /\ record \in [Workers -> BOOLEAN]
  /\ call \in [Callers -> Call]
  /\ steady \in [Callers -> SUBSET Workers] /\ unread \in [Callers -> SUBSET Workers]
  /\ \A q \in Callers : steady[q] \subseteq OnList /\ CallOk(call[q], steady[q] \ unread[q])

LEMMA NoCallIsCall == NoCall \in Call /\ \A s : CallOk(NoCall, s)
BY DEF NoCall, Call, CallOk

LEMMA CallOkShrinks ==
  ASSUME NEW c, NEW s, NEW t, t \subseteq s, CallOk(c, s)
  PROVE  CallOk(c, t)
BY DEF CallOk

LEMMA PickInvImplies == PickInv => PickIsBest
<1> SUFFICES ASSUME PickInv, NEW q \in Callers
             PROVE  LET there == steady[q] \ unread[q]
                    IN  /\ call[q].picked # NoWorker => \A w \in there : Rank[call[q].picked] <= Rank[w]
                        /\ Listed(q) /\ call[q].live = {} => there = {}
  BY DEF PickIsBest
<1>1. CallOk(call[q], steady[q] \ unread[q])
  BY DEF PickInv
<1> QED BY <1>1 DEF CallOk, Listed, Serving

\* A nonempty set of numbers has a smallest one, so there is a worker to choose.
LEMMA BestIsFirst ==
  ASSUME NEW live \in SUBSET Workers, live # {}
  PROVE  Best(live) \in live /\ \A v \in live : Rank[Best(live)] <= Rank[v]
<1> DEFINE T == {Rank[w] : w \in live}
           Less == {ss \in Nat \X Nat : ss[1] < ss[2]}
<1>1. T \subseteq Nat /\ T # {}
  BY ClusterAssumption
<1>2. PICK x \in T : \A y \in T : <<y, x>> \notin Less
  <2>1. IsWellFoundedOn(Less, Nat)
    BY NatLessThanWellFounded DEF OpToRel
  <2> HIDE DEF T, Less
  <2> QED BY <1>1, <2>1, WFMin
<1>3. ASSUME NEW y \in T PROVE x <= y
  <2>1. x \in Nat /\ y \in Nat /\ <<y, x>> \notin Less
    BY <1>1, <1>2
  <2>2. <<y, x>> \in Less <=> y < x
    BY <2>1, SMT
  <2> QED BY <2>1, <2>2
<1>4. \E w \in live : \A v \in live : Rank[w] <= Rank[v]
  BY <1>3
<1> QED BY <1>4 DEF Best

LEMMA PickStarts == Init => PickInv
BY NoCallIsCall DEF Init, PickInv, OnList

\* A step of a worker or of the election: calls stay as they are.
LEMMA OtherStepKeeps ==
  ASSUME PickInv, call' = call, unread' = unread, member' \subseteq Workers, record' \in [Workers -> BOOLEAN],
         steady' \in [Callers -> SUBSET Workers],
         \A q \in Callers : steady'[q] \subseteq steady[q] /\ steady'[q] \subseteq OnList'
  PROVE  PickInv'
<1>1. ASSUME NEW q \in Callers PROVE CallOk(call'[q], steady'[q] \ unread'[q])
  <2>1. steady'[q] \ unread'[q] \subseteq steady[q] \ unread[q] /\ CallOk(call[q], steady[q] \ unread[q])
    BY DEF PickInv
  <2> QED BY <2>1, CallOkShrinks
<1> QED BY <1>1 DEF PickInv, CallOk

LEMMA WatchShrinks ==
  ASSUME PickInv, Watch
  PROVE  /\ steady' \in [Callers -> SUBSET Workers] /\ unread' = unread
         /\ \A q \in Callers : steady'[q] \subseteq steady[q] /\ steady'[q] \subseteq OnList'
BY DEF PickInv, Watch, OnList

\* A step of one call that leaves the registry alone.
LEMMA CallStepKeeps ==
  ASSUME PickInv, NEW q \in Callers, NEW c \in Call, NEW s \in SUBSET OnList, NEW u \in SUBSET Workers,
         UNCHANGED <<member, record>>,
         call' = [call EXCEPT ![q] = c],
         steady' = [steady EXCEPT ![q] = s],
         unread' = [unread EXCEPT ![q] = u],
         CallOk(c, s \ u)
  PROVE  PickInv'
<1>1. OnList' = OnList /\ OnList \subseteq Workers
  BY DEF OnList, PickInv
<1>2. /\ call' \in [Callers -> Call]
      /\ steady' \in [Callers -> SUBSET Workers] /\ unread' \in [Callers -> SUBSET Workers]
  BY <1>1 DEF PickInv
<1>3. ASSUME NEW p \in Callers
      PROVE  steady'[p] \subseteq OnList' /\ CallOk(call'[p], steady'[p] \ unread'[p])
  <2>1. CASE p = q
    BY <1>1, <2>1 DEF PickInv
  <2>2. CASE p # q
    BY <1>1, <2>2 DEF PickInv
  <2> QED BY <2>1, <2>2
<1> QED BY <1>2, <1>3 DEF PickInv, CallOk

LEMMA WorkerStepKeeps ==
  ASSUME PickInv, NEW w \in Workers, runScheduler(w) \/ RecordExpires(w) \/ WorkerRestart(w)
  PROVE  PickInv'
<1>1. CASE Register(w) \/ HeartbeatSet(w)
  <2>1. /\ call' = call /\ steady' = steady /\ unread' = unread
        /\ record' = [record EXCEPT ![w] = TRUE]
        /\ member' = member \cup {w} \/ member' = member
    BY <1>1 DEF Register, HeartbeatSet, notes
  <2>2. OnList \subseteq OnList'
    BY <2>1 DEF PickInv, OnList
  <2> QED BY <2>1, <2>2, OtherStepKeeps DEF PickInv
<1>2. CASE RegisterFails(w) \/ HeartbeatGet(w) \/ WorkerRestart(w)
  <2>1. UNCHANGED <<member, record, call, steady, unread>>
    BY <1>2 DEF RegisterFails, HeartbeatGet, WorkerRestart, notes
  <2> QED BY <2>1, OtherStepKeeps DEF PickInv, OnList
<1>3. CASE RecordExpires(w)
  <2>1. call' = call /\ member' = member /\ record' = [record EXCEPT ![w] = FALSE] /\ Watch
    BY <1>3 DEF RecordExpires
  <2> QED BY <2>1, WatchShrinks, OtherStepKeeps DEF PickInv
<1> QED BY <1>1, <1>2, <1>3 DEF runScheduler

LEMMA RpcStepKeeps ==
  ASSUME PickInv, ElectionInv, NEW q \in Callers, RpcStep(q)
  PROVE  PickInv'
<1> DEFINE c == call[q]
           s == steady[q] \ unread[q]
<1>0. /\ c \in Call /\ CallOk(c, s)
      /\ steady[q] \in SUBSET OnList /\ unread[q] \in SUBSET Workers /\ OnList \subseteq Workers
  BY DEF PickInv, OnList
<1>a. ASSUME NEW d \in Call, CallOk(d, s), UNCHANGED <<member, record, steady, unread>>,
             call' = [call EXCEPT ![q] = d]
      PROVE  PickInv'
  <2>1. steady' = [steady EXCEPT ![q] = steady[q]] /\ unread' = [unread EXCEPT ![q] = unread[q]]
    BY <1>a DEF PickInv
  <2> QED BY <1>0, <1>a, <2>1, CallStepKeeps
<1>b. ASSUME NEW r \in {"leader", "not_leader", "no_workers", "picked", "no_address", "error"}, Answer(q, r)
      PROVE  PickInv'
  <2>1. [NoCall EXCEPT !.reply = r] \in Call /\ CallOk([NoCall EXCEPT !.reply = r], {} \ unread[q])
    BY <1>b DEF NoCall, Call, CallOk
  <2>2. /\ call' = [call EXCEPT ![q] = [NoCall EXCEPT !.reply = r]] /\ UNCHANGED <<member, record>>
        /\ steady' = [steady EXCEPT ![q] = {}] /\ unread' = [unread EXCEPT ![q] = unread[q]]
    BY <1>b DEF Answer, registryVars, PickInv
  <2> QED BY <1>0, <2>1, <2>2, CallStepKeeps
<1>1. CASE LeaderGet(q)
  <2>1. PICK i \in Nodes \cup {NoNode}, pc \in {"learn", "check"} :
          call' = [call EXCEPT ![q] = [c EXCEPT !.pc = pc, !.info = i]]
    <3>1. \A k \in keys : k.node \in Nodes
      BY DEF ElectionInv
    <3>2. call' = [call EXCEPT ![q].pc = "check"] => call' = [call EXCEPT ![q] = [c EXCEPT !.pc = "check", !.info = c.info]]
      BY <1>0 DEF PickInv, Call
    <3> QED BY <1>0, <1>1, <3>1, <3>2 DEF LeaderGet, PickInv, Call
  <2>2. Serving(q, "get") /\ UNCHANGED <<member, record, steady, unread>>
    BY <1>1 DEF LeaderGet, registryVars, notes
  <2>3. [c EXCEPT !.pc = pc, !.info = i] \in Call /\ CallOk([c EXCEPT !.pc = pc, !.info = i], s)
    BY <1>0, <2>2 DEF Call, CallOk, Serving
  <2> QED BY <1>a, <2>1, <2>2, <2>3
<1>2. CASE LeaderLearn(q)
  <2> DEFINE d == [c EXCEPT !.pc = "check", !.info = NoNode]
  <2>1. call' = [call EXCEPT ![q] = d] /\ UNCHANGED <<member, record, steady, unread>>
    BY <1>0, <1>2 DEF LeaderLearn, registryVars, notes, PickInv, Call
  <2>2. d \in Call /\ CallOk(d, s)
    BY <1>0, <1>2 DEF LeaderLearn, Serving, Call, CallOk
  <2> QED BY <1>a, <2>1, <2>2
<1>3. CASE Leader(q) \/ PickNotLeader(q) \/ PickFails(q) \/ NoLiveWorkers(q) \/ AddressFails(q) \/ Pick(q)
  BY <1>3, <1>b DEF Leader, PickNotLeader, PickFails, NoLiveWorkers, AddressFails, Pick
<1>4. CASE PickList(q)
  <2> DEFINE d == [c EXCEPT !.pc = "list", !.todo = member, !.live = {}]
  <2>1. call' = [call EXCEPT ![q] = d] /\ UNCHANGED <<member, record, steady, unread>>
    BY <1>0, <1>4 DEF PickList, Members, registryVars, notes, PickInv, Call
  <2>2. d \in Call /\ CallOk(d, s)
    BY <1>0, <1>4 DEF PickList, Serving, Call, CallOk, PickInv, OnList
  <2> QED BY <1>a, <2>1, <2>2
<1>5. ASSUME NEW w \in Workers, ListGet(q, w) PROVE PickInv'
  <2>1. c.pc \in Listing /\ UNCHANGED <<member, record, steady>>
    BY <1>5 DEF ListGet, registryVars
  <2>2. CASE record[w] /\ unread' = unread /\ call' = [call EXCEPT ![q].todo = @ \ {w}, ![q].live = @ \cup {w}]
    <3> DEFINE d == [c EXCEPT !.todo = @ \ {w}, !.live = c.live \cup {w}]
    <3>1. call' = [call EXCEPT ![q] = d]
      BY <1>0, <2>2 DEF PickInv, Call
    <3>2. d \in Call /\ CallOk(d, s)
      BY <1>0 DEF Call, CallOk
    <3> QED BY <1>a, <2>1, <2>2, <3>1, <3>2
  <2>3. CASE /\ call' = [call EXCEPT ![q].todo = @ \ {w}, ![q].bad = {w}, ![q].down = record[w]]
             /\ unread' = IF record[w] /\ c.pc = "list" THEN [unread EXCEPT ![q] = @ \cup {w}] ELSE unread
    <3> DEFINE d == [c EXCEPT !.todo = @ \ {w}, !.bad = {w}, !.down = record[w]]
               u == IF record[w] /\ c.pc = "list" THEN unread[q] \cup {w} ELSE unread[q]
    <3>1. call' = [call EXCEPT ![q] = d]
      BY <1>0, <2>3 DEF PickInv, Call
    <3>2. d \in Call
      BY <1>0 DEF Call, PickInv
    <3>3. u \in SUBSET Workers /\ unread' = [unread EXCEPT ![q] = u]
      BY <1>0, <2>3 DEF PickInv
    <3>4. CallOk(d, steady[q] \ u)
      <4>1. steady[q] \ u \subseteq s
        OBVIOUS
      <4>2. c.pc = "list" => w \notin steady[q] \ u
        BY <1>0 DEF OnList
      <4>3. d.pc = c.pc /\ d.todo = c.todo \ {w} /\ d.live = c.live /\ d.picked = c.picked
        BY <1>0 DEF Call
      <4> HIDE DEF d, u
      <4> QED BY <1>0, <4>1, <4>2, <4>3 DEF CallOk
    <3>5. steady' = [steady EXCEPT ![q] = steady[q]]
      BY <2>1 DEF PickInv
    <3> HIDE DEF d, u
    <3> QED BY <1>0, <2>1, <3>1, <3>2, <3>3, <3>4, <3>5, CallStepKeeps
  <2> QED BY <1>5, <2>2, <2>3 DEF ListGet
<1>6. CASE Choose(q)
  <2> DEFINE d == [c EXCEPT !.pc = "address", !.picked = Best(c.live), !.todo = member, !.live = {}]
  <2>1. call' = [call EXCEPT ![q] = d] /\ UNCHANGED <<member, record, steady, unread>>
    BY <1>0, <1>6 DEF Choose, registryVars, notes, PickInv, Call
  <2>2. s \subseteq c.live /\ c.live # {} /\ c.live \in SUBSET Workers
    BY <1>0, <1>6 DEF Choose, Listed, Serving, CallOk, Call
  <2>3. Best(c.live) \in Workers /\ \A w \in s : Rank[Best(c.live)] <= Rank[w]
    BY <2>2, BestIsFirst
  <2>4. d \in Call /\ CallOk(d, s)
    BY <1>0, <2>3 DEF Call, CallOk, PickInv
  <2> QED BY <1>a, <2>1, <2>4
<1>7. CASE ListRemove(q)
  <2> DEFINE d == [c EXCEPT !.bad = {}, !.down = FALSE]
  <2>1. /\ call' = [call EXCEPT ![q] = d] /\ record' = record
        /\ member' = member \ c.bad /\ Watch
    BY <1>0, <1>7 DEF ListRemove, PickInv, Call
  <2>2. /\ steady' \in [Callers -> SUBSET Workers] /\ unread' = unread
        /\ \A p \in Callers : steady'[p] \subseteq steady[p] /\ steady'[p] \subseteq OnList'
    BY <2>1, WatchShrinks
  <2>3. d \in Call /\ CallOk(d, s)
    BY <1>0 DEF Call, CallOk
  <2>4. ASSUME NEW p \in Callers PROVE CallOk(call'[p], steady'[p] \ unread'[p])
    <3>1. CallOk(call'[p], steady[p] \ unread[p])
      BY <2>1, <2>3 DEF PickInv
    <3>2. steady'[p] \ unread'[p] \subseteq steady[p] \ unread[p]
      BY <2>2
    <3> QED BY <3>1, <3>2, CallOkShrinks
  <2>5. /\ call' \in [Callers -> Call] /\ member' \subseteq Workers /\ record' \in [Workers -> BOOLEAN]
        /\ unread' \in [Callers -> SUBSET Workers]
    BY <2>1, <2>2, <2>3 DEF PickInv
  <2> QED BY <2>2, <2>4, <2>5 DEF PickInv, CallOk
<1>8. CASE ListRemoveFails(q)
  <2> DEFINE d == [c EXCEPT !.bad = {}, !.down = FALSE]
  <2>1. call' = [call EXCEPT ![q] = d] /\ UNCHANGED <<member, record, steady, unread>>
    BY <1>0, <1>8 DEF ListRemoveFails, registryVars, notes, PickInv, Call
  <2>2. d \in Call /\ CallOk(d, s)
    BY <1>0 DEF Call, CallOk
  <2> QED BY <1>a, <2>1, <2>2
<1> QED BY <1>1, <1>2, <1>3, <1>4, <1>5, <1>6, <1>7, <1>8 DEF RpcStep

LEMMA PickNext == PickInv /\ ElectionInv /\ [Next]_vars => PickInv'
<1> SUFFICES ASSUME PickInv, ElectionInv, [Next]_vars PROVE PickInv'
  OBVIOUS
<1>1. CASE UNCHANGED <<registryVars, call, notes>>
  BY <1>1, OtherStepKeeps DEF PickInv, OnList, registryVars, notes
<1>2. CASE \E n \in Nodes : NodeRestart(n)
  <2>1. PICK n \in Nodes : NodeRestart(n)
    BY <1>2
  <2>2. /\ call' = [q \in Callers |-> IF call[q].node = n THEN NoCall ELSE call[q]]
        /\ UNCHANGED <<member, record, steady, unread>>
    BY <2>1 DEF NodeRestart, registryVars, notes
  <2>3. call' \in [Callers -> Call]
    BY <2>2, NoCallIsCall DEF PickInv
  <2>4. ASSUME NEW q \in Callers PROVE CallOk(call'[q], steady'[q] \ unread'[q])
    BY <2>2, NoCallIsCall DEF PickInv
  <2> QED BY <2>2, <2>3, <2>4 DEF PickInv, OnList, CallOk
<1>3. CASE \E w \in Workers : runScheduler(w) \/ RecordExpires(w) \/ WorkerRestart(w)
  BY <1>3, WorkerStepKeeps
<1>4. CASE \E q \in Callers, n \in Nodes : cachedLeader(q, n)
  <2>1. PICK q \in Callers, n \in Nodes : cachedLeader(q, n)
    BY <1>4
  <2> DEFINE d == [NoCall EXCEPT !.node = n, !.pc = IF leader[n] = NoNode THEN "get" ELSE "check"]
  <2>2. /\ call' = [call EXCEPT ![q] = d] /\ steady' = [steady EXCEPT ![q] = OnList]
        /\ unread' = [unread EXCEPT ![q] = {}]
        /\ UNCHANGED <<member, record>>
    BY <2>1 DEF cachedLeader, registryVars, OnList
  <2>3. d \in Call /\ CallOk(d, OnList \ {})
    BY DEF NoCall, Call, CallOk
  <2> QED BY <2>2, <2>3, CallStepKeeps
<1>5. CASE \E q \in Callers : RpcStep(q)
  BY <1>5, RpcStepKeeps
<1> QED BY <1>1, <1>2, <1>3, <1>4, <1>5 DEF Next, vars

\* RedisScheduler.Pick: however many workers, calls and clean-ups overlap, and
\* whatever fails, no worker that was on the list all through a call, and whose
\* record the call did not fail to read, comes before its choice.
THEOREM PicksAreBest == Spec => []PickIsBest
<1>1. Init => ElectionInv /\ PickInv
  BY ElectionStarts, PickStarts DEF Init
<1>2. ElectionInv /\ PickInv /\ [Next]_vars => (ElectionInv /\ PickInv)'
  BY ElectionNext, PickNext
<1> QED BY <1>1, <1>2, PickInvImplies, PTL DEF Spec
===============================================================================
