------------------------ MODULE ControlPlaneProofs -------------------------
(***************************************************************************)
(* Proofs about the control plane: its agents, with Inv as the inductive   *)
(* invariant of their handlers, and the runs on them, with RunInv, which   *)
(* rests on Inv only for the type of a request.                            *)
(***************************************************************************)
EXTENDS ControlPlane, TLAPS, WellFoundedInduction

Steps == RegistryStep \cup {"run.insert"}
CreateSteps == {"create.volume", "create.container", "create.start", "create.record", "create.failed"}

ReqType == req \in [Requests -> [step : Steps, agent : Agents, cid : BOOLEAN]]

Inv == RegistryTypeOK /\ ReqType /\ RegistryInv

\* A request makes a step: it stays with its agent and its copy of the row and
\* creates only if it did before, or it is answered.
Moves(q) ==
  /\ ReqType'
  /\ \A p \in Requests : p # q => req'[p] = req[p]
  /\ \/ req'[q].step = "idle" /\ ~req'[q].cid
     \/ /\ req'[q].step # "idle" /\ req[q].step # "idle"
        /\ req'[q].agent = req[q].agent /\ req'[q].cid = req[q].cid
        /\ req'[q].step \in CreateSteps => req[q].step \in CreateSteps

\* Goto and Return move a request as the handlers' steps need it.
LEMMA GotoMoves ==
  ASSUME NEW q \in Requests, ReqType, NEW s \in Steps, s # "idle", Goto(q, s),
         req[q].step # "idle", s \in CreateSteps => req[q].step \in CreateSteps
  PROVE  /\ Moves(q) /\ req'[q].step = s
         /\ req'[q].agent = req[q].agent /\ req'[q].cid = req[q].cid
         /\ served' = served /\ faults' = faults
  BY DEF ReqType, Goto, Moves

LEMMA IdleType == Idle \in [step : Steps, agent : Agents, cid : BOOLEAN]
  BY AgentsAssumption DEF Idle, Steps, RegistryStep

LEMMA ReturnMoves ==
  ASSUME NEW q \in Requests, ReqType, Return(q)
  PROVE  /\ Moves(q) /\ req'[q].step = "idle" /\ ~req'[q].cid
         /\ served' = served /\ faults' = faults
  <1>1. req' = [req EXCEPT ![q] = Idle] BY DEF Return
  <1>2. Idle.step = "idle" /\ Idle.cid = FALSE BY DEF Idle
  <1>3. ReqType' BY <1>1, IdleType DEF ReqType
  <1>4. req'[q] = Idle /\ \A p \in Requests : p # q => req'[p] = req[p] BY <1>1 DEF ReqType
  <1> QED BY <1>1, <1>2, <1>3, <1>4 DEF Moves, Return

\* Whatever a step does to the rows, the creator stays unique unless an agent is
\* made unborn again.
LEMMA MoveKeepsCreator ==
  ASSUME NEW q \in Requests, ReqType, OneCreator, Moves(q),
         \A a \in Agents : row[a].status # "unborn" => row'[a].status # "unborn"
  PROVE  OneCreator'
  <1> USE DEF CreateSteps
  <1>1. ASSUME NEW p \in Requests PROVE req'[p].step = "idle" => ~req'[p].cid
    BY DEF Moves, OneCreator
  <1>2. ASSUME NEW p \in Requests, req'[p].step # "idle" PROVE row'[req'[p].agent].status # "unborn"
    BY <1>2 DEF Moves, OneCreator, ReqType
  <1>3. ASSUME NEW p \in Requests, NEW a \in Agents, Creating(p, a)' PROVE Creating(p, a)
    BY <1>3 DEF Moves, Creating
  <1> QED BY <1>1, <1>2, <1>3 DEF OneCreator

\* Nor does anyone learn the container id while Create is at work, unless the row
\* gets it.
LEMMA MoveKeepsKnown ==
  ASSUME NEW q \in Requests, ReqType, KnownAfterCreate, Moves(q),
         \A p \in Requests, a \in Agents : Creating(p, a)' => ~row'[a].cid
  PROVE  KnownAfterCreate'
  <1> USE DEF CreateSteps
  <1>1. ASSUME NEW p \in Requests, NEW a \in Agents, Creating(p, a)' PROVE Creating(p, a)
    BY <1>1 DEF Moves, Creating
  <1>2. ASSUME NEW p \in Requests, req'[p].cid PROVE req[p].cid /\ req'[p].agent = req[p].agent
    BY <1>2 DEF Moves
  <1> QED BY <1>1, <1>2 DEF KnownAfterCreate

\* No container or volume of the agent comes into being.
NothingAppears(a) ==
  /\ container[a] = "none" => container'[a] = "none"
  /\ ~volume[a] => ~volume'[a]

\* A step that leaves the rows alone, and makes a container or a volume only for an
\* agent its request is creating, keeps the invariant: such an agent's container is
\* known to nobody, so no promise is about it.
LEMMA DaemonStepKeeps ==
  ASSUME NEW q \in Requests, RegistryTypeOK, ReqType, RegistryInv, Moves(q),
         row' = row, policy' = policy,
         \A a \in Agents : Creating(q, a) \/ NothingAppears(a),
         ProgressOf(q)'
  PROVE  RegistryInv'
  <1>1. OneCreator' BY MoveKeepsCreator DEF RegistryInv
  <1>2. KnownAfterCreate'
    <2>1. ASSUME NEW p \in Requests, NEW a \in Agents, Creating(p, a)' PROVE Creating(p, a)
      BY <2>1 DEF Moves, Creating, CreateSteps
    <2> QED BY <2>1, MoveKeepsKnown DEF RegistryInv, KnownAfterCreate
  <1>3. KnownRows' BY DEF RegistryInv, KnownRows
  <1>4. ASSUME NEW p \in Requests, p # q PROVE ProgressOf(p)'
    <2>1. req'[p] = req[p] /\ ProgressOf(p) BY <1>4 DEF Moves, RegistryInv, Progress
    <2>2. req[p].agent \in Agents BY DEF ReqType
    <2>3. req[p].cid => NothingAppears(req[p].agent)
      BY <2>2 DEF RegistryInv, KnownAfterCreate
    <2> QED BY <2>1, <2>2, <2>3 DEF ProgressOf, NothingAppears
  <1>5. Progress' BY <1>4 DEF Progress
  <1>6. ASSUME NEW a \in Agents, row[a].cid PROVE NothingAppears(a)
    BY <1>6 DEF RegistryInv, KnownAfterCreate
  <1>7. DeletedIsClean' BY <1>6 DEF RegistryInv, DeletedIsClean, NothingAppears
  <1> QED BY <1>1, <1>2, <1>3, <1>5, <1>7 DEF RegistryInv

-----------------------------------------------------------------------------
(* One lemma per kind of step.                                             *)

\* The steps of Create that call Docker.
LEMMA CreateStepKeeps ==
  ASSUME NEW q \in Requests, Inv, CreateVolume(q) \/ CreateContainer(q) \/ CreateStart(q)
  PROVE  Inv'
  <1> DEFINE a == req[q].agent
  <1> USE DEF Inv
  <1>1. a \in Agents /\ Creating(q, a) /\ req[q].step # "idle" /\ req[q].step \in CreateSteps
    BY DEF CreateVolume, CreateContainer, CreateStart, At, Creating, ReqType, CreateSteps
  <1>2. row' = row /\ policy' = policy BY DEF CreateVolume, CreateContainer, CreateStart
  <1>3. \E s \in CreateSteps : Goto(q, s)
    BY DEF CreateVolume, CreateContainer, CreateStart, DaemonCall, CreateSteps
  <1>4. PICK s \in CreateSteps : Goto(q, s) BY <1>3
  <1>5. s \in Steps /\ s # "idle" BY DEF CreateSteps, Steps, RegistryStep
  <1>6. /\ Moves(q) /\ req'[q].step = s /\ served' = served /\ faults' = faults
    BY <1>1, <1>4, <1>5, GotoMoves
  <1>7. /\ container' \in [Agents -> {"none", "stopped", "up"}]
        /\ volume' \in [Agents -> BOOLEAN]
        /\ \A b \in Agents : b # a => container'[b] = container[b] /\ volume'[b] = volume[b]
    BY <1>1 DEF CreateVolume, CreateContainer, CreateStart, DaemonCall, RegistryTypeOK
  <1>8. RegistryTypeOK' BY <1>2, <1>6, <1>7 DEF RegistryTypeOK
  <1>9. ProgressOf(q)' BY <1>6 DEF ProgressOf, CreateSteps
  <1>10. \A b \in Agents : Creating(q, b) \/ NothingAppears(b) BY <1>1, <1>7 DEF NothingAppears
  <1> QED BY <1>2, <1>6, <1>8, <1>9, <1>10, DaemonStepKeeps DEF Moves

\* StartAgent's and StopAgent's calls to Docker.
LEMMA StartStopKeeps ==
  ASSUME NEW q \in Requests, Inv, StartDocker(q) \/ StopDocker(q)
  PROVE  Inv'
  <1> DEFINE a == req[q].agent
  <1> USE DEF Inv
  <1>1. a \in Agents /\ req[q].step # "idle" BY DEF StartDocker, StopDocker, At, ReqType
  <1>2. row' = row /\ policy' = policy BY DEF StartDocker, StopDocker
  <1>3. /\ container' \in [Agents -> {"none", "stopped", "up"}] /\ volume' = volume
        /\ \A b \in Agents : container[b] = "none" => container'[b] = "none"
    BY <1>1 DEF StartDocker, StopDocker, KnownToDocker, DaemonCall, RegistryTypeOK
  <1>4. \/ Return(q)
        \/ req[q].cid /\ \E s \in {"start.record", "stop.record"} : Goto(q, s)
    BY DEF StartDocker, StopDocker, KnownToDocker, DaemonCall
  <1>5. Moves(q) /\ ProgressOf(q)' /\ served' = served /\ faults' = faults
    <2>1. CASE Return(q) BY <2>1, ReturnMoves DEF ProgressOf
    <2>2. CASE req[q].cid /\ \E s \in {"start.record", "stop.record"} : Goto(q, s)
      <3>1. PICK s \in {"start.record", "stop.record"} : Goto(q, s) BY <2>2
      <3>2. s \in Steps /\ s # "idle" /\ s \notin CreateSteps BY DEF Steps, RegistryStep, CreateSteps
      <3>3. /\ Moves(q) /\ req'[q].step = s /\ req'[q].cid = req[q].cid
            /\ served' = served /\ faults' = faults
        BY <1>1, <3>1, <3>2, GotoMoves
      <3> QED BY <2>2, <3>1, <3>3 DEF ProgressOf
    <2> QED BY <1>4, <2>1, <2>2
  <1>6. RegistryTypeOK' BY <1>2, <1>3, <1>5 DEF RegistryTypeOK
  <1>7. \A b \in Agents : NothingAppears(b) BY <1>3 DEF NothingAppears
  <1> QED BY <1>2, <1>5, <1>6, <1>7, DaemonStepKeeps DEF Moves

\* DockerManager.Delete: what the request removed is what it may rely on next.
LEMMA DeleteStepKeeps ==
  ASSUME NEW q \in Requests, Inv, DeleteContainer(q) \/ DeleteVolume(q)
  PROVE  Inv'
  <1> DEFINE a == req[q].agent
  <1> USE DEF Inv
  <1>1. a \in Agents /\ req[q].step # "idle" /\ ProgressOf(q)
    BY DEF DeleteContainer, DeleteVolume, At, ReqType, RegistryInv, Progress
  <1>2. row' = row /\ policy' = policy BY DEF DeleteContainer, DeleteVolume
  <1>3. /\ container' \in [Agents -> {"none", "stopped", "up"}]
        /\ volume' \in [Agents -> BOOLEAN]
        /\ \A b \in Agents : NothingAppears(b)
    BY <1>1 DEF DeleteContainer, DeleteVolume, DaemonCall, RegistryTypeOK, NothingAppears
  <1>4. \/ Return(q)
        \/ Goto(q, "delete.volume") /\ (req[q].cid => container'[a] = "none")
        \/ /\ Goto(q, "delete.row")
           /\ req[q].cid => container'[a] = "none"
           /\ policy[a] = "delete" => ~volume'[a]
    BY <1>1 DEF DeleteContainer, DeleteVolume, At, DaemonCall, RegistryTypeOK, ProgressOf
  <1>5. Moves(q) /\ ProgressOf(q)' /\ served' = served /\ faults' = faults
    <2>0. {"delete.volume", "delete.row"} \cap CreateSteps = {} /\ {"delete.volume", "delete.row"} \subseteq Steps
      BY DEF Steps, RegistryStep, CreateSteps
    <2>1. CASE Return(q) BY <2>1, ReturnMoves DEF ProgressOf
    <2>2. CASE Goto(q, "delete.volume") /\ (req[q].cid => container'[a] = "none")
      <3>1. /\ Moves(q) /\ req'[q].step = "delete.volume" /\ req'[q].cid = req[q].cid
            /\ req'[q].agent = a /\ served' = served /\ faults' = faults
        BY <1>1, <2>0, <2>2, GotoMoves
      <3> QED BY <2>2, <3>1 DEF ProgressOf
    <2>3. CASE /\ Goto(q, "delete.row")
               /\ req[q].cid => container'[a] = "none"
               /\ policy[a] = "delete" => ~volume'[a]
      <3>1. /\ Moves(q) /\ req'[q].step = "delete.row" /\ req'[q].cid = req[q].cid
            /\ req'[q].agent = a /\ served' = served /\ faults' = faults
        BY <1>1, <2>0, <2>3, GotoMoves
      <3> QED BY <1>2, <2>3, <3>1 DEF ProgressOf
    <2> QED BY <1>4, <2>1, <2>2, <2>3
  <1>6. RegistryTypeOK' BY <1>2, <1>3, <1>5 DEF RegistryTypeOK
  <1> QED BY <1>2, <1>3, <1>5, <1>6, DaemonStepKeeps DEF Moves

\* A request is answered, and that is all.
LEMMA AnswerKeeps ==
  ASSUME NEW q \in Requests, Inv, Return(q), UNCHANGED agentVars
  PROVE  Inv'
  <1> USE DEF Inv
  <1>1. Moves(q) /\ req'[q].step = "idle" /\ served' = served /\ faults' = faults BY ReturnMoves
  <1>2. RegistryTypeOK' BY <1>1 DEF RegistryTypeOK, agentVars
  <1>3. ProgressOf(q)' BY <1>1 DEF ProgressOf
  <1>4. row' = row /\ policy' = policy /\ \A a \in Agents : NothingAppears(a) BY DEF agentVars, NothingAppears
  <1> QED BY <1>1, <1>2, <1>3, <1>4, DaemonStepKeeps DEF Moves

\* A handler's last statement writes the row of one agent, to something the row may
\* hold: a container id only if nobody is creating the agent any more.
LEMMA RowStepKeeps ==
  ASSUME NEW q \in Requests, Inv, Return(q), NEW a \in Agents,
         UNCHANGED <<policy, container, volume>>,
         row' \in [Agents -> [status : Status \cup {"unborn", "deleted"}, cid : BOOLEAN]],
         \A b \in Agents : b # a => row'[b] = row[b],
         row'[a].status # "unborn",
         row'[a].status \in {"running", "stopped"} => row'[a].cid,
         row'[a].status = "deleted" /\ row'[a].cid =>
           container[a] = "none" /\ (policy[a] = "delete" => ~volume[a]),
         row'[a].cid => \A p \in Requests : p # q => ~Creating(p, a)
  PROVE  Inv'
  <1> USE DEF Inv
  <1>1. Moves(q) /\ req'[q].step = "idle" /\ served' = served /\ faults' = faults BY ReturnMoves
  <1>2. RegistryTypeOK' BY <1>1 DEF RegistryTypeOK
  <1>3. OneCreator' BY <1>1, MoveKeepsCreator DEF RegistryInv
  <1>4. ASSUME NEW p \in Requests, NEW b \in Agents, Creating(p, b)' PROVE p # q /\ Creating(p, b)
    BY <1>1, <1>4 DEF Moves, Creating
  <1>5. \A p \in Requests, b \in Agents : Creating(p, b)' => ~row'[b].cid
    BY <1>4 DEF RegistryInv, KnownAfterCreate
  <1>6. KnownAfterCreate' BY <1>1, <1>5, MoveKeepsKnown DEF RegistryInv
  <1>7. ASSUME NEW p \in Requests PROVE ProgressOf(p)'
    <2>1. CASE p = q BY <1>1, <2>1 DEF ProgressOf
    <2>2. CASE p # q BY <1>1, <2>2 DEF Moves, RegistryInv, Progress, ProgressOf
    <2> QED BY <2>1, <2>2
  <1>8. Progress' BY <1>7 DEF Progress
  <1>9. KnownRows' BY DEF RegistryInv, KnownRows
  <1>10. DeletedIsClean' BY DEF RegistryInv, DeletedIsClean
  <1> QED BY <1>1, <1>2, <1>3, <1>6, <1>8, <1>9, <1>10 DEF RegistryInv, Moves

\* Store.UpdateRuntime: only Create, or a request that knows the container id,
\* writes a row, and it writes the id again unless Create failed.
LEMMA RecordKeeps ==
  ASSUME NEW q \in Requests, Inv,
         CreateRecord(q) \/ CreateFailed(q) \/ StartRecord(q) \/ StopRecord(q)
  PROVE  Inv'
  <1> DEFINE a == req[q].agent
  <1> USE DEF Inv
  <1>1. a \in Agents BY DEF ReqType
  <1>2. Return(q) /\ UNCHANGED <<policy, container, volume>>
    BY DEF CreateRecord, CreateFailed, StartRecord, StopRecord, RecordRuntime
  <1>3. ASSUME row' # row
        PROVE  /\ HasRow(a)
               /\ \/ Creating(q, a) /\ row' = [row EXCEPT ![a] = [status |-> "running", cid |-> TRUE]]
                  \/ Creating(q, a) /\ row' = [row EXCEPT ![a] = [status |-> "failed", cid |-> FALSE]]
                  \/ /\ req[q].cid
                     /\ \E s \in {"running", "stopped"} : row' = [row EXCEPT ![a] = [status |-> s, cid |-> TRUE]]
    <2>1. ProgressOf(q) BY DEF RegistryInv, Progress
    <2>2. HasRow(a) BY <1>3
      DEF CreateRecord, CreateFailed, StartRecord, StopRecord, RecordRuntime, UpdateRuntime
    <2>3. CASE CreateRecord(q)
      BY <1>3, <2>2, <2>3 DEF CreateRecord, At, RecordRuntime, UpdateRuntime, Creating
    <2>4. CASE CreateFailed(q)
      BY <1>3, <2>2, <2>4 DEF CreateFailed, At, RecordRuntime, UpdateRuntime, Creating
    <2>5. CASE StartRecord(q) \/ StopRecord(q)
      <3>1. req[q].cid = TRUE BY <2>1, <2>5 DEF StartRecord, StopRecord, At, ProgressOf, ReqType
      <3> QED BY <1>3, <2>2, <2>5, <3>1 DEF StartRecord, StopRecord, RecordRuntime, UpdateRuntime
    <2> QED BY <2>2, <2>3, <2>4, <2>5
  <1>4. CASE row' = row BY <1>2, <1>4, AnswerKeeps DEF agentVars
  <1>5. CASE row' # row
    <2>0. \E v \in [status : Status, cid : BOOLEAN] : row' = [row EXCEPT ![a] = v]
      BY <1>3, <1>5 DEF Status
    <2>1. row' \in [Agents -> [status : Status \cup {"unborn", "deleted"}, cid : BOOLEAN]]
      BY <1>1, <2>0 DEF RegistryTypeOK
    <2>2. /\ \A b \in Agents : b # a => row'[b] = row[b]
          /\ row'[a].status \in {"running", "stopped", "failed"}
          /\ row'[a].status \in {"running", "stopped"} => row'[a].cid
      BY <1>1, <1>3, <1>5 DEF RegistryTypeOK
    <2>3. \A p \in Requests : p # q => ~Creating(p, a)
            \/ row'[a].cid = FALSE
      BY <1>1, <1>3, <1>5 DEF RegistryInv, OneCreator, KnownAfterCreate
    <2> QED BY <1>1, <1>2, <2>1, <2>2, <2>3, RowStepKeeps
  <1> QED BY <1>4, <1>5

\* Store.DeleteAgent: a delete that knew the container id has removed what the
\* policy asks for, and it is still gone.
LEMMA DeleteRowKeeps ==
  ASSUME NEW q \in Requests, Inv, DeleteRow(q)
  PROVE  Inv'
  <1> DEFINE a == req[q].agent
  <1> USE DEF Inv
  <1>1. a \in Agents /\ ProgressOf(q) BY DEF ReqType, RegistryInv, Progress
  <1>2. Return(q) /\ UNCHANGED <<policy, container, volume>> BY DEF DeleteRow
  <1>3. CASE ~HasRow(a) BY <1>2, <1>3, AnswerKeeps DEF DeleteRow, agentVars
  <1>4. CASE HasRow(a)
    <2>1. row' = [row EXCEPT ![a] = [status |-> "deleted", cid |-> req[q].cid]] BY <1>4 DEF DeleteRow
    <2>2. /\ row' \in [Agents -> [status : Status \cup {"unborn", "deleted"}, cid : BOOLEAN]]
          /\ \A b \in Agents : b # a => row'[b] = row[b]
          /\ row'[a].status = "deleted" /\ row'[a].cid = req[q].cid
      BY <1>1, <2>1 DEF RegistryTypeOK, ReqType
    <2>3. req[q].cid => container[a] = "none" /\ (policy[a] = "delete" => ~volume[a])
      BY <1>1 DEF ProgressOf, DeleteRow, At
    <2>4. req[q].cid => \A p \in Requests : ~Creating(p, a)
      BY <1>1 DEF RegistryInv, KnownAfterCreate
    <2> QED BY <1>1, <1>2, <2>2, <2>3, <2>4, RowStepKeeps
  <1> QED BY <1>3, <1>4

\* A request arrives and takes its copy of the row.
LEMMA ServeType ==
  ASSUME NEW q \in Requests, NEW a \in Agents, NEW s \in Steps, Inv, Serve(q, a, s)
  PROVE  /\ ReqType' /\ req[q].step = "idle"
         /\ req'[q].step = s /\ req'[q].agent = a /\ req'[q].cid = row[a].cid
         /\ \A p \in Requests : p # q => req'[p] = req[p]
         /\ served' \in 0..MaxRequests /\ faults' = faults
  <1> USE DEF Inv
  <1>1. row[a].cid \in BOOLEAN BY DEF RegistryTypeOK
  <1>2. req' = [req EXCEPT ![q] = [step |-> s, agent |-> a, cid |-> row[a].cid]] BY DEF Serve
  <1>3. req[q].step = "idle" BY DEF Serve, Idle
  <1>4. served' \in 0..MaxRequests /\ faults' = faults BY ControlAssumption DEF Serve, RegistryTypeOK
  <1> QED BY <1>1, <1>2, <1>3, <1>4 DEF ReqType

\* A request for an agent that has a row, other than its creation.
LEMMA ServeKeeps ==
  ASSUME NEW q \in Requests, NEW a \in Agents, Inv, HasRow(a), UNCHANGED agentVars,
         NEW s \in {"start.docker", "stop.docker", "delete.container", "run.insert"}, Serve(q, a, s)
  PROVE  Inv'
  <1> USE DEF Inv
  <1>1. s \in Steps /\ s # "idle" BY DEF Steps, RegistryStep
  <1>2. /\ ReqType' /\ req'[q].step = s /\ req'[q].agent = a /\ req'[q].cid = row[a].cid
        /\ \A p \in Requests : p # q => req'[p] = req[p]
        /\ served' \in 0..MaxRequests /\ faults' = faults
    BY <1>1, ServeType
  <1>3. RegistryTypeOK' BY <1>2 DEF RegistryTypeOK, agentVars
  <1>4. ASSUME NEW p \in Requests, NEW b \in Agents, Creating(p, b)' PROVE p # q /\ Creating(p, b)
    BY <1>2, <1>4 DEF Creating
  <1>5. OneCreator'
    <2>1. ASSUME NEW p \in Requests
          PROVE  /\ req'[p].step = "idle" => ~req'[p].cid
                 /\ req'[p].step # "idle" => row'[req'[p].agent].status # "unborn"
      <3>1. CASE p = q BY <1>1, <1>2, <3>1 DEF HasRow, Status, agentVars
      <3>2. CASE p # q BY <1>2, <3>2 DEF RegistryInv, OneCreator, agentVars
      <3> QED BY <3>1, <3>2
    <2> QED BY <1>4, <2>1 DEF RegistryInv, OneCreator
  <1>6. KnownAfterCreate'
    <2>1. ASSUME NEW p \in Requests, NEW b \in Agents, Creating(p, b)'
          PROVE  ~row'[b].cid /\ \A o \in Requests : req'[o].agent = b => ~req'[o].cid
      <3>1. ~row[b].cid /\ \A o \in Requests : req[o].agent = b => ~req[o].cid
        BY <1>4, <2>1 DEF RegistryInv, KnownAfterCreate
      <3> QED BY <1>2, <3>1 DEF agentVars
    <2> QED BY <2>1 DEF KnownAfterCreate
  <1>7. ASSUME NEW p \in Requests PROVE ProgressOf(p)'
    <2>1. CASE p = q BY <1>2, <2>1 DEF ProgressOf
    <2>2. CASE p # q BY <1>2, <2>2 DEF RegistryInv, Progress, ProgressOf, agentVars
    <2> QED BY <2>1, <2>2
  <1>8. Progress' BY <1>7 DEF Progress
  <1>9. KnownRows' /\ DeletedIsClean' BY DEF RegistryInv, KnownRows, DeletedIsClean, agentVars
  <1> QED BY <1>2, <1>3, <1>5, <1>6, <1>8, <1>9 DEF RegistryInv

\* Nobody works on an agent that is not born yet, so its creator is the only one.
LEMMA CreateKeeps ==
  ASSUME NEW q \in Requests, NEW a \in Agents, Inv, Create(q, a)
  PROVE  Inv'
  <1> USE DEF Inv
  <1>1. "create.volume" \in Steps BY DEF Steps, RegistryStep
  <1>2. /\ ReqType' /\ req'[q].step = "create.volume" /\ req'[q].agent = a /\ req'[q].cid = row[a].cid
        /\ \A p \in Requests : p # q => req'[p] = req[p]
        /\ served' \in 0..MaxRequests /\ faults' = faults
    BY <1>1, ServeType DEF Create
  <1>3. /\ row' = [row EXCEPT ![a] = [status |-> "provisioning", cid |-> FALSE]]
        /\ row[a].status = "unborn" /\ UNCHANGED <<policy, container, volume>>
    BY DEF Create
  <1>4. /\ row'[a].status = "provisioning" /\ row'[a].cid = FALSE
        /\ \A b \in Agents : b # a => row'[b] = row[b]
        /\ row' \in [Agents -> [status : Status \cup {"unborn", "deleted"}, cid : BOOLEAN]]
    BY <1>3 DEF RegistryTypeOK, Status
  <1>5. RegistryTypeOK' BY <1>2, <1>3, <1>4 DEF RegistryTypeOK
  <1>6. \A p \in Requests : ~Creating(p, a) /\ (req[p].agent = a => ~req[p].cid)
    BY <1>3 DEF RegistryInv, OneCreator, Creating
  <1>7. ~req'[q].cid BY <1>2, <1>3 DEF RegistryInv, KnownRows
  <1>8. ASSUME NEW p \in Requests, NEW b \in Agents, Creating(p, b)'
        PROVE  (p = q /\ b = a) \/ (p # q /\ b # a /\ Creating(p, b))
    BY <1>2, <1>6, <1>8 DEF Creating
  <1>9. OneCreator'
    <2>1. ASSUME NEW p \in Requests
          PROVE  /\ req'[p].step = "idle" => ~req'[p].cid
                 /\ req'[p].step # "idle" => row'[req'[p].agent].status # "unborn"
      <3>1. CASE p = q BY <1>2, <1>4, <3>1
      <3>2. CASE p # q
        <4>1. req'[p] = req[p] /\ req[p].agent \in Agents BY <1>2, <3>2 DEF ReqType
        <4> QED BY <1>4, <4>1 DEF RegistryInv, OneCreator
      <3> QED BY <3>1, <3>2
    <2> QED BY <1>8, <2>1 DEF RegistryInv, OneCreator
  <1>10. KnownAfterCreate'
    <2>1. ASSUME NEW p \in Requests, NEW b \in Agents, Creating(p, b)'
          PROVE  ~row'[b].cid /\ \A o \in Requests : req'[o].agent = b => ~req'[o].cid
      <3>1. CASE p = q /\ b = a BY <1>2, <1>4, <1>6, <1>7, <3>1
      <3>2. CASE p # q /\ b # a /\ Creating(p, b)
        BY <1>2, <1>4, <3>2 DEF RegistryInv, KnownAfterCreate
      <3> QED BY <1>8, <2>1, <3>1, <3>2
    <2> QED BY <2>1 DEF KnownAfterCreate
  <1>11. ASSUME NEW p \in Requests PROVE ProgressOf(p)'
    <2>1. CASE p = q BY <1>2, <2>1 DEF ProgressOf
    <2>2. CASE p # q BY <1>2, <1>3, <2>2 DEF RegistryInv, Progress, ProgressOf
    <2> QED BY <2>1, <2>2
  <1>12. Progress' BY <1>11 DEF Progress
  <1>13. KnownRows' /\ DeletedIsClean' BY <1>3, <1>4 DEF RegistryInv, KnownRows, DeletedIsClean
  <1> QED BY <1>2, <1>5, <1>9, <1>10, <1>12, <1>13 DEF RegistryInv

\* The control plane dies and its requests with it.
LEMMA CrashKeeps ==
  ASSUME Inv, Crash
  PROVE  Inv'
  <1> USE DEF Inv
  <1>1. req' = [q \in Requests |-> Idle] /\ UNCHANGED <<agentVars, served, faults>> BY DEF Crash
  <1>2. Idle.step = "idle" /\ Idle.cid = FALSE BY DEF Idle
  <1>3. ReqType' BY <1>1, IdleType DEF ReqType
  <1>4. \A q \in Requests : req'[q].step = "idle" /\ ~req'[q].cid BY <1>1, <1>2
  <1>5. RegistryTypeOK' BY <1>1 DEF RegistryTypeOK, agentVars
  <1>6. \A q \in Requests, a \in Agents : ~Creating(q, a)' BY <1>4 DEF Creating
  <1>7. OneCreator' /\ KnownAfterCreate' BY <1>4, <1>6 DEF OneCreator, KnownAfterCreate
  <1>8. Progress' BY <1>4 DEF Progress, ProgressOf
  <1>9. KnownRows' /\ DeletedIsClean' BY <1>1 DEF RegistryInv, KnownRows, DeletedIsClean, agentVars
  <1> QED BY <1>3, <1>5, <1>7, <1>8, <1>9 DEF RegistryInv

\* The goroutines, the gateway, the workers and the browsers leave the agents alone.
LEMMA StutterKeeps ==
  ASSUME Inv, UNCHANGED registryVars
  PROVE  Inv'
  BY DEF Inv, registryVars, RegistryTypeOK, ReqType, RegistryInv, OneCreator, KnownAfterCreate,
         Progress, ProgressOf, KnownRows, DeletedIsClean, Creating

-----------------------------------------------------------------------------
(* The invariant of the control plane.                                     *)

LEMMA InitInv == Init => Inv
  <1> SUFFICES ASSUME RegistryInit PROVE Inv BY DEF Init
  <1>1. Idle.step = "idle" /\ Idle.cid = FALSE BY DEF Idle
  <1>2. ReqType BY IdleType DEF RegistryInit, ReqType
  <1>3. \A q \in Requests : req[q].step = "idle" /\ ~req[q].cid BY <1>1 DEF RegistryInit
  <1>4. row \in [Agents -> [status : Status \cup {"unborn", "deleted"}, cid : BOOLEAN]]
    BY DEF RegistryInit
  <1>5. RegistryTypeOK BY <1>4, ControlAssumption DEF RegistryInit, RegistryTypeOK
  <1>6. OneCreator /\ KnownAfterCreate BY <1>3 DEF OneCreator, KnownAfterCreate, Creating
  <1>7. Progress BY <1>3 DEF Progress, ProgressOf
  <1>8. KnownRows /\ DeletedIsClean BY DEF RegistryInit, KnownRows, DeletedIsClean
  <1> QED BY <1>2, <1>5, <1>6, <1>7, <1>8 DEF Inv, RegistryInv

\* Every step is one of the kinds the lemmas above are about.
LEMMA NextKinds ==
  ASSUME [Next]_vars
  PROVE  \/ UNCHANGED registryVars \/ Crash
         \/ \E q \in Requests :
              \/ CreateVolume(q) \/ CreateContainer(q) \/ CreateStart(q)
              \/ CreateRecord(q) \/ CreateFailed(q) \/ StartRecord(q) \/ StopRecord(q)
              \/ StartDocker(q) \/ StopDocker(q) \/ DeleteContainer(q) \/ DeleteVolume(q)
              \/ DeleteRow(q) \/ (Return(q) /\ UNCHANGED agentVars)
              \/ \E a \in Agents :
                   \/ Create(q, a)
                   \/ /\ HasRow(a) /\ UNCHANGED agentVars
                      /\ \E s \in {"start.docker", "stop.docker", "delete.container", "run.insert"} :
                           Serve(q, a, s)
  <1>1. CASE UNCHANGED vars BY <1>1 DEF vars
  <1>2. CASE RegistryPart
    <2>1. PICK q \in Requests : HandlerStep(q) \/ \E a \in Agents : Arrival(q, a)
      BY <1>2 DEF RegistryPart
    <2>2. CASE HandlerStep(q) BY <2>2 DEF HandlerStep, DeleteRowFails
    <2>3. CASE \E a \in Agents : Arrival(q, a) BY <2>3 DEF Arrival, Start, Stop, Delete
    <2> QED BY <2>1, <2>2, <2>3
  <1>3. CASE RequestPart
    BY <1>3 DEF RequestPart, DeleteAgentRow, CreateRunFails, StartRun, CreateRun, HasRow, Status
  <1>4. CASE Crash BY <1>4
  <1>5. ASSUME NEW r \in Runs,
               ConsumerStep(r) \/ Expire(r) \/ GatewayStep(r) \/ Break(r) \/ WorkerStep(r) \/ ReaderStep(r)
        PROVE  UNCHANGED registryVars
    <2>1. CASE ConsumerStep(r) BY <2>1 DEF ConsumerStep, Connect, Receive, StreamEnds, FinishRun
    <2>2. CASE Expire(r) \/ Break(r) BY <2>2 DEF Expire, Break
    <2>3. CASE GatewayStep(r)
      BY <2>3 DEF GatewayStep, Subscribe, PublishTask, Forward, RunTimeout, Cancelled
    <2>4. CASE WorkerStep(r)
      BY <2>4 DEF WorkerStep, Attempt, Exec, ExecEnds, Answer, AttemptFails, WorkerDies
    <2>5. CASE ReaderStep(r) BY <2>5 DEF ReaderStep, Follow, Poll
    <2> QED BY <1>5, <2>1, <2>2, <2>3, <2>4, <2>5
  <1> QED BY <1>1, <1>2, <1>3, <1>4, <1>5 DEF Next

LEMMA NextInv == Inv /\ [Next]_vars => Inv'
  <1> SUFFICES ASSUME Inv, [Next]_vars PROVE Inv' OBVIOUS
  <1>1. CASE UNCHANGED registryVars BY <1>1, StutterKeeps
  <1>2. CASE Crash BY <1>2, CrashKeeps
  <1>3. ASSUME NEW q \in Requests, CreateVolume(q) \/ CreateContainer(q) \/ CreateStart(q) PROVE Inv'
    BY <1>3, CreateStepKeeps
  <1>4. ASSUME NEW q \in Requests, CreateRecord(q) \/ CreateFailed(q) \/ StartRecord(q) \/ StopRecord(q)
        PROVE  Inv'
    BY <1>4, RecordKeeps
  <1>5. ASSUME NEW q \in Requests, StartDocker(q) \/ StopDocker(q) PROVE Inv' BY <1>5, StartStopKeeps
  <1>6. ASSUME NEW q \in Requests, DeleteContainer(q) \/ DeleteVolume(q) PROVE Inv'
    BY <1>6, DeleteStepKeeps
  <1>7. ASSUME NEW q \in Requests, DeleteRow(q) PROVE Inv' BY <1>7, DeleteRowKeeps
  <1>8. ASSUME NEW q \in Requests, Return(q) /\ UNCHANGED agentVars PROVE Inv' BY <1>8, AnswerKeeps
  <1>9. ASSUME NEW q \in Requests, NEW a \in Agents, Create(q, a) PROVE Inv' BY <1>9, CreateKeeps
  <1>10. ASSUME NEW q \in Requests, NEW a \in Agents, HasRow(a), UNCHANGED agentVars,
                NEW s \in {"start.docker", "stop.docker", "delete.container", "run.insert"}, Serve(q, a, s)
         PROVE  Inv'
    BY <1>10, ServeKeeps
  <1> QED BY <1>1, <1>2, <1>3, <1>4, <1>5, <1>6, <1>7, <1>8, <1>9, <1>10, NextKinds

LEMMA AlwaysInv == Spec => []Inv
  BY InitInv, NextInv, PTL DEF Spec

\* The rules the interleaved handlers of service.go live by, for any number of
\* agents, requests and runs and any faults: one creator, no container id before it
\* has finished, and after that nothing that makes a container or a volume.
THEOREM RegistryInvariant == Spec => []RegistryInv
  <1>1. Inv => RegistryInv BY DEF Inv
  <1> QED BY <1>1, AlwaysInv, PTL

\* DeleteAgent: an agent deleted by a request that knew its container has no
\* container left and, if its policy says so, no volume, and none comes back.
THEOREM DeletesAreClean == Spec => []DeletedIsClean
  <1>1. Inv => DeletedIsClean BY DEF Inv, RegistryInv
  <1> QED BY <1>1, AlwaysInv, PTL

\* UpdateRuntime, called with stale copies of the row by overlapping handlers, never
\* takes the container id away from an agent that has one.
THEOREM ContainersStayKnown == Spec => ContainerStaysKnown
  <1> DEFINE Known == \A a \in Agents : row[a].status \in {"running", "stopped"} => row[a].cid
             Kept == \A a \in Agents : row[a].cid /\ row'[a].status # "deleted" => row'[a].cid
  <1>1. Inv => Known BY DEF Inv, RegistryInv, KnownRows
  <1>2. Inv /\ [Next]_vars => [Kept]_registryVars
    <2> SUFFICES ASSUME Inv, [Next]_vars PROVE row' = row \/ Kept BY DEF registryVars
    <2> USE DEF Inv
    <2>1. ASSUME NEW q \in Requests, CreateRecord(q) \/ StartRecord(q) \/ StopRecord(q)
          PROVE  row' = row \/ Kept
      <3>1. ProgressOf(q) BY DEF RegistryInv, Progress
      <3>2. req[q].agent \in Agents BY DEF ReqType
      <3>3. \/ row' = row
            \/ \E v \in [status : Status, cid : {TRUE}] : row' = [row EXCEPT ![req[q].agent] = v]
        <4>1. CASE CreateRecord(q) BY <4>1 DEF CreateRecord, RecordRuntime, UpdateRuntime, Status
        <4>2. CASE StartRecord(q) \/ StopRecord(q)
          <5>1. req[q].cid = TRUE BY <3>1, <4>2 DEF StartRecord, StopRecord, At, ProgressOf, ReqType
          <5> QED BY <4>2, <5>1 DEF StartRecord, StopRecord, RecordRuntime, UpdateRuntime, Status
        <4> QED BY <2>1, <4>1, <4>2
      <3> QED BY <3>2, <3>3 DEF RegistryTypeOK
    <2>2. ASSUME NEW q \in Requests, CreateFailed(q) PROVE row' = row \/ Kept
      <3>1. Creating(q, req[q].agent) /\ req[q].agent \in Agents
        BY <2>2 DEF CreateFailed, At, Creating, ReqType
      <3>2. ~row[req[q].agent].cid BY <3>1 DEF RegistryInv, KnownAfterCreate
      <3>3. \A a \in Agents : a # req[q].agent => row'[a] = row[a]
        BY <2>2, <3>1 DEF CreateFailed, RecordRuntime, UpdateRuntime, RegistryTypeOK
      <3> QED BY <3>1, <3>2, <3>3
    <2>3. ASSUME NEW q \in Requests, DeleteRow(q) PROVE row' = row \/ Kept
      BY <2>3 DEF DeleteRow, RegistryTypeOK, ReqType
    <2>4. ASSUME NEW q \in Requests, NEW a \in Agents, Create(q, a) PROVE row' = row \/ Kept
      <3>1. ~row[a].cid BY <2>4 DEF Create, RegistryInv, KnownRows
      <3> QED BY <2>4, <3>1 DEF Create, RegistryTypeOK
    <2>5. CASE UNCHANGED registryVars \/ Crash BY <2>5 DEF registryVars, Crash, agentVars
    <2>6. ASSUME NEW q \in Requests,
                 \/ CreateVolume(q) \/ CreateContainer(q) \/ CreateStart(q) \/ StartDocker(q)
                 \/ StopDocker(q) \/ DeleteContainer(q) \/ DeleteVolume(q) \/ UNCHANGED agentVars
          PROVE  row' = row
      BY <2>6 DEF CreateVolume, CreateContainer, CreateStart, StartDocker, StopDocker,
                  DeleteContainer, DeleteVolume, agentVars
    <2> QED BY <2>1, <2>2, <2>3, <2>4, <2>5, <2>6, NextKinds
  <1>3. Spec => []Known /\ [][Kept]_registryVars BY <1>1, <1>2, AlwaysInv, PTL DEF Spec
  <1> QED BY <1>3 DEF ContainerStaysKnown

-----------------------------------------------------------------------------
(* The runs: what the row of a run says, from the worker's events to       *)
(* FinishRun, for any number of runs and attempts.                         *)

Kinds == Terminal \cup {"note"}

EventRow == [id : Nat, kind : Kinds]
RunRow == [status : {"none", "running", "completed", "failed", "deleted"}, agent : Agents]

RunTypes ==
  /\ run \in [Runs -> RunRow]
  /\ consumer \in [Runs -> {"none", "connect", "receive", "completed", "failed", "finished", "unsaved", "lost"}]
  /\ gateway \in [Runs -> {"none", "open", "subscribed", "waiting", "closed"}]
  /\ task \in [Runs -> {"none", "queued", "think", "exec", "done", "dead", "stuck"}]
  /\ failures \in [Runs -> Nat] /\ seq \in [Runs -> Nat]
  /\ chan \in [Runs -> Seq(Kinds)] /\ wire \in [Runs -> Seq(Kinds)]
  /\ log \in [Runs -> Seq(EventRow)]
  /\ disturbed \in [Runs -> BOOLEAN]

Has(s, kind) == \E i \in 1..Len(s) : s[i] = kind

\* How far the parts of a run are: the goroutine owns the row until it is
\* finished, and nothing is queued or sent before the gateway has published.
Linked(r) ==
  /\ run[r].status = "none" <=> consumer[r] = "none"
  /\ consumer[r] \in {"connect", "receive", "completed", "failed"}
       => run[r].status \in {"running", "deleted"}
  /\ run[r].status \in {"completed", "failed"} => consumer[r] = "finished"
  /\ consumer[r] \in {"none", "connect"} => gateway[r] = "none"
  /\ gateway[r] \in {"none", "open", "subscribed"}
       => task[r] = "none" /\ chan[r] = << >> /\ wire[r] = << >>
  /\ task[r] = "none" => failures[r] = 0

\* A terminal event that is under way, stored or turned into a verdict is true
\* of the task.
Truthful(r) ==
  /\ Has(chan[r], "done") \/ Has(wire[r], "done") \/ "completed" \in {consumer[r], run[r].status}
       => task[r] = "done"
  /\ Has(chan[r], "error") => failures[r] > 0
  /\ Has(wire[r], "error") \/ "failed" \in {consumer[r], run[r].status}
       => failures[r] > 0 \/ disturbed[r]
  /\ Has(wire[r], "done") \/ "completed" \in {consumer[r], run[r].status}
       => failures[r] = 0 \/ disturbed[r]
  /\ "completed" \in {consumer[r], run[r].status}
       => log[r] # << >> /\ log[r][Len(log[r])].kind = "done"

\* Undisturbed, the first terminal event is the one that is forwarded, and it
\* is on its way to a goroutine that still waits when the stream is closed.
FirstCounts(r) ==
  ~disturbed[r] =>
    /\ gateway[r] = "waiting" /\ failures[r] > 0 =>
         \E i \in 1..Len(chan[r]) :
           chan[r][i] = "error" /\ \A j \in 1..(i - 1) : chan[r][j] # "done"
    /\ gateway[r] = "closed" /\ consumer[r] = "receive"
         => wire[r] # << >> /\ wire[r][Len(wire[r])] \in Terminal

RunOk(r) == Linked(r) /\ Truthful(r) /\ FirstCounts(r)

RunInv == RunTypes /\ \A r \in Runs : RunOk(r)

\* Sequences of events.
LEMMA HasAppend ==
  ASSUME NEW s \in Seq(Kinds), NEW k \in Kinds, NEW x
  PROVE  /\ Append(s, k) \in Seq(Kinds) /\ Append(s, k) # << >>
         /\ Append(s, k)[Len(Append(s, k))] = k
         /\ Has(Append(s, k), x) <=> Has(s, x) \/ k = x
  <1> DEFINE t == Append(s, k)
  <1>1. t \in Seq(Kinds) /\ Len(t) = Len(s) + 1 /\ t[Len(s) + 1] = k /\ t # << >>
        /\ \A i \in 1..Len(s) : t[i] = s[i]
    OBVIOUS
  <1> HIDE DEF t
  <1> QED BY <1>1 DEF Has

LEMMA HasTail ==
  ASSUME NEW s \in Seq(Kinds), s # << >>, NEW x
  PROVE  /\ Head(s) \in Kinds /\ Head(s) = s[1] /\ Has(s, Head(s))
         /\ Tail(s) \in Seq(Kinds) /\ Len(Tail(s)) = Len(s) - 1
         /\ \A i \in 1..Len(Tail(s)) : Tail(s)[i] = s[i + 1]
         /\ Has(Tail(s), x) => Has(s, x)
  <1>1. /\ Head(s) \in Kinds /\ Head(s) = s[1] /\ Len(s) \in Nat /\ Len(s) >= 1
        /\ Tail(s) \in Seq(Kinds) /\ Len(Tail(s)) = Len(s) - 1
        /\ \A i \in 1..Len(Tail(s)) : Tail(s)[i] = s[i + 1]
    OBVIOUS
  <1>2. Has(s, Head(s)) BY <1>1 DEF Has
  <1>3. Has(Tail(s), x) => Has(s, x)
    <2> SUFFICES ASSUME NEW i \in 1..Len(Tail(s)), Tail(s)[i] = x PROVE Has(s, x) BY DEF Has
    <2>1. i + 1 \in 1..Len(s) /\ s[i + 1] = x BY <1>1
    <2> QED BY <2>1 DEF Has
  <1> QED BY <1>1, <1>2, <1>3

LEMMA LastOfTail ==
  ASSUME NEW s \in Seq(Kinds), s # << >>, s[1] # s[Len(s)]
  PROVE  Tail(s) # << >> /\ Tail(s)[Len(Tail(s))] = s[Len(s)]
  <1>1. Len(s) \in Nat /\ Len(s) >= 1 /\ Len(s) # 1 OBVIOUS
  <1>2. /\ Tail(s) \in Seq(Kinds) /\ Len(Tail(s)) = Len(s) - 1
        /\ \A i \in 1..(Len(s) - 1) : Tail(s)[i] = s[i + 1]
    OBVIOUS
  <1>3. Tail(s)[Len(s) - 1] = s[(Len(s) - 1) + 1] BY <1>1, <1>2
  <1>4. (Len(s) - 1) + 1 = Len(s) BY <1>1
  <1>5. Tail(s)[Len(Tail(s))] = s[Len(s)] BY <1>2, <1>3, <1>4, Zenon
  <1>6. Len(Tail(s)) # 0 BY <1>1, <1>2
  <1>7. Tail(s) # << >>
    <2>1. Len(<< >>) = 0 OBVIOUS
    <2> QED BY <1>6, <2>1, Zenon
  <1> QED BY <1>5, <1>7

LEMMA HasNothing == ASSUME NEW x PROVE ~Has(<< >>, x)
  BY DEF Has

\* A step is of one run only, or it touches the goroutines and rows of all of
\* them without making a verdict.
OnlyRun(r) ==
  \A s \in Runs \ {r} :
    /\ run'[s] = run[s] /\ consumer'[s] = consumer[s] /\ gateway'[s] = gateway[s]
    /\ task'[s] = task[s] /\ failures'[s] = failures[s] /\ log'[s] = log[s]
    /\ chan'[s] = chan[s] /\ wire'[s] = wire[s] /\ disturbed'[s] = disturbed[s]

LEMMA OneRunKeeps ==
  ASSUME RunInv, RunTypes', NEW r \in Runs, OnlyRun(r), RunOk(r)'
  PROVE  RunInv'
  <1> SUFFICES ASSUME NEW s \in Runs, s # r PROVE RunOk(s)' BY DEF RunInv
  <1>1. RunOk(s) BY DEF RunInv
  <1> QED BY <1>1 DEF OnlyRun, RunOk, Linked, Truthful, FirstCounts


\* A step of run r keeps the invariant: what it does to r, and to r only.
KeptBy(r) == RunTypes' /\ OnlyRun(r) /\ RunOk(r)'

LEMMA ConnectKeeps == ASSUME RunInv, NEW r \in Runs, Connect(r) PROVE KeptBy(r)
  <1>1. RunTypes /\ RunOk(r) BY DEF RunInv
  <1>2. RunTypes' /\ OnlyRun(r)
    BY <1>1 DEF Connect, Disturb, RunTypes, OnlyRun, taskVars, logVars
  <1>3. /\ consumer'[r] \in {"receive", "failed"} /\ run'[r] = run[r]
        /\ chan'[r] = chan[r] /\ wire'[r] = wire[r] /\ task'[r] = task[r] /\ failures'[r] = failures[r]
        /\ log'[r] = log[r]
        /\ consumer'[r] = "receive" => gateway'[r] = "open" /\ disturbed'[r] = disturbed[r]
        /\ consumer'[r] = "failed" => gateway'[r] = gateway[r] /\ disturbed'[r]
    BY <1>1 DEF Connect, Disturb, RunTypes, taskVars, logVars
  <1>4. consumer[r] = "connect" /\ gateway[r] = "none" BY <1>1 DEF Connect, RunOk, Linked
  <1>5. Linked(r)' BY <1>1, <1>3, <1>4 DEF RunOk, Linked
  <1>6. Truthful(r)' BY <1>1, <1>3, <1>4 DEF RunOk, Linked, Truthful
  <1>7. FirstCounts(r)' BY <1>1, <1>3, <1>4 DEF RunOk, FirstCounts
  <1> QED BY <1>2, <1>5, <1>6, <1>7 DEF KeptBy, RunOk

LEMMA LastOfAppend ==
  ASSUME NEW T, NEW s \in Seq(T), NEW e \in T
  PROVE  /\ Append(s, e) \in Seq(T) /\ Append(s, e) # << >>
         /\ Append(s, e)[Len(Append(s, e))] = e
  <1>1. /\ Append(s, e) \in Seq(T) /\ Append(s, e) # << >>
        /\ Len(Append(s, e)) = Len(s) + 1 /\ Append(s, e)[Len(s) + 1] = e
    OBVIOUS
  <1> QED BY <1>1, Zenon

LEMMA AppendsLog ==
  ASSUME RunTypes, NEW r \in Runs, NEW k \in Kinds, NEW ok \in BOOLEAN, AppendEvent(r, k, ok)
  PROVE  /\ log' \in [Runs -> Seq(EventRow)] /\ seq' \in [Runs -> Nat]
         /\ \A s \in Runs \ {r} : log'[s] = log[s]
         /\ ok => log'[r] # << >> /\ log'[r][Len(log'[r])].kind = k
  <1> DEFINE n == seq[r] + 1
             e == [id |-> n, kind |-> k]
             t == Append(log[r], e)
  <1>1. log[r] \in Seq(EventRow) /\ log \in [Runs -> Seq(EventRow)] /\ seq \in [Runs -> Nat]
    BY DEF RunTypes
  <1>2. n \in Nat BY <1>1
  <1>3. e \in EventRow /\ e.kind = k BY <1>2 DEF EventRow
  <1>4. t \in Seq(EventRow) /\ t # << >> /\ t[Len(t)] = e BY <1>1, <1>3, LastOfAppend
  <1>5. \/ seq' = [seq EXCEPT ![r] = n] /\ log' = [log EXCEPT ![r] = t]
        \/ ~ok /\ (seq' = [seq EXCEPT ![r] = n] \/ seq' = seq) /\ log' = log
    BY DEF AppendEvent, logVars
  <1> HIDE DEF n, e, t
  <1>6. seq' \in [Runs -> Nat] BY <1>1, <1>2, <1>5
  <1>7. CASE log' = [log EXCEPT ![r] = t]
    <2>1. log'[r] = t /\ log' \in [Runs -> Seq(EventRow)] BY <1>1, <1>4, <1>7
    <2>2. \A s \in Runs \ {r} : log'[s] = log[s] BY <1>1, <1>7
    <2> QED BY <1>3, <1>4, <1>6, <2>1, <2>2
  <1>8. CASE log' = log /\ ~ok BY <1>1, <1>6, <1>8
  <1> QED BY <1>5, <1>7, <1>8

LEMMA ReceiveKeeps ==
  ASSUME RunInv, NEW r \in Runs, NEW ok \in BOOLEAN, Receive(r, ok)
  PROVE  KeptBy(r)
  <1>1. RunTypes /\ RunOk(r) BY DEF RunInv
  <1> DEFINE k == Head(wire[r])
  <1>2. wire[r] \in Seq(Kinds) /\ wire[r] # << >> BY <1>1 DEF Receive, RunTypes
  <1>3. /\ k \in Kinds /\ k = wire[r][1] /\ Has(wire[r], k)
        /\ Tail(wire[r]) \in Seq(Kinds) /\ Len(Tail(wire[r])) = Len(wire[r]) - 1
        /\ \A i \in 1..Len(Tail(wire[r])) : Tail(wire[r])[i] = wire[r][i + 1]
    BY <1>2, HasTail
  <1>4. \A x \in Kinds : Has(Tail(wire[r]), x) => Has(wire[r], x) BY <1>2, HasTail
  <1>5. /\ log' \in [Runs -> Seq(EventRow)] /\ seq' \in [Runs -> Nat]
        /\ \A s \in Runs \ {r} : log'[s] = log[s]
        /\ ok => log'[r] # << >> /\ log'[r][Len(log'[r])].kind = k
    BY <1>1, <1>3, AppendsLog DEF Receive
  <1>6. /\ wire'[r] = Tail(wire[r]) /\ run'[r] = run[r] /\ gateway'[r] = gateway[r]
        /\ chan'[r] = chan[r] /\ task'[r] = task[r] /\ failures'[r] = failures[r]
        /\ consumer[r] = "receive"
        /\ consumer'[r] = IF ok THEN ConvertEvent(k) ELSE "receive"
        /\ disturbed'[r] = (disturbed[r] \/ ~ok)
        /\ ConvertEvent(k) \in {"completed", "failed", "receive"}
        /\ ConvertEvent(k) = "completed" => k = "done"
        /\ ConvertEvent(k) = "failed" => k = "error"
        /\ ConvertEvent(k) = "receive" => k = "note"
    BY <1>1, <1>3 DEF Receive, RunTypes, taskVars, ConvertEvent, Kinds, Terminal
  <1>7. RunTypes' /\ OnlyRun(r)
    BY <1>1, <1>3, <1>5, <1>6 DEF Receive, RunTypes, OnlyRun, taskVars
  <1> HIDE DEF k
  <1>8. gateway[r] \notin {"none", "open", "subscribed"} BY <1>1, <1>2 DEF RunOk, Linked
  <1>9. Linked(r)' BY <1>1, <1>6, <1>8 DEF RunOk, Linked
  <1>10. Truthful(r)' BY <1>1, <1>3, <1>4, <1>5, <1>6 DEF RunOk, Truthful, Linked, Kinds, Terminal
  <1>11. FirstCounts(r)'
    <2> SUFFICES ASSUME ~disturbed'[r], gateway'[r] = "closed", consumer'[r] = "receive"
                 PROVE  wire'[r] # << >> /\ wire'[r][Len(wire'[r])] \in Terminal
      BY <1>1, <1>6 DEF RunOk, FirstCounts
    <2>1. k = "note" /\ wire[r][Len(wire[r])] \in Terminal
      BY <1>1, <1>6 DEF RunOk, FirstCounts
    <2>2. wire[r][1] # wire[r][Len(wire[r])] BY <1>3, <2>1 DEF Terminal
    <2> QED BY <1>2, <1>6, <2>1, <2>2, LastOfTail
  <1> QED BY <1>7, <1>9, <1>10, <1>11 DEF KeptBy, RunOk

LEMMA ConsumerEndsKeeps ==
  ASSUME RunInv, NEW r \in Runs, StreamEnds(r) \/ Expire(r) \/ FinishRun(r)
  PROVE  KeptBy(r)
  <1>1. RunTypes /\ RunOk(r) BY DEF RunInv
  <1>2. RunTypes' /\ OnlyRun(r)
    <2>1. CASE StreamEnds(r) \/ Expire(r)
      BY <1>1, <2>1 DEF StreamEnds, Expire, Disturb, RunTypes, OnlyRun, streamVars, taskVars, logVars
    <2>2. CASE FinishRun(r)
      <3>1. run \in [Runs -> RunRow] /\ run[r] \in RunRow BY <1>1 DEF RunTypes
      <3>2. [run[r] EXCEPT !.status = consumer[r]] \in RunRow
        BY <3>1, <2>2 DEF FinishRun, RunRow
      <3>3. \E v \in RunRow : run' = [run EXCEPT ![r] = v]
        <4>1. run = [run EXCEPT ![r] = run[r]] BY <3>1
        <4>2. \/ run' = run
              \/ run' = [run EXCEPT ![r] = [run[r] EXCEPT !.status = consumer[r]]]
          BY <2>2 DEF FinishRun
        <4> QED BY <3>1, <3>2, <4>1, <4>2
      <3>4. run' \in [Runs -> RunRow] /\ \A s \in Runs \ {r} : run'[s] = run[s] BY <3>1, <3>3
      <3>5. PICK x \in {"finished", "unsaved"} : consumer' = [consumer EXCEPT ![r] = x]
        BY <2>2 DEF FinishRun
      <3>6. UNCHANGED <<streamVars, taskVars, logVars>> BY <2>2 DEF FinishRun
      <3> QED BY <1>1, <3>4, <3>5, <3>6 DEF RunTypes, OnlyRun, streamVars, taskVars, logVars
    <2> QED BY <2>1, <2>2
  <1>3. /\ gateway'[r] = gateway[r] /\ chan'[r] = chan[r] /\ wire'[r] = wire[r]
        /\ task'[r] = task[r] /\ failures'[r] = failures[r] /\ log'[r] = log[r]
        /\ disturbed[r] => disturbed'[r]
    BY <1>1 DEF StreamEnds, Expire, FinishRun, Disturb, RunTypes, streamVars, taskVars, logVars
  <1>4. CASE StreamEnds(r)
    <2>1. disturbed[r] BY <1>1, <1>4 DEF StreamEnds, RunOk, FirstCounts
    <2>2. consumer'[r] = "failed" /\ consumer[r] = "receive" /\ run'[r] = run[r]
          /\ disturbed'[r] = disturbed[r]
      BY <1>1, <1>4 DEF StreamEnds, RunTypes, streamVars
    <2> QED BY <1>1, <1>2, <1>3, <2>1, <2>2 DEF KeptBy, RunOk, Linked, Truthful, FirstCounts
  <1>5. CASE Expire(r)
    <2>1. consumer'[r] = "failed" /\ consumer[r] \in {"connect", "receive"} /\ run'[r] = run[r]
          /\ disturbed'[r]
      BY <1>1, <1>5 DEF Expire, Disturb, RunTypes
    <2> QED BY <1>1, <1>2, <1>3, <2>1 DEF KeptBy, RunOk, Linked, Truthful, FirstCounts
  <1>6. CASE FinishRun(r)
    <2>1. /\ disturbed'[r] = disturbed[r] /\ consumer[r] \in {"completed", "failed"}
          /\ \/ run'[r] = run[r] /\ consumer'[r] = "finished" /\ run[r].status = "deleted"
             \/ run'[r].status = consumer[r] /\ consumer'[r] = "finished"
             \/ run'[r] = run[r] /\ consumer'[r] = "unsaved"
      BY <1>1, <1>6 DEF FinishRun, RunTypes, RunRow, streamVars
    <2> QED BY <1>1, <1>2, <1>3, <2>1 DEF KeptBy, RunOk, Linked, Truthful, FirstCounts
  <1> QED BY <1>4, <1>5, <1>6

LEMMA GatewayOpensKeeps ==
  ASSUME RunInv, NEW r \in Runs, Subscribe(r) \/ PublishTask(r)
  PROVE  KeptBy(r)
  <1>1. RunTypes /\ RunOk(r) BY DEF RunInv
  <1>2. RunTypes' /\ OnlyRun(r)
    <2>1. PICK g \in {"subscribed", "waiting", "closed"}, t \in {task[r], "none", "queued"}, d \in BOOLEAN :
            /\ gateway' = [gateway EXCEPT ![r] = g] /\ task' = [task EXCEPT ![r] = t]
            /\ disturbed' = [disturbed EXCEPT ![r] = d]
      <3>1. task = [task EXCEPT ![r] = task[r]] /\ disturbed = [disturbed EXCEPT ![r] = disturbed[r]]
            /\ disturbed[r] \in BOOLEAN
        BY <1>1 DEF RunTypes
      <3> QED BY <3>1 DEF Subscribe, PublishTask, Disturb, taskVars
    <2>2. t \in {"none", "queued", "think", "exec", "done", "dead", "stuck"} BY <1>1 DEF RunTypes
    <2>3. UNCHANGED <<run, consumer, chan, wire, failures, log, seq>>
      BY DEF Subscribe, PublishTask, taskVars, logVars
    <2> QED BY <1>1, <2>1, <2>2, <2>3 DEF RunTypes, OnlyRun
  <1>3. /\ run'[r] = run[r] /\ consumer'[r] = consumer[r] /\ chan'[r] = chan[r] /\ wire'[r] = wire[r]
        /\ failures'[r] = failures[r] /\ log'[r] = log[r] /\ gateway[r] \in {"open", "subscribed"}
        /\ gateway'[r] \in {"subscribed", "waiting", "closed"}
        /\ gateway'[r] = "closed" => disturbed'[r]
        /\ gateway'[r] # "closed" => disturbed'[r] = disturbed[r]
        /\ gateway'[r] = "subscribed" => task'[r] = task[r]
        /\ task'[r] \in {task[r], "none", "queued"}
        /\ disturbed[r] => disturbed'[r]
    BY <1>1 DEF Subscribe, PublishTask, Disturb, RunTypes, taskVars, logVars
  <1>4. task[r] = "none" /\ chan[r] = << >> /\ wire[r] = << >> /\ failures[r] = 0
    BY <1>1, <1>3 DEF RunOk, Linked
  <1>5. Linked(r)' BY <1>1, <1>3, <1>4 DEF RunOk, Linked
  <1>6. Truthful(r)' BY <1>1, <1>3, <1>4, HasNothing DEF RunOk, Truthful
  <1>7. FirstCounts(r)' BY <1>1, <1>3, <1>4 DEF RunOk, FirstCounts
  <1> QED BY <1>2, <1>5, <1>6, <1>7 DEF KeptBy, RunOk

LEMMA ClosesOnly ==
  ASSUME RunTypes, NEW r \in Runs, CloseStream(r), NEW w \in Seq(Kinds), wire' = [wire EXCEPT ![r] = w],
         UNCHANGED <<run, consumer, taskVars, logVars>>,
         disturbed' = disturbed \/ Disturb(r)
  PROVE  /\ RunTypes' /\ OnlyRun(r)
         /\ gateway'[r] = "closed" /\ chan'[r] = << >> /\ wire'[r] = w
         /\ run'[r] = run[r] /\ consumer'[r] = consumer[r] /\ task'[r] = task[r]
         /\ failures'[r] = failures[r] /\ log'[r] = log[r]
         /\ disturbed[r] => disturbed'[r]
  <1>1. << >> \in Seq(Kinds) OBVIOUS
  <1> QED BY <1>1 DEF RunTypes, OnlyRun, CloseStream, Disturb, taskVars, logVars

LEMMA ForwardKeeps == ASSUME RunInv, NEW r \in Runs, Forward(r) PROVE KeptBy(r)
  <1>1. RunTypes /\ RunOk(r) BY DEF RunInv
  <1> DEFINE c == chan[r]  k == Head(c)  w == Append(wire[r], k)
  <1>2. c \in Seq(Kinds) /\ c # << >> /\ wire[r] \in Seq(Kinds) BY <1>1 DEF Forward, RunTypes
  <1>3. /\ k \in Kinds /\ k = c[1] /\ Has(c, k)
        /\ Tail(c) \in Seq(Kinds) /\ Len(Tail(c)) = Len(c) - 1
        /\ \A i \in 1..Len(Tail(c)) : Tail(c)[i] = c[i + 1]
    BY <1>2, HasTail
  <1>4. \A x \in Kinds : Has(Tail(c), x) => Has(c, x) BY <1>2, HasTail
  <1>5. w \in Seq(Kinds) /\ w # << >> /\ w[Len(w)] = k /\ \A x \in Kinds : Has(w, x) <=> Has(wire[r], x) \/ k = x
    BY <1>2, <1>3, HasAppend
  <1>6. gateway[r] = "waiting" /\ wire' = [wire EXCEPT ![r] = w] /\ wire'[r] = w
    BY <1>1 DEF Forward, RunTypes
  <1>7. "done" \in Kinds /\ "error" \in Kinds /\ "note" \in Kinds /\ Terminal = {"done", "error"}
    BY DEF Kinds, Terminal
  <1>8. k = "done" => failures[r] = 0 \/ disturbed[r]
    <2> SUFFICES ASSUME k = "done", failures[r] # 0, ~disturbed[r] PROVE FALSE OBVIOUS
    <2>1. failures[r] > 0 BY <1>1 DEF RunTypes
    <2>2. PICK i \in 1..Len(c) : c[i] = "error" /\ \A j \in 1..(i - 1) : c[j] # "done"
      BY <1>1, <1>6, <2>1 DEF RunOk, FirstCounts
    <2>3. i # 1 BY <1>3, <2>2
    <2>4. 1 \in 1..(i - 1) BY <2>3
    <2> QED BY <1>3, <2>2, <2>4
  <1>9. CASE k \in Terminal
    <2>1. CloseStream(r) /\ UNCHANGED <<run, consumer, taskVars, logVars>> /\ disturbed' = disturbed
      BY <1>9 DEF Forward
    <2>2. /\ RunTypes' /\ OnlyRun(r)
          /\ gateway'[r] = "closed" /\ chan'[r] = << >> /\ wire'[r] = w
          /\ run'[r] = run[r] /\ consumer'[r] = consumer[r] /\ task'[r] = task[r]
          /\ failures'[r] = failures[r] /\ log'[r] = log[r] /\ disturbed'[r] = disturbed[r]
      BY <1>1, <1>5, <1>6, <2>1, ClosesOnly
    <2> HIDE DEF k, w, c
    <2>3. Linked(r)' BY <1>1, <1>6, <2>2 DEF RunOk, Linked
    <2>4. ~Has(chan'[r], "done") /\ ~Has(chan'[r], "error") BY <2>2, HasNothing
    <2>5. Truthful(r)' BY <1>1, <1>3, <1>5, <1>7, <1>8, <2>2, <2>4 DEF RunOk, Truthful, c
    <2>6. FirstCounts(r)' BY <1>5, <1>9, <2>2 DEF FirstCounts
    <2> QED BY <2>2, <2>3, <2>5, <2>6 DEF KeptBy, RunOk
  <1>10. CASE k \notin Terminal
    <2>1. chan' = [chan EXCEPT ![r] = Tail(c)] /\ gateway' = gateway
      BY <1>10 DEF Forward
    <2>2. RunTypes' /\ OnlyRun(r)
      BY <1>1, <1>3, <1>5, <1>6, <2>1 DEF Forward, RunTypes, OnlyRun, taskVars, logVars
    <2>3. /\ chan'[r] = Tail(c) /\ gateway'[r] = "waiting"
          /\ run'[r] = run[r] /\ consumer'[r] = consumer[r] /\ task'[r] = task[r]
          /\ failures'[r] = failures[r] /\ log'[r] = log[r] /\ disturbed'[r] = disturbed[r]
      BY <1>1, <1>6, <2>1 DEF Forward, RunTypes, taskVars, logVars
    <2> HIDE DEF k, w
    <2>4. Linked(r)' BY <1>1, <1>6, <2>3 DEF RunOk, Linked
    <2>5. Truthful(r)' BY <1>1, <1>4, <1>5, <1>6, <1>7, <1>10, <2>3 DEF RunOk, Truthful
    <2>6. FirstCounts(r)'
      <3> SUFFICES ASSUME ~disturbed[r], failures[r] > 0
                   PROVE  \E i \in 1..Len(Tail(c)) :
                            Tail(c)[i] = "error" /\ \A j \in 1..(i - 1) : Tail(c)[j] # "done"
        BY <2>3 DEF FirstCounts
      <3>1. PICK i \in 1..Len(c) : c[i] = "error" /\ \A j \in 1..(i - 1) : c[j] # "done"
        BY <1>1, <1>6 DEF RunOk, FirstCounts
      <3> HIDE DEF c
      <3>2. Len(c) \in Nat BY <1>2
      <3>3. i # 1 BY <1>3, <1>7, <1>10, <3>1
      <3>4. i - 1 \in 1..Len(Tail(c)) /\ (i - 1) + 1 = i BY <1>3, <3>2, <3>3
      <3>5. Tail(c)[i - 1] = "error" BY <1>3, <3>1, <3>4
      <3>6. ASSUME NEW j \in 1..((i - 1) - 1) PROVE Tail(c)[j] # "done"
        <4>1. j \in 1..Len(Tail(c)) /\ j + 1 \in 1..(i - 1) BY <1>3, <3>2, <3>4
        <4> QED BY <1>3, <3>1, <4>1
      <3> QED BY <3>4, <3>5, <3>6
    <2> QED BY <2>2, <2>4, <2>5, <2>6 DEF KeptBy, RunOk
  <1> QED BY <1>9, <1>10

LEMMA StreamEndsKeeps ==
  ASSUME RunInv, NEW r \in Runs, RunTimeout(r) \/ Break(r) \/ Cancelled(r)
  PROVE  KeptBy(r)
  <1>1. RunTypes /\ RunOk(r) /\ wire[r] \in Seq(Kinds) BY DEF RunInv, RunTypes
  <1>2. /\ CloseStream(r) /\ UNCHANGED <<run, consumer, taskVars, logVars>>
        /\ gateway[r] \notin {"none"}
    BY <1>1 DEF RunTimeout, Break, Cancelled, RunOk, Linked
  <1>3. /\ "error" \in Kinds /\ << >> \in Seq(Kinds) BY DEF Kinds, Terminal
  <1>4. Append(wire[r], "error") \in Seq(Kinds)
        /\ \A x \in Kinds : Has(Append(wire[r], "error"), x) <=> Has(wire[r], x) \/ "error" = x
    BY <1>1, <1>3, HasAppend
  <1>5. PICK w \in Seq(Kinds) :
          /\ wire' = [wire EXCEPT ![r] = w]
          /\ Has(w, "done") => Has(wire[r], "done")
          /\ Disturb(r) \/ (disturbed' = disturbed /\ w = << >> /\ consumer[r] # "receive")
    <2>1. CASE RunTimeout(r)
      <3>1. "done" \in Kinds BY DEF Kinds, Terminal
      <3> QED BY <1>4, <2>1, <3>1 DEF RunTimeout
    <2>2. CASE Break(r)
      <3>1. PICK w \in {wire[r], << >>} : wire' = [wire EXCEPT ![r] = w] BY <2>2 DEF Break
      <3>2. w \in Seq(Kinds) /\ (Has(w, "done") => Has(wire[r], "done"))
        BY <1>1, <1>3, HasNothing
      <3> QED BY <2>2, <3>1, <3>2 DEF Break
    <2>3. CASE Cancelled(r) BY <1>3, <2>3, HasNothing DEF Cancelled
    <2> QED BY <2>1, <2>2, <2>3
  <1>6. /\ RunTypes' /\ OnlyRun(r)
        /\ gateway'[r] = "closed" /\ chan'[r] = << >> /\ wire'[r] = w
        /\ run'[r] = run[r] /\ consumer'[r] = consumer[r] /\ task'[r] = task[r]
        /\ failures'[r] = failures[r] /\ log'[r] = log[r]
        /\ disturbed[r] => disturbed'[r]
    BY <1>1, <1>2, <1>5, ClosesOnly
  <1>7. disturbed'[r] \/ (~Has(w, "error") /\ ~Has(w, "done") /\ consumer[r] # "receive")
    BY <1>1, <1>5, HasNothing DEF Disturb, RunTypes
  <1>8. Linked(r)' BY <1>1, <1>2, <1>6 DEF RunOk, Linked
  <1>9. Truthful(r)'
    <2>1. ~Has(chan'[r], "done") /\ ~Has(chan'[r], "error") BY <1>6, HasNothing
    <2> QED BY <1>1, <1>5, <1>6, <1>7, <2>1 DEF RunOk, Truthful
  <1>10. FirstCounts(r)' BY <1>6, <1>7 DEF FirstCounts
  <1> QED BY <1>6, <1>8, <1>9, <1>10 DEF KeptBy, RunOk

\* A published event is delivered to a gateway that listens, or it is lost.
LEMMA Publishes ==
  ASSUME RunTypes, NEW r \in Runs, NEW k \in Kinds, Publish(r, k)
  PROVE  /\ chan' \in [Runs -> Seq(Kinds)] /\ disturbed' \in [Runs -> BOOLEAN]
         /\ \A s \in Runs \ {r} : chan'[s] = chan[s] /\ disturbed'[s] = disturbed[s]
         /\ chan'[r] \in {chan[r], Append(chan[r], k)}
         /\ disturbed[r] => disturbed'[r]
         /\ gateway[r] \notin {"subscribed", "waiting"} => chan'[r] = chan[r]
         /\ ~disturbed'[r] /\ gateway[r] \in {"subscribed", "waiting"} => chan'[r] = Append(chan[r], k)
  <1> DEFINE t == Append(chan[r], k)
  <1>1. chan \in [Runs -> Seq(Kinds)] /\ disturbed \in [Runs -> BOOLEAN] /\ chan[r] \in Seq(Kinds) BY DEF RunTypes
  <1>2. t \in Seq(Kinds) BY <1>1
  <1>3. \/ /\ disturbed' = disturbed
           /\ chan' = IF gateway[r] \in {"subscribed", "waiting"} THEN [chan EXCEPT ![r] = t] ELSE chan
        \/ disturbed' = [disturbed EXCEPT ![r] = TRUE] /\ chan' = chan
    BY DEF Publish, Disturb
  <1> HIDE DEF t
  <1>4. disturbed' \in [Runs -> BOOLEAN] /\ chan' \in [Runs -> Seq(Kinds)] BY <1>1, <1>2, <1>3
  <1>5. \A s \in Runs \ {r} : chan'[s] = chan[s] /\ disturbed'[s] = disturbed[s] BY <1>1, <1>3
  <1>6. /\ chan'[r] \in {chan[r], t}
        /\ disturbed[r] => disturbed'[r]
        /\ gateway[r] \notin {"subscribed", "waiting"} => chan'[r] = chan[r]
        /\ ~disturbed'[r] /\ gateway[r] \in {"subscribed", "waiting"} => chan'[r] = t
    BY <1>1, <1>3
  <1> QED BY <1>4, <1>5, <1>6 DEF t

LEMMA AttemptKeeps ==
  ASSUME RunInv, NEW r \in Runs, Attempt(r) \/ Answer(r) \/ AttemptFails(r)
  PROVE  KeptBy(r)
  <1>1. RunTypes /\ RunOk(r) /\ chan[r] \in Seq(Kinds) BY DEF RunInv, RunTypes
  <1>2. PICK k \in Kinds, t \in {"queued", "think", "done", "dead"}, f \in Nat :
          /\ Publish(r, k) /\ task' = [task EXCEPT ![r] = t] /\ failures' = [failures EXCEPT ![r] = f]
          /\ k = "done" => t = "done" /\ f = failures[r]
          /\ k = "error" => f > 0
          /\ k # "error" => f = failures[r]
    <2>0. /\ "note" \in Kinds /\ "done" \in Kinds /\ "error" \in Kinds
          /\ failures = [failures EXCEPT ![r] = failures[r]] /\ failures[r] \in Nat
      BY <1>1 DEF Kinds, Terminal, RunTypes
    <2>1. CASE Attempt(r) BY <2>0, <2>1 DEF Attempt
    <2>2. CASE Answer(r) BY <2>0, <2>2 DEF Answer
    <2>3. CASE AttemptFails(r)
      <3>1. failures[r] + 1 \in Nat /\ failures[r] + 1 > 0 BY <2>0
      <3>2. \E t \in {"queued", "dead"} : task' = [task EXCEPT ![r] = t] BY <2>3 DEF AttemptFails
      <3> QED BY <2>0, <2>3, <3>1, <3>2 DEF AttemptFails
    <2> QED BY <2>1, <2>2, <2>3
  <1>3. /\ chan' \in [Runs -> Seq(Kinds)] /\ disturbed' \in [Runs -> BOOLEAN]
        /\ \A s \in Runs \ {r} : chan'[s] = chan[s] /\ disturbed'[s] = disturbed[s]
        /\ chan'[r] \in {chan[r], Append(chan[r], k)}
        /\ disturbed[r] => disturbed'[r]
        /\ gateway[r] \notin {"subscribed", "waiting"} => chan'[r] = chan[r]
        /\ ~disturbed'[r] /\ gateway[r] \in {"subscribed", "waiting"} => chan'[r] = Append(chan[r], k)
    BY <1>1, <1>2, Publishes
  <1>4. UNCHANGED <<run, consumer, gateway, wire, log, seq>> /\ task[r] \in {"queued", "think"}
    BY DEF Attempt, Answer, AttemptFails, logVars
  <1>5. task'[r] = t /\ failures'[r] = f BY <1>1, <1>2 DEF RunTypes
  <1>6. RunTypes' /\ OnlyRun(r)
    BY <1>1, <1>2, <1>3, <1>4 DEF RunTypes, OnlyRun
  <1>7. /\ ~Has(chan[r], "done") /\ ~Has(wire[r], "done") /\ "completed" \notin {consumer[r], run[r].status}
        /\ gateway[r] \notin {"none", "open", "subscribed"}
    BY <1>1, <1>4 DEF RunOk, Truthful, Linked
  <1>8. /\ Append(chan[r], k) # << >>
        /\ \A x \in Kinds : Has(Append(chan[r], k), x) <=> Has(chan[r], x) \/ k = x
    BY <1>1, HasAppend
  <1>9. "done" \in Kinds /\ "error" \in Kinds BY DEF Kinds, Terminal
  <1>10. failures[r] \in Nat /\ (failures[r] > 0 => f > 0)
    <2>1. failures[r] \in Nat BY <1>1 DEF RunTypes
    <2> QED BY <1>2, <2>1
  <1>11. Linked(r)' BY <1>1, <1>2, <1>4, <1>5, <1>7 DEF RunOk, Linked
  <1>12. Truthful(r)'
    <2>1. Has(chan'[r], "done") => t = "done" BY <1>2, <1>3, <1>7, <1>8, <1>9
    <2>2. Has(chan'[r], "error") => f > 0
      BY <1>1, <1>2, <1>3, <1>8, <1>9, <1>10 DEF RunOk, Truthful
    <2> QED BY <1>1, <1>3, <1>4, <1>5, <1>7, <1>10, <2>1, <2>2 DEF RunOk, Truthful
  <1>13. FirstCounts(r)'
    <2> SUFFICES ASSUME ~disturbed'[r], gateway[r] = "waiting", f > 0
                 PROVE  \E i \in 1..Len(chan'[r]) :
                          chan'[r][i] = "error" /\ \A j \in 1..(i - 1) : chan'[r][j] # "done"
      BY <1>1, <1>3, <1>4, <1>5 DEF RunOk, FirstCounts
    <2> DEFINE c == chan[r]  d == Append(c, k)
    <2>1. chan'[r] = d BY <1>3
    <2>2. /\ Len(c) \in Nat /\ Len(d) = Len(c) + 1 /\ d[Len(c) + 1] = k
          /\ \A i \in 1..Len(c) : d[i] = c[i]
      BY <1>1
    <2>3. \A j \in 1..Len(c) : c[j] # "done" BY <1>7 DEF Has
    <2> HIDE DEF c, d
    <2>4. CASE k = "error"
      <3>1. Len(c) + 1 \in 1..Len(d) /\ d[Len(c) + 1] = "error" BY <2>2, <2>4
      <3>2. \A j \in 1..((Len(c) + 1) - 1) : d[j] # "done" BY <2>2, <2>3
      <3> QED BY <2>1, <3>1, <3>2
    <2>5. CASE k # "error"
      <3>1. failures[r] > 0 BY <1>2, <2>5
      <3>2. PICK i \in 1..Len(c) : c[i] = "error"
        BY <1>1, <1>3, <3>1 DEF RunOk, FirstCounts, c
      <3>3. i \in 1..Len(d) /\ d[i] = "error" BY <2>2, <3>2
      <3>4. \A j \in 1..(i - 1) : d[j] # "done" BY <2>2, <2>3, <3>2
      <3> QED BY <2>1, <3>3, <3>4
    <2> QED BY <2>4, <2>5
  <1> QED BY <1>6, <1>11, <1>12, <1>13 DEF KeptBy, RunOk

LEMMA ToolKeeps ==
  ASSUME RunInv, NEW r \in Runs, Exec(r) \/ ExecEnds(r) \/ WorkerDies(r)
  PROVE  KeptBy(r)
  <1>1. RunTypes /\ RunOk(r) BY DEF RunInv
  <1>2. /\ UNCHANGED <<run, consumer, gateway, chan, wire, failures, log, seq>>
        /\ disturbed' = disturbed \/ Disturb(r)
        /\ task[r] \in {"think", "exec"}
        /\ \E t \in {"think", "exec", "stuck"} : task' = [task EXCEPT ![r] = t]
    BY DEF Exec, ExecEnds, WorkerDies, streamVars, logVars
  <1>3. RunTypes' /\ OnlyRun(r)
    <2>1. PICK t \in {"think", "exec", "stuck"} : task' = [task EXCEPT ![r] = t] BY <1>2
    <2>2. disturbed' \in [Runs -> BOOLEAN] /\ \A s \in Runs \ {r} : disturbed'[s] = disturbed[s]
      BY <1>1, <1>2 DEF RunTypes, Disturb
    <2> QED BY <1>1, <1>2, <2>1, <2>2 DEF RunTypes, OnlyRun
  <1>4. task'[r] \in {"think", "exec", "stuck"} /\ (disturbed[r] => disturbed'[r])
    BY <1>1, <1>2 DEF RunTypes, Disturb
  <1> QED BY <1>1, <1>2, <1>3, <1>4 DEF KeptBy, RunOk, Linked, Truthful, FirstCounts

LEMMA CreateRunKeeps ==
  ASSUME RunInv, Inv, NEW q \in Requests, NEW r \in Runs, CreateRun(q, r)
  PROVE  KeptBy(r)
  <1>1. RunTypes /\ RunOk(r) BY DEF RunInv
  <1> DEFINE v == [status |-> "running", agent |-> req[q].agent]
  <1>2. v \in RunRow /\ v.status = "running" BY DEF Inv, ReqType, RunRow
  <1>3. /\ run' = [run EXCEPT ![r] = v] /\ consumer' = [consumer EXCEPT ![r] = "connect"]
        /\ UNCHANGED <<gateway, chan, wire, disturbed, task, failures, log, seq>>
        /\ run[r].status = "none"
    BY DEF CreateRun, streamVars, taskVars, logVars
  <1> HIDE DEF v
  <1>4. RunTypes' /\ OnlyRun(r) BY <1>1, <1>2, <1>3 DEF RunTypes, OnlyRun
  <1>5. run'[r] = v /\ consumer'[r] = "connect" BY <1>1, <1>3 DEF RunTypes
  <1>6. consumer[r] = "none" BY <1>1, <1>3 DEF RunOk, Linked
  <1> QED BY <1>1, <1>2, <1>3, <1>4, <1>5, <1>6 DEF KeptBy, RunOk, Linked, Truthful, FirstCounts

\* The steps that touch every run: rows are deleted, or goroutines die.
LEMMA DeleteRowsKeeps ==
  ASSUME RunInv, NEW q \in Requests, DeleteAgentRow(q)
  PROVE  RunInv'
  <1>1. RunTypes BY DEF RunInv
  <1>2. UNCHANGED <<consumer, gateway, chan, wire, disturbed, task, failures, log, seq>>
    BY DEF DeleteAgentRow, streamVars, taskVars, logVars
  <1>3. ASSUME NEW s \in Runs
        PROVE  /\ [run[s] EXCEPT !.status = "deleted"] \in RunRow
               /\ [run[s] EXCEPT !.status = "deleted"].status = "deleted" /\ run[s] \in RunRow
    <2>1. run[s] \in RunRow BY <1>1 DEF RunTypes
    <2> QED BY <2>1 DEF RunRow
  <1>4. run' = [s \in Runs |-> IF run[s].agent = req[q].agent /\ run[s].status # "none"
                                 THEN [run[s] EXCEPT !.status = "deleted"] ELSE run[s]]
    BY DEF DeleteAgentRow
  <1>5. /\ run' \in [Runs -> RunRow]
        /\ \A s \in Runs : run'[s] = run[s] \/ (run[s].status # "none" /\ run'[s].status = "deleted")
    BY <1>3, <1>4
  <1>6. RunTypes' BY <1>1, <1>2, <1>5 DEF RunTypes
  <1>7. ASSUME NEW s \in Runs PROVE RunOk(s)'
    <2>1. RunOk(s) BY DEF RunInv
    <2> QED BY <1>2, <1>5, <2>1 DEF RunOk, Linked, Truthful, FirstCounts
  <1> QED BY <1>6, <1>7 DEF RunInv

LEMMA CrashKeepsRuns == RunInv /\ Crash => RunInv'
  <1> SUFFICES ASSUME RunInv, Crash PROVE RunInv' OBVIOUS
  <1>1. RunTypes BY DEF RunInv
  <1>2. UNCHANGED <<run, gateway, chan, wire, disturbed, task, failures, log, seq>>
    BY DEF Crash, streamVars, taskVars, logVars
  <1>3. \A s \in Runs : \/ consumer'[s] = consumer[s]
                        \/ consumer'[s] = "lost" /\ consumer[s] \notin {"none", "finished"}
    BY DEF Crash
  <1>4. RunTypes'
    <2>1. DOMAIN consumer' = Runs /\ consumer' = [s \in Runs |-> consumer'[s]] BY DEF Crash
    <2> QED BY <1>1, <1>2, <1>3, <2>1 DEF RunTypes
  <1>5. ASSUME NEW s \in Runs PROVE RunOk(s)'
    <2>1. RunOk(s) BY DEF RunInv
    <2>2. consumer'[s] = consumer[s] \/ (consumer'[s] = "lost" /\ consumer[s] \notin {"none", "finished"})
      BY <1>3
    <2> QED BY <1>2, <2>1, <2>2 DEF RunOk, Linked, Truthful, FirstCounts
  <1> QED BY <1>4, <1>5 DEF RunInv

\* The variables of the runs the invariant speaks of.
runVars == <<run, consumer, gateway, chan, wire, disturbed, task, failures, log, seq>>

LEMMA InitRunInv == Init => RunInv
  <1> SUFFICES ASSUME Init PROVE RunInv OBVIOUS
  <1>1. Idle.agent \in Agents /\ << >> \in Seq(Kinds) /\ << >> \in Seq(EventRow)
    BY IdleType
  <1>2. [status |-> "none", agent |-> Idle.agent] \in RunRow BY <1>1 DEF RunRow
  <1>3. RunTypes BY <1>1, <1>2 DEF Init, RunTypes
  <1>4. ASSUME NEW r \in Runs PROVE RunOk(r)
    BY HasNothing DEF Init, RunOk, Linked, Truthful, FirstCounts
  <1> QED BY <1>3, <1>4 DEF RunInv

LEMMA NextRunInv == Inv /\ RunInv /\ [Next]_vars => RunInv'
  <1> SUFFICES ASSUME Inv, RunInv, [Next]_vars PROVE RunInv' OBVIOUS
  <1>1. CASE UNCHANGED runVars
    <2>1. RunTypes' BY <1>1 DEF RunInv, RunTypes, runVars
    <2>2. ASSUME NEW r \in Runs PROVE RunOk(r)'
      <3>1. RunOk(r) BY DEF RunInv
      <3> QED BY <1>1, <3>1 DEF RunOk, Linked, Truthful, FirstCounts, runVars
    <2> QED BY <2>1, <2>2 DEF RunInv
  <1>2. ASSUME NEW r \in Runs, KeptBy(r) PROVE RunInv' BY <1>2, OneRunKeeps DEF KeptBy
  <1>3. CASE UNCHANGED vars BY <1>1, <1>3 DEF vars, runVars, streamVars, taskVars, logVars
  <1>4. CASE RegistryPart BY <1>1, <1>4 DEF RegistryPart, runVars, streamVars, taskVars, logVars
  <1>5. CASE Crash BY <1>5, CrashKeepsRuns
  <1>6. CASE RequestPart
    <2>1. PICK q \in Requests : \/ DeleteAgentRow(q) \/ CreateRunFails(q)
                                \/ \E a \in Agents : StartRun(q, a)
                                \/ \E r \in Runs : CreateRun(q, r)
      BY <1>6 DEF RequestPart
    <2>2. CASE DeleteAgentRow(q) BY <2>2, DeleteRowsKeeps
    <2>3. CASE CreateRunFails(q) \/ \E a \in Agents : StartRun(q, a)
      BY <1>1, <2>3 DEF CreateRunFails, StartRun, runVars, streamVars, taskVars, logVars
    <2>4. ASSUME NEW r \in Runs, CreateRun(q, r) PROVE RunInv' BY <1>2, <2>4, CreateRunKeeps
    <2> QED BY <2>1, <2>2, <2>3, <2>4
  <1>7. ASSUME NEW r \in Runs,
               ConsumerStep(r) \/ Expire(r) \/ GatewayStep(r) \/ Break(r) \/ WorkerStep(r) \/ ReaderStep(r)
        PROVE  RunInv'
    <2>1. CASE Connect(r) BY <1>2, <2>1, ConnectKeeps
    <2>2. ASSUME NEW ok \in BOOLEAN, Receive(r, ok) PROVE RunInv' BY <1>2, <2>2, ReceiveKeeps
    <2>3. CASE StreamEnds(r) \/ Expire(r) \/ FinishRun(r) BY <1>2, <2>3, ConsumerEndsKeeps
    <2>4. CASE Subscribe(r) \/ PublishTask(r) BY <1>2, <2>4, GatewayOpensKeeps
    <2>5. CASE Forward(r) BY <1>2, <2>5, ForwardKeeps
    <2>6. CASE RunTimeout(r) \/ Break(r) \/ Cancelled(r) BY <1>2, <2>6, StreamEndsKeeps
    <2>7. CASE Attempt(r) \/ Answer(r) \/ AttemptFails(r) BY <1>2, <2>7, AttemptKeeps
    <2>8. CASE Exec(r) \/ ExecEnds(r) \/ WorkerDies(r) BY <1>2, <2>8, ToolKeeps
    <2>9. CASE ReaderStep(r)
      BY <1>1, <2>9 DEF ReaderStep, Follow, Poll, runVars, streamVars, taskVars, logVars
    <2> QED BY <1>7, <2>1, <2>2, <2>3, <2>4, <2>5, <2>6, <2>7, <2>8, <2>9
            DEF ConsumerStep, GatewayStep, WorkerStep
  <1> QED BY <1>3, <1>4, <1>5, <1>6, <1>7 DEF Next

LEMMA AlwaysRunInv == Spec => []RunInv
  BY InitRunInv, NextRunInv, AlwaysInv, PTL DEF Spec

\* The row of a run carries the verdict of its first attempt: consumeRun and
\* FinishRun write "completed" only after an answer, with no failed attempt before
\* it and the "done" event stored, and "failed" only after a failed attempt, or
\* else a fault has touched the run. For any number of runs and attempts.
THEOREM RowsTellTheFirstVerdict == Spec => []RowIsFirstVerdict
  <1>1. RunInv => RowIsFirstVerdict BY DEF RunInv, RunOk, Truthful, RowIsFirstVerdict
  <1> QED BY <1>1, AlwaysRunInv, PTL

\* FinishRun writes its row without looking at what it holds, and yet no step takes
\* a verdict back: each run has one goroutine, which owns the row until it has
\* finished, and a row deleted under it stays deleted.
THEOREM VerdictsAreFinal == Spec => VerdictIsFinal
  <1> DEFINE Final == \A r \in Runs :
               run[r].status \in {"completed", "failed", "deleted"} => run'[r].status \in {run[r].status, "deleted"}
  <1>1. RunInv /\ [Next]_vars => [Final]_vars
    <2> SUFFICES ASSUME RunInv, Next, NEW r \in Runs, run[r].status \in {"completed", "failed", "deleted"}
                 PROVE  run'[r].status \in {run[r].status, "deleted"}
      OBVIOUS
    <2>1. RunTypes /\ Linked(r) BY DEF RunInv, RunOk
    <2>2. ASSUME NEW q \in Requests, DeleteAgentRow(q) PROVE run'[r].status \in {run[r].status, "deleted"}
      <3>1. run[r] \in RunRow BY <2>1 DEF RunTypes
      <3>2. [run[r] EXCEPT !.status = "deleted"].status = "deleted" BY <3>1 DEF RunRow
      <3> QED BY <2>2, <3>2 DEF DeleteAgentRow
    <2>3. ASSUME NEW q \in Requests, NEW s \in Runs, CreateRun(q, s)
          PROVE  run'[r] = run[r]
      <3>1. r # s BY <2>3 DEF CreateRun
      <3> QED BY <2>1, <2>3, <3>1 DEF CreateRun, RunTypes
    <2>4. ASSUME NEW s \in Runs, FinishRun(s) PROVE run'[r] = run[r]
      <3>1. CASE s = r
        <4>1. run[r].status = "deleted" BY <2>1, <2>4, <3>1 DEF FinishRun, Linked
        <4> QED BY <2>4, <3>1, <4>1 DEF FinishRun
      <3>2. CASE s # r BY <2>1, <2>4, <3>2 DEF FinishRun, RunTypes
      <3> QED BY <3>1, <3>2
    <2>5. CASE run' = run BY <2>5
    <2>6. ASSUME NEW s \in Runs,
                 ConsumerStep(s) \/ Expire(s) \/ GatewayStep(s) \/ Break(s) \/ WorkerStep(s) \/ ReaderStep(s),
                 ~FinishRun(s)
          PROVE  run' = run
      BY <2>6 DEF ConsumerStep, Connect, Receive, StreamEnds, Expire, GatewayStep, Subscribe, PublishTask,
                  Forward, RunTimeout, Cancelled, Break, WorkerStep, Attempt, Exec, ExecEnds, Answer,
                  AttemptFails, WorkerDies, ReaderStep, Follow, Poll
    <2>7. CASE RegistryPart \/ Crash BY <2>5, <2>7 DEF RegistryPart, Crash
    <2>8. CASE RequestPart
      BY <2>2, <2>3, <2>5, <2>8 DEF RequestPart, CreateRunFails, StartRun
    <2> QED BY <2>4, <2>5, <2>6, <2>7, <2>8 DEF Next
  <1>2. Spec => [][Final]_vars BY <1>1, AlwaysRunInv, PTL DEF Spec
  <1> QED BY <1>2 DEF VerdictIsFinal

-----------------------------------------------------------------------------
(* The browser's events: what the loop of EventStore.After finds, and that *)
(* what was received is always a beginning of the log.                     *)

ReaderRow == [open : BOOLEAN, reads : Nat, last : Nat, got : Seq(Nat)]

\* Ids are handed out by INCR: they grow along the list, holes and all.
Ascending(r) ==
  /\ \A i \in 1..Len(log[r]) : log[r][i].id \in 1..seq[r]
  /\ \A i, j \in 1..Len(log[r]) : i < j => log[r][i].id < log[r][j].id

\* The browser has received the first n events.
HasRead(r, n) ==
  /\ reader[r].got = [k \in 1..n |-> log[r][k].id]
  /\ reader[r].last = IF n = 0 THEN 0 ELSE log[r][n].id

ReadOk(r) == Ascending(r) /\ \E n \in 0..Len(log[r]) : HasRead(r, n)

ReadInv == reader \in [Runs -> ReaderRow] /\ \A r \in Runs : ReadOk(r)

\* Induction and recursion up to n.
LEMMA Induction ==
  ASSUME NEW n \in Nat, NEW Good, 0 \in Good,
         \A i \in 1..n : i - 1 \in Good => i \in Good
  PROVE  \A i \in 0..n : i \in Good
  <1> DEFINE Bad == {i \in 0..n : i \notin Good}
  <1> SUFFICES ASSUME Bad # {} PROVE FALSE OBVIOUS
  <1>1. Bad \subseteq Nat OBVIOUS
  <1>2. PICK m \in Bad : \A j \in Nat : j < m => j \notin Bad
    <2>1. IsWellFoundedOn(OpToRel(<, Nat), Nat) BY NatLessThanWellFounded
    <2>2. PICK m \in Bad : \A j \in Nat : <<j, m>> \in OpToRel(<, Nat) => ~(j \in Bad)
      BY <1>1, <2>1, WFMin
    <2>3. \A j \in Nat : j < m => <<j, m>> \in OpToRel(<, Nat) BY <1>1 DEF OpToRel
    <2> QED BY <2>2, <2>3
  <1>3. m \in 0..n /\ m \notin Good OBVIOUS
  <1>4. m # 0 BY <1>3
  <1>5. m \in 1..n /\ m - 1 \in 0..n /\ m - 1 \in Nat /\ m - 1 < m BY <1>3, <1>4
  <1>6. m - 1 \in Good BY <1>2, <1>5
  <1> QED BY <1>3, <1>5, <1>6

\* f is the function that starts with base and goes on with step, up to n.
Follows(f, n, base, step) ==
  f = [i \in 0..n |-> IF i = 0 THEN base ELSE step[i][f[i - 1]]]

LEMMA Recursion ==
  ASSUME NEW R, NEW base \in R, NEW n \in Nat, NEW step \in [1..n -> [R -> R]]
  PROVE  \E f \in [0..n -> R] : Follows(f, n, base, step)
  <1> DEFINE Good == {m \in 0..n : \E f \in [0..m -> R] :
                        \A i \in 0..m : f[i] = IF i = 0 THEN base ELSE step[i][f[i - 1]]}
  <1>1. 0 \in Good
    <2> DEFINE f == [i \in 0..0 |-> base]
    <2>1. f \in [0..0 -> R] /\ \A i \in 0..0 : f[i] = IF i = 0 THEN base ELSE step[i][f[i - 1]]
      OBVIOUS
    <2> HIDE DEF f
    <2>2. 0 \in 0..n OBVIOUS
    <2> QED BY <2>1, <2>2
  <1>2. ASSUME NEW m \in 1..n, m - 1 \in Good PROVE m \in Good
    <2>1. PICK f \in [0..(m - 1) -> R] :
            \A i \in 0..(m - 1) : f[i] = IF i = 0 THEN base ELSE step[i][f[i - 1]]
      BY <1>2
    <2> DEFINE last == step[m][f[m - 1]]
               g == [i \in 0..m |-> IF i = m THEN last ELSE f[i]]
    <2>2. last \in R BY <2>1
    <2> HIDE DEF last
    <2>3. g \in [0..m -> R] BY <2>1, <2>2
    <2>4. \A i \in 0..(m - 1) : g[i] = f[i] /\ (i # 0 => g[i - 1] = f[i - 1]) OBVIOUS
    <2>5. g[m] = last /\ g[m - 1] = f[m - 1] OBVIOUS
    <2> HIDE DEF g
    <2>6. ASSUME NEW i \in 0..m PROVE g[i] = IF i = 0 THEN base ELSE step[i][g[i - 1]]
      <3>1. CASE i = m BY <2>5, <3>1 DEF last
      <3>2. CASE i # m
        <4>1. i \in 0..(m - 1) BY <3>2
        <4> QED BY <2>1, <2>4, <4>1
      <3> QED BY <3>1, <3>2
    <2> QED BY <2>3, <2>6
  <1> HIDE DEF Good
  <1>3. n \in Good
    <2>1. \A i \in 1..n : i - 1 \in Good => i \in Good BY <1>2
    <2>2. \A i \in 0..n : i \in Good BY <1>1, <2>1, Induction
    <2> QED BY <2>2
  <1>4. PICK f \in [0..n -> R] : \A i \in 0..n : f[i] = IF i = 0 THEN base ELSE step[i][f[i - 1]]
    BY <1>3 DEF Good
  <1> QED BY <1>4 DEF Follows

\* picked is the loop of EventsWith over the list s.
Picks(picked, s, ids) ==
  picked = [i \in 0..Len(s) |->
              IF i = 0 THEN << >>
              ELSE IF s[i].id \in ids THEN Append(picked[i - 1], s[i]) ELSE picked[i - 1]]

LEMMA EventsWithLoops ==
  ASSUME NEW r \in Runs, log[r] \in Seq(EventRow), NEW ids
  PROVE  \E picked : Picks(picked, log[r], ids) /\ EventsWith(r, ids) = picked[Len(log[r])]
  <1>1. PICK s \in Seq(EventRow) : s = log[r] OBVIOUS
  <1> DEFINE n == Len(s)
             R == Seq(EventRow)
             Step(i, q) == IF s[i].id \in ids THEN Append(q, s[i]) ELSE q
             step == [i \in 1..n |-> [q \in R |-> Step(i, q)]]
             Eq(g) == Picks(g, s, ids)
             g == CHOOSE g : Eq(g)
  <1>2. n \in Nat /\ << >> \in R OBVIOUS
  <1>3. \A i \in 1..n, q \in R : Step(i, q) \in R OBVIOUS
  <1>4. \E f : Eq(f)
    <2> HIDE DEF Step, R, n
    <2>1. step \in [1..n -> [R -> R]] BY <1>3
    <2>2. \A i \in 1..n : \A q \in R : step[i][q] = Step(i, q) OBVIOUS
    <2> HIDE DEF step
    <2>3. PICK f \in [0..n -> R] : Follows(f, n, << >>, step) BY <1>2, <2>1, Recursion
    <2>4. \A i \in 0..n : f[i] = IF i = 0 THEN << >> ELSE Step(i, f[i - 1])
      <3>1. \A i \in 1..n : f[i - 1] \in R BY <1>2
      <3>2. \A i \in 0..n : f[i] = IF i = 0 THEN << >> ELSE step[i][f[i - 1]] BY <2>3 DEF Follows
      <3>3. \A i \in 0..n : i # 0 => i \in 1..n BY <1>2
      <3> QED BY <2>2, <3>1, <3>2, <3>3
    <2>5. f = [i \in 0..n |-> IF i = 0 THEN << >> ELSE Step(i, f[i - 1])] BY <2>4
    <2> QED BY <2>5 DEF Step, Picks, n
  <1>5. Eq(g) BY <1>4, Zenon
  <1>6. EventsWith(r, ids) = g[n] BY <1>1 DEF EventsWith, Picks
  <1> QED BY <1>1, <1>5, <1>6

\* If the events with these ids are those after place lo and up to place hi, the
\* loop finds exactly them, in their order.
Spans(r, ids, lo, hi) ==
  /\ lo <= hi /\ hi <= Len(log[r])
  /\ \A k \in 1..Len(log[r]) : log[r][k].id \in ids <=> lo < k /\ k <= hi

LEMMA EventsWithFinds ==
  ASSUME NEW r \in Runs, log[r] \in Seq(EventRow), NEW ids,
         NEW lo \in Nat, NEW hi \in Nat, Spans(r, ids, lo, hi)
  PROVE  /\ EventsWith(r, ids) \in Seq(EventRow) /\ Len(EventsWith(r, ids)) = hi - lo
         /\ \A k \in 1..(hi - lo) : EventsWith(r, ids)[k] = log[r][lo + k]
  <1>1. PICK s \in Seq(EventRow) : s = log[r] OBVIOUS
  <1>2. PICK n \in Nat : n = Len(s) OBVIOUS
  <1>range. lo <= hi /\ hi <= n /\ \A k \in 1..n : s[k].id \in ids <=> lo < k /\ k <= hi
    BY <1>1, <1>2 DEF Spans
  <1>3. PICK f : Picks(f, s, ids) /\ EventsWith(r, ids) = f[n] BY <1>1, <1>2, EventsWithLoops
  <1>4. \A i \in 0..n : f[i] = IF i = 0 THEN << >>
                               ELSE IF s[i].id \in ids THEN Append(f[i - 1], s[i]) ELSE f[i - 1]
    BY <1>2, <1>3 DEF Picks
  <1> DEFINE Found(i) == IF i <= lo THEN 0 ELSE IF i <= hi THEN i - lo ELSE hi - lo
             Good == {i \in 0..n : /\ f[i] \in Seq(EventRow) /\ Len(f[i]) = Found(i)
                                   /\ \A k \in 1..Found(i) : f[i][k] = s[lo + k]}
  <1>5. 0 \in Good
    <2>1. f[0] = << >> BY <1>2, <1>4
    <2>2. f[0] \in Seq(EventRow) /\ Len(f[0]) = 0 BY <2>1
    <2>3. Found(0) = 0 OBVIOUS
    <2>4. 1..Found(0) = {} BY <2>3
    <2>5. 0 \in 0..n BY <1>2
    <2> HIDE DEF Found
    <2> QED BY <2>2, <2>3, <2>4, <2>5
  <1>6. ASSUME NEW i \in 1..n, i - 1 \in Good PROVE i \in Good
    <2>1. i \in 0..n /\ i # 0 /\ i \in Nat /\ s[i] \in EventRow BY <1>2, <1>6
    <2>2. PICK q \in Seq(EventRow) : q = f[i - 1] BY <1>6
    <2>3. Len(q) = Found(i - 1) /\ \A k \in 1..Found(i - 1) : q[k] = s[lo + k] BY <1>6, <2>2
    <2>4. CASE lo < i /\ i <= hi
      <3>1. f[i] = Append(q, s[i]) BY <1>range, <1>4, <2>1, <2>2, <2>4
      <3>2. Found(i) = i - lo /\ Found(i - 1) = i - lo - 1 BY <2>1, <2>4
      <3>3. /\ f[i] \in Seq(EventRow) /\ Len(f[i]) = i - lo /\ f[i][i - lo] = s[i]
            /\ \A k \in 1..(i - lo - 1) : f[i][k] = q[k]
        <4>1. Len(q) = i - lo - 1 BY <2>3, <3>2
        <4>2. /\ Append(q, s[i]) \in Seq(EventRow) /\ Len(Append(q, s[i])) = Len(q) + 1
              /\ Append(q, s[i])[Len(q) + 1] = s[i]
              /\ \A k \in 1..Len(q) : Append(q, s[i])[k] = q[k]
          BY <2>1
        <4>3. Len(q) + 1 = i - lo BY <2>1, <4>1
        <4> QED BY <3>1, <4>1, <4>2, <4>3
      <3>4. ASSUME NEW k \in 1..(i - lo) PROVE f[i][k] = s[lo + k]
        <4>1. CASE k = i - lo BY <2>1, <3>3, <4>1
        <4>2. CASE k # i - lo
          <5>1. k \in 1..(i - lo - 1) BY <2>1, <4>2
          <5> QED BY <2>3, <3>2, <3>3, <5>1
        <4> QED BY <4>1, <4>2
      <3> QED BY <2>1, <3>2, <3>3, <3>4
    <2>5. CASE ~(lo < i /\ i <= hi)
      <3>1. f[i] = q BY <1>range, <1>4, <2>1, <2>2, <2>5
      <3>2. Found(i) = Found(i - 1) BY <1>range, <2>1, <2>5
      <3> QED BY <2>1, <2>3, <3>1, <3>2
    <2> QED BY <2>4, <2>5
  <1> HIDE DEF Good
  <1>7. \A i \in 0..n : i \in Good BY <1>5, <1>6, Induction
  <1>8. n \in Good /\ Found(n) = hi - lo BY <1>range, <1>7
  <1> QED BY <1>1, <1>3, <1>8 DEF Good

\* last divides the list into what has been received and what has not.
LEMMA LastDivides ==
  ASSUME RunTypes, NEW r \in Runs, Ascending(r), NEW n \in 0..Len(log[r]), HasRead(r, n)
  PROVE  /\ Spans(r, 0..reader[r].last, 0, n)
         /\ Spans(r, Nat \ (0..reader[r].last), n, Len(log[r]))
  <1>1. PICK s \in Seq(EventRow) : s = log[r] BY DEF RunTypes
  <1>2. PICK m \in Nat : m = Len(s) OBVIOUS
  <1>3. PICK last : last = reader[r].last OBVIOUS
  <1>4. \A k \in 1..m : s[k].id \in Nat /\ s[k].id > 0
    BY <1>1, <1>2 DEF Ascending, RunTypes
  <1>5. \A i, j \in 1..m : i < j => s[i].id < s[j].id BY <1>1, <1>2 DEF Ascending
  <1>6. last = IF n = 0 THEN 0 ELSE s[n].id BY <1>1, <1>3 DEF HasRead
  <1>7. last \in Nat BY <1>1, <1>2, <1>4, <1>6
  <1>8. ASSUME NEW k \in 1..m PROVE s[k].id <= last <=> k <= n
    <2>1. CASE n = 0 BY <1>4, <1>6, <2>1
    <2>2. CASE n # 0
      <3>1. n \in 1..m /\ last = s[n].id BY <1>1, <1>2, <1>6, <2>2
      <3>2. CASE k < n BY <1>4, <1>5, <3>1, <3>2
      <3>3. CASE k = n BY <1>4, <3>1, <3>3
      <3>4. CASE k > n
        <4>1. s[n].id < s[k].id BY <1>5, <3>1, <3>4
        <4> QED BY <1>4, <3>1, <3>4, <4>1
      <3> QED BY <3>1, <3>2, <3>3, <3>4
    <2> QED BY <2>1, <2>2
  <1>9. \A k \in 1..m : (s[k].id \in 0..last <=> 0 < k /\ k <= n)
                       /\ (s[k].id \in Nat \ (0..last) <=> n < k /\ k <= m)
    BY <1>1, <1>2, <1>4, <1>7, <1>8
  <1>10. n \in Nat /\ 0 <= n /\ n <= m BY <1>1, <1>2
  <1> QED BY <1>1, <1>2, <1>3, <1>9, <1>10 DEF Spans

LEMMA ReadIsExact == RunTypes /\ ReadInv => ReplayExact
  <1> SUFFICES ASSUME RunTypes, ReadInv, NEW r \in Runs,
                      NEW upTo, upTo = EventsWith(r, 0..reader[r].last)
               PROVE  reader[r].got = [k \in 1..Len(upTo) |-> upTo[k].id]
    BY DEF ReplayExact
  <1>1. Ascending(r) BY DEF ReadInv, ReadOk
  <1>2. PICK n \in 0..Len(log[r]) : HasRead(r, n) BY DEF ReadInv, ReadOk
  <1>3. log[r] \in Seq(EventRow) /\ Len(log[r]) \in Nat BY DEF RunTypes
  <1>4. n \in Nat /\ 0 <= n /\ n <= Len(log[r]) /\ n - 0 = n BY <1>3
  <1>5. Spans(r, 0..reader[r].last, 0, n) BY <1>1, <1>2, LastDivides
  <1>6. Len(upTo) = n - 0 /\ \A k \in 1..(n - 0) : upTo[k] = log[r][0 + k]
    BY <1>3, <1>4, <1>5, EventsWithFinds
  <1>7. Len(upTo) = n /\ \A k \in 1..n : upTo[k] = log[r][k] BY <1>4, <1>6
  <1>8. reader[r].got = [k \in 1..n |-> log[r][k].id] BY <1>2 DEF HasRead
  <1> QED BY <1>7, <1>8

\* Storing an event leaves what the browser has a beginning of the list.
LEMMA StoreKeepsReads ==
  ASSUME RunTypes, ReadInv, NEW r \in Runs, NEW kind \in Kinds, NEW ok \in BOOLEAN,
         AppendEvent(r, kind, ok), reader' = reader
  PROVE  ReadInv'
  <1>1. PICK s \in Seq(EventRow) : s = log[r] BY DEF RunTypes
  <1>2. PICK m \in Nat : m = Len(s) OBVIOUS
  <1>3. PICK c \in Nat : c = seq[r] BY DEF RunTypes
  <1>4. PICK e \in EventRow : e = [id |-> c + 1, kind |-> kind]
    <2>1. c + 1 \in Nat OBVIOUS
    <2>2. [id |-> c + 1, kind |-> kind] \in EventRow BY <2>1 DEF EventRow
    <2> QED BY <2>2, Zenon
  <1>5. /\ log'[r] = s \/ (log'[r] = Append(s, e) /\ seq'[r] = c + 1)
        /\ seq'[r] \in {c, c + 1}
        /\ \A q \in Runs \ {r} : log'[q] = log[q] /\ seq'[q] = seq[q]
    <2>1. \/ log' = log
          \/ log' = [log EXCEPT ![r] = Append(s, e)] /\ seq' = [seq EXCEPT ![r] = c + 1]
      BY <1>1, <1>3, <1>4, Zenon DEF AppendEvent, logVars
    <2>2. seq' = seq \/ seq' = [seq EXCEPT ![r] = c + 1]
      BY <1>3, Zenon DEF AppendEvent, logVars
    <2>3. log \in [Runs -> Seq(EventRow)] /\ seq \in [Runs -> Nat] BY DEF RunTypes
    <2> QED BY <1>1, <1>3, <2>1, <2>2, <2>3
  <1>6. ReadOk(r) BY DEF ReadInv
  <1>7. /\ \A i \in 1..m : s[i].id \in 1..c
        /\ \A i, j \in 1..m : i < j => s[i].id < s[j].id
    BY <1>1, <1>2, <1>3, <1>6 DEF ReadOk, Ascending
  <1>8. ReadOk(r)'
    <2>1. PICK t : t = log'[r] OBVIOUS
    <2>2. PICK l \in Nat : /\ l = Len(t) /\ l \in {m, m + 1}
                           /\ \A k \in 1..m : t[k] = s[k]
                           /\ l = m + 1 => t[m + 1] = e /\ seq'[r] = c + 1
      <3>1. CASE log'[r] = s BY <1>2, <2>1, <3>1
      <3>2. CASE log'[r] = Append(s, e) /\ seq'[r] = c + 1
        <4>1. Len(t) = m + 1 /\ t[m + 1] = e /\ \A k \in 1..m : t[k] = s[k] BY <1>2, <2>1, <3>2
        <4> QED BY <1>2, <3>2, <4>1
      <3> QED BY <1>5, <3>1, <3>2
    <2>3. e.id = c + 1 BY <1>4
    <2>4. \A i \in 1..l : t[i].id \in 1..seq'[r]
      <3> SUFFICES ASSUME NEW i \in 1..l PROVE t[i].id \in 1..seq'[r] OBVIOUS
      <3>1. CASE i \in 1..m BY <1>5, <1>7, <2>2, <3>1
      <3>2. CASE i \notin 1..m
        <4>1. i = m + 1 /\ l = m + 1 BY <2>2, <3>2
        <4> QED BY <2>2, <2>3, <4>1
      <3> QED BY <3>1, <3>2
    <2>5. \A i, j \in 1..l : i < j => t[i].id < t[j].id
      <3> SUFFICES ASSUME NEW i \in 1..l, NEW j \in 1..l, i < j PROVE t[i].id < t[j].id OBVIOUS
      <3>1. i \in 1..m BY <2>2
      <3>2. CASE j \in 1..m BY <1>7, <2>2, <3>1, <3>2
      <3>3. CASE j \notin 1..m
        <4>1. j = m + 1 /\ l = m + 1 BY <2>2, <3>3
        <4>2. t[i].id \in 1..c /\ t[j].id = c + 1 BY <1>7, <2>2, <2>3, <3>1, <4>1
        <4> QED BY <4>2
      <3> QED BY <3>2, <3>3
    <2>6. PICK n \in 0..m : HasRead(r, n) BY <1>1, <1>2, <1>6 DEF ReadOk
    <2>7. HasRead(r, n)' /\ n \in 0..l
      <3>1. \A k \in 1..n : t[k] = s[k] BY <2>2
      <3>2. [k \in 1..n |-> t[k].id] = [k \in 1..n |-> s[k].id] BY <3>1
      <3>3. n # 0 => t[n] = s[n] BY <3>1
      <3>4. HasRead(r, n)' BY <1>1, <2>1, <2>6, <3>2, <3>3 DEF HasRead
      <3> QED BY <2>2, <3>4
    <2> QED BY <2>1, <2>2, <2>4, <2>5, <2>7 DEF ReadOk, Ascending
  <1>9. ASSUME NEW q \in Runs \ {r} PROVE ReadOk(q)'
    <2>1. ReadOk(q) BY DEF ReadInv
    <2> QED BY <1>5, <2>1 DEF ReadOk, Ascending, HasRead
  <1> QED BY <1>8, <1>9 DEF ReadInv

LEMMA Joins ==
  ASSUME NEW a \in Seq(Nat), NEW b \in Seq(Nat)
  PROVE  /\ a \o b \in Seq(Nat) /\ Len(a \o b) = Len(a) + Len(b)
         /\ \A k \in 1..Len(a) : (a \o b)[k] = a[k]
         /\ \A k \in 1..Len(b) : (a \o b)[Len(a) + k] = b[k]
  OBVIOUS

\* A browser that gets the next n of the events has a longer beginning.
LEMMA PollKeepsReads == ASSUME RunTypes, ReadInv, NEW r \in Runs, Poll(r) PROVE ReadInv'
  <1>1. PICK s \in Seq(EventRow) : s = log[r] BY DEF RunTypes
  <1>2. PICK m \in Nat : m = Len(s) OBVIOUS
  <1>3. log' = log /\ seq' = seq BY DEF Poll, logVars
  <1>4. Ascending(r) BY DEF ReadInv, ReadOk
  <1>5. PICK g \in 0..m : HasRead(r, g) BY <1>1, <1>2 DEF ReadInv, ReadOk
  <1>6. PICK events : events = After(r, reader[r].last) OBVIOUS
  <1>7. events \in Seq(EventRow) /\ Len(events) = m - g /\ \A k \in 1..(m - g) : events[k] = s[g + k]
    <2>1. g \in Nat BY <1>2
    <2>2. PICK ids : ids = Nat \ (0..reader[r].last) OBVIOUS
    <2>3. Spans(r, ids, g, m) BY <1>1, <1>2, <1>4, <1>5, <2>2, LastDivides
    <2>4. events = EventsWith(r, ids) BY <1>6, <2>2 DEF After
    <2>5. log[r] \in Seq(EventRow) BY <1>1
    <2>6. /\ EventsWith(r, ids) \in Seq(EventRow) /\ Len(EventsWith(r, ids)) = m - g
          /\ \A k \in 1..(m - g) : EventsWith(r, ids)[k] = log[r][g + k]
      BY <2>1, <2>3, <2>5, EventsWithFinds
    <2> QED BY <1>1, <2>4, <2>6
  <1>8. PICK n \in 0..(m - g) :
          reader' = [reader EXCEPT ![r] = Received(@, events, n)]
    <2>1. 0..Len(events) = 0..(m - g) BY <1>7
    <2> QED BY <1>6, <2>1 DEF Poll
  <1>9. PICK old \in ReaderRow : old = reader[r] BY DEF ReadInv
  <1>10. PICK open \in BOOLEAN : open = (n > 0 /\ n = Len(events) /\ events[n].kind \notin Terminal) OBVIOUS
  <1>11. PICK last : last = IF n = 0 THEN old.last ELSE events[n].id OBVIOUS
  <1>12. PICK got : got = old.got \o [k \in 1..n |-> events[k].id] OBVIOUS
  <1>13. g + n \in 0..m /\ g \in Nat /\ n \in Nat BY <1>2
  <1>14. \A k \in 1..m : s[k].id \in Nat
    <2>1. \A k \in 1..m : s[k] \in EventRow BY <1>2
    <2> QED BY <2>1 DEF EventRow
  <1>15. last = (IF g + n = 0 THEN 0 ELSE s[g + n].id) /\ last \in Nat
    <2>1. old.last = IF g = 0 THEN 0 ELSE s[g].id BY <1>1, <1>5, <1>9 DEF HasRead
    <2>2. CASE n = 0
      <3>1. g + n = g /\ (g # 0 => g \in 1..m) BY <1>13, <2>2
      <3> QED BY <1>11, <1>14, <2>1, <2>2, <3>1
    <2>3. CASE n # 0
      <3>1. n \in 1..(m - g) /\ g + n \in 1..m /\ g + n # 0 BY <1>13, <2>3
      <3> QED BY <1>7, <1>11, <1>14, <2>3, <3>1
    <2> QED BY <2>2, <2>3
  <1>16. got = [k \in 1..(g + n) |-> s[k].id] /\ got \in Seq(Nat)
    <2>1. PICK a : a = [k \in 1..g |-> s[k].id] OBVIOUS
    <2>2. PICK b : b = [k \in 1..n |-> events[k].id] OBVIOUS
    <2>3. old.got = a BY <1>1, <1>5, <1>9, <2>1 DEF HasRead
    <2>4. a \in Seq(Nat) /\ Len(a) = g /\ \A k \in 1..g : a[k] = s[k].id
      <3>1. a \in [1..g -> Nat] BY <1>13, <1>14, <2>1
      <3> QED BY <1>13, <2>1, <3>1
    <2>5. b \in Seq(Nat) /\ Len(b) = n /\ \A k \in 1..n : b[k] = s[g + k].id
      <3>1. \A k \in 1..n : events[k].id = s[g + k].id /\ g + k \in 1..m BY <1>7, <1>13
      <3>2. b \in [1..n -> Nat] BY <1>13, <1>14, <2>2, <3>1
      <3> QED BY <1>13, <2>2, <3>1, <3>2
    <2>6. got = a \o b BY <1>12, <2>2, <2>3
    <2>7. /\ got \in Seq(Nat) /\ Len(got) = g + n
          /\ \A k \in 1..g : got[k] = a[k]
      BY <2>4, <2>5, <2>6, Joins
    <2>8. ASSUME NEW k \in 1..(g + n) PROVE got[k] = s[k].id
      <3>1. CASE k \in 1..g BY <2>4, <2>7, <3>1
      <3>2. CASE k \notin 1..g
        <4>1. k \in (g + 1)..(g + n) /\ k - g \in 1..n /\ g + (k - g) = k BY <1>13, <3>2
        <4>2. got[k] = b[k - g] /\ b[k - g] = s[g + (k - g)].id
          <5>1. got[g + (k - g)] = b[k - g] BY <2>4, <2>5, <2>6, <4>1, Joins
          <5> QED BY <2>5, <4>1, <5>1
        <4> QED BY <4>1, <4>2
      <3> QED BY <3>1, <3>2
    <2>9. got = [k \in 1..Len(got) |-> got[k]] BY <2>7
    <2> QED BY <2>7, <2>8, <2>9
  <1>17. PICK new : new = [open |-> open, reads |-> old.reads, last |-> last, got |-> got] OBVIOUS
  <1>18. new \in ReaderRow BY <1>9, <1>15, <1>16, <1>17 DEF ReaderRow
  <1>19. reader' = [reader EXCEPT ![r] = new]
    BY <1>8, <1>9, <1>10, <1>11, <1>12, <1>17, Zenon DEF Received
  <1>20. reader' \in [Runs -> ReaderRow] /\ reader'[r] = new /\ \A q \in Runs \ {r} : reader'[q] = reader[q]
    BY <1>18, <1>19 DEF ReadInv
  <1>21. HasRead(r, g + n)' BY <1>1, <1>3, <1>15, <1>16, <1>17, <1>20 DEF HasRead
  <1>22. ReadOk(r)' BY <1>1, <1>2, <1>3, <1>4, <1>13, <1>21 DEF ReadOk, Ascending
  <1>23. ASSUME NEW q \in Runs \ {r} PROVE ReadOk(q)'
    <2>1. ReadOk(q) BY DEF ReadInv
    <2> QED BY <1>3, <1>20, <2>1 DEF ReadOk, Ascending, HasRead
  <1> QED BY <1>20, <1>22, <1>23 DEF ReadInv

\* A new connection goes on where the last one ended, or begins anew.
LEMMA FollowKeepsReads ==
  ASSUME RunTypes, ReadInv, NEW r \in Runs, NEW resume \in BOOLEAN, Follow(r, resume) PROVE ReadInv'
  <1>1. log' = log /\ seq' = seq BY DEF Follow, logVars
  <1>2. PICK old \in ReaderRow : old = reader[r] BY DEF ReadInv
  <1>3. PICK new : new = [open |-> TRUE, reads |-> old.reads + 1,
                          last |-> IF resume THEN old.last ELSE 0, got |-> IF resume THEN old.got ELSE << >>]
    OBVIOUS
  <1>4. new \in ReaderRow
    <2>1. old.reads + 1 \in Nat /\ << >> \in Seq(Nat) BY DEF ReaderRow
    <2> QED BY <1>3, <2>1 DEF ReaderRow
  <1>5. reader' = [reader EXCEPT ![r] = new] BY <1>2, <1>3, Zenon DEF Follow
  <1>6. reader' \in [Runs -> ReaderRow] /\ reader'[r] = new /\ \A q \in Runs \ {r} : reader'[q] = reader[q]
    BY <1>4, <1>5 DEF ReadInv
  <1>7. ReadOk(r)'
    <2>1. Ascending(r)' BY <1>1 DEF ReadInv, ReadOk, Ascending
    <2>2. CASE resume
      <3>1. PICK n \in 0..Len(log[r]) : HasRead(r, n) BY DEF ReadInv, ReadOk
      <3>2. new.last = old.last /\ new.got = old.got BY <1>3, <2>2
      <3>3. HasRead(r, n)' BY <1>1, <1>2, <1>6, <3>1, <3>2 DEF HasRead
      <3> QED BY <1>1, <2>1, <3>3 DEF ReadOk
    <2>3. CASE ~resume
      <3>1. new.last = 0 /\ new.got = << >> BY <1>3, <2>3
      <3>2. << >> = [k \in 1..0 |-> log'[r][k].id] OBVIOUS
      <3>3. HasRead(r, 0)' BY <1>6, <3>1, <3>2 DEF HasRead
      <3>4. 0 \in 0..Len(log'[r])
        <4>1. Len(log[r]) \in Nat BY DEF RunTypes
        <4> QED BY <1>1, <4>1
      <3> QED BY <2>1, <3>3, <3>4 DEF ReadOk
    <2> QED BY <2>2, <2>3
  <1>8. ASSUME NEW q \in Runs \ {r} PROVE ReadOk(q)'
    <2>1. ReadOk(q) BY DEF ReadInv
    <2> QED BY <1>1, <1>6, <2>1 DEF ReadOk, Ascending, HasRead
  <1> QED BY <1>6, <1>7, <1>8 DEF ReadInv

LEMMA CrashKeepsReads == RunTypes /\ ReadInv /\ Crash => ReadInv'
  <1> SUFFICES ASSUME RunTypes, ReadInv, Crash PROVE ReadInv' OBVIOUS
  <1>1. log' = log /\ seq' = seq BY DEF Crash, logVars
  <1>2. reader' = [r \in Runs |-> [reader[r] EXCEPT !.open = FALSE]] BY DEF Crash
  <1>3. ASSUME NEW r \in Runs
        PROVE  reader'[r] \in ReaderRow /\ reader'[r].last = reader[r].last /\ reader'[r].got = reader[r].got
    <2>1. PICK old \in ReaderRow : old = reader[r] BY DEF ReadInv
    <2>2. reader'[r] = [old EXCEPT !.open = FALSE] BY <1>2, <2>1
    <2> QED BY <2>1, <2>2 DEF ReaderRow
  <1>4. reader' \in [Runs -> ReaderRow]
    <2>1. DOMAIN reader' = Runs /\ reader' = [r \in Runs |-> reader'[r]] BY <1>2
    <2> QED BY <1>3, <2>1
  <1>5. ASSUME NEW r \in Runs PROVE ReadOk(r)'
    <2>1. ReadOk(r) BY DEF ReadInv
    <2> QED BY <1>1, <1>3, <2>1 DEF ReadOk, Ascending, HasRead
  <1> QED BY <1>4, <1>5 DEF ReadInv

LEMMA InitReadInv == Init => ReadInv
  <1> SUFFICES ASSUME Init PROVE ReadInv OBVIOUS
  <1>1. reader = [r \in Runs |-> NoReader] /\ log = [r \in Runs |-> << >>] BY DEF Init
  <1>2. NoReader \in ReaderRow
    <2>1. << >> \in Seq(Nat) OBVIOUS
    <2> QED BY <2>1 DEF NoReader, ReaderRow
  <1>3. ASSUME NEW r \in Runs PROVE ReadOk(r)
    <2>1. log[r] = << >> /\ Len(log[r]) = 0 /\ 0 \in 0..Len(log[r]) BY <1>1
    <2>2. << >> = [k \in 1..0 |-> log[r][k].id] OBVIOUS
    <2>3. HasRead(r, 0) BY <1>1, <2>2 DEF HasRead, NoReader
    <2>4. Ascending(r) BY <2>1 DEF Ascending
    <2> QED BY <2>1, <2>3, <2>4 DEF ReadOk
  <1> QED BY <1>1, <1>2, <1>3 DEF ReadInv

LEMMA NextReadInv == RunInv /\ ReadInv /\ [Next]_vars => ReadInv'
  <1> SUFFICES ASSUME RunInv, ReadInv, [Next]_vars PROVE ReadInv' OBVIOUS
  <1>1. RunTypes BY DEF RunInv
  <1>2. CASE UNCHANGED <<log, seq, reader>>
    BY <1>2 DEF ReadInv, ReadOk, Ascending, HasRead
  <1>3. CASE UNCHANGED vars BY <1>2, <1>3 DEF vars, logVars
  <1>4. CASE RegistryPart BY <1>2, <1>4 DEF RegistryPart, logVars
  <1>5. CASE Crash BY <1>1, <1>5, CrashKeepsReads
  <1>6. CASE RequestPart
    BY <1>2, <1>6 DEF RequestPart, DeleteAgentRow, CreateRunFails, StartRun, CreateRun, logVars
  <1>7. ASSUME NEW r \in Runs,
               ConsumerStep(r) \/ Expire(r) \/ GatewayStep(r) \/ Break(r) \/ WorkerStep(r) \/ ReaderStep(r)
        PROVE  ReadInv'
    <2>1. ASSUME NEW ok \in BOOLEAN, Receive(r, ok) PROVE ReadInv'
      <3>1. Head(wire[r]) \in Kinds
        <4>1. wire[r] \in Seq(Kinds) /\ wire[r] # << >> BY <1>1, <2>1 DEF RunTypes, Receive
        <4> QED BY <4>1
      <3>2. AppendEvent(r, Head(wire[r]), ok) /\ reader' = reader BY <2>1 DEF Receive
      <3> QED BY <1>1, <3>1, <3>2, StoreKeepsReads
    <2>2. ASSUME NEW resume \in BOOLEAN, Follow(r, resume) PROVE ReadInv'
      BY <1>1, <2>2, FollowKeepsReads
    <2>3. CASE Poll(r) BY <1>1, <2>3, PollKeepsReads
    <2>4. CASE Connect(r) \/ StreamEnds(r) \/ FinishRun(r) \/ Expire(r) \/ GatewayStep(r) \/ Break(r)
      BY <1>2, <2>4 DEF Connect, StreamEnds, FinishRun, Expire, GatewayStep, Break,
                        Subscribe, PublishTask, Forward, RunTimeout, Cancelled, logVars
    <2>5. CASE WorkerStep(r)
      BY <1>2, <2>5 DEF WorkerStep, Attempt, Exec, ExecEnds, Answer, AttemptFails, WorkerDies, logVars
    <2> QED BY <1>7, <2>1, <2>2, <2>3, <2>4, <2>5 DEF ConsumerStep, ReaderStep
  <1> QED BY <1>3, <1>4, <1>5, <1>6, <1>7 DEF Next

\* The SSE replay is exact: whatever connections broke and however they were
\* resumed, the browser has the stored events up to its last id, each once and in
\* order. EventStore.Append lets ids grow along the list, also when it fails, so
\* that the id a browser sends back marks a place in the list.
THEOREM ReplayIsExact == Spec => []ReplayExact
  <1>1. Spec => []ReadInv BY InitReadInv, NextReadInv, AlwaysRunInv, PTL DEF Spec
  <1>2. RunInv => RunTypes BY DEF RunInv
  <1> QED BY <1>1, <1>2, ReadIsExact, AlwaysRunInv, PTL

=============================================================================
