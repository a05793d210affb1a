---------------------------- MODULE AgentRegistry ----------------------------
(***************************************************************************)
(* The durable agents of the control plane (internal/controlplane:         *)
(* service.go, store.go, docker.go). An agent is a row in Postgres, a      *)
(* container of a fixed name and a workspace volume. HTTP handlers create, *)
(* start, stop and delete agents; every handler reads the row once and     *)
(* then calls Docker and Postgres in turn, without a transaction or a lock *)
(* around them, so the handlers of one agent interleave between any two    *)
(* calls. A handler whose client hangs up goes on with a cancelled         *)
(* context: each of its later calls fails.                                 *)
(***************************************************************************)
EXTENDS Naturals

CONSTANTS
  Agents,      \* agent ids, each given out once by ulid.Make
  Requests,    \* HTTP requests the server works on at the same time
  MaxRequests, \* bound: requests ever served
  Weathers     \* the sets of faults that may strike together, see RegistryFault

\* db      a statement fails and is not executed
\* docker  a call to the daemon reports an error; it may still take effect
RegistryFault == {"db", "docker"}

ASSUME AgentsAssumption == Agents # {}

VARIABLES
  row,       \* the agents table: status and whether container_id is set
  policy,    \* workspace_policy of the agent
  container, \* the container named after the agent
  volume,    \* does the agent's volume exist
  req,       \* what each request works on: its next call, agent and copy of the row
  served,    \* requests started
  faults     \* what may go wrong in this behaviour, one of Weathers

agentVars == <<row, policy, container, volume>>
registryVars == <<row, policy, container, volume, req, served, faults>>

Status == {"provisioning", "running", "stopped", "failed"}

RegistryStep == {"idle", "create.volume", "create.container", "create.start",
  "create.record", "create.failed", "start.docker", "start.record",
  "stop.docker", "stop.record", "delete.container", "delete.volume", "delete.row"}

Idle == [step |-> "idle", agent |-> CHOOSE a \in Agents : TRUE, cid |-> FALSE]

RegistryInit ==
  /\ row = [a \in Agents |-> [status |-> "unborn", cid |-> FALSE]]
  /\ policy \in [Agents -> {"retain", "delete"}]
  /\ container = [a \in Agents |-> "none"]
  /\ volume = [a \in Agents |-> FALSE]
  /\ req = [q \in Requests |-> Idle]
  /\ served = 0
  /\ faults \in Weathers

HasRow(a) == row[a].status \in Status

(***************************************************************************)
(* Requests and the calls they make.                                       *)
(***************************************************************************)
Serve(q, a, step) ==
  /\ req[q] = Idle
  /\ served < MaxRequests
  /\ served' = served + 1
  /\ UNCHANGED faults
  /\ req' = [req EXCEPT ![q] = [step |-> step, agent |-> a, cid |-> row[a].cid]]

At(q, step) == req[q].step = step

Goto(q, step) ==
  /\ req' = [req EXCEPT ![q] = [step |-> step, agent |-> @.agent, cid |-> @.cid]]
  /\ UNCHANGED <<served, faults>>

Return(q) ==
  /\ req' = [req EXCEPT ![q] = Idle]
  /\ UNCHANGED <<served, faults>>

\* A daemon call by q whose effect on the containers and volumes is the action
\* Effect: the handler continues at ok, or at failed when an error is reported.
DaemonCall(q, ok, failed, Effect) ==
  \/ Effect /\ Goto(q, ok)
  \/ /\ "docker" \in faults
     /\ Effect \/ UNCHANGED <<container, volume>>
     /\ IF failed = "idle" THEN Return(q) ELSE Goto(q, failed)

\* The row is updated if it is still there: no matching row is not an error.
UpdateRuntime(a, status, cid) ==
  row' = IF HasRow(a) THEN [row EXCEPT ![a] = [status |-> status, cid |-> cid]] ELSE row

\* The handler's last call to Postgres; its error ends the handler as well.
RecordRuntime(q, status, cid) ==
  /\ \/ UpdateRuntime(req[q].agent, status, cid)
     \/ "db" \in faults /\ UNCHANGED row
  /\ Return(q)
  /\ UNCHANGED <<policy, container, volume>>

(***************************************************************************)
(* Service.Create: the row first, then volume, container and start.        *)
(***************************************************************************)
Create(q, a) ==
  /\ row[a].status = "unborn"
  /\ Serve(q, a, "create.volume")
  /\ row' = [row EXCEPT ![a] = [status |-> "provisioning", cid |-> FALSE]]
  /\ UNCHANGED <<policy, container, volume>>

CreateVolume(q) ==
  /\ At(q, "create.volume")
  /\ DaemonCall(q, "create.container", "create.failed",
       volume' = [volume EXCEPT ![req[q].agent] = TRUE] /\ UNCHANGED container)
  /\ UNCHANGED <<row, policy>>

\* Mounting a named volume creates it when it is missing.
CreateContainer(q) ==
  /\ At(q, "create.container")
  /\ DaemonCall(q, "create.start", "create.failed",
       /\ container' = [container EXCEPT ![req[q].agent] = "stopped"]
       /\ volume' = [volume EXCEPT ![req[q].agent] = TRUE])
  /\ UNCHANGED <<row, policy>>

CreateStart(q) ==
  /\ At(q, "create.start")
  /\ DaemonCall(q, "create.record", "create.failed",
       container' = [container EXCEPT ![req[q].agent] = "up"] /\ UNCHANGED volume)
  /\ UNCHANGED <<row, policy>>

CreateRecord(q) == At(q, "create.record") /\ RecordRuntime(q, "running", TRUE)

CreateFailed(q) == At(q, "create.failed") /\ RecordRuntime(q, "failed", FALSE)

(***************************************************************************)
(* Service.StartAgent and Service.StopAgent. Docker does not know an empty *)
(* or a removed container, and is content with one that already is as      *)
(* asked.                                                                  *)
(***************************************************************************)
KnownToDocker(q) == req[q].cid /\ container[req[q].agent] # "none"

Start(q, a) == HasRow(a) /\ Serve(q, a, "start.docker") /\ UNCHANGED agentVars

\* Seeded fault: any error of ContainerStart is taken for "already started"
MutStartDockerTrusts(q) ==
  /\ At(q, "start.docker")
  /\ Goto(q, "start.record")
  /\ IF KnownToDocker(q)
       THEN container' = [container EXCEPT ![req[q].agent] = "up"] ELSE UNCHANGED container
  /\ UNCHANGED <<row, policy, volume>>

StartDocker(q) ==
  /\ At(q, "start.docker")
  /\ IF KnownToDocker(q)
       THEN DaemonCall(q, "start.record", "idle",
              container' = [container EXCEPT ![req[q].agent] = "up"] /\ UNCHANGED volume)
       ELSE Return(q) /\ UNCHANGED <<container, volume>>
  /\ UNCHANGED <<row, policy>>

StartRecord(q) == At(q, "start.record") /\ RecordRuntime(q, "running", req[q].cid)

Stop(q, a) == HasRow(a) /\ Serve(q, a, "stop.docker") /\ UNCHANGED agentVars

StopDocker(q) ==
  /\ At(q, "stop.docker")
  /\ IF KnownToDocker(q)
       THEN DaemonCall(q, "stop.record", "idle",
              container' = [container EXCEPT ![req[q].agent] = "stopped"] /\ UNCHANGED volume)
       ELSE Return(q) /\ UNCHANGED <<container, volume>>
  /\ UNCHANGED <<row, policy>>

StopRecord(q) == At(q, "stop.record") /\ RecordRuntime(q, "stopped", req[q].cid)

(***************************************************************************)
(* Service.DeleteAgent: container, then volume, then row. DeleteAgents is  *)
(* a sequence of these.                                                    *)
(***************************************************************************)
Delete(q, a) == HasRow(a) /\ Serve(q, a, "delete.container") /\ UNCHANGED agentVars

\* Seeded fault: an error of ContainerRemove is dropped
MutDeleteContainerDropsError(q) ==
  /\ At(q, "delete.container")
  /\ DaemonCall(q, "delete.volume", "delete.volume",
       container' = [container EXCEPT ![req[q].agent] = "none"] /\ UNCHANGED volume)
  /\ UNCHANGED <<row, policy>>

\* ContainerRemove, forced, of the container the row named; already gone is fine.
DeleteContainer(q) ==
  /\ At(q, "delete.container")
  /\ IF req[q].cid
       THEN DaemonCall(q, "delete.volume", "idle",
              container' = [container EXCEPT ![req[q].agent] = "none"] /\ UNCHANGED volume)
       ELSE Goto(q, "delete.volume") /\ UNCHANGED <<container, volume>>
  /\ UNCHANGED <<row, policy>>

\* VolumeRemove, under the policy "delete"; a volume in use cannot be removed.
DeleteVolume(q) ==
  /\ At(q, "delete.volume")
  /\ IF policy[req[q].agent] = "retain"
       THEN Goto(q, "delete.row") /\ UNCHANGED <<container, volume>>
       ELSE IF container[req[q].agent] # "none"
       THEN Return(q) /\ UNCHANGED <<container, volume>>
       ELSE DaemonCall(q, "delete.row", "idle",
              volume' = [volume EXCEPT ![req[q].agent] = FALSE] /\ UNCHANGED container)
  /\ UNCHANGED <<row, policy>>

\* The row goes; what is kept in its place is the copy this request worked from.
DeleteRow(q) ==
  /\ At(q, "delete.row")
  /\ row' = IF HasRow(req[q].agent)
              THEN [row EXCEPT ![req[q].agent] = [status |-> "deleted", cid |-> req[q].cid]]
              ELSE row
  /\ Return(q)
  /\ UNCHANGED <<policy, container, volume>>

DeleteRowFails(q) ==
  /\ "db" \in faults
  /\ At(q, "delete.row")
  /\ Return(q)
  /\ UNCHANGED agentVars

-----------------------------------------------------------------------------
\* Every step of a handler but the one that removes the row: the runs hang on it.
HandlerStep(q) ==
  \/ CreateVolume(q) \/ CreateContainer(q) \/ CreateStart(q)
  \/ CreateRecord(q) \/ CreateFailed(q)
  \/ StartDocker(q) \/ StartRecord(q) \/ StopDocker(q) \/ StopRecord(q)
  \/ DeleteContainer(q) \/ DeleteVolume(q) \/ DeleteRowFails(q)

Arrival(q, a) == Create(q, a) \/ Start(q, a) \/ Stop(q, a) \/ Delete(q, a)

RegistryNext ==
  \E q \in Requests : HandlerStep(q) \/ DeleteRow(q) \/ \E a \in Agents : Arrival(q, a)

RegistrySpec == RegistryInit /\ [][RegistryNext]_registryVars

RegistryTypeOK ==
  /\ row \in [Agents -> [status : Status \cup {"unborn", "deleted"}, cid : BOOLEAN]]
  /\ policy \in [Agents -> {"retain", "delete"}]
  /\ container \in [Agents -> {"none", "stopped", "up"}]
  /\ volume \in [Agents -> BOOLEAN]
  /\ served \in 0..MaxRequests /\ faults \in Weathers

(***************************************************************************)
(* What the registry promises.                                             *)
(***************************************************************************)
\* DeleteAgents reports an id as deleted when "their container/workspace policy
\* [was] applied and their persisted Agent record removed". That holds of every
\* delete that read a row naming the container, whatever starts, stops, retried
\* or concurrent deletes overlap it, and it stays so: no container is left, and
\* under the policy "delete" no volume. (A delete that reads a row without a
\* container id, because Create is still at work or failed half-way, removes the
\* row alone.)
DeletedIsClean ==
  \A a \in Agents : (row[a].status = "deleted" /\ row[a].cid) =>
    /\ container[a] = "none"
    /\ policy[a] = "delete" => ~volume[a]

\* An agent shown as running or stopped names its container, and no late or
\* failing handler, working from its old copy of the row, takes the name away:
\* from then on every delete can find the container.
ContainerStaysKnown ==
  /\ [](\A a \in Agents : row[a].status \in {"running", "stopped"} => row[a].cid)
  /\ [][\A a \in Agents : row[a].cid /\ row'[a].status # "deleted" => row'[a].cid]_registryVars

(***************************************************************************)
(* Why: an inductive invariant. While Create is at work on an agent nobody *)
(* knows its container id; afterwards nothing makes a container or a       *)
(* volume for it any more, so what a delete has removed stays removed.     *)
(***************************************************************************)
Creating(q, a) ==
  /\ req[q].agent = a
  /\ req[q].step \in {"create.volume", "create.container", "create.start",
                      "create.record", "create.failed"}

\* Requests come with a row, and at most one of them creates it.
OneCreator ==
  \A q \in Requests :
    /\ req[q].step = "idle" => ~req[q].cid
    /\ req[q].step # "idle" => row[req[q].agent].status # "unborn"
    /\ \A p \in Requests, a \in Agents : Creating(p, a) /\ Creating(q, a) => p = q

\* The container id is known only after Create.
KnownAfterCreate ==
  \A q \in Requests, a \in Agents : Creating(q, a) =>
    /\ ~row[a].cid
    /\ \A p \in Requests : req[p].agent = a => ~req[p].cid

\* What a request at its step may rely on.
ProgressOf(q) ==
  /\ req[q].step \in {"start.record", "stop.record"} => req[q].cid
  /\ req[q].step \in {"delete.volume", "delete.row"} /\ req[q].cid => container[req[q].agent] = "none"
  /\ req[q].step = "delete.row" /\ req[q].cid /\ policy[req[q].agent] = "delete" => ~volume[req[q].agent]

Progress == \A q \in Requests : ProgressOf(q)

KnownRows ==
  \A a \in Agents :
    /\ row[a].status = "unborn" => ~row[a].cid
    /\ row[a].status \in {"running", "stopped"} => row[a].cid

RegistryInv == OneCreator /\ KnownAfterCreate /\ Progress /\ KnownRows /\ DeletedIsClean
=============================================================================
