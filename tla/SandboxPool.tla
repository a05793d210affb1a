----------------------------- MODULE SandboxPool -----------------------------
(***************************************************************************)
(* The warm container pool of internal/sandbox/docker.go (memory.go has the*)
(* same structure): callers Acquire a slot, use it once and Release it; a  *)
(* goroutine per released slot removes the container and puts a new one    *)
(* into the pool; Close drains the pool and waits for the callers.         *)
(* The steps are cut where a channel, the mutex or a Docker call lets      *)
(* another goroutine in.                                                   *)
(***************************************************************************)
EXTENDS Naturals, FiniteSets

CONSTANTS
  Slot,         \* container ids; ContainerCreate never returns one twice
  NoSlot,
  Caller,       \* tool executions that may hold a sandbox
  PoolSize,     \* capacity of the pool channel
  MaxAcquires,  \* bound: how many slots are handed out in a behaviour
  Faults        \* what may go wrong, see Fault

Fault == {"spawn", "remove", "mkdir"}

ASSUME PoolAssumption ==
  /\ NoSlot \notin Slot
  /\ IsFiniteSet(Slot) /\ IsFiniteSet(Caller)
  /\ PoolSize \in Nat \ {0}
  /\ MaxAcquires \in Nat
  /\ Faults \subseteq Fault

VARIABLES
  pool,      \* slots in the channel; its order is never observable
  inFlight,  \* the map of the same name
  closing,   \* is the closing channel closed
  pc,        \* where each caller is
  hold,      \* the slot a caller has taken
  job,       \* where destroyAndRefill(s) is, for each slot s
  fresh,     \* the slot destroyAndRefill(s) has spawned and not handed over
  closer,    \* where Close is
  live,      \* containers that exist
  stray,     \* containers whose removal failed: nobody knows them any more
  used,      \* ids handed out by Docker so far
  served,    \* history: slots ever taken from the pool by a caller
  lost       \* history: spawns that failed

callerVars == <<pc, hold, served>>
jobVars    == <<job, fresh, lost>>
dockerVars == <<live, stray, used>>
vars == <<pool, inFlight, closing, callerVars, jobVars, closer, dockerVars>>

CallerPhase == {"idle", "waiting", "took", "using"}
JobPhase    == {"none", "remove", "check", "spawn", "push", "ended"}
CloserPhase == {"open", "drain", "wait", "closed", "expired"}

TypeOK ==
  /\ pool \subseteq Slot /\ inFlight \subseteq Slot
  /\ closing \in BOOLEAN
  /\ pc \in [Caller -> CallerPhase]
  /\ hold \in [Caller -> Slot \cup {NoSlot}]
  /\ job \in [Slot -> JobPhase]
  /\ fresh \in [Slot -> Slot \cup {NoSlot}]
  /\ closer \in CloserPhase
  /\ live \subseteq used /\ stray \subseteq used /\ used \subseteq Slot
  /\ served \subseteq Slot
  /\ lost \in Nat

\* NewDockerDriver: warm slots whose spawn fails are skipped.
Init ==
  /\ pool \in {S \in SUBSET Slot :
                 IF "spawn" \in Faults THEN Cardinality(S) <= PoolSize
                                       ELSE Cardinality(S) = PoolSize}
  /\ inFlight = {}
  /\ closing = FALSE
  /\ pc = [c \in Caller |-> "idle"]
  /\ hold = [c \in Caller |-> NoSlot]
  /\ job = [s \in Slot |-> "none"]
  /\ fresh = [s \in Slot |-> NoSlot]
  /\ closer = "open"
  /\ live = pool /\ stray = {} /\ used = pool
  /\ served = {}
  /\ lost = PoolSize - Cardinality(pool)

-----------------------------------------------------------------------------
\* Acquire, first select: refuse when the driver is closing.
AcquireEnter(c) ==
  /\ pc[c] = "idle"
  /\ ~closing
  /\ Cardinality(served) + Cardinality({d \in Caller : pc[d] = "waiting"}) < MaxAcquires
  /\ pc' = [pc EXCEPT ![c] = "waiting"]
  /\ UNCHANGED <<pool, inFlight, closing, hold, served, jobVars, closer, dockerVars>>

\* Seeded fault: the slot is looked at but not received from the channel.
MutAcquireTakePeeks(c) ==
  /\ pc[c] = "waiting"
  /\ \E s \in pool :
       /\ hold' = [hold EXCEPT ![c] = s]
       /\ served' = served \cup {s}
  /\ pc' = [pc EXCEPT ![c] = "took"]
  /\ UNCHANGED <<pool, inFlight, closing, jobVars, closer, dockerVars>>

\* Second select: a slot, the timeout or closing, whichever is chosen.
AcquireTake(c) ==
  /\ pc[c] = "waiting"
  /\ \E s \in pool :
       /\ pool' = pool \ {s}
       /\ hold' = [hold EXCEPT ![c] = s]
       /\ served' = served \cup {s}
  /\ pc' = [pc EXCEPT ![c] = "took"]
  /\ UNCHANGED <<inFlight, closing, jobVars, closer, dockerVars>>

AcquireGiveUp(c) ==
  /\ pc[c] = "waiting"
  /\ pc' = [pc EXCEPT ![c] = "idle"]
  /\ UNCHANGED <<pool, inFlight, closing, hold, served, jobVars, closer, dockerVars>>

\* The run directory exists: register the slot and return the sandbox.
AcquireRegister(c) ==
  /\ pc[c] = "took"
  /\ inFlight' = inFlight \cup {hold[c]}
  /\ pc' = [pc EXCEPT ![c] = "using"]
  /\ UNCHANGED <<pool, closing, hold, served, jobVars, closer, dockerVars>>

\* Hand the slot to a new destroyAndRefill goroutine.
StartRefill(c) ==
  /\ job' = [job EXCEPT ![hold[c]] = "remove"]
  /\ hold' = [hold EXCEPT ![c] = NoSlot]
  /\ pc' = [pc EXCEPT ![c] = "idle"]

\* Seeded fault: the error return forgets the slot it has taken.
MutAcquireMkdirFailsForgets(c) ==
  /\ "mkdir" \in Faults
  /\ pc[c] = "took"
  /\ hold' = [hold EXCEPT ![c] = NoSlot]
  /\ pc' = [pc EXCEPT ![c] = "idle"]
  /\ UNCHANGED <<pool, inFlight, closing, served, jobVars, closer, dockerVars>>

AcquireMkdirFails(c) ==
  /\ "mkdir" \in Faults
  /\ pc[c] = "took"
  /\ StartRefill(c)
  /\ UNCHANGED <<pool, inFlight, closing, served, fresh, lost, closer, dockerVars>>

\* Seeded fault: the used slot goes straight back to the pool.
MutReleaseRecycles(c) ==
  /\ pc[c] = "using"
  /\ inFlight' = inFlight \ {hold[c]}
  /\ pool' = pool \cup {hold[c]}
  /\ hold' = [hold EXCEPT ![c] = NoSlot]
  /\ pc' = [pc EXCEPT ![c] = "idle"]
  /\ UNCHANGED <<closing, served, jobVars, closer, dockerVars>>

Release(c) ==
  /\ pc[c] = "using"
  /\ inFlight' = inFlight \ {hold[c]}
  /\ StartRefill(c)
  /\ UNCHANGED <<pool, closing, served, fresh, lost, closer, dockerVars>>

-----------------------------------------------------------------------------
\* ContainerRemove of s; an error is logged or dropped.
RemoveContainer(s) ==
  \/ live' = live \ {s} /\ UNCHANGED <<stray, used>>
  \/ "remove" \in Faults /\ stray' = stray \cup {s} /\ UNCHANGED <<live, used>>

\* destroyAndRefill(s).
RefillRemove(s) ==
  /\ job[s] = "remove"
  /\ RemoveContainer(s)
  /\ job' = [job EXCEPT ![s] = "check"]
  /\ UNCHANGED <<pool, inFlight, closing, callerVars, fresh, lost, closer>>

RefillCheck(s) ==
  /\ job[s] = "check"
  /\ job' = [job EXCEPT ![s] = IF closing THEN "ended" ELSE "spawn"]
  /\ UNCHANGED <<pool, inFlight, closing, callerVars, fresh, lost, closer, dockerVars>>

RefillSpawn(s) ==
  /\ job[s] = "spawn"
  /\ \E n \in Slot \ used :
       /\ fresh' = [fresh EXCEPT ![s] = n]
       /\ live' = live \cup {n}
       /\ used' = used \cup {n}
  /\ job' = [job EXCEPT ![s] = "push"]
  /\ UNCHANGED <<pool, inFlight, closing, callerVars, lost, closer, stray>>

\* Create or start failed, so the goroutine ends and the pool stays one slot
\* short. After a start that ran into the spawn timeout the clean-up runs
\* under the same expired context and leaves the container behind.
RefillSpawnFails(s) ==
  /\ "spawn" \in Faults
  /\ job[s] = "spawn"
  /\ job' = [job EXCEPT ![s] = "ended"]
  /\ lost' = lost + 1
  /\ \/ UNCHANGED dockerVars
     \/ \E n \in Slot \ used :
          /\ live' = live \cup {n}
          /\ stray' = stray \cup {n}
          /\ used' = used \cup {n}
  /\ UNCHANGED <<pool, inFlight, closing, callerVars, fresh, closer>>

\* Seeded fault: the new slot is dropped instead of being sent to the channel.
MutRefillPushDrops(s) ==
  /\ job[s] = "push"
  /\ Cardinality(pool) < PoolSize
  /\ job' = [job EXCEPT ![s] = "ended"]
  /\ fresh' = [fresh EXCEPT ![s] = NoSlot]
  /\ UNCHANGED <<pool, inFlight, closing, callerVars, lost, closer, dockerVars>>

\* The last select: send to the channel, or see that the driver is closing;
\* when both are ready Go picks either.
RefillPush(s) ==
  /\ job[s] = "push"
  /\ Cardinality(pool) < PoolSize
  /\ pool' = pool \cup {fresh[s]}
  /\ job' = [job EXCEPT ![s] = "ended"]
  /\ fresh' = [fresh EXCEPT ![s] = NoSlot]
  /\ UNCHANGED <<inFlight, closing, callerVars, lost, closer, dockerVars>>

RefillPushClosing(s) ==
  /\ job[s] = "push"
  /\ closing
  /\ RemoveContainer(fresh[s])
  /\ job' = [job EXCEPT ![s] = "ended"]
  /\ fresh' = [fresh EXCEPT ![s] = NoSlot]
  /\ UNCHANGED <<pool, inFlight, closing, callerVars, lost, closer>>

-----------------------------------------------------------------------------
\* Close.
CloseBegin ==
  /\ closer = "open"
  /\ closing' = TRUE
  /\ closer' = "drain"
  /\ UNCHANGED <<pool, inFlight, callerVars, jobVars, dockerVars>>

CloseDrain ==
  /\ closer = "drain"
  /\ \E s \in pool : pool' = pool \ {s} /\ RemoveContainer(s)
  /\ UNCHANGED <<inFlight, closing, callerVars, jobVars, closer>>

CloseDrained ==
  /\ closer = "drain"
  /\ pool = {}
  /\ closer' = "wait"
  /\ UNCHANGED <<pool, inFlight, closing, callerVars, jobVars, dockerVars>>

\* Seeded fault: Close does not look at the in-flight map.
MutCloseReturnsEarly ==
  /\ closer = "wait"
  /\ closer' = "closed"
  /\ UNCHANGED <<pool, inFlight, closing, callerVars, jobVars, dockerVars>>

CloseReturn ==
  /\ closer = "wait"
  /\ inFlight = {}
  /\ closer' = "closed"
  /\ UNCHANGED <<pool, inFlight, closing, callerVars, jobVars, dockerVars>>

\* The context given to Close ends first.
CloseExpires ==
  /\ closer = "wait"
  /\ inFlight # {}
  /\ closer' = "expired"
  /\ UNCHANGED <<pool, inFlight, closing, callerVars, jobVars, dockerVars>>

CallerStep(c) ==
  \/ AcquireTake(c) \/ AcquireGiveUp(c) \/ AcquireRegister(c)
  \/ AcquireMkdirFails(c) \/ Release(c)

RefillStep(s) ==
  \/ RefillRemove(s) \/ RefillCheck(s) \/ RefillSpawn(s) \/ RefillSpawnFails(s)
  \/ RefillPush(s) \/ RefillPushClosing(s)

CloseStep == CloseDrain \/ CloseDrained \/ CloseReturn \/ CloseExpires

Next ==
  \/ \E c \in Caller : AcquireEnter(c) \/ CallerStep(c)
  \/ \E s \in Slot : RefillStep(s)
  \/ CloseBegin \/ CloseStep

Spec == Init /\ [][Next]_vars

\* Goroutines that can run do: an Exec is bounded by its hard timeout and
\* Docker calls by their contexts. Nobody has to Acquire or Close.
FairSpec ==
  /\ Spec
  /\ \A c \in Caller : WF_vars(CallerStep(c))
  /\ \A s \in Slot : WF_vars(RefillStep(s))
  /\ WF_vars(CloseStep)

-----------------------------------------------------------------------------
Holders   == {c \in Caller : pc[c] \in {"took", "using"}}
Refilling == {s \in Slot : job[s] \in {"remove", "check", "spawn", "push"}}

\* A sandbox is exclusive: no two callers hold one slot, and a held slot is
\* not in the pool for the next Acquire.
ExclusiveUse ==
  /\ \A c, d \in Holders : hold[c] = hold[d] => c = d
  /\ \A c \in Holders : hold[c] \notin pool

\* A container serves one call only: after it was handed out it never comes
\* back to the pool, so nothing a call wrote is seen by another one.
SingleUse == pool \cap served = {}

\* Until Close, every unit of capacity is idle, held, being replaced or was
\* lost to a failed spawn; so sending to the channel never blocks.
CapacityConserved ==
  ~closing =>
    Cardinality(pool) + Cardinality(Holders) + Cardinality(Refilling) + lost = PoolSize

\* Every container that exists is in the pool, held, about to be removed or
\* just spawned, except those whose removal failed.
NoOrphans ==
  live \ stray \subseteq
    pool \cup {hold[c] : c \in Holders} \cup {s \in Slot : job[s] = "remove"}
         \cup {fresh[s] : s \in {x \in Slot : job[x] = "push"}}

\* The strengthening behind the ownership properties: a slot is in one place
\* at a time, and what was handed out is only ever held or being replaced.
Placement ==
  /\ served \subseteq used
  /\ pool \subseteq used
  /\ \A c \in Caller :
       IF c \in Holders THEN hold[c] \in served /\ job[hold[c]] = "none"
                        ELSE hold[c] = NoSlot
  /\ \A s \in Slot : job[s] # "none" => s \in served
  /\ \A s \in Slot : job[s] = "push" => fresh[s] \in used \ (served \cup pool)
  /\ \A r, s \in Slot :
       job[r] = "push" /\ job[s] = "push" /\ fresh[r] = fresh[s] => r = s

PoolInv == TypeOK /\ Placement /\ ExclusiveUse /\ SingleUse /\ NoOrphans

\* Close does not return before every registered sandbox was released.
CloseWaitsForRegistered ==
  [][closer # "closed" /\ closer' = "closed" => \A c \in Caller : pc[c] # "using"]_vars

\* driver.go:82: Close blocks until every in-flight sandbox is released and
\* the pool is empty.
CloseLeavesNothing == closer = "closed" => pool = {} /\ Holders = {}

\* Once the callers are done the pool is full again, save for the capacity
\* that failed spawns have cost, unless the driver is closed.
PoolRecovers == <>[](closing \/ Cardinality(pool) = PoolSize - lost)

=============================================================================
