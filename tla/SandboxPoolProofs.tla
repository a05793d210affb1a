-------------------------- MODULE SandboxPoolProofs --------------------------
(***************************************************************************)
(* Proofs about SandboxPool, for any number of slots, callers and any pool *)
(* size, with every fault of the model allowed.                            *)
(***************************************************************************)
EXTENDS SandboxPool, FiniteSetTheorems, TLAPS

\* The ownership part of the invariant.
Owned == TypeOK /\ Placement /\ ExclusiveUse /\ SingleUse

\* What NoOrphans says, slot by slot.
Accounted(x) ==
  \/ x \in pool
  \/ \E c \in Caller : pc[c] \in {"took", "using"} /\ hold[c] = x
  \/ job[x] = "remove"
  \/ \E s \in Slot : job[s] = "push" /\ fresh[s] = x

LEMMA OrphansBySlot ==
  ASSUME TypeOK, \A x \in live \ stray : Accounted(x)
  PROVE  NoOrphans
BY DEF TypeOK, NoOrphans, Accounted, Holders

LEMMA AccountedSlots ==
  ASSUME TypeOK, NoOrphans
  PROVE  \A x \in live \ stray : Accounted(x)
BY DEF TypeOK, NoOrphans, Accounted, Holders

-----------------------------------------------------------------------------
LEMMA InitOwned == Init => Owned /\ NoOrphans
<1> SUFFICES ASSUME Init PROVE Owned /\ NoOrphans
  OBVIOUS
<1>1. pool \subseteq Slot /\ Cardinality(pool) <= PoolSize
  BY PoolAssumption DEF Init
<1>2. IsFiniteSet(pool) /\ Cardinality(pool) \in Nat
  BY <1>1, PoolAssumption, FS_Subset, FS_CardinalityType
<1>3. PoolSize - Cardinality(pool) \in Nat
  BY <1>1, <1>2, PoolAssumption
<1>4. TypeOK
  BY <1>1, <1>3 DEF Init, TypeOK, CallerPhase, JobPhase, CloserPhase
<1>5. Placement /\ ExclusiveUse /\ SingleUse
  BY <1>1, PoolAssumption DEF Init, Placement, ExclusiveUse, SingleUse, Holders
<1>6. NoOrphans
  BY DEF Init, NoOrphans
<1> QED BY <1>4, <1>5, <1>6 DEF Owned

\* A removal forgets at most the container it is about.
LEMMA RemovalEffect ==
  ASSUME TypeOK, NEW s \in used, RemoveContainer(s)
  PROVE  /\ live' \subseteq used' /\ stray' \subseteq used' /\ used' = used
         /\ live' \ stray' \subseteq (live \ stray) \ {s}
BY DEF TypeOK, RemoveContainer

\* Acquire and Release.
LEMMA CallerOwned ==
  ASSUME Owned, NEW c \in Caller, AcquireEnter(c) \/ CallerStep(c)
  PROVE  Owned'
<1> USE PoolAssumption DEF Owned
<1>1. CASE AcquireEnter(c) \/ AcquireGiveUp(c)
  <2>1. TypeOK'
    BY <1>1 DEF AcquireEnter, AcquireGiveUp, TypeOK, CallerPhase, jobVars, dockerVars
  <2>2. Placement' /\ ExclusiveUse' /\ SingleUse'
    BY <1>1 DEF AcquireEnter, AcquireGiveUp, TypeOK, CallerPhase, jobVars, dockerVars,
                Placement, ExclusiveUse, SingleUse, Holders
  <2> QED BY <2>1, <2>2
<1>2. CASE AcquireTake(c)
  <2>1. PICK s \in pool : /\ pool' = pool \ {s}
                          /\ hold' = [hold EXCEPT ![c] = s]
                          /\ served' = served \cup {s}
    BY <1>2 DEF AcquireTake
  <2>2. /\ pc[c] = "waiting" /\ pc' = [pc EXCEPT ![c] = "took"]
        /\ UNCHANGED <<inFlight, closing, job, fresh, lost, closer, live, stray, used>>
    BY <1>2 DEF AcquireTake, jobVars, dockerVars
  <2>3. s \in Slot /\ s \in used /\ s \notin served /\ job[s] = "none"
    BY DEF TypeOK, Placement, SingleUse
  <2>4. TypeOK'
    BY <2>1, <2>2, <2>3 DEF TypeOK, CallerPhase
  <2>5. Placement'
    BY <2>1, <2>2, <2>3 DEF TypeOK, Placement, ExclusiveUse, Holders
  <2>6. ExclusiveUse' /\ SingleUse'
    BY <2>1, <2>2, <2>3 DEF TypeOK, Placement, ExclusiveUse, SingleUse, Holders
  <2> QED BY <2>4, <2>5, <2>6
<1>3. CASE AcquireRegister(c)
  <2>1. TypeOK'
    BY <1>3 DEF AcquireRegister, TypeOK, CallerPhase, jobVars, dockerVars, Placement, Holders
  <2>2. Placement' /\ ExclusiveUse' /\ SingleUse'
    BY <1>3 DEF AcquireRegister, TypeOK, CallerPhase, jobVars, dockerVars,
                Placement, ExclusiveUse, SingleUse, Holders
  <2> QED BY <2>1, <2>2
<1>4. CASE AcquireMkdirFails(c) \/ Release(c)
  <2>1. /\ c \in Holders
        /\ job' = [job EXCEPT ![hold[c]] = "remove"]
        /\ hold' = [hold EXCEPT ![c] = NoSlot]
        /\ pc' = [pc EXCEPT ![c] = "idle"]
        /\ inFlight' \subseteq inFlight
        /\ UNCHANGED <<pool, closing, served, fresh, lost, closer, live, stray, used>>
    BY <1>4 DEF AcquireMkdirFails, Release, StartRefill, dockerVars, Holders
  <2>2. hold[c] \in served /\ hold[c] \in Slot /\ job[hold[c]] = "none"
    BY <2>1 DEF Placement, TypeOK
  <2>3. TypeOK'
    BY <2>1, <2>2 DEF TypeOK, CallerPhase, JobPhase
  <2>4. Placement'
    BY <2>1, <2>2 DEF TypeOK, Placement, ExclusiveUse, Holders
  <2>5. ExclusiveUse' /\ SingleUse'
    BY <2>1, <2>2 DEF TypeOK, ExclusiveUse, SingleUse, Holders
  <2> QED BY <2>3, <2>4, <2>5
<1> QED BY <1>1, <1>2, <1>3, <1>4 DEF CallerStep

\* destroyAndRefill.
LEMMA RefillOwned ==
  ASSUME Owned, NEW s \in Slot, RefillStep(s)
  PROVE  Owned'
<1> USE PoolAssumption DEF Owned
<1>0. UNCHANGED <<pc, hold, served, inFlight, closing, closer>>
  BY DEF RefillStep, RefillRemove, RefillCheck, RefillSpawn, RefillSpawnFails, RefillPush,
         RefillPushClosing, callerVars, dockerVars
<1>1. CASE RefillRemove(s) \/ RefillCheck(s) \/ RefillSpawnFails(s)
  <2>1. /\ job[s] # "none" /\ job[s] # "push"
        /\ \E p \in {"check", "ended", "spawn"} : job' = [job EXCEPT ![s] = p]
        /\ UNCHANGED <<pool, fresh>>
        /\ lost' \in Nat
    BY <1>1 DEF RefillRemove, RefillCheck, RefillSpawnFails, TypeOK
  <2>2. s \in used
    BY <2>1 DEF Placement
  <2>3. used \subseteq used' /\ used' \subseteq Slot /\ live' \subseteq used' /\ stray' \subseteq used'
    <3>1. CASE RefillRemove(s)
      BY <2>2, <3>1, RemovalEffect DEF RefillRemove, TypeOK
    <3>2. CASE RefillCheck(s) \/ RefillSpawnFails(s)
      BY <3>2 DEF RefillCheck, RefillSpawnFails, dockerVars, TypeOK
    <3> QED BY <1>1, <3>1, <3>2
  <2>4. TypeOK'
    BY <1>0, <2>1, <2>3 DEF TypeOK, JobPhase
  <2>5. Placement'
    BY <1>0, <2>1, <2>2, <2>3 DEF TypeOK, Placement, Holders
  <2>6. ExclusiveUse' /\ SingleUse'
    BY <1>0, <2>1 DEF ExclusiveUse, SingleUse, Holders
  <2> QED BY <2>4, <2>5, <2>6
<1>2. CASE RefillSpawn(s)
  <2>1. PICK n \in Slot \ used : /\ fresh' = [fresh EXCEPT ![s] = n]
                                 /\ live' = live \cup {n}
                                 /\ used' = used \cup {n}
    BY <1>2 DEF RefillSpawn
  <2>2. /\ job[s] = "spawn" /\ job' = [job EXCEPT ![s] = "push"]
        /\ UNCHANGED <<pool, lost, stray>>
    BY <1>2 DEF RefillSpawn
  <2>3. TypeOK'
    BY <1>0, <2>1, <2>2 DEF TypeOK, JobPhase
  <2>4. Placement'
    BY <1>0, <2>1, <2>2 DEF TypeOK, Placement, Holders
  <2>5. ExclusiveUse' /\ SingleUse'
    BY <1>0, <2>2 DEF ExclusiveUse, SingleUse, Holders
  <2> QED BY <2>3, <2>4, <2>5
<1>3. CASE RefillPush(s) \/ RefillPushClosing(s)
  <2>1. /\ job[s] = "push" /\ job' = [job EXCEPT ![s] = "ended"]
        /\ fresh' = [fresh EXCEPT ![s] = NoSlot]
        /\ pool' \in {pool, pool \cup {fresh[s]}}
        /\ lost' = lost
    BY <1>3 DEF RefillPush, RefillPushClosing
  <2>2. fresh[s] \in used \ (served \cup pool) /\ fresh[s] \in Slot
    BY <2>1 DEF Placement, TypeOK
  <2>3. used' = used /\ live' \subseteq used' /\ stray' \subseteq used'
    <3>1. CASE RefillPush(s)
      BY <3>1 DEF RefillPush, dockerVars, TypeOK
    <3>2. CASE RefillPushClosing(s)
      BY <2>2, <3>2, RemovalEffect DEF RefillPushClosing
    <3> QED BY <1>3, <3>1, <3>2
  <2>4. TypeOK'
    BY <1>0, <2>1, <2>2, <2>3 DEF TypeOK, JobPhase
  <2>5. Placement'
    BY <1>0, <2>1, <2>2, <2>3 DEF TypeOK, Placement, Holders
  <2>6. ExclusiveUse'
    BY <1>0, <2>1, <2>2 DEF TypeOK, Placement, ExclusiveUse, Holders
  <2>7. SingleUse'
    BY <1>0, <2>1, <2>2 DEF SingleUse
  <2> QED BY <2>4, <2>5, <2>6, <2>7
<1> QED BY <1>1, <1>2, <1>3 DEF RefillStep

LEMMA CloseOwned ==
  ASSUME Owned, CloseBegin \/ CloseStep
  PROVE  Owned'
<1> USE PoolAssumption DEF Owned
<1>1. /\ UNCHANGED <<pc, hold, served, inFlight, job, fresh, lost>>
      /\ pool' \subseteq pool /\ closing' \in BOOLEAN /\ closer' \in CloserPhase
  BY DEF CloseBegin, CloseStep, CloseDrain, CloseDrained, CloseReturn, CloseExpires,
         callerVars, jobVars, CloserPhase, TypeOK
<1>2. used' = used /\ live' \subseteq used' /\ stray' \subseteq used'
  <2>1. CASE CloseDrain
    BY <2>1, RemovalEffect DEF CloseDrain, Placement
  <2>2. CASE CloseBegin \/ CloseDrained \/ CloseReturn \/ CloseExpires
    BY <2>2 DEF CloseBegin, CloseDrained, CloseReturn, CloseExpires, dockerVars, TypeOK
  <2> QED BY <2>1, <2>2 DEF CloseStep
<1>3. TypeOK'
  BY <1>1, <1>2 DEF TypeOK
<1>4. Placement'
  BY <1>1, <1>2 DEF TypeOK, Placement, Holders
<1>5. ExclusiveUse' /\ SingleUse'
  BY <1>1 DEF ExclusiveUse, SingleUse, Holders
<1> QED BY <1>3, <1>4, <1>5

LEMMA NextOwned == Owned /\ [Next]_vars => Owned'
<1> SUFFICES ASSUME Owned, [Next]_vars PROVE Owned'
  OBVIOUS
<1>1. CASE UNCHANGED vars
  BY <1>1 DEF vars, callerVars, jobVars, dockerVars, Owned, TypeOK, Placement,
              ExclusiveUse, SingleUse, Holders
<1>2. CASE Next
  BY <1>2, CallerOwned, RefillOwned, CloseOwned DEF Next
<1> QED BY <1>1, <1>2

\* Every variable of the pool keeps its type.
THEOREM PoolTypeCorrect == Spec => []TypeOK
<1>1. Owned => TypeOK
  BY DEF Owned
<1> QED BY <1>1, InitOwned, NextOwned, PTL DEF Spec

\* A sandbox is held by one caller at a time and is not in the pool meanwhile.
THEOREM UseIsExclusive == Spec => []ExclusiveUse
<1>1. Owned => ExclusiveUse
  BY DEF Owned
<1> QED BY <1>1, InitOwned, NextOwned, PTL DEF Spec

\* A container is never given to a second call.
THEOREM ContainersServeOnce == Spec => []SingleUse
<1>1. Owned => SingleUse
  BY DEF Owned
<1> QED BY <1>1, InitOwned, NextOwned, PTL DEF Spec

-----------------------------------------------------------------------------
(* No container is forgotten.                                              *)

LEMMA CallerAccounts ==
  ASSUME Owned, NoOrphans, NEW c \in Caller, AcquireEnter(c) \/ CallerStep(c)
  PROVE  NoOrphans'
<1> SUFFICES ASSUME NEW x \in live' \ stray' PROVE Accounted(x)'
  BY CallerOwned, OrphansBySlot DEF Owned, TypeOK, NoOrphans, Accounted, Holders
<1>1. UNCHANGED <<live, stray, fresh>>
  BY DEF AcquireEnter, CallerStep, AcquireTake, AcquireGiveUp, AcquireRegister,
         AcquireMkdirFails, Release, jobVars, dockerVars
<1>2. Accounted(x) /\ x \in Slot
  BY <1>1, AccountedSlots DEF Owned, TypeOK
<1>3. CASE AcquireEnter(c) \/ AcquireGiveUp(c) \/ AcquireRegister(c)
  BY <1>2, <1>3 DEF AcquireEnter, AcquireGiveUp, AcquireRegister, jobVars, Accounted, Owned, TypeOK
<1>4. CASE AcquireTake(c)
  BY <1>2, <1>4 DEF AcquireTake, jobVars, Accounted, Owned, TypeOK
<1>5. CASE AcquireMkdirFails(c) \/ Release(c)
  <2>1. /\ c \in Holders
        /\ job' = [job EXCEPT ![hold[c]] = "remove"]
        /\ hold' = [hold EXCEPT ![c] = NoSlot]
        /\ pc' = [pc EXCEPT ![c] = "idle"]
        /\ UNCHANGED <<pool, fresh>>
    BY <1>5 DEF AcquireMkdirFails, Release, StartRefill, Holders
  <2>2. hold[c] \in Slot /\ job[hold[c]] = "none"
    BY <2>1 DEF Owned, Placement, TypeOK
  <2> QED BY <1>2, <2>1, <2>2 DEF Accounted, Owned, TypeOK
<1> QED BY <1>3, <1>4, <1>5 DEF CallerStep

LEMMA RefillAccounts ==
  ASSUME Owned, NoOrphans, NEW s \in Slot, RefillStep(s)
  PROVE  NoOrphans'
<1> SUFFICES ASSUME NEW x \in live' \ stray' PROVE Accounted(x)'
  BY RefillOwned, OrphansBySlot DEF Owned, TypeOK, NoOrphans, Accounted, Holders
<1>0. UNCHANGED <<pc, hold>>
  BY DEF RefillStep, RefillRemove, RefillCheck, RefillSpawn, RefillSpawnFails, RefillPush,
         RefillPushClosing, callerVars
<1>a. x \in live \ stray => Accounted(x) /\ x \in Slot
  BY AccountedSlots DEF Owned, TypeOK
<1>1. CASE RefillRemove(s)
  <2>1. x \in live \ stray /\ x # s
    BY <1>1, RemovalEffect DEF RefillRemove, Owned, Placement
  <2> QED BY <1>0, <1>1, <1>a, <2>1 DEF RefillRemove, Accounted, Owned, TypeOK
<1>2. CASE RefillCheck(s)
  BY <1>0, <1>2, <1>a DEF RefillCheck, dockerVars, Accounted, Owned, TypeOK
<1>3. CASE RefillSpawnFails(s)
  <2>1. x \in live \ stray
    BY <1>3 DEF RefillSpawnFails, dockerVars
  <2> QED BY <1>0, <1>3, <1>a, <2>1 DEF RefillSpawnFails, Accounted, Owned, TypeOK
<1>4. CASE RefillSpawn(s)
  <2>1. PICK n \in Slot \ used : fresh' = [fresh EXCEPT ![s] = n] /\ live' = live \cup {n}
    BY <1>4 DEF RefillSpawn
  <2>2. /\ job[s] = "spawn" /\ job' = [job EXCEPT ![s] = "push"]
        /\ UNCHANGED <<pool, stray>>
    BY <1>4 DEF RefillSpawn
  <2>3. job'[s] = "push" /\ fresh'[s] = n
    BY <2>1, <2>2 DEF Owned, TypeOK
  <2>4. CASE x = n
    BY <2>3, <2>4 DEF Accounted
  <2>5. CASE x \in live \ stray
    BY <1>0, <1>a, <2>1, <2>2, <2>5 DEF Accounted, Owned, TypeOK
  <2> QED BY <2>1, <2>2, <2>4, <2>5
<1>5. CASE RefillPush(s)
  <2>1. /\ job[s] = "push" /\ job' = [job EXCEPT ![s] = "ended"]
        /\ fresh' = [fresh EXCEPT ![s] = NoSlot]
        /\ pool' = pool \cup {fresh[s]}
        /\ UNCHANGED <<live, stray>>
    BY <1>5 DEF RefillPush, dockerVars
  <2> QED BY <1>0, <1>a, <2>1 DEF Accounted, Owned, TypeOK
<1>6. CASE RefillPushClosing(s)
  <2>1. /\ job[s] = "push" /\ job' = [job EXCEPT ![s] = "ended"]
        /\ fresh' = [fresh EXCEPT ![s] = NoSlot]
        /\ pool' = pool
    BY <1>6 DEF RefillPushClosing
  <2>2. x \in live \ stray /\ x # fresh[s]
    BY <1>6, <2>1, RemovalEffect DEF RefillPushClosing, Owned, Placement
  <2> QED BY <1>0, <1>a, <2>1, <2>2 DEF Accounted, Owned, TypeOK
<1> QED BY <1>1, <1>2, <1>3, <1>4, <1>5, <1>6 DEF RefillStep

LEMMA CloseAccounts ==
  ASSUME Owned, NoOrphans, CloseBegin \/ CloseStep
  PROVE  NoOrphans'
<1> SUFFICES ASSUME NEW x \in live' \ stray' PROVE Accounted(x)'
  BY CloseOwned, OrphansBySlot DEF Owned, TypeOK, NoOrphans, Accounted, Holders
<1>1. UNCHANGED <<pc, hold, job, fresh>>
  BY DEF CloseBegin, CloseStep, CloseDrain, CloseDrained, CloseReturn, CloseExpires,
         callerVars, jobVars
<1>2. x \in live \ stray /\ (x \in pool => x \in pool')
  <2>1. CASE CloseDrain
    BY <2>1, RemovalEffect DEF CloseDrain, Owned, Placement
  <2>2. CASE CloseBegin \/ CloseDrained \/ CloseReturn \/ CloseExpires
    BY <2>2 DEF CloseBegin, CloseDrained, CloseReturn, CloseExpires, dockerVars
  <2> QED BY <2>1, <2>2 DEF CloseStep
<1>3. Accounted(x)
  BY <1>2, AccountedSlots DEF Owned
<1> QED BY <1>1, <1>2, <1>3 DEF Accounted

LEMMA NextAccounts == Owned /\ NoOrphans /\ [Next]_vars => NoOrphans'
<1> SUFFICES ASSUME Owned, NoOrphans, [Next]_vars PROVE NoOrphans'
  OBVIOUS
<1>1. CASE UNCHANGED vars
  BY <1>1 DEF vars, callerVars, jobVars, dockerVars, NoOrphans, Holders
<1>2. CASE Next
  BY <1>2, CallerAccounts, RefillAccounts, CloseAccounts DEF Next
<1> QED BY <1>1, <1>2

\* Every existing container is in the pool, held, being replaced or known to
\* have resisted its removal: ownership and accounting are one invariant.
THEOREM PoolInvariant == Spec => []PoolInv
<1>1. Init => Owned /\ NoOrphans
  BY InitOwned
<1>2. Owned /\ NoOrphans /\ [Next]_vars => (Owned /\ NoOrphans)'
  BY NextOwned, NextAccounts
<1>3. Owned /\ NoOrphans => PoolInv
  BY DEF Owned, PoolInv
<1> QED BY <1>1, <1>2, <1>3, PTL DEF Spec

-----------------------------------------------------------------------------
(* Capacity is conserved.                                                  *)

\* The closing channel is closed exactly from the start of Close.
ClosingFlag == closing = (closer # "open")

LEMMA FiniteParts ==
  ASSUME TypeOK
  PROVE  /\ IsFiniteSet(pool) /\ IsFiniteSet(Holders) /\ IsFiniteSet(Refilling)
         /\ Cardinality(pool) \in Nat /\ Cardinality(Holders) \in Nat
         /\ Cardinality(Refilling) \in Nat
<1>1. pool \in SUBSET Slot /\ Holders \in SUBSET Caller /\ Refilling \in SUBSET Slot
  BY DEF TypeOK, Holders, Refilling
<1>2. IsFiniteSet(pool) /\ IsFiniteSet(Holders) /\ IsFiniteSet(Refilling)
  BY <1>1, PoolAssumption, FS_Subset
<1> QED BY <1>2, FS_CardinalityType

LEMMA CallerCapacity ==
  ASSUME Owned, CapacityConserved, NEW c \in Caller, AcquireEnter(c) \/ CallerStep(c)
  PROVE  CapacityConserved'
<1> USE DEF Owned
<1>0. UNCHANGED <<closing, lost>>
  BY DEF AcquireEnter, CallerStep, AcquireTake, AcquireGiveUp, AcquireRegister,
         AcquireMkdirFails, Release, jobVars
<1>1. CASE AcquireEnter(c) \/ AcquireGiveUp(c) \/ AcquireRegister(c)
  <2>1. UNCHANGED <<pool, job>>
    BY <1>1 DEF AcquireEnter, AcquireGiveUp, AcquireRegister, jobVars
  <2>2. Holders' = Holders
    BY <1>1 DEF AcquireEnter, AcquireGiveUp, AcquireRegister, Holders, TypeOK
  <2> QED BY <1>0, <2>1, <2>2 DEF CapacityConserved, Refilling
<1>2. CASE AcquireTake(c)
  <2>1. PICK s \in pool : pool' = pool \ {s}
    BY <1>2 DEF AcquireTake
  <2>2. Holders' = Holders \cup {c} /\ c \notin Holders
    BY <1>2 DEF AcquireTake, Holders, TypeOK
  <2>3. Refilling' = Refilling
    BY <1>2 DEF AcquireTake, Refilling, jobVars
  <2>4. Cardinality(pool') = Cardinality(pool) - 1
    BY <2>1, FiniteParts, FS_RemoveElement
  <2>5. Cardinality(Holders') = Cardinality(Holders) + 1
    BY <2>2, FiniteParts, FS_AddElement
  <2> QED BY <1>0, <2>3, <2>4, <2>5, FiniteParts DEF CapacityConserved, TypeOK
<1>3. CASE AcquireMkdirFails(c) \/ Release(c)
  <2>1. /\ c \in Holders
        /\ job' = [job EXCEPT ![hold[c]] = "remove"]
        /\ pc' = [pc EXCEPT ![c] = "idle"]
        /\ pool' = pool
    BY <1>3 DEF AcquireMkdirFails, Release, StartRefill, Holders
  <2>2. hold[c] \in Slot /\ job[hold[c]] = "none"
    BY <2>1 DEF Placement, TypeOK
  <2>3. Holders' = Holders \ {c}
    BY <2>1 DEF Holders, TypeOK
  <2>4. Refilling' = Refilling \cup {hold[c]} /\ hold[c] \notin Refilling
    BY <2>1, <2>2 DEF Refilling, TypeOK
  <2>5. Cardinality(Holders') = Cardinality(Holders) - 1
    BY <2>1, <2>3, FiniteParts, FS_RemoveElement
  <2>6. Cardinality(Refilling') = Cardinality(Refilling) + 1
    BY <2>4, FiniteParts, FS_AddElement
  <2> QED BY <1>0, <2>1, <2>5, <2>6, FiniteParts DEF CapacityConserved, TypeOK
<1> QED BY <1>1, <1>2, <1>3 DEF CallerStep

LEMMA RefillCapacity ==
  ASSUME Owned, CapacityConserved, NEW s \in Slot, RefillStep(s)
  PROVE  CapacityConserved'
<1> USE DEF Owned
<1> SUFFICES ASSUME ~closing PROVE CapacityConserved'
  BY DEF RefillStep, RefillRemove, RefillCheck, RefillSpawn, RefillSpawnFails, RefillPush,
         RefillPushClosing, CapacityConserved
<1>0. Holders' = Holders /\ closing' = closing
  BY DEF RefillStep, RefillRemove, RefillCheck, RefillSpawn, RefillSpawnFails, RefillPush,
         RefillPushClosing, callerVars, Holders
<1>1. CASE RefillRemove(s) \/ RefillCheck(s) \/ RefillSpawn(s)
  <2>1. UNCHANGED <<pool, lost>>
    BY <1>1 DEF RefillRemove, RefillCheck, RefillSpawn
  <2>2. Refilling' = Refilling
    BY <1>1 DEF RefillRemove, RefillCheck, RefillSpawn, Refilling, TypeOK
  <2> QED BY <1>0, <2>1, <2>2 DEF CapacityConserved
<1>2. CASE RefillSpawnFails(s)
  <2>1. pool' = pool /\ lost' = lost + 1
    BY <1>2 DEF RefillSpawnFails
  <2>2. Refilling' = Refilling \ {s} /\ s \in Refilling
    BY <1>2 DEF RefillSpawnFails, Refilling, TypeOK
  <2>3. Cardinality(Refilling') = Cardinality(Refilling) - 1
    BY <2>2, FiniteParts, FS_RemoveElement
  <2>4. /\ Cardinality(pool) \in Nat /\ Cardinality(Holders) \in Nat
        /\ Cardinality(Refilling) \in Nat /\ lost \in Nat
    BY FiniteParts DEF TypeOK
  <2>5. Cardinality(pool) + Cardinality(Holders) + Cardinality(Refilling) + lost = PoolSize
    BY DEF CapacityConserved
  <2> HIDE DEF Owned
  <2>6. Cardinality(pool') + Cardinality(Holders') + Cardinality(Refilling') + lost' = PoolSize
    BY <1>0, <2>1, <2>3, <2>4, <2>5
  <2> QED BY <2>6 DEF CapacityConserved
<1>3. CASE RefillPush(s)
  <2>1. pool' = pool \cup {fresh[s]} /\ fresh[s] \notin pool /\ lost' = lost
    BY <1>3 DEF RefillPush, Placement
  <2>2. Refilling' = Refilling \ {s} /\ s \in Refilling
    BY <1>3 DEF RefillPush, Refilling, TypeOK
  <2>3. Cardinality(Refilling') = Cardinality(Refilling) - 1
    BY <2>2, FiniteParts, FS_RemoveElement
  <2>4. Cardinality(pool') = Cardinality(pool) + 1
    BY <2>1, FiniteParts, FS_AddElement
  <2> QED BY <1>0, <2>1, <2>3, <2>4, FiniteParts DEF CapacityConserved, TypeOK
<1>4. ~RefillPushClosing(s)
  BY DEF RefillPushClosing
<1> QED BY <1>1, <1>2, <1>3, <1>4 DEF RefillStep

LEMMA NextCapacity ==
  Owned /\ ClosingFlag /\ CapacityConserved /\ [Next]_vars => (ClosingFlag /\ CapacityConserved)'
<1> SUFFICES ASSUME Owned, ClosingFlag, CapacityConserved, [Next]_vars
             PROVE  (ClosingFlag /\ CapacityConserved)'
  OBVIOUS
<1>1. CASE UNCHANGED vars
  BY <1>1 DEF vars, callerVars, jobVars, dockerVars, ClosingFlag, CapacityConserved,
              Holders, Refilling
<1>2. CASE \E c \in Caller : AcquireEnter(c) \/ CallerStep(c)
  <2>1. ClosingFlag'
    BY <1>2 DEF ClosingFlag, AcquireEnter, CallerStep, AcquireTake, AcquireGiveUp,
                AcquireRegister, AcquireMkdirFails, Release
  <2> QED BY <1>2, <2>1, CallerCapacity
<1>3. CASE \E s \in Slot : RefillStep(s)
  <2>1. ClosingFlag'
    BY <1>3 DEF ClosingFlag, RefillStep, RefillRemove, RefillCheck, RefillSpawn,
                RefillSpawnFails, RefillPush, RefillPushClosing
  <2> QED BY <1>3, <2>1, RefillCapacity
<1>4. CASE CloseBegin \/ CloseStep
  <2>1. closing' = TRUE /\ closer' # "open"
    BY <1>4 DEF CloseBegin, CloseStep, CloseDrain, CloseDrained, CloseReturn, CloseExpires,
                ClosingFlag, Owned, TypeOK
  <2> QED BY <2>1 DEF ClosingFlag, CapacityConserved
<1> QED BY <1>1, <1>2, <1>3, <1>4 DEF Next

\* Until Close, idle, held, in replacement and lost capacity add up to
\* PoolSize. The only way to shrink the pool is a failed spawn.
THEOREM CapacityIsConserved == Spec => []CapacityConserved
<1>1. Init => ClosingFlag /\ CapacityConserved
  <2> SUFFICES ASSUME Init PROVE ClosingFlag /\ CapacityConserved
    OBVIOUS
  <2>1. TypeOK
    BY InitOwned DEF Owned
  <2>2. Holders = {} /\ Refilling = {}
    BY DEF Init, Holders, Refilling
  <2>3. Cardinality(pool) + 0 + 0 + (PoolSize - Cardinality(pool)) = PoolSize
    BY <2>1, FiniteParts, PoolAssumption
  <2>4. Cardinality(Holders) = 0 /\ Cardinality(Refilling) = 0
    BY <2>2, FS_EmptySet
  <2> QED BY <2>3, <2>4 DEF Init, ClosingFlag, CapacityConserved
<1>2. Owned /\ ClosingFlag /\ CapacityConserved /\ [Next]_vars
        => (Owned /\ ClosingFlag /\ CapacityConserved)'
  BY NextOwned, NextCapacity
<1> QED BY <1>1, <1>2, InitOwned, PTL DEF Spec

-----------------------------------------------------------------------------
\* No container is forgotten: each one that exists is in the pool, held by a
\* caller, in the hands of a refill goroutine, or resisted its removal.
THEOREM ContainersAreAccountedFor == Spec => []NoOrphans
<1>1. PoolInv => NoOrphans
  BY DEF PoolInv
<1> QED BY <1>1, PoolInvariant, PTL

(* Close waits for what was registered.                                    *)

\* A sandbox in use is in the in-flight map: Acquire registers it before it
\* returns, and Release removes nobody else's.
Registered == \A c \in Caller : pc[c] = "using" => hold[c] \in inFlight

LEMMA NextRegistered == Owned /\ Registered /\ [Next]_vars => Registered'
<1> SUFFICES ASSUME Owned, Registered, [Next]_vars, NEW c \in Caller, pc'[c] = "using"
             PROVE  hold'[c] \in inFlight'
  BY DEF Registered
<1>1. CASE UNCHANGED <<pc, hold, inFlight>>
  BY <1>1 DEF Registered
<1>2. ASSUME NEW d \in Caller, AcquireEnter(d) \/ AcquireTake(d) \/ AcquireGiveUp(d)
                                 \/ AcquireMkdirFails(d)
      PROVE  hold'[c] \in inFlight'
  <2>1. d # c /\ pc[c] = "using" /\ hold'[c] = hold[c] /\ inFlight' = inFlight
    BY <1>2 DEF AcquireEnter, AcquireTake, AcquireGiveUp, AcquireMkdirFails, StartRefill,
                Owned, TypeOK
  <2> QED BY <2>1 DEF Registered
<1>3. ASSUME NEW d \in Caller, AcquireRegister(d)
      PROVE  hold'[c] \in inFlight'
  <2>1. hold' = hold /\ inFlight' = inFlight \cup {hold[d]} /\ (c = d \/ pc[c] = "using")
    BY <1>3 DEF AcquireRegister, Owned, TypeOK
  <2> QED BY <2>1 DEF Registered
<1>4. ASSUME NEW d \in Caller, Release(d)
      PROVE  hold'[c] \in inFlight'
  <2>1. /\ d # c /\ pc[c] = "using" /\ pc[d] = "using" /\ hold'[c] = hold[c]
        /\ inFlight' = inFlight \ {hold[d]}
    BY <1>4 DEF Release, StartRefill, Owned, TypeOK
  <2>2. hold[c] # hold[d]
    BY <2>1 DEF Owned, ExclusiveUse, Holders
  <2> QED BY <2>1, <2>2 DEF Registered
<1>5. CASE \E s \in Slot : RefillStep(s)
  BY <1>1, <1>5 DEF RefillStep, RefillRemove, RefillCheck, RefillSpawn, RefillSpawnFails,
                    RefillPush, RefillPushClosing, callerVars
<1>6. CASE CloseBegin \/ CloseStep
  BY <1>1, <1>6 DEF CloseBegin, CloseStep, CloseDrain, CloseDrained, CloseReturn,
                    CloseExpires, callerVars
<1>7. CASE UNCHANGED vars
  BY <1>1, <1>7 DEF vars, callerVars
<1> QED BY <1>2, <1>3, <1>4, <1>5, <1>6, <1>7 DEF Next, CallerStep

\* Only CloseReturn ends Close with success, and it looks at the map.
LEMMA OnlyReturnCloses ==
  ASSUME [Next]_vars, closer # "closed", closer' = "closed"
  PROVE  inFlight = {} /\ UNCHANGED pc
<1>1. ~UNCHANGED vars
  BY DEF vars
<1>2. ~\E c \in Caller : AcquireEnter(c) \/ CallerStep(c)
  BY DEF AcquireEnter, CallerStep, AcquireTake, AcquireGiveUp, AcquireRegister,
         AcquireMkdirFails, Release
<1>3. ~\E s \in Slot : RefillStep(s)
  BY DEF RefillStep, RefillRemove, RefillCheck, RefillSpawn, RefillSpawnFails, RefillPush,
         RefillPushClosing
<1>4. CloseReturn
  BY <1>1, <1>2, <1>3 DEF Next, CloseBegin, CloseStep, CloseDrain, CloseDrained, CloseExpires
<1> QED BY <1>4 DEF CloseReturn, callerVars

\* Close never reports success while a registered sandbox is in use.
THEOREM CloseWaits == Spec => CloseWaitsForRegistered
<1>1. Init => Registered
  BY DEF Init, Registered
<1>2. Owned /\ Registered /\ [Next]_vars => (Owned /\ Registered)'
  BY NextOwned, NextRegistered
<1>3. Owned /\ Registered /\ [Next]_vars
        => [closer # "closed" /\ closer' = "closed" => \A c \in Caller : pc[c] # "using"]_vars
  BY OnlyReturnCloses DEF Registered
<1> QED BY <1>1, <1>2, <1>3, InitOwned, PTL DEF Spec, CloseWaitsForRegistered

=============================================================================
