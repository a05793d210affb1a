-------------------------- MODULE TaskStreamProofs --------------------------
(***************************************************************************)
(* Proofs about TaskStream, for every set of tasks, workers and consumers, *)
(* every placement of consumers on workers and every MaxRetry.             *)
(***************************************************************************)
EXTENDS TaskStream, FiniteSetTheorems, WellFoundedInduction, TLAPS

\* The part of the inductive invariant that survives a repeated XADD.
BaseInv == TypeOK /\ Holding /\ OutcomeOpen /\ AttemptBounded

-----------------------------------------------------------------------------
(* XADD only ever appends: entries already in the stream keep their place. *)

\* What an XADD of e that leaves n entries does to the stream.
LEMMA XAddAppends ==
  ASSUME log \in Seq(Entry), NEW e \in Entry, NEW n \in {0, 1, 2}, XAdd(e, n)
  PROVE  /\ log' \in Seq(Entry)
         /\ Len(log') = Len(log) + n
         /\ \A i \in 1..Len(log) : log'[i] = log[i]
         /\ \A i \in (Len(log) + 1)..Len(log') : log'[i] = e
<1>1. CASE n = 0
  BY <1>1 DEF XAdd
<1>2. CASE n = 1
  <2>1. log' = Append(log, e)
    BY <1>2 DEF XAdd
  <2> QED BY <1>2, <2>1
<1>3. CASE n = 2
  <2> DEFINE m == Append(log, e)
  <2>1. log' = Append(m, e)
    BY <1>3 DEF XAdd
  <2>2. m \in Seq(Entry) /\ Len(m) = Len(log) + 1 /\ m[Len(log) + 1] = e
        /\ \A i \in 1..Len(log) : m[i] = log[i]
    OBVIOUS
  <2> HIDE DEF m
  <2>3. /\ log' \in Seq(Entry)
        /\ Len(log') = Len(m) + 1
        /\ log'[Len(m) + 1] = e
        /\ \A i \in 1..Len(m) : log'[i] = m[i]
    BY <2>1, <2>2
  <2> QED BY <1>3, <2>2, <2>3
<1> QED BY <1>1, <1>2, <1>3

LEMMA CopiesRange ==
  ASSUME NEW c \in Consumer
  PROVE  /\ Copies \subseteq {0, 1, 2}
         /\ CopiesFor(c) \subseteq {0, 1, 2}
         /\ "xaddTwice" \notin Faults => Copies \subseteq {0, 1} /\ CopiesFor(c) \subseteq {0, 1}
BY DEF Copies, CopiesFor

-----------------------------------------------------------------------------
LEMMA InitBase == Init => BaseInv
BY ConstAssumption DEF Init, BaseInv, TypeOK, Holding, OutcomeOpen, AttemptBounded,
                       Entry, Phase

LEMMA PublishBase ==
  ASSUME BaseInv, NEW t \in Task, Publish(t)
  PROVE  BaseInv'
<1> DEFINE e == [task |-> t, attempt |-> 0]
<1>1. PICK n \in Copies : XAdd(e, n)
  BY DEF Publish
<1>2. n \in {0, 1, 2} /\ e \in Entry
  BY DEF Copies, Entry
<1>3. /\ log' \in Seq(Entry)
      /\ Len(log') = Len(log) + n
      /\ \A i \in 1..Len(log) : log'[i] = log[i]
      /\ \A i \in (Len(log) + 1)..Len(log') : log'[i] = e
  BY <1>1, <1>2, XAddAppends DEF BaseInv, TypeOK
<1>4. accepted' \subseteq sent' /\ sent' \subseteq Task /\ sent' = sent \cup {t}
  BY DEF Publish, BaseInv, TypeOK
<1>5. UNCHANGED <<next, pel, dlq, pc, cur, cancelled, done>>
  BY DEF Publish
<1>6. e.task = t /\ e.attempt = 0
  OBVIOUS
<1> HIDE DEF e
<1>7. TypeOK'
  BY <1>2, <1>3, <1>4, <1>5 DEF BaseInv, TypeOK
<1>8. \A i \in DOMAIN log' : (i \in DOMAIN log /\ log'[i] = log[i]) \/ log'[i] = e
  BY <1>2, <1>3 DEF BaseInv, TypeOK
<1>9. Holding'
  BY <1>4, <1>5, <1>6, <1>8 DEF BaseInv, Holding
<1>10. AttemptBounded'
  BY <1>6, <1>8, ConstAssumption DEF BaseInv, AttemptBounded
<1>11. OutcomeOpen'
  <2> SUFFICES ASSUME NEW c \in Consumer
               PROVE  /\ pc[c] \in {"handle", "retry", "bury"} => cur[c] \notin done \cup dlq
                      /\ pc[c] = "retry" => log'[cur[c]].attempt + 1 < MaxRetry
    BY <1>5 DEF OutcomeOpen
  <2>1. pc[c] = "retry" => cur[c] \in 1..Len(log)
    BY DEF BaseInv, TypeOK, Holding
  <2> QED BY <1>3, <2>1 DEF BaseInv, OutcomeOpen
<1> QED BY <1>7, <1>9, <1>10, <1>11 DEF BaseInv

LEMMA RetryBase ==
  ASSUME BaseInv, NEW c \in Consumer, Retry(c)
  PROVE  BaseInv'
<1> DEFINE e == [log[cur[c]] EXCEPT !.attempt = @ + 1]
<1>1. PICK n \in CopiesFor(c) : XAdd(e, n)
  BY DEF Retry
<1>2. cur[c] \in 1..next /\ cur[c] \in 1..Len(log)
  BY DEF Retry, BaseInv, TypeOK, Holding
<1>3. log[cur[c]] \in Entry
  BY <1>2 DEF BaseInv, TypeOK
<1>4. /\ n \in {0, 1, 2} /\ e \in Entry
      /\ e.task = log[cur[c]].task /\ e.attempt = log[cur[c]].attempt + 1
  BY <1>3, CopiesRange DEF Entry
<1>5. /\ log' \in Seq(Entry)
      /\ Len(log') = Len(log) + n
      /\ \A i \in 1..Len(log) : log'[i] = log[i]
      /\ \A i \in (Len(log) + 1)..Len(log') : log'[i] = e
  BY <1>1, <1>4, XAddAppends DEF BaseInv, TypeOK
<1> HIDE DEF e
<1>6. TypeOK'
  BY <1>4, <1>5 DEF BaseInv, TypeOK, Retry, Goto, Phase
<1>7. Holding'
  <2>a. n \in {0, 1, 2} /\ DOMAIN log = 1..Len(log) /\ DOMAIN log' = 1..Len(log')
        /\ Len(log) \in Nat
    BY <1>4, <1>5 DEF BaseInv, TypeOK
  <2>1. \A i \in DOMAIN log' : (i \in DOMAIN log /\ log'[i] = log[i]) \/ log'[i] = e
    BY <1>5, <2>a
  <2>0. e.task \in sent /\ sent' = sent
    BY <1>2, <1>4 DEF BaseInv, TypeOK, Holding, Retry
  <2>2. \A i \in DOMAIN log' : log'[i].task \in sent'
    BY <2>0, <2>1 DEF BaseInv, Holding
  <2> QED BY <1>2, <2>2 DEF BaseInv, TypeOK, Holding, Retry, Goto
<1>8. AttemptBounded'
  <2>1. e.attempt < MaxRetry
    BY <1>4 DEF BaseInv, OutcomeOpen, Retry
  <2> QED BY <2>1, <1>4, <1>5 DEF BaseInv, TypeOK, AttemptBounded
<1>9. OutcomeOpen'
  BY <1>5 DEF BaseInv, TypeOK, Holding, OutcomeOpen, Retry, Goto, Phase
<1> QED BY <1>6, <1>7, <1>8, <1>9 DEF BaseInv

\* Reading hands an entry nobody has held to a consumer that holds nothing.
LEMMA ReadBase ==
  ASSUME BaseInv, NEW c \in Consumer, Read(c) \/ ReadReplyLost(c)
  PROVE  BaseInv'
<1>1. FirstPhase(log[next + 1].task) \in {"handle", "ack", "bury"}
  BY DEF FirstPhase
<1>2. TypeOK'
  <2>1. next' = next + 1 /\ next < Len(log) /\ pel' = pel \cup {next + 1}
        /\ UNCHANGED <<log, dlq, cancelled, sent, accepted, done>>
    BY DEF Read, ReadReplyLost
  <2>2. pc' \in [Consumer -> Phase] /\ cur' \in [Consumer -> 0..(next + 1)]
    BY <1>1 DEF BaseInv, TypeOK, Read, ReadReplyLost, Goto, Phase
  <2> QED BY <2>1, <2>2 DEF BaseInv, TypeOK
<1>3. Holding'
  BY <1>1 DEF BaseInv, TypeOK, Holding, Read, ReadReplyLost, Goto, Phase
<1>4. AttemptBounded'
  BY DEF BaseInv, AttemptBounded, Read, ReadReplyLost
<1>5. OutcomeOpen'
  BY <1>1 DEF BaseInv, TypeOK, Holding, OutcomeOpen, Read, ReadReplyLost, Goto, Phase
<1> QED BY <1>2, <1>3, <1>4, <1>5 DEF BaseInv

\* The steps of a busy consumer that leave the stream alone.
LEMMA ConsumerBase ==
  ASSUME BaseInv, NEW c \in Consumer,
         HandlerOk(c) \/ HandlerError(c) \/ DeadLetter(c) \/ Ack(c) \/ Exit(c)
  PROVE  BaseInv'
<1>1. CASE HandlerOk(c)
  <2>1. TypeOK' /\ Holding' /\ AttemptBounded'
    BY <1>1 DEF BaseInv, TypeOK, Holding, AttemptBounded, HandlerOk, Goto, Phase
  <2>2. /\ pc' = [pc EXCEPT ![c] = "ack"] /\ pc[c] = "handle"
        /\ done' = done \cup {cur[c]}
        /\ UNCHANGED <<log, cur, dlq>>
    BY <1>1 DEF HandlerOk, Goto
  <2>3. ASSUME NEW d \in Consumer, pc'[d] \in {"handle", "retry", "bury"}
        PROVE  pc[d] = pc'[d] /\ cur[d] # cur[c]
    <3>1. d # c /\ pc[d] = pc'[d]
      BY <2>2, <2>3 DEF BaseInv, TypeOK
    <3>2. cur[c] \in 1..next
      BY <2>2 DEF BaseInv, Holding
    <3> QED BY <3>1, <3>2 DEF BaseInv, Holding, TypeOK
  <2>4. OutcomeOpen'
    BY <2>2, <2>3 DEF BaseInv, OutcomeOpen
  <2> QED BY <2>1, <2>4 DEF BaseInv
<1>2. CASE HandlerError(c)
  <2>0. cur[c] \in 1..Len(log) /\ log[cur[c]] \in Entry
    BY <1>2 DEF BaseInv, TypeOK, Holding, HandlerError
  <2>1. /\ AfterFailure(log[cur[c]]) \in {"bury", "retry"}
        /\ AfterFailure(log[cur[c]]) = "retry" => log[cur[c]].attempt + 1 < MaxRetry
    BY <2>0, ConstAssumption DEF AfterFailure, Entry
  <2>2. TypeOK' /\ Holding' /\ AttemptBounded'
    BY <1>2, <2>1 DEF BaseInv, TypeOK, Holding, AttemptBounded, HandlerError, Goto, Phase
  <2>3. OutcomeOpen'
    BY <1>2, <2>1 DEF BaseInv, TypeOK, Holding, OutcomeOpen, HandlerError, Goto, Phase
  <2> QED BY <2>2, <2>3 DEF BaseInv
<1>3. CASE DeadLetter(c)
  <2>1. dlq' \subseteq dlq \cup {cur[c]}
    BY <1>3 DEF DeadLetter
  <2>2. TypeOK' /\ Holding' /\ AttemptBounded'
    BY <1>3, <2>1 DEF BaseInv, TypeOK, Holding, AttemptBounded, DeadLetter, Goto, Phase
  <2>3. /\ pc' = [pc EXCEPT ![c] = "ack"] /\ pc[c] = "bury"
        /\ UNCHANGED <<log, cur, done>>
    BY <1>3 DEF DeadLetter, Goto
  <2>4. ASSUME NEW d \in Consumer, pc'[d] \in {"handle", "retry", "bury"}
        PROVE  pc[d] = pc'[d] /\ cur[d] # cur[c]
    BY <2>3, <2>4 DEF BaseInv, TypeOK, Holding
  <2>5. OutcomeOpen'
    BY <2>1, <2>3, <2>4 DEF BaseInv, OutcomeOpen
  <2> QED BY <2>2, <2>5 DEF BaseInv
<1>4. CASE Ack(c)
  <2>0. pel' \subseteq pel
    BY <1>4 DEF Ack
  <2>1. PICK p \in {"read", "down"} : pc' = [pc EXCEPT ![c] = p]
    BY <1>4 DEF Ack, Goto
  <2>2. /\ cur' = [cur EXCEPT ![c] = 0]
        /\ UNCHANGED <<log, next, dlq, cancelled, sent, accepted, done>>
    BY <1>4 DEF Ack
  <2>3. TypeOK'
    BY <2>0, <2>1, <2>2 DEF BaseInv, TypeOK, Phase
  <2>4. Holding' /\ AttemptBounded'
    BY <2>1, <2>2 DEF BaseInv, TypeOK, Holding, AttemptBounded
  <2>5. OutcomeOpen'
    BY <2>1, <2>2 DEF BaseInv, TypeOK, OutcomeOpen
  <2> QED BY <2>3, <2>4, <2>5 DEF BaseInv
<1>5. CASE Exit(c)
  BY <1>5 DEF BaseInv, TypeOK, Holding, OutcomeOpen, AttemptBounded, Exit, Goto, Phase
<1> QED BY <1>1, <1>2, <1>3, <1>4, <1>5

LEMMA WorkerBase ==
  ASSUME BaseInv, NEW w \in Worker, Shutdown(w) \/ Die(w) \/ Start(w)
  PROVE  BaseInv'
<1>1. CASE Shutdown(w)
  BY <1>1 DEF BaseInv, TypeOK, Holding, OutcomeOpen, AttemptBounded, Shutdown
<1>2. CASE Die(w)
  BY <1>2 DEF BaseInv, TypeOK, Holding, OutcomeOpen, AttemptBounded, Die, Phase
<1>3. CASE Start(w)
  BY <1>3 DEF BaseInv, TypeOK, Holding, OutcomeOpen, AttemptBounded, Start, Phase
<1> QED BY <1>1, <1>2, <1>3

LEMMA NextBase == BaseInv /\ [Next]_vars => BaseInv'
<1> SUFFICES ASSUME BaseInv, [Next]_vars PROVE BaseInv'
  OBVIOUS
<1>1. CASE UNCHANGED vars
  BY <1>1 DEF BaseInv, TypeOK, Holding, OutcomeOpen, AttemptBounded, vars
<1>2. CASE \E t \in Task : Publish(t)
  BY <1>2, PublishBase
<1>3. CASE \E c \in Consumer : Step(c) \/ ReadReplyLost(c)
  BY <1>3, RetryBase, ReadBase, ConsumerBase DEF Step
<1>4. CASE \E w \in Worker : Shutdown(w) \/ Die(w) \/ Start(w)
  BY <1>4, WorkerBase
<1> QED BY <1>1, <1>2, <1>3, <1>4 DEF Next

\* The base invariant holds in every reachable state, whatever the faults.
LEMMA BaseInvariant == Spec => []BaseInv
BY InitBase, NextBase, PTL DEF Spec

\* Every variable of the queue keeps its type.
THEOREM TypeCorrect == Spec => []TypeOK
<1>1. BaseInv => TypeOK
  BY DEF BaseInv
<1> QED BY <1>1, BaseInvariant, PTL

\* No entry ever carries an attempt that maxRetry rules out, even when the
\* Redis client repeats XADDs.
THEOREM AttemptsAreBounded == Spec => []AttemptBounded
<1>1. BaseInv => AttemptBounded
  BY DEF BaseInv
<1> QED BY <1>1, BaseInvariant, PTL

-----------------------------------------------------------------------------
(* The chain of attempts, when no XADD is repeated.                        *)

\* A spent entry stays spent in a step that leaves the consumers' grip on old
\* entries, the outcomes and the delivery cursor alone or moves them on.
LEMMA ChainKept ==
  ASSUME BaseInv, Chain, UNCHANGED log,
         next' \in Nat, next <= next',
         \A i \in 1..next : Spent(i) => Spent(i)'
  PROVE  Chain'
<1>1. SUFFICES ASSUME NEW i \in DOMAIN log, NEW j \in DOMAIN log,
                      i < j, log[i].task = log[j].task
               PROVE  log[i].attempt < log[j].attempt /\ Spent(i)'
  BY DEF Chain
<1>2. log[i].attempt < log[j].attempt /\ Spent(i)
  BY <1>1 DEF Chain
<1>3. i \in 1..next
  BY <1>2 DEF BaseInv, TypeOK, Spent
<1> QED BY <1>2, <1>3

LEMMA InitChain == Init => Chain
BY DEF Init, Chain

\* A published run has no earlier entry.
LEMMA PublishChain ==
  ASSUME BaseInv, Chain, "xaddTwice" \notin Faults, NEW t \in Task, Publish(t)
  PROVE  Chain'
<1> DEFINE e == [task |-> t, attempt |-> 0]
<1>1. PICK n \in Copies : XAdd(e, n)
  BY DEF Publish
<1>2. n \in {0, 1} /\ e \in Entry /\ e.task = t
  BY DEF Copies, Entry
<1>3. /\ log' \in Seq(Entry)
      /\ Len(log') = Len(log) + n
      /\ \A i \in 1..Len(log) : log'[i] = log[i]
      /\ \A i \in (Len(log) + 1)..Len(log') : log'[i] = e
  BY <1>1, <1>2, XAddAppends DEF BaseInv, TypeOK
<1>4. UNCHANGED <<next, pc, cur, done, dlq>> /\ t \notin sent
  BY DEF Publish
<1> HIDE DEF e
<1> SUFFICES ASSUME NEW i \in 1..Len(log'), NEW j \in 1..Len(log'),
                    i < j, log'[i].task = log'[j].task
             PROVE  log'[i].attempt < log'[j].attempt /\ Spent(i)'
  BY <1>3 DEF Chain
<1>5. i \in 1..Len(log) /\ log'[i] = log[i]
  BY <1>2, <1>3 DEF BaseInv, TypeOK
<1>6. j \in 1..Len(log) /\ log'[j] = log[j]
  <2>1. log[i].task \in sent
    BY <1>5 DEF BaseInv, TypeOK, Holding
  <2>2. log'[j] # e
    BY <1>2, <1>4, <1>5, <2>1
  <2> QED BY <1>2, <1>3, <2>2 DEF BaseInv, TypeOK
<1>7. log[i].attempt < log[j].attempt /\ Spent(i)
  BY <1>5, <1>6 DEF Chain, BaseInv, TypeOK
<1> QED BY <1>4, <1>5, <1>6, <1>7 DEF Spent

\* A retry extends the chain: the entry it replaces is the last of its run,
\* because it is not spent, and becomes spent by this very step.
LEMMA RetryChain ==
  ASSUME BaseInv, Chain, "xaddTwice" \notin Faults, NEW c \in Consumer, Retry(c)
  PROVE  Chain'
<1> DEFINE k == cur[c]
           e == [log[k] EXCEPT !.attempt = @ + 1]
<1>1. PICK n \in CopiesFor(c) : XAdd(e, n)
  BY DEF Retry
<1>2. k \in 1..next /\ k \in 1..Len(log) /\ log[k] \in Entry
  BY DEF Retry, BaseInv, TypeOK, Holding
<1>3. /\ n \in {0, 1} /\ e \in Entry
      /\ e.task = log[k].task /\ e.attempt = log[k].attempt + 1
  BY <1>2, CopiesRange DEF Entry
<1>4. /\ log' \in Seq(Entry)
      /\ Len(log') = Len(log) + n
      /\ \A i \in 1..Len(log) : log'[i] = log[i]
      /\ \A i \in (Len(log) + 1)..Len(log') : log'[i] = e
  BY <1>1, <1>3, XAddAppends DEF BaseInv, TypeOK
<1>5. /\ UNCHANGED <<next, cur, done, dlq>>
      /\ pc[c] = "retry"
      /\ pc' = [pc EXCEPT ![c] = "ack"]
  BY DEF Retry, Goto
<1>6. ~Spent(k)
  BY <1>5 DEF Spent
<1>7. \A j \in 1..Len(log) : log[j].task = log[k].task => j <= k
  BY <1>2, <1>6 DEF Chain, BaseInv, TypeOK
<1>8. Spent(k)'
  <2>1. k <= next' /\ k \notin (done \cup dlq)'
    BY <1>2, <1>5 DEF BaseInv, TypeOK, OutcomeOpen
  <2>2. \A d \in Consumer : cur[d] = k => d = c
    BY <1>2 DEF BaseInv, Holding
  <2>3. pc'[c] = "ack"
    BY <1>5 DEF BaseInv, TypeOK
  <2> QED BY <1>5, <2>1, <2>2, <2>3 DEF Spent
<1>9. \A i \in 1..Len(log) : Spent(i) => Spent(i)'
  BY <1>5 DEF Spent, BaseInv, TypeOK
<1> HIDE DEF e
<1> SUFFICES ASSUME NEW i \in 1..Len(log'), NEW j \in 1..Len(log'),
                    i < j, log'[i].task = log'[j].task
             PROVE  log'[i].attempt < log'[j].attempt /\ Spent(i)'
  BY <1>4 DEF Chain
<1>10. i \in 1..Len(log) /\ log'[i] = log[i]
  BY <1>3, <1>4 DEF BaseInv, TypeOK
<1>11. CASE j \in 1..Len(log)
  <2>1. log'[j] = log[j]
    BY <1>4, <1>11
  <2>2. log[i].attempt < log[j].attempt /\ Spent(i)
    BY <1>10, <1>11, <2>1 DEF Chain, BaseInv, TypeOK
  <2> QED BY <1>9, <1>10, <2>1, <2>2
<1>12. CASE j = Len(log) + 1
  <2>1. log'[j] = e /\ log[i].task = log[k].task
    BY <1>3, <1>4, <1>10, <1>12 DEF BaseInv, TypeOK
  <2>2. CASE i = k
    <3>1. log[k].attempt \in Nat
      BY <1>2 DEF Entry
    <3>2. log'[i].attempt = log[k].attempt /\ log'[j].attempt = log[k].attempt + 1
      BY <1>3, <1>10, <2>1, <2>2
    <3>3. Spent(i)'
      BY <1>5, <1>8, <2>2 DEF Spent
    <3> QED BY <3>1, <3>2, <3>3
  <2>3. CASE i < k
    <3>1. log[i].attempt < log[k].attempt /\ Spent(i)
      BY <1>2, <1>10, <2>1, <2>3 DEF Chain, BaseInv, TypeOK
    <3>a. log[i] \in Entry /\ log[k] \in Entry
      BY <1>2, <1>10 DEF BaseInv, TypeOK
    <3>2. log[i].attempt \in Nat /\ log[k].attempt \in Nat
      BY <3>a DEF Entry
    <3> QED BY <1>3, <1>9, <1>10, <2>1, <3>1, <3>2
  <2> QED BY <1>2, <1>7, <1>10, <2>1, <2>2, <2>3
<1> QED BY <1>3, <1>4, <1>11, <1>12 DEF BaseInv, TypeOK

LEMMA ConsumerChain ==
  ASSUME BaseInv, Chain, NEW c \in Consumer,
         \/ Read(c) \/ ReadReplyLost(c) \/ HandlerOk(c) \/ HandlerError(c)
         \/ DeadLetter(c) \/ Ack(c) \/ Exit(c)
  PROVE  Chain'
<1>1. CASE Read(c) \/ ReadReplyLost(c)
  <2>1. UNCHANGED <<log, done, dlq>> /\ next' = next + 1
    BY <1>1 DEF Read, ReadReplyLost
  <2>2. \A i \in 1..next, d \in Consumer :
          cur'[d] = i => cur[d] = i /\ (pc[d] = "ack" => pc'[d] = "ack")
    BY <1>1 DEF Read, ReadReplyLost, Goto, BaseInv, TypeOK
  <2> QED BY <2>1, <2>2, ChainKept DEF Spent, BaseInv, TypeOK
<1>2. CASE HandlerOk(c) \/ HandlerError(c) \/ DeadLetter(c)
  <2>1. UNCHANGED <<log, next, cur>> /\ pc[c] \in {"handle", "bury"}
    BY <1>2 DEF HandlerOk, HandlerError, DeadLetter
  <2>2. done' \cup dlq' \subseteq done \cup dlq \cup {cur[c]}
    BY <1>2 DEF HandlerOk, HandlerError, DeadLetter
  <2>3. \A d \in Consumer : d # c => pc'[d] = pc[d]
    BY <1>2 DEF HandlerOk, HandlerError, DeadLetter, Goto, BaseInv, TypeOK
  <2>4. \A i \in 1..next : Spent(i) => i # cur[c]
    BY <2>1 DEF Spent
  <2>5. \A i \in 1..next : Spent(i) => Spent(i)'
    BY <2>1, <2>2, <2>3, <2>4 DEF Spent
  <2> QED BY <2>1, <2>5, ChainKept DEF BaseInv, TypeOK
<1>3. CASE Ack(c) \/ Exit(c)
  <2>1. UNCHANGED <<log, next, done, dlq>>
    BY <1>3 DEF Ack, Exit
  <2>2. cur'[c] = 0 /\ \A d \in Consumer : d # c => cur'[d] = cur[d] /\ pc'[d] = pc[d]
    BY <1>3 DEF Ack, Exit, Goto, BaseInv, TypeOK, Holding
  <2>3. \A i \in 1..next : Spent(i) => Spent(i)'
    BY <2>1, <2>2 DEF Spent, BaseInv, TypeOK
  <2> QED BY <2>1, <2>3, ChainKept DEF BaseInv, TypeOK
<1> QED BY <1>1, <1>2, <1>3

LEMMA WorkerChain ==
  ASSUME BaseInv, Chain, NEW w \in Worker, Shutdown(w) \/ Die(w) \/ Start(w)
  PROVE  Chain'
<1>1. UNCHANGED <<log, next, done, dlq>>
  BY DEF Shutdown, Die, Start
<1>2. \A d \in Consumer : cur'[d] = 0 \/ (cur'[d] = cur[d] /\ pc'[d] = pc[d])
  BY DEF Shutdown, Die, Start, BaseInv, TypeOK, Holding
<1> QED BY <1>1, <1>2, ChainKept DEF Spent, BaseInv, TypeOK

LEMMA NextChain ==
  ASSUME "xaddTwice" \notin Faults
  PROVE  BaseInv /\ Chain /\ [Next]_vars => Chain'
<1> SUFFICES ASSUME BaseInv, Chain, [Next]_vars PROVE Chain'
  OBVIOUS
<1>1. CASE UNCHANGED vars
  BY <1>1, ChainKept DEF vars, Spent, BaseInv, TypeOK
<1>2. CASE \E t \in Task : Publish(t)
  BY <1>2, PublishChain
<1>3. CASE \E c \in Consumer : Step(c) \/ ReadReplyLost(c)
  BY <1>3, RetryChain, ConsumerChain DEF Step
<1>4. CASE \E w \in Worker : Shutdown(w) \/ Die(w) \/ Start(w)
  BY <1>4, WorkerChain
<1> QED BY <1>1, <1>2, <1>3, <1>4 DEF Next

\* The inductive invariant, under the one hypothesis that the Redis client
\* does not execute an XADD twice.
THEOREM StreamInvariant ==
  ASSUME "xaddTwice" \notin Faults
  PROVE  Spec => []StreamInv
<1>1. Init => BaseInv /\ Chain
  BY InitBase, InitChain
<1>2. BaseInv /\ Chain /\ [Next]_vars => (BaseInv /\ Chain)'
  BY NextBase, NextChain
<1>3. BaseInv /\ Chain => StreamInv
  BY DEF BaseInv, StreamInv
<1> QED BY <1>1, <1>2, <1>3, PTL DEF Spec

-----------------------------------------------------------------------------
LEMMA NoOverlap == StreamInv => NoConcurrentExecution
<1> SUFFICES ASSUME StreamInv, NEW c \in Consumer, NEW d \in Consumer,
                    pc[c] = "handle", pc[d] = "handle",
                    log[cur[c]].task = log[cur[d]].task
             PROVE  c = d
  BY DEF NoConcurrentExecution
<1>1. cur[c] \in 1..Len(log) /\ cur[d] \in 1..Len(log) /\ DOMAIN log = 1..Len(log)
  BY DEF StreamInv, TypeOK, Holding
<1>2. ~Spent(cur[c]) /\ ~Spent(cur[d])
  BY DEF Spent
<1>3. ~(cur[c] < cur[d]) /\ ~(cur[d] < cur[c])
  BY <1>1, <1>2 DEF StreamInv, Chain
<1>4. cur[c] = cur[d] /\ cur[c] # 0
  BY <1>1, <1>3
<1> QED BY <1>4 DEF StreamInv, Holding

\* Two handlers never execute the same run at the same time.
THEOREM ExecutionsDoNotOverlap ==
  ASSUME "xaddTwice" \notin Faults
  PROVE  Spec => []NoConcurrentExecution
BY StreamInvariant, NoOverlap, PTL

\* The attempts of a run's entries are distinct numbers below MaxRetry, so
\* there are at most MaxRetry of them.
LEMMA ChainFitsBudget == StreamInv => RetryBudget
<1> SUFFICES ASSUME StreamInv, NEW t \in Task
             PROVE  Cardinality(EntriesOf(t)) <= MaxRetry
  BY DEF RetryBudget
<1> DEFINE B == 0..(MaxRetry - 1)
           f == [i \in EntriesOf(t) |-> log[i].attempt]
<1>1. MaxRetry \in Nat /\ MaxRetry > 0
  BY ConstAssumption
<1>2. IsFiniteSet(B) /\ Cardinality(B) = MaxRetry
  BY <1>1, FS_Interval
<1>3. \A i \in EntriesOf(t) : i \in DOMAIN log /\ i \in 1..Len(log) /\ log[i] \in Entry /\ log[i].task = t
  BY DEF EntriesOf, StreamInv, TypeOK
<1>4. f \in [EntriesOf(t) -> B]
  BY <1>1, <1>3 DEF StreamInv, AttemptBounded, Entry
<1>5. \A i, j \in EntriesOf(t) : f[i] = f[j] => i = j
  <2> SUFFICES ASSUME NEW i \in EntriesOf(t), NEW j \in EntriesOf(t), i # j
               PROVE  log[i].attempt # log[j].attempt
    OBVIOUS
  <2>1. /\ i < j => log[i].attempt < log[j].attempt
        /\ j < i => log[j].attempt < log[i].attempt
    BY <1>3 DEF StreamInv, Chain
  <2>2. i \in Nat /\ j \in Nat /\ log[i].attempt \in Nat /\ log[j].attempt \in Nat
    BY <1>3 DEF Entry
  <2> QED BY <2>1, <2>2
<1>6. f \in Injection(EntriesOf(t), B)
  BY <1>4, <1>5 DEF Injection, IsInjective
<1>7. Cardinality(EntriesOf(t)) <= Cardinality(B)
  <2> HIDE DEF f, B
  <2> QED BY <1>2, <1>6, FS_Injection
<1> QED BY <1>2, <1>7

\* A run is handed to a handler at most MaxRetry times over its whole life.
THEOREM RetriesAreBudgeted ==
  ASSUME "xaddTwice" \notin Faults
  PROVE  Spec => []RetryBudget
BY StreamInvariant, ChainFitsBudget, PTL

\* Only a read moves a consumer into the handler, with the entry it read.
LEMMA HandlingStartsWithRead ==
  ASSUME StreamInv, [Next]_vars, NEW c \in Consumer,
         pc[c] # "handle", pc'[c] = "handle"
  PROVE  cur'[c] = next + 1 /\ next < Len(log) /\ log' = log
<1>1. ~UNCHANGED vars
  BY DEF vars
<1>2. ~\E t \in Task : Publish(t)
  BY DEF Publish
<1>3. ~\E w \in Worker : Shutdown(w) \/ Die(w) \/ Start(w)
  BY DEF Shutdown, Die, Start, StreamInv, TypeOK
<1>4. PICK d \in Consumer : Step(d) \/ ReadReplyLost(d)
  BY <1>1, <1>2, <1>3 DEF Next
<1>5. ~(HandlerOk(d) \/ HandlerError(d) \/ Retry(d) \/ DeadLetter(d) \/ Ack(d) \/ Exit(d) \/ ReadReplyLost(d))
  BY DEF HandlerOk, HandlerError, AfterFailure, Retry, DeadLetter, Ack, Exit,
         ReadReplyLost, Goto, StreamInv, TypeOK
<1>6. Read(d)
  BY <1>4, <1>5 DEF Step
<1>7. d = c
  BY <1>6 DEF Read, Goto, StreamInv, TypeOK
<1> QED BY <1>6, <1>7 DEF Read, StreamInv, TypeOK

\* A handled or dead-lettered run is never handed to a handler again: the
\* entry just read would be a later link of its chain, and then the entry
\* with the outcome would be spent.
THEOREM OutcomesAreFinal ==
  ASSUME "xaddTwice" \notin Faults
  PROVE  Spec => TerminalIsFinal
<1> DEFINE Final == \A c \in Consumer :
              pc[c] # "handle" /\ pc'[c] = "handle" => ~Resolved(log[cur'[c]].task)
<1>1. StreamInv /\ [Next]_vars => [Final]_vars
  <2> SUFFICES ASSUME StreamInv, [Next]_vars, NEW c \in Consumer,
                      pc[c] # "handle", pc'[c] = "handle",
                      Resolved(log[cur'[c]].task)
               PROVE  FALSE
    OBVIOUS
  <2>1. cur'[c] = next + 1 /\ next < Len(log)
    BY HandlingStartsWithRead
  <2>2. PICK i \in EntriesOf(log[cur'[c]].task) : i \in done \cup dlq
    BY DEF Resolved
  <2>3. i \in 1..next /\ i \in DOMAIN log /\ log[i].task = log[next + 1].task
    BY <2>1, <2>2 DEF EntriesOf, StreamInv, TypeOK
  <2>4. next + 1 \in DOMAIN log /\ i < next + 1
    BY <2>1, <2>3 DEF StreamInv, TypeOK
  <2>5. Spent(i)
    BY <2>3, <2>4 DEF StreamInv, Chain
  <2> QED BY <2>2, <2>5 DEF Spent
<1> QED BY <1>1, StreamInvariant, PTL DEF Spec, TerminalIsFinal

-----------------------------------------------------------------------------
(* Nothing is lost while XADDs do not fail.                                *)

\* The run of entry i does not depend on i any more: it cannot be decoded and
\* is dropped by design, i has an outcome, or a later entry carries the run.
Covered(i) ==
  \/ Payload[log[i].task] = "noField"
  \/ i \in done \cup dlq
  \/ \E j \in DOMAIN log : i < j /\ log[j].task = log[i].task

\* What the order of commands in Consume keeps true: a consumer's entry stays
\* pending until the consumer itself acknowledges it, it turns to XACK with the
\* entry covered unless its context was cancelled (XACK then fails, too), and
\* so an entry that was delivered and is not pending is covered.
Kept ==
  /\ \A c \in Consumer : pc[c] \notin {"read", "down"} => cur[c] \in pel
  /\ \A c \in Consumer : pc[c] = "ack" => cancelled[Home[c]] \/ Covered(cur[c])
  /\ \A i \in 1..next : i \in pel \/ Covered(i)
  /\ \A t \in accepted : EntriesOf(t) # {}

\* The stream only grows, and so do the outcomes.
Grows ==
  /\ Len(log) <= Len(log')
  /\ \A i \in 1..Len(log) : log'[i] = log[i]
  /\ done \subseteq done' /\ dlq \subseteq dlq'

LEMMA StepGrows == BaseInv /\ [Next]_vars => Grows
<1> SUFFICES ASSUME BaseInv, [Next]_vars PROVE Grows
  OBVIOUS
<1>1. CASE UNCHANGED <<log, done, dlq>>
  BY <1>1 DEF Grows, BaseInv, TypeOK
<1>2. ASSUME NEW t \in Task, Publish(t) PROVE Grows
  <2> DEFINE e == [task |-> t, attempt |-> 0]
  <2>1. PICK n \in {0, 1, 2} : XAdd(e, n)
    BY <1>2, CopiesRange DEF Publish, Copies
  <2>2. e \in Entry /\ UNCHANGED <<done, dlq>>
    BY <1>2 DEF Publish, Entry
  <2> QED BY <2>1, <2>2, XAddAppends DEF Grows, BaseInv, TypeOK
<1>3. ASSUME NEW c \in Consumer, Retry(c) PROVE Grows
  <2> DEFINE e == [log[cur[c]] EXCEPT !.attempt = @ + 1]
  <2>1. PICK n \in {0, 1, 2} : XAdd(e, n)
    BY <1>3, CopiesRange DEF Retry
  <2>2. cur[c] \in 1..Len(log) /\ log[cur[c]] \in Entry
    BY <1>3 DEF Retry, BaseInv, TypeOK, Holding
  <2>3. e \in Entry /\ UNCHANGED <<done, dlq>>
    BY <1>3, <2>2 DEF Retry, Entry
  <2> QED BY <2>1, <2>3, XAddAppends DEF Grows, BaseInv, TypeOK
<1>4. ASSUME NEW c \in Consumer, HandlerOk(c) \/ DeadLetter(c) PROVE Grows
  BY <1>4 DEF Grows, HandlerOk, DeadLetter, BaseInv, TypeOK
<1>5. ASSUME NEW c \in Consumer,
             Read(c) \/ HandlerError(c) \/ Ack(c) \/ Exit(c) \/ ReadReplyLost(c)
      PROVE  Grows
  BY <1>1, <1>5 DEF Read, HandlerError, Ack, Exit, ReadReplyLost
<1>6. ASSUME NEW w \in Worker, Shutdown(w) \/ Die(w) \/ Start(w) PROVE Grows
  BY <1>1, <1>6 DEF Shutdown, Die, Start
<1>7. CASE UNCHANGED vars
  BY <1>1, <1>7 DEF vars
<1> QED BY <1>2, <1>3, <1>4, <1>5, <1>6, <1>7 DEF Next, Step

LEMMA CoveredStays ==
  ASSUME BaseInv, BaseInv', Grows, NEW i \in 1..Len(log), Covered(i)
  PROVE  Covered(i)'
<1>1. log'[i] = log[i]
  BY DEF Grows
<1>2. CASE \E j \in DOMAIN log : i < j /\ log[j].task = log[i].task
  <2>1. PICK j \in 1..Len(log) : i < j /\ log[j].task = log[i].task
    BY <1>2 DEF BaseInv, TypeOK
  <2>2. j \in DOMAIN log' /\ log'[j] = log[j]
    BY <2>1 DEF Grows, BaseInv, TypeOK
  <2> QED BY <1>1, <2>1, <2>2 DEF Covered
<1>3. CASE Payload[log[i].task] = "noField" \/ i \in done \cup dlq
  BY <1>1, <1>3 DEF Covered, Grows
<1> QED BY <1>2, <1>3 DEF Covered

\* What each consumer and each entry needs after a step, from what they had.
LEMMA KeptBy ==
  ASSUME BaseInv, BaseInv', Kept, Grows,
         next' = next, pel' = pel, accepted' \subseteq accepted,
         \A c \in Consumer :
           pc'[c] \notin {"read", "down"} => cur'[c] = cur[c] /\ pc[c] \notin {"read", "down"},
         \A c \in Consumer :
           pc'[c] = "ack" => \/ cancelled'[Home[c]]
                             \/ Covered(cur[c])'
                             \/ pc[c] = "ack" /\ ~cancelled[Home[c]]
  PROVE  Kept'
<1>1. \A c \in Consumer : pc'[c] \notin {"read", "down"} => cur'[c] \in pel'
  BY DEF Kept
<1>2. ASSUME NEW c \in Consumer, pc'[c] = "ack"
      PROVE  (cancelled[Home[c]] \/ Covered(cur[c]))'
  <2>1. CASE pc[c] = "ack" /\ ~cancelled[Home[c]]
    <3>1. PICK k \in 1..Len(log) : k = cur[c] /\ k = cur'[c]
      BY <1>2, <2>1 DEF BaseInv, TypeOK, Holding
    <3>2. Covered(k)
      BY <2>1, <3>1 DEF Kept
    <3>3. Covered(k)'
      BY <3>2, CoveredStays
    <3> QED BY <3>1, <3>3 DEF Covered
  <2> QED BY <1>2, <2>1
<1>3. \A i \in 1..next' : i \in pel' \/ Covered(i)'
  <2> SUFFICES ASSUME NEW i \in 1..next, i \notin pel PROVE Covered(i)'
    OBVIOUS
  <2>1. Covered(i) /\ i \in 1..Len(log)
    BY DEF Kept, BaseInv, TypeOK
  <2> QED BY <2>1, CoveredStays
<1>4. \A t \in accepted' : EntriesOf(t)' # {}
  <2> SUFFICES ASSUME NEW t \in accepted' PROVE EntriesOf(t)' # {}
    OBVIOUS
  <2>1. PICK i \in 1..Len(log) : log[i].task = t
    BY DEF Kept, EntriesOf, BaseInv, TypeOK
  <2>2. i \in DOMAIN log' /\ log'[i].task = t
    BY <2>1 DEF Grows, BaseInv, TypeOK
  <2> QED BY <2>2 DEF EntriesOf
<1> QED BY <1>1, <1>2, <1>3, <1>4 DEF Kept

LEMMA PublishKeeps ==
  ASSUME "xaddLost" \notin Faults, BaseInv, BaseInv', Kept, Grows, NEW t \in Task, Publish(t)
  PROVE  Kept'
<1> DEFINE e == [task |-> t, attempt |-> 0]
<1>1. PICK n \in {1, 2} : XAdd(e, n)
  BY DEF Publish, Copies
<1>2. e \in Entry /\ e.task = t
  BY DEF Entry
<1>0. log \in Seq(Entry)
  BY DEF BaseInv, TypeOK
<1>3. /\ log' \in Seq(Entry)
      /\ Len(log') = Len(log) + n
      /\ \A i \in (Len(log) + 1)..Len(log') : log'[i] = e
  BY <1>0, <1>1, <1>2, XAddAppends
<1>4. UNCHANGED <<next, pel, pc, cur, cancelled>> /\ accepted' \subseteq accepted \cup {t}
  BY DEF Publish
<1> HIDE DEF e
<1>5. \A c \in Consumer : pc'[c] \notin {"read", "down"} => cur'[c] \in pel'
  BY <1>4 DEF Kept
<1>6. ASSUME NEW c \in Consumer, pc[c] = "ack", ~cancelled[Home[c]]
      PROVE  Covered(cur[c])'
  <2>1. PICK k \in 1..Len(log) : k = cur[c] /\ k = cur'[c]
    BY <1>4, <1>6 DEF BaseInv, TypeOK, Holding
  <2>2. Covered(k)'
    BY <1>6, <2>1, CoveredStays DEF Kept
  <2> QED BY <2>1, <2>2 DEF Covered
<1>7. \A i \in 1..next : i \in pel \/ Covered(i)'
  <2> SUFFICES ASSUME NEW i \in 1..next, i \notin pel PROVE Covered(i)'
    OBVIOUS
  <2>1. Covered(i) /\ i \in 1..Len(log)
    BY DEF Kept, BaseInv, TypeOK
  <2> QED BY <2>1, CoveredStays
<1>8. ASSUME NEW u \in accepted' PROVE EntriesOf(u)' # {}
  <2>1. CASE u = t
    <3>1. Len(log) + 1 \in DOMAIN log' /\ log'[Len(log) + 1].task = t
      BY <1>0, <1>2, <1>3
    <3> QED BY <2>1, <3>1 DEF EntriesOf
  <2>2. CASE u \in accepted
    <3>1. PICK i \in 1..Len(log) : log[i].task = u
      BY <1>0, <2>2 DEF Kept, EntriesOf
    <3>2. i \in DOMAIN log' /\ log'[i].task = u
      BY <1>0, <1>3, <3>1 DEF Grows
    <3> QED BY <3>2 DEF EntriesOf
  <2> QED BY <1>4, <2>1, <2>2
<1> QED BY <1>4, <1>5, <1>6, <1>7, <1>8 DEF Kept

\* The consumer turns to XACK only once the successor, the dead letter or the
\* outcome is there, or its commands fail because its context is cancelled.
LEMMA WorkKeeps ==
  ASSUME "xaddLost" \notin Faults, BaseInv, BaseInv', Kept, Grows, NEW c \in Consumer,
         HandlerOk(c) \/ HandlerError(c) \/ Retry(c) \/ DeadLetter(c)
  PROVE  Kept'
<1>1. /\ UNCHANGED <<next, pel, cur, cancelled, accepted>>
      /\ pc[c] \notin {"read", "down", "ack"}
      /\ \A d \in Consumer : d # c => pc'[d] = pc[d]
  BY DEF HandlerOk, HandlerError, Retry, DeadLetter, Goto, BaseInv, TypeOK
<1>2. PICK k \in 1..Len(log) : k = cur[c]
  BY <1>1 DEF BaseInv, TypeOK, Holding
<1>3. ASSUME pc'[c] = "ack", ~cancelled[Home[c]]
      PROVE  Covered(k)'
  <2>1. CASE HandlerOk(c)
    BY <1>2, <2>1 DEF HandlerOk, Covered
  <2>2. CASE DeadLetter(c)
    BY <1>2, <1>3, <2>2 DEF DeadLetter, CopiesFor, Copies, Covered
  <2>3. CASE HandlerError(c)
    BY <1>3, <2>3 DEF HandlerError, AfterFailure, Goto, BaseInv, TypeOK
  <2>4. CASE Retry(c)
    <3> DEFINE e == [log[k] EXCEPT !.attempt = @ + 1]
    <3>1. PICK n \in {1, 2} : XAdd(e, n)
      BY <1>2, <1>3, <2>4 DEF Retry, CopiesFor, Copies
    <3>0. log \in Seq(Entry) /\ log[k] \in Entry
      BY DEF BaseInv, TypeOK
    <3>2. e \in Entry /\ e.task = log[k].task
      BY <3>0 DEF Entry
    <3> HIDE DEF e
    <3>a. /\ log' \in Seq(Entry)
          /\ Len(log') = Len(log) + n
          /\ \A i \in 1..Len(log) : log'[i] = log[i]
          /\ \A i \in (Len(log) + 1)..Len(log') : log'[i] = e
      BY <3>0, <3>1, <3>2, XAddAppends
    <3>3. /\ log' \in Seq(Entry) /\ Len(log') = Len(log) + n
          /\ log'[Len(log) + 1] = e /\ log'[k] = log[k]
      BY <3>0, <3>a
    <3>4. Len(log) + 1 \in DOMAIN log' /\ k < Len(log) + 1
      BY <3>0, <3>3
    <3> QED BY <3>2, <3>3, <3>4 DEF Covered
  <2> QED BY <2>1, <2>2, <2>3, <2>4
<1>4. pc'[c] = "ack" => (cancelled[Home[c]] \/ Covered(cur[c]))'
  <2>1. cur'[c] = k /\ cancelled' = cancelled
    BY <1>1, <1>2
  <2> QED BY <1>3, <2>1 DEF Covered
<1>5. \A d \in Consumer :
        pc'[d] = "ack" => \/ cancelled'[Home[d]] \/ Covered(cur[d])'
                          \/ pc[d] = "ack" /\ ~cancelled[Home[d]]
  BY <1>1, <1>4
<1>6. \A d \in Consumer :
        pc'[d] \notin {"read", "down"} => cur'[d] = cur[d] /\ pc[d] \notin {"read", "down"}
  BY <1>1
<1> QED BY <1>1, <1>5, <1>6, KeptBy

LEMMA ReadKeeps ==
  ASSUME BaseInv, BaseInv', Kept, Grows, NEW c \in Consumer, Read(c) \/ ReadReplyLost(c)
  PROVE  Kept'
<1>1. /\ next' = next + 1 /\ next < Len(log) /\ pel' = pel \cup {next + 1}
      /\ UNCHANGED <<log, done, dlq, cancelled, accepted>>
      /\ \A d \in Consumer : d # c => pc'[d] = pc[d] /\ cur'[d] = cur[d]
  BY DEF Read, ReadReplyLost, Goto, BaseInv, TypeOK
<1>2. \A i \in 1..Len(log) : Covered(i)' <=> Covered(i)
  BY <1>1 DEF Covered
<1>3. \/ pc'[c] = "read"
      \/ cur'[c] = next + 1 /\ pc'[c] \in {"handle", "bury"}
      \/ cur'[c] = next + 1 /\ pc'[c] = "ack" /\ Payload[log[next + 1].task] = "noField"
  BY DEF Read, ReadReplyLost, FirstPhase, Goto, BaseInv, TypeOK
<1>4. \A d \in Consumer : pc'[d] \notin {"read", "down"} => cur'[d] \in pel'
  BY <1>1, <1>3 DEF Kept
<1>5. ASSUME NEW d \in Consumer, pc'[d] = "ack"
      PROVE  (cancelled[Home[d]] \/ Covered(cur[d]))'
  <2>1. CASE d = c
    BY <1>1, <1>3, <1>5, <2>1 DEF Covered
  <2>2. CASE d # c
    BY <1>1, <1>5, <2>2 DEF Kept, Covered
  <2> QED BY <2>1, <2>2
<1>6. \A i \in 1..next' : i \in pel' \/ Covered(i)'
  BY <1>1, <1>2 DEF Kept, BaseInv, TypeOK
<1>7. \A t \in accepted' : EntriesOf(t)' # {}
  BY <1>1 DEF Kept, EntriesOf
<1> QED BY <1>4, <1>5, <1>6, <1>7 DEF Kept

\* XACK removes only the consumer's own entry, which is covered.
LEMMA AckKeeps ==
  ASSUME BaseInv, BaseInv', Kept, Grows, NEW c \in Consumer, Ack(c)
  PROVE  Kept'
<1>1. /\ UNCHANGED <<next, log, done, dlq, cancelled, accepted>>
      /\ \A d \in Consumer : d # c => pc'[d] = pc[d] /\ cur'[d] = cur[d]
      /\ pc[c] = "ack" /\ pc'[c] \in {"read", "down"}
      /\ pel' = pel \/ (pel' = pel \ {cur[c]} /\ ~cancelled[Home[c]])
  BY DEF Ack, Goto, BaseInv, TypeOK
<1>2. cur[c] \in 1..next
  BY <1>1 DEF BaseInv, Holding
<1>3. \A d \in Consumer : pc'[d] \notin {"read", "down"} => cur'[d] \in pel'
  <2> SUFFICES ASSUME NEW d \in Consumer, pc'[d] \notin {"read", "down"}
               PROVE  cur'[d] \in pel'
    OBVIOUS
  <2>1. d # c /\ pc[d] \notin {"read", "down"} /\ cur'[d] = cur[d]
    BY <1>1
  <2>2. cur[d] \in pel /\ cur[d] # cur[c]
    BY <1>2, <2>1 DEF Kept, BaseInv, Holding
  <2> QED BY <1>1, <2>1, <2>2
<1>4. ASSUME NEW d \in Consumer, pc'[d] = "ack"
      PROVE  (cancelled[Home[d]] \/ Covered(cur[d]))'
  BY <1>1, <1>4 DEF Kept, Covered
<1>5. ASSUME NEW i \in 1..next PROVE i \in pel' \/ Covered(i)'
  <2>1. CASE i = cur[c] /\ ~cancelled[Home[c]]
    BY <1>1, <2>1 DEF Kept, Covered
  <2>2. CASE i # cur[c] \/ pel' = pel
    BY <1>1, <2>2 DEF Kept, Covered
  <2> QED BY <1>1, <2>1, <2>2
<1>6. \A t \in accepted' : EntriesOf(t)' # {}
  BY <1>1 DEF Kept, EntriesOf
<1> QED BY <1>1, <1>3, <1>4, <1>5, <1>6 DEF Kept

\* A cancelled context stays cancelled while the worker's consumers run.
LEMMA WorkerKeeps ==
  ASSUME BaseInv, BaseInv', Kept, Grows,
         \/ \E w \in Worker : Shutdown(w) \/ Die(w) \/ Start(w)
         \/ \E c \in Consumer : Exit(c)
         \/ UNCHANGED vars
  PROVE  Kept'
<1>1. UNCHANGED <<next, pel, accepted>>
  BY DEF Shutdown, Die, Start, Exit, vars
<1>2. \A d \in Consumer :
        pc'[d] \notin {"read", "down"} => cur'[d] = cur[d] /\ pc[d] = pc'[d]
  BY DEF Shutdown, Die, Start, Exit, Goto, vars, BaseInv, TypeOK
<1>3. ASSUME NEW d \in Consumer, pc'[d] = "ack", cancelled[Home[d]] PROVE cancelled'[Home[d]]
  <2>1. Home[d] \in Worker
    BY ConstAssumption
  <2>2. ASSUME NEW w \in Worker, Start(w) PROVE w # Home[d]
    BY <1>3, <2>2 DEF Start, BaseInv, TypeOK
  <2> QED BY <1>3, <2>1, <2>2 DEF Shutdown, Die, Start, Exit, vars, BaseInv, TypeOK
<1>4. \A d \in Consumer :
        pc'[d] = "ack" => \/ cancelled'[Home[d]] \/ Covered(cur[d])'
                          \/ pc[d] = "ack" /\ ~cancelled[Home[d]]
  BY <1>2, <1>3
<1> QED BY <1>1, <1>2, <1>4, KeptBy

LEMMA NextKeeps ==
  ASSUME "xaddLost" \notin Faults
  PROVE  BaseInv /\ Kept /\ [Next]_vars => Kept'
<1> SUFFICES ASSUME BaseInv, Kept, [Next]_vars PROVE Kept'
  OBVIOUS
<1>1. BaseInv' /\ Grows
  BY NextBase, StepGrows
<1> QED BY <1>1, PublishKeeps, WorkKeeps, ReadKeeps, AckKeeps, WorkerKeeps DEF Next, Step

\* A run that has entries has a last one.
LEMMA LatestIsLast ==
  ASSUME log \in Seq(Entry), NEW t, EntriesOf(t) # {}
  PROVE  /\ Latest(t) \in EntriesOf(t)
         /\ \A j \in EntriesOf(t) : j <= Latest(t)
<1> DEFINE T == {Len(log) - i : i \in EntriesOf(t)}
           Less == {ss \in Nat \X Nat : ss[1] < ss[2]}
<1>1. EntriesOf(t) \subseteq 1..Len(log) /\ Len(log) \in Nat
  BY DEF EntriesOf
<1>2. T \subseteq Nat /\ T # {}
  BY <1>1
<1>3. PICK x \in T : \A y \in T : <<y, x>> \notin Less
  <2>1. IsWellFoundedOn(Less, Nat)
    BY NatLessThanWellFounded DEF OpToRel
  <2> HIDE DEF T, Less
  <2> QED BY <1>2, <2>1, WFMin
<1>4. ASSUME NEW y \in T PROVE x <= y
  <2>1. x \in Nat /\ y \in Nat /\ <<y, x>> \notin Less
    BY <1>2, <1>3
  <2>2. <<y, x>> \in Less <=> y < x
    BY <2>1, SMT
  <2> QED BY <2>1, <2>2
<1>5. PICK i \in EntriesOf(t) : x = Len(log) - i
  OBVIOUS
<1>6. \A j \in EntriesOf(t) : j <= i
  <2> SUFFICES ASSUME NEW j \in EntriesOf(t) PROVE j <= i
    OBVIOUS
  <2>1. Len(log) - i <= Len(log) - j
    BY <1>4, <1>5
  <2> QED BY <1>1, <2>1
<1> QED BY <1>5, <1>6 DEF Latest

\* While no XADD fails, an accepted run is resolved, waiting or pending at
\* every moment, through crashes, shutdowns, lost replies and repeated XADDs.
THEOREM NothingIsLost ==
  ASSUME "xaddLost" \notin Faults
  PROVE  Spec => []NoSilentLoss
<1>1. Init => Kept
  BY DEF Init, Kept
<1>2. BaseInv /\ Kept /\ [Next]_vars => (BaseInv /\ Kept)'
  BY NextBase, NextKeeps
<1>3. BaseInv /\ Kept => NoSilentLoss
  <2> SUFFICES ASSUME BaseInv, Kept, NEW t \in accepted, Payload[t] # "noField", ~Resolved(t)
               PROVE  \E i \in EntriesOf(t) : i > next \/ i \in pel
    BY DEF NoSilentLoss
  <2> DEFINE k == Latest(t)
  <2>0. log \in Seq(Entry) /\ next \in Nat
    BY DEF BaseInv, TypeOK
  <2>1. k \in EntriesOf(t) /\ \A j \in EntriesOf(t) : j <= k
    BY <2>0, LatestIsLast DEF Kept
  <2> HIDE DEF k
  <2>2. k \in 1..Len(log) /\ log[k].task = t
    BY <2>0, <2>1 DEF EntriesOf
  <2>3. ~Covered(k)
    BY <2>0, <2>1, <2>2 DEF Covered, Resolved, EntriesOf
  <2> QED BY <2>0, <2>1, <2>2, <2>3 DEF Kept
<1> QED BY <1>1, <1>2, <1>3, InitBase, PTL DEF Spec

\* The rule of stream.go that a task whose failures reach maxRetry goes to the
\* dead-letter stream holds of every run as long as each XADD leaves exactly
\* one entry: an acknowledged last attempt cannot have a successor.
THEOREM ExhaustedRunsAreDeadLettered ==
  ASSUME "xaddLost" \notin Faults, "xaddTwice" \notin Faults
  PROVE  Spec => []ExhaustedGoesToDLQ
<1>1. Init => Kept
  BY DEF Init, Kept
<1>2. BaseInv /\ Kept /\ [Next]_vars => (BaseInv /\ Kept)'
  BY NextBase, NextKeeps
<1>3. StreamInv /\ Kept => ExhaustedGoesToDLQ
  <2> SUFFICES ASSUME StreamInv, Kept, NEW i \in 1..next, Payload[log[i].task] = "task",
                      log[i].attempt + 1 >= MaxRetry, i \notin pel, i \notin done \cup dlq
               PROVE  FALSE
    BY DEF ExhaustedGoesToDLQ
  <2>0. log \in Seq(Entry) /\ i \in 1..Len(log) /\ DOMAIN log = 1..Len(log)
    BY DEF StreamInv, TypeOK
  <2>1. PICK j \in 1..Len(log) : i < j /\ log[j].task = log[i].task
    BY <2>0 DEF Kept, Covered
  <2>2. log[i].attempt < log[j].attempt /\ log[j].attempt < MaxRetry
    BY <2>0, <2>1 DEF StreamInv, Chain, AttemptBounded
  <2>a. log[i] \in Entry /\ log[j] \in Entry
    BY <2>0, <2>1
  <2>3. log[i].attempt \in Nat /\ log[j].attempt \in Nat
    BY <2>a DEF Entry
  <2> QED BY <2>2, <2>3, ConstAssumption
<1> QED BY <1>1, <1>2, <1>3, InitBase, StreamInvariant, PTL DEF Spec

-----------------------------------------------------------------------------
(* The stream implements TaskLifecycle.                                    *)

\* Only decoded tasks are handled or retried, and what is buried has used up
\* its attempts or could never be decoded.
Decoded ==
  /\ \A c \in Consumer :
       pc[c] \in {"handle", "retry"} => Payload[log[cur[c]].task] = "task"
  /\ \A c \in Consumer :
       pc[c] = "bury" => /\ Payload[log[cur[c]].task] # "noField"
                         /\ Payload[log[cur[c]].task] = "task"
                              => log[cur[c]].attempt + 1 >= MaxRetry
  /\ \A i \in DOMAIN log : Payload[log[i].task] # "task" => log[i].attempt = 0

\* A consumer that keeps its entry, or moves from a decoded task to its
\* failure, keeps to the rules.
LEMMA NextDecoded == BaseInv /\ Decoded /\ [Next]_vars => Decoded'
<1> SUFFICES ASSUME BaseInv, Decoded, [Next]_vars PROVE Decoded'
  OBVIOUS
<1>1. Grows /\ BaseInv'
  BY StepGrows, NextBase
<1>2. log \in Seq(Entry) /\ log' \in Seq(Entry) /\ Len(log) <= Len(log')
      /\ \A i \in 1..Len(log) : log'[i] = log[i]
  BY <1>1 DEF Grows, BaseInv, TypeOK
<1>3. \A c \in Consumer : pc[c] \notin {"read", "down"} => cur[c] \in 1..Len(log)
  BY DEF BaseInv, TypeOK, Holding
<1>4. ASSUME NEW e \in Entry, Payload[e.task] # "task" => e.attempt = 0,
             \A i \in DOMAIN log' : (i \in DOMAIN log /\ log'[i] = log[i]) \/ log'[i] = e,
             \A c \in Consumer : pc'[c] \in {"handle", "retry", "bury"}
                                   => cur'[c] = cur[c] /\ pc'[c] = pc[c]
      PROVE  Decoded'
  BY <1>2, <1>3, <1>4 DEF Decoded
<1>5. ASSUME log' = log,
             \A c \in Consumer : pc'[c] \in {"handle", "retry", "bury"}
                                   => cur'[c] = cur[c] /\ pc'[c] = pc[c]
      PROVE  Decoded'
  BY <1>5 DEF Decoded
<1>6. ASSUME NEW t \in Task, Publish(t) PROVE Decoded'
  <2> DEFINE e == [task |-> t, attempt |-> 0]
  <2>1. PICK n \in {0, 1, 2} : XAdd(e, n)
    BY <1>6, CopiesRange DEF Publish, Copies
  <2>2. e \in Entry /\ e.attempt = 0 /\ UNCHANGED <<pc, cur>>
    BY <1>6 DEF Publish, Entry
  <2> HIDE DEF e
  <2>a. /\ Len(log') = Len(log) + n
        /\ \A i \in (Len(log) + 1)..Len(log') : log'[i] = e
    BY <1>2, <2>1, <2>2, XAddAppends
  <2>3. \A i \in DOMAIN log' : (i \in DOMAIN log /\ log'[i] = log[i]) \/ log'[i] = e
    BY <1>2, <2>a
  <2> QED BY <1>4, <2>2, <2>3
<1>7. ASSUME NEW c \in Consumer, Retry(c) PROVE Decoded'
  <2> DEFINE e == [log[cur[c]] EXCEPT !.attempt = @ + 1]
  <2>1. PICK n \in {0, 1, 2} : XAdd(e, n)
    BY <1>7, CopiesRange DEF Retry
  <2>0. log[cur[c]] \in Entry /\ Payload[log[cur[c]].task] = "task"
    BY <1>2, <1>3, <1>7 DEF Retry, Decoded
  <2>2. e \in Entry /\ e.task = log[cur[c]].task
    BY <2>0 DEF Entry
  <2> HIDE DEF e
  <2>a. /\ Len(log') = Len(log) + n
        /\ \A i \in (Len(log) + 1)..Len(log') : log'[i] = e
    BY <1>2, <2>1, <2>2, XAddAppends
  <2>3. \A i \in DOMAIN log' : (i \in DOMAIN log /\ log'[i] = log[i]) \/ log'[i] = e
    BY <1>2, <2>a
  <2>4. \A d \in Consumer : pc'[d] \in {"handle", "retry", "bury"}
                              => cur'[d] = cur[d] /\ pc'[d] = pc[d]
    BY <1>7 DEF Retry, Goto, BaseInv, TypeOK
  <2> QED BY <1>4, <2>0, <2>2, <2>3, <2>4
<1>8. ASSUME NEW c \in Consumer, Read(c) PROVE Decoded'
  <2>1. next + 1 \in 1..Len(log) /\ log[next + 1] \in Entry
    BY <1>2, <1>8 DEF Read, BaseInv, TypeOK
  <2>2. Payload[log[next + 1].task] \in PayloadKind
    BY <2>1, ConstAssumption DEF Entry
  <2>3. /\ log' = log
        /\ cur' = [cur EXCEPT ![c] = next + 1]
        /\ pc' = [pc EXCEPT ![c] = FirstPhase(log[next + 1].task)]
    BY <1>8 DEF Read, Goto
  <2>4. /\ FirstPhase(log[next + 1].task) # "retry"
        /\ FirstPhase(log[next + 1].task) = "handle" => Payload[log[next + 1].task] = "task"
        /\ FirstPhase(log[next + 1].task) = "bury" => Payload[log[next + 1].task] = "badJSON"
    BY <2>2 DEF FirstPhase, PayloadKind
  <2> QED BY <2>3, <2>4 DEF Decoded, BaseInv, TypeOK
<1>9. ASSUME NEW c \in Consumer, HandlerError(c) PROVE Decoded'
  <2>1. log[cur[c]] \in Entry /\ Payload[log[cur[c]].task] = "task"
    BY <1>2, <1>3, <1>9 DEF HandlerError, Decoded
  <2>2. /\ log' = log /\ cur' = cur
        /\ pc' = [pc EXCEPT ![c] = AfterFailure(log[cur[c]])]
    BY <1>9 DEF HandlerError, Goto
  <2>3. /\ AfterFailure(log[cur[c]]) \in {"bury", "retry"}
        /\ AfterFailure(log[cur[c]]) = "bury" => log[cur[c]].attempt + 1 >= MaxRetry
    BY DEF AfterFailure
  <2> QED BY <2>1, <2>2, <2>3 DEF Decoded, BaseInv, TypeOK
<1>10. ASSUME NEW c \in Consumer,
              HandlerOk(c) \/ DeadLetter(c) \/ Ack(c) \/ Exit(c) \/ ReadReplyLost(c)
       PROVE  Decoded'
  BY <1>5, <1>10 DEF HandlerOk, DeadLetter, Ack, Exit, ReadReplyLost, Goto, BaseInv, TypeOK
<1>11. ASSUME NEW w \in Worker, Shutdown(w) \/ Die(w) \/ Start(w) PROVE Decoded'
  BY <1>5, <1>11 DEF Shutdown, Die, Start, BaseInv, TypeOK
<1>12. CASE UNCHANGED vars
  BY <1>5, <1>12 DEF vars
<1> QED BY <1>6, <1>7, <1>8, <1>9, <1>10, <1>11, <1>12 DEF Next, Step

\* A run is seen through its last entry, now and after a step.
LEMMA SeenNow ==
  ASSUME log \in Seq(Entry), NEW t, NEW k \in EntriesOf(t), \A j \in EntriesOf(t) : j <= k
  PROVE  /\ StatusOf(t) = EntryStatus(k)
         /\ TriesOf(t) = TriesIn(EntryStatus(k), t, log[k].attempt)
<1>1. EntriesOf(t) \subseteq Nat
  BY DEF EntriesOf
<1>2. Latest(t) = k
  BY <1>1 DEF Latest
<1> QED BY <1>2 DEF StatusOf, TriesOf

LEMMA SeenNext ==
  ASSUME log' \in Seq(Entry), NEW t, NEW k \in EntriesOf(t)', \A j \in EntriesOf(t)' : j <= k
  PROVE  /\ StatusOf(t)' = EntryStatus(k)'
         /\ TriesOf(t)' = TriesIn(EntryStatus(k)', t, log'[k].attempt)
<1>1. EntriesOf(t)' \subseteq Nat
  BY DEF EntriesOf
<1>2. Latest(t)' = k
  BY <1>1 DEF Latest
<1> QED BY <1>2 DEF StatusOf, TriesOf, TriesIn

\* A run whose entries keep their status is seen unchanged.
LEMMA SameView ==
  ASSUME log \in Seq(Entry), log' \in Seq(Entry), NEW t, EntriesOf(t)' = EntriesOf(t),
         \A i \in EntriesOf(t) : log'[i] = log[i] /\ EntryStatus(i)' = EntryStatus(i)
  PROVE  StatusOf(t)' = StatusOf(t) /\ TriesOf(t)' = TriesOf(t)
<1>1. CASE EntriesOf(t) = {}
  BY <1>1 DEF StatusOf, TriesOf, TriesIn
<1>2. CASE EntriesOf(t) # {}
  <2>1. PICK k \in EntriesOf(t) : \A j \in EntriesOf(t) : j <= k
    BY <1>2, LatestIsLast
  <2>2. /\ StatusOf(t) = EntryStatus(k)
        /\ TriesOf(t) = TriesIn(EntryStatus(k), t, log[k].attempt)
    BY <2>1, SeenNow
  <2>3. /\ StatusOf(t)' = EntryStatus(k)'
        /\ TriesOf(t)' = TriesIn(EntryStatus(k)', t, log'[k].attempt)
    BY <2>1, SeenNext
  <2> QED BY <2>1, <2>2, <2>3
<1> QED BY <1>1, <1>2

\* When is the status of an entry the same after a step?
LEMMA SameStatus ==
  ASSUME NEW i, (i > next') <=> (i > next),
         i \in done' <=> i \in done, i \in dlq' <=> i \in dlq,
         \A d \in Consumer, p \in {"handle", "retry", "bury"} :
           (cur'[d] = i /\ pc'[d] = p) <=> (cur[d] = i /\ pc[d] = p)
  PROVE  EntryStatus(i)' = EntryStatus(i)
<1>1. /\ HeldIn(i, {"handle"})' <=> HeldIn(i, {"handle"})
      /\ HeldIn(i, {"retry", "bury"})' <=> HeldIn(i, {"retry", "bury"})
  BY DEF HeldIn
<1> QED BY <1>1 DEF EntryStatus

\* The rest of the abstract state while one run moves.
Still(t) == \A u \in Task \ {t} : StatusOf(u)' = StatusOf(u) /\ TriesOf(u)' = TriesOf(u)

\* Nothing that is seen has changed.
Unseen == \A u \in Task : StatusOf(u)' = StatusOf(u) /\ TriesOf(u)' = TriesOf(u)

\* An entry's step moves only the run of that entry.
LEMMA OthersStill ==
  ASSUME log \in Seq(Entry), log' = log, NEW k \in 1..Len(log),
         \A i \in 1..Len(log) : i # k => EntryStatus(i)' = EntryStatus(i)
  PROVE  Still(log[k].task)
<1> SUFFICES ASSUME NEW u \in Task, u # log[k].task
             PROVE  StatusOf(u)' = StatusOf(u) /\ TriesOf(u)' = TriesOf(u)
  BY DEF Still
<1>1. EntriesOf(u)' = EntriesOf(u) /\ EntriesOf(u) \subseteq 1..Len(log) /\ k \notin EntriesOf(u)
  BY DEF EntriesOf
<1> QED BY <1>1, SameView

LEMMA AllStill ==
  ASSUME log \in Seq(Entry), log' = log,
         \A i \in 1..Len(log) : EntryStatus(i)' = EntryStatus(i)
  PROVE  Unseen
<1> SUFFICES ASSUME NEW u \in Task
             PROVE  StatusOf(u)' = StatusOf(u) /\ TriesOf(u)' = TriesOf(u)
  BY DEF Unseen
<1>1. EntriesOf(u)' = EntriesOf(u) /\ EntriesOf(u) \subseteq 1..Len(log)
  BY DEF EntriesOf
<1> QED BY <1>1, SameView

\* An entry that is not spent is the last of its run.
LEMMA OpenIsLast ==
  ASSUME StreamInv, NEW k \in 1..Len(log), ~Spent(k)
  PROVE  /\ k \in EntriesOf(log[k].task) /\ log[k].task \in Task
         /\ \A j \in EntriesOf(log[k].task) : j <= k
<1>1. log \in Seq(Entry) /\ DOMAIN log = 1..Len(log) /\ log[k] \in Entry
  BY DEF StreamInv, TypeOK
<1>2. \A j \in EntriesOf(log[k].task) : j <= k
  BY <1>1 DEF EntriesOf, StreamInv, Chain
<1> QED BY <1>1, <1>2 DEF EntriesOf, Entry

\* The moves of TaskLifecycle, from what is seen of one run.
LEMMA RunMoves ==
  ASSUME NEW t \in Task, NEW from, NEW to, StatusOf(t) = from, StatusOf(t)' = to, Still(t)
  PROVE  /\ Lifecycle!Become(t, from, to)
         /\ [u \in Task |-> TriesOf(u)]' = [[u \in Task |-> TriesOf(u)] EXCEPT ![t] = TriesOf(t)']
<1>1. [u \in Task |-> StatusOf(u)]' = [[u \in Task |-> StatusOf(u)] EXCEPT ![t] = to]
  BY DEF Still
<1>2. [u \in Task |-> TriesOf(u)]' = [[u \in Task |-> TriesOf(u)] EXCEPT ![t] = TriesOf(t)']
  BY DEF Still
<1> QED BY <1>1, <1>2 DEF Lifecycle!Become

LEMMA RunsAbandoned ==
  ASSUME NEW S \in SUBSET Task, S # {},
         \A t \in S : /\ StatusOf(t) \in {"waiting", "running", "failing"}
                      /\ StatusOf(t)' = "abandoned" /\ TriesOf(t)' = 0,
         \A u \in Task \ S : StatusOf(u)' = StatusOf(u) /\ TriesOf(u)' = TriesOf(u)
  PROVE  Lifecycle!Next
<1>1. [u \in Task |-> StatusOf(u)]'
        = [t \in Task |-> IF t \in S THEN "abandoned" ELSE [u \in Task |-> StatusOf(u)][t]]
  OBVIOUS
<1>2. [u \in Task |-> TriesOf(u)]'
        = [t \in Task |-> IF t \in S THEN 0 ELSE [u \in Task |-> TriesOf(u)][t]]
  OBVIOUS
<1>3. Lifecycle!Abandon(S)
  BY <1>1, <1>2 DEF Lifecycle!Abandon
<1> QED BY <1>3 DEF Lifecycle!Next

\* What a busy consumer's entry k looks like before its step: it is the last of
\* its run, which is seen as running or failing, and nobody else holds it.
LEMMA BusyEntry ==
  ASSUME StreamInv, Decoded, NEW c \in Consumer, pc[c] \in {"handle", "retry", "bury"},
         NEW k, k = cur[c], NEW t, t = log[k].task
  PROVE  /\ k \in 1..Len(log) /\ k \in 1..next /\ k \notin done \cup dlq
         /\ log \in Seq(Entry) /\ log[k] \in Entry /\ t \in Task
         /\ log[k].attempt \in Nat /\ log[k].attempt < MaxRetry
         /\ \A d \in Consumer : cur[d] = k => d = c
         /\ k \in EntriesOf(t) /\ \A j \in EntriesOf(t) : j <= k
         /\ StatusOf(t) = IF pc[c] = "handle" THEN "running" ELSE "failing"
         /\ TriesOf(t) = IF Payload[t] = "task" THEN log[k].attempt + 1 ELSE 0
<1>1. /\ k \in 1..Len(log) /\ k \in 1..next /\ k \notin done \cup dlq
      /\ log \in Seq(Entry) /\ next \in Nat
  BY DEF StreamInv, TypeOK, Holding, OutcomeOpen
<1>2. log[k] \in Entry
  BY <1>1
<1>3. t \in Task /\ log[k].attempt \in Nat
  BY <1>2 DEF Entry
<1>4. \A d \in Consumer : cur[d] = k => d = c
  BY <1>1 DEF StreamInv, Holding
<1>5. ~Spent(k)
  BY DEF Spent
<1>6. k \in EntriesOf(t) /\ \A j \in EntriesOf(t) : j <= k
  BY <1>1, <1>5, OpenIsLast
<1>7. EntryStatus(k) = IF pc[c] = "handle" THEN "running" ELSE "failing"
  BY <1>1, <1>4 DEF EntryStatus, HeldIn
<1>8. /\ StatusOf(t) = EntryStatus(k)
      /\ TriesOf(t) = TriesIn(EntryStatus(k), t, log[k].attempt)
  BY <1>1, <1>6, SeenNow
<1>9. Payload[t] # "task" => log[k].attempt = 0
  BY <1>1 DEF Decoded
<1>10. log[k].attempt < MaxRetry
  BY <1>1 DEF StreamInv, AttemptBounded
<1> QED BY <1>1, <1>2, <1>3, <1>4, <1>6, <1>7, <1>8, <1>9, <1>10 DEF TriesIn

\* The step of a busy consumer that leaves the stream alone moves its run.
LEMMA BusyStep ==
  ASSUME StreamInv, Decoded, NEW c \in Consumer, pc[c] \in {"handle", "retry", "bury"},
         NEW k, k = cur[c], NEW t, t = log[k].task, UNCHANGED <<log, next, cur>>, NEW p \in Phase,
         pc' = [pc EXCEPT ![c] = p],
         done' \subseteq done \cup {k}, done \subseteq done',
         dlq' \subseteq dlq \cup {k}, dlq \subseteq dlq'
  PROVE  /\ Still(t)
         /\ StatusOf(t)' = EntryStatus(k)'
         /\ TriesOf(t)' = TriesIn(EntryStatus(k)', t, log[k].attempt)
         /\ EntryStatus(k)' = IF k \in done' THEN "done"
                              ELSE IF k \in dlq' THEN "dead"
                              ELSE IF p = "handle" THEN "running"
                              ELSE IF p \in {"retry", "bury"} THEN "failing" ELSE "abandoned"
<1>1. /\ k \in 1..Len(log) /\ k \in 1..next /\ log \in Seq(Entry)
      /\ \A d \in Consumer : cur[d] = k => d = c
      /\ k \in EntriesOf(t) /\ \A j \in EntriesOf(t) : j <= k
  BY BusyEntry
<1>2. \A i \in 1..Len(log) : i # k => EntryStatus(i)' = EntryStatus(i)
  <2> SUFFICES ASSUME NEW i \in 1..Len(log), i # k PROVE EntryStatus(i)' = EntryStatus(i)
    OBVIOUS
  <2>1. \A d \in Consumer, q \in {"handle", "retry", "bury"} :
          (cur'[d] = i /\ pc'[d] = q) <=> (cur[d] = i /\ pc[d] = q)
    BY DEF StreamInv, TypeOK
  <2> QED BY <2>1, SameStatus
<1>3. Still(t)
  BY <1>1, <1>2, OthersStill
<1>4. EntriesOf(t)' = EntriesOf(t)
  BY DEF EntriesOf
<1>5. /\ StatusOf(t)' = EntryStatus(k)'
      /\ TriesOf(t)' = TriesIn(EntryStatus(k)', t, log[k].attempt)
  <2>1. log' \in Seq(Entry) /\ log' = log
    BY <1>1
  <2>2. k \in EntriesOf(t)' /\ \A j \in EntriesOf(t)' : j <= k
    BY <1>1, <1>4
  <2> QED BY <2>1, <2>2, SeenNext
<1>6. EntryStatus(k)' = IF k \in done' THEN "done"
                        ELSE IF k \in dlq' THEN "dead"
                        ELSE IF p = "handle" THEN "running"
                        ELSE IF p \in {"retry", "bury"} THEN "failing" ELSE "abandoned"
  <2>1. ~(k > next') /\ next' = next
    BY <1>1 DEF StreamInv, TypeOK
  <2>2. /\ HeldIn(k, {"handle"})' <=> p = "handle"
        /\ HeldIn(k, {"retry", "bury"})' <=> p \in {"retry", "bury"}
    BY <1>1 DEF HeldIn, StreamInv, TypeOK
  <2> QED BY <2>1, <2>2 DEF EntryStatus
<1> QED BY <1>3, <1>5, <1>6

LEMMA HandlerOkSim ==
  ASSUME StreamInv, Decoded, NEW c \in Consumer, HandlerOk(c)
  PROVE  Lifecycle!Next
<1>1. PICK k, t : k = cur[c] /\ t = log[k].task
  OBVIOUS
<1>2. /\ pc[c] = "handle" /\ pc' = [pc EXCEPT ![c] = "ack"]
      /\ done' = done \cup {k} /\ UNCHANGED <<log, next, cur, dlq>>
  BY <1>1 DEF HandlerOk, Goto
<1>3. /\ t \in Task /\ log[k].attempt \in Nat /\ StatusOf(t) = "running"
      /\ TriesOf(t) = log[k].attempt + 1 /\ Payload[t] = "task"
  BY <1>1, <1>2, BusyEntry DEF Decoded
<1>4. /\ Still(t) /\ StatusOf(t)' = "done"
      /\ TriesOf(t)' = TriesIn("done", t, log[k].attempt)
  BY <1>1, <1>2, BusyStep DEF Phase
<1>5. TriesOf(t)' = TriesOf(t)
  BY <1>3, <1>4 DEF TriesIn
<1>6. Lifecycle!Become(t, "running", "done")
      /\ [u \in Task |-> TriesOf(u)]' = [[u \in Task |-> TriesOf(u)] EXCEPT ![t] = TriesOf(t)']
  BY <1>3, <1>4, RunMoves
<1>7. Lifecycle!Succeed(t)
  BY <1>5, <1>6 DEF Lifecycle!Succeed
<1> QED BY <1>3, <1>7 DEF Lifecycle!Next

LEMMA HandlerErrorSim ==
  ASSUME StreamInv, Decoded, NEW c \in Consumer, HandlerError(c)
  PROVE  Lifecycle!Next
<1>1. PICK k, t : k = cur[c] /\ t = log[k].task
  OBVIOUS
<1>2. PICK p \in {"bury", "retry"} : pc' = [pc EXCEPT ![c] = p]
  BY DEF HandlerError, Goto, AfterFailure
<1>3. pc[c] = "handle" /\ UNCHANGED <<log, next, cur, dlq, done>>
  BY <1>1 DEF HandlerError
<1>4. /\ t \in Task /\ log[k].attempt \in Nat /\ StatusOf(t) = "running"
      /\ TriesOf(t) = log[k].attempt + 1 /\ Payload[t] = "task" /\ k \notin done \cup dlq
  BY <1>1, <1>3, BusyEntry DEF Decoded
<1>5. /\ Still(t) /\ StatusOf(t)' = "failing"
      /\ TriesOf(t)' = TriesIn("failing", t, log[k].attempt)
  BY <1>1, <1>2, <1>3, <1>4, BusyStep DEF Phase
<1>6. TriesOf(t)' = TriesOf(t)
  BY <1>4, <1>5 DEF TriesIn
<1>7. Lifecycle!Become(t, "running", "failing")
      /\ [u \in Task |-> TriesOf(u)]' = [[u \in Task |-> TriesOf(u)] EXCEPT ![t] = TriesOf(t)']
  BY <1>4, <1>5, RunMoves
<1>8. Lifecycle!Fail(t)
  BY <1>6, <1>7 DEF Lifecycle!Fail
<1> QED BY <1>4, <1>8 DEF Lifecycle!Next

LEMMA DeadLetterSim ==
  ASSUME StreamInv, Decoded, NEW c \in Consumer, DeadLetter(c)
  PROVE  Lifecycle!Next
<1>1. PICK k, t : k = cur[c] /\ t = log[k].task
  OBVIOUS
<1>2. /\ pc[c] = "bury" /\ pc' = [pc EXCEPT ![c] = "ack"]
      /\ dlq' = dlq \/ dlq' = dlq \cup {k}
      /\ UNCHANGED <<log, next, cur, done>>
  BY <1>1 DEF DeadLetter, Goto
<1>3. /\ t \in Task /\ log[k].attempt \in Nat /\ log[k].attempt < MaxRetry
      /\ StatusOf(t) = "failing" /\ k \notin done \cup dlq
      /\ TriesOf(t) = IF Payload[t] = "task" THEN log[k].attempt + 1 ELSE 0
  BY <1>1, <1>2, BusyEntry
<1>4. /\ Still(t)
      /\ StatusOf(t)' = IF k \in dlq' THEN "dead" ELSE "abandoned"
      /\ TriesOf(t)' = TriesIn(StatusOf(t)', t, log[k].attempt)
  BY <1>1, <1>2, <1>3, BusyStep DEF Phase
<1>5. CASE k \in dlq'
  <2>1. /\ Payload[t] = "task" => log[k].attempt + 1 >= MaxRetry
        /\ Payload[t] # "task" => log[k].attempt = 0
    <3>1. k \in DOMAIN log
      BY <1>1, <1>2 DEF StreamInv, TypeOK, Holding
    <3> QED BY <1>1, <1>2, <3>1 DEF Decoded
  <2>2. TriesOf(t)' = TriesOf(t)
    BY <1>3, <1>4, <1>5, <2>1 DEF TriesIn
  <2>3. TriesOf(t) \in {0, MaxRetry}
    BY <1>3, <2>1, ConstAssumption
  <2>4. Lifecycle!Become(t, "failing", "dead")
        /\ [u \in Task |-> TriesOf(u)]' = [[u \in Task |-> TriesOf(u)] EXCEPT ![t] = TriesOf(t)']
    BY <1>3, <1>4, <1>5, RunMoves
  <2>5. Lifecycle!Bury(t)
    BY <1>3, <2>2, <2>3, <2>4 DEF Lifecycle!Bury
  <2> QED BY <1>3, <2>5 DEF Lifecycle!Next
<1>6. CASE k \notin dlq'
  <2>1. StatusOf(t)' = "abandoned" /\ TriesOf(t)' = 0
    BY <1>4, <1>6 DEF TriesIn
  <2> QED BY <1>3, <1>4, <2>1, RunsAbandoned DEF Still
<1> QED BY <1>5, <1>6

\* An appended entry is what its run is seen through, and it waits.
LEMMA AppendedEntry ==
  ASSUME log \in Seq(Entry), log' \in Seq(Entry), Len(log') = Len(log) + 1,
         \A i \in 1..Len(log) : log'[i] = log[i],
         NEW t, log'[Len(log) + 1].task = t, next \in 0..Len(log), next' = next,
         \A i \in 1..Len(log) : log[i].task # t => EntryStatus(i)' = EntryStatus(i)
  PROVE  Still(t) /\ StatusOf(t)' = "waiting" /\ TriesOf(t)' = log'[Len(log) + 1].attempt
<1>1. ASSUME NEW u \in Task, u # t
      PROVE  StatusOf(u)' = StatusOf(u) /\ TriesOf(u)' = TriesOf(u)
  <2>1. EntriesOf(u)' = EntriesOf(u) /\ EntriesOf(u) \subseteq 1..Len(log)
    BY <1>1 DEF EntriesOf
  <2>2. \A i \in EntriesOf(u) : log[i].task # t
    BY <1>1 DEF EntriesOf
  <2> QED BY <2>1, <2>2, SameView
<1>2. PICK k \in Nat : k = Len(log) + 1
  OBVIOUS
<1>3. k \in EntriesOf(t)' /\ \A j \in EntriesOf(t)' : j <= k
  BY <1>2 DEF EntriesOf
<1>4. EntryStatus(k)' = "waiting"
  BY <1>2 DEF EntryStatus
<1>5. StatusOf(t)' = "waiting" /\ TriesOf(t)' = TriesIn("waiting", t, log'[k].attempt)
  BY <1>3, <1>4, SeenNext
<1> QED BY <1>1, <1>2, <1>5 DEF Still, TriesIn

LEMMA PublishSim ==
  ASSUME StreamInv, "xaddTwice" \notin Faults, NEW t \in Task, Publish(t)
  PROVE  Lifecycle!Next \/ Unseen
<1> DEFINE e == [task |-> t, attempt |-> 0]
<1>0. log \in Seq(Entry) /\ next \in 0..Len(log) /\ e \in Entry /\ e.task = t /\ e.attempt = 0
  BY DEF StreamInv, TypeOK, Entry
<1>1. PICK n \in {0, 1} : XAdd(e, n)
  BY DEF Publish, Copies
<1>2. UNCHANGED <<next, dlq, pc, cur, done>> /\ t \notin sent
  BY DEF Publish
<1> HIDE DEF e
<1>3. \A i \in 1..Len(log) : EntryStatus(i)' = EntryStatus(i)
  BY <1>2, SameStatus
<1>4. CASE n = 0
  <2>1. log' = log
    BY <1>1, <1>4 DEF XAdd
  <2> QED BY <1>0, <1>3, <2>1, AllStill
<1>5. CASE n = 1
  <2>1. /\ log' \in Seq(Entry) /\ Len(log') = Len(log) + n
        /\ \A i \in 1..Len(log) : log'[i] = log[i]
        /\ \A i \in (Len(log) + 1)..Len(log') : log'[i] = e
    BY <1>0, <1>1, XAddAppends
  <2>2. Len(log') = Len(log) + 1 /\ log'[Len(log) + 1] = e
    BY <1>0, <1>5, <2>1
  <2>3. Still(t) /\ StatusOf(t)' = "waiting" /\ TriesOf(t)' = 0
    BY <1>0, <1>2, <1>3, <2>1, <2>2, AppendedEntry
  <2>4. EntriesOf(t) = {}
    BY <1>2 DEF EntriesOf, StreamInv, Holding
  <2>5. StatusOf(t) = "none" /\ TriesOf(t) = 0
    BY <2>4 DEF StatusOf, TriesOf, TriesIn
  <2>6. Lifecycle!Become(t, "none", "waiting")
        /\ [u \in Task |-> TriesOf(u)]' = [[u \in Task |-> TriesOf(u)] EXCEPT ![t] = TriesOf(t)']
    BY <2>3, <2>5, RunMoves
  <2>7. Lifecycle!Submit(t)
    BY <2>3, <2>5, <2>6 DEF Lifecycle!Submit
  <2> QED BY <2>7 DEF Lifecycle!Next
<1> QED BY <1>4, <1>5

LEMMA RetrySim ==
  ASSUME StreamInv, Decoded, "xaddTwice" \notin Faults, NEW c \in Consumer, Retry(c)
  PROVE  Lifecycle!Next
<1>1. PICK k, t : k = cur[c] /\ t = log[k].task
  OBVIOUS
<1> DEFINE e == [log[k] EXCEPT !.attempt = @ + 1]
<1>2. PICK n \in {0, 1} : XAdd(e, n)
  BY <1>1, CopiesRange DEF Retry
<1>3. /\ pc[c] = "retry" /\ pc' = [pc EXCEPT ![c] = "ack"]
      /\ UNCHANGED <<next, cur, done, dlq>>
  BY DEF Retry, Goto
<1>4. /\ t \in Task /\ log[k] \in Entry /\ log[k].attempt \in Nat /\ log \in Seq(Entry)
      /\ StatusOf(t) = "failing" /\ k \notin done \cup dlq /\ k \in 1..Len(log)
      /\ TriesOf(t) = log[k].attempt + 1
      /\ \A d \in Consumer : cur[d] = k => d = c
  BY <1>1, <1>3, BusyEntry DEF Decoded
<1>5. e \in Entry /\ e.task = t /\ e.attempt = log[k].attempt + 1
  BY <1>1, <1>4 DEF Entry
<1> HIDE DEF e
<1>6. CASE n = 0
  <2>1. log' = log
    BY <1>2, <1>6 DEF XAdd
  <2>2. /\ Still(t) /\ StatusOf(t)' = "abandoned"
        /\ TriesOf(t)' = TriesIn("abandoned", t, log[k].attempt)
    BY <1>1, <1>3, <1>4, <2>1, BusyStep DEF Phase
  <2>3. TriesOf(t)' = 0
    BY <2>2 DEF TriesIn
  <2> QED BY <1>4, <2>2, <2>3, RunsAbandoned DEF Still
<1>7. CASE n = 1
  <2>1. /\ log' \in Seq(Entry) /\ Len(log') = Len(log) + n
        /\ \A i \in 1..Len(log) : log'[i] = log[i]
        /\ \A i \in (Len(log) + 1)..Len(log') : log'[i] = e
    BY <1>2, <1>4, <1>5, XAddAppends
  <2>2. Len(log') = Len(log) + 1 /\ log'[Len(log) + 1] = e
    BY <1>4, <1>7, <2>1
  <2>3. \A i \in 1..Len(log) : i # k => EntryStatus(i)' = EntryStatus(i)
    <3> SUFFICES ASSUME NEW i \in 1..Len(log), i # k PROVE EntryStatus(i)' = EntryStatus(i)
      OBVIOUS
    <3>1. \A d \in Consumer, q \in {"handle", "retry", "bury"} :
            (cur'[d] = i /\ pc'[d] = q) <=> (cur[d] = i /\ pc[d] = q)
      BY <1>1, <1>3 DEF StreamInv, TypeOK
    <3> QED BY <1>3, <3>1, SameStatus
  <2>4. next \in 0..Len(log)
    BY DEF StreamInv, TypeOK
  <2>5. Still(t) /\ StatusOf(t)' = "waiting" /\ TriesOf(t)' = log[k].attempt + 1
    BY <1>1, <1>3, <1>4, <1>5, <2>1, <2>2, <2>3, <2>4, AppendedEntry
  <2>6. TriesOf(t) \in 1..(MaxRetry - 1)
    BY <1>1, <1>3, <1>4, ConstAssumption DEF StreamInv, OutcomeOpen
  <2>7. Lifecycle!Become(t, "failing", "waiting")
        /\ [u \in Task |-> TriesOf(u)]' = [[u \in Task |-> TriesOf(u)] EXCEPT ![t] = TriesOf(t)']
    BY <1>4, <2>5, RunMoves
  <2>8. Lifecycle!Requeue(t)
    BY <1>4, <2>5, <2>6, <2>7 DEF Lifecycle!Requeue
  <2> QED BY <1>4, <2>8 DEF Lifecycle!Next
<1> QED BY <1>6, <1>7

\* A delivered entry is the last of its run, which was seen as waiting.
LEMMA ReadSim ==
  ASSUME StreamInv, Decoded, NEW c \in Consumer, Read(c) \/ ReadReplyLost(c)
  PROVE  Lifecycle!Next
<1>0. log \in Seq(Entry) /\ next \in 0..Len(log) /\ next < Len(log)
  BY DEF StreamInv, TypeOK, Read, ReadReplyLost
<1>1. PICK k \in 1..Len(log) : k = next + 1
  BY <1>0
<1>2. PICK t : t = log[k].task
  OBVIOUS
<1>3. /\ next' = next + 1 /\ UNCHANGED <<log, done, dlq>>
      /\ pc[c] = "read" /\ cur[c] = 0
      /\ \/ pc' = [pc EXCEPT ![c] = FirstPhase(t)] /\ cur' = [cur EXCEPT ![c] = k]
         \/ UNCHANGED <<pc, cur>>
  BY <1>1, <1>2 DEF Read, ReadReplyLost, Goto, StreamInv, Holding
<1>4. k \notin done \cup dlq /\ \A d \in Consumer : cur[d] # k
  BY <1>0, <1>1 DEF StreamInv, TypeOK
<1>5. ~Spent(k)
  BY <1>0, <1>1 DEF Spent
<1>6. k \in EntriesOf(t) /\ t \in Task /\ \A j \in EntriesOf(t) : j <= k
  BY <1>2, <1>5, OpenIsLast
<1>7. EntryStatus(k) = "waiting"
  BY <1>0, <1>1 DEF EntryStatus
<1>8. log[k] \in Entry /\ log[k].attempt \in Nat /\ log[k].attempt < MaxRetry
      /\ Payload[t] \in PayloadKind
  <2>1. log[k] \in Entry
    BY <1>0
  <2> QED BY <1>0, <1>6, <2>1, ConstAssumption DEF Entry, StreamInv, AttemptBounded
<1>9. StatusOf(t) = "waiting" /\ TriesOf(t) = log[k].attempt
  BY <1>0, <1>6, <1>7, SeenNow DEF TriesIn
<1>10. \A i \in 1..Len(log) : i # k => EntryStatus(i)' = EntryStatus(i)
  <2> SUFFICES ASSUME NEW i \in 1..Len(log), i # k PROVE EntryStatus(i)' = EntryStatus(i)
    OBVIOUS
  <2>1. (i > next') <=> (i > next)
    BY <1>0, <1>1, <1>3
  <2>2. \A d \in Consumer, q \in {"handle", "retry", "bury"} :
          (cur'[d] = i /\ pc'[d] = q) <=> (cur[d] = i /\ pc[d] = q)
    BY <1>3 DEF StreamInv, TypeOK
  <2> QED BY <1>3, <2>1, <2>2, SameStatus
<1>11. Still(t)
  BY <1>0, <1>2, <1>3, <1>10, OthersStill
<1>12. EntriesOf(t)' = EntriesOf(t)
  BY <1>3 DEF EntriesOf
<1>13. StatusOf(t)' = EntryStatus(k)' /\ TriesOf(t)' = TriesIn(EntryStatus(k)', t, log[k].attempt)
  BY <1>0, <1>3, <1>6, <1>12, SeenNext
<1>14. ~(k > next') /\ k \notin done' /\ k \notin dlq'
  BY <1>0, <1>1, <1>3, <1>4
<1>15. CASE cur'[c] = k /\ pc'[c] = "handle" /\ Payload[t] = "task"
  <2>1. EntryStatus(k)' = "running"
    BY <1>14, <1>15 DEF EntryStatus, HeldIn
  <2>2. StatusOf(t)' = "running" /\ TriesOf(t)' = TriesOf(t) + 1
    BY <1>9, <1>13, <1>15, <2>1 DEF TriesIn
  <2>3. Lifecycle!Become(t, "waiting", "running")
        /\ [u \in Task |-> TriesOf(u)]' = [[u \in Task |-> TriesOf(u)] EXCEPT ![t] = TriesOf(t)']
    BY <1>6, <1>9, <1>11, <2>2, RunMoves
  <2>4. Lifecycle!Begin(t)
    BY <1>6, <1>8, <1>9, <2>2, <2>3 DEF Lifecycle!Begin
  <2> QED BY <1>6, <2>4 DEF Lifecycle!Next
<1>16. CASE cur'[c] = k /\ pc'[c] = "bury" /\ Payload[t] # "task"
  <2>1. ~HeldIn(k, {"handle"})' /\ HeldIn(k, {"retry", "bury"})'
    BY <1>3, <1>4, <1>16 DEF HeldIn, StreamInv, TypeOK
  <2>2. EntryStatus(k)' = "failing"
    BY <1>14, <2>1 DEF EntryStatus
  <2>3. StatusOf(t)' = "failing" /\ TriesOf(t)' = TriesOf(t)
    BY <1>9, <1>13, <1>16, <2>2 DEF TriesIn
  <2>4. Lifecycle!Become(t, "waiting", "failing")
        /\ [u \in Task |-> TriesOf(u)]' = [[u \in Task |-> TriesOf(u)] EXCEPT ![t] = TriesOf(t)']
    BY <1>6, <1>9, <1>11, <2>3, RunMoves
  <2>5. Lifecycle!Reject(t)
    BY <1>6, <2>3, <2>4 DEF Lifecycle!Reject
  <2> QED BY <1>6, <2>5 DEF Lifecycle!Next
<1>17. CASE \/ cur'[c] = k /\ pc'[c] = "ack"
            \/ UNCHANGED <<pc, cur>>
  <2>1. ~HeldIn(k, {"handle"})' /\ ~HeldIn(k, {"retry", "bury"})'
    BY <1>3, <1>4, <1>17 DEF HeldIn, StreamInv, TypeOK
  <2>2. EntryStatus(k)' = "abandoned"
    BY <1>14, <2>1 DEF EntryStatus
  <2>3. StatusOf(t)' = "abandoned" /\ TriesOf(t)' = 0
    BY <1>13, <2>2 DEF TriesIn
  <2> QED BY <1>6, <1>9, <1>11, <2>3, RunsAbandoned DEF Still
<1> QED BY <1>3, <1>8, <1>15, <1>16, <1>17 DEF FirstPhase, PayloadKind, StreamInv, TypeOK

\* Acknowledging, leaving and starting are not seen.
LEMMA QuietSim ==
  ASSUME StreamInv,
         \/ \E c \in Consumer : Ack(c) \/ Exit(c)
         \/ \E w \in Worker : Shutdown(w) \/ Start(w)
         \/ UNCHANGED vars
  PROVE  Unseen
<1>1. UNCHANGED <<log, next, done, dlq>>
  BY DEF Ack, Exit, Shutdown, Start, vars
<1>2. ASSUME NEW i \in 1..Len(log), NEW d \in Consumer, NEW q \in {"handle", "retry", "bury"}
      PROVE  (cur'[d] = i /\ pc'[d] = q) <=> (cur[d] = i /\ pc[d] = q)
  BY DEF Ack, Exit, Shutdown, Start, Goto, vars, StreamInv, TypeOK, Holding
<1>3. \A i \in 1..Len(log) : EntryStatus(i)' = EntryStatus(i)
  BY <1>1, <1>2, SameStatus
<1> QED BY <1>1, <1>3, AllStill DEF StreamInv, TypeOK

\* The death of a worker abandons the runs its consumers worked on.
LEMMA DieSim ==
  ASSUME StreamInv, NEW w \in Worker, Die(w)
  PROVE  Lifecycle!Next \/ Unseen
<1>0. log \in Seq(Entry) /\ next \in Nat /\ UNCHANGED <<log, next, done, dlq>>
  BY DEF StreamInv, TypeOK, Die
<1>1. \A i \in 1..Len(log) : \/ EntryStatus(i)' = EntryStatus(i)
                             \/ /\ EntryStatus(i) \in {"running", "failing"}
                                /\ EntryStatus(i)' = "abandoned"
  <2> SUFFICES ASSUME NEW i \in 1..Len(log), EntryStatus(i)' # EntryStatus(i)
               PROVE  /\ EntryStatus(i) \in {"running", "failing"}
                      /\ EntryStatus(i)' = "abandoned"
    OBVIOUS
  <2>1. \A d \in Consumer : /\ Home[d] = w => cur'[d] = 0 /\ pc'[d] = "down"
                            /\ Home[d] # w => cur'[d] = cur[d] /\ pc'[d] = pc[d]
    BY DEF Die
  <2>2. PICK d \in Consumer, q \in {"handle", "retry", "bury"} :
          ~((cur'[d] = i /\ pc'[d] = q) <=> (cur[d] = i /\ pc[d] = q))
    BY <1>0, SameStatus
  <2>3. Home[d] = w /\ cur[d] = i /\ pc[d] = q
    BY <2>1, <2>2
  <2>4. i \in 1..next /\ i \notin done \cup dlq /\ \A f \in Consumer : cur[f] = i => f = d
    BY <2>3 DEF StreamInv, Holding, OutcomeOpen
  <2>5. \A f \in Consumer : cur'[f] # i
    BY <2>1, <2>3, <2>4
  <2>6. EntryStatus(i)' = "abandoned"
    BY <1>0, <2>4, <2>5 DEF EntryStatus, HeldIn
  <2>7. EntryStatus(i) \in {"running", "failing"}
    BY <1>0, <2>3, <2>4 DEF EntryStatus, HeldIn
  <2> QED BY <2>6, <2>7
<1>2. ASSUME NEW t \in Task
      PROVE  \/ StatusOf(t)' = StatusOf(t) /\ TriesOf(t)' = TriesOf(t)
             \/ /\ StatusOf(t) \in {"running", "failing"}
                /\ StatusOf(t)' = "abandoned" /\ TriesOf(t)' = 0
  <2>0. EntriesOf(t)' = EntriesOf(t) /\ EntriesOf(t) \subseteq 1..Len(log)
    BY <1>0 DEF EntriesOf
  <2>1. CASE EntriesOf(t) = {}
    BY <2>0, <2>1 DEF StatusOf, TriesOf, TriesIn
  <2>2. CASE EntriesOf(t) # {}
    <3>1. PICK k \in EntriesOf(t) : \A j \in EntriesOf(t) : j <= k
      BY <1>0, <2>2, LatestIsLast
    <3>2. /\ StatusOf(t) = EntryStatus(k)
          /\ TriesOf(t) = TriesIn(EntryStatus(k), t, log[k].attempt)
      BY <1>0, <3>1, SeenNow
    <3>3. /\ StatusOf(t)' = EntryStatus(k)'
          /\ TriesOf(t)' = TriesIn(EntryStatus(k)', t, log[k].attempt)
      BY <1>0, <2>0, <3>1, SeenNext
    <3> QED BY <1>1, <2>0, <3>2, <3>3 DEF TriesIn
  <2> QED BY <2>1, <2>2
<1> DEFINE S == {t \in Task : StatusOf(t)' # StatusOf(t) \/ TriesOf(t)' # TriesOf(t)}
<1>3. CASE S = {}
  BY <1>3 DEF Unseen
<1>4. CASE S # {}
  <2>1. \A t \in S : /\ StatusOf(t) \in {"waiting", "running", "failing"}
                     /\ StatusOf(t)' = "abandoned" /\ TriesOf(t)' = 0
    BY <1>2
  <2>2. \A u \in Task \ S : StatusOf(u)' = StatusOf(u) /\ TriesOf(u)' = TriesOf(u)
    OBVIOUS
  <2>3. S \in SUBSET Task
    OBVIOUS
  <2>4. PICK R \in SUBSET Task : R = S
    BY <2>3
  <2> HIDE DEF S
  <2> QED BY <1>4, <2>1, <2>2, <2>4, RunsAbandoned
<1> QED BY <1>3, <1>4

\* Seen through the latest entry of each run, the stream with its consumers,
\* pending list and dead-letter stream implements TaskLifecycle, whatever
\* fails, as long as no XADD is executed twice.
THEOREM StreamImplementsLifecycle ==
  ASSUME "xaddTwice" \notin Faults
  PROVE  Spec => ImplementsLifecycle
<1>1. Init => Lifecycle!Init
  <2> SUFFICES ASSUME Init PROVE Lifecycle!Init
    OBVIOUS
  <2>1. \A t \in Task : EntriesOf(t) = {}
    BY DEF Init, EntriesOf
  <2>2. \A t \in Task : StatusOf(t) = "none" /\ TriesOf(t) = 0
    BY <2>1 DEF StatusOf, TriesOf, TriesIn
  <2> QED BY <2>2 DEF Lifecycle!Init
<1>2. Init => Decoded
  BY DEF Init, Decoded
<1>3. BaseInv /\ Decoded /\ [Next]_vars => (BaseInv /\ Decoded)'
  BY NextBase, NextDecoded
<1>4. Spec => [](StreamInv /\ Decoded)
  BY <1>2, <1>3, InitBase, StreamInvariant, PTL DEF Spec
<1>5. StreamInv /\ Decoded /\ [Next]_vars => [Lifecycle!Next]_(Lifecycle!lvars)
  <2> SUFFICES ASSUME StreamInv, Decoded, [Next]_vars
               PROVE  Lifecycle!Next \/ UNCHANGED Lifecycle!lvars
    OBVIOUS
  <2>1. Lifecycle!Next \/ Unseen
    BY PublishSim, RetrySim, ReadSim, HandlerOkSim, HandlerErrorSim, DeadLetterSim,
       QuietSim, DieSim DEF Next, Step
  <2>2. Unseen => UNCHANGED Lifecycle!lvars
    BY DEF Unseen, Lifecycle!lvars
  <2> QED BY <2>1, <2>2
<1> QED BY <1>1, <1>4, <1>5, PTL DEF Spec, ImplementsLifecycle, Lifecycle!Spec

=============================================================================
