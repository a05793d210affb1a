----------------------------- MODULE TaskStream -----------------------------
(***************************************************************************)
(* The task queue of internal/queue/stream.go: one Redis Stream, one       *)
(* consumer group, a pending-entries list (PEL) and a dead-letter stream.  *)
(* A consumer goroutine of a worker runs the loop of StreamQueue.Consume;  *)
(* every Redis command it issues is a step of its own, so a crash, a       *)
(* shutdown or a failed command can fall between any two of them.          *)
(*                                                                         *)
(* ToolStreamQueue (tool_stream.go) runs the same loop; the worker starts  *)
(* it with maxRetry = 1, which is the instance MaxRetry = 1.               *)
(***************************************************************************)
EXTENDS Naturals, Sequences, FiniteSets

CONSTANTS
  Task,       \* the runs that may be published
  Worker,     \* worker processes
  Consumer,   \* consumer goroutines of all workers
  Home,       \* Home[c]: the worker process that runs consumer c
  Payload,    \* Payload[t]: is the entry of t decodable, see PayloadKind
  MaxRetry,   \* effective maxRetry of Consume (3 when configured <= 0)
  Faults      \* what may go wrong in this instance, see Fault

PayloadKind == {"task", "noField", "badJSON"}

\* xaddLost   an XADD fails and leaves no entry
\* xaddTwice  the Redis client repeats an XADD whose reply was lost
\* reply      the reply to XREADGROUP, XACK or a publish is lost
\* crash      a worker process dies
\* shutdown   a worker process gets SIGTERM: its root context is cancelled
Fault == {"xaddLost", "xaddTwice", "reply", "crash", "shutdown"}

ASSUME ConstAssumption ==
  /\ Home \in [Consumer -> Worker]
  /\ Payload \in [Task -> PayloadKind]
  /\ MaxRetry \in Nat \ {0}
  /\ Faults \subseteq Fault

VARIABLES
  log,        \* the stream: append-only, the id of an entry is its index
  next,       \* the group's last-delivered id
  pel,        \* ids delivered and not acknowledged
  dlq,        \* ids whose raw task was appended to the dead-letter stream
  pc,         \* where each consumer is in Consume
  cur,        \* the id a consumer works on, 0 for none
  cancelled,  \* is the worker's root context cancelled (or the process gone)
  sent,       \* tasks for which Publish was called
  accepted,   \* tasks for which Publish returned an id
  done        \* history: ids whose handler returned nil

vars == <<log, next, pel, dlq, pc, cur, cancelled, sent, accepted, done>>

Entry == [task : Task, attempt : Nat]

\* read    blocked in XREADGROUP             handle  inside the handler
\* retry   about to XADD the next attempt    bury    about to XADD to the DLQ
\* ack     about to XACK                     down    the goroutine has ended
Phase == {"read", "handle", "retry", "bury", "ack", "down"}

TypeOK ==
  /\ log \in Seq(Entry)
  /\ next \in 0..Len(log)
  /\ pel \subseteq 1..next
  /\ dlq \subseteq 1..next
  /\ done \subseteq 1..next
  /\ pc \in [Consumer -> Phase]
  /\ cur \in [Consumer -> 0..next]
  /\ cancelled \in [Worker -> BOOLEAN]
  /\ sent \subseteq Task
  /\ accepted \subseteq sent

Init ==
  /\ log = <<>>
  /\ next = 0
  /\ pel = {}
  /\ dlq = {}
  /\ pc = [c \in Consumer |-> "read"]
  /\ cur = [c \in Consumer |-> 0]
  /\ cancelled = [w \in Worker |-> FALSE]
  /\ sent = {}
  /\ accepted = {}
  /\ done = {}

-----------------------------------------------------------------------------
\* XADD with live connection: how many entries the command may leave.
Copies ==
  {1} \cup (IF "xaddLost" \in Faults THEN {0} ELSE {})
      \cup (IF "xaddTwice" \in Faults THEN {2} ELSE {})

\* A command under a cancelled context fails before it reaches Redis.
CopiesFor(c) == IF cancelled[Home[c]] THEN {0} ELSE Copies

XAdd(e, n) ==
  log' = CASE n = 0 -> log
           [] n = 1 -> Append(log, e)
           [] OTHER -> Append(Append(log, e), e)

Goto(c, p) == pc' = [pc EXCEPT ![c] = p]

\* Publish: the gateway enqueues a run once, with attempt 0. When the reply
\* is lost the caller sees an error although the entry is in the stream.
Publish(t) ==
  /\ t \notin sent
  /\ sent' = sent \cup {t}
  /\ \E n \in Copies :
       /\ XAdd([task |-> t, attempt |-> 0], n)
       /\ \/ n > 0 /\ accepted' = accepted \cup {t}
          \/ (n = 0 \/ "reply" \in Faults) /\ UNCHANGED accepted
  /\ UNCHANGED <<next, pel, dlq, pc, cur, cancelled, done>>

-----------------------------------------------------------------------------
\* Seeded fault: an undecodable task is acknowledged without a dead letter.
MutFirstPhaseSkipsBad(t) == IF Payload[t] = "task" THEN "handle" ELSE "ack"

\* The branches of the loop body on the decoded entry.
FirstPhase(t) ==
  CASE Payload[t] = "task"    -> "handle"
    [] Payload[t] = "noField" -> "ack"
    [] OTHER                  -> "bury"

\* Seeded fault: a consumer also claims pending entries of other consumers.
MutReadClaimsPending(c) ==
  /\ pc[c] = "read"
  /\ \E i \in pel \cup (IF next < Len(log) THEN {next + 1} ELSE {}) :
       /\ next' = IF i > next THEN i ELSE next
       /\ pel' = pel \cup {i}
       /\ cur' = [cur EXCEPT ![c] = i]
       /\ Goto(c, FirstPhase(log[i].task))
  /\ UNCHANGED <<log, dlq, cancelled, sent, accepted, done>>

\* XREADGROUP ">" with COUNT 1 hands the next entry to one consumer and
\* records it in the PEL. The client does not interrupt a blocked read when
\* the context is cancelled, so this may still happen after a shutdown.
Read(c) ==
  /\ pc[c] = "read"
  /\ next < Len(log)
  /\ next' = next + 1
  /\ pel' = pel \cup {next + 1}
  /\ cur' = [cur EXCEPT ![c] = next + 1]
  /\ Goto(c, FirstPhase(log[next + 1].task))
  /\ UNCHANGED <<log, dlq, cancelled, sent, accepted, done>>

\* The same command when its reply is lost: Redis has moved the entry to the
\* PEL, the loop backs off and asks for ">" again.
ReadReplyLost(c) ==
  /\ "reply" \in Faults
  /\ pc[c] = "read"
  /\ next < Len(log)
  /\ next' = next + 1
  /\ pel' = pel \cup {next + 1}
  /\ UNCHANGED <<log, dlq, pc, cur, cancelled, sent, accepted, done>>

\* Seeded fault: a successful task falls through to the retry branch.
MutHandlerOkRetries(c) ==
  /\ pc[c] = "handle"
  /\ done' = done \cup {cur[c]}
  /\ Goto(c, IF log[cur[c]].attempt + 1 < MaxRetry THEN "retry" ELSE "ack")
  /\ UNCHANGED <<log, next, pel, dlq, cur, cancelled, sent, accepted>>

HandlerOk(c) ==
  /\ pc[c] = "handle"
  /\ done' = done \cup {cur[c]}
  /\ Goto(c, "ack")
  /\ UNCHANGED <<log, next, pel, dlq, cur, cancelled, sent, accepted>>

\* Seeded fault: one attempt too many.
MutAfterFailureOffByOne(e) == IF e.attempt + 1 > MaxRetry THEN "bury" ELSE "retry"

\* The handler failed: t.Attempt++ and the comparison with maxRetry.
AfterFailure(e) == IF e.attempt + 1 >= MaxRetry THEN "bury" ELSE "retry"

\* Seeded fault: the old entry is acknowledged before its successor exists.
MutHandlerErrorAcksFirst(c) ==
  /\ pc[c] = "handle"
  /\ pel' = pel \ {cur[c]}
  /\ Goto(c, AfterFailure(log[cur[c]]))
  /\ UNCHANGED <<log, next, dlq, cur, cancelled, sent, accepted, done>>

HandlerError(c) ==
  /\ pc[c] = "handle"
  /\ Goto(c, AfterFailure(log[cur[c]]))
  /\ UNCHANGED <<log, next, pel, dlq, cur, cancelled, sent, accepted, done>>

\* The retry appends a new entry with the incremented attempt; the error of
\* XADD is dropped and the loop goes on to acknowledge the old entry.
Retry(c) ==
  /\ pc[c] = "retry"
  /\ \E n \in CopiesFor(c) : XAdd([log[cur[c]] EXCEPT !.attempt = @ + 1], n)
  /\ Goto(c, "ack")
  /\ UNCHANGED <<next, pel, dlq, cur, cancelled, sent, accepted, done>>

\* Seeded fault: deadLetter only acknowledges.
MutDeadLetterOnlyAcks(c) ==
  /\ pc[c] = "bury"
  /\ Goto(c, "ack")
  /\ UNCHANGED <<log, next, pel, dlq, cur, cancelled, sent, accepted, done>>

\* deadLetter: append the raw task to the DLQ, then acknowledge whether or
\* not the append worked.
DeadLetter(c) ==
  /\ pc[c] = "bury"
  /\ \E n \in CopiesFor(c) : dlq' = IF n = 0 THEN dlq ELSE dlq \cup {cur[c]}
  /\ Goto(c, "ack")
  /\ UNCHANGED <<log, next, pel, cur, cancelled, sent, accepted, done>>

\* XACK; its error is dropped. The top of the loop looks at the context
\* before it reads again.
Ack(c) ==
  /\ pc[c] = "ack"
  /\ \/ ~cancelled[Home[c]] /\ pel' = pel \ {cur[c]}
     \/ (cancelled[Home[c]] \/ "reply" \in Faults) /\ UNCHANGED pel
  /\ cur' = [cur EXCEPT ![c] = 0]
  /\ Goto(c, IF cancelled[Home[c]] THEN "down" ELSE "read")
  /\ UNCHANGED <<log, next, dlq, cancelled, sent, accepted, done>>

\* The read returned without an entry, and ctx.Err() # nil: Consume returns.
Exit(c) ==
  /\ pc[c] = "read"
  /\ cancelled[Home[c]]
  /\ Goto(c, "down")
  /\ UNCHANGED <<log, next, pel, dlq, cur, cancelled, sent, accepted, done>>

-----------------------------------------------------------------------------
\* SIGTERM cancels rootCtx; consumers keep running until they look at it.
Shutdown(w) ==
  /\ "shutdown" \in Faults
  /\ ~cancelled[w]
  /\ cancelled' = [cancelled EXCEPT ![w] = TRUE]
  /\ UNCHANGED <<log, next, pel, dlq, pc, cur, sent, accepted, done>>

\* The process dies, or its 10 s shutdown wait expires with handlers still
\* running: every consumer of the worker is gone, Redis keeps its state.
Die(w) ==
  /\ "crash" \in Faults \/ cancelled[w]
  /\ \E c \in Consumer : Home[c] = w /\ pc[c] # "down"
  /\ pc' = [c \in Consumer |-> IF Home[c] = w THEN "down" ELSE pc[c]]
  /\ cur' = [c \in Consumer |-> IF Home[c] = w THEN 0 ELSE cur[c]]
  /\ cancelled' = [cancelled EXCEPT ![w] = TRUE]
  /\ UNCHANGED <<log, next, pel, dlq, sent, accepted, done>>

\* A new process joins the same group (EnsureGroup ignores BUSYGROUP) and
\* reads ">" only: what the old one left in the PEL is not read again.
Start(w) ==
  /\ cancelled[w]
  /\ \A c \in Consumer : Home[c] = w => pc[c] = "down"
  /\ pc' = [c \in Consumer |-> IF Home[c] = w THEN "read" ELSE pc[c]]
  /\ cancelled' = [cancelled EXCEPT ![w] = FALSE]
  /\ UNCHANGED <<log, next, pel, dlq, cur, sent, accepted, done>>

Step(c) ==
  \/ Read(c) \/ HandlerOk(c) \/ HandlerError(c) \/ Retry(c)
  \/ DeadLetter(c) \/ Ack(c) \/ Exit(c)

Next ==
  \/ \E t \in Task : Publish(t)
  \/ \E c \in Consumer : Step(c) \/ ReadReplyLost(c)
  \/ \E w \in Worker : Shutdown(w) \/ Die(w) \/ Start(w)

Spec == Init /\ [][Next]_vars

\* The Go scheduler runs every goroutine that is not blocked, and a handler
\* is bounded by its model timeout, so a consumer that can step does.
FairSpec == Spec /\ \A c \in Consumer : WF_vars(Step(c))

-----------------------------------------------------------------------------
EntriesOf(t) == {i \in DOMAIN log : log[i].task = t}

\* t has reached one of the two ends the queue knows: handled or dead-lettered.
Resolved(t) == \E i \in EntriesOf(t) : i \in done \/ i \in dlq

\* A run is handed to a handler at most MaxRetry times, whatever crashes,
\* shutdowns and failed commands come between: the stream never holds more
\* than MaxRetry entries for it and each is delivered once. (Not claimed when
\* the client repeats an XADD.)
RetryBudget == \A t \in Task : Cardinality(EntriesOf(t)) <= MaxRetry

\* No entry carries an attempt that maxRetry rules out, even when XADDs are
\* repeated: deadLetter is taken before the counter gets there.
AttemptBounded == \A i \in DOMAIN log : log[i].attempt < MaxRetry

\* Two executions of one run never overlap: a new attempt enters the stream
\* only after the handler of the previous one has returned.
NoConcurrentExecution ==
  \A c, d \in Consumer :
    /\ pc[c] = "handle"
    /\ pc[d] = "handle"
    /\ log[cur[c]].task = log[cur[d]].task
    => c = d

\* While XADD does not fail, an accepted run is always resolved, waiting in
\* the stream or pending in the PEL: XACK never comes before its successor
\* entry. (noField entries are acknowledged and dropped by design.)
NoSilentLoss ==
  \A t \in accepted :
    \/ Payload[t] = "noField"
    \/ Resolved(t)
    \/ \E i \in EntriesOf(t) : i > next \/ i \in pel

\* A run that was handled or dead-lettered is never handed to a handler again.
TerminalIsFinal ==
  [][\A c \in Consumer :
       pc[c] # "handle" /\ pc'[c] = "handle" => ~Resolved(log[cur'[c]].task)]_vars

\* stream.go:92: a task whose failures reach maxRetry goes to the DLQ. Stated
\* for the entry of the last attempt once it is acknowledged.
ExhaustedGoesToDLQ ==
  \A i \in 1..next :
    /\ Payload[log[i].task] = "task"
    /\ log[i].attempt + 1 >= MaxRetry
    /\ i \notin pel
    => i \in done \/ i \in dlq

\* Delivered and pending, but no consumer works on it: nothing in the code
\* ever reads such an entry again.
Stranded(i) == i \in pel /\ \A c \in Consumer : cur[c] # i

\* If the workers stay up from some time on, every accepted run is handled or
\* dead-lettered and all its entries have left the PEL, save those that an
\* earlier crash, shutdown or lost reply left stranded there.
EventuallySettled ==
  <>[](\A w \in Worker : ~cancelled[w]) =>
    \A t \in Task :
      (t \in accepted /\ Payload[t] # "noField")
        ~> \/ \E i \in EntriesOf(t) : Stranded(i)
           \/ Resolved(t) /\ \A i \in EntriesOf(t) : i <= next /\ i \notin pel

-----------------------------------------------------------------------------
(* The strengthening that makes the properties above inductive.            *)

\* A consumer works on a delivered entry exactly while it is busy, no entry
\* has two consumers, and no entry belongs to a run that was never published.
Holding ==
  /\ \A c \in Consumer :
       IF pc[c] \in {"read", "down"} THEN cur[c] = 0 ELSE cur[c] \in 1..next
  /\ \A c, d \in Consumer : cur[c] = cur[d] /\ cur[c] # 0 => c = d
  /\ \A i \in DOMAIN log : log[i].task \in sent

\* The outcome of an entry is open until its consumer turns to XACK.
OutcomeOpen ==
  \A c \in Consumer :
    /\ pc[c] \in {"handle", "retry", "bury"} => cur[c] \notin done \cup dlq
    /\ pc[c] = "retry" => log[cur[c]].attempt + 1 < MaxRetry

\* Delivered, without outcome, and nobody will act on it but to acknowledge.
Spent(i) ==
  /\ i <= next
  /\ i \notin done \cup dlq
  /\ \A c \in Consumer : cur[c] = i => pc[c] = "ack"

\* The entries of a run form a chain: later ones carry higher attempts, and
\* every one but the last is spent.
Chain ==
  \A i, j \in DOMAIN log :
    i < j /\ log[i].task = log[j].task
      => log[i].attempt < log[j].attempt /\ Spent(i)

\* The inductive invariant of the stream when no XADD is repeated.
StreamInv == TypeOK /\ Holding /\ OutcomeOpen /\ AttemptBounded /\ Chain

-----------------------------------------------------------------------------
\* The refinement: a run is seen through its latest entry.
Latest(t) == CHOOSE i \in EntriesOf(t) : \A j \in EntriesOf(t) : j <= i

HeldIn(i, phases) == \E c \in Consumer : cur[c] = i /\ pc[c] \in phases

\* The first that applies.
EntryStatus(i) ==
  IF i > next                          THEN "waiting"
  ELSE IF i \in done                   THEN "done"
  ELSE IF i \in dlq                    THEN "dead"
  ELSE IF HeldIn(i, {"handle"})        THEN "running"
  ELSE IF HeldIn(i, {"retry", "bury"}) THEN "failing"
  ELSE "abandoned"

StatusOf(t) == IF EntriesOf(t) = {} THEN "none" ELSE EntryStatus(Latest(t))

\* Handlers started for a run of this status whose latest entry has attempt a.
TriesIn(status, t, a) ==
  IF status \in {"none", "abandoned"} THEN 0
  ELSE IF status = "waiting" \/ Payload[t] # "task" THEN a ELSE a + 1

TriesOf(t) == TriesIn(StatusOf(t), t, log[Latest(t)].attempt)

Lifecycle ==
  INSTANCE TaskLifecycle WITH
    status <- [t \in Task |-> StatusOf(t)],
    tries  <- [t \in Task |-> TriesOf(t)]

\* Read through the latest entry of each run, the stream, its PEL, the DLQ and
\* the consumers implement TaskLifecycle.
ImplementsLifecycle == Lifecycle!Spec

=============================================================================
