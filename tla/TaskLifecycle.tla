---------------------------- MODULE TaskLifecycle ----------------------------
(***************************************************************************)
(* What the task queue promises about one run, without streams, ids or     *)
(* consumers: a run waits, is tried, and ends done, dead or abandoned;     *)
(* it is tried by one handler at a time and at most MaxRetry times; an     *)
(* ended run stays ended. The three ways into "abandoned" are the queue's  *)
(* known gaps: a crash or shutdown while it was pending, a lost reply, and *)
(* a failed XADD.                                                          *)
(***************************************************************************)
EXTENDS Naturals

CONSTANTS Task, MaxRetry

VARIABLES
  status,   \* Task -> Status
  tries     \* Task -> how many handlers were started for the live run

lvars == <<status, tries>>

Status == {"none", "waiting", "running", "failing", "done", "dead", "abandoned"}

Init ==
  /\ status = [t \in Task |-> "none"]
  /\ tries = [t \in Task |-> 0]

Become(t, from, to) ==
  /\ status[t] = from
  /\ status' = [status EXCEPT ![t] = to]

Submit(t) == Become(t, "none", "waiting") /\ UNCHANGED tries

Begin(t) ==
  /\ Become(t, "waiting", "running")
  /\ tries[t] < MaxRetry
  /\ tries' = [tries EXCEPT ![t] = @ + 1]

Succeed(t) == Become(t, "running", "done") /\ UNCHANGED tries

Fail(t) == Become(t, "running", "failing") /\ UNCHANGED tries

\* An entry that cannot be decoded fails without having been tried.
Reject(t) == Become(t, "waiting", "failing") /\ UNCHANGED tries

Requeue(t) ==
  /\ Become(t, "failing", "waiting")
  /\ tries[t] \in 1..(MaxRetry - 1)
  /\ UNCHANGED tries

Bury(t) ==
  /\ Become(t, "failing", "dead")
  /\ tries[t] \in {0, MaxRetry}
  /\ UNCHANGED tries

\* A worker may hold several runs when it dies.
Abandon(S) ==
  /\ S # {}
  /\ \A t \in S : status[t] \in {"waiting", "running", "failing"}
  /\ status' = [t \in Task |-> IF t \in S THEN "abandoned" ELSE status[t]]
  /\ tries' = [t \in Task |-> IF t \in S THEN 0 ELSE tries[t]]

Next ==
  \/ \E t \in Task :
       \/ Submit(t) \/ Begin(t) \/ Succeed(t) \/ Fail(t)
       \/ Reject(t) \/ Requeue(t) \/ Bury(t)
  \/ \E S \in SUBSET Task : Abandon(S)

Spec == Init /\ [][Next]_lvars

=============================================================================
