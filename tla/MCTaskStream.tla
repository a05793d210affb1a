---------------------------- MODULE MCTaskStream ----------------------------
(* Instances of TaskStream: two workers with a consumer each, and a run with  *)
(* or without a payload that cannot be decoded beside it.                     *)
EXTENDS TaskStream, TLC

CONSTANTS t1, t2, w1, w2, c1, c2

PairHome  == (c1 :> w1) @@ (c2 :> w2)
MixedTasks == (t1 :> "task") @@ (t2 :> "badJSON")
OneTask   == t1 :> "task"

=============================================================================
