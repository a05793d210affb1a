------------------------------ MODULE MCCluster ------------------------------
(* Instances of Cluster: two scheduler nodes and two workers.                *)
EXTENDS Cluster, TLC

CONSTANTS w1, w2

Order == (w1 :> 1) @@ (w2 :> 2)
Nobody == << >>
===============================================================================
