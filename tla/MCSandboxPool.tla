---------------------------- MODULE MCSandboxPool ----------------------------
(* Instances of SandboxPool: two callers share two warm slots.               *)
EXTENDS SandboxPool, TLC

Interchangeable == Permutations(Slot) \cup Permutations(Caller)

=============================================================================
