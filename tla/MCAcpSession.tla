---------------------------- MODULE MCAcpSession ----------------------------
(* Instances of AcpSession: one client that may have to dial again for a run  *)
(* of which one event is not forwarded.                                       *)
EXTENDS AcpSession, TLC

SameSessions == Permutations(Session)

=============================================================================
