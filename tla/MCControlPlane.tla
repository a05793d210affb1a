--------------------------- MODULE MCControlPlane ---------------------------
\* ControlPlane with one agent.
EXTENDS ControlPlane
=============================================================================
