-------------------------- MODULE MCSessionManager --------------------------
(* Two threads that share a manager, for TLC.                               *)
EXTENDS SessionManager

CONSTANTS a, b

Everything == [t \in {a, b} |-> Methods]
=============================================================================
