-------------------------- MODULE MCCommandChannel --------------------------
(* A channel of a few commands for TLC.                                     *)
EXTENDS CommandChannel

SomeCommands == 1..3
=============================================================================
