----------------------------- MODULE MCTerminal -----------------------------
(* Small instances of Terminal for TLC: who calls which methods.            *)
EXTENDS Terminal, TLC

CONSTANTS a, b

Session == a :> Methods
Pair    == a :> {"start", "connect"} @@ b :> {"refresh", "workflow"}
=============================================================================
