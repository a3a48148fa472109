----------------------------- MODULE MCTransport -----------------------------
(* Small instances of Transport for TLC: who may call what, and the shapes  *)
(* of the answers.                                                          *)
EXTENDS TransportChannel, TLC

CONSTANTS a, b

Solo   == a :> Methods                                 \* one thread does everything
Rivals == a :> Methods @@ b :> {"start", "stop"}       \* two control the process

OneShape  == {<<"status", "ok">>}
TwoShapes == {<<"status", "ok">>, <<"data", "status", "error">>}
=============================================================================
