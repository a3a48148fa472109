-------------------------- MODULE MCTransportRaces --------------------------
(* A small instance of TransportRaces for TLC: two threads that both call   *)
(* everything.                                                              *)
EXTENDS TransportRaces, TLC

CONSTANTS a, b

Shared == a :> Methods @@ b :> Methods

Symmetry == Permutations(Threads)

OneShape == {<<"status", "ok">>}
=============================================================================
