------------------------------- MODULE Inputs -------------------------------
(***************************************************************************)
(* The arguments of one call of a pure function: every behaviour of the    *)
(* modules that extend this one starts with a call and has one state.  The *)
(* field fn names the function, the other fields are its parameters.       *)
(***************************************************************************)
VARIABLE input

Calling(f) == input.fn = f
=============================================================================
