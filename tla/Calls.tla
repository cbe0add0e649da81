------------------------------- MODULE Calls -------------------------------
(***************************************************************************)
(* Calls of functions that keep no state between them.  A behaviour makes  *)
(* one call at a time: the function, what went in and what came out.       *)
(***************************************************************************)
EXTENDS Integers, Sequences

VARIABLE call

NoCall == [f |-> "none"]

CallsInit == call = NoCall
Idle == call = NoCall
Calls(f, in, out) == call' = [f |-> f, in |-> in, out |-> out]
Return == ~Idle /\ call' = NoCall

\* The result of a call is right: the function is f only if ok holds of it.
Of(f, ok) == call.f = f => ok
=============================================================================
