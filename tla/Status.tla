------------------------------- MODULE Status -------------------------------
(***************************************************************************)
(* Status codes, and the way the code gets one: by checks in a fixed       *)
(* order, the first that fails being the answer.                           *)
(***************************************************************************)
EXTENDS Naturals, Sequences, SequencesExt

First(a, b) == IF a # "OK" THEN a ELSE b
Check(ok, status) == IF ok THEN "OK" ELSE status

First3(a, b, c) == First(a, First(b, c))
First4(a, b, c, d) == First(a, First3(b, c, d))

\* A call that may run out of memory.
Memory == {"OK", "INSUFFICIENT_MEMORY"}
=============================================================================
