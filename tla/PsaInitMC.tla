----------------------------- MODULE PsaInitMC -----------------------------
(* Instances of PsaInit for TLC.                                           *)
EXTENDS PsaInit, TLC

Symmetry == Permutations(Threads)
=============================================================================
