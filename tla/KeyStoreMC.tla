----------------------------- MODULE KeyStoreMC -----------------------------
(* Instances of KeyStore for TLC.                                          *)
EXTENDS KeyStore, TLC

\* Threads, persistent identifiers and key materials are interchangeable:
\* slots are ordered and stay as they are.
Symmetry == Permutations(Threads) \cup Permutations(UserIds)
              \cup Permutations(Materials)
=============================================================================
