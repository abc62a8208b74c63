------------------------------ MODULE MCRecovery ------------------------------
(* Crash recovery and the trade log on small instances, for TLC.           *)
EXTENDS Recovery, TLC

\* Symbols are interchangeable, and so are writers.
Symmetry == Permutations(Symbols) \cup Permutations(Writers)
=============================================================================
