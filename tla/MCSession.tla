------------------------------- MODULE MCSession -------------------------------
(* Sessions on small instances, for TLC.                                   *)
EXTENDS Session, TLC

\* Clients are interchangeable.
Symmetry == Permutations(Clients)
=============================================================================
