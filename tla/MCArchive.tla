------------------------------- MODULE MCArchive -------------------------------
(* The instances of Archive that TLC checks; the .cfg files give the bounds. *)
EXTENDS Archive
=============================================================================
