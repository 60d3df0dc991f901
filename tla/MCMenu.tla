------------------------------- MODULE MCMenu -------------------------------
(* Values for the constants of Menu. *)
EXTENDS Menu

BothKinds == BOOLEAN
=============================================================================
