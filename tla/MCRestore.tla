----------------------------- MODULE MCRestore -----------------------------
(* Values for the constants of Restore. *)
EXTENDS Restore

Above     == {"ABOVE"}   \* an atom that the program does not know
Any       == Atom \cup Above
Meanwhile == {"ABOVE", "HIDDEN"}
=============================================================================
