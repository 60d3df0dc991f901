----------------------------- MODULE MCMainLoop -----------------------------
(* The loop with a few events; MaxEvents is given by the cfg files. *)
EXTENDS MainLoop
=============================================================================
