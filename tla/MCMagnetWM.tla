---------------------------- MODULE MCMagnetWM ----------------------------
(* Values for the constants of MagnetWM, shared by the cfg files. *)
EXTENDS MagnetWM, TLC

CONSTANTS c1, c2, c3, c4   \* windows
CONSTANTS A, B, T          \* class names; T is a title

\* One, two and three windows of the first class, the last of another.
ClassA      == (c1 :> A)
ClassesAB   == (c1 :> A @@ c2 :> B)
ClassesAAB  == (c1 :> A @@ c2 :> A @@ c3 :> B)
ClassesAAAB == (c1 :> A @@ c2 :> A @@ c3 :> A @@ c4 :> B)

Title1  == [c \in {c1} |-> T]
Titles2 == [c \in {c1, c2} |-> T]
Titles3 == [c \in {c1, c2, c3} |-> T]
Titles4 == [c \in {c1, c2, c3, c4} |-> T]

DefaultMouse == {"window-move", "window-resize"}

\* Windows of one class can be exchanged; every property checked under it is one of
\* states or steps.
Symmetry12  == Permutations({c1, c2})
Symmetry123 == Permutations({c1, c2, c3})

Plain == {{}}
SomeStates == {{}, {"STICKY", "VMAXIMIZED"}, {"HIDDEN", "SKIP_PAGER"}, {"URGENCY", "FULLSCREEN"}}
===========================================================================
