------------------------------- MODULE MCIcccm -------------------------------
(* Owners of every input model of the ICCCM. *)
EXTENDS Icccm, TLC

CONSTANTS c1, c2, d1, d2

\* Sets of protocols that owners announce.
BothOrNone == {{}, {"WM_DELETE_WINDOW", "WM_TAKE_FOCUS"}}

Hint(input, initial) == [input |-> input, state |-> initial]
TwoHints == {Hint(TRUE, "None"), Hint(FALSE, "Iconic")}

\* Bound: owners edit their properties, and windows on the second desktop are shown, but not
\* both in one behaviour; each has more than half a million states of its own.
EditOrSwitch == edits = 0 \/ (current = First /\ On(state, First) = Managed)

Clients2 == Permutations({c1, c2})
=============================================================================
