\* Two windows on two desktops, whose owners follow any of the four input models and may
\* want to start as icons; adopted, closed, hidden, shown and taken over by restarts, while
\* an owner announces protocols or takes them back, or changes its hints.
SPECIFICATION Spec
CONSTANTS
  NULL = NULL
  c1 = c1
  c2 = c2
  d1 = d1
  d2 = d2
  Client = {c1, c2}
  Desktop = {d1, d2}
  First = d1
  ProtocolSets <- BothOrNone
  Hints <- TwoHints
  FirstWindows = {}
  Edits = 1
CONSTRAINT EditOrSwitch
SYMMETRY Clients2
INVARIANTS
  FocusOnActive
  StateTellsShown
PROPERTIES
  NeverKilledUnasked
