\* Menus of up to four items in a window of three, with keys, wheel and pointer.
SPECIFICATION Spec
CONSTANTS
  NULL = NULL
  ItemCount = 4
  Limit = 3
  Cycles <- BothKinds
  FilterMax = 2
  Lowest = 2
INVARIANTS
  ListMatchesFilter
  SelectionInStep
  NoNullFollowed
  ChosenIsShown
CHECK_DEADLOCK FALSE
