\* Four events of any kinds, beside the releases that end drags and menus, under fairness.
SPECIFICATION FairSpec
CONSTANT MaxEvents = 4
INVARIANT NothingLost
INVARIANT SleepsWhenDone
PROPERTY EventsAreHandled
PROPERTY TermEndsProgram
CHECK_DEADLOCK FALSE
