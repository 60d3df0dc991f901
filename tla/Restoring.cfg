\* A window with any of the eight atoms and one that the program does not know, taken over by
\* process after process while its owner writes too.
SPECIFICATION Spec
CONSTANTS
  Foreign <- Above
  Carried <- Any
  Owned <- Meanwhile
INVARIANT RestoresAll
PROPERTY ForeignKept
