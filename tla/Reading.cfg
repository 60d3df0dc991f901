\* Every file of three lines, some of them blank, on a US keyboard.
SPECIFICATION Spec
CONSTANTS
  NULL = NULL
  Files <- MCFiles
  Notation <- MCNotation
  Keysyms <- Keys
  Keyboard <- US
  Presses <- MCPresses
INVARIANT LastLineWins
INVARIANT GrabsMatchBindings
