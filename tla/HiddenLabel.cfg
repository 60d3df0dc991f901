\* One line that sets the label of hidden windows.
SPECIFICATION Spec
CONSTANTS
  NULL = NULL
  Files <- HiddenLabel
  Notation <- MCNotation
  Keysyms <- Keys
  Keyboard <- US
  Presses <- MCPresses
INVARIANT GrammarIsReachable
