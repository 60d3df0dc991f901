\* The bindings of example.magnetwmrc on a US keyboard.
SPECIFICATION Spec
CONSTANTS
  NULL = NULL
  Files <- Example
  Notation <- MCNotation
  Keysyms <- Keys
  Keyboard <- US
  Presses <- MCPresses
INVARIANT OneCommandAPress
