\* The bindings of example.magnetwmrc.
SPECIFICATION Spec
CONSTANTS
  NULL = NULL
  Files <- Example
  Notation <- MCNotation
  Keysyms <- Keys
  Keyboard <- US
  Presses <- MCPresses
INVARIANT ExampleIsRead
