\* Three windows of one class, mapped, hidden and cycled in any order, beside one of an
\* ignored class.
SPECIFICATION Spec
CONSTANTS
  NULL = NULL
  Never = Never
  Elsewhere = Elsewhere
  c1 = c1
  c2 = c2
  c3 = c3
  c4 = c4
  A = A
  B = B
  T = T
  NoName = NoName
  Client = {c1, c2, c3, c4}
  GroupId = {1, 2, 3, 4}
  ScreenCount = 1
  DesktopCount = 1
  Name = {A, B, T, NoName}
  ClassOf <- ClassesAAAB
  TitleOf <- Titles4
  Ignored = {B}
  Urgent = {}
  Input = {}
  TakesFocus = {}
  Normal = {c1, c2, c3, c4}
  KeyBindings = {"group-cycle", "menu-windows", "window-cycle", "window-rcycle", "window-hide"}
  MouseBindings <- DefaultMouse
  NetMessages = {}
  DesktopIndices = {}
  Messages = {"_NET_ACTIVE_WINDOW"}
  Properties = {}
  Withdrawals = FALSE
  Signals = {}
  FirstWindows = {c4}
  InitialStates <- Plain
SYMMETRY Symmetry123
INVARIANTS
  CycleIsReversible
  IgnoredNeverActive
  NeverStops
CHECK_DEADLOCK FALSE
