\* Three windows, two of one class, on one screen with two desktops: what can take the
\* activation from what.  The third sets the focus itself.
SPECIFICATION Spec
CONSTANTS
  NULL = NULL
  Never = Never
  Elsewhere = Elsewhere
  c1 = c1
  c2 = c2
  c3 = c3
  c4 = c4
  A = A
  B = B
  T = T
  NoName = NoName
  Client = {c1, c2, c3}
  GroupId = {1, 2, 3}
  ScreenCount = 1
  DesktopCount = 2
  Name = {A, B, T, NoName}
  ClassOf <- ClassesAAB
  TitleOf <- Titles3
  Ignored = {}
  Urgent = {}
  Input = {c1, c2}
  TakesFocus = {c3}
  Normal = {c1, c2, c3}
  KeyBindings = {"group-cycle", "menu-windows", "window-cycle", "window-rcycle", "window-close"}
  MouseBindings <- DefaultMouse
  NetMessages = {}
  DesktopIndices = {0, 1}
  Messages = {}
  Properties = {}
  Withdrawals = FALSE
  Signals = {}
  FirstWindows = {}
  InitialStates <- Plain
SYMMETRY Symmetry12
INVARIANTS
  ActivePublished
  OneGroupPerClass
  NothingStranded
  KeysGoToActive
CHECK_DEADLOCK FALSE
