\* One window through every change of its _NET_WM_STATE, by keys, by pagers, by its owner
\* and by the end or the restart of the window manager.
SPECIFICATION Spec
CONSTANTS
  NULL = NULL
  Never = Never
  Elsewhere = Elsewhere
  c1 = c1
  c2 = c2
  c3 = c3
  c4 = c4
  A = A
  B = B
  T = T
  NoName = NoName
  Client = {c1}
  GroupId = {1}
  ScreenCount = 1
  DesktopCount = 2
  Name = {A, B, T, NoName}
  ClassOf <- ClassA
  TitleOf <- Title1
  Ignored = {}
  Urgent = {c1}
  Input = {}
  TakesFocus = {}
  Normal = {c1}
  KeyBindings = {"window-maximize", "window-fullscreen", "window-center", "window-restore", "window-tile", "window-hide", "window-close", "restart", "quit"}
  MouseBindings <- DefaultMouse
  NetMessages = {"STICKY", "VMAXIMIZED", "HIDDEN", "FULLSCREEN", "URGENCY", "SKIP_PAGER", "SKIP_TASKBAR"}
  DesktopIndices = {0, 1}
  Messages = {"WM_CHANGE_STATE", "_NET_ACTIVE_WINDOW", "_NET_CLOSE_WINDOW"}
  Properties = {"WM_HINTS", "WM_NAME"}
  Withdrawals = FALSE
  Signals = {"SIGTERM", "SIGHUP"}
  FirstWindows = {c1}
  InitialStates <- SomeStates
INVARIANTS
  StatePublished
CHECK_DEADLOCK FALSE
