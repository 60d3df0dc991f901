\* Two windows of two classes on two screens, created, mapped, withdrawn and destroyed at
\* any moment, also while the program restarts.
SPECIFICATION FairSpec
CONSTANTS
  NULL = NULL
  Never = Never
  Elsewhere = Elsewhere
  c1 = c1
  c2 = c2
  c3 = c3
  c4 = c4
  A = A
  B = B
  T = T
  NoName = NoName
  Client = {c1, c2}
  GroupId = {1, 2}
  ScreenCount = 2
  DesktopCount = 1
  Name = {A, B, T, NoName}
  ClassOf <- ClassesAB
  TitleOf <- Titles2
  Ignored = {}
  Urgent = {}
  Input = {}
  TakesFocus = {}
  Normal = {c1, c2}
  KeyBindings = {"group-cycle", "window-close", "window-move-to-screen", "restart"}
  MouseBindings = {}
  NetMessages = {}
  DesktopIndices = {}
  Messages = {}
  Properties = {}
  Withdrawals = TRUE
  Signals = {}
  FirstWindows = {c1}
  InitialStates <- Plain
INVARIANTS
  ListsAgree
  ClientsHaveWindows
PROPERTIES
  DestroyedIsForgotten
  RequestedIsManaged
  ImplementsActiveClient
CHECK_DEADLOCK FALSE
