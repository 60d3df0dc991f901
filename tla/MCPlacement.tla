---------------------------- MODULE MCPlacement ----------------------------
(* Screens, windows and sessions small enough for TLC. *)
EXTENDS Placement

CONSTANTS w1, w2

MCWord == 4096
OneScreen    == <<Rectangle(0, 0, 12, 9)>>
TwoScreens   == OneScreen \o <<Rectangle(12, 0, 12, 9)>>
ThreeScreens == TwoScreens \o <<Rectangle(24, 0, 12, 9)>>

At(x, y) == [x |-> x, y |-> y]
OnePoint   == {At(1, 1)}
SomePoints == {At(1, 1), At(6, 4), At(11, 8)}
OnTwoScreens == {At(1, 2), At(11, 8), At(12, 1), At(20, 5)}

\* What windows are created with; few have a border of their own.
Created(x, y, width, height) == [geometry |-> Rectangle(x, y, width, height), border |-> 0]
Small == Created(2, 1, 4, 3)
Large == [Created(0, 0, 14, 5) EXCEPT !.border = 2]
Left  == Created(-2, 3, 5, 2)
AllSizes  == {Small, Large, Left}
NotLarge  == {Small, Left}
Scattered == {Created(40, 20, 3, 3), Created(-20, 2, 3, 3)}
SmallOnly == {Small}
SomeSizes == {Small, Large}

Axis(desired, min, max, increment) ==
  [desired |-> desired, min |-> min, max |-> max, increment |-> increment]
Hints(width, height, min_aspect, max_aspect) ==
  [width |-> width, height |-> height, min_aspect |-> min_aspect, max_aspect |-> max_aspect]
Terminal == Hints(Axis(1, 3, 0, 2), Axis(1, 2, 7, 3), << >>, << >>)
Film     == Hints(Axis(0, 2, 0, 0), Axis(0, 2, 0, 0), <<1, 3>>, <<2, 1>>)

Plain           == {NoHints}
TerminalAndFilm == {Terminal, Film}

Strut(left, right, top, bottom) ==
  [left |-> left, right |-> right, top |-> top, bottom |-> bottom]
NoStruts   == {NoStrut}
SomeStruts == {NoStrut, Strut(1, 0, 2, 0), Strut(0, 3, 0, 1)}
WideStruts == {NoStrut, Strut(0, 0, 1, 4)}   \* leaves an area of 12 by 4

\* One field, the size, the border with a coordinate, everything.
Request(mask, x, y, width, height, border) ==
  [mask |-> mask, geometry |-> Rectangle(x, y, width, height), border |-> border]
SomeRequests ==
  {Request({"x"}, -2, 0, 0, 0, 0),
   Request({"width", "height"}, 0, 0, 14, 5, 0),
   Request({"y", "border_width"}, 0, 3, 0, 0, 2),
   Request({"x", "y", "width", "height", "border_width"}, -2, 3, 5, 2, 1)}

-----------------------------------------------------------------------------
(* Sessions *)

\* One window on one screen, and nothing can be done to it.
Quiet ==
  [screens |-> OneScreen, windows |-> {w1}, pointer |-> FALSE, points |-> SomePoints,
   attributes |-> SomeSizes, hints |-> Plain, positioned |-> {}, ignored |-> {},
   struts |-> NoStruts, states |-> {{}}, first |-> {w1}, keys |-> {}, mouse |-> {},
   toggles |-> {}, requests |-> {}, limit |-> 14]

\* Every window command that needs no pointer, and a pager that toggles fullscreen.
Maximize ==
  [Quiet EXCEPT
     !.states = {{}, {"VMAXIMIZED", "HMAXIMIZED"}, {"FULLSCREEN"}},
     !.keys = {"window-center", "window-fullscreen", "window-maximize", "window-restore",
               "window-tile"},
     !.toggles = {"FULLSCREEN"}]

\* A window that is moved with the pointer on it, sent from one of two screens to the
\* other and centered.
Drag ==
  [Quiet EXCEPT
     !.screens = TwoScreens, !.points = OnTwoScreens, !.attributes = Scattered \cup NotLarge,
     !.keys = {"window-move-to-screen", "window-center"},
     !.mouse = {"window-move"}]

\* A terminal with size increments and a film with an aspect ratio, resized with the
\* pointer.
Resize ==
  [Quiet EXCEPT
     !.attributes = SmallOnly, !.hints = TerminalAndFilm, !.struts = WideStruts, !.first = {},
     !.keys = {"window-resize", "window-restore", "window-maximize"}, !.limit = 8]

\* A window whose owner asks for other geometries and borders between the commands.
Asking ==
  [Quiet EXCEPT
     !.positioned = {w1}, !.first = {}, !.attributes = {Small},
     !.keys = {"window-center", "window-fullscreen", "window-restore", "window-maximize"},
     !.requests = SomeRequests]

\* Two windows that come and go on a screen with struts; new ones are cascaded.
Cascade ==
  [Quiet EXCEPT !.windows = {w1, w2}, !.points = OnePoint, !.struts = WideStruts, !.first = {w2}]

\* Two windows, one of them of an ignored class, on a screen with struts on three sides;
\* new ones are placed under the pointer, unless they ask for a position.
UnderThePointer ==
  [Quiet EXCEPT
     !.windows = {w1, w2}, !.pointer = TRUE, !.attributes = NotLarge, !.ignored = {w2},
     !.struts = SomeStruts, !.states = {{}, {"FULLSCREEN"}}, !.first = {w2},
     !.toggles = {"FULLSCREEN"}]

\* Three screens in a row and a window sent from one to the next.
InARow ==
  [Quiet EXCEPT
     !.screens = ThreeScreens, !.attributes = AllSizes,
     !.keys = {"window-move-to-screen", "window-tile"}, !.toggles = {"VMAXIMIZED", "HMAXIMIZED"}]

\* A window that asks for its position, and taps on two screens.
Taps ==
  [Quiet EXCEPT
     !.screens = TwoScreens, !.points = OnTwoScreens, !.positioned = {w1}, !.first = {},
     !.mouse = {"window-move"}]

MCSessions == {Maximize, Drag, Resize, Asking, Cascade, UnderThePointer, InARow, Taps}
TapSession == {Taps}
=============================================================================
