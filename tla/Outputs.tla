------------------------------- MODULE Outputs -------------------------------
(***************************************************************************)
(* How the outputs of the X server become screens, and what pagers are     *)
(* told of them: state_update_screens with its round trips, the properties *)
(* of the root window that state_init writes one after the other, then     *)
(* taps and switches of desktops.  Somebody may plug, unplug and move      *)
(* outputs at any moment, between two round trips too, and after the       *)
(* start, when nobody looks any more: RRScreenChangeNotify is asked for    *)
(* and never handled.  A restart starts over, on a root window that has    *)
(* the properties of the process before.                                   *)
(***************************************************************************)
EXTENDS TailQueue

CONSTANTS
  Word, Fuzzy,
  Output, Crtc,
  OutputList,      \* resources->outputs
  Layouts,         \* what the server may be set to
  Points,          \* positions of the pointer
  DesktopCount,    \* screen->desktop_count, 4
  DesktopIndices,  \* what pagers ask for with _NET_CURRENT_DESKTOP
  Changes          \* bound: how often the layout changes

Rectangles == [x : Nat, y : Nat, width : Nat, height : Nat]

\* A layout: the outputs with a monitor, the CRTC of an output (an output that was
\* unplugged keeps it until somebody turns it off), the geometry of a CRTC (without a mode
\* it is empty, and NULL when the CRTC went away with its card).  The protocol has 16 bits
\* for each number of a geometry, and an int of the program has more.
ASSUME OutputsAssumption ==
  /\ OutputList \in Seq(Output) /\ Range(OutputList) = Output /\ IsInjective(OutputList)
  /\ NULL \notin Crtc /\ NULL \notin Rectangles
  /\ \A l \in Layouts : /\ l.connected \subseteq Output
                         /\ l.crtc \in [Output -> Crtc \cup {NULL}]
                         /\ l.at \in [Crtc -> Rectangles \cup {NULL}]
                         /\ \A k \in Crtc : l.at[k] # NULL =>
                              l.at[k].x + l.at[k].width < Word /\ l.at[k].y + l.at[k].height < Word
  /\ Word \in Nat /\ Points \subseteq [x : Nat, y : Nat]
  /\ DesktopCount \in Nat \ {0}
  /\ DesktopIndices \subseteq Nat
  /\ Changes \in Nat

VARIABLES
  layout,    \* what the server is set to
  changes,   \* how often it was changed
  calm,      \* it was not changed since the process was started
  at,        \* the step of state_init, or what became of it
  left,      \* the outputs of the loop that are still to be looked at
  held,      \* the CRTC of the output at hand
  screens,   \* state->screens
  root       \* the properties of the root window

vars == <<layout, changes, calm, at, left, held, screens, root>>

\* The geometry operators on the list of screens as it is.
G == INSTANCE Geometry WITH
       Sessions <- {},
       session  <- [screens |-> [i \in DOMAIN screens |-> screens[i].geometry]]

Steps == <<"resources", "output", "crtc", "pointer", "number", "geometry", "names",
           "viewport", "current">>

Screen == [geometry : Rectangles, index : 0 .. DesktopCount - 1, active : BOOLEAN]

\* The current desktop of a screen is one that it has, and a CRTC is at hand while it is asked for.
TypeOK ==
  /\ layout \in Layouts
  /\ changes \in 0 .. Changes
  /\ calm \in BOOLEAN
  /\ at \in Range(Steps) \cup {"RUNNING", "EXITED", "CRASHED"}
  /\ left \in Seq(Output)
  /\ held \in Crtc \cup {NULL}
  /\ held = NULL <=> at # "crtc"
  /\ screens \in Seq(Screen)
  /\ root \in [number : Nat, names : Nat, viewport : Seq(Nat \X Nat), current : Nat]

-----------------------------------------------------------------------------
(* The server *)

Lit(l, o) == l.crtc[o] # NULL

Empty(g) == g = NULL \/ g.width = 0 \/ g.height = 0

\* The pointer is on a CRTC that shows something.
OnGlass(p) ==
  \E k \in Crtc :
    LET g == layout.at[k]
    IN  /\ ~Empty(g)
        /\ p.x \in g.x .. g.x + g.width - 1
        /\ p.y \in g.y .. g.y + g.height - 1

Init ==
  /\ layout \in Layouts
  /\ changes = 0
  /\ calm = TRUE
  /\ at = "resources"
  /\ left = << >>
  /\ held = NULL
  /\ screens = << >>
  /\ root = [number |-> 0, names |-> 0, viewport |-> << >>, current |-> 0]

\* Somebody runs xrandr, or pulls a plug.
Change(l) ==
  /\ changes < Changes /\ l # layout
  /\ layout' = l
  /\ changes' = changes + 1
  /\ calm' = FALSE
  /\ UNCHANGED <<at, left, held, screens, root>>

Server == <<layout, changes, calm>>

-----------------------------------------------------------------------------
(* state_update_screens *)

XRRGetScreenResources ==
  /\ at = "resources"
  /\ \/ at' = "output" /\ left' = OutputList   \* an array that is copied once
     \/ at' = "EXITED" /\ left' = left         \* no RandR, or no answer
  /\ UNCHANGED <<Server, held, screens, root>>

\* Takes an output that has a CRTC for one that has a monitor.
XRRGetOutputInfo_Wrong ==
  /\ at = "output" /\ left # << >>
  /\ left' = Tail(left)
  /\ LET o == Head(left)
     IN  IF Lit(layout, o) THEN at' = "crtc" /\ held' = layout.crtc[o]
         ELSE UNCHANGED <<at, held>>
  /\ UNCHANGED <<Server, screens, root>>

XRRGetOutputInfo ==
  /\ at = "output" /\ left # << >>
  /\ left' = Tail(left)
  /\ LET o == Head(left)
     IN  IF o \in layout.connected /\ Lit(layout, o)
         THEN at' = "crtc" /\ held' = layout.crtc[o]
         ELSE UNCHANGED <<at, held>>
  /\ UNCHANGED <<Server, screens, root>>

\* The name of an output is new in every turn of the loop, so that a screen is made each
\* time: screen_init.
XRRGetCrtcInfo ==
  /\ at = "crtc"
  /\ at' = "output"
  /\ held' = NULL
  /\ screens' = IF layout.at[held] = NULL THEN screens
                ELSE Append(screens, [geometry |-> layout.at[held], index |-> 0,
                                      active |-> FALSE])
  /\ UNCHANGED <<Server, left, root>>

\* Leaves the screen that was active as it is.
screen_activate_Wrong(list, i) == [list EXCEPT ![i].active = TRUE]

\* The first screen of the list that is active, if one is.
screen_find_active(list) ==
  {i \in DOMAIN list : list[i].active /\ \A j \in 1 .. i - 1 : ~list[j].active}

\* Only the first active screen is cleared: with two of them one would stay.
screen_activate(list, i) ==
  LET current == screen_find_active(list)
  IN  IF i \in current THEN list
      ELSE [j \in DOMAIN list |->
             [list[j] EXCEPT !.active = (j = i) \/ (@ /\ j \notin current)]]

Active == {i \in DOMAIN screens : screens[i].active}

\* The end of state_update_screens: the screen of the pointer, or the last one.  The
\* clients that state_update_clients makes after it need a screen and change none.
choose_active ==
  /\ at = "output" /\ left = << >>
  /\ at' = "number"
  /\ \E p \in Points :
       /\ OnGlass(p) \/ \A q \in Points : ~OnGlass(q)
       /\ LET under == G!screen_for_point(p.x, p.y)
              i == IF under # 0 THEN under ELSE Len(screens)
          IN  screens' = IF i = 0 THEN screens ELSE screen_activate(screens, i)
  /\ UNCHANGED <<Server, left, held, root>>

-----------------------------------------------------------------------------
(* The properties of the root window *)

\* The geometry of the screen that has the desktop of number n, counted from 1.
GeometryOf(n) == screens[((n - 1) \div DesktopCount) + 1].geometry

Write(from, to) ==
  /\ at = from /\ at' = to
  /\ UNCHANGED <<Server, left, held, screens>>

ewmh_set_net_number_of_desktops ==
  /\ Write("number", "geometry")
  /\ root' = [root EXCEPT !.number = DesktopCount * Len(screens)]

\* The sizes, written to _NET_DESKTOP_VIEWPORT.
ewmh_set_net_desktop_geometry ==
  /\ Write("geometry", "names")
  /\ root' = [root EXCEPT !.viewport =
                [n \in 1 .. DesktopCount * Len(screens) |->
                  <<GeometryOf(n).width, GeometryOf(n).height>>]]

ewmh_set_net_desktop_names ==
  /\ Write("names", "viewport")
  /\ root' = [root EXCEPT !.names = DesktopCount * Len(screens)]

ewmh_set_net_desktop_viewport ==
  /\ Write("viewport", "current")
  /\ root' = [root EXCEPT !.viewport =
                [n \in 1 .. DesktopCount * Len(screens) |-> <<GeometryOf(n).x, GeometryOf(n).y>>]]

\* The desktops of the screens before the active one, and those before its current one.
Number(list) ==
  LET i == CHOOSE i \in DOMAIN list : list[i].active
  IN  IF \E j \in DOMAIN list : list[j].active
      THEN (i - 1) * DesktopCount + list[i].index
      ELSE DesktopCount * Len(list)

ewmh_set_net_current_desktop ==
  /\ Write("current", "RUNNING")
  /\ root' = [root EXCEPT !.current = Number(screens)]

-----------------------------------------------------------------------------
(* Events *)

\* A tap where there is no screen: screen_activate follows a NULL.
event_handle_button_press(p) ==
  /\ at = "RUNNING"
  /\ OnGlass(p)
  /\ LET i == G!screen_for_point(p.x, p.y)
     IN  CASE i # 0                  -> at' = at /\ screens' = screen_activate(screens, i)
           [] i = 0 /\ Active = {}   -> UNCHANGED <<at, screens>>
           [] i = 0 /\ Active # {}   -> at' = "CRASHED" /\ UNCHANGED screens
  /\ UNCHANGED <<Server, left, held, root>>

\* Publishes the number that the desktop has on its screen.
desktop_switch_to_index_Wrong(n) ==
  /\ at = "RUNNING"
  /\ \E i \in Active :
       LET index == n - (i - 1) * DesktopCount
       IN  IF index \in 0 .. DesktopCount - 1
           THEN /\ screens' = [screens EXCEPT ![i].index = index]
                /\ root' = [root EXCEPT !.current = index]
                /\ UNCHANGED at
           ELSE at' = "CRASHED" /\ UNCHANGED <<screens, root>>
  /\ UNCHANGED <<Server, left, held>>

\* An index outside the active screen reads past the array of its desktops.
desktop_switch_to_index(n) ==
  /\ at = "RUNNING"
  /\ \E i \in Active :
       LET index == n - (i - 1) * DesktopCount
       IN  IF index \in 0 .. DesktopCount - 1
           THEN /\ screens' = [screens EXCEPT ![i].index = index]
                /\ root' = [root EXCEPT !.current = n]
                /\ UNCHANGED at
           ELSE at' = "CRASHED" /\ UNCHANGED <<screens, root>>
  /\ UNCHANGED <<Server, left, held>>

\* A new process: the memory is blank, the root window is not.
restart ==
  /\ at = "RUNNING"
  /\ at' = "resources"
  /\ screens' = << >>
  /\ calm' = TRUE
  /\ UNCHANGED <<layout, changes, left, held, root>>

state_init ==
  \/ XRRGetScreenResources
  \/ XRRGetOutputInfo
  \/ XRRGetCrtcInfo
  \/ choose_active
  \/ ewmh_set_net_number_of_desktops
  \/ ewmh_set_net_desktop_geometry
  \/ ewmh_set_net_desktop_names
  \/ ewmh_set_net_desktop_viewport
  \/ ewmh_set_net_current_desktop

Next ==
  \/ state_init
  \/ \E p \in Points : event_handle_button_press(p)
  \/ \E n \in DesktopIndices : desktop_switch_to_index(n)
  \/ restart
  \/ \E l \in Layouts : Change(l)

Spec == Init /\ [][Next]_vars

-----------------------------------------------------------------------------
(* Properties *)

\* One screen is active as soon as there is one, whatever was plugged and tapped in what
\* order: screen_activate clears the first active screen that it finds, so a second one would
\* stay for good, and the switches of desktops and what pagers are told go by the first.
OneActiveScreen == at = "RUNNING" /\ screens # << >> => \E i \in DOMAIN screens : Active = {i}

\* An output that makes a screen.
Shows(l, o) == o \in l.connected /\ Lit(l, o) /\ l.at[l.crtc[o]] # NULL

\* The areas of the first n outputs, and those of the screens.
Areas(n) ==
  LET lit == Picked(OutputList, {k \in 1 .. n : Shows(layout, OutputList[k])})
  IN  [i \in DOMAIN lit |-> layout.at[layout.crtc[lit[i]]]]

Geometries == [i \in DOMAIN screens |-> screens[i].geometry]

\* When nothing changed while the program read the outputs, one round trip at a time, its
\* screens are the lit outputs with a monitor, in the order of the server.
ScreensAsPlugged == at = "RUNNING" /\ calm => Geometries = Areas(Len(OutputList))

\* The four properties that pagers read agree with each other and with the screens, also
\* after a restart with other outputs, and although taps change the active screen without
\* telling: the current desktop is one that some screen shows, and its viewport is the
\* corner of that screen.  _NET_DESKTOP_GEOMETRY is not among them: nothing writes it.
PagersAgree ==
  at = "RUNNING" =>
    /\ root.number = DesktopCount * Len(screens)
    /\ root.names = root.number
    /\ Len(root.viewport) = root.number
    /\ screens = << >> \/
       \E i \in DOMAIN screens :
         /\ root.current = (i - 1) * DesktopCount + screens[i].index
         /\ root.viewport[root.current + 1] = <<screens[i].geometry.x, screens[i].geometry.y>>

\* Every area that shows something belongs to an output with a monitor.
AllConnected ==
  \A k \in Crtc : Empty(layout.at[k]) \/ \E o \in layout.connected : layout.crtc[o] = k

\* No tap ends the program while the outputs are those it has started with and no output
\* without a monitor is left on: wherever the pointer can be there is a screen.
TapsAreSafe ==
  [][\A p \in Points : event_handle_button_press(p) /\ calm /\ AllConnected => at' = "RUNNING"]_vars

\* A tap anywhere activates a screen and does not end the program (README.md: "Tapping
\* anywhere on the screen activates this screen").
TapsActivateAnywhere ==
  [][\A p \in Points : event_handle_button_press(p) => at' = "RUNNING"]_vars
=============================================================================
