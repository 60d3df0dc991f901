----------------------------- MODULE Placement -----------------------------
(***************************************************************************)
(* Where the clients are and where the server has their windows: placing    *)
(* and adopting windows, the window commands that move and resize them,     *)
(* the two drags, maximizing and fullscreen with the one saved geometry     *)
(* they share, ConfigureRequests, struts, and the screen a tap activates.   *)
(*                                                                         *)
(* The server has a copy of each geometry and border, and learns of a new   *)
(* one only where a function calls client_move_resize or                    *)
(* client_draw_border, which each of them does for itself.                  *)
(*                                                                         *)
(* Groups, desktops and the choice of the active client are WindowState's,  *)
(* and so are the calls of client_draw_border when the activation moves.    *)
(* Here a command acts on any client, and the client that a new window is   *)
(* cascaded from is any other one on its screen.                            *)
(***************************************************************************)
EXTENDS Geometry

CONSTANTS
  NONE,
  BorderWidth       \* config->border_width

\* What differs from one session to the other, beside the screens.
Client        == session.windows      \* the windows there may be
Pointer       == session.pointer      \* window_placement is WINDOW_PLACEMENT_POINTER
Points        == session.points       \* positions of the pointer
Attributes    == session.attributes   \* geometry and border of windows without a client
SizeHints     == session.hints        \* the WM_NORMAL_HINTS that a window can have
Positioned    == session.positioned   \* windows with USPosition or PPosition
Ignored       == session.ignored      \* windows of an ignored class
Struts        == session.struts       \* the struts a window can have
NetStates     == session.states       \* _NET_WM_STATE of a window that is adopted
FirstWindows  == session.first        \* windows that are there at the start
KeyBindings   == session.keys
MouseBindings == session.mouse
NetToggles    == session.toggles
Requests      == session.requests     \* of ConfigureRequests
Limit         == session.limit        \* bound: no larger window is resized

NoStrut == [left |-> 0, right |-> 0, top |-> 0, bottom |-> 0]

\* The server keeps the pointer on a screen.
Shows(g, p) == p.x \in g.x .. g.x + g.width - 1 /\ p.y \in g.y .. g.y + g.height - 1

StrutT == [left : Unsigned, right : Unsigned, top : Unsigned, bottom : Unsigned]

\* The ratios that client_update_size_hints takes over; it leaves out those it cannot divide.
Ratios == {<< >>} \cup (Nat \ {0}) \X (Nat \ {0})

HintsT == [width : AxisHints, height : AxisHints, min_aspect : Ratios, max_aspect : Ratios]

\* The flags that matter here; MAXIMIZED stands for VMAXIMIZED and HMAXIMIZED, which
\* are only ever set and cleared together.
Flag == {"MAXIMIZED", "FULLSCREEN", "FREEZE", "IGNORE"}

\* Moving a window by the distance of the pointer or of two screens is not cut to an int here.
Rectangles == [x : Int, y : Int, width : Nat, height : Nat]

\* A window as the server has it.
Windows == [geometry : Rectangles, border : Unsigned]

\* client_t and its window.
Clients ==
  [screen : Nat, geometry : Rectangles, saved : Rectangles, border : Unsigned,
   flags : SUBSET Flag, hints : HintsT, strut : StrutT, window : Windows]

\* XConfigureRequestEvent: the value_mask, and what it has of the five fields.
ConfigureRequests ==
  [mask : SUBSET {"x", "y", "width", "height", "border_width"}, geometry : Geometries,
   border : 0 .. Half - 1]

\* The loop of function_window_move or _resize: the window and where the pointer is or was
\* at first, the least y of the window or its first size and the size last asked for.
Drags(windows) ==
  [client : windows, kind : {"move", "resize"}, x : 0 .. Half - 1, y : 0 .. Half - 1,
   top : Int, asked : {<< >>} \cup Unsigned \X Unsigned, width : Nat, height : Nat]

ASSUME PlacementAssumption ==
  /\ BorderWidth \in Nat /\ 2 * BorderWidth < Word
  /\ NONE \notin Clients
  /\ \A s \in Sessions :
       /\ NONE \notin s.windows /\ NONE \notin Drags(s.windows)
       /\ \A w \in s.attributes : w.geometry \in Geometries /\ w \in Windows
       /\ \A k \in DOMAIN s.screens :
            2 * BorderWidth < s.screens[k].width /\ 2 * BorderWidth < s.screens[k].height
       /\ \A p \in s.points : \E k \in DOMAIN s.screens : Shows(s.screens[k], p)
       /\ s.hints \subseteq HintsT
       /\ s.requests \subseteq ConfigureRequests
       /\ s.limit \in Unsigned
       /\ s.first \subseteq s.windows
       /\ NoStrut \in s.struts /\ s.struts \subseteq StrutT

VARIABLES
  clients,   \* the client_t of a window and the window itself, NONE if it has no client
  drag,      \* the nested loop of function_window_move or _resize, NONE outside them
  tapped,    \* the screen that a tap made ->active; 0 while the one of the start is
  wm         \* "IDLE", "RUNNING" or, after a division by zero, "CRASHED"

vars == <<session, clients, drag, tapped, wm>>

TypeOK ==
  /\ session \in Sessions
  /\ clients \in [Client -> Clients \cup {NONE}]
  /\ \A c \in Client : clients[c] # NONE => clients[c].screen \in DOMAIN Screens
  /\ drag # NONE => drag \in Drags(Client) /\ clients[drag.client] # NONE
  /\ tapped \in DOMAIN Screens \cup {0}
  /\ wm \in {"IDLE", "RUNNING", "CRASHED"}

Managed == {c \in Client : clients[c] # NONE}

Init ==
  /\ session \in Sessions
  /\ clients = [c \in Client |-> NONE]
  /\ drag = NONE
  /\ tapped = 0
  /\ wm = "IDLE"

-----------------------------------------------------------------------------
(* The functions of client.c and screen.c, from a client r of the window c to the *)
(* client it becomes                                                              *)

\* screen_available_area(r->group->desktop->screen) when c has become r.
AreaOf(c, r) ==
  LET others == {d \in Managed \ {c} : clients[d].screen = r.screen}
      struts == {r.strut} \cup {clients[d].strut : d \in others}
      Most(side) == CHOOSE n \in {s[side] : s \in struts} : \A s \in struts : s[side] <= n
  IN  Reduced(Screens[r.screen], [side \in DOMAIN r.strut |-> Most(side)])

\* XSetWindowBorderWidth and XMoveResizeWindow: what the server is told.
client_draw_border(r) == [r EXCEPT !.window.border = r.border]

client_move_resize(r) == [r EXCEPT !.window.geometry = r.geometry]

\* The flag client_move_resize takes away when it is called with reset.
Reset(r) == [r EXCEPT !.flags = @ \ {"MAXIMIZED"}]

\* The server is told if a clamp moves the window.
screen_adopt(c, r, i) ==
  LET moved == [r EXCEPT !.screen = i]
      g     == Adopted(r.geometry, AreaOf(c, moved))
  IN  IF g = r.geometry THEN moved ELSE client_move_resize([moved EXCEPT !.geometry = g])

\* The new hints, and the size they make of the present one.
client_update_size_hints(r, given) ==
  LET hints == UpdatedHints(r.hints, given)
  IN  client_move_resize([r EXCEPT !.hints = hints,
                                   !.geometry = client_apply_size_hints(@, hints)])

client_restore(c, r) ==
  IF r.saved.width = 0 \/ r.saved.height = 0 THEN r
  ELSE client_move_resize([Reset(r) EXCEPT !.geometry = r.saved])

\* Forgets to give the border back.
Flipped_Wrong(r) ==
  IF "FULLSCREEN" \in r.flags
  THEN [r EXCEPT !.geometry = r.saved, !.flags = @ \ {"FULLSCREEN", "FREEZE"}]
  ELSE [r EXCEPT !.saved = r.geometry, !.geometry = Screens[r.screen], !.border = 0,
                 !.flags = @ \cup {"FULLSCREEN", "FREEZE"}]

\* In and out of fullscreen.
Flipped(r) ==
  IF "FULLSCREEN" \in r.flags
  THEN [r EXCEPT !.border = IF "IGNORE" \in r.flags THEN @ ELSE BorderWidth,
                 !.geometry = r.saved,
                 !.flags = @ \ {"FULLSCREEN", "FREEZE"}]
  ELSE [r EXCEPT !.saved = r.geometry, !.geometry = Screens[r.screen], !.border = 0,
                 !.flags = @ \cup {"FULLSCREEN", "FREEZE"}]

client_toggle_fullscreen(c, r) ==
  IF "FREEZE" \in r.flags /\ "FULLSCREEN" \notin r.flags THEN r
  ELSE client_move_resize(client_draw_border(Flipped(r)))

\* Works in fullscreen, too.
client_toggle_maximize_Wrong(c, r) ==
  client_move_resize(
    IF "MAXIMIZED" \in r.flags THEN [Reset(r) EXCEPT !.geometry = r.saved]
    ELSE [r EXCEPT !.saved = r.geometry, !.geometry = Filling(AreaOf(c, r), r.border),
                   !.flags = @ \cup {"MAXIMIZED"}])

client_toggle_maximize(c, r) ==
  CASE "FREEZE" \in r.flags    -> r
    [] "FREEZE" \notin r.flags /\ "MAXIMIZED" \in r.flags ->
         client_move_resize(
           [Reset(r) EXCEPT !.geometry = IF r.saved.width > 0 /\ r.saved.height > 0
                                         THEN r.saved ELSE @])
    [] OTHER ->
         client_move_resize(
           [r EXCEPT !.saved = r.geometry, !.geometry = Filling(AreaOf(c, r), r.border),
                     !.flags = @ \cup {"MAXIMIZED"}])

client_toggle_hmaximize(c, r) ==
  LET full == Filling(AreaOf(c, r), r.border)
  IN  IF "FREEZE" \in r.flags THEN r
      ELSE client_move_resize([r EXCEPT !.geometry.x = full.x, !.geometry.width = full.width])

\* The height of the area becomes the width of the window.
client_toggle_vmaximize(c, r) ==
  LET full == Filling(AreaOf(c, r), r.border)
  IN  IF "FREEZE" \in r.flags THEN r
      ELSE client_move_resize([r EXCEPT !.geometry.y = full.y, !.geometry.width = full.height])

\* ewmh_restore_net_wm_state, as far as it moves the window.
Restored(c, r, atoms) ==
  LET v == IF "VMAXIMIZED" \in atoms THEN client_toggle_vmaximize(c, r) ELSE r
      h == IF "HMAXIMIZED" \in atoms THEN client_toggle_hmaximize(c, v) ELSE v
  IN  IF "FULLSCREEN" \in atoms THEN client_toggle_fullscreen(c, h) ELSE h

\* Publishes the state and forgets to move the window.
function_window_center_Wrong(c, r) ==
  Reset([r EXCEPT !.saved = r.geometry, !.geometry = Centered(@, AreaOf(c, r), r.border)])

function_window_center(c, r) ==
  client_move_resize(
    Reset([r EXCEPT !.saved = r.geometry, !.geometry = Centered(@, AreaOf(c, r), r.border)]))

function_window_tile(c, r, hpart, vpart) ==
  client_move_resize(
    Reset([r EXCEPT !.saved = r.geometry,
                    !.geometry = client_apply_size_hints(
                                   Tiled(AreaOf(c, r), r.border, hpart, vpart), r.hints)]))

\* Measures the offset on the new screen.
function_window_move_to_screen_Wrong(c, r, direction) ==
  LET i   == screen_find(direction, r.screen)
      new == AreaOf(c, [r EXCEPT !.screen = i])
  IN  IF i = 0 THEN r
      ELSE screen_adopt(c, client_move_resize([r EXCEPT !.geometry.x = new.x,
                                                        !.geometry.y = new.y]), i)

\* The area of the new screen is measured without the strut of the client.
function_window_move_to_screen(c, r, direction) ==
  LET i     == screen_find(direction, r.screen)
      old   == AreaOf(c, r)
      new   == AreaOf(c, [r EXCEPT !.screen = i, !.strut = NoStrut])
      moved == [r EXCEPT !.geometry.x = new.x + (@ - old.x),
                         !.geometry.y = new.y + (@ - old.y)]
  IN  IF i = 0 THEN r ELSE screen_adopt(c, client_move_resize(moved), i)

-----------------------------------------------------------------------------
(* Becoming a client *)

\* client_init up to the placement of a window; screen_adopt is called before the
\* strut is read.  Nobody tells the server of the border here.
Initialized(c, window, atoms, strut, given) ==
  LET g        == window.geometry
      fresh    == [screen |-> screen_for_client(g), geometry |-> g, saved |-> g,
                   border |-> BorderWidth, flags |-> {}, strut |-> NoStrut, hints |-> NoHints,
                   window |-> window]
      hinted   == client_update_size_hints(fresh, given)
      adopted  == screen_adopt(c, hinted, fresh.screen)
      restored == [Restored(c, adopted, atoms) EXCEPT !.strut = strut]
  IN  IF c \in Ignored
      THEN [restored EXCEPT !.flags = @ \cup {"IGNORE"}, !.border = 0] ELSE restored

\* What client_init can make of a window and the properties it may have.
Inits(c, window) == {Initialized(c, window, atoms, strut, given) :
                       atoms \in NetStates, strut \in Struts, given \in SizeHints}

\* The places beside each other window of the group of c; no place where the code
\* divides by zero.
Cascades(c, r) ==
  {Cascaded(clients[d].geometry, area) :
     d \in {d \in Managed \ {c} : clients[d].screen = r.screen}, area \in {AreaOf(c, r)}}

\* Where client_placement may put the client r: beside another one, in the middle when
\* there is none, or under the pointer at p.
client_placement(c, r, p) ==
  LET wished == IF Pointer THEN {UnderPointer(r.geometry, p.x, p.y, r.border)}
                ELSE (UNION Cascades(c, r))
                       \cup {Centered(r.geometry, area, r.border) : area \in {AreaOf(c, r)}}
  IN  IF c \in Positioned THEN {r.geometry}
      ELSE {Placed(g, area) : g \in wished, area \in {AreaOf(c, r)}}

DividesByZero(c, r) == ~Pointer /\ c \notin Positioned /\ {} \in Cascades(c, r)

Become(c, r) == clients' = [clients EXCEPT ![c] = r]

\* A window that is on the screen is activated, unless it is of an ignored class; the
\* border of the others is not drawn until they are shown.
state_update_clients(c) ==
  /\ wm = "IDLE"
  /\ c \in FirstWindows \ Managed
  /\ \E window \in Attributes : \E r \in Inits(c, window) :
       \/ Become(c, r)
       \/ "IGNORE" \notin r.flags /\ Become(c, client_draw_border(r))
  /\ UNCHANGED <<session, drag, tapped, wm>>

main_enter_loop ==
  /\ wm = "IDLE"
  /\ FirstWindows \subseteq Managed
  /\ wm' = "RUNNING"
  /\ UNCHANGED <<session, clients, drag, tapped>>

\* A client r is placed at g on the screen it is on, adopted by the last screen and shown.
Shown(c, r, g) ==
  client_draw_border(
    screen_adopt(c, client_move_resize([r EXCEPT !.geometry = g]), Len(Screens)))

\* A window becomes a client, or one that was unmapped is shown again.
event_handle_map_request(c, window) ==
  /\ wm = "RUNNING"
  /\ drag = NONE
  /\ \/ /\ c \in Managed
        /\ Become(c, client_draw_border(clients[c]))
        /\ UNCHANGED wm
     \/ /\ c \notin Managed
        /\ \E r \in Inits(c, window) :
             \/ /\ \E p \in Points : \E g \in client_placement(c, r, p) : Become(c, Shown(c, r, g))
                /\ UNCHANGED wm
             \/ /\ DividesByZero(c, r)
                /\ Become(c, r)
                /\ wm' = "CRASHED"
  /\ UNCHANGED <<session, drag, tapped>>

\* A later window of this model may take the place of one that is destroyed.
event_handle_destroy_notify(c) ==
  /\ wm = "RUNNING"
  /\ drag = NONE
  /\ c \in Managed
  /\ Become(c, NONE)
  /\ UNCHANGED <<session, drag, tapped, wm>>

-----------------------------------------------------------------------------
(* The other events *)

\* The fields of the request that are in its mask, in a client or a window.
Configured(w, q) ==
  [w EXCEPT !.geometry = [f \in DOMAIN @ |-> IF f \in q.mask THEN q.geometry[f] ELSE @[f]],
            !.border = IF "border_width" \in q.mask THEN q.border ELSE @]

XConfigureWindow(r, q) == [r EXCEPT !.window = Configured(@, q)]

\* Records fields that the mask does not name.
event_handle_configure_request_Wrong(c) ==
  /\ wm = "RUNNING"
  /\ drag = NONE
  /\ c \in Managed
  /\ \E q \in Requests :
       Become(c, XConfigureWindow([clients[c] EXCEPT !.geometry = q.geometry], q))
  /\ UNCHANGED <<session, drag, tapped, wm>>

\* The owner of a window asks for some fields of its geometry and its border and gets them.
\* (It does so before there is a client, too: Attributes has what it may have made of them.)
event_handle_configure_request(c) ==
  /\ wm = "RUNNING"
  /\ drag = NONE
  /\ c \in Managed
  /\ \E q \in Requests : Become(c, XConfigureWindow(Configured(clients[c], q), q))
  /\ UNCHANGED <<session, drag, tapped, wm>>

\* WM_NORMAL_HINTS and the struts are read again when they change.
event_handle_property_notify(c) ==
  /\ wm = "RUNNING"
  /\ drag = NONE
  /\ c \in Managed
  /\ LET r == clients[c]
     IN  \/ \E given \in SizeHints : Become(c, client_update_size_hints(r, given))
         \/ \E strut \in Struts : Become(c, [r EXCEPT !.strut = strut])
  /\ UNCHANGED <<session, drag, tapped, wm>>

\* _NET_WM_STATE messages with _NET_WM_STATE_TOGGLE.
event_handle_client_message(c) ==
  /\ wm = "RUNNING"
  /\ drag = NONE
  /\ c \in Managed
  /\ LET r == clients[c]
     IN  \/ "VMAXIMIZED" \in NetToggles /\ Become(c, client_toggle_vmaximize(c, r))
         \/ "HMAXIMIZED" \in NetToggles /\ Become(c, client_toggle_hmaximize(c, r))
         \/ "FULLSCREEN" \in NetToggles /\ Become(c, client_toggle_fullscreen(c, r))
  /\ UNCHANGED <<session, drag, tapped, wm>>

\* function_window_move and function_window_resize up to their loop.
Grab(c, kind, p) ==
  /\ clients' = [clients EXCEPT ![c].saved = clients[c].geometry]
  /\ drag' = [client |-> c, kind |-> kind, x |-> p.x, y |-> p.y,
              top |-> AreaOf(c, clients[c]).y, asked |-> << >>,
              width |-> clients[c].geometry.width, height |-> clients[c].geometry.height]

\* The functions a key or a button is bound to; where is where the pointer may be.
Run(command, c, where) ==
  LET r == clients[c]
      Done(s) == Become(c, s) /\ UNCHANGED drag
  IN  \/ command = "window-move" /\ \E p \in where : Grab(c, "move", p)
      \/ /\ command = "window-resize"
         /\ r.geometry.width <= Limit /\ r.geometry.height <= Limit
         /\ \E p \in where : Grab(c, "resize", p)
      \/ command = "window-center" /\ Done(function_window_center(c, r))
      \/ command = "window-fullscreen" /\ Done(client_toggle_fullscreen(c, r))
      \/ command = "window-maximize" /\ Done(client_toggle_maximize(c, r))
      \/ command = "window-restore" /\ Done(client_restore(c, r))
      \/ /\ command = "window-tile"
         /\ \E h, v \in Parts : Done(function_window_tile(c, r, h, v))
      \/ /\ command = "window-move-to-screen"
         /\ \E d \in {"up", "down", "left", "right"} : Done(function_window_move_to_screen(c, r, d))

event_handle_key_press(c, command) ==
  /\ wm = "RUNNING"
  /\ drag = NONE
  /\ c \in Managed
  /\ Run(command, c, Points)
  /\ UNCHANGED <<session, tapped, wm>>

\* A press at p, which activates the screen there, on the root or another window or on
\* the client c.
event_handle_button_press(p) ==
  /\ wm = "RUNNING"
  /\ drag = NONE
  /\ tapped' = screen_for_point(p.x, p.y)
  /\ \/ UNCHANGED <<clients, drag>>
     \/ \E c \in Managed, command \in MouseBindings :
          Shows(clients[c].window.geometry, p) /\ Run(command, c, {p})
  /\ UNCHANGED <<session, wm>>

\* MotionNotify during a drag.
Motion(p) ==
  /\ drag # NONE
  /\ LET c == drag.client
         r == Reset(clients[c])
         y == r.geometry.y + p.y - drag.y
         size == [r.geometry EXCEPT
                    !.width = Plus(drag.width, ToUnsigned(p.x - drag.x)),
                    !.height = Plus(drag.height, ToUnsigned(p.y - drag.y))]
     IN  \/ /\ drag.kind = "move"
            /\ Become(c, client_move_resize([r EXCEPT !.geometry.x = @ + p.x - drag.x,
                                                      !.geometry.y = Larger(y, drag.top)]))
            /\ drag' = [drag EXCEPT !.x = p.x, !.y = p.y]
         \/ /\ drag.kind = "resize"
            /\ Become(c, client_move_resize(
                            [r EXCEPT !.geometry = client_apply_size_hints(size, r.hints)]))
            /\ drag' = [drag EXCEPT !.asked = <<size.width, size.height>>]
  /\ UNCHANGED <<session, tapped, wm>>

\* ButtonRelease: a window that was moved goes to the screen it is on now.
Release ==
  /\ drag # NONE
  /\ LET c == drag.client
         r == clients[c]
         i == screen_for_client(r.geometry)
     IN  IF drag.kind = "move" /\ i # r.screen
         THEN Become(c, screen_adopt(c, r, i)) ELSE UNCHANGED clients
  /\ drag' = NONE
  /\ UNCHANGED <<session, tapped, wm>>

Next ==
  \/ main_enter_loop
  \/ \E c \in Client :
       \/ state_update_clients(c)
       \/ \E window \in Attributes : event_handle_map_request(c, window)
       \/ event_handle_destroy_notify(c)
       \/ event_handle_configure_request(c)
       \/ event_handle_property_notify(c)
       \/ event_handle_client_message(c)
       \/ \E command \in KeyBindings : event_handle_key_press(c, command)
  \/ \E p \in Points : event_handle_button_press(p) \/ Motion(p)
  \/ Release

Spec == Init /\ [][Next]_vars

-----------------------------------------------------------------------------
(* Properties *)

\* The program and the server agree on where the window of a client is, whichever path moved
\* it last and whichever fields its owner asked for, although some fifteen functions change
\* ->geometry and each has to tell the server itself: the next command and the choice of a
\* screen start from client->geometry.  They agree on the border as well, except for windows
\* that were there at the start, which keep the one they came with until they are shown or
\* go through fullscreen.
ServerInStep ==
  \A c \in Managed :
    LET r == clients[c]
    IN  /\ r.window.geometry = r.geometry
        /\ wm = "RUNNING" /\ c \notin FirstWindows => r.window.border = r.border

\* Nothing but center, tile, restore, maximize and fullscreen moves windows.
OnlyCommands ==
  /\ KeyBindings \cap {"window-move", "window-resize", "window-move-to-screen"} = {}
  /\ MouseBindings = {} /\ Requests = {} /\ NetToggles \subseteq {"FULLSCREEN"}
  /\ Struts = {NoStrut} /\ SizeHints = {NoHints}

\* A client marked as maximized fills the available area, or will when it leaves
\* fullscreen: the two modes share geometry_saved, and center, tile and restore write it
\* or use it in either.  (A drag that ends before it moves saves the fullscreen geometry
\* over it.)
MaximizedFills ==
  OnlyCommands => \A c \in Managed :
    LET r    == clients[c]
        edge == IF "IGNORE" \in r.flags THEN 0 ELSE BorderWidth
    IN  "MAXIMIZED" \in r.flags =>
          Filling(AreaOf(c, r), edge) = IF "FULLSCREEN" \in r.flags THEN r.saved ELSE r.geometry

\* A client has the configured border exactly when it is not fullscreen and not of an
\* ignored class, in whatever order it got and lost the two, unless owners ask for others.
BorderMatches ==
  Requests = {} => \A c \in Managed :
    clients[c].border = IF clients[c].flags \cap {"FULLSCREEN", "IGNORE"} = {}
                        THEN BorderWidth ELSE 0

\* a .. a + m and b .. b + n have a point in common, as integers without a width.
Meet(a, m, b, n) == a <= b + n /\ b <= a + m

Touches(g, s) == Meet(g.x, g.width, s.x, s.width) /\ Meet(g.y, g.height, s.y, s.height)

\* The commands that put a window back at its saved geometry, which may lie on a screen that
\* it does not belong to any more, or where the window was created.
Savers == {"window-restore", "window-fullscreen", "window-maximize"}

GoesBack ==
  "FULLSCREEN" \in NetToggles \/ (KeyBindings \cup MouseBindings) \cap Savers # {}

\* A client is not lost beyond the edges of the screen it belongs to, after any sequence
\* of adoptions, drags with the pointer on the window, and window commands; those that
\* go back are allowed if there is one screen and windows are created on it.  (Centering
\* loses a window that is larger than the area: half of a negative difference is huge.)
OnItsScreen ==
  /\ Requests = {} /\ "window-move" \notin KeyBindings
  /\ GoesBack => Len(Screens) = 1 /\ \A w \in Attributes : Touches(w.geometry, Screens[1])
  => \A c \in Managed :
    LET r    == clients[c]
        area == AreaOf(c, r)
    IN  \/ drag # NONE /\ drag.client = c
        \/ Touches(r.geometry, Screens[r.screen])
        \/ "window-center" \in KeyBindings \cup MouseBindings
           /\ (r.geometry.width > area.width \/ r.geometry.height > area.height)

\* The largest size not above asked that the hints allow, as the ICCCM describes them.
BestFit(asked, h) ==
  LET steps == (asked - h.desired) \div h.increment
      size  == Larger(h.desired + steps * h.increment, h.min)
  IN  IF h.max # 0 THEN Smaller(size, h.max) ELSE size

\* Dragging an edge gives a window without an aspect ratio the largest size that its
\* hints allow and the pointer asks for, provided the pointer asks for no less than the
\* base size.
ResizeRespectsHints ==
  (drag # NONE /\ drag.kind = "resize" /\ drag.asked # << >>) =>
    LET g     == clients[drag.client].geometry
        hints == clients[drag.client].hints
    IN  (hints.min_aspect = << >> /\ drag.asked[1] >= hints.width.desired
                                  /\ drag.asked[2] >= hints.height.desired) =>
          /\ g.width = BestFit(drag.asked[1], hints.width)
          /\ g.height = BestFit(drag.asked[2], hints.height)

Within(at, size, from, extent) == at >= from /\ at + size <= from + extent

Inside(g, s) == Within(g.x, g.width, s.x, s.width) /\ Within(g.y, g.height, s.y, s.height)

\* A new window that asks for no position, and was created on the screen that adopts it,
\* lies in the available area once it is placed, if it fits there at all.
NewWindowsFit ==
  [][\A c \in Client \ Positioned, window \in Attributes :
       (clients[c] = NONE /\ screen_for_client(window.geometry) = Len(Screens)
          /\ event_handle_map_request(c, window) /\ wm' = "RUNNING") =>
         LET g    == clients'[c].geometry
             area == AreaOf(c, clients[c])'
         IN  (g.width <= area.width /\ g.height <= area.height) => Inside(g, area)]_vars

\* A share of the area has room for two borders and the least size that the hints allow.
Room(part, extent, border, axis) ==
  Share(part, extent) >= 2 * border + Larger(axis.desired, axis.min)

\* What window-tile makes of a client lies in the area, borders included, and does not reach
\* into a tile on the opposite side, whatever the struts leave and whatever its increments
\* and maximum make of the tile, as long as the window has no aspect ratio and there is
\* room for its base and minimum size.  (Without room the size is the minimum, or wraps.)
TilesFit ==
  \A c \in Managed :
    LET r    == clients[c]
        area == AreaOf(c, r)
        T(part) == function_window_tile(c, r, part, part).geometry
        Outer(g) == [g EXCEPT !.width = @ + 2 * r.border, !.height = @ + 2 * r.border]
        Fits(part) == /\ Room(part, area.width, r.border, r.hints.width)
                      /\ Room(part, area.height, r.border, r.hints.height)
    IN  r.hints.min_aspect = << >> =>
          \A p \in {part \in Parts : Fits(part)} :
            /\ Inside(Outer(T(p)), area)
            /\ p \in {"first_half", "first_third"} =>
                 \A q \in {"last_half", "last_third"} :
                   /\ T(p).x + T(p).width + 2 * r.border <= T(q).x
                   /\ T(p).y + T(p).height + 2 * r.border <= T(q).y

Opposite(d) == CASE d = "left" -> "right" [] d = "right" -> "left" [] d = "up" -> "down"
                 [] d = "down" -> "up"

\* On screens of one size in a row, window-move-to-screen there and back again leaves a
\* window that lies in the area of its screen where it was.
MoveIsReversible ==
  \A c \in Managed :
    LET r == clients[c]
    IN  Inside(r.geometry, AreaOf(c, r)) =>
          \A d \in {"up", "down", "left", "right"} :
            LET there == function_window_move_to_screen(c, r, d)
                back  == function_window_move_to_screen(c, there, Opposite(d))
            IN  there = r \/ /\ Inside(there.geometry, AreaOf(c, there))
                             /\ back = r

\* A tap activates the screen that was tapped.
TapActivates ==
  [][\A p \in Points : event_handle_button_press(p) => Shows(Screens[tapped'], p)]_vars

\* README.md: "Tapping anywhere on the screen activates this screen, making all new windows
\* get assigned to it".  Once a screen was tapped, a window that becomes a client does so on
\* the screen tapped last.
NewWindowsOnTappedScreen ==
  [][\A c \in Client : tapped # 0 /\ clients[c] = NONE /\ clients'[c] # NONE
                        => clients'[c].screen = tapped]_vars
=============================================================================
