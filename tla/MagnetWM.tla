------------------------------ MODULE MagnetWM ------------------------------
(***************************************************************************)
(* The window manager and its surroundings: the events of event.c, the     *)
(* functions of functions.c that a key or a button is bound to, start and  *)
(* restart (state.c, magnetwm.c), and the owners of the windows, who        *)
(* create, map, withdraw and destroy them at any moment.                    *)
(*                                                                         *)
(* The program is one process and handles one event at a time; what runs   *)
(* beside it is the X server and the owners of windows.  Two kinds of      *)
(* event have a life of their own between the server and the handler and   *)
(* wait in queue: the MapRequest and the DestroyNotify of a window.  Any   *)
(* other event (key, button, client message) carries at most the name of a *)
(* window, and is handled at the moment it is taken to arrive.             *)
(***************************************************************************)
EXTENDS WindowState

CONSTANTS
  KeyBindings,     \* commands of the bind-key lines
  MouseBindings,   \* commands of the bind-mouse lines
  NetMessages,     \* _NET_WM_STATE atoms that pagers send
  DesktopIndices,  \* desktops that pagers ask for with _NET_CURRENT_DESKTOP
  Messages,        \* the other client messages that arrive
  Normal,          \* windows of type CLIENT_TYPE_NORMAL
  Properties,      \* the properties that owners change
  Withdrawals,     \* BOOLEAN: do owners unmap their windows?
  Signals,         \* signals sent to the process
  FirstWindows,    \* windows that the session may have at the first start
  InitialStates    \* the _NET_WM_STATE a window may be created with

ASSUME MagnetWMAssumption ==
  /\ NetMessages \subseteq Atom
  /\ DesktopIndices \subseteq Nat
  /\ Withdrawals \in BOOLEAN
  /\ Normal \subseteq Client
  /\ FirstWindows \subseteq Client
  /\ InitialStates \subseteq SUBSET Atom

VARIABLES
  state,     \* state_t, and the X server as far as the program sees it
  wm_state,  \* the variable of magnetwm.c, or how the process ended
  windows,   \* windows that state_update_clients has still to visit
  queue      \* MapRequest and DestroyNotify events that nobody has read yet

vars == <<state, wm_state, windows, queue>>

\* Until state_init ends the root window has no event mask, so nobody tells the
\* program what owners do; afterwards it listens, and goes on listening while it
\* empties its queue after a restart or quit was asked for.
Listening == wm_state \in {"RUNNING", "RESTART", "QUIT"}

\* The process is still there.
Up == wm_state = "IDLE" \/ Listening

TypeOK ==
  /\ state \in WindowStates
  /\ wm_state \in {"IDLE", "RUNNING", "RESTART", "QUIT", "EXITED", "HUNG", "CRASHED"}
  /\ windows \subseteq Client
  /\ queue \subseteq {"MapRequest", "DestroyNotify"} \X Client

\* A process that has just been started, on a server that already has its windows:
\* the memory is blank and state_update_screens has made the screens.
Started(server, scr) ==
  [server EXCEPT
     !.group = [c \in Client |-> NULL],
     !.flags = [c \in Client |-> {}],
     !.mapped = [c \in Client |-> FALSE],
     !.clients = [g \in GroupId |-> << >>],
     !.name = [g \in GroupId |-> NoName],
     !.desktop = [g \in GroupId |-> NULL],
     !.groups = [d \in Desktop |-> << >>],
     !.desktop_index = [r \in Screen |-> 0],
     !.active = scr,
     !.focus = NULL,
     !.life = [c \in Client |-> IF @[c] = "alive" THEN "alive" ELSE "absent"]]

\* The events of a window that wait.
Pending(c) == {e \in queue : e[2] = c}

AliveIn(s) == {c \in Client : Alive(s, c)}

\* The first start, in a session that may already have windows.
Init ==
  /\ \E alive \in SUBSET FirstWindows :
       \E shown \in SUBSET alive, atoms \in [alive -> InitialStates], scr \in Screen :
         state = [group |-> [c \in Client |-> NULL],
                  flags |-> [c \in Client |-> {}],
                  mapped |-> [c \in Client |-> FALSE],
                  clients |-> [g \in GroupId |-> << >>],
                  name |-> [g \in GroupId |-> NoName],
                  desktop |-> [g \in GroupId |-> NULL],
                  groups |-> [d \in Desktop |-> << >>],
                  desktop_index |-> [r \in Screen |-> 0],
                  active |-> scr,
                  life |-> [c \in Client |-> IF c \in alive THEN "alive" ELSE "absent"],
                  viewable |-> [c \in Client |-> c \in shown],
                  focus |-> NULL,
                  netState |-> [c \in Client |-> IF c \in alive THEN atoms[c] ELSE {}],
                  netActive |-> NULL,
                  netDesktop |-> 0]
  /\ wm_state = "IDLE"
  /\ windows = AliveIn(state)
  /\ queue = {}

-----------------------------------------------------------------------------
(* The owners of the windows *)

Create(c) ==
  /\ Up
  /\ state.life[c] = "absent"
  /\ Pending(c) = {}
  /\ \E atoms \in InitialStates :
       state' = [state EXCEPT !.life[c] = "alive", !.netState[c] = atoms]
  /\ UNCHANGED <<wm_state, windows, queue>>

\* XMapWindow by the owner: redirected to the window manager if that listens.
RequestMap(c) ==
  /\ Up
  /\ Alive(state, c)
  /\ ~state.viewable[c]
  /\ \/ /\ Listening
        /\ queue' = queue \cup {<<"MapRequest", c>>}
        /\ UNCHANGED state
     \/ /\ wm_state = "IDLE"
        /\ state' = XMapWindow(state, c)
        /\ UNCHANGED queue
  /\ UNCHANGED <<wm_state, windows>>

\* XUnmapWindow by the owner.  The UnmapNotify falls through the switch of
\* event_process.
Withdraw(c) ==
  /\ Up
  /\ Withdrawals
  /\ Alive(state, c)
  /\ state.viewable[c]
  /\ state' = XUnmapWindow(state, c)
  /\ UNCHANGED <<wm_state, windows, queue>>

\* A window of s is destroyed.  Its DestroyNotify matters when it has a client or a
\* MapRequest ahead of it; while nobody listens there is none, and a client made by
\* then stays behind as a zombie.
Destroyed(s, c) ==
  [s EXCEPT !.life[c] = IF ~Listening /\ c \in Managed(s) THEN "zombie" ELSE "absent",
            !.viewable[c] = FALSE,
            !.focus = IF @ = c THEN NULL ELSE @,
            !.netState[c] = {}]

DestroyNotified(s, c) ==
  IF Listening /\ (c \in Managed(s) \/ Pending(c) # {})
  THEN queue \cup {<<"DestroyNotify", c>>} ELSE queue

Destroy(c) ==
  /\ Up
  /\ Alive(state, c)
  /\ state' = Destroyed(state, c)
  /\ queue' = DestroyNotified(state, c)
  /\ UNCHANGED <<wm_state, windows>>

\* The owner of a window with WM_TAKE_FOCUS sets the input focus, when it is told to or
\* because somebody clicked into it.  Where the focus goes from there, when the owner moves
\* it again or its window vanishes, is the owner's choice.
TakeFocus(c) ==
  /\ Up
  /\ c \in TakesFocus
  /\ state.viewable[c]
  /\ state' = [state EXCEPT !.focus = Elsewhere]
  /\ UNCHANGED <<wm_state, windows, queue>>

-----------------------------------------------------------------------------
(* Start, restart, end *)

\* One turn of the loop of state_update_clients.
state_update_clients(c) ==
  /\ wm_state = "IDLE"
  /\ c \in windows
  /\ windows' = windows \ {c}
  /\ IF ~Alive(state, c) THEN UNCHANGED state     \* XGetWindowAttributes fails
     ELSE \E scr \in Screen :
            LET s == client_init(state, c, scr)
            IN  state' = IF s.mapped[c] /\ s.flags[c] \cap {"IGNORE", "HIDDEN"} = {}
                         THEN client_activate(s, c, FALSE) ELSE s
  /\ UNCHANGED <<wm_state, queue>>

\* The rest of state_init, the registration of the signal handlers and
\* wm_state = RUNNING.
main_enter_loop ==
  /\ wm_state = "IDLE"
  /\ windows = {}
  /\ state' = ewmh_set_net_current_desktop(state)
  /\ wm_state' = "RUNNING"
  /\ UNCHANGED <<windows, queue>>

\* The loop of main ends; a restart replaces the process.  Events that were not
\* read are gone with the connection.
main_leave_loop ==
  \/ /\ wm_state = "QUIT"
     /\ wm_state' = "EXITED"
     /\ UNCHANGED <<state, windows, queue>>
  \/ /\ wm_state = "RESTART"
     /\ wm_state' = "IDLE"
     /\ \E scr \in Screen : state' = Started(state, scr)
     /\ windows' = AliveIn(state)
     /\ queue' = {}

\* SIGHUP sets a local variable.  Before the handlers are registered SIGTERM and
\* SIGHUP kill the process.
signal_handler ==
  \/ /\ "SIGTERM" \in Signals
     /\ Listening
     /\ wm_state' = "QUIT"
     /\ UNCHANGED <<state, windows, queue>>
  \/ /\ Signals # {}
     /\ wm_state = "IDLE"
     /\ wm_state' = "EXITED"
     /\ UNCHANGED <<state, windows, queue>>

-----------------------------------------------------------------------------
(* The functions that keys and buttons are bound to, called in state s with the *)
(* client c or the screen scr that the event handler found.                     *)

Continue(s) == state' = s /\ UNCHANGED <<wm_state, queue>>

Stop(how) == wm_state' = how /\ UNCHANGED <<state, queue>>

\* The menu offers the groups of the desktop that can be activated, if there are
\* at least two, and gives back one of them or none.
function_group_cycle(s, scr) ==
  LET groups  == s.groups[CurrentDesktop(s, scr)]
      offered == {g \in Range(groups) : group_can_activate(s, g)}
  IN  \/ \E g \in offered :
           /\ Cardinality(offered) >= 2
           /\ Continue(IF g = TAILQ_LAST(groups) THEN s ELSE group_activate(s, g))
      \/ Continue(s)

\* The menu offers the clients of type NORMAL in the group of c, and gives back one
\* of them or none.  menu_add needs the title of each.
function_menu_windows(s, c) ==
  LET offered == Range(s.clients[s.group[c]]) \cap Normal
      Untitled(w) == TitleOf[w] = NoName
  IN  \/ /\ \A w \in offered : ~Untitled(w)
         /\ \/ \E w \in offered :
                 Continue(client_activate(
                   IF "HIDDEN" \in s.flags[w] THEN client_show(s, w) ELSE s, w, TRUE))
            \/ Continue(s)
      \/ (\E w \in offered : Untitled(w)) /\ Stop("CRASHED")

function_window_cycle(s, c, flag) ==
  LET next == IF flag = 0 THEN client_next(s, c) ELSE client_previous(s, c)
  IN  \/ next \in Client /\ Continue(client_activate(s, next, FALSE))
      \/ next = Never /\ Stop("HUNG")
      \/ next = NULL /\ Stop("CRASHED")     \* client_raise(state, NULL)

\* XKillClient destroys a window, a WM_DELETE_WINDOW message asks its owner to.
client_close(s, c) ==
  \/ /\ Alive(s, c)
     /\ state' = Destroyed(s, c)
     /\ queue' = DestroyNotified(s, c)
     /\ UNCHANGED wm_state
  \/ Continue(s)

function_window_center(s, c) == Continue(client_move_resize(s, c, TRUE))

function_window_tile(s, c) == Continue(client_move_resize(s, c, TRUE))

\* With or without a MotionNotify before the button is released.
function_window_resize(s, c) ==
  \E moved \in BOOLEAN : Continue(client_move_resize(s, c, moved))

function_window_move(s, c) ==
  \E moved \in BOOLEAN, scr \in Screen :
    LET dropped == client_move_resize(s, c, moved)
    IN  Continue(IF scr = DesktopOf(s, c)[1] THEN dropped ELSE screen_adopt(dropped, scr, c))

\* To the screen on one side, if there is one.
function_window_move_to_screen(s, c) ==
  \/ \E scr \in Screen \ {DesktopOf(s, c)[1]} : Continue(screen_adopt(s, scr, c))
  \/ Continue(s)

function_wm_state(s, flag) == state' = s /\ wm_state' = flag /\ UNCHANGED queue

\* name_to_func: the commands with BINDING_CONTEXT_CLIENT, then the others.
OnClient(s, tag, c) ==
  \/ tag = "menu-windows" /\ function_menu_windows(s, c)
  \/ tag = "window-center" /\ function_window_center(s, c)
  \/ tag = "window-close" /\ client_close(s, c)
  \/ tag = "window-cycle" /\ function_window_cycle(s, c, 0)
  \/ tag = "window-rcycle" /\ function_window_cycle(s, c, 1)
  \/ tag = "window-fullscreen" /\ Continue(client_toggle_fullscreen(s, c))
  \/ tag = "window-hide" /\ Continue(client_hide(s, c))
  \/ tag = "window-maximize" /\ Continue(client_toggle_maximize(s, c))
  \/ tag = "window-move" /\ function_window_move(s, c)
  \/ tag = "window-move-to-screen" /\ function_window_move_to_screen(s, c)
  \/ tag = "window-resize" /\ function_window_resize(s, c)
  \/ tag = "window-restore" /\ Continue(client_restore(s, c))
  \/ tag = "window-tile" /\ function_window_tile(s, c)

Run(s, tag, c, scr) ==
  \/ c # NULL /\ OnClient(s, tag, c)
  \/ tag = "group-cycle" /\ function_group_cycle(s, scr)
  \/ tag = "restart" /\ function_wm_state(s, "RESTART")
  \/ tag = "quit" /\ function_wm_state(s, "QUIT")

-----------------------------------------------------------------------------
(* The event handlers *)

\* event_process reads an event; those of one window come in order.
XNextEvent(type, c) ==
  /\ Listening
  /\ <<type, c>> \in queue
  /\ type = "DestroyNotify" => <<"MapRequest", c>> \notin queue
  /\ queue' = queue \ {<<type, c>>}
  /\ UNCHANGED <<wm_state, windows>>

\* Takes care of known windows only.
event_handle_map_request_Wrong(c) ==
  /\ XNextEvent("MapRequest", c)
  /\ state' = IF c \in Managed(state) THEN client_show(state, c) ELSE state

\* Does not look whether the window is still there.
event_handle_map_request_Wrong2(c) ==
  /\ XNextEvent("MapRequest", c)
  /\ \E scr \in Screen :
       LET known == IF c \in Managed(state) THEN state
                    ELSE screen_adopt(client_init(state, c, scr), ScreenCount, c)
           shown == client_show([known EXCEPT !.mapped[c] = TRUE], c)
           taken == IF "IGNORE" \in shown.flags[c] THEN shown
                    ELSE client_activate(shown, c, TRUE)
       IN  state' = GroupToTail(taken, taken.group[c])

\* Activates the client before it shows the window.
event_handle_map_request_Wrong3(c) ==
  /\ XNextEvent("MapRequest", c)
  /\ \E scr \in Screen :
       LET known == IF c \in Managed(state) THEN state
                    ELSE screen_adopt(client_init(state, c, scr), ScreenCount, c)
           taken == IF "IGNORE" \in known.flags[c] THEN known
                    ELSE client_activate(known, c, TRUE)
           shown == client_show([taken EXCEPT !.mapped[c] = TRUE], c)
       IN  state' = GroupToTail(shown, shown.group[c])

event_handle_map_request(c) ==
  /\ XNextEvent("MapRequest", c)
  /\ IF c \notin Managed(state) /\ ~Alive(state, c) THEN UNCHANGED state
     ELSE \E scr \in Screen :
            LET known == IF c \in Managed(state) THEN state
                         ELSE screen_adopt(client_init(state, c, scr), ScreenCount, c)
                shown == client_show([known EXCEPT !.mapped[c] = TRUE], c)
                taken == IF "IGNORE" \in shown.flags[c] THEN shown
                         ELSE client_activate(shown, c, TRUE)
            IN  state' = GroupToTail(taken, taken.group[c])

\* The event is dropped.
event_handle_destroy_notify_Wrong(c) == XNextEvent("DestroyNotify", c) /\ UNCHANGED state

\* Clients that are not mapped are forgotten about.
event_handle_destroy_notify_Wrong2(c) ==
  /\ XNextEvent("DestroyNotify", c)
  /\ state' = IF c \in Managed(state) /\ state.mapped[c] THEN client_remove(state, c) ELSE state

event_handle_destroy_notify(c) ==
  /\ XNextEvent("DestroyNotify", c)
  /\ state' = IF c \in Managed(state) THEN client_remove(state, c) ELSE state

event_handle_property_notify(c) ==
  /\ Listening
  /\ c \in Managed(state)
  /\ Alive(state, c)
  /\ \/ "WM_NAME" \in Properties /\ state' = client_update_wm_name(state, c)
     \/ "WM_HINTS" \in Properties /\ state' = client_update_wm_hints(state, c)
  /\ UNCHANGED <<wm_state, windows, queue>>

event_handle_key_press(tag) ==
  LET c   == client_find_active(state)
      scr == IF c = NULL THEN state.active ELSE DesktopOf(state, c)[1]
  IN  /\ Listening
      /\ Run(state, tag, c, scr)
      /\ UNCHANGED windows

\* A button pressed on the screen scr, over the window w or over the root (NULL).
event_handle_button_press(w, scr) ==
  LET c      == IF w \in Managed(state) THEN w ELSE NULL
      tapped == screen_activate(state, scr)
      active == client_find_active(tapped)
      s      == IF c = NULL
                THEN IF active = NULL THEN tapped ELSE client_deactivate(tapped, active)
                ELSE IF tapped.flags[c] \cap {"ACTIVE", "IGNORE"} # {} THEN tapped
                ELSE client_activate(tapped, c, TRUE)
  IN  /\ Listening
      /\ w # NULL => state.viewable[w]
      /\ \/ Continue(s)
         \/ \E tag \in MouseBindings : Run(s, tag, c, scr)
      /\ UNCHANGED windows

\* An index outside the active screen reads ->desktops out of bounds: zero or
\* unmapped memory, at any rate no desktop.
desktop_switch_to_index(index) ==
  LET i == index - (state.active - 1) * DesktopCount
  IN  IF i \in 0 .. DesktopCount - 1 THEN Continue(SwitchTo(state, i)) ELSE Stop("CRASHED")

event_handle_client_message ==
  /\ Listening
  /\ \/ \E c \in Managed(state) :
          \/ "WM_CHANGE_STATE" \in Messages /\ Continue(client_hide(state, c))
          \/ "_NET_CLOSE_WINDOW" \in Messages /\ client_close(state, c)
          \/ "_NET_ACTIVE_WINDOW" \in Messages /\ Continue(client_show(state, c))
          \/ \E action \in {"ADD", "REMOVE", "TOGGLE"}, i, j \in DOMAIN Handlers :
               /\ i <= j
               /\ {Handlers[i], Handlers[j]} \subseteq NetMessages
               /\ Continue(ewmh_handle_net_wm_state_message(state, c, action, i, j))
     \/ \E index \in DesktopIndices : desktop_switch_to_index(index)
  /\ UNCHANGED windows

-----------------------------------------------------------------------------

Owners ==
  \E c \in Client : Create(c) \/ RequestMap(c) \/ Withdraw(c) \/ Destroy(c) \/ TakeFocus(c)

\* event_process
Events ==
  \/ \E c \in Client : \/ event_handle_map_request(c)
                       \/ event_handle_destroy_notify(c)
                       \/ event_handle_property_notify(c)
  \/ \E tag \in KeyBindings : event_handle_key_press(tag)
  \/ \E w \in Client \cup {NULL}, scr \in Screen : event_handle_button_press(w, scr)
  \/ event_handle_client_message

Main ==
  \/ \E c \in Client : state_update_clients(c)
  \/ main_enter_loop
  \/ main_leave_loop
  \/ signal_handler

Next == Owners \/ Events \/ Main

Spec == Init /\ [][Next]_vars

\* event_process reads the queue until it is empty, and main calls it whenever the
\* connection is readable; the queue is first in, first out, so an event that waits is
\* read.  A menu or a drag reads only its own events meanwhile; it is taken to be left
\* some time.  A step that reads an event is a step of its handler.
Fairness ==
  \A c \in Client : /\ WF_queue(XNextEvent("MapRequest", c))
                    /\ WF_queue(XNextEvent("DestroyNotify", c))

FairSpec == Spec /\ Fairness
-----------------------------------------------------------------------------
(* Safety *)

\* The pointers between clients, groups and desktops agree: a client is linked in
\* exactly the group it points to, and a group is linked in exactly the desktop it
\* points to, once, and has clients.  Every TAILQ_REMOVE of client.c, group.c and
\* screen.c relies on it, and no NULL group is followed.
ListsAgree == Linked(state)

\* At most one client carries CLIENT_ACTIVE, whatever took the activation: a click,
\* a new window, a cycle, a desktop switch or the removal of a client.  It is what
\* client_find_active and with it every client command relies on.
AtMostOneActive ==
  \A c1, c2 \in With(state, "ACTIVE") : c1 = c2

\* The client that key commands act on is on a list, so it is not a freed one.
ActiveIsManaged == With(state, "ACTIVE") \subseteq Managed(state)

\* The keys that somebody types go to the window that is drawn as active, whenever that
\* is on the screen, although the server refuses the focus to windows that are not viewable
\* yet and takes it away when they are unmapped; or to where an owner has put them since the
\* program last set the focus.  Of a window that has WM_TAKE_FOCUS and does not ask for the
\* focus nothing is said: it gets the keys when its owner answers, which is Icccm's matter.
KeysGoToActive ==
  \A c \in With(state, "ACTIVE") \cap GivenFocus :
    state.viewable[c] => state.focus \in {c, Elsewhere}

\* Pagers are told which client is active: the one that carries CLIENT_ACTIVE is the
\* one _NET_ACTIVE_WINDOW names, although functions that take the flag away write
\* that property too.
ActivePublished ==
  \A c \in With(state, "ACTIVE") : state.netActive = c

\* Whoever reads _NET_WM_STATE of a managed window reads the flags the program acts
\* on.  CLIENT_URGENCY is the exception: client_activate and client_toggle_urgent
\* change it without publishing.
StatePublished ==
  \A c \in Managed(state) \cap AliveIn(state) :
    state.netState[c] \ {"URGENCY"} = Published(state.flags[c]) \ {"URGENCY"}

\* A client stands for a window that exists, or existed until a DestroyNotify that
\* still waits; only a window destroyed while state_init runs is never let go.
ClientsHaveWindows ==
  \A c \in Client : /\ c \in Managed(state) =>
                       state.life[c] # "absent" \/ <<"DestroyNotify", c>> \in queue
                    /\ state.life[c] = "zombie" => c \in Managed(state)

\* The clients of one class on one desktop are one group: that is what makes
\* window-cycle and menu-windows reach all windows of an application.
OneGroupPerClass ==
  \A d \in Desktop : \A c1, c2 \in ClientsOn(state, d) :
    ClassOf[c1] = ClassOf[c2] <=> state.group[c1] = state.group[c2]

\* The windows of ignored classes (bars, docks) never take the activation.
IgnoredNeverActive ==
  \A c \in With(state, "ACTIVE") : ClassOf[c] \notin Ignored

\* The program neither loops for ever in client_next nor follows a NULL pointer, as long as
\* window-cycle is bound to keys.  On a mouse button, over an ignored window, client_next
\* returns NULL, or does not return when another window of that class comes next.
NeverStops == wm_state \notin {"HUNG", "CRASHED"}

\* Every client of a current desktop that is not hidden is on the screen, or a
\* MapRequest waits that will put it there.
NothingStranded ==
  Listening =>
    \A scr \in Screen : \A c \in ClientsOn(state, CurrentDesktop(state, scr)) :
      Alive(state, c) /\ "HIDDEN" \notin state.flags[c]
        => state.viewable[c] \/ <<"MapRequest", c>> \in queue

\* client_previous undoes client_next, so cycling forwards or backwards comes round
\* to every client of the group.
CycleIsReversible ==
  \A c \in Managed(state) :
    client_next(state, c) \in Client => client_previous(state, client_next(state, c)) = c

-----------------------------------------------------------------------------
(* The abstract specification *)

Session ==
  INSTANCE ActiveClient WITH
    existing <- AliveIn(state),
    clients  <- Managed(state),
    active   <- client_find_active(state),
    told     <- state.netActive

\* Whatever lists, flags and properties go through, from outside each step adopts one
\* window that exists, forgets one that does not, or moves the activation; who was active
\* last is what pagers are told, and clients come and go one by one or with the process.
ImplementsActiveClient == Session!Spec

-----------------------------------------------------------------------------
(* Liveness *)

\* The client of a destroyed window is let go, unless the program ends or starts
\* anew before.
DestroyedIsForgotten ==
  \A c \in Client :
    <<"DestroyNotify", c>> \in queue /\ wm_state = "RUNNING"
      ~> c \notin Managed(state) \/ wm_state # "RUNNING"

\* A window whose owner maps it gets a client, unless it is destroyed before, or the
\* program ends or starts anew.
RequestedIsManaged ==
  \A c \in Client :
    <<"MapRequest", c>> \in queue /\ wm_state = "RUNNING"
      ~> c \in Managed(state) \/ ~Alive(state, c) \/ wm_state # "RUNNING"
=============================================================================
