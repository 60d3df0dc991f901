-------------------------------- MODULE Icccm --------------------------------
(***************************************************************************)
(* The conventions between the window manager and the owners of windows:   *)
(* WM_PROTOCOLS and WM_HINTS, which owners write and the program reads     *)
(* when it adopts a window and when a PropertyNotify tells it to; the      *)
(* messages WM_TAKE_FOCUS and WM_DELETE_WINDOW and what owners make of     *)
(* them, some time later; the input focus; and WM_STATE.                   *)
(*                                                                         *)
(* Which client a search finds is WindowState's: where the code activates  *)
(* the last client of a group, any client of that desktop may be the one.  *)
(* Left to MagnetWM are owners that unmap their windows, windows that are  *)
(* mapped while the program starts, pagers that show windows, and ignored  *)
(* classes.                                                                *)
(***************************************************************************)
EXTENDS Naturals

CONSTANTS
  Client, NULL,
  Desktop,         \* the desktops of the one screen
  First,           \* the desktop a process starts on
  ProtocolSets,    \* the values of WM_PROTOCOLS
  Hints,           \* the values of WM_HINTS: input and initial state
  FirstWindows,    \* the windows that are there at the start
  Edits            \* bound: how often owners change the two properties

Flag == {"ACTIVE", "HIDDEN", "INPUT", "WM_DELETE_WINDOW", "WM_TAKE_FOCUS"}

Protocol == {"WM_DELETE_WINDOW", "WM_TAKE_FOCUS"}

WmHints == [input : BOOLEAN, state : {"None", "Normal", "Iconic"}]

ClientT == [flags : SUBSET Flag, mapped : BOOLEAN, desktop : Desktop,
            initial_state : {"None", "Normal", "Iconic"}]

ASSUME IcccmAssumption ==
  /\ NULL \notin Client /\ NULL \notin ClientT
  /\ First \in Desktop
  /\ \A P \in ProtocolSets : P \subseteq Protocol
  /\ Hints \subseteq WmHints
  /\ FirstWindows \subseteq Client
  /\ Edits \in Nat

States ==
  [clients   : [Client -> ClientT \cup {NULL}],          \* the clients of the program
   life      : [Client -> {"absent", "alive", "gone"}],  \* the rest is the X server's
   viewable  : [Client -> BOOLEAN],
   wm_state  : [Client -> {"None", "Normal", "Iconic"}], \* WM_STATE
   atom      : SUBSET Client,                            \* HIDDEN in _NET_WM_STATE
   focus     : Client \cup {NULL},                       \* NULL is PointerRoot
   mail      : SUBSET (Protocol \X Client),
   stray     : BOOLEAN]     \* history: the last message about the focus went astray

VARIABLES
  state,
  protocols, hints,   \* WM_PROTOCOLS and WM_HINTS of a window
  queue,              \* events on their way to the program
  selected,           \* windows whose PropertyNotify it has asked for
  current,            \* screen->desktop_index
  at,                 \* "STARTING": state_update_clients; "RUNNING": the main loop
  tree,               \* the windows that state_update_clients has still to look at
  held,               \* the window that client_init is at work on
  edits,
  unheard             \* history: protocols announced between being read and selected

vars == <<state, protocols, hints, queue, selected, current, at, tree, held, edits, unheard>>

Alive(c) == state.life[c] = "alive"

Managed == {c \in Client : state.clients[c] # NULL}

\* Only clients of the program are held or selected.
TypeOK ==
  /\ state \in States
  /\ protocols \in [Client -> SUBSET Protocol]
  /\ hints \in [Client -> WmHints]
  /\ queue \subseteq {"MapRequest", "WM_PROTOCOLS", "WM_HINTS", "DestroyNotify"} \X Client
  /\ selected \subseteq Client
  /\ current \in Desktop
  /\ at \in {"STARTING", "RUNNING"}
  /\ tree \subseteq Client
  /\ held \in Client \cup {NULL}
  /\ held # NULL => held \in Managed /\ held \notin selected
  /\ selected \subseteq Managed
  /\ edits \in 0 .. Edits
  /\ unheard \in [Client -> SUBSET Protocol]

Init ==
  /\ state \in [clients : {[c \in Client |-> NULL]},
                life : {[c \in Client |-> IF c \in FirstWindows THEN "alive" ELSE "absent"]},
                viewable : {[c \in Client |-> c \in FirstWindows]},
                wm_state : {[c \in Client |-> "None"]},
                atom : {{}}, focus : {NULL}, mail : {{}}, stray : {FALSE}]
  /\ protocols \in [Client -> ProtocolSets]
  /\ hints \in [Client -> Hints]
  /\ queue = {} /\ selected = {} /\ current = First
  /\ at = "STARTING" /\ tree = FirstWindows /\ held = NULL
  /\ edits = 0
  /\ unheard = [c \in Client |-> {}]

-----------------------------------------------------------------------------
(* The functions of client.c and icccm.c *)

icccm_set_wm_state(s, c, value) == [s EXCEPT !.wm_state[c] = value]

x_send_message(s, c, protocol) ==
  IF s.life[c] = "alive" THEN [s EXCEPT !.mail = @ \cup {<<protocol, c>>}] ELSE s

XSetInputFocus(s, c) == IF s.viewable[c] THEN [s EXCEPT !.focus = c] ELSE s

XMapWindow(s, c) == [s EXCEPT !.viewable[c] = s.life[c] = "alive"]

XUnmapWindow(s, c) == [s EXCEPT !.viewable[c] = FALSE, !.focus = IF @ = c THEN NULL ELSE @]

SetFlags(s, c, flags) == [s EXCEPT !.clients[c].flags = flags]

\* The client that was active, if any, is no longer.
OnlyActive(s, c) ==
  [d \in Client |->
     IF s.clients[d] = NULL THEN NULL
     ELSE [s.clients[d] EXCEPT !.flags = IF d = c THEN @ \cup {"ACTIVE"} ELSE @ \ {"ACTIVE"}]]

\* Only windows that say they want input get the focus.
client_activate_Wrong(s, c) ==
  LET own   == s.clients[c].flags
      alone == [s EXCEPT !.clients = OnlyActive(s, c), !.stray = FALSE]
      given == IF "INPUT" \in own THEN XSetInputFocus(alone, c) ELSE alone
  IN  IF "WM_TAKE_FOCUS" \in own THEN x_send_message(given, c, "WM_TAKE_FOCUS") ELSE given

client_activate(s, c) ==
  LET own   == s.clients[c].flags
      alone == [s EXCEPT !.clients = OnlyActive(s, c), !.stray = FALSE]
      given == IF "INPUT" \in own \/ "WM_TAKE_FOCUS" \notin own
               THEN XSetInputFocus(alone, c) ELSE alone
  IN  IF "WM_TAKE_FOCUS" \in own THEN x_send_message(given, c, "WM_TAKE_FOCUS") ELSE given

client_show(s, c) ==
  icccm_set_wm_state(
    [SetFlags(XMapWindow(s, c), c, s.clients[c].flags \ {"HIDDEN"}) EXCEPT !.atom = @ \ {c}],
    c, "Normal")

client_hide(s, c) ==
  icccm_set_wm_state(
    [SetFlags(XUnmapWindow(s, c), c, s.clients[c].flags \cup {"HIDDEN"}) EXCEPT !.atom = @ \cup {c}],
    c, "Iconic")

\* client_unmap and client_map of all clients in some, none of them hidden.
Unmapped(s, some) ==
  [s EXCEPT
     !.clients  = [c \in Client |-> IF c \notin some THEN s.clients[c]
                                    ELSE [s.clients[c] EXCEPT !.flags = @ \ {"ACTIVE"},
                                                              !.mapped = FALSE]],
     !.viewable = [c \in Client |-> @[c] /\ c \notin some],
     !.focus    = IF @ \in some THEN NULL ELSE @,
     !.wm_state = [c \in Client |-> IF c \in some THEN "Iconic" ELSE @[c]]]

Mapped(s, some) ==
  [s EXCEPT !.viewable = [c \in Client |-> IF c \in some THEN s.life[c] = "alive" ELSE @[c]],
            !.wm_state = [c \in Client |-> IF c \in some THEN "Normal" ELSE @[c]]]

On(s, d) == {c \in Client : s.clients[c] # NULL /\ s.clients[c].desktop = d}

Hidden(s) == {c \in Client : s.clients[c] # NULL /\ "HIDDEN" \in s.clients[c].flags}

\* The activation goes to a client of the desktop, if it has one.
SomeActivated(s, d) == IF On(s, d) = {} THEN {s} ELSE {client_activate(s, c) : c \in On(s, d)}

\* client_init up to its last round trip.
client_init(s, c, d) ==
  LET read == [flags |-> (IF hints[c].input THEN {"INPUT"} ELSE {}) \cup protocols[c]
                           \cup (IF c \in s.atom THEN {"HIDDEN"} ELSE {}),
               mapped |-> s.viewable[c], desktop |-> d, initial_state |-> hints[c].state]
      made == [s EXCEPT !.clients[c] = read]
  IN  IF ~s.viewable[c] /\ hints[c].state # "None"
      THEN icccm_set_wm_state(made, c, hints[c].state) ELSE made

-----------------------------------------------------------------------------
(* The owners of windows *)

Program == <<selected, current, at, tree, held>>

Create(c) ==
  /\ state.life[c] = "absent"
  /\ state' = [state EXCEPT !.life[c] = "alive"]
  /\ UNCHANGED <<protocols, hints, queue, Program, edits, unheard>>

\* While the program runs the server redirects the request to it.
Map(c) ==
  /\ Alive(c) /\ ~state.viewable[c] /\ at = "RUNNING"
  /\ queue' = queue \cup {<<"MapRequest", c>>}
  /\ UNCHANGED <<state, protocols, hints, Program, edits, unheard>>

\* The program is told of a change of a window that it has selected.  What it has read
\* already and not selected yet, it never hears of.
Tell(kind, c) == queue' = IF c \in selected THEN queue \cup {<<kind, c>>} ELSE queue

Announce(c, P) ==
  /\ Alive(c) /\ P # protocols[c] /\ edits < Edits
  /\ protocols' = [protocols EXCEPT ![c] = P]
  /\ edits' = edits + 1
  /\ Tell("WM_PROTOCOLS", c)
  /\ unheard' = [unheard EXCEPT ![c] = IF c \in Managed \ selected THEN @ \cup P ELSE @]
  /\ UNCHANGED <<state, hints, Program>>

SetHints(c, h) ==
  /\ Alive(c) /\ h # hints[c] /\ edits < Edits
  /\ hints' = [hints EXCEPT ![c] = h]
  /\ edits' = edits + 1
  /\ Tell("WM_HINTS", c)
  /\ UNCHANGED <<state, protocols, Program, unheard>>

\* The window is gone; the program is told once it has asked for it on the root window.
Gone(s, c) == [XUnmapWindow(s, c) EXCEPT !.life[c] = "gone", !.mail = {m \in @ : m[2] # c}]

Buried(c) == queue \cup (IF at = "RUNNING" THEN {<<"DestroyNotify", c>>} ELSE {})

Quit(c) ==
  /\ Alive(c)
  /\ state' = Gone(state, c)
  /\ queue' = Buried(c)
  /\ UNCHANGED <<protocols, hints, Program, edits, unheard>>

\* An owner that speaks the protocol takes the focus when it gets round to it.  The
\* message carries CurrentTime, so the server cannot tell a late answer from a prompt one.
TakeFocus(c) ==
  /\ <<"WM_TAKE_FOCUS", c>> \in state.mail
  /\ LET speaks == "WM_TAKE_FOCUS" \in protocols[c]
         active == c \in Managed /\ "ACTIVE" \in state.clients[c].flags
         read   == [state EXCEPT !.mail = @ \ {<<"WM_TAKE_FOCUS", c>>},
                                 !.stray = @ \/ speaks # active]
     IN  state' = IF speaks THEN XSetInputFocus(read, c) ELSE read
  /\ UNCHANGED <<protocols, hints, queue, Program, edits, unheard>>

\* It may also ask the user whether to save, and stay.
DeleteWindow(c) ==
  /\ <<"WM_DELETE_WINDOW", c>> \in state.mail
  /\ LET read == [state EXCEPT !.mail = @ \ {<<"WM_DELETE_WINDOW", c>>}]
     IN  \/ state' = read /\ queue' = queue
         \/ "WM_DELETE_WINDOW" \in protocols[c] /\ state' = Gone(read, c) /\ queue' = Buried(c)
  /\ UNCHANGED <<protocols, hints, Program, edits, unheard>>

-----------------------------------------------------------------------------
(* The program *)

Owners == <<protocols, hints, edits>>

Idle == at = "RUNNING" /\ held = NULL

\* state_update_clients takes the next window; one that is gone gets no client.
state_update_clients(c) ==
  /\ at = "STARTING" /\ held = NULL /\ c \in tree
  /\ tree' = tree \ {c}
  /\ IF Alive(c) THEN held' = c /\ state' = client_init(state, c, current)
     ELSE UNCHANGED <<held, state>>
  /\ UNCHANGED <<Owners, queue, selected, current, at, unheard>>

\* The root window is selected last.
started ==
  /\ at = "STARTING" /\ held = NULL /\ tree = {}
  /\ at' = "RUNNING"
  /\ UNCHANGED <<state, Owners, queue, selected, current, tree, held, unheard>>

\* Events of one window in their order: its end comes last.
XNextEvent(kind, c) ==
  /\ Idle
  /\ <<kind, c>> \in queue
  /\ kind = "DestroyNotify" => \A e \in queue : e[2] = c => e[1] = kind
  /\ queue' = queue \ {<<kind, c>>}
  /\ UNCHANGED <<Owners, current, at, tree, unheard>>

\* The end of client_init, and what its caller does with the client.
XSelectInput(c) ==
  /\ held = c /\ held' = NULL
  /\ selected' = IF Alive(c) THEN selected \cup {c} ELSE selected
  /\ LET r == state.clients[c]
     IN  CASE at = "RUNNING" ->
                state' = client_activate(client_show([state EXCEPT !.clients[c].mapped = TRUE], c), c)
           [] at = "STARTING" /\ r.mapped /\ "HIDDEN" \notin r.flags ->
                state' = client_activate(state, c)
           [] at = "STARTING" /\ (~r.mapped \/ "HIDDEN" \in r.flags) -> state' = state
  /\ UNCHANGED <<Owners, queue, current, at, tree, unheard>>

event_handle_map_request(c) ==
  /\ XNextEvent("MapRequest", c)
  /\ CASE c \in Managed ->
            /\ state' = client_activate(client_show([state EXCEPT !.clients[c].mapped = TRUE], c), c)
            /\ held' = held
       [] c \notin Managed /\ Alive(c) ->
            held' = c /\ state' = client_init(state, c, current)
       [] c \notin Managed /\ ~Alive(c) -> UNCHANGED <<state, held>>
  /\ UNCHANGED selected

\* Does not know WM_PROTOCOLS.
icccm_handle_property_Wrong(kind, c) ==
  /\ XNextEvent(kind, c)
  /\ kind \in {"WM_PROTOCOLS", "WM_HINTS"}
  /\ state' = IF c \in Managed /\ kind = "WM_HINTS"
              THEN [state EXCEPT
                      !.clients[c].flags = @ \cup (IF hints[c].input THEN {"INPUT"} ELSE {}),
                      !.clients[c].initial_state = IF hints[c].state = "None" THEN @
                                                   ELSE hints[c].state]
              ELSE state
  /\ UNCHANGED <<selected, held>>

\* Reads the property as it is now; what an owner takes back stays in the flags.
icccm_handle_property(kind, c) ==
  /\ XNextEvent(kind, c)
  /\ kind \in {"WM_PROTOCOLS", "WM_HINTS"}
  /\ LET told == IF kind = "WM_PROTOCOLS" THEN protocols[c]
                 ELSE IF hints[c].input THEN {"INPUT"} ELSE {}
         initial == IF kind = "WM_HINTS" /\ hints[c].state # "None" THEN hints[c].state
                    ELSE state.clients[c].initial_state
     IN  state' = IF c \notin Managed \/ ~Alive(c) THEN state
                  ELSE [SetFlags(state, c, state.clients[c].flags \cup told)
                          EXCEPT !.clients[c].initial_state = initial]
  /\ UNCHANGED <<selected, held>>

\* client_remove.  A hidden client leaves the activation where it is.
event_handle_destroy_notify(c) ==
  /\ XNextEvent("DestroyNotify", c)
  /\ IF c \notin Managed THEN state' = state
     ELSE LET freed == [state EXCEPT !.clients[c] = NULL]
          IN  IF c \in Hidden(state) THEN state' = freed
              ELSE state' \in SomeActivated(freed, state.clients[c].desktop)
  /\ selected' = selected \ {c}
  /\ UNCHANGED held

\* Clicks, keys and menus.
Command == Idle /\ UNCHANGED <<Owners, queue, Program, unheard>>

\* A click activates a window that one can see, cycling any one of the desktop.
Choose(c) ==
  /\ Command
  /\ c \in Managed /\ (state.clients[c].desktop = current \/ state.viewable[c])
  /\ state' = client_activate(state, c)

function_menu_windows(c) ==
  /\ Command /\ c \in On(state, current) \cap Hidden(state)
  /\ state' = client_activate(client_show(state, c), c)

\* A click on the root window.
client_deactivate(c) ==
  /\ Command /\ c \in Managed
  /\ state' = SetFlags(state, c, state.clients[c].flags \ {"ACTIVE"})

\* The key hides the active client; an owner may ask for it with WM_CHANGE_STATE.
function_window_hide(c) ==
  /\ Command /\ c \in Managed
  /\ state' = client_hide(state, c)

\* XKillClient, or WM_DELETE_WINDOW to those who speak it: of the active client by key, of
\* any other at the request of a pager.
client_close(c) ==
  /\ Idle /\ c \in Managed
  /\ IF "WM_DELETE_WINDOW" \in state.clients[c].flags
     THEN state' = x_send_message(state, c, "WM_DELETE_WINDOW") /\ queue' = queue
     ELSE Alive(c) /\ state' = Gone(state, c) /\ queue' = Buried(c)
  /\ UNCHANGED <<Owners, Program, unheard>>

\* Maps every client that is not hidden, and lets WM_STATE alone.
desktop_switch_to_index_Wrong(d) ==
  /\ Idle /\ current' = d
  /\ LET unmapped == Unmapped(state, On(state, current) \ Hidden(state))
         some == {c \in On(state, d) \ Hidden(state) : ~unmapped.clients[c].mapped}
         mapped == [Mapped(unmapped, some) EXCEPT !.wm_state = unmapped.wm_state]
     IN  state' \in SomeActivated(mapped, d)
  /\ UNCHANGED <<Owners, queue, selected, at, tree, held, unheard>>

desktop_switch_to_index(d) ==
  /\ Idle /\ current' = d
  /\ LET unmapped == Unmapped(state, On(state, current) \ Hidden(state))
         some == {c \in On(state, d) \ Hidden(state) : ~unmapped.clients[c].mapped}
     IN  state' \in SomeActivated(Mapped(unmapped, some), d)
  /\ UNCHANGED <<Owners, queue, selected, at, tree, held, unheard>>

\* The connection is closed, with what it had selected and what was on its way; state_free
\* gives the focus back to PointerRoot.
restart ==
  /\ Idle
  /\ at' = "STARTING"
  /\ tree' = {c \in Client : Alive(c)}
  /\ state' = [state EXCEPT !.clients = [c \in Client |-> NULL], !.focus = NULL]
  /\ queue' = {} /\ selected' = {} /\ current' = First
  /\ unheard' = [c \in Client |-> {}]
  /\ UNCHANGED <<Owners, held>>

Next ==
  \/ \E c \in Client :
       \/ Create(c) \/ Map(c) \/ Quit(c) \/ TakeFocus(c) \/ DeleteWindow(c)
       \/ \E P \in ProtocolSets : Announce(c, P)
       \/ \E h \in Hints : SetHints(c, h)
       \/ state_update_clients(c) \/ XSelectInput(c)
       \/ event_handle_map_request(c) \/ event_handle_destroy_notify(c)
       \/ \E kind \in {"WM_PROTOCOLS", "WM_HINTS"} : icccm_handle_property(kind, c)
       \/ Choose(c) \/ function_menu_windows(c) \/ client_deactivate(c)
       \/ function_window_hide(c) \/ client_close(c)
  \/ \E d \in Desktop : desktop_switch_to_index(d)
  \/ started \/ restart

Spec == Init /\ [][Next]_vars

-----------------------------------------------------------------------------
(* Properties *)

\* Nothing is on its way between the program and the owners.
AtRest == Idle /\ queue = {} /\ state.mail = {}

\* A window whose owner has announced WM_DELETE_WINDOW is never killed, however the
\* announcement, adoption, restarts and the key race, but for an announcement that is still
\* in the queue, or was made while the window was being adopted and is never heard of.
NeverKilledUnasked ==
  [][\A c \in Client :
       client_close(c) /\ Alive(c) /\ ~Alive(c)' =>
         \/ "WM_DELETE_WINDOW" \notin protocols[c]
         \/ <<"WM_PROTOCOLS", c>> \in queue
         \/ "WM_DELETE_WINDOW" \in unheard[c]]_vars

\* At rest the keys somebody types go to the active window when it can be seen, whichever of
\* the four input models its owner follows, unless the last WM_TAKE_FOCUS was answered by a
\* window that was no longer active, or was not understood.
FocusOnActive ==
  AtRest /\ ~state.stray =>
    \A c \in Managed :
      "ACTIVE" \in state.clients[c].flags /\ state.viewable[c] => state.focus = c

\* At rest WM_STATE calls no window Iconic that can be seen, and none Normal that cannot, but
\* for one whose WM_HINTS say so: client_init takes their word for any window that is not on
\* the screen, hidden or not.  It holds while owners leave WM_HINTS as they are.
StateTellsShown ==
  AtRest =>
    \A c \in Managed :
      Alive(c) => /\ state.viewable[c] => state.wm_state[c] # "Iconic"
                  /\ ~state.viewable[c] /\ state.clients[c].initial_state # "Normal" =>
                       state.wm_state[c] # "Normal"
=============================================================================
