---------------------------- MODULE WindowState ----------------------------
(***************************************************************************)
(* The data of the window manager and the functions of client.c, group.c,  *)
(* desktop.c, screen.c and ewmh.c that change it.  A state s is a record:  *)
(* the part of state_t that these functions reach (screens, desktops,      *)
(* groups, clients) together with the part of the X server they talk to    *)
(* (which windows exist, which are viewable, the EWMH properties).  Each C *)
(* function is an operator of the same name from the state in which it is  *)
(* called to the state in which it returns.                                *)
(*                                                                         *)
(* Geometry, colours and stacking order are left out: whatever the code    *)
(* decides from coordinates is a parameter here.                           *)
(*                                                                         *)
(* A definition named X_Wrong is X with a mistake somebody could make;     *)
(* nothing uses it but the runs that put it in the place of X, to see that *)
(* a property notices.                                                     *)
(***************************************************************************)
EXTENDS TailQueue, FiniteSets, Flags

CONSTANTS
  Client,         \* windows that are not override-redirect, and their client_t
  Never,          \* stands for the result of a call that does not return
  GroupId,        \* addresses group_assign can get from calloc
  ScreenCount,    \* outputs wired when state_init runs
  DesktopCount,   \* screen->desktop_count, 4 in screen_init
  Name,           \* class names, window titles and group names
  NoName,         \* the empty string
  ClassOf,        \* the WM_CLASS class of a window, NoName if it has none
  TitleOf,        \* the title of a window, NoName if it has none
  Ignored,        \* config->ignored: the class names of "ignore" lines
  Urgent,         \* windows whose WM_HINTS carry XUrgencyHint
  Input,          \* windows whose WM_HINTS say that they want to be given the focus
  TakesFocus,     \* windows with WM_TAKE_FOCUS among their WM_PROTOCOLS
  Elsewhere       \* stands for a focus that an owner has set, not the program

\* Screens are numbered by their place on state->screens, so TAILQ_LAST is
\* ScreenCount; a desktop is the pair of its screen and its index there.
Screen  == 1 .. ScreenCount
Desktop == Screen \X (0 .. DesktopCount - 1)

ASSUME WindowStateAssumption ==
  /\ NULL \notin Client \cup GroupId \cup Desktop
  /\ Never \notin Client \cup {NULL}
  /\ IsFiniteSet(Client)
  /\ IsFiniteSet(GroupId)
  /\ Cardinality(GroupId) >= Cardinality(Client)
  /\ ScreenCount \in Nat \ {0}
  /\ DesktopCount \in Nat \ {0}
  /\ NoName \in Name
  /\ ClassOf \in [Client -> Name]
  /\ TitleOf \in [Client -> Name]
  /\ Ignored \subseteq Name
  /\ Urgent \subseteq Client
  /\ Input \subseteq Client
  /\ TakesFocus \subseteq Client
  /\ Elsewhere \notin Client \cup {NULL}

WindowStates ==
  [ \* memory of the window manager
    group         : [Client -> GroupId \cup {NULL}],   \* client->group
    flags         : [Client -> SUBSET Flag],           \* client->flags
    mapped        : [Client -> BOOLEAN],               \* client->mapped
    clients       : [GroupId -> Seq(Client)],          \* group->clients
    name          : [GroupId -> Name],                 \* group->name
    desktop       : [GroupId -> Desktop \cup {NULL}],  \* group->desktop
    groups        : [Desktop -> Seq(GroupId)],         \* desktop->groups
    desktop_index : [Screen -> 0 .. DesktopCount - 1], \* screen->desktop_index
    active        : Screen,                            \* the screen with ->active
    \* the X server
    life          : [Client -> {"absent", "alive", "zombie"}],
    viewable      : [Client -> BOOLEAN],               \* map_state == IsViewable
    focus         : Client \cup {NULL, Elsewhere},     \* the input focus; NULL is PointerRoot
    netState      : [Client -> SUBSET Atom],           \* _NET_WM_STATE
    netActive     : Client \cup {NULL},                \* _NET_ACTIVE_WINDOW
    netDesktop    : Nat ]                              \* _NET_CURRENT_DESKTOP

-----------------------------------------------------------------------------
(* Looking things up *)

Alive(s, c) == s.life[c] = "alive"

CurrentDesktop(s, scr) == <<scr, s.desktop_index[scr]>>

DesktopOf(s, c) == s.desktop[s.group[c]]

\* The clients that the nested TAILQ_FOREACH of client_find comes across.
Managed(s) == {c \in Client : \E d \in Desktop : \E g \in Range(s.groups[d]) :
                                c \in Range(s.clients[g])}

ClientsOn(s, d) == {c \in Client : \E g \in Range(s.groups[d]) : c \in Range(s.clients[g])}

With(s, flag) == {c \in Client : flag \in s.flags[c]}

\* The structure of the lists: a client is linked in exactly the group it points to,
\* a group in exactly the desktop it points to, each once, and a group that is linked
\* has clients.
Linked(s) ==
  /\ \A g \in GroupId : IsInjective(s.clients[g])
  /\ \A c \in Client, g \in GroupId : c \in Range(s.clients[g]) <=> s.group[c] = g
  /\ \A d \in Desktop : IsInjective(s.groups[d])
  /\ \A g \in GroupId, d \in Desktop : g \in Range(s.groups[d]) <=> s.desktop[g] = d
  /\ \A g \in GroupId : s.desktop[g] = NULL <=> s.clients[g] = << >>

\* The first client with the flag; there is never a second one (AtMostOneActive).
client_find_active(s) ==
  LET active == Managed(s) \cap With(s, "ACTIVE")
  IN  IF active = {} THEN NULL ELSE CHOOSE c \in active : TRUE

group_can_activate(s, g) == Range(s.clients[g]) \ With(s, "IGNORE") # {}

LastActivatable_Wrong(s, g) == TAILQ_LAST(s.clients[g])

\* The last client of the group without CLIENT_IGNORE, NULL if there is none.
LastActivatable(s, g) == LastIn(s.clients[g], Client \ With(s, "IGNORE"))

-----------------------------------------------------------------------------
(* Publishing *)

\* A property of a window that is gone is not written: the error handler only
\* logs the BadWindow.
ewmh_set_net_wm_state(s, c) ==
  IF Alive(s, c) THEN [s EXCEPT !.netState[c] = Published(s.flags[c])] ELSE s

\* Spares a window that is gone.
ewmh_set_net_active_window_Wrong(s, c) ==
  IF Alive(s, c) THEN [s EXCEPT !.netActive = c] ELSE s

ewmh_set_net_active_window(s, c) == [s EXCEPT !.netActive = c]

ewmh_set_net_current_desktop(s) ==
  [s EXCEPT !.netDesktop = (s.active - 1) * DesktopCount + s.desktop_index[s.active]]

SetFlags(s, c, flags) == [s EXCEPT !.flags[c] = flags]

XMapWindow(s, c) == [s EXCEPT !.viewable[c] = Alive(s, c)]

\* The focus reverts to PointerRoot when its window is no longer viewable.
XUnmapWindow(s, c) == [s EXCEPT !.viewable[c] = FALSE, !.focus = IF @ = c THEN NULL ELSE @]

\* A window that is not viewable cannot have the focus: the error is only logged.
XSetInputFocus(s, c) == IF s.viewable[c] THEN [s EXCEPT !.focus = c] ELSE s

-----------------------------------------------------------------------------
(* Activation *)

\* The windows that client_activate gives the focus; one that has WM_TAKE_FOCUS and does
\* not ask for the focus is only told to take it.
GivenFocus == Input \cup (Client \ TakesFocus)

\* TAILQ_REMOVE and TAILQ_INSERT_TAIL of a group on its desktop.
GroupToTail(s, g) == [s EXCEPT !.groups[s.desktop[g]] = Requeue(@, g)]

\* What the owner makes of WM_TAKE_FOCUS is an action of its own (TakeFocus in MagnetWM).
client_activate(s, c, requeue) ==
  LET current == client_find_active(s)
      taken   == current \notin {NULL, c}
      unset   == IF taken THEN SetFlags(s, current, s.flags[current] \ {"ACTIVE"}) ELSE s
      raised  == IF taken /\ s.group[current] # s.group[c]
                 THEN GroupToTail(unset, s.group[c]) ELSE unset
      focused == IF c \in GivenFocus THEN XSetInputFocus(raised, c) ELSE raised
      queued  == IF requeue THEN [focused EXCEPT !.clients[s.group[c]] = Requeue(@, c)]
                 ELSE focused
  IN  ewmh_set_net_active_window(
        SetFlags(queued, c, (queued.flags[c] \cup {"ACTIVE"}) \ {"URGENCY"}), c)

client_deactivate(s, c) ==
  IF "ACTIVE" \notin s.flags[c] THEN s
  ELSE ewmh_set_net_active_window(SetFlags(s, c, s.flags[c] \ {"ACTIVE"}), c)

group_activate(s, g) ==
  LET tail == GroupToTail(s, g)
      c    == LastActivatable(s, g)
  IN  IF c = NULL THEN tail ELSE client_activate(tail, c, TRUE)

-----------------------------------------------------------------------------
(* Groups, desktops and screens *)

\* Looks at the most recent group only.
GroupNamed_Wrong(s, d, name) ==
  LET last == TAILQ_LAST(s.groups[d])
  IN  IF last # NULL /\ s.name[last] = name THEN last ELSE NULL

\* The first group of the desktop with that name, NULL if there is none.
GroupNamed(s, d, name) == FirstIn(s.groups[d], {g \in GroupId : s.name[g] = name})

group_assign(s, d, c) ==
  LET same  == GroupNamed(s, d, ClassOf[c])
      fresh == CHOOSE g \in GroupId : s.clients[g] = << >>
  IN  IF same # NULL
      THEN [s EXCEPT !.clients[same] = TAILQ_INSERT_TAIL(@, c), !.group[c] = same]
      ELSE [s EXCEPT !.clients[fresh] = <<c>>, !.group[c] = fresh,
                     !.name[fresh] = ClassOf[c],
                     !.groups[d] = TAILQ_INSERT_TAIL(@, fresh)]

\* group_free leaks the struct; nothing points to it any more except a local of
\* client_remove, so its fields are reset here and read there before.
group_unassign(s, c) ==
  LET g    == s.group[c]
      rest == TAILQ_REMOVE(s.clients[g], c)
      left == [s EXCEPT !.clients[g] = rest, !.group[c] = NULL]
  IN  IF g = NULL THEN s
      ELSE IF rest # << >> THEN left
      ELSE [left EXCEPT !.groups[s.desktop[g]] = TAILQ_REMOVE(@, g),
                        !.desktop[g] = NULL, !.name[g] = NoName]

\* Forgets the group the client comes from.
screen_adopt_Wrong(s, scr, c) ==
  LET d        == CurrentDesktop(s, scr)
      assigned == group_assign(s, d, c)
  IN  [assigned EXCEPT !.desktop[assigned.group[c]] = d]

screen_adopt(s, scr, c) ==
  LET d        == CurrentDesktop(s, scr)
      assigned == group_assign(group_unassign(s, c), d, c)
  IN  [assigned EXCEPT !.desktop[assigned.group[c]] = d]

screen_activate(s, scr) == [s EXCEPT !.active = scr]

\* The clients that group_unmap unmaps when it is called for every group of d.
Unmappable(s, d) == ClientsOn(s, d) \ (With(s, "STICKY") \cup With(s, "HIDDEN"))

\* client_unmap on each of them.
UnmapDesktop(s, d) ==
  LET gone == Unmappable(s, d)
      lost == gone \cap With(s, "ACTIVE")
      flags == [c \in Client |-> IF c \in gone THEN s.flags[c] \ {"ACTIVE"} ELSE s.flags[c]]
  IN  [s EXCEPT
         !.viewable  = [c \in Client |-> @[c] /\ c \notin gone],
         !.focus     = IF @ \in gone THEN NULL ELSE @,
         !.mapped    = [c \in Client |-> @[c] /\ c \notin gone],
         !.flags     = flags,
         !.netState  = [c \in Client |-> IF c \in gone /\ Alive(s, c)
                                         THEN Published(flags[c]) ELSE @[c]],
         !.netActive = IF lost = {} THEN @ ELSE CHOOSE c \in lost : TRUE]

\* The test of ->mapped is inverted.
MapDesktop_Wrong(s, d) ==
  LET shown == {c \in ClientsOn(s, d) : s.mapped[c] /\ "HIDDEN" \notin s.flags[c]}
  IN  [s EXCEPT !.viewable = [c \in Client |-> IF c \in shown THEN Alive(s, c) ELSE @[c]]]

\* group_map for every group of a desktop.  client_map leaves ->mapped alone.
MapDesktop(s, d) ==
  LET shown == {c \in ClientsOn(s, d) : ~s.mapped[c] /\ "HIDDEN" \notin s.flags[c]}
  IN  [s EXCEPT !.viewable = [c \in Client |-> IF c \in shown THEN Alive(s, c) ELSE @[c]]]

\* The switch to a desktop of the active screen; desktop_switch_to_index with an
\* index that falls outside that screen is the business of the caller.
SwitchTo(s, i) ==
  LET d      == <<s.active, i>>
      mapped == MapDesktop(UnmapDesktop(s, CurrentDesktop(s, s.active)), d)
      g      == LastIn(mapped.groups[d], {h \in GroupId : group_can_activate(mapped, h)})
      activated == IF g = NULL THEN mapped ELSE group_activate(mapped, g)
  IN  ewmh_set_net_current_desktop([activated EXCEPT !.desktop_index[s.active] = i])

-----------------------------------------------------------------------------
(* One client *)

client_show(s, c) ==
  ewmh_set_net_wm_state(SetFlags(XMapWindow(s, c), c, s.flags[c] \ {"HIDDEN"}), c)

\* Publishes before it sets the flag.
client_hide_Wrong(s, c) ==
  SetFlags(ewmh_set_net_wm_state(XUnmapWindow(s, c), c), c, s.flags[c] \cup {"HIDDEN"})

client_hide(s, c) ==
  ewmh_set_net_wm_state(SetFlags(XUnmapWindow(s, c), c, s.flags[c] \cup {"HIDDEN"}), c)

client_move_resize(s, c, reset) ==
  IF reset THEN ewmh_set_net_wm_state(SetFlags(s, c, s.flags[c] \ Maximized), c) ELSE s

\* ->geometry_saved is never empty: client_init copies the size of the window.
client_restore(s, c) == client_move_resize(s, c, TRUE)

client_toggle_fullscreen(s, c) ==
  IF "FREEZE" \in s.flags[c] /\ "FULLSCREEN" \notin s.flags[c] THEN s
  ELSE ewmh_set_net_wm_state(
         SetFlags(s, c, IF "FULLSCREEN" \in s.flags[c]
                        THEN s.flags[c] \ {"FULLSCREEN", "FREEZE"}
                        ELSE s.flags[c] \cup {"FULLSCREEN", "FREEZE"}), c)

client_toggle_maximize(s, c) ==
  IF "FREEZE" \in s.flags[c] THEN s
  ELSE ewmh_set_net_wm_state(
         SetFlags(s, c, IF Maximized \subseteq s.flags[c]
                        THEN s.flags[c] \ Maximized
                        ELSE s.flags[c] \cup Maximized), c)

\* client_toggle_vmaximize and client_toggle_hmaximize: they change the geometry,
\* publish, and leave the two flags as they are.
client_toggle_one_axis(s, c) ==
  IF "FREEZE" \in s.flags[c] THEN s ELSE ewmh_set_net_wm_state(s, c)

\* client_toggle_sticky, _hidden, _skip_pager and _skip_taskbar.  The second one
\* neither maps nor unmaps the window.
client_toggle_flag(s, c, flag) ==
  ewmh_set_net_wm_state(SetFlags(s, c, Flip(s.flags[c], {flag})), c)

client_toggle_urgent(s, c) ==
  IF "ACTIVE" \in s.flags[c] THEN s ELSE SetFlags(s, c, s.flags[c] \cup {"URGENCY"})

client_update_wm_hints(s, c) ==
  IF c \in Urgent THEN SetFlags(s, c, s.flags[c] \cup {"URGENCY"}) ELSE s

\* The title becomes the name of a group that has none.
client_update_wm_name(s, c) ==
  IF s.name[s.group[c]] = NoName THEN [s EXCEPT !.name[s.group[c]] = TitleOf[c]] ELSE s

\* The table of ewmh_handle_net_wm_state_message, in its order.
Handlers == <<"STICKY", "VMAXIMIZED", "HMAXIMIZED", "HIDDEN", "FULLSCREEN", "URGENCY",
              "SKIP_PAGER", "SKIP_TASKBAR">>

Toggle(s, c, atom) ==
  CASE atom \in Maximized     -> client_toggle_one_axis(s, c)
    [] atom = "FULLSCREEN"    -> client_toggle_fullscreen(s, c)
    [] atom = "URGENCY"       -> client_toggle_urgent(s, c)
    [] OTHER                  -> client_toggle_flag(s, c, atom)

HandleAtom(s, c, action, atom) ==
  IF \/ action = "TOGGLE"
     \/ action = "ADD" /\ atom \notin s.flags[c]
     \/ action = "REMOVE" /\ atom \in s.flags[c]
  THEN Toggle(s, c, atom) ELSE s

\* A message names one atom (i = j) or two; they are handled in table order,
\* whatever their order in the message.
ewmh_handle_net_wm_state_message(s, c, action, i, j) ==
  LET first == HandleAtom(s, c, action, Handlers[i])
  IN  IF i = j THEN first ELSE HandleAtom(first, c, action, Handlers[j])

\* The loop over the atoms that a window carries, from beginning to end: what the window
\* carries between two turns, and what is left of it when a signal ends the process there,
\* is the matter of Restore.  The atoms come in the order this program publishes them;
\* every toggle but that of URGENCY publishes, so URGENCY reaches the property again only if
\* a SKIP atom follows it.
ewmh_restore_net_wm_state(s, c) ==
  LET atoms    == s.netState[c]
      restored == Restored(s.flags[c], atoms)
      shown    == IF atoms \cap {"SKIP_PAGER", "SKIP_TASKBAR"} = {}
                  THEN restored \ ({"URGENCY"} \ s.flags[c]) ELSE restored
  IN  [s EXCEPT !.flags[c] = restored,
                !.netState[c] = IF atoms \subseteq {"URGENCY"} THEN @ ELSE Published(shown)]

\* A window becomes a client of the screen that screen_for_client picks.
client_init(s, c, scr) ==
  LET fresh    == [s EXCEPT !.mapped[c] = s.viewable[c], !.flags[c] = {}]
      adopted  == screen_adopt(client_update_wm_hints(fresh, c), scr, c)
      restored == ewmh_restore_net_wm_state(adopted, c)
  IN  IF ClassOf[c] \in Ignored
      THEN SetFlags(restored, c, restored.flags[c] \cup {"IGNORE"}) ELSE restored

\* group_unassign and client_free, then the search for a client to activate: in
\* the group that was left, else in the last group of its desktop.
client_remove(s, c) ==
  LET g      == s.group[c]
      told   == IF "ACTIVE" \in s.flags[c] THEN ewmh_set_net_active_window(s, c) ELSE s
      freed  == [group_unassign(told, c) EXCEPT !.flags[c] = {}, !.mapped[c] = FALSE]
      tail   == TAILQ_LAST(freed.groups[s.desktop[g]])
      inGroup == LastActivatable(freed, g)
      inTail  == IF tail = NULL THEN NULL ELSE LastActivatable(freed, tail)
  IN  IF s.flags[c] \cap {"HIDDEN", "IGNORE"} # {} THEN freed
      ELSE IF inGroup # NULL THEN client_activate(freed, inGroup, TRUE)
      ELSE IF inTail # NULL THEN client_activate(freed, inTail, TRUE)
      ELSE freed

\* The loop of client_next, and of client_previous on the queue reversed.  It looks
\* at the neighbour of the same client again and again: beside a neighbour with
\* CLIENT_IGNORE it never ends.  At the end of the queue the other end is tried, and
\* when that is ignored the neighbour is looked at once more, which is NULL.
CycleFrom(q, c, ignored) ==
  LET at == CHOOSE i \in DOMAIN q : q[i] = c
  IN  CASE at < Len(q) /\ q[at + 1] \in ignored    -> Never
        [] at < Len(q) /\ q[at + 1] \notin ignored -> q[at + 1]
        [] at = Len(q) /\ q[1] \in ignored         -> NULL
        [] at = Len(q) /\ q[1] \notin ignored      -> q[1]

\* Does not wrap around.
client_next_Wrong(s, c) ==
  LET q == s.clients[s.group[c]]
      at == CHOOSE i \in DOMAIN q : q[i] = c
  IN  IF at < Len(q) THEN q[at + 1] ELSE NULL

client_next(s, c) == CycleFrom(s.clients[s.group[c]], c, With(s, "IGNORE"))

\* TAILQ_LAST where TAILQ_PREV is meant.
client_previous_Wrong(s, c) == TAILQ_LAST(s.clients[s.group[c]])

client_previous(s, c) ==
  LET q == s.clients[s.group[c]]
  IN  CycleFrom([i \in DOMAIN q |-> q[Len(q) + 1 - i]], c, With(s, "IGNORE"))
=============================================================================
