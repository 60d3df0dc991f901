--------------------------- MODULE MagnetWMProofs ---------------------------
(***************************************************************************)
(* What no event and no owner of a window can break, for any number of     *)
(* windows, groups, screens and desktops and any configuration: the types, *)
(* the agreement of the lists, and the uniqueness of the active client.    *)
(*                                                                         *)
(* First, each function of WindowState keeps the lists of clients, groups  *)
(* and desktops consistent and the activation unique.  Then each handler   *)
(* does, and MagnetWM implements ActiveClient: from outside, the lists,    *)
(* flags, events and properties amount to windows that exist, clients of   *)
(* some of them and one activation.                                        *)
(*                                                                         *)
(* Then what clients carry beside.  Their flags are the ones published of  *)
(* them, windows of ignored classes are marked and never active, and the   *)
(* groups of a desktop are its classes.                                    *)
(*                                                                         *)
(* At last what a session looks like to its user: what has no mark is on   *)
(* the screen, or comes back when its desktop does, the keys go to the     *)
(* active client, and no command loops for ever or follows a NULL pointer. *)
(***************************************************************************)
EXTENDS MagnetWM, TailQueueProofs

-----------------------------------------------------------------------------
(* What every function keeps *)

\* What every function keeps: the lists agree, the client with CLIENT_ACTIVE is the one
\* that _NET_ACTIVE_WINDOW names (so there is only one), and it is on a list.
Sound(s) ==
  /\ s \in WindowStates
  /\ Linked(s)
  /\ With(s, "ACTIVE") \subseteq {s.netActive}
  /\ \A c \in With(s, "ACTIVE") : s.group[c] # NULL

\* From s to t the lists have stayed as they are and nobody has got CLIENT_ACTIVE.
Dropped(s, t) ==
  /\ t.group = s.group
  /\ t.clients = s.clients
  /\ t.desktop = s.desktop
  /\ t.groups = s.groups
  /\ t.netActive = s.netActive
  /\ With(t, "ACTIVE") \subseteq With(s, "ACTIVE")

\* From s to t the lists, the activation and the windows have stayed as they are.
Same(s, t) ==
  /\ Dropped(s, t)
  /\ With(t, "ACTIVE") = With(s, "ACTIVE")
  /\ t.life = s.life

\* A step that leaves the lists alone and gives nobody the activation is harmless.
LEMMA FrameDropped ==
  ASSUME NEW s, Sound(s), NEW t \in WindowStates, Dropped(s, t)
  PROVE  Sound(t)
  <1>1. Linked(t)
    BY DEF Sound, Dropped, Linked
  <1> QED BY <1>1 DEF Sound, Dropped

\* A step that leaves lists and activation alone is harmless.
LEMMA Frame ==
  ASSUME NEW s, Sound(s), NEW t \in WindowStates, Same(s, t)
  PROVE  Sound(t)
  BY FrameDropped DEF Same

\* A queue with an element is not empty.
LEMMA NotEmpty ==
  ASSUME NEW q, NEW e \in Range(q)
  PROVE  q # << >>
  BY DEF Range

\* Doing nothing is harmless.
LEMMA SameReflexive ==
  ASSUME NEW s PROVE Same(s, s)
  BY DEF Same, Dropped

\* Harmless steps in a row are harmless.
LEMMA SameTransitive ==
  ASSUME NEW s, NEW t, NEW u, Same(s, t), Same(t, u)
  PROVE  Same(s, u)
  BY DEF Same, Dropped

\* A client is on a list if and only if it has a group.
LEMMA ManagedHasGroup ==
  ASSUME NEW s \in WindowStates, Linked(s), NEW c \in Client
  PROVE  c \in Managed(s) <=> s.group[c] # NULL
  <1>0. /\ s.group \in [Client -> GroupId \cup {NULL}]
        /\ s.clients \in [GroupId -> Seq(Client)]
        /\ s.desktop \in [GroupId -> Desktop \cup {NULL}]
        /\ s.groups \in [Desktop -> Seq(GroupId)]
    BY DEF WindowStates
  <1>1. ASSUME c \in Managed(s) PROVE s.group[c] # NULL
    <2>1. PICK d \in Desktop : \E g \in Range(s.groups[d]) : c \in Range(s.clients[g])
      BY <1>1 DEF Managed
    <2>2. PICK g \in GroupId : c \in Range(s.clients[g])
      BY <1>0, <2>1 DEF Range
    <2> QED BY <2>2, WindowStateAssumption DEF Linked
  <1>2. ASSUME s.group[c] # NULL PROVE c \in Managed(s)
    <2> DEFINE g == s.group[c]
    <2>1. g \in GroupId /\ c \in Range(s.clients[g])
      BY <1>0, <1>2 DEF Linked
    <2>2. s.clients[g] # << >>
      BY <2>1 DEF Range
    <2>3. s.desktop[g] \in Desktop /\ g \in Range(s.groups[s.desktop[g]])
      BY <1>0, <2>1, <2>2 DEF Linked
    <2> QED BY <2>1, <2>3 DEF Managed
  <1> QED BY <1>1, <1>2

-----------------------------------------------------------------------------
(* Functions that leave the lists and the activation alone *)

\* The flags of client_flags_t by name; CLIENT_ACTIVE is not published as an atom.
LEMMA FlagNames == /\ {"VMAXIMIZED", "HMAXIMIZED", "STICKY", "HIDDEN", "FULLSCREEN", "URGENCY",
                       "SKIP_PAGER", "SKIP_TASKBAR", "IGNORE", "FREEZE", "ACTIVE"} \subseteq Flag
                   /\ Atom \subseteq Flag
                   /\ "ACTIVE" \notin Atom
                   /\ Maximized \subseteq Flag
  BY DEF Flag, Atom, Maximized

\* Only _NET_WM_STATE atoms are published.
LEMMA PublishedAtoms ==
  ASSUME NEW F PROVE Published(F) \in SUBSET Atom
  BY DEF Published, Atom, Maximized

\* Flags that may lack CLIENT_ACTIVE.
LEMMA SetFlagsDropped ==
  ASSUME NEW s \in WindowStates, NEW c \in Client, NEW F \in SUBSET Flag,
         "ACTIVE" \in F => "ACTIVE" \in s.flags[c]
  PROVE  /\ SetFlags(s, c, F) \in WindowStates
         /\ SetFlags(s, c, F).flags = [s.flags EXCEPT ![c] = F]
         /\ SetFlags(s, c, F).life = s.life
         /\ Dropped(s, SetFlags(s, c, F))
  BY DEF SetFlags, WindowStates, Dropped, With

\* Flags that keep CLIENT_ACTIVE or its absence.
LEMMA SetFlagsSame ==
  ASSUME NEW s \in WindowStates, NEW c \in Client, NEW F \in SUBSET Flag,
         "ACTIVE" \in F <=> "ACTIVE" \in s.flags[c]
  PROVE  /\ SetFlags(s, c, F) \in WindowStates
         /\ SetFlags(s, c, F).flags = [s.flags EXCEPT ![c] = F]
         /\ Same(s, SetFlags(s, c, F))
  BY DEF SetFlags, WindowStates, Same, Dropped, With

\* ewmh_set_net_wm_state writes a property of the window and nothing else.
LEMMA PublishSame ==
  ASSUME NEW s \in WindowStates, NEW c \in Client
  PROVE  /\ ewmh_set_net_wm_state(s, c) \in WindowStates
         /\ ewmh_set_net_wm_state(s, c).flags = s.flags
         /\ Same(s, ewmh_set_net_wm_state(s, c))
  BY PublishedAtoms DEF ewmh_set_net_wm_state, WindowStates, Same, Dropped, With

\* Mapping and unmapping change what is viewable and nothing else.
LEMMA MapSame ==
  ASSUME NEW s \in WindowStates, NEW c \in Client
  PROVE  /\ XMapWindow(s, c) \in WindowStates
         /\ XMapWindow(s, c).flags = s.flags
         /\ Same(s, XMapWindow(s, c))
         /\ XUnmapWindow(s, c) \in WindowStates
         /\ XUnmapWindow(s, c).flags = s.flags
         /\ Same(s, XUnmapWindow(s, c))
  BY DEF XMapWindow, XUnmapWindow, WindowStates, Same, Dropped, With, Alive

\* ewmh_set_net_current_desktop writes the number of a desktop.
LEMMA CurrentDesktopSame ==
  ASSUME NEW s \in WindowStates
  PROVE  /\ ewmh_set_net_current_desktop(s) \in WindowStates
         /\ Same(s, ewmh_set_net_current_desktop(s))
  <1> DEFINE n == (s.active - 1) * DesktopCount + s.desktop_index[s.active]
  <1>1. s.active \in Screen /\ s.desktop_index[s.active] \in 0 .. DesktopCount - 1
    BY DEF WindowStates
  <1>2. s.active - 1 \in Nat /\ s.desktop_index[s.active] \in Nat /\ DesktopCount \in Nat
    BY <1>1, WindowStateAssumption DEF Screen
  <1>3. n \in Nat
    BY <1>2
  <1> HIDE DEF n
  <1>4. [s EXCEPT !.netDesktop = n] \in WindowStates
    BY <1>3 DEF WindowStates
  <1>5. Same(s, [s EXCEPT !.netDesktop = n])
    BY DEF WindowStates, Same, Dropped, With
  <1> QED BY <1>4, <1>5 DEF ewmh_set_net_current_desktop, n

\* The functions of client.c that change flags of one client and publish them.
LEMMA ShowSame ==
  ASSUME NEW s \in WindowStates, NEW c \in Client
  PROVE  /\ client_show(s, c) \in WindowStates
         /\ Same(s, client_show(s, c))
         /\ client_show(s, c).flags = [s.flags EXCEPT ![c] = s.flags[c] \ {"HIDDEN"}]
  <1> DEFINE m == XMapWindow(s, c)
             F == s.flags[c] \ {"HIDDEN"}
  <1>1. m \in WindowStates /\ m.flags = s.flags /\ Same(s, m)
    BY MapSame
  <1>2. F \in SUBSET Flag /\ ("ACTIVE" \in F <=> "ACTIVE" \in m.flags[c])
    BY <1>1 DEF WindowStates
  <1> HIDE DEF m, F
  <1> DEFINE f == SetFlags(m, c, F)
  <1>3. f \in WindowStates /\ f.flags = [m.flags EXCEPT ![c] = F] /\ Same(m, f)
    BY <1>1, <1>2, SetFlagsSame
  <1> HIDE DEF f
  <1>4. /\ ewmh_set_net_wm_state(f, c) \in WindowStates
        /\ ewmh_set_net_wm_state(f, c).flags = f.flags
        /\ Same(f, ewmh_set_net_wm_state(f, c))
    BY <1>3, PublishSame
  <1> QED BY <1>1, <1>3, <1>4, SameTransitive DEF client_show, m, F, f

\* client_hide keeps the client in its group, active if it was.
LEMMA HideSame ==
  ASSUME NEW s \in WindowStates, NEW c \in Client
  PROVE  client_hide(s, c) \in WindowStates /\ Same(s, client_hide(s, c))
  <1> DEFINE m == XUnmapWindow(s, c)
             F == s.flags[c] \cup {"HIDDEN"}
             f == SetFlags(m, c, F)
  <1>1. m \in WindowStates /\ m.flags = s.flags /\ Same(s, m)
    BY MapSame
  <1>2. F \in SUBSET Flag /\ ("ACTIVE" \in F <=> "ACTIVE" \in m.flags[c])
    BY <1>1, FlagNames DEF WindowStates
  <1> HIDE DEF m, F
  <1>3. f \in WindowStates /\ Same(m, f)
    BY <1>1, <1>2, SetFlagsSame
  <1> HIDE DEF f
  <1>4. ewmh_set_net_wm_state(f, c) \in WindowStates /\ Same(f, ewmh_set_net_wm_state(f, c))
    BY <1>3, PublishSame
  <1> QED BY <1>1, <1>3, <1>4, SameTransitive DEF client_hide, m, F, f

\* The shape that most of them have: new flags, published at once.
LEMMA SetAndPublishSame ==
  ASSUME NEW s \in WindowStates, NEW c \in Client, NEW F \in SUBSET Flag,
         "ACTIVE" \in F <=> "ACTIVE" \in s.flags[c]
  PROVE  /\ ewmh_set_net_wm_state(SetFlags(s, c, F), c) \in WindowStates
         /\ Same(s, ewmh_set_net_wm_state(SetFlags(s, c, F), c))
  <1> DEFINE f == SetFlags(s, c, F)
  <1>1. f \in WindowStates /\ Same(s, f)
    BY SetFlagsSame
  <1> HIDE DEF f
  <1>2. ewmh_set_net_wm_state(f, c) \in WindowStates /\ Same(f, ewmh_set_net_wm_state(f, c))
    BY <1>1, PublishSame
  <1> QED BY <1>1, <1>2, SameTransitive DEF f

\* client_move_resize takes away at most the maximized flags.
LEMMA MoveResizeSame ==
  ASSUME NEW s \in WindowStates, NEW c \in Client, NEW reset \in BOOLEAN
  PROVE  /\ client_move_resize(s, c, reset) \in WindowStates
         /\ Same(s, client_move_resize(s, c, reset))
  <1> DEFINE F == s.flags[c] \ Maximized
  <1>1. F \in SUBSET Flag /\ ("ACTIVE" \in F <=> "ACTIVE" \in s.flags[c])
    BY FlagNames DEF WindowStates, Maximized
  <1> HIDE DEF F
  <1>2. /\ ewmh_set_net_wm_state(SetFlags(s, c, F), c) \in WindowStates
        /\ Same(s, ewmh_set_net_wm_state(SetFlags(s, c, F), c))
    BY <1>1, SetAndPublishSame
  <1> QED BY <1>2, SameReflexive DEF client_move_resize, F

\* client_toggle_fullscreen changes CLIENT_FULLSCREEN and CLIENT_FREEZE.
LEMMA ToggleFullscreenSame ==
  ASSUME NEW s \in WindowStates, NEW c \in Client
  PROVE  /\ client_toggle_fullscreen(s, c) \in WindowStates
         /\ Same(s, client_toggle_fullscreen(s, c))
  <1> DEFINE F == IF "FULLSCREEN" \in s.flags[c]
                  THEN s.flags[c] \ {"FULLSCREEN", "FREEZE"}
                  ELSE s.flags[c] \cup {"FULLSCREEN", "FREEZE"}
  <1>1. F \in SUBSET Flag /\ ("ACTIVE" \in F <=> "ACTIVE" \in s.flags[c])
    BY FlagNames DEF WindowStates
  <1> HIDE DEF F
  <1>2. /\ ewmh_set_net_wm_state(SetFlags(s, c, F), c) \in WindowStates
        /\ Same(s, ewmh_set_net_wm_state(SetFlags(s, c, F), c))
    BY <1>1, SetAndPublishSame
  <1> QED BY <1>2, SameReflexive DEF client_toggle_fullscreen, F

\* client_toggle_maximize changes the maximized flags.
LEMMA ToggleMaximizeSame ==
  ASSUME NEW s \in WindowStates, NEW c \in Client
  PROVE  /\ client_toggle_maximize(s, c) \in WindowStates
         /\ Same(s, client_toggle_maximize(s, c))
  <1> DEFINE F == IF Maximized \subseteq s.flags[c]
                  THEN s.flags[c] \ Maximized
                  ELSE s.flags[c] \cup Maximized
  <1>1. F \in SUBSET Flag /\ ("ACTIVE" \in F <=> "ACTIVE" \in s.flags[c])
    BY FlagNames DEF WindowStates, Maximized
  <1> HIDE DEF F
  <1>2. /\ ewmh_set_net_wm_state(SetFlags(s, c, F), c) \in WindowStates
        /\ Same(s, ewmh_set_net_wm_state(SetFlags(s, c, F), c))
    BY <1>1, SetAndPublishSame
  <1> QED BY <1>2, SameReflexive DEF client_toggle_maximize, F

\* A message toggles one of the eight atoms.
LEMMA ToggleSame ==
  ASSUME NEW s \in WindowStates, NEW c \in Client, NEW atom \in Atom
  PROVE  Toggle(s, c, atom) \in WindowStates /\ Same(s, Toggle(s, c, atom))
  <1>1. /\ client_toggle_one_axis(s, c) \in WindowStates
        /\ Same(s, client_toggle_one_axis(s, c))
    BY PublishSame, SameReflexive DEF client_toggle_one_axis
  <1>2. /\ client_toggle_urgent(s, c) \in WindowStates
        /\ Same(s, client_toggle_urgent(s, c))
    <2> DEFINE F == s.flags[c] \cup {"URGENCY"}
    <2>1. F \in SUBSET Flag /\ ("ACTIVE" \in F <=> "ACTIVE" \in s.flags[c])
      BY FlagNames DEF WindowStates
    <2> HIDE DEF F
    <2>2. SetFlags(s, c, F) \in WindowStates /\ Same(s, SetFlags(s, c, F))
      BY <2>1, SetFlagsSame
    <2> QED BY <2>2, SameReflexive DEF client_toggle_urgent, F
  <1>3. /\ client_toggle_flag(s, c, atom) \in WindowStates
        /\ Same(s, client_toggle_flag(s, c, atom))
    <2> DEFINE F == Flip(s.flags[c], {atom})
    <2>1. F \in SUBSET Flag /\ ("ACTIVE" \in F <=> "ACTIVE" \in s.flags[c])
      BY FlagNames DEF WindowStates, Flip
    <2> HIDE DEF F
    <2>2. /\ ewmh_set_net_wm_state(SetFlags(s, c, F), c) \in WindowStates
          /\ Same(s, ewmh_set_net_wm_state(SetFlags(s, c, F), c))
      BY <2>1, SetAndPublishSame
    <2> QED BY <2>2 DEF client_toggle_flag, F
  <1> QED BY <1>1, <1>2, <1>3, ToggleFullscreenSame DEF Toggle

\* Handling one atom of a _NET_WM_STATE message is harmless, whatever the action.
LEMMA HandleAtomSame ==
  ASSUME NEW s \in WindowStates, NEW c \in Client, NEW action, NEW atom \in Atom
  PROVE  /\ HandleAtom(s, c, action, atom) \in WindowStates
         /\ Same(s, HandleAtom(s, c, action, atom))
  BY ToggleSame, SameReflexive DEF HandleAtom

\* So is handling the one or two atoms of a message.
LEMMA StateMessageSame ==
  ASSUME NEW s \in WindowStates, NEW c \in Client, NEW action,
         NEW i \in DOMAIN Handlers, NEW j \in DOMAIN Handlers
  PROVE  /\ ewmh_handle_net_wm_state_message(s, c, action, i, j) \in WindowStates
         /\ Same(s, ewmh_handle_net_wm_state_message(s, c, action, i, j))
  <1>1. Handlers[i] \in Atom /\ Handlers[j] \in Atom
    BY DEF Handlers, Atom, Maximized
  <1> DEFINE first  == HandleAtom(s, c, action, Handlers[i])
             second == HandleAtom(first, c, action, Handlers[j])
  <1>2. first \in WindowStates /\ Same(s, first)
    BY <1>1, HandleAtomSame
  <1> HIDE DEF first
  <1>3. second \in WindowStates /\ Same(first, second)
    BY <1>1, <1>2, HandleAtomSame
  <1> QED BY <1>2, <1>3, SameTransitive DEF ewmh_handle_net_wm_state_message, first, second

\* client_update_wm_hints may add CLIENT_URGENCY.
LEMMA UpdateHintsSame ==
  ASSUME NEW s \in WindowStates, NEW c \in Client
  PROVE  /\ client_update_wm_hints(s, c) \in WindowStates
         /\ Same(s, client_update_wm_hints(s, c))
  <1> DEFINE F == s.flags[c] \cup {"URGENCY"}
  <1>1. F \in SUBSET Flag /\ ("ACTIVE" \in F <=> "ACTIVE" \in s.flags[c])
    BY FlagNames DEF WindowStates
  <1> HIDE DEF F
  <1>2. SetFlags(s, c, F) \in WindowStates /\ Same(s, SetFlags(s, c, F))
    BY <1>1, SetFlagsSame
  <1> QED BY <1>2, SameReflexive DEF client_update_wm_hints, F

\* client_update_wm_name may name the group; it needs the client to have one.
LEMMA UpdateNameSame ==
  ASSUME NEW s \in WindowStates, NEW c \in Client, s.group[c] # NULL
  PROVE  /\ client_update_wm_name(s, c) \in WindowStates
         /\ Same(s, client_update_wm_name(s, c))
  <1>1. s.group[c] \in GroupId /\ TitleOf[c] \in Name
    BY WindowStateAssumption DEF WindowStates
  <1> DEFINE t == [s EXCEPT !.name[s.group[c]] = TitleOf[c]]
  <1>2. t \in WindowStates
    BY <1>1 DEF WindowStates
  <1>3. Same(s, t)
    BY DEF WindowStates, Same, Dropped, With
  <1> QED BY <1>2, <1>3, SameReflexive DEF client_update_wm_name

\* The atoms a window carries become flags; CLIENT_ACTIVE is not among them.
LEMMA RestoreStateSame ==
  ASSUME NEW s \in WindowStates, NEW c \in Client
  PROVE  /\ ewmh_restore_net_wm_state(s, c) \in WindowStates
         /\ Same(s, ewmh_restore_net_wm_state(s, c))
  <1> DEFINE atoms == s.netState[c]
             restored == s.flags[c] \cup (atoms \ Maximized)
                           \cup (IF "FULLSCREEN" \in atoms THEN {"FREEZE"} ELSE {})
             t(N) == [s EXCEPT !.flags[c] = restored, !.netState[c] = N]
  <1>1. atoms \in SUBSET Atom
    BY DEF WindowStates
  <1>2. restored \in SUBSET Flag /\ ("ACTIVE" \in restored <=> "ACTIVE" \in s.flags[c])
    BY <1>1, FlagNames DEF WindowStates
  <1> HIDE DEF restored
  <1>3. ASSUME NEW N \in SUBSET Atom PROVE t(N) \in WindowStates /\ Same(s, t(N))
    BY <1>2, <1>3 DEF WindowStates, Same, Dropped, With
  <1> DEFINE shown == IF atoms \cap {"SKIP_PAGER", "SKIP_TASKBAR"} = {}
                      THEN restored \ ({"URGENCY"} \ s.flags[c]) ELSE restored
             N1 == IF atoms \subseteq {"URGENCY"} THEN s.netState[c] ELSE Published(shown)
  <1>4. N1 \in SUBSET Atom
    BY <1>1, PublishedAtoms
  <1>5. ewmh_restore_net_wm_state(s, c) = t(N1)
    BY DEF ewmh_restore_net_wm_state, Restored, restored
  <1> HIDE DEF N1, t
  <1> QED BY <1>3, <1>4, <1>5

-----------------------------------------------------------------------------
(* Functions that change the order of the lists, or the activation *)

\* From s to t no client has changed its group, no group its desktop, and the active
\* client is the same.
Reordered(s, t) ==
  /\ t.group = s.group
  /\ t.desktop = s.desktop
  /\ t.flags = s.flags
  /\ t.netActive = s.netActive
  /\ t.life = s.life

\* A group that is on a desktop is made the most recent one there.
LEMMA GroupToTailSound ==
  ASSUME NEW s, Sound(s), NEW g \in GroupId, s.desktop[g] # NULL
  PROVE  /\ Sound(GroupToTail(s, g))
         /\ Reordered(s, GroupToTail(s, g))
  <1> DEFINE d == s.desktop[g]
             q == Requeue(s.groups[d], g)
             t == [s EXCEPT !.groups[d] = q]
  <1>1. /\ s \in WindowStates
        /\ d \in Desktop
        /\ s.groups \in [Desktop -> Seq(GroupId)]
    BY DEF Sound, WindowStates
  <1>2. g \in Range(s.groups[d]) /\ IsInjective(s.groups[d])
    BY <1>1 DEF Sound, Linked
  <1>3. q \in Seq(GroupId) /\ Range(q) = Range(s.groups[d]) /\ IsInjective(q)
    BY <1>1, <1>2, RequeueSame
  <1>4. GroupToTail(s, g) = t
    BY DEF GroupToTail
  <1> HIDE DEF q
  <1>5. t \in WindowStates
    BY <1>1, <1>3 DEF WindowStates
  <1>6. /\ t.groups = [s.groups EXCEPT ![d] = q]
        /\ t.clients = s.clients
        /\ Reordered(s, t)
    BY <1>1 DEF WindowStates, Reordered
  <1> HIDE DEF t
  <1>7. \A e \in Desktop : Range(t.groups[e]) = Range(s.groups[e]) /\ IsInjective(t.groups[e])
    BY <1>1, <1>3, <1>6 DEF Sound, Linked
  <1>8. Linked(t)
    BY <1>6, <1>7 DEF Sound, Linked, Reordered
  <1> QED BY <1>4, <1>5, <1>6, <1>8 DEF Sound, Reordered, With

\* A client is made the most recent one of its group.
LEMMA ClientToTailSound ==
  ASSUME NEW s, Sound(s), NEW c \in Client, s.group[c] # NULL
  PROVE  /\ Sound([s EXCEPT !.clients[s.group[c]] = Requeue(@, c)])
         /\ Reordered(s, [s EXCEPT !.clients[s.group[c]] = Requeue(@, c)])
  <1> DEFINE g == s.group[c]
             q == Requeue(s.clients[g], c)
             t == [s EXCEPT !.clients[g] = q]
  <1>1. /\ s \in WindowStates
        /\ g \in GroupId
        /\ s.clients \in [GroupId -> Seq(Client)]
    BY DEF Sound, WindowStates
  <1>2. c \in Range(s.clients[g]) /\ IsInjective(s.clients[g])
    BY <1>1 DEF Sound, Linked
  <1>3. q \in Seq(Client) /\ Range(q) = Range(s.clients[g]) /\ IsInjective(q)
    BY <1>1, <1>2, RequeueSame
  <1>4. [s EXCEPT !.clients[s.group[c]] = Requeue(@, c)] = t
    OBVIOUS
  <1>5. q # << >> /\ s.clients[g] # << >>
    BY <1>2, <1>3, NotEmpty
  <1> HIDE DEF q
  <1>6. t \in WindowStates
    BY <1>1, <1>3 DEF WindowStates
  <1>7. /\ t.clients = [s.clients EXCEPT ![g] = q]
        /\ t.groups = s.groups
        /\ Reordered(s, t)
    BY <1>1 DEF WindowStates, Reordered
  <1> HIDE DEF t
  <1>8. \A h \in GroupId : /\ Range(t.clients[h]) = Range(s.clients[h])
                           /\ IsInjective(t.clients[h])
                           /\ t.clients[h] = << >> <=> s.clients[h] = << >>
    BY <1>1, <1>3, <1>5, <1>7 DEF Sound, Linked
  <1>9. Linked(t)
    BY <1>7, <1>8 DEF Sound, Linked, Reordered
  <1> QED BY <1>4, <1>6, <1>7, <1>9 DEF Sound, Reordered, With

\* A client with a group is in a group that has a desktop.
LEMMA GroupHasDesktop ==
  ASSUME NEW s \in WindowStates, Linked(s), NEW c \in Client, s.group[c] # NULL
  PROVE  /\ s.group[c] \in GroupId
         /\ s.desktop[s.group[c]] # NULL
         /\ s.desktop[s.group[c]] \in Desktop
  <1> DEFINE g == s.group[c]
  <1>1. g \in GroupId /\ c \in Range(s.clients[g])
    BY DEF Linked, WindowStates
  <1>2. s.clients[g] # << >>
    BY <1>1 DEF Range
  <1>3. s.desktop[g] # NULL /\ s.desktop[g] \in Desktop \cup {NULL}
    BY <1>1, <1>2 DEF Linked, WindowStates
  <1> QED BY <1>1, <1>3

\* client_find_active gives the client with CLIENT_ACTIVE, NULL if there is none.
LEMMA FindActive ==
  ASSUME NEW s, Sound(s)
  PROVE  /\ client_find_active(s) \in Client \cup {NULL}
         /\ With(s, "ACTIVE") = {} => client_find_active(s) = NULL
         /\ With(s, "ACTIVE") # {} => With(s, "ACTIVE") = {client_find_active(s)}
         /\ client_find_active(s) # NULL => s.group[client_find_active(s)] # NULL
  <1>1. With(s, "ACTIVE") \subseteq Managed(s) /\ With(s, "ACTIVE") \subseteq Client
    BY ManagedHasGroup DEF Sound, With
  <1> DEFINE active == Managed(s) \cap With(s, "ACTIVE")
  <1>2. active = With(s, "ACTIVE")
    BY <1>1
  <1>3. client_find_active(s) = IF active = {} THEN NULL ELSE CHOOSE c \in active : TRUE
    BY DEF client_find_active
  <1> HIDE DEF active
  <1>4. CASE active = {}
    BY <1>2, <1>3, <1>4
  <1>5. CASE active # {}
    <2>1. client_find_active(s) \in active
      BY <1>3, <1>5
    <2>2. With(s, "ACTIVE") = {client_find_active(s)}
      BY <2>1, <1>2 DEF Sound
    <2> QED BY <2>1, <2>2, <1>1, <1>2, <1>5 DEF Sound
  <1> QED BY <1>4, <1>5

\* The input focus is no part of the lists and flags.
LEMMA FocusSame ==
  ASSUME NEW s, Sound(s), NEW c \in Client
  PROVE  /\ Sound(XSetInputFocus(s, c))
         /\ XSetInputFocus(s, c).group = s.group
         /\ XSetInputFocus(s, c).desktop = s.desktop
         /\ XSetInputFocus(s, c).life = s.life
         /\ With(XSetInputFocus(s, c), "ACTIVE") = With(s, "ACTIVE")
  <1> DEFINE t == XSetInputFocus(s, c)
  <1>1. /\ t \in WindowStates
        /\ t.group = s.group
        /\ t.clients = s.clients
        /\ t.desktop = s.desktop
        /\ t.groups = s.groups
        /\ t.netActive = s.netActive
        /\ t.life = s.life
        /\ t.flags = s.flags
    BY DEF Sound, WindowStates, XSetInputFocus
  <1> HIDE DEF t
  <1>2. Linked(t)
    BY <1>1 DEF Sound, Linked
  <1>3. With(t, "ACTIVE") = With(s, "ACTIVE")
    BY <1>1 DEF With
  <1>4. Sound(t)
    BY <1>1, <1>2, <1>3 DEF Sound
  <1> QED BY <1>1, <1>3, <1>4 DEF t

\* client_activate takes CLIENT_ACTIVE from whoever has it, gives it to c, and says so.
LEMMA ActivateSound ==
  ASSUME NEW s, Sound(s), NEW c \in Client, s.group[c] # NULL, NEW requeue \in BOOLEAN
  PROVE  /\ Sound(client_activate(s, c, requeue))
         /\ client_activate(s, c, requeue).group = s.group
         /\ client_activate(s, c, requeue).desktop = s.desktop
         /\ client_activate(s, c, requeue).life = s.life
         /\ With(client_activate(s, c, requeue), "ACTIVE") = {c}
  <1> DEFINE current == client_find_active(s)
             taken   == current \notin {NULL, c}
             unset   == IF taken THEN SetFlags(s, current, s.flags[current] \ {"ACTIVE"}) ELSE s
             raised  == IF taken /\ s.group[current] # s.group[c]
                        THEN GroupToTail(unset, s.group[c]) ELSE unset
             focused == IF c \in GivenFocus THEN XSetInputFocus(raised, c) ELSE raised
             queued  == IF requeue
                        THEN [focused EXCEPT !.clients[s.group[c]] = Requeue(@, c)]
                        ELSE focused
             F == (queued.flags[c] \cup {"ACTIVE"}) \ {"URGENCY"}
             t == ewmh_set_net_active_window(SetFlags(queued, c, F), c)
  <1>0. client_activate(s, c, requeue) = t
    BY DEF client_activate
  <1>1. /\ current \in Client \cup {NULL}
        /\ With(s, "ACTIVE") # {} => With(s, "ACTIVE") = {current}
    BY FindActive
  <1> HIDE DEF current
  <1>2. /\ Sound(unset) /\ unset.group = s.group /\ unset.desktop = s.desktop
        /\ unset.life = s.life
        /\ With(unset, "ACTIVE") \subseteq {c}
    <2>1. CASE taken
      <3> DEFINE G == s.flags[current] \ {"ACTIVE"}
      <3>1. current \in Client /\ s \in WindowStates
        BY <2>1, <1>1 DEF Sound
      <3>2. G \in SUBSET Flag /\ "ACTIVE" \notin G
        BY <3>1 DEF WindowStates
      <3> HIDE DEF G
      <3>3. /\ SetFlags(s, current, G) \in WindowStates
            /\ SetFlags(s, current, G).flags = [s.flags EXCEPT ![current] = G]
            /\ SetFlags(s, current, G).life = s.life
            /\ Dropped(s, SetFlags(s, current, G))
        BY <3>1, <3>2, SetFlagsDropped
      <3>4. Sound(SetFlags(s, current, G))
        BY <3>3, FrameDropped
      <3>5. current \notin With(SetFlags(s, current, G), "ACTIVE")
        BY <3>1, <3>2, <3>3 DEF With, WindowStates
      <3>6. With(SetFlags(s, current, G), "ACTIVE") = {}
        BY <3>3, <3>5, <1>1 DEF Dropped
      <3> QED BY <2>1, <3>3, <3>4, <3>6 DEF Dropped, G
    <2>2. CASE ~taken
      BY <2>2, <1>1, WindowStateAssumption DEF With
    <2> QED BY <2>1, <2>2
  <1> HIDE DEF unset
  <1>3. s.group[c] \in GroupId /\ s.desktop[s.group[c]] # NULL
    BY GroupHasDesktop DEF Sound
  <1>4. /\ Sound(raised) /\ raised.group = s.group /\ raised.desktop = s.desktop
        /\ raised.life = s.life
        /\ With(raised, "ACTIVE") \subseteq {c}
    BY <1>2, <1>3, GroupToTailSound DEF Reordered, With
  <1> HIDE DEF raised
  <1>4a. /\ Sound(focused) /\ focused.group = s.group /\ focused.desktop = s.desktop
         /\ focused.life = s.life
         /\ With(focused, "ACTIVE") \subseteq {c}
    BY <1>4, FocusSame
  <1> HIDE DEF focused
  <1>5. /\ Sound(queued) /\ queued.group = s.group /\ queued.desktop = s.desktop
        /\ queued.life = s.life
        /\ With(queued, "ACTIVE") \subseteq {c}
    BY <1>4a, ClientToTailSound DEF Reordered, With
  <1> HIDE DEF queued
  <1>6. F \in SUBSET Flag /\ "ACTIVE" \in F
    BY <1>5, FlagNames DEF Sound, WindowStates
  <1> HIDE DEF F
  <1>7. /\ t \in WindowStates
        /\ t.group = queued.group
        /\ t.clients = queued.clients
        /\ t.desktop = queued.desktop
        /\ t.groups = queued.groups
        /\ t.netActive = c
        /\ t.life = queued.life
        /\ t.flags = [queued.flags EXCEPT ![c] = F]
    BY <1>5, <1>6 DEF Sound, SetFlags, ewmh_set_net_active_window, WindowStates
  <1> HIDE DEF t
  <1>10. With(t, "ACTIVE") = {c}
    <2>1. queued.flags \in [Client -> SUBSET Flag]
      BY <1>5 DEF Sound, WindowStates
    <2> QED BY <2>1, <1>5, <1>6, <1>7 DEF With
  <1>8. Linked(t)
    BY <1>5, <1>7 DEF Sound, Linked
  <1>9. Sound(t)
    BY <1>5, <1>7, <1>8, <1>10 DEF Sound
  <1> QED BY <1>0, <1>5, <1>7, <1>9, <1>10

\* client_deactivate writes _NET_ACTIVE_WINDOW, but only for the client it names already.
LEMMA DeactivateDropped ==
  ASSUME NEW s, Sound(s), NEW c \in Client
  PROVE  /\ client_deactivate(s, c) \in WindowStates
         /\ client_deactivate(s, c).life = s.life
         /\ Dropped(s, client_deactivate(s, c))
  <1>1. CASE "ACTIVE" \notin s.flags[c]
    BY <1>1 DEF client_deactivate, Sound, Dropped
  <1>2. CASE "ACTIVE" \in s.flags[c]
    <2> DEFINE F == s.flags[c] \ {"ACTIVE"}
               f == SetFlags(s, c, F)
    <2>1. F \in SUBSET Flag /\ s.netActive = c /\ s \in WindowStates
      BY <1>2 DEF Sound, WindowStates, With
    <2> HIDE DEF F
    <2>2. f \in WindowStates /\ Dropped(s, f) /\ f.life = s.life
      BY <2>1, <1>2, SetFlagsDropped
    <2> HIDE DEF f
    <2>3. ewmh_set_net_active_window(f, c) \in WindowStates
      BY <2>2 DEF ewmh_set_net_active_window, WindowStates
    <2>4. /\ Dropped(s, ewmh_set_net_active_window(f, c))
          /\ ewmh_set_net_active_window(f, c).life = s.life
      BY <2>1, <2>2 DEF ewmh_set_net_active_window, Dropped, With, WindowStates
    <2> QED BY <1>2, <2>3, <2>4 DEF client_deactivate, f, F
  <1> QED BY <1>1, <1>2

\* The client that a search of a group finds belongs to the group.
LEMMA LastActivatableFound ==
  ASSUME NEW s \in WindowStates, Linked(s), NEW g \in GroupId, LastActivatable(s, g) # NULL
  PROVE  LastActivatable(s, g) \in Client /\ s.group[LastActivatable(s, g)] = g
  <1>1. s.clients[g] \in Seq(Client)
    BY DEF WindowStates
  <1>2. LastActivatable(s, g) \in Range(s.clients[g])
    BY <1>1, LastInFound DEF LastActivatable
  <1>3. LastActivatable(s, g) \in Client
    BY <1>1, <1>2 DEF Range
  <1> QED BY <1>2, <1>3 DEF Linked

\* If nobody is active in t, nobody was in s, and nobody was told of anything since.
StaysActive(s, t) ==
  With(t, "ACTIVE") = {} => With(s, "ACTIVE") = {} /\ t.netActive = s.netActive

\* group_activate activates a client of the group, if one can be.
LEMMA GroupActivateSound ==
  ASSUME NEW s, Sound(s), NEW g \in GroupId, s.desktop[g] # NULL
  PROVE  /\ Sound(group_activate(s, g))
         /\ group_activate(s, g).group = s.group
         /\ group_activate(s, g).life = s.life
         /\ StaysActive(s, group_activate(s, g))
  <1> DEFINE tail == GroupToTail(s, g)
             c == LastActivatable(s, g)
  <1>1. Sound(tail) /\ tail.group = s.group /\ tail.life = s.life /\ StaysActive(s, tail)
    BY GroupToTailSound DEF Reordered, StaysActive, With
  <1>2. c # NULL => c \in Client /\ s.group[c] = g
    BY LastActivatableFound DEF Sound
  <1>3. group_activate(s, g) = IF c = NULL THEN tail ELSE client_activate(tail, c, TRUE)
    BY DEF group_activate
  <1> HIDE DEF tail, c
  <1>4. ASSUME c # NULL
        PROVE  /\ Sound(client_activate(tail, c, TRUE))
               /\ client_activate(tail, c, TRUE).group = s.group
               /\ client_activate(tail, c, TRUE).life = s.life
               /\ With(client_activate(tail, c, TRUE), "ACTIVE") # {}
    <2>1. c \in Client /\ tail.group[c] # NULL
      BY <1>1, <1>2, <1>4, WindowStateAssumption
    <2> QED BY <1>1, <2>1, ActivateSound
  <1>5. c # NULL => StaysActive(s, client_activate(tail, c, TRUE))
    BY <1>4 DEF StaysActive
  <1> QED BY <1>1, <1>3, <1>4, <1>5

-----------------------------------------------------------------------------
(* Functions that link and unlink clients and groups *)

\* group_unassign takes one client off its group, and the group off its desktop with
\* the last one.
LEMMA UnassignLinked ==
  ASSUME NEW s \in WindowStates, Linked(s), NEW c \in Client, s.group[c] # NULL
  PROVE  LET t == group_unassign(s, c)
         IN  /\ t \in WindowStates
             /\ Linked(t)
             /\ t.group = [s.group EXCEPT ![c] = NULL]
             /\ t.flags = s.flags
             /\ t.netActive = s.netActive
             /\ t.life = s.life
  <1> DEFINE g == s.group[c]
             d == s.desktop[g]
             rest == TAILQ_REMOVE(s.clients[g], c)
             left == [s EXCEPT !.clients[g] = rest, !.group[c] = NULL]
             others == TAILQ_REMOVE(s.groups[d], g)
             gone == [left EXCEPT !.groups[d] = others, !.desktop[g] = NULL,
                                  !.name[g] = NoName]
  <1>0. /\ s.group \in [Client -> GroupId \cup {NULL}]
        /\ s.clients \in [GroupId -> Seq(Client)]
        /\ s.desktop \in [GroupId -> Desktop \cup {NULL}]
        /\ s.groups \in [Desktop -> Seq(GroupId)]
    BY DEF WindowStates
  <1>1. g \in GroupId /\ d # NULL /\ d \in Desktop
    BY GroupHasDesktop
  <1>2. c \in Range(s.clients[g]) /\ IsInjective(s.clients[g])
    BY <1>1 DEF Linked
  <1>3. /\ rest \in Seq(Client)
        /\ Range(rest) = Range(s.clients[g]) \ {c}
        /\ IsInjective(rest)
    BY <1>0, <1>1, <1>2, RemoveOne
  <1>4. g \in Range(s.groups[d]) /\ IsInjective(s.groups[d])
    BY <1>1 DEF Linked
  <1>5. /\ others \in Seq(GroupId)
        /\ Range(others) = Range(s.groups[d]) \ {g}
        /\ IsInjective(others)
    BY <1>0, <1>1, <1>4, RemoveOne
  <1>6. group_unassign(s, c) = IF rest # << >> THEN left ELSE gone
    <2>1. left.groups[d] = s.groups[d]
      BY DEF WindowStates
    <2> QED BY <1>1, WindowStateAssumption DEF group_unassign
  <1> HIDE DEF rest, others
  <1>7. /\ left \in WindowStates
        /\ left.group = [s.group EXCEPT ![c] = NULL]
        /\ left.clients = [s.clients EXCEPT ![g] = rest]
        /\ left.desktop = s.desktop
        /\ left.groups = s.groups
        /\ left.flags = s.flags
        /\ left.netActive = s.netActive
        /\ left.life = s.life
    BY <1>1, <1>3 DEF WindowStates
  <1> HIDE DEF left
  <1>8. /\ gone \in WindowStates
        /\ gone.group = left.group
        /\ gone.clients = left.clients
        /\ gone.desktop = [s.desktop EXCEPT ![g] = NULL]
        /\ gone.groups = [s.groups EXCEPT ![d] = others]
        /\ gone.flags = s.flags
        /\ gone.netActive = s.netActive
        /\ gone.life = s.life
    BY <1>1, <1>5, <1>7, WindowStateAssumption DEF WindowStates
  <1> HIDE DEF gone
  <1>9. /\ \A h \in GroupId : IsInjective(left.clients[h])
        /\ \A b \in Client, h \in GroupId : b \in Range(left.clients[h]) <=> left.group[b] = h
    BY <1>0, <1>1, <1>3, <1>7, WindowStateAssumption DEF Linked
  <1>10. CASE rest # << >>
    <2>1. \A h \in GroupId : s.desktop[h] = NULL <=> left.clients[h] = << >>
      <3>1. s.clients[g] # << >>
        BY <1>2, NotEmpty
      <3> QED BY <1>0, <1>1, <1>7, <1>10, <3>1 DEF Linked
    <2>2. Linked(left)
      BY <1>7, <1>9, <2>1 DEF Linked
    <2> QED BY <2>2, <1>6, <1>7, <1>10
  <1>11. CASE rest = << >>
    <2>1. /\ \A e \in Desktop : IsInjective(gone.groups[e])
          /\ \A h \in GroupId, e \in Desktop :
               h \in Range(gone.groups[e]) <=> gone.desktop[h] = e
      BY <1>0, <1>1, <1>5, <1>8, WindowStateAssumption DEF Linked
    <2>2. \A h \in GroupId : gone.desktop[h] = NULL <=> gone.clients[h] = << >>
      BY <1>0, <1>1, <1>7, <1>8, <1>11 DEF Linked
    <2>3. Linked(gone)
      BY <1>8, <1>9, <2>1, <2>2 DEF Linked
    <2> QED BY <2>3, <1>6, <1>7, <1>8, <1>11
  <1> QED BY <1>10, <1>11

\* While a client has no group there are fewer groups than group_assign could get: as
\* many groups as clients suffice for a model in which calloc never fails.
LEMMA FreeGroup ==
  ASSUME NEW s \in WindowStates, Linked(s), NEW c \in Client, s.group[c] = NULL
  PROVE  \E g \in GroupId : s.clients[g] = << >>
  <1> SUFFICES ASSUME \A g \in GroupId : s.clients[g] # << >>
               PROVE  FALSE
    OBVIOUS
  <1> DEFINE first == [g \in GroupId |-> s.clients[g][1]]
             Others == Client \ {c}
  <1>1. ASSUME NEW g \in GroupId
        PROVE  first[g] \in Others /\ s.group[first[g]] = g
    <2>1. s.clients[g] \in Seq(Client) /\ s.clients[g] # << >>
      BY DEF WindowStates
    <2>2. first[g] \in Client /\ first[g] \in Range(s.clients[g])
      BY <2>1 DEF Range
    <2>3. s.group[first[g]] = g
      BY <2>2 DEF Linked
    <2> QED BY <2>2, <2>3, WindowStateAssumption
  <1>2. first \in [GroupId -> Others]
    BY <1>1
  <1>3. IsFiniteSet(Others) /\ Cardinality(Others) = Cardinality(Client) - 1
    BY FS_RemoveElement, WindowStateAssumption
  <1>4. Cardinality(Others) < Cardinality(GroupId)
    <2>1. Cardinality(Client) \in Nat /\ Cardinality(GroupId) \in Nat
      BY FS_CardinalityType, WindowStateAssumption
    <2> QED BY <2>1, <1>3, WindowStateAssumption
  <1> HIDE DEF first, Others
  <1>5. \E g, h \in GroupId : g # h /\ first[g] = first[h]
    BY <1>2, <1>3, <1>4, FS_PigeonHole, WindowStateAssumption
  <1> QED BY <1>1, <1>5

\* group_assign and the ->desktop that screen_adopt sets.
Assigned(s, d, c) ==
  LET a == group_assign(s, d, c)
  IN  [a EXCEPT !.desktop[a.group[c]] = d]

\* A client without a group gets one on the desktop.
LEMMA AssignLinked ==
  ASSUME NEW s \in WindowStates, Linked(s), NEW c \in Client, s.group[c] = NULL,
         NEW d \in Desktop
  PROVE  LET t == Assigned(s, d, c)
         IN  /\ t \in WindowStates
             /\ Linked(t)
             /\ t.group[c] \in GroupId
             /\ t.group = [s.group EXCEPT ![c] = t.group[c]]
             /\ t.flags = s.flags
             /\ t.netActive = s.netActive
             /\ t.life = s.life
  <1> DEFINE same  == GroupNamed(s, d, ClassOf[c])
             fresh == CHOOSE g \in GroupId : s.clients[g] = << >>
             a == group_assign(s, d, c)
             t == [a EXCEPT !.desktop[a.group[c]] = d]
  <1>0. /\ s.group \in [Client -> GroupId \cup {NULL}]
        /\ s.clients \in [GroupId -> Seq(Client)]
        /\ s.desktop \in [GroupId -> Desktop \cup {NULL}]
        /\ s.groups \in [Desktop -> Seq(GroupId)]
        /\ ClassOf[c] \in Name
    BY WindowStateAssumption DEF WindowStates
  <1>1. same # NULL => same \in Range(s.groups[d])
    BY <1>0, FirstInFound DEF GroupNamed
  <1>2. fresh \in GroupId /\ s.clients[fresh] = << >>
    BY FreeGroup
  <1>3. \A g \in GroupId : c \notin Range(s.clients[g])
    BY WindowStateAssumption DEF Linked
  <1> HIDE DEF same, fresh
  <1>4. CASE same # NULL
    <2> DEFINE q == TAILQ_INSERT_TAIL(s.clients[same], c)
               u == [s EXCEPT !.clients[same] = q, !.group[c] = same]
    <2>1. same \in GroupId /\ s.desktop[same] = d
      <3>1. same \in GroupId
        BY <1>0, <1>1, <1>4 DEF Range
      <3> QED BY <3>1, <1>1, <1>4 DEF Linked
    <2>2. q \in Seq(Client) /\ Range(q) = Range(s.clients[same]) \cup {c} /\ IsInjective(q)
      BY <1>0, <1>3, <2>1, InsertTail DEF Linked
    <2>3. q # << >> /\ s.clients[same] # << >>
      <3>1. c \in Range(q)
        BY <2>2
      <3> HIDE DEF q
      <3>2. q # << >>
        BY <3>1, NotEmpty
      <3> QED BY <3>2, <2>1, WindowStateAssumption DEF Linked
    <2>4. a = u
      BY <1>4 DEF group_assign, same
    <2> HIDE DEF q, a
    <2>5. /\ u \in WindowStates
          /\ u.group = [s.group EXCEPT ![c] = same]
          /\ u.clients = [s.clients EXCEPT ![same] = q]
          /\ u.desktop = s.desktop
          /\ u.groups = s.groups
          /\ u.flags = s.flags
          /\ u.netActive = s.netActive
          /\ u.life = s.life
      BY <2>1, <2>2 DEF WindowStates
    <2> HIDE DEF u
    <2>6. u.group[c] = same /\ u.desktop[same] = d
      BY <1>0, <2>1, <2>5
    <2>7. t = u
      BY <2>4, <2>5, <2>6 DEF WindowStates
    <2>8. Linked(u)
      <3>1. \A g \in GroupId : IsInjective(u.clients[g])
        BY <1>0, <2>1, <2>2, <2>5 DEF Linked
      <3>2. \A b \in Client, g \in GroupId : b \in Range(u.clients[g]) <=> u.group[b] = g
        BY <1>0, <1>3, <2>1, <2>2, <2>5 DEF Linked
      <3>3. \A g \in GroupId : u.desktop[g] = NULL <=> u.clients[g] = << >>
        BY <1>0, <2>1, <2>3, <2>5 DEF Linked
      <3> QED BY <3>1, <3>2, <3>3, <2>5 DEF Linked
    <2>9. Assigned(s, d, c) = t
      BY DEF Assigned, a
    <2> HIDE DEF t
    <2> QED BY <2>1, <2>5, <2>6, <2>7, <2>8, <2>9
  <1>5. CASE same = NULL
    <2> DEFINE q == <<c>>
               r == TAILQ_INSERT_TAIL(s.groups[d], fresh)
               u == [s EXCEPT !.clients[fresh] = q, !.group[c] = fresh,
                              !.name[fresh] = ClassOf[c],
                              !.groups[d] = r]
    <2>1. s.desktop[fresh] = NULL
      BY <1>2 DEF Linked
    <2>2. q \in Seq(Client) /\ Range(q) = {c} /\ IsInjective(q) /\ q # << >>
      BY DEF Range, IsInjective
    <2>3. \A e \in Desktop : fresh \notin Range(s.groups[e])
      BY <1>2, <2>1, WindowStateAssumption DEF Linked
    <2>4. r \in Seq(GroupId) /\ Range(r) = Range(s.groups[d]) \cup {fresh} /\ IsInjective(r)
      BY <1>0, <1>2, <2>3, InsertTail DEF Linked
    <2>5. a = u
      BY <1>5 DEF group_assign, same, fresh
    <2> HIDE DEF q, r, a
    <2>6. /\ u \in WindowStates
          /\ u.group = [s.group EXCEPT ![c] = fresh]
          /\ u.clients = [s.clients EXCEPT ![fresh] = q]
          /\ u.desktop = s.desktop
          /\ u.groups = [s.groups EXCEPT ![d] = r]
          /\ u.flags = s.flags
          /\ u.netActive = s.netActive
          /\ u.life = s.life
      BY <1>0, <1>2, <2>2, <2>4 DEF WindowStates
    <2> HIDE DEF u
    <2>7. a.group[c] = fresh
      BY <1>0, <2>5, <2>6
    <2>8. /\ t \in WindowStates
          /\ t.group = u.group
          /\ t.clients = u.clients
          /\ t.desktop = [s.desktop EXCEPT ![fresh] = d]
          /\ t.groups = u.groups
          /\ t.flags = s.flags
          /\ t.netActive = s.netActive
          /\ t.life = s.life
      BY <1>2, <2>5, <2>6, <2>7 DEF WindowStates
    <2>11. Assigned(s, d, c) = t
      BY DEF Assigned, a
    <2> HIDE DEF t
    <2>9. Linked(t)
      <3>1. \A g \in GroupId : IsInjective(t.clients[g])
        BY <1>0, <1>2, <2>2, <2>6, <2>8 DEF Linked
      <3>2. \A b \in Client, g \in GroupId : b \in Range(t.clients[g]) <=> t.group[b] = g
        <4>1. Range(s.clients[fresh]) = {}
          BY <1>2 DEF Range
        <4> QED BY <1>0, <1>2, <1>3, <2>2, <2>6, <2>8, <4>1 DEF Linked
      <3>3. \A e \in Desktop : IsInjective(t.groups[e])
        BY <1>0, <2>4, <2>6, <2>8 DEF Linked
      <3>4. \A g \in GroupId, e \in Desktop : g \in Range(t.groups[e]) <=> t.desktop[g] = e
        BY <1>0, <1>2, <2>3, <2>4, <2>6, <2>8 DEF Linked
      <3>5. \A g \in GroupId : t.desktop[g] = NULL <=> t.clients[g] = << >>
        BY <1>0, <1>2, <2>2, <2>6, <2>8, WindowStateAssumption DEF Linked
      <3> QED BY <3>1, <3>2, <3>3, <3>4, <3>5 DEF Linked
    <2>10. t.group[c] = fresh
      BY <1>0, <2>6, <2>8
    <2> QED BY <1>2, <2>6, <2>8, <2>9, <2>10, <2>11
  <1> QED BY <1>4, <1>5

\* screen_adopt moves a client to the current desktop of a screen, from wherever it was.
LEMMA AdoptSound ==
  ASSUME NEW s, Sound(s), NEW scr \in Screen, NEW c \in Client
  PROVE  LET t == screen_adopt(s, scr, c)
         IN  /\ Sound(t)
             /\ t.group[c] # NULL
             /\ t.flags = s.flags
             /\ t.netActive = s.netActive
             /\ t.life = s.life
             /\ \A b \in Client \ {c} : t.group[b] = s.group[b]
  <1> DEFINE u == group_unassign(s, c)
             d == CurrentDesktop(s, scr)
             t == Assigned(u, d, c)
  <1>1. d \in Desktop
    BY DEF CurrentDesktop, Desktop, Sound, WindowStates
  <1>2. /\ u \in WindowStates
        /\ Linked(u)
        /\ u.group = [s.group EXCEPT ![c] = NULL]
        /\ u.flags = s.flags
        /\ u.netActive = s.netActive
        /\ u.life = s.life
    <2>1. CASE s.group[c] = NULL
      <3>1. u = s
        BY <2>1 DEF group_unassign
      <3>2. s.group = [s.group EXCEPT ![c] = NULL]
        BY <2>1 DEF Sound, WindowStates
      <3> QED BY <3>1, <3>2 DEF Sound
    <2>2. CASE s.group[c] # NULL
      BY <2>2, UnassignLinked DEF Sound
    <2> QED BY <2>1, <2>2
  <1>3. u.group[c] = NULL
    BY <1>2 DEF Sound, WindowStates
  <1>4. t = screen_adopt(s, scr, c)
    BY DEF screen_adopt, Assigned
  <1> HIDE DEF u, d, t
  <1>9. t = Assigned(u, d, c)
    BY DEF t
  <1>5. /\ t \in WindowStates
        /\ Linked(t)
        /\ t.group[c] \in GroupId
        /\ t.group = [u.group EXCEPT ![c] = t.group[c]]
        /\ t.flags = u.flags
        /\ t.netActive = u.netActive
        /\ t.life = u.life
    <2>1. u \in WindowStates /\ Linked(u)
      BY <1>2
    <2> QED BY <1>1, <1>3, <1>9, <2>1, AssignLinked
  <1>6. t.group[c] # NULL
    BY <1>5, WindowStateAssumption
  <1>7. \A b \in With(t, "ACTIVE") : t.group[b] # NULL
    <2> SUFFICES ASSUME NEW b \in With(t, "ACTIVE"), b # c
                 PROVE  t.group[b] # NULL
      BY <1>6
    <2>1. b \in Client /\ b \in With(s, "ACTIVE")
      BY <1>2, <1>5 DEF With
    <2>2. t.group[b] = s.group[b]
      BY <1>2, <1>5, <2>1 DEF Sound, WindowStates
    <2> QED BY <2>1, <2>2 DEF Sound
  <1>8. \A b \in Client \ {c} : t.group[b] = s.group[b]
    BY <1>2, <1>5 DEF Sound, WindowStates
  <1> QED BY <1>2, <1>4, <1>5, <1>6, <1>7, <1>8 DEF Sound, With

\* A client is removed, and perhaps another one activated.
LEMMA RemoveSound ==
  ASSUME NEW s, Sound(s), NEW c \in Client, s.group[c] # NULL
  PROVE  LET t == client_remove(s, c)
         IN  /\ Sound(t)
             /\ t.group = [s.group EXCEPT ![c] = NULL]
             /\ t.life = s.life
             /\ With(t, "ACTIVE") = {} =>
                  With(s, "ACTIVE") \subseteq {c} /\ t.netActive = s.netActive
  <1> DEFINE g      == s.group[c]
             told   == IF "ACTIVE" \in s.flags[c] THEN ewmh_set_net_active_window(s, c) ELSE s
             u      == group_unassign(told, c)
             freed  == [u EXCEPT !.flags[c] = {}, !.mapped[c] = FALSE]
             tail   == TAILQ_LAST(freed.groups[s.desktop[g]])
             inGroup == LastActivatable(freed, g)
             inTail  == IF tail = NULL THEN NULL ELSE LastActivatable(freed, tail)
  <1>1. g \in GroupId /\ s.desktop[g] \in Desktop
    BY GroupHasDesktop DEF Sound
  <1>2. told \in WindowStates /\ Same(s, told) /\ told.flags = s.flags
    <2>1. "ACTIVE" \in s.flags[c] => s.netActive = c
      BY DEF Sound, With
    <2> QED BY <2>1 DEF Sound, ewmh_set_net_active_window, WindowStates, Same, Dropped, With
  <1>3. Linked(told) /\ told.group = s.group /\ told.netActive = s.netActive /\ told.life = s.life
    BY <1>2, Frame DEF Sound, Same, Dropped
  <1> HIDE DEF told
  <1>4. /\ u \in WindowStates
        /\ Linked(u)
        /\ u.group = [s.group EXCEPT ![c] = NULL]
        /\ u.flags = s.flags
        /\ u.netActive = s.netActive
        /\ u.life = s.life
    BY <1>2, <1>3, UnassignLinked
  <1> HIDE DEF u
  <1>5. /\ freed \in WindowStates
        /\ freed.group = u.group
        /\ freed.clients = u.clients
        /\ freed.desktop = u.desktop
        /\ freed.groups = u.groups
        /\ freed.flags = [u.flags EXCEPT ![c] = {}]
        /\ freed.netActive = u.netActive
        /\ freed.life = u.life
    BY <1>4 DEF WindowStates
  <1> HIDE DEF freed
  <1>6. Linked(freed)
    BY <1>4, <1>5 DEF Linked
  <1>7. \A b \in With(freed, "ACTIVE") : b # c /\ b \in With(s, "ACTIVE")
    BY <1>4, <1>5 DEF With, WindowStates
  <1>8. \A b \in With(freed, "ACTIVE") : freed.group[b] = s.group[b]
    BY <1>4, <1>5, <1>7 DEF Sound, WindowStates, With
  <1>9. Sound(freed)
    BY <1>4, <1>5, <1>6, <1>7, <1>8 DEF Sound
  <1>10. inGroup # NULL => inGroup \in Client /\ freed.group[inGroup] # NULL
    BY <1>1, <1>5, <1>6, LastActivatableFound, WindowStateAssumption
  <1>11. tail # NULL => tail \in GroupId
    <2>1. freed.groups[s.desktop[g]] \in Seq(GroupId)
      BY <1>1, <1>5 DEF WindowStates
    <2>2. tail # NULL => tail \in Range(freed.groups[s.desktop[g]])
      BY <2>1, LastFound
    <2> QED BY <2>1, <2>2 DEF Range
  <1>12. inTail # NULL => inTail \in Client /\ freed.group[inTail] # NULL
    BY <1>5, <1>6, <1>11, LastActivatableFound, WindowStateAssumption
  <1>13. \/ client_remove(s, c) = freed
         \/ inGroup # NULL /\ client_remove(s, c) = client_activate(freed, inGroup, TRUE)
         \/ inTail # NULL /\ client_remove(s, c) = client_activate(freed, inTail, TRUE)
    BY DEF client_remove, freed, u, told
  <1> HIDE DEF inGroup, inTail
  <1>14. With(freed, "ACTIVE") = {} => With(s, "ACTIVE") \subseteq {c}
    BY <1>4, <1>5 DEF With, Sound, WindowStates
  <1>15. ASSUME NEW b \in Client, freed.group[b] # NULL
         PROVE  /\ Sound(client_activate(freed, b, TRUE))
                /\ client_activate(freed, b, TRUE).group = freed.group
                /\ client_activate(freed, b, TRUE).life = freed.life
                /\ With(client_activate(freed, b, TRUE), "ACTIVE") # {}
    BY <1>9, <1>15, ActivateSound
  <1> QED BY <1>4, <1>5, <1>9, <1>10, <1>12, <1>13, <1>14, <1>15

\* A window becomes a client.
LEMMA InitSound ==
  ASSUME NEW s, Sound(s), NEW c \in Client, NEW scr \in Screen
  PROVE  /\ Sound(client_init(s, c, scr))
         /\ client_init(s, c, scr).group[c] # NULL
         /\ client_init(s, c, scr).life = s.life
         /\ client_init(s, c, scr).netActive = s.netActive
         /\ With(client_init(s, c, scr), "ACTIVE") = With(s, "ACTIVE") \ {c}
         /\ \A b \in Client \ {c} : client_init(s, c, scr).group[b] = s.group[b]
  <1> DEFINE fresh    == [s EXCEPT !.mapped[c] = s.viewable[c], !.flags[c] = {}]
             hinted   == client_update_wm_hints(fresh, c)
             adopted  == screen_adopt(hinted, scr, c)
             restored == ewmh_restore_net_wm_state(adopted, c)
             F        == restored.flags[c] \cup {"IGNORE"}
             bar      == SetFlags(restored, c, F)
  <1>1. fresh \in WindowStates /\ Dropped(s, fresh) /\ fresh.life = s.life
    BY DEF Sound, WindowStates, Dropped, With
  <1>10. With(fresh, "ACTIVE") = With(s, "ACTIVE") \ {c}
    BY DEF Sound, WindowStates, With
  <1> HIDE DEF fresh
  <1>2. hinted \in WindowStates /\ Same(fresh, hinted)
    BY <1>1, UpdateHintsSame
  <1> HIDE DEF hinted
  <1>3. Sound(hinted)
    BY <1>1, <1>2, FrameDropped, Frame
  <1>4. Sound(adopted) /\ adopted.group[c] # NULL
    BY <1>3, AdoptSound
  <1>11. /\ adopted.life = s.life
         /\ adopted.netActive = s.netActive
         /\ With(adopted, "ACTIVE") = With(s, "ACTIVE") \ {c}
         /\ \A b \in Client \ {c} : adopted.group[b] = s.group[b]
    <2>1. /\ adopted.life = hinted.life
          /\ adopted.netActive = hinted.netActive
          /\ adopted.flags = hinted.flags
          /\ \A b \in Client \ {c} : adopted.group[b] = hinted.group[b]
      BY <1>3, AdoptSound
    <2>2. With(adopted, "ACTIVE") = With(hinted, "ACTIVE")
      BY <2>1 DEF With
    <2>3. /\ hinted.life = s.life
          /\ hinted.netActive = s.netActive
          /\ hinted.group = s.group
          /\ With(hinted, "ACTIVE") = With(s, "ACTIVE") \ {c}
      BY <1>1, <1>2, <1>10 DEF Same, Dropped
    <2> QED BY <2>1, <2>2, <2>3
  <1> HIDE DEF adopted
  <1>5. restored \in WindowStates /\ Same(adopted, restored)
    BY <1>4, RestoreStateSame DEF Sound
  <1> HIDE DEF restored
  <1>6. F \in SUBSET Flag /\ ("ACTIVE" \in F <=> "ACTIVE" \in restored.flags[c])
    BY <1>5, FlagNames DEF WindowStates
  <1> HIDE DEF F
  <1>7. bar \in WindowStates /\ Same(restored, bar)
    BY <1>5, <1>6, SetFlagsSame
  <1> HIDE DEF bar
  <1>8. Same(adopted, bar)
    BY <1>5, <1>7, SameTransitive
  <1>9. Sound(restored) /\ Sound(bar) /\ restored.group[c] # NULL /\ bar.group[c] # NULL
    BY <1>4, <1>5, <1>7, <1>8, Frame DEF Same, Dropped
  <1>12. client_init(s, c, scr) \in {restored, bar}
    BY DEF client_init, fresh, hinted, adopted, restored, F, bar
  <1> QED BY <1>5, <1>8, <1>9, <1>11, <1>12 DEF Same, Dropped

-----------------------------------------------------------------------------
(* The desktop switch *)

\* group_unmap on the groups of a desktop: the client that loses CLIENT_ACTIVE there is
\* the one _NET_ACTIVE_WINDOW names.
LEMMA UnmapDesktopDropped ==
  ASSUME NEW s, Sound(s), NEW d \in Desktop
  PROVE  /\ UnmapDesktop(s, d) \in WindowStates
         /\ UnmapDesktop(s, d).life = s.life
         /\ Dropped(s, UnmapDesktop(s, d))
  <1> DEFINE gone == Unmappable(s, d)
             lost == gone \cap With(s, "ACTIVE")
             flags == [c \in Client |->
                         IF c \in gone THEN s.flags[c] \ {"ACTIVE"} ELSE s.flags[c]]
             viewable == [c \in Client |-> s.viewable[c] /\ c \notin gone]
             mapped == [c \in Client |-> s.mapped[c] /\ c \notin gone]
             netState == [c \in Client |-> IF c \in gone /\ Alive(s, c)
                                           THEN Published(flags[c]) ELSE s.netState[c]]
             netActive == IF lost = {} THEN s.netActive ELSE CHOOSE c \in lost : TRUE
             focus == IF s.focus \in gone THEN NULL ELSE s.focus
             t == [s EXCEPT !.viewable = viewable, !.focus = focus,
                            !.mapped = mapped, !.flags = flags,
                            !.netState = netState, !.netActive = netActive]
  <1>1. UnmapDesktop(s, d) = t
    BY DEF UnmapDesktop
  <1>2. /\ flags \in [Client -> SUBSET Flag]
        /\ viewable \in [Client -> BOOLEAN]
        /\ mapped \in [Client -> BOOLEAN]
        /\ focus \in Client \cup {NULL, Elsewhere}
    BY DEF Sound, WindowStates
  <1>3. netState \in [Client -> SUBSET Atom]
    BY PublishedAtoms DEF Sound, WindowStates
  <1>4. netActive = s.netActive
    <2>1. CASE lost = {}
      BY <2>1
    <2>2. CASE lost # {}
      <3> DEFINE c == CHOOSE x \in lost : TRUE
      <3>1. c \in lost
        BY <2>2
      <3> QED BY <2>2, <3>1 DEF Sound
    <2> QED BY <2>1, <2>2
  <1>5. \A c \in Client : "ACTIVE" \in flags[c] => "ACTIVE" \in s.flags[c]
    OBVIOUS
  <1> HIDE DEF flags, viewable, focus, mapped, netState, netActive
  <1>6. /\ t \in WindowStates
        /\ t.group = s.group
        /\ t.clients = s.clients
        /\ t.desktop = s.desktop
        /\ t.groups = s.groups
        /\ t.netActive = s.netActive
        /\ t.life = s.life
        /\ t.flags = flags
    BY <1>2, <1>3, <1>4 DEF Sound, WindowStates
  <1> HIDE DEF t
  <1> QED BY <1>1, <1>5, <1>6 DEF Dropped, With

\* group_map on the groups of a desktop changes what is viewable.
LEMMA MapDesktopSame ==
  ASSUME NEW s \in WindowStates, NEW d \in Desktop
  PROVE  MapDesktop(s, d) \in WindowStates /\ Same(s, MapDesktop(s, d))
  <1> DEFINE shown == {c \in ClientsOn(s, d) : ~s.mapped[c] /\ "HIDDEN" \notin s.flags[c]}
             viewable == [c \in Client |-> IF c \in shown THEN Alive(s, c) ELSE s.viewable[c]]
  <1>1. viewable \in [Client -> BOOLEAN]
    BY DEF WindowStates, Alive
  <1>2. MapDesktop(s, d) = [s EXCEPT !.viewable = viewable]
    BY DEF MapDesktop
  <1> HIDE DEF viewable
  <1> QED BY <1>1, <1>2 DEF WindowStates, Same, Dropped, With

\* A desktop switch unmaps, maps and activates, and keeps lists and activation in order.
LEMMA SwitchSound ==
  ASSUME NEW s, Sound(s), NEW i \in 0 .. DesktopCount - 1
  PROVE  /\ Sound(SwitchTo(s, i))
         /\ SwitchTo(s, i).group = s.group
         /\ SwitchTo(s, i).life = s.life
         /\ With(SwitchTo(s, i), "ACTIVE") = {} => SwitchTo(s, i).netActive = s.netActive
  <1> DEFINE old == CurrentDesktop(s, s.active)
             d == <<s.active, i>>
             unmapped == UnmapDesktop(s, old)
             mapped == MapDesktop(unmapped, d)
             g == LastIn(mapped.groups[d], {h \in GroupId : group_can_activate(mapped, h)})
             activated == IF g = NULL THEN mapped ELSE group_activate(mapped, g)
             indexed == [activated EXCEPT !.desktop_index[s.active] = i]
             t == ewmh_set_net_current_desktop(indexed)
  <1>1. old \in Desktop /\ d \in Desktop
    BY DEF CurrentDesktop, Desktop, Sound, WindowStates
  <1>2. SwitchTo(s, i) = t
    BY DEF SwitchTo
  <1> HIDE DEF old, d
  <1>3. unmapped \in WindowStates /\ Dropped(s, unmapped) /\ unmapped.life = s.life
    BY <1>1, UnmapDesktopDropped
  <1> HIDE DEF unmapped
  <1>4. mapped \in WindowStates /\ Same(unmapped, mapped)
    BY <1>1, <1>3, MapDesktopSame
  <1> HIDE DEF mapped
  <1>5. Sound(mapped)
    BY <1>3, <1>4, FrameDropped, Frame
  <1>10. mapped.group = s.group /\ mapped.life = s.life /\ mapped.netActive = s.netActive
    BY <1>3, <1>4 DEF Same, Dropped
  <1>6. g # NULL => g \in GroupId /\ mapped.desktop[g] # NULL
    <2>1. mapped.groups[d] \in Seq(GroupId)
      BY <1>1, <1>4 DEF WindowStates
    <2>2. g # NULL => g \in Range(mapped.groups[d])
      BY <2>1, LastInFound
    <2>3. g # NULL => g \in GroupId
      BY <2>1, <2>2 DEF Range
    <2> QED BY <1>1, <1>5, <2>2, <2>3, WindowStateAssumption DEF Sound, Linked
  <1> HIDE DEF g
  <1>7. /\ Sound(activated)
        /\ activated.group = s.group /\ activated.life = s.life
        /\ With(activated, "ACTIVE") = {} => activated.netActive = s.netActive
    BY <1>5, <1>6, <1>10, GroupActivateSound DEF StaysActive
  <1> HIDE DEF activated
  <1>8. indexed \in WindowStates /\ Same(activated, indexed)
    BY <1>7 DEF Sound, WindowStates, Same, Dropped, With
  <1> HIDE DEF indexed
  <1>9. t \in WindowStates /\ Same(indexed, t)
    BY <1>8, CurrentDesktopSame
  <1> HIDE DEF t
  <1>11. Same(activated, t)
    BY <1>8, <1>9, SameTransitive
  <1>12. Sound(t)
    <2>1. Sound(activated) /\ t \in WindowStates /\ Same(activated, t)
      BY <1>7, <1>9, <1>11
    <2> QED BY <2>1, Frame
  <1> QED BY <1>2, <1>7, <1>11, <1>12 DEF Same, Dropped

-----------------------------------------------------------------------------
(* The invariant *)

\* ListsAgree, ActivePublished and ActiveIsManaged together are inductive.  None of
\* them is so alone: client_activate finds the client it takes CLIENT_ACTIVE from by
\* walking the lists.
Inv == TypeOK /\ Sound(state)

\* A step that leaves lists and activation alone keeps the state sound.
LEMMA FrameState ==
  ASSUME Sound(state), state' \in WindowStates, Dropped(state, state')
  PROVE  Sound(state')
  BY FrameDropped

\* A process that starts has empty lists and no active client.
LEMMA InitInv == Init => Inv
  <1> SUFFICES ASSUME Init PROVE Inv
    OBVIOUS
  <1>1. PICK alive \in SUBSET FirstWindows, shown \in SUBSET Client, scr \in Screen :
          \E atoms \in [alive -> InitialStates] :
            state = [group |-> [c \in Client |-> NULL],
                  flags |-> [c \in Client |-> {}],
                  mapped |-> [c \in Client |-> FALSE],
                  clients |-> [g \in GroupId |-> << >>],
                  name |-> [g \in GroupId |-> NoName],
                  desktop |-> [g \in GroupId |-> NULL],
                  groups |-> [d \in Desktop |-> << >>],
                  desktop_index |-> [r \in Screen |-> 0],
                  active |-> scr,
                  life |-> [c \in Client |-> IF c \in alive THEN "alive" ELSE "absent"],
                  viewable |-> [c \in Client |-> c \in shown],
                  focus |-> NULL,
                  netState |-> [c \in Client |-> IF c \in alive THEN atoms[c] ELSE {}],
                  netActive |-> NULL,
                  netDesktop |-> 0]
    BY MagnetWMAssumption DEF Init
  <1>2. 0 \in 0 .. DesktopCount - 1 /\ NoName \in Name /\ InitialStates \subseteq SUBSET Atom
    BY WindowStateAssumption, MagnetWMAssumption
  <1>3. state \in WindowStates
    BY <1>1, <1>2 DEF WindowStates
  <1>4. Linked(state) /\ With(state, "ACTIVE") = {}
    BY <1>1, WindowStateAssumption DEF Linked, With, Range, IsInjective
  <1>5. TypeOK
    BY <1>3 DEF Init, TypeOK, AliveIn
  <1> QED BY <1>3, <1>4, <1>5 DEF Inv, Sound

-----------------------------------------------------------------------------
(* The owners of the windows *)

\* A window that appears has no client yet.
LEMMA CreateInv ==
  ASSUME Inv, NEW c \in Client, Create(c)
  PROVE  Inv'
  <1>1. state \in WindowStates /\ Sound(state)
    BY DEF Inv, Sound
  <1>2. PICK atoms \in SUBSET Atom :
          state' = [state EXCEPT !.life[c] = "alive", !.netState[c] = atoms]
    BY MagnetWMAssumption DEF Create
  <1>3. state' \in WindowStates /\ Dropped(state, state')
    BY <1>1, <1>2 DEF WindowStates, Dropped, With
  <1>4. Sound(state')
    BY <1>1, <1>3, FrameState
  <1> QED BY <1>3, <1>4 DEF Inv, TypeOK, Create

\* A window that disappears leaves its client where it is until the DestroyNotify is read.
LEMMA DestroyedDropped ==
  ASSUME NEW s \in WindowStates, NEW c \in Client
  PROVE  /\ Destroyed(s, c) \in WindowStates
         /\ Dropped(s, Destroyed(s, c))
         /\ With(Destroyed(s, c), "ACTIVE") = With(s, "ACTIVE")
         /\ AliveIn(Destroyed(s, c)) = AliveIn(s) \ {c}
  BY DEF Destroyed, WindowStates, Dropped, With, AliveIn, Alive

\* A destroyed window adds nothing but its DestroyNotify to the queue.
LEMMA DestroyNotifiedType ==
  ASSUME TypeOK, NEW s, NEW c \in Client
  PROVE  DestroyNotified(s, c) \subseteq {"MapRequest", "DestroyNotify"} \X Client
  BY DEF DestroyNotified, TypeOK

\* An owner that sets the focus changes nothing else.
LEMMA TakeFocusSame ==
  ASSUME NEW c, state \in WindowStates, TakeFocus(c)
  PROVE  /\ state' \in WindowStates /\ Same(state, state')
         /\ state' = [state EXCEPT !.focus = Elsewhere]
         /\ UNCHANGED <<wm_state, windows, queue>>
  <1>1. state' = [state EXCEPT !.focus = Elsewhere] /\ UNCHANGED <<wm_state, windows, queue>>
    BY DEF TakeFocus
  <1>2. state' \in WindowStates
    BY <1>1 DEF WindowStates
  <1> QED BY <1>1, <1>2 DEF WindowStates, Same, Dropped, With

\* Nothing that the owner of a window does disturbs the lists.
LEMMA OwnersInv ==
  ASSUME Inv, Owners
  PROVE  Inv'
  <1>1. state \in WindowStates /\ Sound(state) /\ TypeOK
    BY DEF Inv, Sound
  <1>2. PICK c \in Client : Create(c) \/ RequestMap(c) \/ Withdraw(c) \/ Destroy(c) \/ TakeFocus(c)
    BY DEF Owners
  <1>3. CASE Create(c)
    BY <1>3, CreateInv
  <1>4. CASE RequestMap(c)
    <2>1. state' \in WindowStates /\ Dropped(state, state')
      BY <1>1, <1>4, MapSame, SameReflexive DEF RequestMap, Same
    <2>2. queue' \subseteq {"MapRequest", "DestroyNotify"} \X Client
      BY <1>1, <1>4 DEF RequestMap, TypeOK
    <2>3. Sound(state')
      BY <1>1, <2>1, FrameState
    <2> QED BY <1>1, <1>4, <2>1, <2>2, <2>3 DEF Inv, TypeOK, RequestMap
  <1>5. CASE Withdraw(c)
    <2>1. state' \in WindowStates /\ Dropped(state, state')
      BY <1>1, <1>5, MapSame DEF Withdraw, Same
    <2>2. Sound(state')
      BY <1>1, <2>1, FrameState
    <2> QED BY <1>1, <1>5, <2>1, <2>2 DEF Inv, TypeOK, Withdraw
  <1>6. CASE Destroy(c)
    <2>1. state' \in WindowStates /\ Dropped(state, state')
      BY <1>1, <1>6, DestroyedDropped DEF Destroy
    <2>2. queue' \subseteq {"MapRequest", "DestroyNotify"} \X Client
      BY <1>1, <1>6, DestroyNotifiedType DEF Destroy
    <2>3. Sound(state')
      BY <1>1, <2>1, FrameState
    <2> QED BY <1>1, <1>6, <2>1, <2>2, <2>3 DEF Inv, TypeOK, Destroy
  <1>7. CASE TakeFocus(c)
    <2>1. Sound(state')
      BY <1>1, <1>7, TakeFocusSame, FrameState DEF Same
    <2> QED BY <1>1, <1>7, <2>1, TakeFocusSame DEF Inv, TypeOK
  <1> QED BY <1>2, <1>3, <1>4, <1>5, <1>6, <1>7

-----------------------------------------------------------------------------
(* Start, restart, end *)

\* A restart begins with empty lists and no active client.
LEMMA StartedSound ==
  ASSUME NEW s \in WindowStates, NEW scr \in Screen
  PROVE  Sound(Started(s, scr))
  <1> DEFINE t == Started(s, scr)
  <1>1. 0 \in 0 .. DesktopCount - 1 /\ NoName \in Name
    BY WindowStateAssumption
  <1> DEFINE group == [c \in Client |-> NULL]
             flags == [c \in Client |-> {}]
             mapped == [c \in Client |-> FALSE]
             clients == [g \in GroupId |-> << >>]
             name == [g \in GroupId |-> NoName]
             desktop == [g \in GroupId |-> NULL]
             groups == [d \in Desktop |-> << >>]
             index == [r \in Screen |-> 0]
             life == [c \in Client |-> IF s.life[c] = "alive" THEN "alive" ELSE "absent"]
  <1>2. /\ group \in [Client -> GroupId \cup {NULL}]
        /\ flags \in [Client -> SUBSET Flag]
        /\ mapped \in [Client -> BOOLEAN]
        /\ clients \in [GroupId -> Seq(Client)]
        /\ name \in [GroupId -> Name]
        /\ desktop \in [GroupId -> Desktop \cup {NULL}]
        /\ groups \in [Desktop -> Seq(GroupId)]
        /\ index \in [Screen -> 0 .. DesktopCount - 1]
        /\ life \in [Client -> {"absent", "alive", "zombie"}]
    BY <1>1
  <1>3. t = [s EXCEPT !.group = group, !.flags = flags, !.mapped = mapped,
                      !.clients = clients, !.name = name, !.desktop = desktop,
                      !.groups = groups, !.desktop_index = index, !.active = scr,
                      !.focus = NULL, !.life = life]
    BY DEF Started
  <1> HIDE DEF t, group, flags, mapped, clients, name, desktop, groups, index, life
  <1>4. /\ t \in WindowStates
        /\ t.group = group
        /\ t.flags = flags
        /\ t.clients = clients
        /\ t.desktop = desktop
        /\ t.groups = groups
    BY <1>2, <1>3 DEF WindowStates
  <1>5. Linked(t) /\ With(t, "ACTIVE") = {}
    BY <1>4, WindowStateAssumption
    DEF Linked, With, Range, IsInjective, group, flags, clients, desktop, groups
  <1> QED BY <1>4, <1>5 DEF Sound, t

\* What a window that appears or is looked at becomes: a client, and perhaps the active one.
Taken(s, t, c) ==
  /\ Sound(t)
  /\ t.group[c] # NULL
  /\ \A b \in Client \ {c} : t.group[b] = NULL <=> s.group[b] = NULL
  /\ t.life = s.life
  /\ \/ With(t, "ACTIVE") = {c}
     \/ With(t, "ACTIVE") = With(s, "ACTIVE") /\ t.netActive = s.netActive

\* A window without a client is not active, so that client_init takes nothing from anybody.
LEMMA InitTaken ==
  ASSUME NEW s, Sound(s), NEW c \in Client, s.group[c] = NULL, NEW scr \in Screen
  PROVE  Taken(s, client_init(s, c, scr), c)
  <1>1. c \notin With(s, "ACTIVE")
    BY DEF Sound
  <1> DEFINE t == client_init(s, c, scr)
  <1>2. /\ Sound(t)
        /\ t.group[c] # NULL
        /\ t.life = s.life
        /\ t.netActive = s.netActive
        /\ With(t, "ACTIVE") = With(s, "ACTIVE") \ {c}
        /\ \A b \in Client \ {c} : t.group[b] = s.group[b]
    BY InitSound
  <1> HIDE DEF t
  <1>3. With(t, "ACTIVE") = With(s, "ACTIVE")
    BY <1>1, <1>2
  <1>4. Taken(s, t, c)
    BY <1>2, <1>3 DEF Taken
  <1> QED BY <1>4 DEF t

\* Handing it to a screen, showing it and activating it take nothing back.
LEMMA AdoptTaken ==
  ASSUME NEW s, NEW t, NEW c \in Client, Taken(s, t, c), NEW scr \in Screen
  PROVE  Taken(s, screen_adopt(t, scr, c), c)
  <1>1. Sound(t)
    BY DEF Taken
  <1> DEFINE u == screen_adopt(t, scr, c)
  <1>2. /\ Sound(u)
        /\ u.group[c] # NULL
        /\ u.flags = t.flags
        /\ u.netActive = t.netActive
        /\ u.life = t.life
        /\ \A b \in Client \ {c} : u.group[b] = t.group[b]
    BY <1>1, AdoptSound
  <1> HIDE DEF u
  <1>3. Taken(s, u, c)
    BY <1>2 DEF Taken, With
  <1> QED BY <1>3 DEF u

\* A state that is the same for clients and groups has what the other has taken.
LEMMA SameTaken ==
  ASSUME NEW s, NEW t, NEW u \in WindowStates, NEW c \in Client, Taken(s, t, c), Same(t, u)
  PROVE  Taken(s, u, c)
  BY Frame DEF Taken, Same, Dropped

\* Activating the client takes nothing more.
LEMMA ActivateTaken ==
  ASSUME NEW s, NEW t, NEW c \in Client, Taken(s, t, c), NEW requeue \in BOOLEAN
  PROVE  Taken(s, client_activate(t, c, requeue), c)
  <1>1. Sound(t) /\ t.group[c] # NULL
    BY DEF Taken
  <1> DEFINE u == client_activate(t, c, requeue)
  <1>2. /\ Sound(u)
        /\ u.group = t.group
        /\ u.life = t.life
        /\ With(u, "ACTIVE") = {c}
    BY <1>1, ActivateSound
  <1> HIDE DEF u
  <1>3. Taken(s, u, c)
    BY <1>2 DEF Taken
  <1> QED BY <1>3 DEF u

\* Nor does moving its group to the end.
LEMMA ToTailTaken ==
  ASSUME NEW s, NEW t, NEW c \in Client, Taken(s, t, c)
  PROVE  Taken(s, GroupToTail(t, t.group[c]), c)
  <1>1. Sound(t) /\ t.group[c] # NULL
    BY DEF Taken
  <1>2. t.group[c] \in GroupId /\ t.desktop[t.group[c]] # NULL
    BY <1>1, GroupHasDesktop DEF Sound
  <1> DEFINE u == GroupToTail(t, t.group[c])
  <1>3. Sound(u) /\ Reordered(t, u)
    BY <1>1, <1>2, GroupToTailSound
  <1> HIDE DEF u
  <1>4. Taken(s, u, c)
    BY <1>3 DEF Taken, Reordered, With
  <1> QED BY <1>4 DEF u

\* state_update_clients makes a client of a window it finds.
LEMMA UpdateClientsTaken ==
  ASSUME Inv, NEW c \in Client, state_update_clients(c), Alive(state, c), state.group[c] = NULL
  PROVE  Taken(state, state', c)
  <1>1. Sound(state)
    BY DEF Inv
  <1>2. PICK scr \in Screen :
          LET s == client_init(state, c, scr)
          IN  \/ state' = s
              \/ state' = client_activate(s, c, FALSE)
    BY DEF state_update_clients
  <1> DEFINE s == client_init(state, c, scr)
  <1>3. Taken(state, s, c)
    BY <1>1, InitTaken
  <1>4. state' = s \/ state' = client_activate(s, c, FALSE)
    BY <1>2
  <1> HIDE DEF s
  <1> QED BY <1>3, <1>4, ActivateTaken

\* Managing a window that was there at the start keeps the invariant.
LEMMA UpdateClientsInv ==
  ASSUME Inv, NEW c \in Client, state_update_clients(c)
  PROVE  Inv'
  <1>1. state \in WindowStates /\ Sound(state) /\ TypeOK
    BY DEF Inv, Sound
  <1>2. CASE ~Alive(state, c)
    BY <1>1, <1>2 DEF state_update_clients, Inv, TypeOK
  <1>3. CASE Alive(state, c)
    <2>1. PICK scr \in Screen :
            LET s == client_init(state, c, scr)
            IN  \/ state' = s
                \/ state' = client_activate(s, c, FALSE)
      BY <1>3 DEF state_update_clients
    <2> DEFINE s == client_init(state, c, scr)
    <2>2. Sound(s) /\ s.group[c] # NULL
      BY <1>1, InitSound
    <2> HIDE DEF s
    <2>3. Sound(client_activate(s, c, FALSE))
      BY <2>2, ActivateSound
    <2>4. Sound(state')
      BY <2>1, <2>2, <2>3 DEF s
    <2> QED BY <1>1, <2>4 DEF state_update_clients, Inv, TypeOK, Sound
  <1> QED BY <1>2, <1>3

\* Start, restart and end keep the invariant.
LEMMA MainInv ==
  ASSUME Inv, Main
  PROVE  Inv'
  <1>1. state \in WindowStates /\ Sound(state) /\ TypeOK
    BY DEF Inv, Sound
  <1>2. ASSUME NEW c \in Client, state_update_clients(c) PROVE Inv'
    BY <1>2, UpdateClientsInv
  <1>3. CASE main_enter_loop
    <2>1. state' \in WindowStates /\ Dropped(state, state')
      BY <1>1, <1>3, CurrentDesktopSame DEF main_enter_loop, Same
    <2>2. Sound(state')
      BY <1>1, <2>1, FrameState
    <2> QED BY <1>1, <1>3, <2>1, <2>2 DEF Inv, TypeOK, main_enter_loop
  <1>4. CASE main_leave_loop
    <2>1. Sound(state')
      BY <1>1, <1>4, StartedSound DEF main_leave_loop
    <2> QED BY <1>1, <1>4, <2>1 DEF Inv, TypeOK, main_leave_loop, Sound, AliveIn
  <1>5. CASE signal_handler
    BY <1>1, <1>5 DEF Inv, TypeOK, signal_handler
  <1> QED BY <1>2, <1>3, <1>4, <1>5 DEF Main

-----------------------------------------------------------------------------
(* The functions that keys and buttons are bound to *)

\* What the functions do to clients and activation: from s to t nobody becomes or stops
\* being a client, and somebody stays active.
Onward(s, t) ==
  /\ \A c \in Client : t.group[c] = NULL <=> s.group[c] = NULL
  /\ StaysActive(s, t)

\* What they do to windows: at most that of one client is destroyed, and its DestroyNotify
\* arrives.
Ended(s) ==
  \/ state'.life = s.life /\ queue' = queue
  \/ \E c \in Client : /\ s.group[c] # NULL /\ Alive(s, c)
                        /\ state'.life = [s.life EXCEPT ![c] = "absent"]
                        /\ queue' = queue \cup {<<"DestroyNotify", c>>}

\* What such a function leaves behind when it is called in s: the invariant, and whatever
\* the handler sets after it.  One that does not return leaves everything.
Kept(s) ==
  /\ Sound(state')
  /\ Onward(s, state') \/ state' = state
  /\ wm_state' \in {"IDLE", "RUNNING", "RESTART", "QUIT", "EXITED", "HUNG", "CRASHED"}
  /\ queue' \subseteq {"MapRequest", "DestroyNotify"} \X Client
  /\ s.life = state.life => Ended(s)

\* Leaving lists and activation alone leads onward.
LEMMA SameOnward ==
  ASSUME NEW s, NEW t, Same(s, t)
  PROVE  Onward(s, t)
  BY DEF Same, Dropped, Onward, StaysActive

\* So does activating somebody.
LEMMA ActivateOnward ==
  ASSUME NEW s, NEW t, t.group = s.group, StaysActive(s, t)
  PROVE  Onward(s, t)
  BY DEF Onward

\* Activating a client keeps the invariant and drops no client.
LEMMA ClientActivateOnward ==
  ASSUME NEW s, Sound(s), NEW c \in Client, s.group[c] # NULL, NEW requeue \in BOOLEAN
  PROVE  /\ Sound(client_activate(s, c, requeue))
         /\ Onward(s, client_activate(s, c, requeue))
         /\ client_activate(s, c, requeue).life = s.life
  <1> DEFINE t == client_activate(s, c, requeue)
  <1>1. /\ Sound(t)
        /\ t.group = s.group
        /\ t.life = s.life
        /\ With(t, "ACTIVE") = {c}
    BY ActivateSound
  <1> HIDE DEF t
  <1>2. Onward(s, t)
    BY <1>1, ActivateOnward DEF StaysActive
  <1> QED BY <1>1, <1>2 DEF t

\* And what comes next may lead further onward.
LEMMA OnwardThen ==
  ASSUME NEW s, NEW t, NEW u, Same(s, t), Onward(t, u)
  PROVE  Onward(s, u)
  BY DEF Same, Dropped, Onward, StaysActive

\* A function that hands back a sound state keeps the invariant.
LEMMA ContinueKept ==
  ASSUME Inv, NEW s, NEW t, Sound(t), Onward(s, t), t.life = s.life, Continue(t)
  PROVE  Kept(s)
  BY DEF Inv, Continue, Kept, TypeOK, Ended

\* So does one that leaves lists and activation alone.
LEMMA ContinueSameKept ==
  ASSUME Inv, NEW s, Sound(s), NEW t \in WindowStates, Same(s, t), Continue(t)
  PROVE  Kept(s)
  BY Frame, SameOnward, ContinueKept DEF Same

\* And one that does nothing.
LEMMA ContinueIdleKept ==
  ASSUME Inv, NEW s, Sound(s), Continue(s)
  PROVE  Kept(s)
  BY SameReflexive, SameOnward, ContinueKept

\* A function that does not return leaves the state as it found it.
LEMMA StopKept ==
  ASSUME Inv, NEW s, NEW how \in {"HUNG", "CRASHED"}, Stop(how)
  PROVE  Kept(s)
  BY DEF Inv, Stop, Kept, TypeOK, Ended

\* group-cycle activates a group that is on the desktop it was offered from.
LEMMA GroupCycleKept ==
  ASSUME Inv, NEW s, Sound(s), NEW scr \in Screen, function_group_cycle(s, scr)
  PROVE  Kept(s)
  <1> DEFINE d == CurrentDesktop(s, scr)
             offered == {h \in Range(s.groups[d]) : group_can_activate(s, h)}
  <1>1. d \in Desktop /\ s.groups[d] \in Seq(GroupId)
    BY DEF CurrentDesktop, Desktop, Sound, WindowStates
  <1>2. \/ Continue(s)
        \/ \E g \in Range(s.groups[d]) : Continue(group_activate(s, g))
    BY DEF function_group_cycle
  <1> HIDE DEF d
  <1>3. ASSUME NEW g \in Range(s.groups[d])
        PROVE  /\ Sound(group_activate(s, g)) /\ Onward(s, group_activate(s, g))
               /\ group_activate(s, g).life = s.life
    <2>1. g \in GroupId
      BY <1>1 DEF Range
    <2>2. s.desktop[g] # NULL
      BY <1>1, <2>1, WindowStateAssumption DEF Sound, Linked
    <2> QED BY <2>1, <2>2, GroupActivateSound, ActivateOnward
  <1> QED BY <1>2, <1>3, ContinueKept, ContinueIdleKept

\* menu-windows shows and activates a client of the same group.
LEMMA MenuWindowsKept ==
  ASSUME Inv, NEW s, Sound(s), NEW c \in Client, s.group[c] # NULL,
         function_menu_windows(s, c)
  PROVE  Kept(s)
  <1> DEFINE g == s.group[c]
             Shown(w) == IF "HIDDEN" \in s.flags[w] THEN client_show(s, w) ELSE s
  <1>1. g \in GroupId /\ s.clients[g] \in Seq(Client)
    BY GroupHasDesktop DEF Sound, WindowStates
  <1>2. \/ Continue(s)
        \/ Stop("CRASHED")
        \/ \E w \in Range(s.clients[g]) : Continue(client_activate(Shown(w), w, TRUE))
    BY DEF function_menu_windows
  <1>3. ASSUME NEW w \in Range(s.clients[g])
        PROVE  /\ Sound(client_activate(Shown(w), w, TRUE))
               /\ Onward(s, client_activate(Shown(w), w, TRUE))
               /\ client_activate(Shown(w), w, TRUE).life = s.life
    <2>1. w \in Client
      BY <1>1 DEF Range
    <2>2. s.group[w] # NULL
      BY <1>1, <2>1, WindowStateAssumption DEF Sound, Linked
    <2>3. Shown(w) \in WindowStates /\ Same(s, Shown(w))
      BY <2>1, ShowSame, SameReflexive DEF Sound
    <2> HIDE DEF Shown
    <2>4. Sound(Shown(w)) /\ Shown(w).group[w] # NULL
      BY <2>2, <2>3, Frame DEF Same, Dropped
    <2>5. /\ Sound(client_activate(Shown(w), w, TRUE))
          /\ Onward(Shown(w), client_activate(Shown(w), w, TRUE))
          /\ client_activate(Shown(w), w, TRUE).life = Shown(w).life
      BY <2>1, <2>4, ClientActivateOnward
    <2> QED BY <2>3, <2>5, OnwardThen DEF Same
  <1> HIDE DEF Shown
  <1> QED BY <1>2, <1>3, ContinueKept, ContinueIdleKept, StopKept

\* A search that gives a client gives one of the queue.
LEMMA CycleFromFound ==
  ASSUME NEW q \in Seq(Client), NEW c \in Range(q), NEW ignored,
         CycleFrom(q, c, ignored) \in Client
  PROVE  CycleFrom(q, c, ignored) \in Range(q)
  <1> DEFINE at == CHOOSE i \in DOMAIN q : q[i] = c
  <1>1. at \in 1 .. Len(q) /\ Len(q) \in Nat /\ DOMAIN q = 1 .. Len(q)
    BY DEF Range
  <1> HIDE DEF at
  <1>2. 1 \in DOMAIN q /\ (at < Len(q) => at + 1 \in DOMAIN q)
    BY <1>1
  <1>3. q[1] \in Range(q) /\ (at < Len(q) => q[at + 1] \in Range(q))
    BY <1>2 DEF Range
  <1>4. at < Len(q) \/ at = Len(q)
    <2>1. \A n \in Nat : \A i \in 1 .. n : i < n \/ i = n
      OBVIOUS
    <2> QED BY <2>1, <1>1, Zenon
  <1>5. CycleFrom(q, c, ignored) \in {Never, NULL} \cup Range(q)
    BY <1>3, <1>4 DEF CycleFrom, at
  <1> QED BY <1>5, WindowStateAssumption

\* client_next and client_previous give clients that have a group.
LEMMA NextFound ==
  ASSUME NEW s, Sound(s), NEW c \in Client, s.group[c] # NULL
  PROVE  /\ client_next(s, c) \in Client => s.group[client_next(s, c)] # NULL
         /\ client_previous(s, c) \in Client => s.group[client_previous(s, c)] # NULL
  <1> DEFINE g == s.group[c]
             q == s.clients[g]
             r == [i \in DOMAIN q |-> q[Len(q) + 1 - i]]
  <1>1. g \in GroupId /\ q \in Seq(Client)
    BY GroupHasDesktop DEF Sound, WindowStates
  <1>2. c \in Range(q)
    BY <1>1 DEF Sound, Linked
  <1>3. \A b \in Range(q) : b \in Client /\ s.group[b] # NULL
    <2> SUFFICES ASSUME NEW b \in Range(q) PROVE b \in Client /\ s.group[b] # NULL
      OBVIOUS
    <2>1. b \in Client
      BY <1>1 DEF Range
    <2> QED BY <2>1, <1>1, WindowStateAssumption DEF Sound, Linked
  <1>4. client_next(s, c) = CycleFrom(q, c, With(s, "IGNORE"))
    BY DEF client_next
  <1>5. client_previous(s, c) = CycleFrom(r, c, With(s, "IGNORE"))
    BY DEF client_previous
  <1> HIDE DEF q
  <1>6. r \in Seq(Client) /\ DOMAIN r = 1 .. Len(q) /\ Len(q) \in Nat
    BY <1>1
  <1>7. \A i \in 1 .. Len(q) : /\ Len(q) + 1 - i \in 1 .. Len(q)
                               /\ r[i] = q[Len(q) + 1 - i]
                               /\ r[Len(q) + 1 - i] = q[i]
    BY <1>1
  <1> HIDE DEF r
  <1>8. Range(r) = Range(q)
    <2>1. DOMAIN q = 1 .. Len(q)
      BY <1>1
    <2>2. \A i \in DOMAIN r : r[i] \in Range(q)
      BY <2>1, <1>6, <1>7 DEF Range
    <2>3. \A i \in DOMAIN q : q[i] \in Range(r)
      BY <2>1, <1>6, <1>7 DEF Range
    <2> QED BY <2>2, <2>3 DEF Range
  <1> QED BY <1>1, <1>2, <1>3, <1>4, <1>5, <1>6, <1>8, CycleFromFound

\* window-cycle and window-rcycle activate such a client, or do not return.
LEMMA WindowCycleKept ==
  ASSUME Inv, NEW s, Sound(s), NEW c \in Client, s.group[c] # NULL,
         NEW flag, function_window_cycle(s, c, flag)
  PROVE  Kept(s)
  <1> DEFINE next == IF flag = 0 THEN client_next(s, c) ELSE client_previous(s, c)
  <1>1. next \in Client => s.group[next] # NULL
    BY NextFound
  <1>2. \/ next \in Client /\ Continue(client_activate(s, next, FALSE))
        \/ Stop("HUNG")
        \/ Stop("CRASHED")
    BY DEF function_window_cycle
  <1> HIDE DEF next
  <1>3. ASSUME next \in Client
        PROVE  /\ Sound(client_activate(s, next, FALSE))
               /\ Onward(s, client_activate(s, next, FALSE))
               /\ client_activate(s, next, FALSE).life = s.life
    BY <1>1, <1>3, ClientActivateOnward
  <1> QED BY <1>2, <1>3, ContinueKept, StopKept

\* window-close and _NET_CLOSE_WINDOW leave the client to the DestroyNotify.
LEMMA CloseKept ==
  ASSUME Inv, Listening, NEW s, Sound(s), NEW c \in Client, s.group[c] # NULL,
         client_close(s, c)
  PROVE  Kept(s)
  <1>1. CASE Continue(s)
    BY <1>1, ContinueIdleKept
  <1>2. CASE /\ Alive(s, c)
             /\ state' = Destroyed(s, c)
             /\ queue' = DestroyNotified(s, c)
             /\ UNCHANGED wm_state
    <2>1. /\ Destroyed(s, c) \in WindowStates
          /\ Dropped(s, Destroyed(s, c))
          /\ With(Destroyed(s, c), "ACTIVE") = With(s, "ACTIVE")
          /\ AliveIn(Destroyed(s, c)) = AliveIn(s) \ {c}
      BY DestroyedDropped DEF Sound
    <2>2. Sound(Destroyed(s, c))
      BY <2>1, FrameDropped
    <2>3. Onward(s, Destroyed(s, c))
      BY <2>1 DEF Onward, Dropped, StaysActive
    <2>4. Ended(s)
      <3>1. c \in Managed(s)
        BY ManagedHasGroup DEF Sound
      <3>2. state'.life = [s.life EXCEPT ![c] = "absent"]
        BY <1>2 DEF Destroyed, Sound, WindowStates
      <3> QED BY <1>2, <3>1, <3>2 DEF Ended, DestroyNotified
    <2> QED BY <1>2, <2>2, <2>3, <2>4, DestroyNotifiedType DEF Inv, Kept, TypeOK
  <1> QED BY <1>1, <1>2 DEF client_close

\* A client that is adopted was one before.
LEMMA AdoptOnward ==
  ASSUME NEW s, Sound(s), NEW c \in Client, s.group[c] # NULL, NEW scr \in Screen
  PROVE  /\ Sound(screen_adopt(s, scr, c)) /\ Onward(s, screen_adopt(s, scr, c))
         /\ screen_adopt(s, scr, c).life = s.life
  <1> DEFINE t == screen_adopt(s, scr, c)
  <1>1. /\ Sound(t)
        /\ t.group[c] # NULL
        /\ t.flags = s.flags
        /\ t.netActive = s.netActive
        /\ t.life = s.life
        /\ \A b \in Client \ {c} : t.group[b] = s.group[b]
    BY AdoptSound
  <1> HIDE DEF t
  <1>2. Onward(s, t)
    BY <1>1 DEF Onward, StaysActive, With
  <1> QED BY <1>1, <1>2 DEF t

\* Moving a window may give it to another screen.
LEMMA MoveKept ==
  ASSUME Inv, NEW s, Sound(s), NEW c \in Client, s.group[c] # NULL,
         \/ function_window_move(s, c)
         \/ function_window_move_to_screen(s, c)
         \/ function_window_resize(s, c)
  PROVE  Kept(s)
  <1>1. ASSUME NEW moved \in BOOLEAN
        PROVE  /\ client_move_resize(s, c, moved) \in WindowStates
               /\ Same(s, client_move_resize(s, c, moved))
               /\ Sound(client_move_resize(s, c, moved))
    BY MoveResizeSame, Frame DEF Sound
  <1>2. CASE function_window_move(s, c)
    <2>1. PICK moved \in BOOLEAN, scr \in Screen :
            LET dropped == client_move_resize(s, c, moved)
            IN  Continue(dropped) \/ Continue(screen_adopt(dropped, scr, c))
      BY <1>2 DEF function_window_move
    <2> DEFINE dropped == client_move_resize(s, c, moved)
    <2>2. Sound(dropped) /\ dropped \in WindowStates /\ Same(s, dropped)
      BY <1>1
    <2>3. Continue(dropped) \/ Continue(screen_adopt(dropped, scr, c))
      BY <2>1
    <2> HIDE DEF dropped
    <2>4. dropped.group[c] # NULL
      BY <2>2 DEF Same, Dropped
    <2>5. /\ Sound(screen_adopt(dropped, scr, c)) /\ Onward(s, screen_adopt(dropped, scr, c))
          /\ screen_adopt(dropped, scr, c).life = s.life
      BY <2>2, <2>4, AdoptOnward, OnwardThen DEF Same
    <2> QED BY <2>2, <2>3, <2>5, ContinueKept, ContinueSameKept
  <1>3. CASE function_window_move_to_screen(s, c)
    <2>1. \/ Continue(s)
          \/ \E scr \in Screen : Continue(screen_adopt(s, scr, c))
      BY <1>3 DEF function_window_move_to_screen
    <2>2. \A scr \in Screen : /\ Sound(screen_adopt(s, scr, c))
                              /\ Onward(s, screen_adopt(s, scr, c))
                              /\ screen_adopt(s, scr, c).life = s.life
      BY AdoptOnward
    <2> QED BY <2>1, <2>2, ContinueKept, ContinueIdleKept
  <1>4. CASE function_window_resize(s, c)
    <2>1. \E moved \in BOOLEAN : Continue(client_move_resize(s, c, moved))
      BY <1>4 DEF function_window_resize
    <2> QED BY <1>1, <2>1, ContinueSameKept
  <1> QED BY <1>2, <1>3, <1>4

\* Every command with BINDING_CONTEXT_CLIENT keeps the invariant on a client that has a
\* group.
LEMMA OnClientKept ==
  ASSUME Inv, Listening, NEW s, Sound(s), NEW c \in Client, s.group[c] # NULL, NEW tag,
         OnClient(s, tag, c)
  PROVE  Kept(s)
  <1>0. s \in WindowStates
    BY DEF Sound
  <1>1. CASE function_menu_windows(s, c)
    BY <1>1, MenuWindowsKept
  <1>2. CASE client_close(s, c)
    BY <1>2, CloseKept
  <1>3. CASE function_window_cycle(s, c, 0) \/ function_window_cycle(s, c, 1)
    BY <1>3, WindowCycleKept
  <1>4. CASE \/ function_window_move(s, c)
             \/ function_window_move_to_screen(s, c)
             \/ function_window_resize(s, c)
    BY <1>4, MoveKept
  <1>5. CASE \/ function_window_center(s, c)
             \/ function_window_tile(s, c)
             \/ Continue(client_restore(s, c))
    <2>1. Continue(client_move_resize(s, c, TRUE))
      BY <1>5 DEF function_window_center, function_window_tile, client_restore
    <2>2. /\ client_move_resize(s, c, TRUE) \in WindowStates
          /\ Same(s, client_move_resize(s, c, TRUE))
      BY <1>0, MoveResizeSame
    <2> QED BY <2>1, <2>2, ContinueSameKept
  <1>6. CASE Continue(client_toggle_fullscreen(s, c))
    BY <1>0, <1>6, ToggleFullscreenSame, ContinueSameKept
  <1>7. CASE Continue(client_hide(s, c))
    BY <1>0, <1>7, HideSame, ContinueSameKept
  <1>8. CASE Continue(client_toggle_maximize(s, c))
    BY <1>0, <1>8, ToggleMaximizeSame, ContinueSameKept
  <1> QED BY <1>1, <1>2, <1>3, <1>4, <1>5, <1>6, <1>7, <1>8 DEF OnClient

\* So does every command that name_to_func knows.
LEMMA RunKept ==
  ASSUME Inv, Listening, NEW s, Sound(s), NEW c \in Client \cup {NULL},
         c # NULL => s.group[c] # NULL, NEW scr \in Screen, NEW tag, Run(s, tag, c, scr)
  PROVE  Kept(s)
  <1>1. CASE c # NULL /\ OnClient(s, tag, c)
    BY <1>1, OnClientKept
  <1>2. CASE function_group_cycle(s, scr)
    BY <1>2, GroupCycleKept
  <1>3. CASE function_wm_state(s, "RESTART") \/ function_wm_state(s, "QUIT")
    <2>1. state' = s /\ queue' = queue /\ wm_state' \in {"RESTART", "QUIT"}
      BY <1>3 DEF function_wm_state
    <2>2. Onward(s, s)
      BY SameReflexive, SameOnward
    <2> QED BY <2>1, <2>2 DEF Kept, Inv, TypeOK, Ended
  <1> QED BY <1>1, <1>2, <1>3 DEF Run

-----------------------------------------------------------------------------
(* The event handlers *)

\* A MapRequest makes a client if there is none, and activates it.
LEMMA MapRequestTaken ==
  ASSUME Inv, NEW c \in Client, event_handle_map_request(c)
  PROVE  \/ state' = state
         \/ /\ c \in Managed(state) \/ Alive(state, c)
            /\ Taken(state, state', c)
  <1>1. state \in WindowStates /\ Sound(state)
    BY DEF Inv, Sound
  <1>2. state' = state \/ c \in Managed(state) \/ Alive(state, c)
    BY DEF event_handle_map_request
  <1>3. CASE state' # state
    <2> DEFINE Known(scr) == IF c \in Managed(state) THEN state
                             ELSE screen_adopt(client_init(state, c, scr), ScreenCount, c)
    <2>1. PICK scr \in Screen :
            LET shown == client_show([Known(scr) EXCEPT !.mapped[c] = TRUE], c)
                taken == IF "IGNORE" \in shown.flags[c] THEN shown
                         ELSE client_activate(shown, c, TRUE)
            IN  state' = GroupToTail(taken, taken.group[c])
      BY <1>3 DEF event_handle_map_request
    <2> DEFINE known == Known(scr)
               mapped == [known EXCEPT !.mapped[c] = TRUE]
               shown == client_show(mapped, c)
               taken == IF "IGNORE" \in shown.flags[c] THEN shown
                        ELSE client_activate(shown, c, TRUE)
    <2>2. state' = GroupToTail(taken, taken.group[c])
      BY <2>1
    <2>3. Taken(state, known, c)
      <3>1. CASE c \in Managed(state)
        BY <1>1, <3>1, ManagedHasGroup DEF Sound, Taken
      <3>2. CASE c \notin Managed(state)
        <4>1. state.group[c] = NULL
          BY <1>1, <3>2, ManagedHasGroup DEF Sound
        <4>2. Taken(state, client_init(state, c, scr), c)
          BY <1>1, <4>1, InitTaken
        <4>3. ScreenCount \in Screen
          BY WindowStateAssumption DEF Screen
        <4> QED BY <3>2, <4>2, <4>3, AdoptTaken
      <3> QED BY <3>1, <3>2
    <2> HIDE DEF known
    <2>4. mapped \in WindowStates /\ Same(known, mapped)
      BY <2>3 DEF Taken, Sound, WindowStates, Same, Dropped, With
    <2>5. Taken(state, mapped, c)
      BY <2>3, <2>4, SameTaken
    <2> HIDE DEF mapped
    <2>6. Taken(state, shown, c)
      BY <2>4, <2>5, ShowSame, SameTaken
    <2> HIDE DEF shown
    <2>7. Taken(state, taken, c)
      BY <2>6, ActivateTaken
    <2> HIDE DEF taken
    <2>8. Taken(state, state', c)
      BY <2>2, <2>7, ToTailTaken
    <2> QED BY <1>2, <1>3, <2>8
  <1> QED BY <1>3

\* MapRequest keeps the invariant.
LEMMA MapRequestInv ==
  ASSUME Inv, NEW c \in Client, event_handle_map_request(c)
  PROVE  Inv'
  <1>1. Sound(state')
    BY MapRequestTaken DEF Taken, Inv
  <1>2. /\ wm_state' = wm_state /\ windows' = windows
        /\ queue' \subseteq queue
    BY DEF event_handle_map_request, XNextEvent
  <1> QED BY <1>1, <1>2 DEF Inv, TypeOK, Sound

\* A DestroyNotify removes the client.
LEMMA DestroyNotifyInv ==
  ASSUME Inv, NEW c \in Client, event_handle_destroy_notify(c)
  PROVE  Inv'
  <1>1. state \in WindowStates /\ Sound(state) /\ TypeOK
    BY DEF Inv, Sound
  <1>2. c \in Managed(state) => state.group[c] # NULL
    BY <1>1, ManagedHasGroup DEF Sound
  <1>3. Sound(state')
    BY <1>1, <1>2, RemoveSound DEF event_handle_destroy_notify
  <1> QED BY <1>1, <1>3 DEF event_handle_destroy_notify, XNextEvent, Inv, TypeOK, Sound

\* A PropertyNotify changes a name or a flag, and neither lists nor activation.
LEMMA PropertyNotifySame ==
  ASSUME Inv, NEW c \in Client, event_handle_property_notify(c)
  PROVE  state' \in WindowStates /\ Same(state, state')
  <1>1. state \in WindowStates /\ Sound(state) /\ TypeOK
    BY DEF Inv, Sound
  <1>2. state.group[c] # NULL
    BY <1>1, ManagedHasGroup DEF Sound, event_handle_property_notify
  <1> QED BY <1>1, <1>2, UpdateNameSame, UpdateHintsSame DEF event_handle_property_notify

\* PropertyNotify keeps the invariant.
LEMMA PropertyNotifyInv ==
  ASSUME Inv, NEW c \in Client, event_handle_property_notify(c)
  PROVE  Inv'
  <1>1. Sound(state) /\ TypeOK
    BY DEF Inv
  <1>2. state' \in WindowStates /\ Same(state, state')
    BY PropertyNotifySame
  <1>3. Sound(state')
    BY <1>1, <1>2, Frame
  <1> QED BY <1>1, <1>2, <1>3 DEF event_handle_property_notify, Inv, TypeOK

\* What keys, clicks and pagers do to clients, activation and windows: as Onward, except
\* that a switch of desktops and a click on the root may leave nobody active.  Pagers then
\* keep what they were told.
Chosen(s, t) ==
  /\ \A c \in Client : t.group[c] = NULL <=> s.group[c] = NULL
  /\ With(t, "ACTIVE") = {} => t.netActive = s.netActive

\* What the handler of a key, a button or a client message leaves behind.
Selects ==
  /\ Sound(state')
  /\ Chosen(state, state')
  /\ wm_state' \in {"IDLE", "RUNNING", "RESTART", "QUIT", "EXITED", "HUNG", "CRASHED"}
  /\ queue' \subseteq {"MapRequest", "DestroyNotify"} \X Client
  /\ windows' = windows
  /\ Listening
  /\ Ended(state)

\* Waiting for an event keeps the invariant.
LEMMA SelectsInv ==
  ASSUME Inv, Selects
  PROVE  Inv'
  BY DEF Inv, Selects, TypeOK, Sound

\* A handler that deactivates or activates somebody and then calls a function selects.
LEMMA KeptSelects ==
  ASSUME Inv, Listening, NEW s, Chosen(state, s), s.life = state.life, Kept(s),
         windows' = windows
  PROVE  Selects
  <1>0. Ended(state)
    <2>1. ASSUME NEW c \in Client PROVE s.group[c] # NULL <=> state.group[c] # NULL
      BY DEF Chosen
    <2> QED BY <2>1 DEF Kept, Ended, Alive
  <1>1. CASE state' = state
    BY <1>0, <1>1 DEF Kept, Selects, Chosen
  <1>2. CASE Onward(s, state')
    <2>1. Chosen(state, state')
      BY <1>2 DEF Chosen, Onward, StaysActive
    <2> QED BY <1>0, <2>1 DEF Kept, Selects
  <1> QED BY <1>1, <1>2 DEF Kept

\* A key acts on the active client, which has a group.
LEMMA KeyPressSelects ==
  ASSUME Inv, NEW tag, event_handle_key_press(tag)
  PROVE  Selects
  <1> DEFINE c   == client_find_active(state)
             scr == IF c = NULL THEN state.active ELSE DesktopOf(state, c)[1]
  <1>1. state \in WindowStates /\ Sound(state)
    BY DEF Inv, Sound
  <1>2. c \in Client \cup {NULL} /\ (c # NULL => state.group[c] # NULL)
    BY <1>1, FindActive
  <1> HIDE DEF c
  <1>3. scr \in Screen
    <2>1. CASE c = NULL
      BY <1>1, <2>1 DEF WindowStates
    <2>2. CASE c # NULL
      <3>1. DesktopOf(state, c) \in Desktop
        BY <1>1, <1>2, <2>2, GroupHasDesktop DEF DesktopOf, Sound
      <3> QED BY <2>2, <3>1 DEF Desktop
    <2> QED BY <2>1, <2>2
  <1>4. Run(state, tag, c, scr) /\ windows' = windows /\ Listening
    BY DEF event_handle_key_press, c
  <1> HIDE DEF scr
  <1>5. Kept(state)
    BY <1>1, <1>2, <1>3, <1>4, RunKept
  <1>6. Chosen(state, state)
    BY DEF Chosen
  <1> QED BY <1>4, <1>5, <1>6, KeptSelects

\* A button activates the client under the pointer or deactivates the active one, and
\* then acts.
LEMMA ButtonPressSelects ==
  ASSUME Inv, NEW w \in Client \cup {NULL}, NEW scr \in Screen,
         event_handle_button_press(w, scr)
  PROVE  Selects
  <1> DEFINE c      == IF w \in Managed(state) THEN w ELSE NULL
             tapped == screen_activate(state, scr)
             active == client_find_active(tapped)
             s      == IF c = NULL
                       THEN IF active = NULL THEN tapped ELSE client_deactivate(tapped, active)
                       ELSE IF tapped.flags[c] \cap {"ACTIVE", "IGNORE"} # {} THEN tapped
                       ELSE client_activate(tapped, c, TRUE)
  <1>1. state \in WindowStates /\ Sound(state)
    BY DEF Inv, Sound
  <1>2. c \in Client \cup {NULL} /\ (c # NULL => state.group[c] # NULL)
    BY <1>1, ManagedHasGroup DEF Sound
  <1>3. /\ windows' = windows /\ Listening
        /\ \/ Continue(s)
           \/ \E tag \in MouseBindings : Run(s, tag, c, scr)
    BY DEF event_handle_button_press
  <1> HIDE DEF c
  <1>4. tapped \in WindowStates /\ Same(state, tapped)
    BY <1>1 DEF screen_activate, WindowStates, Same, Dropped, With
  <1> HIDE DEF tapped
  <1>5. Sound(tapped) /\ tapped.group = state.group /\ tapped.life = state.life
    BY <1>1, <1>4, Frame DEF Same, Dropped
  <1>6. active \in Client \cup {NULL}
    BY <1>5, FindActive
  <1> HIDE DEF active
  <1>7. /\ Sound(s)
        /\ s.group = state.group
        /\ s.life = state.life
        /\ With(s, "ACTIVE") = {} => s.netActive = state.netActive
    <2>1. CASE s = tapped
      BY <1>4, <1>5, <2>1 DEF Same, Dropped
    <2>2. CASE active # NULL /\ s = client_deactivate(tapped, active)
      <3>1. s \in WindowStates /\ s.life = tapped.life /\ Dropped(tapped, s)
        BY <1>5, <1>6, <2>2, DeactivateDropped
      <3>2. Sound(s)
        BY <1>5, <3>1, FrameDropped
      <3> QED BY <1>4, <1>5, <3>1, <3>2 DEF Same, Dropped
    <2>3. CASE c # NULL /\ s = client_activate(tapped, c, TRUE)
      <3> DEFINE t == client_activate(tapped, c, TRUE)
      <3>1. c \in Client /\ tapped.group[c] # NULL
        BY <1>2, <1>5, <2>3
      <3>2. Sound(t) /\ t.group = tapped.group /\ t.life = tapped.life /\ With(t, "ACTIVE") = {c}
        BY <1>5, <3>1, ActivateSound
      <3> HIDE DEF t
      <3>3. s = t
        BY <2>3 DEF t
      <3> HIDE DEF s
      <3> QED BY <1>5, <3>2, <3>3
    <2> QED BY <2>1, <2>2, <2>3
  <1> HIDE DEF s
  <1>8. Kept(s)
    <2>1. CASE Continue(s)
      BY <1>7, <2>1, ContinueIdleKept
    <2>2. ASSUME NEW tag \in MouseBindings, Run(s, tag, c, scr) PROVE Kept(s)
      BY <1>2, <1>3, <1>7, <2>2, RunKept
    <2> QED BY <1>3, <2>1, <2>2
  <1>9. Chosen(state, s)
    BY <1>7 DEF Chosen
  <1> QED BY <1>3, <1>7, <1>8, <1>9, KeptSelects

\* A client message acts on a client that client_find has found, or switches desktops.
LEMMA ClientMessageSelects ==
  ASSUME Inv, event_handle_client_message
  PROVE  Selects
  <1>1. state \in WindowStates /\ Sound(state)
    BY DEF Inv, Sound
  <1>2. windows' = windows /\ Listening
    BY DEF event_handle_client_message
  <1>3. Chosen(state, state)
    BY DEF Chosen
  <1>4. ASSUME NEW c \in Managed(state),
               \/ Continue(client_hide(state, c))
               \/ client_close(state, c)
               \/ Continue(client_show(state, c))
               \/ \E action \in {"ADD", "REMOVE", "TOGGLE"}, i, j \in DOMAIN Handlers :
                    Continue(ewmh_handle_net_wm_state_message(state, c, action, i, j))
        PROVE  Selects
    <2>1. c \in Client /\ state.group[c] # NULL
      BY <1>1, ManagedHasGroup DEF Managed, Sound
    <2>2. CASE Continue(client_hide(state, c))
      BY <1>1, <2>1, <2>2, HideSame, ContinueSameKept, <1>2, <1>3, KeptSelects
    <2>3. CASE client_close(state, c)
      BY <1>1, <1>2, <2>1, <2>3, CloseKept, <1>3, KeptSelects
    <2>4. CASE Continue(client_show(state, c))
      BY <1>1, <2>1, <2>4, ShowSame, ContinueSameKept, <1>2, <1>3, KeptSelects
    <2>5. ASSUME NEW action, NEW i \in DOMAIN Handlers, NEW j \in DOMAIN Handlers,
                 Continue(ewmh_handle_net_wm_state_message(state, c, action, i, j))
          PROVE  Selects
      BY <1>1, <2>1, <2>5, StateMessageSame, ContinueSameKept, <1>2, <1>3, KeptSelects
    <2> QED BY <1>4, <2>2, <2>3, <2>4, <2>5
  <1>5. ASSUME NEW index \in DesktopIndices, desktop_switch_to_index(index)
        PROVE  Selects
    <2> DEFINE i == index - (state.active - 1) * DesktopCount
    <2>1. CASE i \in 0 .. DesktopCount - 1 /\ Continue(SwitchTo(state, i))
      <3>1. /\ Sound(SwitchTo(state, i))
            /\ Chosen(state, SwitchTo(state, i))
            /\ SwitchTo(state, i).life = state.life
        BY <1>1, <2>1, SwitchSound DEF Chosen
      <3>2. Kept(SwitchTo(state, i))
        BY <2>1, <3>1, ContinueIdleKept
      <3> QED BY <1>2, <3>1, <3>2, KeptSelects
    <2>2. CASE Stop("CRASHED")
      BY <1>2, <1>3, <2>2, StopKept, KeptSelects
    <2> QED BY <1>5, <2>1, <2>2 DEF desktop_switch_to_index
  <1> QED BY <1>4, <1>5 DEF event_handle_client_message

-----------------------------------------------------------------------------
(* Every step, and the theorems *)

\* Every step keeps the invariant.
LEMMA NextInv == Inv /\ [Next]_vars => Inv'
  <1> SUFFICES ASSUME Inv, [Next]_vars PROVE Inv'
    OBVIOUS
  <1>1. CASE Owners
    BY <1>1, OwnersInv
  <1>2. CASE Main
    BY <1>2, MainInv
  <1>3. CASE Events
    BY <1>3, MapRequestInv, DestroyNotifyInv, PropertyNotifyInv, KeyPressSelects,
       ButtonPressSelects, ClientMessageSelects, SelectsInv DEF Events
  <1>4. CASE UNCHANGED vars
    BY <1>4 DEF vars, Inv, TypeOK
  <1> QED BY <1>1, <1>2, <1>3, <1>4 DEF Next

\* The invariant holds in every reachable state.
LEMMA InvHolds == Spec => []Inv
  BY InitInv, NextInv, PTL DEF Spec

\* Types: no event takes state_t out of the values declared for it, whatever is bound to
\* keys and buttons and whatever pagers ask for.
THEOREM TypeCorrect == Spec => []TypeOK
  <1>1. Inv => TypeOK
    BY DEF Inv
  <1> QED BY <1>1, InvHolds, PTL

\* The lists of clients, groups and desktops agree with the pointers after every event,
\* so no TAILQ_REMOVE is done on a list the element is not on.
THEOREM ListsAlwaysAgree == Spec => []ListsAgree
  <1>1. Inv => ListsAgree
    BY DEF Inv, Sound, ListsAgree
  <1> QED BY <1>1, InvHolds, PTL

\* There is never a second client with CLIENT_ACTIVE.
THEOREM ActiveIsUnique == Spec => []AtMostOneActive
  <1>1. Inv => AtMostOneActive
    BY DEF Inv, Sound, AtMostOneActive
  <1> QED BY <1>1, InvHolds, PTL

\* The client with CLIENT_ACTIVE is on a list, so key commands act on one that exists.
THEOREM ActiveIsOnAList == Spec => []ActiveIsManaged
  <1>1. Inv => ActiveIsManaged
    BY ManagedHasGroup DEF Inv, Sound, ActiveIsManaged, With
  <1> QED BY <1>1, InvHolds, PTL

\* _NET_ACTIVE_WINDOW names the client with CLIENT_ACTIVE whenever there is one.
THEOREM ActiveIsPublished == Spec => []ActivePublished
  <1>1. Inv => ActivePublished
    BY DEF Inv, Sound, ActivePublished
  <1> QED BY <1>1, InvHolds, PTL

-----------------------------------------------------------------------------
(* MagnetWM implements ActiveClient.  That a client is let go only after its window is    *)
(* gone, and made only of a window that has none, rests on what waits in windows and      *)
(* queue; the rest on the soundness of the lists.                                         *)

\* What waits is what it seems: a window that state_update_clients has still to visit has
\* no client, and a window whose DestroyNotify waits is gone.  Clients are of windows that
\* exist, are zombies or are waited for.
Waiting ==
  /\ \A c \in windows : state.group[c] = NULL
  /\ Listening => windows = {}
  /\ \A c \in Client :
       /\ <<"DestroyNotify", c>> \in queue => state.life[c] = "absent"
       /\ state.group[c] # NULL => state.life[c] # "absent" \/ <<"DestroyNotify", c>> \in queue
       /\ state.life[c] = "zombie" => state.group[c] # NULL

-----------------------------------------------------------------------------
(* The refinement mapping *)

\* Under the invariant the mapping reads the group pointers and two properties only.
LEMMA Mapping ==
  ASSUME NEW s, Sound(s)
  PROVE  /\ Managed(s) = {c \in Client : s.group[c] # NULL}
         /\ client_find_active(s) \in Client \cup {NULL}
         /\ client_find_active(s) = IF With(s, "ACTIVE") = {} THEN NULL ELSE s.netActive
         /\ client_find_active(s) = NULL => With(s, "ACTIVE") = {}
         /\ client_find_active(s) # NULL => client_find_active(s) \in Managed(s)
  <1>1. s \in WindowStates /\ Linked(s) /\ With(s, "ACTIVE") \subseteq {s.netActive}
    BY DEF Sound
  <1>2. Managed(s) = {c \in Client : s.group[c] # NULL}
    BY <1>1, ManagedHasGroup DEF Managed
  <1>3. /\ client_find_active(s) \in Client \cup {NULL}
        /\ With(s, "ACTIVE") = {} => client_find_active(s) = NULL
        /\ With(s, "ACTIVE") # {} => With(s, "ACTIVE") = {client_find_active(s)}
        /\ client_find_active(s) # NULL => s.group[client_find_active(s)] # NULL
    BY FindActive
  <1>4. NULL \notin Client /\ With(s, "ACTIVE") \subseteq Client
    BY WindowStateAssumption DEF With
  <1> QED BY <1>1, <1>2, <1>3, <1>4

\* The same lists, activation and windows are the same state of the session.
LEMMA SameMapped ==
  ASSUME NEW s, Sound(s), NEW t, Sound(t), Same(s, t)
  PROVE  /\ AliveIn(t) = AliveIn(s)
         /\ Managed(t) = Managed(s)
         /\ client_find_active(t) = client_find_active(s)
         /\ t.netActive = s.netActive
  <1>1. AliveIn(t) = AliveIn(s)
    BY DEF Same, AliveIn, Alive
  <1> QED BY <1>1, Mapping DEF Same, Dropped

-----------------------------------------------------------------------------
(* The owners of the windows *)

\* A window that is created or destroyed is all that changes.
LEMMA OwnersRefine ==
  ASSUME Inv, Inv', Owners
  PROVE  [Session!Next]_(Session!vars)
  <1>1. Sound(state) /\ Sound(state') /\ state \in WindowStates
    BY DEF Inv, Sound
  <1>2. PICK c \in Client : Create(c) \/ RequestMap(c) \/ Withdraw(c) \/ Destroy(c) \/ TakeFocus(c)
    BY DEF Owners
  <1>3. CASE RequestMap(c) \/ Withdraw(c) \/ TakeFocus(c)
    <2>1. Same(state, state')
      BY <1>1, <1>3, MapSame, SameReflexive, TakeFocusSame DEF RequestMap, Withdraw
    <2> QED BY <1>1, <2>1, SameMapped DEF Session!vars
  <1>4. CASE Create(c) \/ Destroy(c)
    <2>1. /\ Dropped(state, state')
          /\ With(state', "ACTIVE") = With(state, "ACTIVE")
          /\ AliveIn(state') \in {AliveIn(state) \cup {c}, AliveIn(state) \ {c}}
      <3>1. CASE Create(c)
        <4>1. PICK atoms \in InitialStates :
                state' = [state EXCEPT !.life[c] = "alive", !.netState[c] = atoms]
          BY <3>1 DEF Create
        <4> QED BY <1>1, <4>1 DEF WindowStates, Dropped, With, AliveIn, Alive
      <3>2. CASE Destroy(c)
        BY <1>1, <3>2, DestroyedDropped DEF Destroy
      <3> QED BY <1>4, <3>1, <3>2
    <2>2. /\ Managed(state') = Managed(state)
          /\ client_find_active(state') = client_find_active(state)
          /\ state'.netActive = state.netActive
      BY <1>1, <2>1, Mapping DEF Dropped
    <2>3. Session!Own(c)
      BY <2>1, <2>2 DEF Session!Own
    <2> QED BY <2>3 DEF Session!Next
  <1> QED BY <1>2, <1>3, <1>4

-----------------------------------------------------------------------------
(* Clients that come and go *)

\* A window that is taken without having had a client is adopted.
LEMMA TakenAdopts ==
  ASSUME Inv, NEW c \in Client, c \notin Managed(state), Alive(state, c),
         Taken(state, state', c)
  PROVE  Session!Adopt(c)
  <1>1. Sound(state) /\ Sound(state')
    BY DEF Inv, Taken
  <1>2. AliveIn(state') = AliveIn(state) /\ c \in AliveIn(state)
    BY DEF Taken, AliveIn, Alive
  <1>3. Managed(state') = Managed(state) \cup {c}
    BY <1>1, Mapping DEF Taken
  <1>4. /\ client_find_active(state') \in {client_find_active(state), c}
        /\ state'.netActive = IF client_find_active(state') = NULL THEN state.netActive
                              ELSE client_find_active(state')
    <2>1. CASE With(state', "ACTIVE") = {c}
      <3>1. client_find_active(state') = c /\ state'.netActive = c
        BY <1>1, <2>1, Mapping DEF Sound
      <3> QED BY <3>1, WindowStateAssumption
    <2>2. CASE With(state', "ACTIVE") = With(state, "ACTIVE") /\ state'.netActive = state.netActive
      BY <1>1, <2>2, Mapping
    <2> QED BY <2>1, <2>2 DEF Taken
  <1> QED BY <1>2, <1>3, <1>4 DEF Session!Adopt, Session!Activate

\* A client that asks to be mapped again is selected.
LEMMA TakenSelects ==
  ASSUME Inv, NEW c \in Client, c \in Managed(state), Taken(state, state', c)
  PROVE  Session!Select
  <1>1. Sound(state) /\ Sound(state')
    BY DEF Inv, Taken
  <1>2. AliveIn(state') = AliveIn(state)
    BY DEF Taken, AliveIn, Alive
  <1>3. Managed(state') = Managed(state)
    BY <1>1, Mapping DEF Taken
  <1>4. /\ client_find_active(state') \in Managed(state) \cup {NULL}
        /\ state'.netActive = IF client_find_active(state') = NULL THEN state.netActive
                              ELSE client_find_active(state')
    BY <1>1, <1>3, Mapping DEF Taken
  <1> QED BY <1>2, <1>3, <1>4 DEF Session!Select, Session!Activate

\* A client is let go after its window, and another one is active if it was.
LEMMA RemoveForgets ==
  ASSUME Inv, Waiting, NEW c \in Managed(state), event_handle_destroy_notify(c)
  PROVE  Session!Forget(c)
  <1>1. Sound(state) /\ c \in Client /\ state.group[c] # NULL
    BY Mapping DEF Inv, Managed
  <1>2. state' = client_remove(state, c) /\ ~Alive(state, c)
    BY <1>1 DEF event_handle_destroy_notify, XNextEvent, Waiting, Alive
  <1>3. /\ Sound(state')
        /\ state'.group = [state.group EXCEPT ![c] = NULL]
        /\ state'.life = state.life
        /\ With(state', "ACTIVE") = {} =>
             With(state, "ACTIVE") \subseteq {c} /\ state'.netActive = state.netActive
    BY <1>1, <1>2, RemoveSound
  <1>4. AliveIn(state') = AliveIn(state) /\ c \notin AliveIn(state)
    BY <1>2, <1>3 DEF AliveIn, Alive
  <1>5. Managed(state') = Managed(state) \ {c}
    <2>1. state.group \in [Client -> GroupId \cup {NULL}]
      BY <1>1 DEF Sound, WindowStates
    <2> QED BY <1>1, <1>3, <2>1, Mapping
  <1>6. client_find_active(state') = NULL => client_find_active(state) \in {c, NULL}
    <2>1. NULL \notin Client
      BY WindowStateAssumption
    <2>2. client_find_active(state') = NULL => With(state', "ACTIVE") = {}
      BY <1>3, <2>1, FindActive DEF With
    <2>3. With(state, "ACTIVE") \subseteq {c} => client_find_active(state) \in {c, NULL}
      BY <1>1, FindActive
    <2> QED BY <1>3, <2>2, <2>3
  <1>7. /\ client_find_active(state') \in Managed(state') \cup {NULL}
        /\ state'.netActive = IF client_find_active(state') = NULL THEN state.netActive
                              ELSE client_find_active(state')
    BY <1>3, Mapping
  <1> QED BY <1>1, <1>4, <1>5, <1>6, <1>7 DEF Session!Forget, Session!Activate

-----------------------------------------------------------------------------
(* Events, start, restart and end *)

\* Keys, clicks and pagers select, and perhaps destroy the window of a client.
LEMMA SelectsRefine ==
  ASSUME Inv, Selects
  PROVE  Session!Select
  <1>1. Sound(state) /\ Sound(state') /\ Chosen(state, state')
    BY DEF Inv, Selects
  <1>2. Managed(state') = Managed(state)
    BY <1>1, Mapping DEF Chosen
  <1>3. \/ AliveIn(state') = AliveIn(state)
        \/ \E c \in Managed(state) : AliveIn(state') = AliveIn(state) \ {c}
    <2>1. CASE state'.life = state.life
      BY <2>1 DEF AliveIn, Alive
    <2>2. ASSUME NEW c \in Client, state.group[c] # NULL,
                 state'.life = [state.life EXCEPT ![c] = "absent"]
          PROVE  c \in Managed(state) /\ AliveIn(state') = AliveIn(state) \ {c}
      <3>1. c \in Managed(state)
        BY <1>1, <2>2, Mapping
      <3>2. AliveIn(state') = AliveIn(state) \ {c}
        BY <1>1, <2>2 DEF AliveIn, Alive, Sound, WindowStates
      <3> QED BY <3>1, <3>2
    <2> QED BY <2>1, <2>2 DEF Selects, Ended
  <1>4. /\ client_find_active(state') \in Managed(state) \cup {NULL}
        /\ state'.netActive = IF client_find_active(state') = NULL THEN state.netActive
                              ELSE client_find_active(state')
    BY <1>1, <1>2, Mapping DEF Chosen
  <1> QED BY <1>2, <1>3, <1>4 DEF Session!Select, Session!Activate

\* Every event that is read is a step of the session, or none.
LEMMA EventsRefine ==
  ASSUME Inv, Waiting, Events
  PROVE  [Session!Next]_(Session!vars)
  <1>1. ASSUME NEW c \in Client, event_handle_map_request(c)
        PROVE  [Session!Next]_(Session!vars)
    <2>1. CASE state' = state
      BY <2>1 DEF Session!vars
    <2>2. CASE Taken(state, state', c) /\ c \in Managed(state)
      BY <2>2, TakenSelects DEF Session!Next
    <2>3. CASE Taken(state, state', c) /\ c \notin Managed(state) /\ Alive(state, c)
      BY <2>3, TakenAdopts DEF Session!Next
    <2> QED BY <1>1, <2>1, <2>2, <2>3, MapRequestTaken
  <1>2. ASSUME NEW c \in Client, event_handle_destroy_notify(c)
        PROVE  [Session!Next]_(Session!vars)
    <2>1. CASE c \in Managed(state)
      BY <1>2, <2>1, RemoveForgets DEF Session!Next
    <2>2. CASE c \notin Managed(state)
      BY <1>2, <2>2 DEF event_handle_destroy_notify, Session!vars
    <2> QED BY <2>1, <2>2
  <1>3. ASSUME NEW c \in Client, event_handle_property_notify(c)
        PROVE  [Session!Next]_(Session!vars)
    <2>1. Sound(state) /\ Sound(state') /\ Same(state, state')
      BY <1>3, PropertyNotifySame, Frame DEF Inv
    <2> QED BY <2>1, SameMapped DEF Session!vars
  <1>4. CASE Selects
    BY <1>4, SelectsRefine DEF Session!Next
  <1> QED
    BY <1>1, <1>2, <1>3, <1>4, KeyPressSelects, ButtonPressSelects, ClientMessageSelects
    DEF Events

\* A new process begins without clients, and adopts them one by one.
LEMMA MainRefine ==
  ASSUME Inv, Inv', Waiting, Main
  PROVE  [Session!Next]_(Session!vars)
  <1>1. Sound(state) /\ Sound(state') /\ state \in WindowStates
    BY DEF Inv, Sound
  <1>2. ASSUME NEW c \in Client, state_update_clients(c)
        PROVE  [Session!Next]_(Session!vars)
    <2>1. CASE ~Alive(state, c)
      BY <1>2, <2>1 DEF state_update_clients, Session!vars
    <2>2. CASE Alive(state, c)
      <3>1. state.group[c] = NULL
        BY <1>2 DEF state_update_clients, Waiting
      <3>2. Taken(state, state', c)
        BY <1>2, <2>2, <3>1, UpdateClientsTaken
      <3>3. c \notin Managed(state)
        BY <1>1, <3>1, Mapping
      <3> QED BY <2>2, <3>2, <3>3, TakenAdopts DEF Session!Next
    <2> QED BY <2>1, <2>2
  <1>3. CASE main_enter_loop
    <2>1. Same(state, state')
      BY <1>1, <1>3, CurrentDesktopSame DEF main_enter_loop
    <2> QED BY <1>1, <2>1, SameMapped DEF Session!vars
  <1>4. CASE state' = state
    BY <1>4 DEF Session!vars
  <1>5. ASSUME NEW scr \in Screen, state' = Started(state, scr)
        PROVE  Session!Restart
    <2>1. /\ \A c \in Client : state'.group[c] = NULL
          /\ state'.netActive = state.netActive
          /\ With(state', "ACTIVE") = {}
          /\ AliveIn(state') = AliveIn(state)
      BY <1>1, <1>5 DEF Started, WindowStates, With, AliveIn, Alive
    <2>2. Managed(state') = {} /\ client_find_active(state') = NULL
      BY <1>1, <2>1, Mapping
    <2> QED BY <2>1, <2>2 DEF Session!Restart
  <1> QED BY <1>2, <1>3, <1>4, <1>5 DEF Main, main_leave_loop, signal_handler, Session!Next

-----------------------------------------------------------------------------
(* What waits *)

\* Nothing waits at the start.
LEMMA InitWaiting == Init => Waiting
  <1> SUFFICES ASSUME Init PROVE Waiting
    OBVIOUS
  <1>1. \A c \in Client : state.group[c] = NULL /\ state.life[c] \in {"alive", "absent"}
    BY DEF Init
  <1> QED BY <1>1 DEF Init, Waiting, Listening, AliveIn

\* An event that is read takes something off the queue, or adds the DestroyNotify of a
\* window that it has destroyed; the windows were visited before.
LEMMA EventsWaiting ==
  ASSUME Inv, Waiting, Events
  PROVE  Waiting'
  <1>0. Sound(state) /\ \A c \in Client : c \in Managed(state) <=> state.group[c] # NULL
    BY Mapping DEF Inv
  <1>1. windows = {}
    BY DEF Events, Waiting, Listening, event_handle_map_request, event_handle_destroy_notify,
           event_handle_property_notify, event_handle_key_press, event_handle_button_press,
           event_handle_client_message, XNextEvent
  <1>2. ASSUME NEW c \in Client, event_handle_map_request(c) PROVE Waiting'
    <2>1. /\ windows' = windows /\ queue' = queue \ {<<"MapRequest", c>>}
      BY <1>2 DEF event_handle_map_request, XNextEvent
    <2>2. \A b \in Client : <<"DestroyNotify", b>> \in queue' <=> <<"DestroyNotify", b>> \in queue
      BY <2>1
    <2>3. CASE state' = state
      BY <1>1, <2>1, <2>2, <2>3 DEF Waiting
    <2>4. CASE Taken(state, state', c) /\ (c \in Managed(state) \/ Alive(state, c))
      <3>1. \A b \in Client : state'.group[b] # NULL <=> state.group[b] # NULL \/ b = c
        BY <2>4 DEF Taken
      <3>2. state'.life = state.life /\ (state.group[c] = NULL => state.life[c] = "alive")
        BY <1>0, <2>4 DEF Taken, Alive
      <3> QED BY <1>1, <2>1, <2>2, <3>1, <3>2 DEF Waiting
    <2> QED BY <1>2, <2>3, <2>4, MapRequestTaken
  <1>3. ASSUME NEW c \in Client, event_handle_destroy_notify(c) PROVE Waiting'
    <2>1. /\ windows' = windows /\ queue' = queue \ {<<"DestroyNotify", c>>}
          /\ state.life[c] = "absent"
      BY <1>3 DEF event_handle_destroy_notify, XNextEvent, Waiting
    <2>2. /\ state'.life = state.life /\ state'.group[c] = NULL
          /\ \A b \in Client \ {c} : state'.group[b] = state.group[b]
      <3>1. CASE c \in Managed(state)
        <4>1. state'.life = state.life /\ state'.group = [state.group EXCEPT ![c] = NULL]
          BY <1>0, <1>3, <3>1, RemoveSound DEF event_handle_destroy_notify
        <4> QED BY <1>0, <4>1 DEF Sound, WindowStates
      <3>2. CASE c \notin Managed(state)
        BY <1>0, <1>3, <3>2 DEF event_handle_destroy_notify
      <3> QED BY <3>1, <3>2
    <2> QED BY <1>1, <2>1, <2>2 DEF Waiting
  <1>4. ASSUME NEW c \in Client, event_handle_property_notify(c) PROVE Waiting'
    <2>1. state'.life = state.life /\ state'.group = state.group
      BY <1>4, PropertyNotifySame DEF Same, Dropped
    <2> QED BY <1>1, <1>4, <2>1 DEF event_handle_property_notify, Waiting
  <1>5. CASE Selects
    <2>1. /\ windows' = {}
          /\ \A c \in Client : state'.group[c] = NULL <=> state.group[c] = NULL
      BY <1>1, <1>5 DEF Selects, Chosen
    <2>2. CASE state'.life = state.life /\ queue' = queue
      BY <2>1, <2>2 DEF Waiting
    <2>3. ASSUME NEW c \in Client, state.group[c] # NULL, Alive(state, c),
                 state'.life = [state.life EXCEPT ![c] = "absent"],
                 queue' = queue \cup {<<"DestroyNotify", c>>}
          PROVE  Waiting'
      <3>1. /\ state'.life[c] = "absent" /\ <<"DestroyNotify", c>> \in queue'
            /\ \A b \in Client \ {c} :
                 /\ state'.life[b] = state.life[b]
                 /\ <<"DestroyNotify", b>> \in queue' <=> <<"DestroyNotify", b>> \in queue
        BY <1>0, <2>3 DEF Sound, WindowStates
      <3> QED BY <2>1, <3>1 DEF Waiting
    <2> QED BY <1>5, <2>2, <2>3 DEF Selects, Ended
  <1> QED
    BY <1>2, <1>3, <1>4, <1>5, KeyPressSelects, ButtonPressSelects, ClientMessageSelects
    DEF Events

\* What owners do is waited for, or nobody needs to wait for it.
LEMMA OwnersWaiting ==
  ASSUME Inv, Waiting, Owners
  PROVE  Waiting'
  <1>1. Sound(state) /\ state \in WindowStates
    BY DEF Inv, Sound
  <1>2. PICK c \in Client : Create(c) \/ RequestMap(c) \/ Withdraw(c) \/ Destroy(c) \/ TakeFocus(c)
    BY DEF Owners
  <1>3. CASE Create(c)
    <2>1. PICK atoms \in InitialStates :
            state' = [state EXCEPT !.life[c] = "alive", !.netState[c] = atoms]
      BY <1>3 DEF Create
    <2>2. /\ state'.group = state.group /\ state'.life[c] = "alive"
          /\ \A b \in Client \ {c} : state'.life[b] = state.life[b]
      BY <1>1, <2>1 DEF WindowStates
    <2>3. <<"DestroyNotify", c>> \notin queue
      BY <1>3 DEF Create, Pending
    <2> QED BY <1>3, <2>2, <2>3 DEF Create, Waiting, Listening
  <1>4. CASE RequestMap(c) \/ Withdraw(c)
    <2>1. state'.group = state.group /\ state'.life = state.life
      BY <1>1, <1>4, MapSame DEF RequestMap, Withdraw, Same, Dropped
    <2>2. \A b \in Client : <<"DestroyNotify", b>> \in queue' <=> <<"DestroyNotify", b>> \in queue
      BY <1>4 DEF RequestMap, Withdraw
    <2>3. windows' = windows /\ wm_state' = wm_state
      BY <1>4 DEF RequestMap, Withdraw
    <2> QED BY <2>1, <2>2, <2>3 DEF Waiting, Listening
  <1>5. CASE Destroy(c)
    <2>1. /\ state'.group = state.group
          /\ \A b \in Client \ {c} : state'.life[b] = state.life[b]
          /\ state'.life[c] = IF ~Listening /\ c \in Managed(state) THEN "zombie" ELSE "absent"
      BY <1>1, <1>5 DEF Destroy, Destroyed, WindowStates
    <2>2. c \in Managed(state) <=> state.group[c] # NULL
      BY <1>1, Mapping
    <2>3. /\ windows' = windows /\ wm_state' = wm_state
          /\ queue \subseteq queue' /\ queue' \subseteq queue \cup {<<"DestroyNotify", c>>}
          /\ Listening /\ c \in Managed(state) => <<"DestroyNotify", c>> \in queue'
          /\ ~Listening => queue' = queue
      BY <1>5 DEF Destroy, DestroyNotified
    <2>4. <<"DestroyNotify", c>> \notin queue
      BY <1>5 DEF Destroy, Waiting, Alive
    <2> QED BY <2>1, <2>2, <2>3, <2>4 DEF Waiting, Listening
  <1>6. CASE TakeFocus(c)
    <2>1. state'.group = state.group /\ state'.life = state.life
      BY <1>1, <1>6, TakeFocusSame DEF Same, Dropped
    <2> QED BY <1>1, <1>6, <2>1, TakeFocusSame DEF Waiting, Listening
  <1> QED BY <1>2, <1>3, <1>4, <1>5, <1>6

\* Nothing else makes a window wait that has a client, or an event that says too much.
LEMMA NextWaiting ==
  ASSUME Inv, Waiting, [Next]_vars
  PROVE  Waiting'
  <1>1. Sound(state) /\ state \in WindowStates
    BY DEF Inv, Sound
  <1>2. ASSUME NEW c \in Client, state_update_clients(c) PROVE Waiting'
    <2>1. CASE state' = state
      BY <1>2, <2>1 DEF state_update_clients, Waiting, Listening
    <2>2. CASE Alive(state, c)
      <3>1. Taken(state, state', c) /\ windows \subseteq Client
        BY <1>2, <2>2, UpdateClientsTaken DEF state_update_clients, Waiting, Inv, TypeOK
      <3>2. /\ state'.life = state.life /\ state.life[c] = "alive"
            /\ \A b \in Client : state'.group[b] # NULL <=> state.group[b] # NULL \/ b = c
        BY <2>2, <3>1 DEF Taken, Alive
      <3> QED BY <1>2, <3>1, <3>2 DEF state_update_clients, Waiting, Listening
    <2> QED BY <1>2, <2>1, <2>2 DEF state_update_clients
  <1>3. CASE main_enter_loop
    <2>1. state'.group = state.group /\ state'.life = state.life
      BY <1>1, <1>3, CurrentDesktopSame DEF main_enter_loop, Same, Dropped
    <2> QED BY <1>3, <2>1 DEF main_enter_loop, Waiting, Listening
  <1>4. CASE main_leave_loop
    <2>1. CASE UNCHANGED <<state, windows, queue>> /\ wm_state' = "EXITED"
      BY <2>1 DEF Waiting, Listening
    <2>2. ASSUME NEW scr \in Screen, state' = Started(state, scr), wm_state' = "IDLE",
                 windows' = AliveIn(state), queue' = {}
          PROVE  Waiting'
      <3>1. \A c \in Client : /\ state'.group[c] = NULL
                              /\ state'.life[c] \in {"alive", "absent"}
        BY <1>1, <2>2 DEF Started, WindowStates
      <3>2. AliveIn(state) \subseteq Client
        BY DEF AliveIn
      <3> QED BY <2>2, <3>1, <3>2 DEF Waiting, Listening
    <2> QED BY <1>4, <2>1, <2>2 DEF main_leave_loop
  <1>5. CASE signal_handler \/ UNCHANGED vars
    BY <1>5 DEF signal_handler, vars, Waiting, Listening
  <1> QED
    BY <1>2, <1>3, <1>4, <1>5, EventsWaiting, OwnersWaiting DEF Next, Main

\* ClientsHaveWindows: a client stands for a window that exists, or existed until a
\* DestroyNotify that waits; only windows destroyed behind the back of state_init stay.
THEOREM ClientsAlwaysHaveWindows == Spec => []ClientsHaveWindows
  <1>1. Inv /\ Waiting /\ [Next]_vars => (Inv /\ Waiting)'
    BY NextInv, NextWaiting
  <1>2. ASSUME Inv, Waiting PROVE ClientsHaveWindows
    <2>1. \A c \in Client : c \in Managed(state) <=> state.group[c] # NULL
      BY <1>2, Mapping DEF Inv
    <2> QED BY <1>2, <2>1 DEF Waiting, ClientsHaveWindows
  <1> QED BY <1>1, <1>2, InitInv, InitWaiting, PTL DEF Spec

-----------------------------------------------------------------------------

\* The session starts without clients and without an active one.
LEMMA InitRefines == Init => Session!Init
  <1> SUFFICES ASSUME Init PROVE Session!Init
    OBVIOUS
  <1>1. Sound(state)
    BY InitInv DEF Inv
  <1>2. /\ \A c \in Client : state.group[c] = NULL
        /\ With(state, "ACTIVE") = {}
        /\ state.netActive = NULL
    BY DEF Init, With
  <1>3. Managed(state) = {} /\ client_find_active(state) = NULL
    BY <1>1, <1>2, Mapping
  <1> QED BY <1>2, <1>3 DEF Session!Init, AliveIn

\* A step of the program is one of ActiveClient, or none.
LEMMA NextRefines ==
  ASSUME Inv, Inv', Waiting, [Next]_vars
  PROVE  [Session!Next]_(Session!vars)
  <1>1. CASE UNCHANGED vars
    BY <1>1 DEF vars, Session!vars
  <1> QED BY <1>1, OwnersRefine, EventsRefine, MainRefine DEF Next

\* The window manager keeps what the session is promised: clients are windows adopted once
\* and forgotten only after they are gone, one at most is active, somebody stays active
\* when the active one goes, and pagers are told who was active last.
THEOREM Refinement == Spec => ImplementsActiveClient
  <1>1. Inv /\ Waiting /\ [Next]_vars => (Inv /\ Waiting)'
    BY NextInv, NextWaiting
  <1>2. Inv /\ Inv' /\ Waiting /\ [Next]_vars => [Session!Next]_(Session!vars)
    BY NextRefines
  <1> QED
    BY <1>1, <1>2, InitInv, InitWaiting, InitRefines, PTL DEF Spec, ImplementsActiveClient, Session!Spec

-----------------------------------------------------------------------------
(* What clients carry beside lists and activation *)

\* Whoever reads _NET_WM_STATE of c reads its flags, urgency aside.
Told(s, c) ==
  Alive(s, c) => s.netState[c] \ {"URGENCY"} = Published(s.flags[c]) \ {"URGENCY"}

\* No group takes its name from a title: client_update_wm_name does that to a group that has
\* none, which is one of windows without a class.
Labelled == "WM_NAME" \notin Properties \/ \A c \in Client : ClassOf[c] # NoName

\* No window of an ignored class is of type NORMAL.
Barred == \A w \in Normal : ClassOf[w] \notin Ignored

\* menu-windows offers the NORMAL windows of a group and does not ask what is ignored: either
\* there is no such window, or groups are of one class and the menu is of the active client.
Regular == Barred \/ (Labelled /\ "menu-windows" \notin MouseBindings)

\* From s to t nobody is taken for a client of another class, who was told the truth still is,
\* nobody who is ignored gets active, and groups keep their members and names.
Steady(s, t) ==
  /\ t.life = s.life
  /\ \A c \in Client :
       /\ "IGNORE" \in t.flags[c] <=> "IGNORE" \in s.flags[c]
       /\ Told(s, c) => Told(t, c)
       /\ Regular /\ "ACTIVE" \in t.flags[c] =>
            "ACTIVE" \in s.flags[c] \/ "IGNORE" \notin s.flags[c]
  /\ t.group = s.group /\ t.desktop = s.desktop /\ t.name = s.name

-----------------------------------------------------------------------------
(* Flags and what is published of them *)

\* What changes nothing is steady.
LEMMA SteadyReflexive == ASSUME NEW s PROVE Steady(s, s)
  BY DEF Steady

\* One steady step after another is steady.
LEMMA SteadyTransitive ==
  ASSUME NEW s, NEW t, NEW u, Steady(s, t), Steady(t, u)
  PROVE  Steady(s, u)
  BY DEF Steady

\* What touches neither flags, properties, groups nor names.
LEMMA UntouchedSteady ==
  ASSUME NEW s, NEW t, t.life = s.life, t.flags = s.flags, t.netState = s.netState,
         t.group = s.group, t.desktop = s.desktop, t.name = s.name
  PROVE  Steady(s, t)
  BY DEF Steady, Told, Alive

\* The names of the atoms that count.
Visible == {"STICKY", "HIDDEN", "SKIP_PAGER", "SKIP_TASKBAR", "FULLSCREEN",
            "VMAXIMIZED", "HMAXIMIZED"}

\* What is published depends on the flags that have an atom and on nothing else.
LEMMA PublishedSame ==
  ASSUME NEW F, NEW G, F \cap Visible = G \cap Visible
  PROVE  Published(F) \ {"URGENCY"} = Published(G) \ {"URGENCY"}
  <1>1. \A a \in Visible : a \in F <=> a \in G
    OBVIOUS
  <1> QED BY <1>1 DEF Published, Visible, Maximized

\* Flags that mean the same to pagers.
LEMMA QuietStep ==
  ASSUME NEW s \in WindowStates, NEW c \in Client, NEW F, NEW t,
         t.life = s.life, t.netState = s.netState, t.group = s.group,
         t.desktop = s.desktop, t.name = s.name, t.flags = [s.flags EXCEPT ![c] = F],
         F \cap Visible = s.flags[c] \cap Visible, "IGNORE" \in F <=> "IGNORE" \in s.flags[c],
         Regular /\ "ACTIVE" \in F => "ACTIVE" \in s.flags[c] \/ "IGNORE" \notin s.flags[c]
  PROVE  Steady(s, t)
  <1>1. t.flags[c] = F /\ \A b \in Client \ {c} : t.flags[b] = s.flags[b]
    BY DEF WindowStates
  <1>2. Published(F) \ {"URGENCY"} = Published(s.flags[c]) \ {"URGENCY"}
    BY PublishedSame
  <1> QED BY <1>1, <1>2 DEF Steady, Told, Alive

\* Changing flags of one client that mean the same to pagers is steady.
LEMMA QuietSteady ==
  ASSUME NEW s \in WindowStates, NEW c \in Client, NEW F,
         F \cap Visible = s.flags[c] \cap Visible, "IGNORE" \in F <=> "IGNORE" \in s.flags[c],
         Regular /\ "ACTIVE" \in F => "ACTIVE" \in s.flags[c] \/ "IGNORE" \notin s.flags[c]
  PROVE  Steady(s, SetFlags(s, c, F))
  <1> DEFINE t == SetFlags(s, c, F)
  <1>1. /\ t.life = s.life /\ t.netState = s.netState /\ t.group = s.group
        /\ t.desktop = s.desktop /\ t.name = s.name /\ t.flags = [s.flags EXCEPT ![c] = F]
    BY DEF SetFlags, WindowStates
  <1> HIDE DEF t
  <1>2. Steady(s, t)
    BY <1>1, QuietStep
  <1> QED BY <1>2 DEF t

\* Flags that are published.
LEMMA LoudSteady ==
  ASSUME NEW s \in WindowStates, NEW c \in Client, NEW F,
         "IGNORE" \in F <=> "IGNORE" \in s.flags[c],
         Regular /\ "ACTIVE" \in F => "ACTIVE" \in s.flags[c] \/ "IGNORE" \notin s.flags[c]
  PROVE  Steady(s, ewmh_set_net_wm_state(SetFlags(s, c, F), c))
  <1> DEFINE u == SetFlags(s, c, F)
             t == ewmh_set_net_wm_state(u, c)
  <1>1. /\ u.life = s.life /\ u.netState = s.netState /\ u.group = s.group
        /\ u.desktop = s.desktop /\ u.name = s.name
        /\ u.flags[c] = F /\ \A b \in Client \ {c} : u.flags[b] = s.flags[b]
        /\ u.netState \in [Client -> SUBSET Atom]
    BY DEF SetFlags, WindowStates
  <1>2. /\ t.life = u.life /\ t.flags = u.flags /\ t.group = u.group
        /\ t.desktop = u.desktop /\ t.name = u.name
        /\ \A b \in Client \ {c} : t.netState[b] = u.netState[b]
        /\ Alive(u, c) => t.netState[c] = Published(F)
    <2>1. u = [s EXCEPT !.flags[c] = F]
      BY DEF SetFlags
    <2> QED BY <1>1, <2>1 DEF ewmh_set_net_wm_state, WindowStates
  <1> HIDE DEF t, u
  <1>3. Steady(s, t)
    BY <1>1, <1>2 DEF Steady, Told, Alive
  <1> QED BY <1>3 DEF t, u

\* client_set_net_wm_state leaves its client told.
LEMMA PublishSteady ==
  ASSUME NEW s \in WindowStates, NEW c \in Client
  PROVE  Steady(s, ewmh_set_net_wm_state(s, c))
  <1>1. SetFlags(s, c, s.flags[c]) = s
    BY DEF SetFlags, WindowStates
  <1>2. Steady(s, ewmh_set_net_wm_state(SetFlags(s, c, s.flags[c]), c))
    BY LoudSteady
  <1> QED BY <1>1, <1>2

\* Mapping and unmapping.
LEMMA MapSteady ==
  ASSUME NEW s \in WindowStates, NEW c \in Client
  PROVE  Steady(s, XMapWindow(s, c)) /\ Steady(s, XUnmapWindow(s, c))
  <1>1. ASSUME NEW t \in {XMapWindow(s, c), XUnmapWindow(s, c)} PROVE Steady(s, t)
    <2>1. /\ t.life = s.life /\ t.flags = s.flags /\ t.netState = s.netState
          /\ t.group = s.group /\ t.desktop = s.desktop /\ t.name = s.name
      BY DEF XMapWindow, XUnmapWindow, WindowStates
    <2> QED BY <2>1, UntouchedSteady
  <1> QED BY <1>1

-----------------------------------------------------------------------------
(* The functions that change flags of one client *)

\* client_show and client_hide publish the flag that they change.
LEMMA ShowHideSteady ==
  ASSUME NEW s \in WindowStates, NEW c \in Client
  PROVE  Steady(s, client_show(s, c)) /\ Steady(s, client_hide(s, c))
  <1> DEFINE shown  == XMapWindow(s, c)
             hidden == XUnmapWindow(s, c)
             F == s.flags[c] \ {"HIDDEN"}
             G == s.flags[c] \cup {"HIDDEN"}
  <1>1. /\ shown \in WindowStates /\ shown.flags = s.flags /\ Steady(s, shown)
        /\ hidden \in WindowStates /\ hidden.flags = s.flags /\ Steady(s, hidden)
    BY MapSame, MapSteady
  <1>2. /\ "IGNORE" \in F <=> "IGNORE" \in s.flags[c]
        /\ "ACTIVE" \in F => "ACTIVE" \in s.flags[c]
        /\ "IGNORE" \in G <=> "IGNORE" \in s.flags[c]
        /\ "ACTIVE" \in G => "ACTIVE" \in s.flags[c]
    OBVIOUS
  <1> HIDE DEF shown, hidden, F, G
  <1>3. /\ Steady(shown, ewmh_set_net_wm_state(SetFlags(shown, c, F), c))
        /\ Steady(hidden, ewmh_set_net_wm_state(SetFlags(hidden, c, G), c))
    BY <1>1, <1>2, LoudSteady
  <1> QED BY <1>1, <1>3, SteadyTransitive DEF client_show, client_hide, shown, hidden, F, G

\* So do the functions that move a window or toggle something of it.
LEMMA MoveResizeSteady ==
  ASSUME NEW s \in WindowStates, NEW c \in Client, NEW reset \in BOOLEAN
  PROVE  Steady(s, client_move_resize(s, c, reset))
  <1> DEFINE F == s.flags[c] \ Maximized
  <1>1. /\ "IGNORE" \in F <=> "IGNORE" \in s.flags[c]
        /\ "ACTIVE" \in F => "ACTIVE" \in s.flags[c]
    BY DEF Maximized
  <1> HIDE DEF F
  <1>2. Steady(s, ewmh_set_net_wm_state(SetFlags(s, c, F), c))
    BY <1>1, LoudSteady
  <1> QED BY <1>2, SteadyReflexive DEF client_move_resize, F

\* client_toggle_fullscreen publishes what it changes.
LEMMA ToggleFullscreenSteady ==
  ASSUME NEW s \in WindowStates, NEW c \in Client
  PROVE  Steady(s, client_toggle_fullscreen(s, c))
  <1> DEFINE F == IF "FULLSCREEN" \in s.flags[c]
                  THEN s.flags[c] \ {"FULLSCREEN", "FREEZE"}
                  ELSE s.flags[c] \cup {"FULLSCREEN", "FREEZE"}
  <1>1. /\ "IGNORE" \in F <=> "IGNORE" \in s.flags[c]
        /\ "ACTIVE" \in F => "ACTIVE" \in s.flags[c]
    OBVIOUS
  <1> HIDE DEF F
  <1>2. Steady(s, ewmh_set_net_wm_state(SetFlags(s, c, F), c))
    BY <1>1, LoudSteady
  <1> QED BY <1>2, SteadyReflexive DEF client_toggle_fullscreen, F

\* client_toggle_maximize publishes what it changes.
LEMMA ToggleMaximizeSteady ==
  ASSUME NEW s \in WindowStates, NEW c \in Client
  PROVE  Steady(s, client_toggle_maximize(s, c))
  <1> DEFINE F == IF Maximized \subseteq s.flags[c]
                  THEN s.flags[c] \ Maximized
                  ELSE s.flags[c] \cup Maximized
  <1>1. /\ "IGNORE" \in F <=> "IGNORE" \in s.flags[c]
        /\ "ACTIVE" \in F => "ACTIVE" \in s.flags[c]
    BY DEF Maximized
  <1> HIDE DEF F
  <1>2. Steady(s, ewmh_set_net_wm_state(SetFlags(s, c, F), c))
    BY <1>1, LoudSteady
  <1> QED BY <1>2, SteadyReflexive DEF client_toggle_maximize, F

\* CLIENT_URGENCY is changed without a word, which Told allows.
LEMMA UrgentSteady ==
  ASSUME NEW s \in WindowStates, NEW c \in Client
  PROVE  /\ Steady(s, client_toggle_urgent(s, c))
         /\ Steady(s, client_update_wm_hints(s, c))
  <1> DEFINE F == s.flags[c] \cup {"URGENCY"}
  <1>1. /\ F \cap Visible = s.flags[c] \cap Visible
        /\ "IGNORE" \in F <=> "IGNORE" \in s.flags[c]
        /\ "ACTIVE" \in F => "ACTIVE" \in s.flags[c]
    BY DEF Visible
  <1> HIDE DEF F
  <1>2. Steady(s, SetFlags(s, c, F))
    BY <1>1, QuietSteady
  <1> QED BY <1>2, SteadyReflexive DEF client_toggle_urgent, client_update_wm_hints, F

\* A message toggles one or two of the eight atoms.
LEMMA ToggleSteady ==
  ASSUME NEW s \in WindowStates, NEW c \in Client, NEW atom \in Atom
  PROVE  Steady(s, Toggle(s, c, atom))
  <1>1. Steady(s, client_toggle_one_axis(s, c))
    BY PublishSteady, SteadyReflexive DEF client_toggle_one_axis
  <1>2. Steady(s, client_toggle_flag(s, c, atom))
    <2> DEFINE F == Flip(s.flags[c], {atom})
    <2>1. atom # "IGNORE" /\ atom # "ACTIVE"
      BY DEF Atom, Maximized
    <2>2. /\ "IGNORE" \in F <=> "IGNORE" \in s.flags[c]
          /\ "ACTIVE" \in F => "ACTIVE" \in s.flags[c]
      BY <2>1 DEF Flip
    <2> HIDE DEF F
    <2>3. Steady(s, ewmh_set_net_wm_state(SetFlags(s, c, F), c))
      BY <2>2, LoudSteady
    <2> QED BY <2>3 DEF client_toggle_flag, F
  <1> QED BY <1>1, <1>2, UrgentSteady, ToggleFullscreenSteady DEF Toggle

\* So does a _NET_WM_STATE message, whichever atoms it names.
LEMMA StateMessageSteady ==
  ASSUME NEW s \in WindowStates, NEW c \in Client, NEW action,
         NEW i \in DOMAIN Handlers, NEW j \in DOMAIN Handlers
  PROVE  Steady(s, ewmh_handle_net_wm_state_message(s, c, action, i, j))
  <1>1. Handlers[i] \in Atom /\ Handlers[j] \in Atom
    BY DEF Handlers, Atom, Maximized
  <1> DEFINE first  == HandleAtom(s, c, action, Handlers[i])
             second == HandleAtom(first, c, action, Handlers[j])
  <1>2. first \in WindowStates /\ Steady(s, first)
    BY <1>1, HandleAtomSame, ToggleSteady, SteadyReflexive DEF HandleAtom
  <1> HIDE DEF first
  <1>3. Steady(first, second)
    BY <1>1, <1>2, ToggleSteady, SteadyReflexive DEF HandleAtom
  <1> QED BY <1>2, <1>3, SteadyTransitive DEF ewmh_handle_net_wm_state_message, first, second

-----------------------------------------------------------------------------
(* Activation and desktops *)

\* client_activate changes CLIENT_ACTIVE and CLIENT_URGENCY, which pagers are not told of.
LEMMA ActivateSteady ==
  ASSUME NEW s, Sound(s), NEW c \in Client, s.group[c] # NULL, NEW requeue \in BOOLEAN,
         Regular => "IGNORE" \notin s.flags[c]
  PROVE  Steady(s, client_activate(s, c, requeue))
  <1> DEFINE current == client_find_active(s)
             taken   == current \notin {NULL, c}
             F == s.flags[current] \ {"ACTIVE"}
             unset   == IF taken THEN SetFlags(s, current, F) ELSE s
             raised  == IF taken /\ s.group[current] # s.group[c]
                        THEN GroupToTail(unset, s.group[c]) ELSE unset
             focused == IF c \in GivenFocus THEN XSetInputFocus(raised, c) ELSE raised
             queued  == IF requeue
                        THEN [focused EXCEPT !.clients[s.group[c]] = Requeue(@, c)]
                        ELSE focused
             G == (queued.flags[c] \cup {"ACTIVE"}) \ {"URGENCY"}
             set == SetFlags(queued, c, G)
             t == ewmh_set_net_active_window(set, c)
  <1>0. client_activate(s, c, requeue) = t
    BY DEF client_activate
  <1>1. s \in WindowStates /\ current \in Client \cup {NULL}
    BY FindActive DEF Sound
  <1> HIDE DEF current
  <1>2. unset \in WindowStates /\ Steady(s, unset)
    <2>1. CASE taken
      <3>1. current \in Client
        BY <1>1, <2>1
      <3>2. /\ F \in SUBSET Flag /\ ("ACTIVE" \in F => "ACTIVE" \in s.flags[current])
            /\ F \cap Visible = s.flags[current] \cap Visible
            /\ "IGNORE" \in F <=> "IGNORE" \in s.flags[current]
        BY <1>1, <3>1 DEF Visible, WindowStates
      <3> HIDE DEF F
      <3> QED BY <1>1, <2>1, <3>1, <3>2, SetFlagsDropped, QuietSteady
    <2>2. CASE ~taken
      BY <1>1, <2>2, SteadyReflexive
    <2> QED BY <2>1, <2>2
  <1> HIDE DEF unset
  <1>3. /\ raised.life = unset.life /\ raised.flags = unset.flags
        /\ raised.netState = unset.netState /\ raised.group = unset.group
        /\ raised.desktop = unset.desktop /\ raised.name = unset.name
    BY <1>2 DEF GroupToTail, WindowStates
  <1> HIDE DEF raised
  <1>4. /\ focused.life = raised.life /\ focused.flags = raised.flags
        /\ focused.netState = raised.netState /\ focused.group = raised.group
        /\ focused.desktop = raised.desktop /\ focused.name = raised.name
    BY DEF XSetInputFocus
  <1> HIDE DEF focused
  <1>5. /\ queued.life = focused.life /\ queued.flags = focused.flags
        /\ queued.netState = focused.netState /\ queued.group = focused.group
        /\ queued.desktop = focused.desktop /\ queued.name = focused.name
    OBVIOUS
  <1> HIDE DEF queued
  <1>6. /\ t.life = queued.life /\ t.netState = queued.netState /\ t.group = queued.group
        /\ t.desktop = queued.desktop /\ t.name = queued.name
        /\ t.flags = [queued.flags EXCEPT ![c] = G]
    BY DEF SetFlags, ewmh_set_net_active_window
  <1>7. /\ G = (unset.flags[c] \cup {"ACTIVE"}) \ {"URGENCY"}
        /\ Regular => "IGNORE" \notin unset.flags[c]
    BY <1>2, <1>3, <1>4, <1>5 DEF Steady
  <1>8. /\ G \cap Visible = unset.flags[c] \cap Visible
        /\ "IGNORE" \in G <=> "IGNORE" \in unset.flags[c]
    BY <1>7 DEF Visible
  <1> HIDE DEF t, G
  <1>9. Steady(unset, t)
    BY <1>2, <1>3, <1>4, <1>5, <1>6, <1>7, <1>8, QuietStep
  <1> QED BY <1>0, <1>2, <1>9, SteadyTransitive

\* client_deactivate takes CLIENT_ACTIVE away.
LEMMA DeactivateSteady ==
  ASSUME NEW s \in WindowStates, NEW c \in Client
  PROVE  Steady(s, client_deactivate(s, c))
  <1> DEFINE F == s.flags[c] \ {"ACTIVE"}
             t == ewmh_set_net_active_window(SetFlags(s, c, F), c)
  <1>1. /\ t.life = s.life /\ t.netState = s.netState /\ t.group = s.group
        /\ t.desktop = s.desktop /\ t.name = s.name /\ t.flags = [s.flags EXCEPT ![c] = F]
    BY DEF SetFlags, ewmh_set_net_active_window, WindowStates
  <1>2. /\ F \cap Visible = s.flags[c] \cap Visible
        /\ "IGNORE" \in F <=> "IGNORE" \in s.flags[c]
        /\ "ACTIVE" \in F => "ACTIVE" \in s.flags[c]
    BY DEF Visible
  <1>3. t = client_deactivate(s, c) \/ client_deactivate(s, c) = s
    BY DEF client_deactivate
  <1> HIDE DEF t, F
  <1>4. Steady(s, t)
    BY <1>1, <1>2, QuietStep
  <1> QED BY <1>3, <1>4, SteadyReflexive

\* The client that group_activate and client_remove find is not ignored.
LEMMA LastActivatableHeeded ==
  ASSUME NEW s \in WindowStates, NEW g \in GroupId, LastActivatable(s, g) # NULL
  PROVE  "IGNORE" \notin s.flags[LastActivatable(s, g)]
  <1>1. s.clients[g] \in Seq(Client)
    BY DEF WindowStates
  <1>2. LastActivatable(s, g) \in Client \ With(s, "IGNORE")
    BY <1>1, LastInFound DEF LastActivatable
  <1> QED BY <1>2 DEF With

\* group_activate shows, raises and activates the clients of one group.
LEMMA GroupActivateSteady ==
  ASSUME NEW s, Sound(s), NEW g \in GroupId, s.desktop[g] # NULL
  PROVE  Steady(s, group_activate(s, g))
  <1> DEFINE tail == GroupToTail(s, g)
             c == LastActivatable(s, g)
  <1>1. Sound(tail) /\ tail.group = s.group
    BY GroupToTailSound DEF Reordered
  <1>2. Steady(s, tail) /\ tail.flags = s.flags
    <2>1. /\ tail.life = s.life /\ tail.flags = s.flags /\ tail.netState = s.netState
          /\ tail.group = s.group /\ tail.desktop = s.desktop /\ tail.name = s.name
      BY DEF GroupToTail, Sound, WindowStates
    <2> HIDE DEF tail
    <2> QED BY <2>1, UntouchedSteady
  <1>3. c # NULL => c \in Client /\ s.group[c] = g /\ "IGNORE" \notin s.flags[c]
    BY LastActivatableFound, LastActivatableHeeded DEF Sound
  <1>4. group_activate(s, g) = IF c = NULL THEN tail ELSE client_activate(tail, c, TRUE)
    BY DEF group_activate
  <1> HIDE DEF tail, c
  <1>5. c # NULL => Steady(tail, client_activate(tail, c, TRUE))
    BY <1>1, <1>2, <1>3, ActivateSteady, WindowStateAssumption
  <1> QED BY <1>2, <1>4, <1>5, SteadyTransitive

\* group_unmap publishes the clients that it unmaps and takes CLIENT_ACTIVE from them.
LEMMA UnmapDesktopSteady ==
  ASSUME NEW s \in WindowStates, NEW d \in Desktop
  PROVE  Steady(s, UnmapDesktop(s, d))
  <1> DEFINE gone == Unmappable(s, d)
             flags == [c \in Client |->
                         IF c \in gone THEN s.flags[c] \ {"ACTIVE"} ELSE s.flags[c]]
             netState == [c \in Client |-> IF c \in gone /\ Alive(s, c)
                                           THEN Published(flags[c]) ELSE s.netState[c]]
             t == UnmapDesktop(s, d)
  <1>1. /\ t.life = s.life /\ t.group = s.group /\ t.desktop = s.desktop /\ t.name = s.name
        /\ t.flags = flags /\ t.netState = netState
    BY DEF UnmapDesktop, WindowStates
  <1>2. ASSUME NEW c \in Client
        PROVE  /\ "IGNORE" \in t.flags[c] <=> "IGNORE" \in s.flags[c]
               /\ "ACTIVE" \in t.flags[c] => "ACTIVE" \in s.flags[c]
               /\ Told(s, c) => Told(t, c)
    <2>1. CASE c \in gone /\ Alive(s, c)
      <3>1. t.netState[c] = Published(t.flags[c])
        BY <1>1, <2>1
      <3> QED BY <1>1, <2>1, <3>1 DEF Told
    <2>2. CASE c \in gone /\ ~Alive(s, c)
      BY <1>1, <2>2 DEF Told, Alive
    <2>3. CASE c \notin gone
      <3>1. t.flags[c] = s.flags[c] /\ t.netState[c] = s.netState[c] /\ t.life = s.life
        BY <1>1, <2>3
      <3> QED BY <3>1 DEF Told, Alive
    <2> QED BY <2>1, <2>2, <2>3
  <1> HIDE DEF t
  <1>3. Steady(s, t)
    BY <1>1, <1>2 DEF Steady
  <1> QED BY <1>3 DEF t

\* A switch of desktops unmaps, maps, activates and publishes where it has got to.
LEMMA SwitchSteady ==
  ASSUME NEW s, Sound(s), NEW i \in 0 .. DesktopCount - 1
  PROVE  Steady(s, SwitchTo(s, i))
  <1> DEFINE old == CurrentDesktop(s, s.active)
             d == <<s.active, i>>
             unmapped == UnmapDesktop(s, old)
             mapped == MapDesktop(unmapped, d)
             g == LastIn(mapped.groups[d], {h \in GroupId : group_can_activate(mapped, h)})
             activated == IF g = NULL THEN mapped ELSE group_activate(mapped, g)
             indexed == [activated EXCEPT !.desktop_index[s.active] = i]
             t == ewmh_set_net_current_desktop(indexed)
  <1>1. old \in Desktop /\ d \in Desktop /\ s \in WindowStates
    BY DEF CurrentDesktop, Desktop, Sound, WindowStates
  <1>2. SwitchTo(s, i) = t
    BY DEF SwitchTo
  <1> HIDE DEF old, d
  <1>3. unmapped \in WindowStates /\ Dropped(s, unmapped) /\ Steady(s, unmapped)
    BY <1>1, UnmapDesktopDropped, UnmapDesktopSteady
  <1> HIDE DEF unmapped
  <1>4. mapped \in WindowStates /\ Same(unmapped, mapped) /\ Steady(unmapped, mapped)
    <2>1. /\ mapped.life = unmapped.life /\ mapped.flags = unmapped.flags
          /\ mapped.netState = unmapped.netState /\ mapped.group = unmapped.group
          /\ mapped.desktop = unmapped.desktop /\ mapped.name = unmapped.name
      BY <1>3 DEF MapDesktop, WindowStates
    <2>2. Steady(unmapped, mapped)
      BY <2>1, UntouchedSteady
    <2> QED BY <1>1, <1>3, <2>2, MapDesktopSame
  <1> HIDE DEF mapped
  <1>5. Sound(mapped)
    BY <1>3, <1>4, FrameDropped, Frame
  <1>6. g # NULL => g \in GroupId /\ mapped.desktop[g] # NULL
    <2>1. mapped.groups[d] \in Seq(GroupId)
      BY <1>1, <1>4 DEF WindowStates
    <2>2. g # NULL => g \in Range(mapped.groups[d])
      BY <2>1, LastInFound
    <2>3. g # NULL => g \in GroupId
      BY <2>1, <2>2 DEF Range
    <2> QED BY <1>1, <1>5, <2>2, <2>3, WindowStateAssumption DEF Sound, Linked
  <1> HIDE DEF g
  <1>7. Steady(mapped, activated)
    BY <1>5, <1>6, GroupActivateSteady, SteadyReflexive
  <1> HIDE DEF activated
  <1>8. /\ t.life = activated.life /\ t.flags = activated.flags
        /\ t.netState = activated.netState /\ t.group = activated.group
        /\ t.desktop = activated.desktop /\ t.name = activated.name
    BY DEF ewmh_set_net_current_desktop
  <1> HIDE DEF t
  <1>9. Steady(activated, t)
    BY <1>8, UntouchedSteady
  <1> QED BY <1>2, <1>3, <1>4, <1>7, <1>9, SteadyTransitive

-----------------------------------------------------------------------------
(* The names of groups *)

\* A group is named after the class of its clients, and no two groups of a desktop have the
\* same name.
Names(s) ==
  /\ \A c \in Client : s.group[c] # NULL => s.name[s.group[c]] = ClassOf[c]
  /\ \A g, h \in GroupId :
       s.desktop[g] # NULL /\ s.desktop[g] = s.desktop[h] /\ s.name[g] = s.name[h] => g = h

\* A group that loses its last client loses its name and its desktop; nobody else is in it.
LEMMA UnassignNames ==
  ASSUME NEW s \in WindowStates, Linked(s), NEW c \in Client, s.group[c] # NULL
  PROVE  /\ group_unassign(s, c).netState = s.netState
         /\ Names(s) => Names(group_unassign(s, c))
  <1> DEFINE g == s.group[c]
             d == s.desktop[g]
             rest == TAILQ_REMOVE(s.clients[g], c)
             left == [s EXCEPT !.clients[g] = rest, !.group[c] = NULL]
             gone == [left EXCEPT !.groups[d] = TAILQ_REMOVE(@, g), !.desktop[g] = NULL,
                                  !.name[g] = NoName]
  <1>0. /\ s.group \in [Client -> GroupId \cup {NULL}]
        /\ s.clients \in [GroupId -> Seq(Client)]
        /\ s.desktop \in [GroupId -> Desktop \cup {NULL}]
        /\ s.name \in [GroupId -> Name]
    BY DEF WindowStates
  <1>1. g \in GroupId
    BY GroupHasDesktop
  <1>2. c \in Range(s.clients[g]) /\ IsInjective(s.clients[g])
    BY <1>1 DEF Linked
  <1>3. Range(rest) = Range(s.clients[g]) \ {c}
    BY <1>0, <1>1, <1>2, RemoveOne
  <1>4. group_unassign(s, c) = IF rest # << >> THEN left ELSE gone
    BY <1>1, WindowStateAssumption DEF group_unassign
  <1> HIDE DEF rest
  <1>5. /\ left.netState = s.netState /\ left.group = [s.group EXCEPT ![c] = NULL]
        /\ left.desktop = s.desktop /\ left.name = s.name
        /\ gone.netState = s.netState /\ gone.group = [s.group EXCEPT ![c] = NULL]
        /\ gone.desktop = [s.desktop EXCEPT ![g] = NULL]
        /\ gone.name = [s.name EXCEPT ![g] = NoName]
    BY DEF WindowStates
  <1> HIDE DEF left, gone
  <1>6. ASSUME Names(s) PROVE Names(left)
    BY <1>0, <1>5, <1>6 DEF Names
  <1>7. ASSUME Names(s), rest = << >> PROVE Names(gone)
    <2>1. \A b \in Client \ {c} : s.group[b] # g
      BY <1>1, <1>3, <1>7 DEF Linked, Range
    <2>2. ASSUME NEW b \in Client, gone.group[b] # NULL
          PROVE  gone.name[gone.group[b]] = ClassOf[b]
      <3>1. b # c /\ gone.group[b] = s.group[b] /\ s.group[b] # g
        BY <1>0, <1>5, <2>1, <2>2
      <3>2. s.group[b] \in GroupId /\ gone.name[s.group[b]] = s.name[s.group[b]]
        BY <1>0, <1>5, <2>2, <3>1
      <3> QED BY <3>1, <3>2, <2>2, <1>7 DEF Names
    <2>3. ASSUME NEW h \in GroupId, NEW k \in GroupId, gone.desktop[h] # NULL,
                 gone.desktop[h] = gone.desktop[k], gone.name[h] = gone.name[k]
          PROVE  h = k
      <3>1. h # g /\ k # g
        BY <1>0, <1>5, <2>3
      <3>2. /\ gone.desktop[h] = s.desktop[h] /\ gone.desktop[k] = s.desktop[k]
            /\ gone.name[h] = s.name[h] /\ gone.name[k] = s.name[k]
        BY <1>0, <1>5, <3>1
      <3> QED BY <3>2, <2>3, <1>7 DEF Names
    <2> QED BY <2>2, <2>3 DEF Names
  <1> QED BY <1>4, <1>5, <1>6, <1>7

\* group_assign looks the class up among the groups of the desktop before it makes a group.
LEMMA AssignNames ==
  ASSUME NEW s \in WindowStates, Linked(s), NEW c \in Client, s.group[c] = NULL,
         NEW d \in Desktop
  PROVE  /\ Assigned(s, d, c).netState = s.netState
         /\ Names(s) => Names(Assigned(s, d, c))
  <1> DEFINE named == {g \in GroupId : s.name[g] = ClassOf[c]}
             same  == GroupNamed(s, d, ClassOf[c])
             fresh == CHOOSE g \in GroupId : s.clients[g] = << >>
             a == group_assign(s, d, c)
             t == [a EXCEPT !.desktop[a.group[c]] = d]
  <1>0. /\ s.group \in [Client -> GroupId \cup {NULL}]
        /\ s.desktop \in [GroupId -> Desktop \cup {NULL}]
        /\ s.groups \in [Desktop -> Seq(GroupId)]
        /\ s.name \in [GroupId -> Name]
        /\ NULL \notin GroupId /\ NULL \notin Desktop
    BY WindowStateAssumption DEF WindowStates
  <1>1. IF Range(s.groups[d]) \cap named = {} THEN same = NULL
        ELSE same \in Range(s.groups[d]) \cap named
    BY <1>0, FirstInFound DEF GroupNamed
  <1>2. fresh \in GroupId /\ s.clients[fresh] = << >>
    BY FreeGroup
  <1>3. Assigned(s, d, c) = t
    BY DEF Assigned
  <1>4. CASE same # NULL
    <2>1. same \in GroupId /\ s.name[same] = ClassOf[c] /\ s.desktop[same] = d
      BY <1>1, <1>4 DEF Linked
    <2>2. /\ a.netState = s.netState /\ a.group = [s.group EXCEPT ![c] = same]
          /\ a.desktop = s.desktop /\ a.name = s.name
      BY <1>4 DEF group_assign, WindowStates
    <2> HIDE DEF a, same
    <2>3. /\ t.netState = s.netState /\ t.group = [s.group EXCEPT ![c] = same]
          /\ t.desktop = [s.desktop EXCEPT ![same] = d] /\ t.name = s.name
      BY <2>2, <1>0
    <2> HIDE DEF t
    <2>4. Names(s) => Names(t)
      BY <2>1, <2>3, <1>0 DEF Names
    <2> QED BY <1>3, <2>3, <2>4
  <1>5. CASE same = NULL
    <2>1. \A g \in GroupId : s.desktop[g] = d => s.name[g] # ClassOf[c]
      <3>1. Range(s.groups[d]) \cap named = {}
        BY <1>0, <1>1, <1>5
      <3> QED BY <3>1 DEF Linked
    <2>2. /\ s.desktop[fresh] = NULL
          /\ \A b \in Client : s.group[b] # fresh
      BY <1>2, NotEmpty DEF Linked
    <2> HIDE DEF fresh
    <2>3. /\ a.netState = s.netState /\ a.group = [s.group EXCEPT ![c] = fresh]
          /\ a.desktop = s.desktop /\ a.name = [s.name EXCEPT ![fresh] = ClassOf[c]]
      BY <1>5 DEF group_assign, WindowStates, fresh
    <2> HIDE DEF a, same
    <2>4. /\ t.netState = s.netState /\ t.group = [s.group EXCEPT ![c] = fresh]
          /\ t.desktop = [s.desktop EXCEPT ![fresh] = d]
          /\ t.name = [s.name EXCEPT ![fresh] = ClassOf[c]]
      BY <2>3, <1>0
    <2> HIDE DEF t
    <2>5. Names(s) => Names(t)
      BY <2>1, <2>2, <2>4, <1>0, <1>2 DEF Names
    <2> QED BY <1>3, <2>4, <2>5
  <1> QED BY <1>4, <1>5

\* screen_adopt does one after the other.
LEMMA AdoptNames ==
  ASSUME NEW s, Sound(s), NEW scr \in Screen, NEW c \in Client
  PROVE  /\ screen_adopt(s, scr, c).netState = s.netState
         /\ Names(s) => Names(screen_adopt(s, scr, c))
  <1> DEFINE u == group_unassign(s, c)
             d == CurrentDesktop(s, scr)
  <1>1. d \in Desktop /\ s \in WindowStates /\ Linked(s)
    BY DEF CurrentDesktop, Desktop, Sound, WindowStates
  <1>2. /\ u \in WindowStates /\ Linked(u) /\ u.group[c] = NULL
        /\ u.netState = s.netState
        /\ Names(s) => Names(u)
    <2>1. CASE s.group[c] = NULL
      BY <1>1, <2>1 DEF group_unassign
    <2>2. CASE s.group[c] # NULL
      <3>1. u \in WindowStates /\ Linked(u) /\ u.group = [s.group EXCEPT ![c] = NULL]
        BY <1>1, <2>2, UnassignLinked
      <3>2. u.netState = s.netState /\ (Names(s) => Names(u))
        BY <1>1, <2>2, UnassignNames
      <3> HIDE DEF u
      <3> QED BY <1>1, <3>1, <3>2 DEF WindowStates
    <2> QED BY <2>1, <2>2
  <1>3. screen_adopt(s, scr, c) = Assigned(u, d, c)
    BY DEF screen_adopt, Assigned
  <1> HIDE DEF u, d
  <1> QED BY <1>1, <1>2, <1>3, AssignNames

-----------------------------------------------------------------------------
(* What clients are, and the functions that make and remove them *)

\* A client is published as it is and known for what its class is.
Fit(s, c) == Told(s, c) /\ ("IGNORE" \in s.flags[c] <=> ClassOf[c] \in Ignored)

\* The inductive invariant, beside Inv.
Honest(s) ==
  /\ \A c \in Client : s.group[c] # NULL => Fit(s, c)
  /\ Regular => \A c \in Client : "ACTIVE" \notin s.flags[c] \/ "IGNORE" \notin s.flags[c]
  /\ Labelled => Names(s)

\* The invariant survives whatever is steady.
LEMMA SteadyHonest ==
  ASSUME NEW s, Honest(s), NEW t, Steady(s, t)
  PROVE  Honest(t)
  BY DEF Honest, Steady, Fit, Names

\* A client that moves to another screen takes its flags with it.
LEMMA AdoptHonest ==
  ASSUME NEW s, Sound(s), Honest(s), NEW scr \in Screen, NEW c \in Client, s.group[c] # NULL
  PROVE  Honest(screen_adopt(s, scr, c))
  <1> DEFINE t == screen_adopt(s, scr, c)
  <1>1. /\ t.flags = s.flags /\ t.life = s.life
        /\ \A b \in Client \ {c} : t.group[b] = s.group[b]
    BY AdoptSound
  <1>2. t.netState = s.netState /\ (Names(s) => Names(t))
    BY AdoptNames
  <1> HIDE DEF t
  <1>3. \A b \in Client : t.group[b] # NULL => Fit(t, b)
    BY <1>1, <1>2 DEF Honest, Fit, Told, Alive
  <1>4. Honest(t)
    BY <1>1, <1>2, <1>3 DEF Honest
  <1> QED BY <1>4 DEF t

\* A title names a group only if that has no name.
LEMMA UpdateNameHonest ==
  ASSUME NEW s \in WindowStates, Honest(s), NEW c \in Client, s.group[c] # NULL,
         "WM_NAME" \in Properties
  PROVE  Honest(client_update_wm_name(s, c))
  <1> DEFINE t == client_update_wm_name(s, c)
  <1>1. /\ t.flags = s.flags /\ t.life = s.life /\ t.netState = s.netState
        /\ t.group = s.group /\ t.desktop = s.desktop
    BY DEF client_update_wm_name, WindowStates
  <1>2. Labelled => t = s
    BY DEF Honest, Names, Labelled, client_update_wm_name
  <1> HIDE DEF t
  <1>3. \A b \in Client : t.group[b] # NULL => Fit(t, b)
    BY <1>1 DEF Honest, Fit, Told, Alive
  <1>4. Honest(t)
    BY <1>1, <1>2, <1>3 DEF Honest
  <1> QED BY <1>4 DEF t

\* What ewmh_restore_net_wm_state sets is what it leaves published, urgency aside.
LEMMA RestoreFit ==
  ASSUME NEW s \in WindowStates, NEW c \in Client, s.flags[c] \subseteq {"URGENCY"}
  PROVE  LET t == ewmh_restore_net_wm_state(s, c)
         IN  /\ Told(t, c)
             /\ "IGNORE" \notin t.flags[c] /\ "ACTIVE" \notin t.flags[c]
             /\ t.life = s.life /\ t.group = s.group /\ t.desktop = s.desktop
             /\ t.name = s.name
             /\ \A b \in Client \ {c} : /\ t.flags[b] = s.flags[b]
                                         /\ t.netState[b] = s.netState[b]
  <1> DEFINE t == ewmh_restore_net_wm_state(s, c)
             atoms == s.netState[c]
             restored == s.flags[c] \cup (atoms \ Maximized)
                           \cup (IF "FULLSCREEN" \in atoms THEN {"FREEZE"} ELSE {})
             shown == IF atoms \cap {"SKIP_PAGER", "SKIP_TASKBAR"} = {}
                      THEN restored \ ({"URGENCY"} \ s.flags[c]) ELSE restored
             after == IF atoms \subseteq {"URGENCY"} THEN atoms ELSE Published(shown)
  <1>1. t = [s EXCEPT !.flags[c] = restored, !.netState[c] = after]
    BY DEF ewmh_restore_net_wm_state, Restored, WindowStates
  <1>2. atoms \subseteq Atom
    BY DEF WindowStates
  <1>3. "IGNORE" \notin restored /\ "ACTIVE" \notin restored
    BY <1>2 DEF Atom, Maximized
  <1>4. after \ {"URGENCY"} = Published(restored) \ {"URGENCY"}
    <2>1. CASE atoms \subseteq {"URGENCY"}
      BY <2>1 DEF Published, Maximized
    <2>2. CASE ~(atoms \subseteq {"URGENCY"})
      <3>1. shown \cap Visible = restored \cap Visible
        BY DEF Visible
      <3> HIDE DEF shown, restored
      <3> QED BY <2>2, <3>1, PublishedSame
    <2> QED BY <2>1, <2>2
  <1> HIDE DEF after, restored
  <1>5. /\ t.life = s.life /\ t.group = s.group /\ t.desktop = s.desktop /\ t.name = s.name
        /\ t.flags = [s.flags EXCEPT ![c] = restored]
        /\ t.netState = [s.netState EXCEPT ![c] = after]
    BY <1>1 DEF WindowStates
  <1> HIDE DEF t
  <1>6. /\ t.flags[c] = restored /\ t.netState[c] = after
        /\ \A b \in Client \ {c} : t.flags[b] = s.flags[b] /\ t.netState[b] = s.netState[b]
    BY <1>5 DEF WindowStates
  <1>7. Told(t, c)
    BY <1>4, <1>6 DEF Told
  <1> QED BY <1>3, <1>5, <1>6, <1>7 DEF t

\* client_init makes a client that is fit, of a window that has none.
LEMMA InitHonest ==
  ASSUME NEW s, Sound(s), Honest(s), NEW c \in Client, s.group[c] = NULL, NEW scr \in Screen
  PROVE  Honest(client_init(s, c, scr))
  <1> DEFINE fresh    == [s EXCEPT !.mapped[c] = s.viewable[c], !.flags[c] = {}]
             hinted   == client_update_wm_hints(fresh, c)
             adopted  == screen_adopt(hinted, scr, c)
             restored == ewmh_restore_net_wm_state(adopted, c)
             F        == restored.flags[c] \cup {"IGNORE"}
             bar      == SetFlags(restored, c, F)
  <1>1. /\ fresh \in WindowStates /\ Dropped(s, fresh)
        /\ fresh.flags = [s.flags EXCEPT ![c] = {}] /\ fresh.netState = s.netState
        /\ fresh.life = s.life /\ fresh.name = s.name
    BY DEF Sound, WindowStates, Dropped, With
  <1> HIDE DEF fresh
  <1>2. hinted \in WindowStates /\ Same(fresh, hinted)
    BY <1>1, UpdateHintsSame
  <1>3. /\ hinted.flags[c] \subseteq {"URGENCY"}
        /\ \A b \in Client \ {c} : hinted.flags[b] = s.flags[b]
        /\ hinted.netState = s.netState /\ hinted.name = s.name
    BY <1>1 DEF client_update_wm_hints, SetFlags, WindowStates
  <1> HIDE DEF hinted
  <1>4. Sound(hinted) /\ hinted.life = s.life
        /\ hinted.group = s.group /\ hinted.desktop = s.desktop
    BY <1>1, <1>2, FrameDropped, Frame DEF Same, Dropped
  <1>5. /\ Sound(adopted) /\ adopted.flags = hinted.flags /\ adopted.life = hinted.life
        /\ \A b \in Client \ {c} : adopted.group[b] = hinted.group[b]
    BY <1>4, AdoptSound
  <1>6. adopted.netState = hinted.netState /\ (Names(hinted) => Names(adopted))
    BY <1>4, AdoptNames
  <1>7. Names(s) => Names(adopted)
    BY <1>3, <1>4, <1>6 DEF Names
  <1> HIDE DEF adopted
  <1>8. /\ Told(restored, c)
        /\ "IGNORE" \notin restored.flags[c] /\ "ACTIVE" \notin restored.flags[c]
        /\ restored.life = adopted.life /\ restored.group = adopted.group
        /\ restored.desktop = adopted.desktop /\ restored.name = adopted.name
        /\ \A b \in Client \ {c} : /\ restored.flags[b] = adopted.flags[b]
                                    /\ restored.netState[b] = adopted.netState[b]
    BY <1>3, <1>5, RestoreFit DEF Sound
  <1>9. restored \in WindowStates
    BY <1>5, RestoreStateSame DEF Sound
  <1> HIDE DEF restored
  <1>10. /\ bar.life = restored.life /\ bar.netState = restored.netState
         /\ bar.group = restored.group /\ bar.desktop = restored.desktop
         /\ bar.name = restored.name
         /\ bar.flags = [restored.flags EXCEPT ![c] = F]
    BY <1>9 DEF SetFlags, WindowStates
  <1>11. bar.flags[c] = F /\ \A b \in Client \ {c} : bar.flags[b] = restored.flags[b]
    BY <1>9, <1>10 DEF WindowStates
  <1>12. "IGNORE" \in F /\ "ACTIVE" \notin F /\ Told(bar, c)
    <2>1. F \cap Visible = restored.flags[c] \cap Visible
      BY DEF Visible
    <2>2. Published(F) \ {"URGENCY"} = Published(restored.flags[c]) \ {"URGENCY"}
      BY <2>1, PublishedSame
    <2>3. Told(bar, c)
      BY <1>8, <1>10, <1>11, <2>2 DEF Told, Alive
    <2> QED BY <1>8, <2>3
  <1> HIDE DEF bar, F
  <1>13. client_init(s, c, scr) = IF ClassOf[c] \in Ignored THEN bar ELSE restored
    BY DEF client_init, fresh, hinted, adopted, restored, F, bar
  <1>14. ASSUME NEW t, t = IF ClassOf[c] \in Ignored THEN bar ELSE restored
         PROVE  Honest(t)
    <2>1. /\ Fit(t, c) /\ "ACTIVE" \notin t.flags[c]
          /\ t.life = s.life /\ t.group = adopted.group /\ t.desktop = adopted.desktop
          /\ t.name = adopted.name
      BY <1>4, <1>5, <1>8, <1>10, <1>11, <1>12, <1>14 DEF Fit
    <2>2. ASSUME NEW b \in Client \ {c}
          PROVE  /\ t.flags[b] = s.flags[b] /\ t.netState[b] = s.netState[b]
                 /\ t.group[b] = s.group[b]
      <3>1. /\ adopted.flags[b] = s.flags[b] /\ adopted.netState[b] = s.netState[b]
            /\ adopted.group[b] = s.group[b]
        BY <1>3, <1>4, <1>5, <1>6
      <3>2. /\ restored.flags[b] = s.flags[b] /\ restored.netState[b] = s.netState[b]
            /\ restored.group[b] = s.group[b]
        BY <1>8, <3>1
      <3>3. /\ bar.flags[b] = s.flags[b] /\ bar.netState[b] = s.netState[b]
            /\ bar.group[b] = s.group[b]
        BY <1>10, <1>11, <3>2
      <3> QED BY <1>14, <3>2, <3>3
    <2>3. Names(s) => Names(t)
      BY <1>7, <2>1 DEF Names
    <2>4. \A b \in Client : t.group[b] # NULL => Fit(t, b)
      BY <2>1, <2>2 DEF Honest, Fit, Told, Alive
    <2> QED BY <2>1, <2>2, <2>3, <2>4 DEF Honest
  <1> QED BY <1>13, <1>14

\* client_remove forgets one client and activates one that is not ignored.
LEMMA RemoveHonest ==
  ASSUME NEW s, Sound(s), Honest(s), NEW c \in Client, s.group[c] # NULL
  PROVE  Honest(client_remove(s, c))
  <1> DEFINE g      == s.group[c]
             told   == IF "ACTIVE" \in s.flags[c] THEN ewmh_set_net_active_window(s, c) ELSE s
             u      == group_unassign(told, c)
             freed  == [u EXCEPT !.flags[c] = {}, !.mapped[c] = FALSE]
             tail   == TAILQ_LAST(freed.groups[s.desktop[g]])
             inGroup == LastActivatable(freed, g)
             inTail  == IF tail = NULL THEN NULL ELSE LastActivatable(freed, tail)
  <1>1. g \in GroupId /\ s.desktop[g] \in Desktop
    BY GroupHasDesktop DEF Sound
  <1>2. told \in WindowStates /\ Same(s, told) /\ told.flags = s.flags
        /\ told.netState = s.netState /\ told.name = s.name
    <2>1. "ACTIVE" \in s.flags[c] => s.netActive = c
      BY DEF Sound, With
    <2> QED BY <2>1 DEF Sound, ewmh_set_net_active_window, WindowStates, Same, Dropped, With
  <1>3. /\ Linked(told) /\ told.group = s.group /\ told.desktop = s.desktop
        /\ told.netActive = s.netActive /\ told.life = s.life
    BY <1>2, Frame DEF Sound, Same, Dropped
  <1> HIDE DEF told
  <1>4. /\ u \in WindowStates
        /\ Linked(u)
        /\ u.group = [s.group EXCEPT ![c] = NULL]
        /\ u.flags = s.flags
        /\ u.netActive = s.netActive
        /\ u.life = s.life
    BY <1>2, <1>3, UnassignLinked
  <1>5. u.netState = s.netState /\ (Names(s) => Names(u))
    <2>1. u.netState = told.netState /\ (Names(told) => Names(u))
      BY <1>2, <1>3, UnassignNames
    <2> HIDE DEF u
    <2> QED BY <1>2, <1>3, <2>1 DEF Names
  <1> HIDE DEF u
  <1>6. /\ freed \in WindowStates
        /\ freed.group = u.group
        /\ freed.clients = u.clients
        /\ freed.desktop = u.desktop
        /\ freed.groups = u.groups
        /\ freed.name = u.name
        /\ freed.netState = u.netState
        /\ freed.flags = [u.flags EXCEPT ![c] = {}]
        /\ freed.netActive = u.netActive
        /\ freed.life = u.life
    BY <1>4 DEF WindowStates
  <1> HIDE DEF freed
  <1>7. Linked(freed)
    BY <1>4, <1>6 DEF Linked
  <1>8. \A b \in With(freed, "ACTIVE") : b # c /\ b \in With(s, "ACTIVE")
    BY <1>4, <1>6 DEF With, WindowStates
  <1>9. \A b \in With(freed, "ACTIVE") : freed.group[b] = s.group[b]
    BY <1>4, <1>6, <1>8 DEF Sound, WindowStates, With
  <1>10. Sound(freed)
    BY <1>4, <1>6, <1>7, <1>8, <1>9 DEF Sound
  <1>11. Honest(freed)
    <2>1. freed.group[c] = NULL /\ freed.flags[c] = {}
      BY <1>4, <1>6 DEF WindowStates, Sound
    <2>2. \A b \in Client \ {c} : /\ freed.flags[b] = s.flags[b]
                                  /\ freed.group[b] = s.group[b]
      BY <1>4, <1>6 DEF WindowStates, Sound
    <2>3. \A b \in Client : freed.group[b] # NULL => Fit(freed, b)
      BY <1>4, <1>5, <1>6, <2>1, <2>2 DEF Honest, Fit, Told, Alive
    <2>4. Names(s) => Names(freed)
      BY <1>5, <1>6 DEF Names
    <2> QED BY <2>1, <2>2, <2>3, <2>4 DEF Honest
  <1>12. inGroup # NULL =>
           inGroup \in Client /\ freed.group[inGroup] # NULL /\ "IGNORE" \notin freed.flags[inGroup]
    BY <1>1, <1>6, <1>7, LastActivatableFound, LastActivatableHeeded, WindowStateAssumption
  <1>13. tail # NULL => tail \in GroupId
    <2>1. freed.groups[s.desktop[g]] \in Seq(GroupId)
      BY <1>1, <1>6 DEF WindowStates
    <2>2. tail # NULL => tail \in Range(freed.groups[s.desktop[g]])
      BY <2>1, LastFound
    <2> QED BY <2>1, <2>2 DEF Range
  <1>14. inTail # NULL =>
           inTail \in Client /\ freed.group[inTail] # NULL /\ "IGNORE" \notin freed.flags[inTail]
    BY <1>6, <1>7, <1>13, LastActivatableFound, LastActivatableHeeded, WindowStateAssumption
  <1>15. \/ client_remove(s, c) = freed
         \/ inGroup # NULL /\ client_remove(s, c) = client_activate(freed, inGroup, TRUE)
         \/ inTail # NULL /\ client_remove(s, c) = client_activate(freed, inTail, TRUE)
    BY DEF client_remove, freed, u, told
  <1> HIDE DEF inGroup, inTail
  <1>16. ASSUME NEW b \in Client, freed.group[b] # NULL, "IGNORE" \notin freed.flags[b]
         PROVE  Honest(client_activate(freed, b, TRUE))
    BY <1>10, <1>11, <1>16, ActivateSteady, SteadyHonest
  <1> QED BY <1>11, <1>12, <1>14, <1>15, <1>16

-----------------------------------------------------------------------------
(* The owners of the windows, start, restart and end *)

\* A window that is destroyed has nothing published any more.
LEMMA DestroyedHonest ==
  ASSUME NEW s \in WindowStates, Honest(s), NEW c \in Client
  PROVE  Honest(Destroyed(s, c))
  <1> DEFINE t == Destroyed(s, c)
  <1>1. /\ t.flags = s.flags /\ t.group = s.group /\ t.desktop = s.desktop /\ t.name = s.name
        /\ t.life[c] # "alive"
        /\ \A b \in Client \ {c} : t.life[b] = s.life[b] /\ t.netState[b] = s.netState[b]
    BY DEF Destroyed, WindowStates
  <1> HIDE DEF t
  <1>2. \A b \in Client : t.group[b] # NULL => Fit(t, b)
    BY <1>1 DEF Honest, Fit, Told, Alive
  <1>3. Honest(t)
    BY <1>1, <1>2 DEF Honest, Names
  <1> QED BY <1>3 DEF t

\* A window that is created has no client: the one it had before is gone when its
\* DestroyNotify is read.
LEMMA OwnersHonest ==
  ASSUME Inv, Waiting, Honest(state), Owners
  PROVE  Honest(state')
  <1>1. Sound(state) /\ state \in WindowStates
    BY DEF Inv, Sound
  <1>2. PICK c \in Client : Create(c) \/ RequestMap(c) \/ Withdraw(c) \/ Destroy(c) \/ TakeFocus(c)
    BY DEF Owners
  <1>3. CASE RequestMap(c) \/ Withdraw(c)
    BY <1>1, <1>3, MapSteady, SteadyReflexive, SteadyHonest DEF RequestMap, Withdraw
  <1>4. CASE Destroy(c)
    BY <1>1, <1>4, DestroyedHonest DEF Destroy
  <1>6. CASE TakeFocus(c)
    <2>1. /\ state'.life = state.life /\ state'.flags = state.flags
          /\ state'.netState = state.netState /\ state'.group = state.group
          /\ state'.desktop = state.desktop /\ state'.name = state.name
      BY <1>1, <1>6, TakeFocusSame DEF WindowStates
    <2> QED BY <2>1, UntouchedSteady, SteadyHonest
  <1>5. CASE Create(c)
    <2>1. state.group[c] = NULL
      <3>1. state.life[c] = "absent" /\ <<"DestroyNotify", c>> \notin queue
        BY <1>5 DEF Create, Pending
      <3> QED BY <3>1 DEF Waiting
    <2>2. PICK atoms \in InitialStates :
            state' = [state EXCEPT !.life[c] = "alive", !.netState[c] = atoms]
      BY <1>5 DEF Create
    <2>3. /\ state'.flags = state.flags /\ state'.group = state.group
          /\ state'.desktop = state.desktop /\ state'.name = state.name
          /\ \A b \in Client \ {c} : /\ state'.life[b] = state.life[b]
                                      /\ state'.netState[b] = state.netState[b]
      BY <1>1, <2>2 DEF WindowStates
    <2>4. \A b \in Client : state'.group[b] # NULL => Fit(state', b)
      BY <2>1, <2>3 DEF Honest, Fit, Told, Alive
    <2> QED BY <2>3, <2>4 DEF Honest, Names
  <1> QED BY <1>2, <1>3, <1>4, <1>5, <1>6

\* A process that starts has no clients and no groups.
LEMMA BlankHonest ==
  ASSUME NEW s, s.group = [c \in Client |-> NULL], s.flags = [c \in Client |-> {}],
         s.desktop = [g \in GroupId |-> NULL]
  PROVE  Honest(s)
  BY DEF Honest, Names

\* The first process starts with no clients either.
LEMMA InitBlank == Init => Honest(state)
  BY BlankHonest DEF Init

\* state_update_clients makes clients of windows that have none.
LEMMA MainHonest ==
  ASSUME Inv, Waiting, Honest(state), Main
  PROVE  Honest(state')
  <1>1. Sound(state) /\ state \in WindowStates
    BY DEF Inv, Sound
  <1>2. ASSUME NEW c \in Client, state_update_clients(c) PROVE Honest(state')
    <2>1. CASE ~Alive(state, c)
      BY <1>2, <2>1 DEF state_update_clients
    <2>2. CASE Alive(state, c)
      <3>1. PICK scr \in Screen :
              LET s == client_init(state, c, scr)
              IN  state' = IF s.mapped[c] /\ s.flags[c] \cap {"IGNORE", "HIDDEN"} = {}
                           THEN client_activate(s, c, FALSE) ELSE s
        BY <1>2, <2>2 DEF state_update_clients
      <3>2. state.group[c] = NULL
        BY <1>2 DEF Waiting, state_update_clients
      <3> DEFINE s == client_init(state, c, scr)
      <3>3. Sound(s) /\ s.group[c] # NULL /\ Honest(s)
        BY <1>1, <3>2, InitSound, InitHonest
      <3>4. state' = IF s.mapped[c] /\ s.flags[c] \cap {"IGNORE", "HIDDEN"} = {}
                     THEN client_activate(s, c, FALSE) ELSE s
        BY <3>1
      <3> HIDE DEF s
      <3>5. "IGNORE" \notin s.flags[c] => Honest(client_activate(s, c, FALSE))
        BY <3>3, ActivateSteady, SteadyHonest
      <3> QED BY <3>3, <3>4, <3>5
    <2> QED BY <2>1, <2>2
  <1>3. CASE main_enter_loop
    <2>1. /\ state'.life = state.life /\ state'.flags = state.flags
          /\ state'.netState = state.netState /\ state'.group = state.group
          /\ state'.desktop = state.desktop /\ state'.name = state.name
      BY <1>1, <1>3 DEF main_enter_loop, ewmh_set_net_current_desktop, WindowStates
    <2> QED BY <2>1, UntouchedSteady, SteadyHonest
  <1>4. CASE main_leave_loop
    <2>1. ASSUME NEW scr \in Screen, state' = Started(state, scr) PROVE Honest(state')
      <3>1. /\ state'.group = [c \in Client |-> NULL] /\ state'.flags = [c \in Client |-> {}]
            /\ state'.desktop = [g \in GroupId |-> NULL]
        BY <1>1, <2>1 DEF Started, WindowStates
      <3> QED BY <3>1, BlankHonest
    <2> QED BY <1>4, <2>1 DEF main_leave_loop
  <1>5. CASE signal_handler
    BY <1>5 DEF signal_handler
  <1> QED BY <1>2, <1>3, <1>4, <1>5 DEF Main

-----------------------------------------------------------------------------
(* The functions that keys and buttons are bound to *)

\* client_next and client_previous pass over ignored clients, or do not return.
LEMMA CycleFromHeeded ==
  ASSUME NEW q \in Seq(Client), NEW c \in Range(q), NEW ignored,
         CycleFrom(q, c, ignored) \in Client
  PROVE  CycleFrom(q, c, ignored) \notin ignored
  <1> DEFINE at == CHOOSE i \in DOMAIN q : q[i] = c
  <1>1. at \in 1 .. Len(q) /\ Len(q) \in Nat
    BY DEF Range
  <1> HIDE DEF at
  <1>2. at < Len(q) \/ at = Len(q)
    <2>1. \A n \in Nat : \A i \in 1 .. n : i < n \/ i = n
      OBVIOUS
    <2> QED BY <2>1, <1>1, Zenon
  <1>3. CycleFrom(q, c, ignored) \in {Never, NULL} \/ CycleFrom(q, c, ignored) \notin ignored
    BY <1>2 DEF CycleFrom, at
  <1> QED BY <1>3, WindowStateAssumption

\* The client that the cycling functions reach is not ignored when they return.
LEMMA NextHeeded ==
  ASSUME NEW s, Sound(s), NEW c \in Client, s.group[c] # NULL
  PROVE  /\ client_next(s, c) \in Client => "IGNORE" \notin s.flags[client_next(s, c)]
         /\ client_previous(s, c) \in Client => "IGNORE" \notin s.flags[client_previous(s, c)]
  <1> DEFINE g == s.group[c]
             q == s.clients[g]
             r == [i \in DOMAIN q |-> q[Len(q) + 1 - i]]
  <1>1. g \in GroupId /\ q \in Seq(Client)
    BY GroupHasDesktop DEF Sound, WindowStates
  <1>2. c \in Range(q)
    BY <1>1 DEF Sound, Linked
  <1>3. /\ client_next(s, c) = CycleFrom(q, c, With(s, "IGNORE"))
        /\ client_previous(s, c) = CycleFrom(r, c, With(s, "IGNORE"))
    BY DEF client_next, client_previous
  <1> HIDE DEF q
  <1>4. r \in Seq(Client) /\ DOMAIN r = 1 .. Len(q) /\ Len(q) \in Nat /\ DOMAIN q = 1 .. Len(q)
    BY <1>1
  <1>5. \A i \in 1 .. Len(q) : Len(q) + 1 - i \in 1 .. Len(q) /\ r[Len(q) + 1 - i] = q[i]
    BY <1>1
  <1> HIDE DEF r
  <1>6. c \in Range(r)
    BY <1>2, <1>4, <1>5 DEF Range
  <1>7. \A b \in Client \ With(s, "IGNORE") : "IGNORE" \notin s.flags[b]
    BY DEF With
  <1> QED BY <1>1, <1>2, <1>3, <1>4, <1>6, <1>7, CycleFromHeeded

\* A menu of windows is that of a client that is not ignored, where that matters.
Asked(s, tag, c) == Regular => Barred \/ tag # "menu-windows" \/ "IGNORE" \notin s.flags[c]

\* Commands on a client: called in a state of which everybody knows the truth, they leave
\* one.  Those that do not return leave the state that the handler found.
LEMMA OnClientHonest ==
  ASSUME Inv, Honest(state), NEW s, Sound(s), Honest(s), NEW c \in Client, s.group[c] # NULL,
         NEW tag, OnClient(s, tag, c), Asked(s, tag, c)
  PROVE  Honest(state')
  <1>0. s \in WindowStates
    BY DEF Sound
  <1>1. ASSUME NEW t, Steady(s, t), Continue(t) PROVE Honest(state')
    BY <1>1, SteadyHonest DEF Continue
  <1>2. ASSUME NEW how, Stop(how) PROVE Honest(state')
    BY <1>2 DEF Stop
  <1>3. Continue(s) => Honest(state')
    BY DEF Continue
  <1>4. CASE tag = "menu-windows" /\ function_menu_windows(s, c)
    <2> DEFINE g == s.group[c]
               Shown(w) == IF "HIDDEN" \in s.flags[w] THEN client_show(s, w) ELSE s
    <2>1. g \in GroupId /\ s.clients[g] \in Seq(Client)
      BY GroupHasDesktop DEF Sound, WindowStates
    <2>2. \/ Continue(s)
          \/ Stop("CRASHED")
          \/ \E w \in Range(s.clients[g]) \cap Normal :
               Continue(client_activate(Shown(w), w, TRUE))
      BY <1>4 DEF function_menu_windows
    <2>3. ASSUME NEW w \in Range(s.clients[g]) \cap Normal
          PROVE  Steady(s, client_activate(Shown(w), w, TRUE))
      <3>1. w \in Client
        BY <2>1 DEF Range
      <3>2. s.group[w] # NULL
        BY <2>1, <3>1, WindowStateAssumption DEF Sound, Linked
      <3>3. Shown(w) \in WindowStates /\ Same(s, Shown(w)) /\ Steady(s, Shown(w))
        BY <3>1, ShowSame, SameReflexive, ShowHideSteady, SteadyReflexive DEF Sound
      <3> HIDE DEF Shown
      <3>4. Sound(Shown(w)) /\ Shown(w).group[w] # NULL
        BY <3>2, <3>3, Frame DEF Same, Dropped
      <3>5. Regular => "IGNORE" \notin s.flags[w]
        <4>1. Fit(s, c) /\ Fit(s, w)
          BY <3>1, <3>2 DEF Honest
        <4>2. CASE Barred
          BY <4>1, <4>2 DEF Barred, Fit
        <4>3. CASE Labelled /\ "IGNORE" \notin s.flags[c]
          <5>1. s.group[w] = g
            BY <2>1, <3>1 DEF Sound, Linked
          <5>2. ClassOf[w] = ClassOf[c]
            BY <3>1, <3>2, <4>3, <5>1 DEF Honest, Names
          <5> QED BY <4>1, <4>3, <5>2 DEF Fit
        <4> QED BY <1>4, <4>2, <4>3 DEF Asked, Regular
      <3>6. Regular => "IGNORE" \notin Shown(w).flags[w]
        BY <3>1, <3>3, <3>5 DEF Steady
      <3> QED BY <3>1, <3>3, <3>4, <3>6, ActivateSteady, SteadyTransitive
    <2> HIDE DEF Shown
    <2> QED BY <1>1, <1>2, <1>3, <2>2, <2>3
  <1>5. CASE client_close(s, c)
    BY <1>0, <1>3, <1>5, DestroyedHonest DEF client_close
  <1>6. CASE function_window_cycle(s, c, 0) \/ function_window_cycle(s, c, 1)
    <2> DEFINE a == client_next(s, c)
               b == client_previous(s, c)
    <2>1. /\ a \in Client => s.group[a] # NULL /\ "IGNORE" \notin s.flags[a]
          /\ b \in Client => s.group[b] # NULL /\ "IGNORE" \notin s.flags[b]
      BY NextFound, NextHeeded
    <2>2. \/ a \in Client /\ Continue(client_activate(s, a, FALSE))
          \/ b \in Client /\ Continue(client_activate(s, b, FALSE))
          \/ Stop("HUNG")
          \/ Stop("CRASHED")
      BY <1>6 DEF function_window_cycle
    <2> HIDE DEF a, b
    <2> QED BY <1>1, <1>2, <2>1, <2>2, ActivateSteady
  <1>7. CASE function_window_move(s, c)
    <2>1. PICK moved \in BOOLEAN, scr \in Screen :
            LET dropped == client_move_resize(s, c, moved)
            IN  Continue(dropped) \/ Continue(screen_adopt(dropped, scr, c))
      BY <1>7 DEF function_window_move
    <2> DEFINE dropped == client_move_resize(s, c, moved)
    <2>2. dropped \in WindowStates /\ Same(s, dropped) /\ Steady(s, dropped)
      BY <1>0, MoveResizeSame, MoveResizeSteady
    <2>3. Continue(dropped) \/ Continue(screen_adopt(dropped, scr, c))
      BY <2>1
    <2> HIDE DEF dropped
    <2>4. Sound(dropped) /\ Honest(dropped) /\ dropped.group[c] # NULL
      BY <2>2, Frame, SteadyHonest DEF Same, Dropped
    <2>5. Honest(screen_adopt(dropped, scr, c))
      BY <2>4, AdoptHonest
    <2> QED BY <2>3, <2>4, <2>5 DEF Continue
  <1>8. CASE function_window_move_to_screen(s, c)
    <2>1. \/ Continue(s)
          \/ \E scr \in Screen : Continue(screen_adopt(s, scr, c))
      BY <1>8 DEF function_window_move_to_screen
    <2> QED BY <1>3, <2>1, AdoptHonest DEF Continue
  <1>9. CASE \/ function_window_resize(s, c)
             \/ function_window_center(s, c)
             \/ function_window_tile(s, c)
             \/ Continue(client_restore(s, c))
    <2>1. \E moved \in BOOLEAN : Continue(client_move_resize(s, c, moved))
      BY <1>9 DEF function_window_resize, function_window_center, function_window_tile,
                  client_restore
    <2> QED BY <1>0, <1>1, <2>1, MoveResizeSteady
  <1>10. CASE \/ Continue(client_toggle_fullscreen(s, c))
              \/ Continue(client_toggle_maximize(s, c))
              \/ Continue(client_hide(s, c))
    BY <1>0, <1>1, <1>10, ToggleFullscreenSteady, ToggleMaximizeSteady, ShowHideSteady
  <1> QED BY <1>4, <1>5, <1>6, <1>7, <1>8, <1>9, <1>10 DEF OnClient

\* Bound functions, for whichever client or without one.
LEMMA RunHonest ==
  ASSUME Inv, Honest(state), NEW s, Sound(s), Honest(s), NEW c \in Client \cup {NULL},
         NEW tag, c # NULL => s.group[c] # NULL /\ Asked(s, tag, c), NEW scr \in Screen,
         Run(s, tag, c, scr)
  PROVE  Honest(state')
  <1>1. CASE c # NULL /\ OnClient(s, tag, c)
    BY <1>1, OnClientHonest
  <1>2. CASE function_group_cycle(s, scr)
    <2> DEFINE d == CurrentDesktop(s, scr)
    <2>1. d \in Desktop /\ s.groups[d] \in Seq(GroupId)
      BY DEF CurrentDesktop, Desktop, Sound, WindowStates
    <2>2. \/ Continue(s)
          \/ \E g \in Range(s.groups[d]) : Continue(group_activate(s, g))
      BY <1>2 DEF function_group_cycle
    <2> HIDE DEF d
    <2>3. ASSUME NEW g \in Range(s.groups[d]) PROVE Honest(group_activate(s, g))
      <3>1. g \in GroupId
        BY <2>1 DEF Range
      <3>2. s.desktop[g] # NULL
        BY <2>1, <3>1, WindowStateAssumption DEF Sound, Linked
      <3> QED BY <3>1, <3>2, GroupActivateSteady, SteadyHonest
    <2> QED BY <2>2, <2>3 DEF Continue
  <1>3. CASE function_wm_state(s, "RESTART") \/ function_wm_state(s, "QUIT")
    BY <1>3 DEF function_wm_state
  <1> QED BY <1>1, <1>2, <1>3 DEF Run

-----------------------------------------------------------------------------
(* The event handlers *)

\* MapRequest is read: the window has a client, gets one, or is gone.
LEMMA MapRequestHonest ==
  ASSUME Inv, Honest(state), NEW c \in Client, event_handle_map_request(c)
  PROVE  Honest(state')
  <1>1. state \in WindowStates /\ Sound(state)
    BY DEF Inv, Sound
  <1>2. CASE state' # state
    <2> DEFINE Known(scr) == IF c \in Managed(state) THEN state
                             ELSE screen_adopt(client_init(state, c, scr), ScreenCount, c)
    <2>1. PICK scr \in Screen :
            LET shown == client_show([Known(scr) EXCEPT !.mapped[c] = TRUE], c)
                taken == IF "IGNORE" \in shown.flags[c] THEN shown
                         ELSE client_activate(shown, c, TRUE)
            IN  state' = GroupToTail(taken, taken.group[c])
      BY <1>2 DEF event_handle_map_request
    <2> DEFINE known == Known(scr)
               mapped == [known EXCEPT !.mapped[c] = TRUE]
               shown == client_show(mapped, c)
               taken == IF "IGNORE" \in shown.flags[c] THEN shown
                        ELSE client_activate(shown, c, TRUE)
    <2>2. state' = GroupToTail(taken, taken.group[c])
      BY <2>1
    <2>3. Sound(known) /\ known.group[c] # NULL /\ Honest(known)
      <3>1. CASE c \in Managed(state)
        BY <1>1, <3>1, ManagedHasGroup DEF Sound
      <3>2. CASE c \notin Managed(state)
        <4>1. state.group[c] = NULL
          BY <1>1, <3>2, ManagedHasGroup DEF Sound
        <4> DEFINE new == client_init(state, c, scr)
        <4>2. Sound(new) /\ new.group[c] # NULL /\ Honest(new)
          BY <1>1, <4>1, InitSound, InitHonest
        <4>3. ScreenCount \in Screen
          BY WindowStateAssumption DEF Screen
        <4>4. known = screen_adopt(new, ScreenCount, c)
          BY <3>2
        <4> HIDE DEF known, new
        <4>5. /\ Sound(screen_adopt(new, ScreenCount, c))
              /\ screen_adopt(new, ScreenCount, c).group[c] # NULL
          BY <4>2, <4>3, AdoptSound
        <4> QED BY <4>2, <4>3, <4>4, <4>5, AdoptHonest
      <3> QED BY <3>1, <3>2
    <2> HIDE DEF known
    <2>4. mapped \in WindowStates /\ Same(known, mapped) /\ Steady(known, mapped)
      <3>1. mapped \in WindowStates /\ Same(known, mapped)
        BY <2>3 DEF Sound, WindowStates, Same, Dropped, With
      <3>2. /\ mapped.life = known.life /\ mapped.flags = known.flags
            /\ mapped.netState = known.netState /\ mapped.group = known.group
            /\ mapped.desktop = known.desktop /\ mapped.name = known.name
        BY <2>3 DEF Sound, WindowStates
      <3> HIDE DEF mapped
      <3> QED BY <3>1, <3>2, UntouchedSteady
    <2> HIDE DEF mapped
    <2>5. shown \in WindowStates /\ Same(mapped, shown) /\ Steady(mapped, shown)
      BY <2>4, ShowSame, ShowHideSteady
    <2> HIDE DEF shown
    <2>6. Sound(shown) /\ shown.group[c] # NULL /\ Honest(shown)
      <3>1. Sound(mapped) /\ mapped.group[c] # NULL /\ Honest(mapped)
        BY <2>3, <2>4, Frame, SteadyHonest DEF Same, Dropped
      <3> QED BY <2>5, <3>1, Frame, SteadyHonest DEF Same, Dropped
    <2>7. Honest(taken) /\ taken \in WindowStates
      <3>1. Honest(client_activate(shown, c, TRUE)) \/ "IGNORE" \in shown.flags[c]
        BY <2>6, ActivateSteady, SteadyHonest
      <3>2. Sound(client_activate(shown, c, TRUE))
        BY <2>6, ActivateSound
      <3> QED BY <2>6, <3>1, <3>2 DEF Sound
    <2> HIDE DEF taken
    <2>8. /\ state'.life = taken.life /\ state'.flags = taken.flags
          /\ state'.netState = taken.netState /\ state'.group = taken.group
          /\ state'.desktop = taken.desktop /\ state'.name = taken.name
      BY <2>2, <2>7 DEF GroupToTail, WindowStates
    <2> QED BY <2>7, <2>8, UntouchedSteady, SteadyHonest
  <1> QED BY <1>2

\* The state in which a button press, on a client or on the root window, calls what is bound
\* to it.
LEMMA ButtonPressFinds ==
  ASSUME Inv, Honest(state), NEW w \in Client \cup {NULL}, NEW scr \in Screen,
         event_handle_button_press(w, scr)
  PROVE  \E s : \E c \in Client \cup {NULL} :
           /\ Sound(s) /\ Honest(s) /\ (c # NULL => s.group[c] # NULL)
           /\ Continue(s) \/ \E tag \in MouseBindings : Run(s, tag, c, scr)
  <1> DEFINE c      == IF w \in Managed(state) THEN w ELSE NULL
             tapped == screen_activate(state, scr)
             active == client_find_active(tapped)
             s      == IF c = NULL
                       THEN IF active = NULL THEN tapped ELSE client_deactivate(tapped, active)
                       ELSE IF tapped.flags[c] \cap {"ACTIVE", "IGNORE"} # {} THEN tapped
                       ELSE client_activate(tapped, c, TRUE)
  <1>1. state \in WindowStates /\ Sound(state)
    BY DEF Inv, Sound
  <1>2. c \in Client \cup {NULL} /\ (c # NULL => state.group[c] # NULL)
    BY <1>1, ManagedHasGroup DEF Sound
  <1>3. \/ Continue(s)
        \/ \E tag \in MouseBindings : Run(s, tag, c, scr)
    BY DEF event_handle_button_press
  <1> HIDE DEF c
  <1>4. tapped \in WindowStates /\ Same(state, tapped) /\ Steady(state, tapped)
    <2>1. tapped \in WindowStates /\ Same(state, tapped)
      BY <1>1 DEF screen_activate, WindowStates, Same, Dropped, With
    <2>2. /\ tapped.life = state.life /\ tapped.flags = state.flags
          /\ tapped.netState = state.netState /\ tapped.group = state.group
          /\ tapped.desktop = state.desktop /\ tapped.name = state.name
      BY <1>1 DEF screen_activate, WindowStates
    <2> HIDE DEF tapped
    <2> QED BY <2>1, <2>2, UntouchedSteady
  <1> HIDE DEF tapped
  <1>5. Sound(tapped) /\ tapped.group = state.group
    BY <1>1, <1>4, Frame DEF Same, Dropped
  <1>6. active \in Client \cup {NULL}
    BY <1>5, FindActive
  <1> HIDE DEF active
  <1>7. Sound(s) /\ s.group = state.group /\ Steady(tapped, s)
    <2>1. CASE s = tapped
      BY <1>5, <2>1, SteadyReflexive
    <2>2. CASE active # NULL /\ s = client_deactivate(tapped, active)
      <3>1. s \in WindowStates /\ Dropped(tapped, s)
        BY <1>5, <1>6, <2>2, DeactivateDropped
      <3>2. Sound(s)
        BY <1>5, <3>1, FrameDropped
      <3> QED BY <1>4, <1>5, <1>6, <2>2, <3>1, <3>2, DeactivateSteady DEF Dropped
    <2>3. CASE /\ c # NULL /\ "IGNORE" \notin tapped.flags[c]
               /\ s = client_activate(tapped, c, TRUE)
      <3> DEFINE t == client_activate(tapped, c, TRUE)
      <3>1. c \in Client /\ tapped.group[c] # NULL
        BY <1>2, <1>5, <2>3
      <3>2. Sound(t) /\ t.group = tapped.group /\ Steady(tapped, t)
        BY <1>5, <2>3, <3>1, ActivateSound, ActivateSteady
      <3> HIDE DEF t
      <3>3. s = t
        BY <2>3 DEF t
      <3> HIDE DEF s
      <3> QED BY <1>5, <3>2, <3>3
    <2> QED BY <2>1, <2>2, <2>3
  <1> HIDE DEF s
  <1>8. Honest(s)
    BY <1>4, <1>7, SteadyHonest
  <1>9. c # NULL => s.group[c] # NULL
    BY <1>2, <1>7
  <1> QED BY <1>2, <1>3, <1>7, <1>8, <1>9

\* ButtonPress is read.
LEMMA ButtonPressHonest ==
  ASSUME Inv, Honest(state), NEW w \in Client \cup {NULL}, NEW scr \in Screen,
         event_handle_button_press(w, scr)
  PROVE  Honest(state')
  <1>1. PICK s : \E c \in Client \cup {NULL} :
          /\ Sound(s) /\ Honest(s) /\ (c # NULL => s.group[c] # NULL)
          /\ Continue(s) \/ \E tag \in MouseBindings : Run(s, tag, c, scr)
    BY ButtonPressFinds
  <1>2. PICK c \in Client \cup {NULL} :
          /\ Sound(s) /\ Honest(s) /\ (c # NULL => s.group[c] # NULL)
          /\ Continue(s) \/ \E tag \in MouseBindings : Run(s, tag, c, scr)
    BY <1>1
  <1>3. ASSUME NEW tag \in MouseBindings
        PROVE  c # NULL => s.group[c] # NULL /\ Asked(s, tag, c)
    BY <1>2 DEF Asked, Regular
  <1> QED BY <1>2, <1>3, RunHonest DEF Continue

\* The other events.
LEMMA EventsHonest ==
  ASSUME Inv, Honest(state), Events
  PROVE  Honest(state')
  <1>1. state \in WindowStates /\ Sound(state)
    BY DEF Inv, Sound
  <1>2. ASSUME NEW c \in Managed(state) PROVE c \in Client /\ state.group[c] # NULL
    BY <1>1, ManagedHasGroup DEF Managed, Sound
  <1>3. ASSUME NEW t, Steady(state, t), Continue(t) PROVE Honest(state')
    BY <1>3, SteadyHonest DEF Continue
  <1>4. ASSUME NEW c \in Client, event_handle_destroy_notify(c) PROVE Honest(state')
    BY <1>1, <1>2, <1>4, RemoveHonest DEF event_handle_destroy_notify
  <1>5. ASSUME NEW c \in Client, event_handle_property_notify(c) PROVE Honest(state')
    BY <1>1, <1>2, <1>5, UpdateNameHonest, UrgentSteady, SteadyHonest
       DEF event_handle_property_notify
  <1>6. ASSUME NEW tag, event_handle_key_press(tag) PROVE Honest(state')
    <2> DEFINE c   == client_find_active(state)
               scr == IF c = NULL THEN state.active ELSE DesktopOf(state, c)[1]
    <2>1. c \in Client \cup {NULL} /\ (c # NULL => state.group[c] # NULL)
      BY <1>1, FindActive
    <2>2. Run(state, tag, c, scr)
      BY <1>6 DEF event_handle_key_press
    <2> HIDE DEF c
    <2>3. scr \in Screen
      <3>1. CASE c = NULL
        BY <1>1, <3>1 DEF WindowStates
      <3>2. CASE c # NULL
        <4>1. DesktopOf(state, c) \in Desktop
          BY <1>1, <2>1, <3>2, GroupHasDesktop DEF DesktopOf, Sound
        <4> QED BY <3>2, <4>1 DEF Desktop
      <3> QED BY <3>1, <3>2
    <2> HIDE DEF scr
    <2>4. c # NULL => Asked(state, tag, c)
      <3>1. c # NULL => c \in With(state, "ACTIVE")
        BY <1>1, FindActive DEF c
      <3> QED BY <2>1, <3>1 DEF Asked, Honest, With
    <2> QED BY <1>1, <2>1, <2>2, <2>3, <2>4, RunHonest
  <1>7. ASSUME event_handle_client_message PROVE Honest(state')
    <2>1. ASSUME NEW c \in Managed(state),
                 \/ Continue(client_hide(state, c))
                 \/ client_close(state, c)
                 \/ Continue(client_show(state, c))
          PROVE  Honest(state')
      BY <1>1, <1>2, <1>3, <2>1, ShowHideSteady, DestroyedHonest DEF client_close, Continue
    <2>2. ASSUME NEW c \in Managed(state), NEW action, NEW i \in DOMAIN Handlers,
                 NEW j \in DOMAIN Handlers,
                 Continue(ewmh_handle_net_wm_state_message(state, c, action, i, j))
          PROVE  Honest(state')
      BY <1>1, <1>2, <1>3, <2>2, StateMessageSteady
    <2>3. ASSUME NEW index, desktop_switch_to_index(index) PROVE Honest(state')
      BY <1>1, <1>3, <2>3, SwitchSteady DEF desktop_switch_to_index, Stop
    <2> QED BY <1>7, <2>1, <2>2, <2>3 DEF event_handle_client_message
  <1> QED BY <1>4, <1>5, <1>6, <1>7, MapRequestHonest, ButtonPressHonest DEF Events

-----------------------------------------------------------------------------
(* Every step, and the theorems *)

\* Every step keeps the invariant.
LEMMA NextHonest == Inv /\ Waiting /\ Honest(state) /\ [Next]_vars => Honest(state')
  BY OwnersHonest, MainHonest, EventsHonest DEF Next, vars

\* Hence it holds in every state.
LEMMA HonestHolds == Spec => [](Inv /\ Honest(state))
  <1>1. Inv /\ Waiting /\ Honest(state) /\ [Next]_vars => Inv' /\ Waiting' /\ Honest(state)'
    BY NextInv, NextWaiting, NextHonest
  <1> QED BY <1>1, InitInv, InitWaiting, InitBlank, PTL DEF Spec

\* Whoever reads _NET_WM_STATE of a client reads the flags the program acts on, whatever sets
\* them: keys, messages, the desktop switch, or the atoms that a window brings along.
THEOREM StateAlwaysPublished == Spec => []StatePublished
  <1>1. Inv /\ Honest(state) => StatePublished
    BY ManagedHasGroup DEF Inv, Sound, Honest, Fit, Told, StatePublished, AliveIn
  <1> QED BY <1>1, HonestHolds, PTL

\* Windows of ignored classes never take the activation, unless one is of type NORMAL and
\* picked from a menu of windows in which it can be.
THEOREM IgnoredNeverTakeOver ==
  ASSUME Regular
  PROVE  Spec => []IgnoredNeverActive
  <1>1. Inv /\ Honest(state) => IgnoredNeverActive
    BY DEF Inv, Sound, Honest, Fit, IgnoredNeverActive, With
  <1> QED BY <1>1, HonestHolds, PTL

\* On every desktop the groups are the classes, unless titles name groups.
THEOREM AlwaysOneGroupPerClass ==
  ASSUME Labelled
  PROVE  Spec => []OneGroupPerClass
  <1>1. ASSUME Inv, Honest(state), NEW d \in Desktop, NEW c \in ClientsOn(state, d)
        PROVE  /\ c \in Client /\ state.group[c] \in GroupId
               /\ state.desktop[state.group[c]] = d
               /\ state.name[state.group[c]] = ClassOf[c]
    <2>1. /\ Linked(state) /\ Names(state) /\ c \in Client
          /\ state.groups[d] \in Seq(GroupId) /\ NULL \notin GroupId
      BY <1>1, WindowStateAssumption DEF Inv, Sound, Honest, ClientsOn, WindowStates
    <2>2. PICK g \in Range(state.groups[d]) : c \in Range(state.clients[g])
      BY <1>1 DEF ClientsOn
    <2>3. g \in GroupId
      BY <2>1, <2>2 DEF Range
    <2>4. state.group[c] = g /\ state.desktop[g] = d
      BY <2>1, <2>2, <2>3 DEF Linked
    <2> QED BY <2>1, <2>3, <2>4 DEF Names
  <1>2. Inv /\ Honest(state) => OneGroupPerClass
    <2>1. Honest(state) => Names(state)
      BY DEF Honest
    <2>2. NULL \notin Desktop
      BY WindowStateAssumption
    <2> QED BY <1>1, <2>1, <2>2 DEF OneGroupPerClass, Names
  <1> QED BY <1>2, HonestHolds, PTL

\* The loop of client_next by the place of the client, in a queue that has each once.
LEMMA CycleFromAt ==
  ASSUME NEW q \in Seq(Client), IsInjective(q), NEW i \in 1 .. Len(q), NEW ignored
  PROVE  /\ i < Len(q) /\ q[i + 1] \in ignored => CycleFrom(q, q[i], ignored) = Never
         /\ i < Len(q) /\ q[i + 1] \notin ignored => CycleFrom(q, q[i], ignored) = q[i + 1]
         /\ i = Len(q) /\ q[1] \in ignored => CycleFrom(q, q[i], ignored) = NULL
         /\ i = Len(q) /\ q[1] \notin ignored => CycleFrom(q, q[i], ignored) = q[1]
  <1> DEFINE at == CHOOSE j \in DOMAIN q : q[j] = q[i]
  <1>1. at = i
    <2>1. i \in DOMAIN q
      OBVIOUS
    <2>2. at \in DOMAIN q /\ q[at] = q[i]
      BY <2>1
    <2> HIDE DEF at
    <2> QED BY <2>1, <2>2 DEF IsInjective
  <1>2. i < Len(q) <=> i # Len(q)
    <2>1. Len(q) \in Nat
      OBVIOUS
    <2> HIDE DEF at
    <2>2. \A n \in Nat : \A j \in 1 .. n : j < n <=> j # n
      OBVIOUS
    <2> QED BY <2>1, <2>2, Zenon
  <1>3. CycleFrom(q, q[i], ignored) =
          CASE at < Len(q) /\ q[at + 1] \in ignored    -> Never
            [] at < Len(q) /\ q[at + 1] \notin ignored -> q[at + 1]
            [] at = Len(q) /\ q[1] \in ignored         -> NULL
            [] at = Len(q) /\ q[1] \notin ignored      -> q[1]
    BY DEF CycleFrom
  <1> HIDE DEF at
  <1>4. CASE i < Len(q)
    BY <1>1, <1>2, <1>3, <1>4
  <1>5. CASE i = Len(q)
    BY <1>1, <1>2, <1>3, <1>5
  <1> QED BY <1>2, <1>4, <1>5

\* In a queue of which either all clients are ignored or none is, going on and coming back
\* leads to where one was.
LEMMA CycleBack ==
  ASSUME NEW q \in Seq(Client), IsInjective(q), NEW c \in Range(q), NEW ignored,
         Range(q) \subseteq ignored \/ Range(q) \cap ignored = {},
         CycleFrom(q, c, ignored) \in Client
  PROVE  CycleFrom([i \in DOMAIN q |-> q[Len(q) + 1 - i]], CycleFrom(q, c, ignored), ignored) = c
  <1> DEFINE n == Len(q)
             r == [i \in DOMAIN q |-> q[Len(q) + 1 - i]]
             next == CycleFrom(q, c, ignored)
  <1>1. n \in Nat /\ DOMAIN q = 1 .. n
    OBVIOUS
  <1>2. PICK i \in 1 .. n : q[i] = c
    BY <1>1 DEF Range
  <1>3. Range(q) \cap ignored = {}
    BY CycleFromHeeded, CycleFromFound
  <1>4. \A j \in 1 .. n : q[j] \in Client /\ q[j] \notin ignored
    BY <1>1, <1>3 DEF Range
  <1>5. r \in Seq(Client) /\ Len(r) = n /\ DOMAIN r = 1 .. n
    BY <1>1
  <1>6. \A j \in 1 .. n : r[j] = q[n + 1 - j] /\ n + 1 - j \in 1 .. n
    BY <1>1
  <1>7. \A j \in 1 .. n - 1 : j < n => CycleFrom(q, q[j], ignored) = q[j + 1]
    <2> SUFFICES ASSUME NEW j \in 1 .. n - 1 PROVE CycleFrom(q, q[j], ignored) = q[j + 1]
      OBVIOUS
    <2>1. j \in 1 .. n /\ j < n /\ j + 1 \in 1 .. n
      BY <1>1
    <2> QED BY <2>1, <1>4, CycleFromAt
  <1>8. n \in 1 .. n => CycleFrom(q, q[n], ignored) = q[1]
    <2>1. n \in 1 .. n => 1 \in 1 .. n
      BY <1>1
    <2> QED BY <2>1, <1>4, CycleFromAt
  <1> HIDE DEF r, next
  <1>9. IsInjective(r)
    <2> SUFFICES ASSUME NEW j \in 1 .. n, NEW k \in 1 .. n, r[j] = r[k] PROVE j = k
      BY <1>5 DEF IsInjective
    <2>1. n + 1 - j = n + 1 - k
      BY <1>1, <1>6 DEF IsInjective
    <2> QED BY <2>1, <1>1
  <1>10. CASE i < n
    <2>1. next = q[i + 1] /\ i \in 1 .. n - 1 /\ n - i \in 1 .. n /\ n - i < n
      BY <1>1, <1>2, <1>7, <1>10 DEF next
    <2>2. r[n - i] = next /\ r[n - i + 1] = c
      <3>1. n + 1 - (n - i) = i + 1 /\ n + 1 - (n - i + 1) = i /\ n - i + 1 \in 1 .. n
        BY <1>1, <2>1
      <3> QED BY <1>2, <1>6, <2>1, <3>1
    <2>3. CycleFrom(r, r[n - i], ignored) = r[n - i + 1]
      BY <1>2, <1>4, <1>5, <1>9, <2>1, <2>2, CycleFromAt
    <2> QED BY <2>2, <2>3 DEF r, next
  <1>11. CASE i = n
    <2>1. next = q[1] /\ n \in 1 .. n
      BY <1>2, <1>8, <1>11 DEF next
    <2>2. r[n] = next /\ r[1] = c
      <3>1. n + 1 - n = 1 /\ n + 1 - 1 = n /\ 1 \in 1 .. n
        BY <1>1, <2>1
      <3> QED BY <1>2, <1>6, <1>11, <2>1, <3>1
    <2>3. CycleFrom(r, r[n], ignored) = r[1]
      BY <1>2, <1>4, <1>5, <1>9, <1>11, <2>1, <2>2, CycleFromAt
    <2> QED BY <2>2, <2>3 DEF r, next
  <1>12. i < n \/ i = n
    <2>1. \A m \in Nat : \A j \in 1 .. m : j < m \/ j = m
      OBVIOUS
    <2> HIDE DEF n
    <2> QED BY <2>1, <1>1, <1>2, Zenon
  <1> QED BY <1>10, <1>11, <1>12

\* Cycling back undoes cycling on: a group is of one class, so all its clients are ignored or
\* none is.
THEOREM CycleAlwaysReversible ==
  ASSUME Labelled
  PROVE  Spec => []CycleIsReversible
  <1>1. ASSUME Inv, Honest(state), NEW c \in Managed(state), client_next(state, c) \in Client
        PROVE  client_previous(state, client_next(state, c)) = c
    <2> DEFINE g == state.group[c]
               q == state.clients[g]
               ignored == With(state, "IGNORE")
               next == client_next(state, c)
    <2>1. /\ Sound(state) /\ state \in WindowStates /\ Linked(state) /\ Names(state)
          /\ c \in Client /\ g # NULL
      BY <1>1, ManagedHasGroup DEF Inv, Sound, Honest, Managed
    <2>2. g \in GroupId /\ q \in Seq(Client) /\ NULL \notin GroupId
      BY <2>1, GroupHasDesktop, WindowStateAssumption DEF WindowStates
    <2>3. IsInjective(q) /\ c \in Range(q)
      BY <2>1, <2>2 DEF Linked
    <2>4. ASSUME NEW b \in Range(q)
          PROVE  /\ b \in Client /\ state.group[b] = g
                 /\ b \in ignored <=> ClassOf[c] \in Ignored
      <3>1. b \in Client
        BY <2>2 DEF Range
      <3>2. state.group[b] = g
        BY <2>1, <2>2, <3>1 DEF Linked
      <3>3. ClassOf[b] = ClassOf[c] /\ Fit(state, b)
        BY <1>1, <2>1, <2>2, <3>1, <3>2 DEF Names, Honest
      <3> QED BY <3>1, <3>2, <3>3 DEF Fit, With
    <2>5. Range(q) \subseteq ignored \/ Range(q) \cap ignored = {}
      BY <2>4
    <2>6. next = CycleFrom(q, c, ignored)
      BY DEF client_next
    <2> HIDE DEF ignored, q
    <2>7. next \in Range(q)
      BY <1>1, <2>2, <2>3, <2>6, CycleFromFound
    <2>8. state.group[next] = g
      BY <2>4, <2>7
    <2>9. client_previous(state, next)
            = CycleFrom([i \in DOMAIN q |-> q[Len(q) + 1 - i]], next, ignored)
      BY <2>8 DEF client_previous, q, ignored
    <2> HIDE DEF next
    <2> QED BY <1>1, <2>2, <2>3, <2>5, <2>6, <2>9, CycleBack DEF next
  <1>2. Inv /\ Honest(state) => CycleIsReversible
    BY <1>1 DEF CycleIsReversible
  <1> QED BY <1>2, HonestHolds, PTL

-----------------------------------------------------------------------------
(* What is on the screen *)

\* From s to t nothing appears, disappears, moves or is hidden, and who is active was active
\* before or has got the focus, or is left to take it.
Still(s, t) ==
  /\ t.viewable = s.viewable /\ t.desktop_index = s.desktop_index /\ t.life = s.life
  /\ \A c \in Client : t.group[c] # NULL =>
       /\ s.group[c] # NULL /\ DesktopOf(t, c) = DesktopOf(s, c)
       /\ t.mapped[c] = s.mapped[c]
       /\ "HIDDEN" \in t.flags[c] <=> "HIDDEN" \in s.flags[c]
  /\ \A c \in With(t, "ACTIVE") : \/ c \in With(s, "ACTIVE") /\ t.focus = s.focus
                                  \/ s.viewable[c] /\ c \in GivenFocus => t.focus = c

\* Who is active, on the screen and given the focus has it, or an owner has moved it since.
Focused(s) ==
  \A c \in With(s, "ACTIVE") \cap GivenFocus : s.viewable[c] => s.focus \in {c, Elsewhere}

\* A client on a current desktop, and one that group_map would pass over, is on the screen,
\* unless it is hidden or a MapRequest in q will put it there.
Anchored(s, q) ==
  \A c \in Client :
    /\ s.group[c] # NULL /\ Alive(s, c) /\ "HIDDEN" \notin s.flags[c]
    /\ s.mapped[c] \/ DesktopOf(s, c) = CurrentDesktop(s, DesktopOf(s, c)[1])
    => s.viewable[c] \/ <<"MapRequest", c>> \in q

\* Both survive whatever is still.
LEMMA StillKeeps ==
  ASSUME NEW s, NEW t, Still(s, t)
  PROVE  /\ Focused(s) => Focused(t)
         /\ \A q : Anchored(s, q) => Anchored(t, q)
  BY DEF Still, Focused, Anchored, CurrentDesktop, Alive

\* What changes nothing is still.
LEMMA StillReflexive == ASSUME NEW s PROVE Still(s, s)
  BY DEF Still

\* One still step after another is still.
LEMMA StillTransitive ==
  ASSUME NEW s, NEW t, NEW u, Still(s, t), Still(t, u)
  PROVE  Still(s, u)
  BY DEF Still

\* What touches only flags and properties, and neither CLIENT_HIDDEN nor CLIENT_ACTIVE.
LEMMA UntouchedStill ==
  ASSUME NEW s, NEW t, t.viewable = s.viewable, t.desktop_index = s.desktop_index,
         t.life = s.life, t.group = s.group, t.desktop = s.desktop, t.mapped = s.mapped,
         t.focus = s.focus,
         \A c \in Client : /\ "HIDDEN" \in t.flags[c] <=> "HIDDEN" \in s.flags[c]
                           /\ "ACTIVE" \in t.flags[c] => "ACTIVE" \in s.flags[c]
  PROVE  Still(s, t)
  BY DEF Still, DesktopOf, With

\* Flags of one client, published or not.
LEMMA FlagsStill ==
  ASSUME NEW s \in WindowStates, NEW c \in Client, NEW F,
         "HIDDEN" \in F <=> "HIDDEN" \in s.flags[c], "ACTIVE" \in F => "ACTIVE" \in s.flags[c]
  PROVE  /\ Still(s, SetFlags(s, c, F))
         /\ Still(s, ewmh_set_net_wm_state(SetFlags(s, c, F), c))
  <1> DEFINE t == SetFlags(s, c, F)
             u == ewmh_set_net_wm_state(t, c)
  <1>1. /\ t.viewable = s.viewable /\ t.desktop_index = s.desktop_index /\ t.life = s.life
        /\ t.group = s.group /\ t.desktop = s.desktop /\ t.mapped = s.mapped
        /\ t.focus = s.focus /\ t.flags = [s.flags EXCEPT ![c] = F]
    BY DEF SetFlags, WindowStates
  <1>2. /\ u.viewable = t.viewable /\ u.desktop_index = t.desktop_index /\ u.life = t.life
        /\ u.group = t.group /\ u.desktop = t.desktop /\ u.mapped = t.mapped
        /\ u.focus = t.focus /\ u.flags = t.flags
    BY DEF ewmh_set_net_wm_state, SetFlags, WindowStates
  <1> HIDE DEF t, u
  <1>3. \A b \in Client : /\ "HIDDEN" \in t.flags[b] <=> "HIDDEN" \in s.flags[b]
                          /\ "ACTIVE" \in t.flags[b] => "ACTIVE" \in s.flags[b]
    BY <1>1 DEF WindowStates
  <1>4. Still(s, t)
    BY <1>1, <1>3, UntouchedStill
  <1>5. Still(t, u)
    BY <1>2, UntouchedStill
  <1> QED BY <1>4, <1>5, StillTransitive DEF t, u

\* ewmh_set_net_wm_state alone.
LEMMA PublishStill ==
  ASSUME NEW s \in WindowStates, NEW c \in Client
  PROVE  Still(s, ewmh_set_net_wm_state(s, c))
  <1>1. SetFlags(s, c, s.flags[c]) = s
    BY DEF SetFlags, WindowStates
  <1> QED BY <1>1, FlagsStill

\* client_move_resize, client_toggle_fullscreen, client_toggle_maximize.
LEMMA ToggleSizeStill ==
  ASSUME NEW s \in WindowStates, NEW c \in Client, NEW reset \in BOOLEAN
  PROVE  /\ Still(s, client_move_resize(s, c, reset))
         /\ Still(s, client_toggle_fullscreen(s, c))
         /\ Still(s, client_toggle_maximize(s, c))
  <1> DEFINE A1 == s.flags[c] \ Maximized
             A2 == s.flags[c] \cup Maximized
             A3 == s.flags[c] \ {"FULLSCREEN", "FREEZE"}
             A4 == s.flags[c] \cup {"FULLSCREEN", "FREEZE"}
  <1>1. \A F \in {A1, A2, A3, A4} : /\ "HIDDEN" \in F <=> "HIDDEN" \in s.flags[c]
                                    /\ "ACTIVE" \in F => "ACTIVE" \in s.flags[c]
    BY DEF Maximized
  <1> HIDE DEF A1, A2, A3, A4
  <1>2. \A F \in {A1, A2, A3, A4} : Still(s, ewmh_set_net_wm_state(SetFlags(s, c, F), c))
    BY <1>1, FlagsStill
  <1> QED BY <1>2, StillReflexive
          DEF client_move_resize, client_toggle_fullscreen, client_toggle_maximize, A1, A2, A3, A4

\* CLIENT_URGENCY.
LEMMA UrgentStill ==
  ASSUME NEW s \in WindowStates, NEW c \in Client
  PROVE  /\ Still(s, client_toggle_urgent(s, c))
         /\ Still(s, client_update_wm_hints(s, c))
  <1> DEFINE F == s.flags[c] \cup {"URGENCY"}
  <1>1. /\ "HIDDEN" \in F <=> "HIDDEN" \in s.flags[c]
        /\ "ACTIVE" \in F => "ACTIVE" \in s.flags[c]
    OBVIOUS
  <1> HIDE DEF F
  <1>2. Still(s, SetFlags(s, c, F))
    BY <1>1, FlagsStill
  <1> QED BY <1>2, StillReflexive DEF client_toggle_urgent, client_update_wm_hints, F

\* The name of a group.
LEMMA UpdateNameStill ==
  ASSUME NEW s \in WindowStates, NEW c \in Client
  PROVE  Still(s, client_update_wm_name(s, c))
  <1> DEFINE t == client_update_wm_name(s, c)
  <1>1. /\ t.viewable = s.viewable /\ t.desktop_index = s.desktop_index /\ t.life = s.life
        /\ t.group = s.group /\ t.desktop = s.desktop /\ t.mapped = s.mapped
        /\ t.focus = s.focus /\ t.flags = s.flags
    BY DEF client_update_wm_name, WindowStates
  <1> HIDE DEF t
  <1>2. Still(s, t)
    BY <1>1, UntouchedStill
  <1> QED BY <1>2 DEF t

\* A message toggles any atom but HIDDEN.
LEMMA ToggleStill ==
  ASSUME NEW s \in WindowStates, NEW c \in Client, NEW atom \in Atom \ {"HIDDEN"}
  PROVE  Still(s, Toggle(s, c, atom))
  <1>1. Still(s, client_toggle_one_axis(s, c))
    BY PublishStill, StillReflexive DEF client_toggle_one_axis
  <1>2. Still(s, client_toggle_flag(s, c, atom))
    <2> DEFINE F == Flip(s.flags[c], {atom})
    <2>1. atom # "HIDDEN" /\ atom # "ACTIVE"
      BY DEF Atom, Maximized
    <2>2. /\ "HIDDEN" \in F <=> "HIDDEN" \in s.flags[c]
          /\ "ACTIVE" \in F => "ACTIVE" \in s.flags[c]
      BY <2>1 DEF Flip
    <2> HIDE DEF F
    <2>3. Still(s, ewmh_set_net_wm_state(SetFlags(s, c, F), c))
      BY <2>2, FlagsStill
    <2> QED BY <2>3 DEF client_toggle_flag, F
  <1> QED BY <1>1, <1>2, UrgentStill, ToggleSizeStill DEF Toggle

\* So does a _NET_WM_STATE message with one or two of them.
LEMMA StateMessageStill ==
  ASSUME NEW s \in WindowStates, NEW c \in Client, NEW action,
         NEW i \in DOMAIN Handlers, NEW j \in DOMAIN Handlers,
         "HIDDEN" \notin {Handlers[i], Handlers[j]}
  PROVE  Still(s, ewmh_handle_net_wm_state_message(s, c, action, i, j))
  <1>1. Handlers[i] \in Atom \ {"HIDDEN"} /\ Handlers[j] \in Atom \ {"HIDDEN"}
    BY DEF Handlers, Atom, Maximized
  <1> DEFINE first  == HandleAtom(s, c, action, Handlers[i])
             second == HandleAtom(first, c, action, Handlers[j])
  <1>2. first \in WindowStates /\ Still(s, first)
    BY <1>1, HandleAtomSame, ToggleStill, StillReflexive DEF HandleAtom
  <1> HIDE DEF first
  <1>3. Still(first, second)
    BY <1>1, <1>2, ToggleStill, StillReflexive DEF HandleAtom
  <1> QED BY <1>2, <1>3, StillTransitive DEF ewmh_handle_net_wm_state_message, first, second

\* client_deactivate.
LEMMA DeactivateStill ==
  ASSUME NEW s \in WindowStates, NEW c \in Client
  PROVE  Still(s, client_deactivate(s, c))
  <1> DEFINE F == s.flags[c] \ {"ACTIVE"}
             u == SetFlags(s, c, F)
             t == ewmh_set_net_active_window(u, c)
  <1>1. Still(s, u)
    BY FlagsStill
  <1>2. /\ t.viewable = u.viewable /\ t.desktop_index = u.desktop_index /\ t.life = u.life
        /\ t.group = u.group /\ t.desktop = u.desktop /\ t.mapped = u.mapped
        /\ t.focus = u.focus /\ t.flags = u.flags
    BY DEF SetFlags, ewmh_set_net_active_window, WindowStates
  <1>3. t = client_deactivate(s, c) \/ client_deactivate(s, c) = s
    BY DEF client_deactivate
  <1> HIDE DEF t, u
  <1>4. Still(u, t)
    BY <1>2, UntouchedStill
  <1> QED BY <1>1, <1>3, <1>4, StillReflexive, StillTransitive

\* TAILQ_REMOVE and TAILQ_INSERT_TAIL of a group.
LEMMA ToTailStill ==
  ASSUME NEW s \in WindowStates, NEW g
  PROVE  Still(s, GroupToTail(s, g))
  <1> DEFINE t == GroupToTail(s, g)
  <1>1. /\ t.viewable = s.viewable /\ t.desktop_index = s.desktop_index /\ t.life = s.life
        /\ t.group = s.group /\ t.desktop = s.desktop /\ t.mapped = s.mapped
        /\ t.focus = s.focus /\ t.flags = s.flags
    BY DEF GroupToTail, WindowStates
  <1> HIDE DEF t
  <1>2. Still(s, t)
    BY <1>1, UntouchedStill
  <1> QED BY <1>2 DEF t

\* client_activate gives the focus to its client if that is viewable.
LEMMA ActivateStill ==
  ASSUME NEW s, Sound(s), NEW c \in Client, s.group[c] # NULL, NEW requeue \in BOOLEAN
  PROVE  Still(s, client_activate(s, c, requeue)) /\ Focused(client_activate(s, c, requeue))
  <1> DEFINE current == client_find_active(s)
             taken   == current \notin {NULL, c}
             F == s.flags[current] \ {"ACTIVE"}
             unset   == IF taken THEN SetFlags(s, current, F) ELSE s
             raised  == IF taken /\ s.group[current] # s.group[c]
                        THEN GroupToTail(unset, s.group[c]) ELSE unset
             focused == IF c \in GivenFocus THEN XSetInputFocus(raised, c) ELSE raised
             queued  == IF requeue
                        THEN [focused EXCEPT !.clients[s.group[c]] = Requeue(@, c)]
                        ELSE focused
             G == (queued.flags[c] \cup {"ACTIVE"}) \ {"URGENCY"}
             t == ewmh_set_net_active_window(SetFlags(queued, c, G), c)
  <1>0. client_activate(s, c, requeue) = t
    BY DEF client_activate
  <1>1. s \in WindowStates /\ current \in Client \cup {NULL}
    BY FindActive DEF Sound
  <1> HIDE DEF current
  <1>2. Sound(unset) /\ unset \in WindowStates /\ Still(s, unset) /\ unset.desktop = s.desktop
    <2>1. CASE taken
      <3>1. current \in Client
        BY <1>1, <2>1
      <3>2. /\ F \in SUBSET Flag /\ ("ACTIVE" \in F => "ACTIVE" \in s.flags[current])
            /\ "HIDDEN" \in F <=> "HIDDEN" \in s.flags[current]
        BY <1>1, <3>1 DEF WindowStates
      <3> HIDE DEF F
      <3>3. SetFlags(s, current, F) \in WindowStates /\ Dropped(s, SetFlags(s, current, F))
        BY <1>1, <3>1, <3>2, SetFlagsDropped
      <3>4. Sound(SetFlags(s, current, F)) /\ Still(s, SetFlags(s, current, F))
        BY <1>1, <3>1, <3>2, <3>3, FrameDropped, FlagsStill
      <3> QED BY <2>1, <3>3, <3>4 DEF Dropped
    <2>2. CASE ~taken
      BY <1>1, <2>2, StillReflexive
    <2> QED BY <2>1, <2>2
  <1> HIDE DEF unset
  <1>3. /\ raised.viewable = unset.viewable /\ raised.desktop_index = unset.desktop_index
        /\ raised.life = unset.life /\ raised.group = unset.group
        /\ raised.desktop = unset.desktop /\ raised.mapped = unset.mapped
        /\ raised.flags = unset.flags
    BY <1>2 DEF GroupToTail, WindowStates
  <1> HIDE DEF raised
  <1>4. /\ focused.viewable = raised.viewable /\ focused.desktop_index = raised.desktop_index
        /\ focused.life = raised.life /\ focused.group = raised.group
        /\ focused.desktop = raised.desktop /\ focused.mapped = raised.mapped
        /\ focused.flags = raised.flags
        /\ raised.viewable[c] /\ c \in GivenFocus => focused.focus = c
    <2>1. raised \in WindowStates
      <3>1. s.group[c] \in GroupId /\ s.desktop[s.group[c]] # NULL
        BY GroupHasDesktop DEF Sound
      <3>2. Sound(raised)
        BY <1>2, <3>1, GroupToTailSound DEF raised
      <3> QED BY <3>2 DEF Sound
    <2> QED BY <2>1 DEF XSetInputFocus, WindowStates
  <1> HIDE DEF focused
  <1>5. /\ queued.viewable = focused.viewable /\ queued.desktop_index = focused.desktop_index
        /\ queued.life = focused.life /\ queued.group = focused.group
        /\ queued.desktop = focused.desktop /\ queued.mapped = focused.mapped
        /\ queued.flags = focused.flags /\ queued.focus = focused.focus
    OBVIOUS
  <1> HIDE DEF queued
  <1>6. /\ t.viewable = queued.viewable /\ t.desktop_index = queued.desktop_index
        /\ t.life = queued.life /\ t.group = queued.group
        /\ t.desktop = queued.desktop /\ t.mapped = queued.mapped
        /\ t.flags = [queued.flags EXCEPT ![c] = G] /\ t.focus = queued.focus
    BY DEF SetFlags, ewmh_set_net_active_window
  <1>7. "HIDDEN" \in G <=> "HIDDEN" \in unset.flags[c]
    BY <1>3, <1>4, <1>5
  <1>8. With(t, "ACTIVE") = {c}
    BY <1>0, ActivateSound
  <1> HIDE DEF t, G
  <1>9. /\ t.viewable = unset.viewable /\ t.desktop_index = unset.desktop_index
        /\ t.life = unset.life /\ t.group = unset.group /\ t.desktop = unset.desktop
        /\ t.mapped = unset.mapped
        /\ unset.viewable[c] /\ c \in GivenFocus => t.focus = c
    BY <1>3, <1>4, <1>5, <1>6
  <1>10. \A b \in Client : "HIDDEN" \in t.flags[b] <=> "HIDDEN" \in unset.flags[b]
    BY <1>2, <1>3, <1>4, <1>5, <1>6, <1>7 DEF WindowStates
  <1>11. Still(unset, t)
    BY <1>8, <1>9, <1>10 DEF Still, DesktopOf
  <1>12. Focused(t)
    BY <1>8, <1>9 DEF Focused
  <1> QED BY <1>0, <1>2, <1>11, <1>12, StillTransitive

\* group_activate.
LEMMA GroupActivateStill ==
  ASSUME NEW s, Sound(s), NEW g \in GroupId, s.desktop[g] # NULL
  PROVE  /\ Still(s, group_activate(s, g))
         /\ LastActivatable(s, g) # NULL => Focused(group_activate(s, g))
  <1> DEFINE tail == GroupToTail(s, g)
             c == LastActivatable(s, g)
  <1>1. Sound(tail) /\ tail.group = s.group /\ Still(s, tail)
    BY GroupToTailSound, ToTailStill DEF Reordered, Sound
  <1>2. c # NULL => c \in Client /\ s.group[c] = g
    BY LastActivatableFound DEF Sound
  <1>3. group_activate(s, g) = IF c = NULL THEN tail ELSE client_activate(tail, c, TRUE)
    BY DEF group_activate
  <1> HIDE DEF tail, c
  <1>4. c # NULL => /\ Still(tail, client_activate(tail, c, TRUE))
                    /\ Focused(client_activate(tail, c, TRUE))
    BY <1>1, <1>2, ActivateStill, WindowStateAssumption
  <1> QED BY <1>1, <1>3, <1>4, StillTransitive DEF c

-----------------------------------------------------------------------------
(* The functions that make, move and remove clients *)

\* A client that leaves its group, and a group that leaves its desktop, take nobody along.
LEMMA UnassignPlace ==
  ASSUME NEW s \in WindowStates, Linked(s), NEW c \in Client, s.group[c] # NULL
  PROVE  LET t == group_unassign(s, c)
         IN  /\ t.viewable = s.viewable /\ t.desktop_index = s.desktop_index
             /\ t.mapped = s.mapped /\ t.focus = s.focus
             /\ \A b \in Client \ {c} : s.group[b] # NULL => DesktopOf(t, b) = DesktopOf(s, b)
  <1> DEFINE g == s.group[c]
             d == s.desktop[g]
             rest == TAILQ_REMOVE(s.clients[g], c)
             left == [s EXCEPT !.clients[g] = rest, !.group[c] = NULL]
             gone == [left EXCEPT !.groups[d] = TAILQ_REMOVE(@, g), !.desktop[g] = NULL,
                                  !.name[g] = NoName]
  <1>0. /\ s.group \in [Client -> GroupId \cup {NULL}]
        /\ s.clients \in [GroupId -> Seq(Client)]
        /\ s.desktop \in [GroupId -> Desktop \cup {NULL}]
    BY DEF WindowStates
  <1>1. g \in GroupId
    BY GroupHasDesktop
  <1>2. c \in Range(s.clients[g]) /\ IsInjective(s.clients[g])
    BY <1>1 DEF Linked
  <1>3. Range(rest) = Range(s.clients[g]) \ {c}
    BY <1>0, <1>1, <1>2, RemoveOne
  <1>4. group_unassign(s, c) = IF rest # << >> THEN left ELSE gone
    BY <1>1, WindowStateAssumption DEF group_unassign
  <1> HIDE DEF rest
  <1>5. /\ left.viewable = s.viewable /\ left.desktop_index = s.desktop_index
        /\ left.mapped = s.mapped /\ left.focus = s.focus
        /\ left.group = [s.group EXCEPT ![c] = NULL] /\ left.desktop = s.desktop
        /\ gone.viewable = s.viewable /\ gone.desktop_index = s.desktop_index
        /\ gone.mapped = s.mapped /\ gone.focus = s.focus
        /\ gone.group = [s.group EXCEPT ![c] = NULL]
        /\ gone.desktop = [s.desktop EXCEPT ![g] = NULL]
    BY DEF WindowStates
  <1> HIDE DEF left, gone
  <1>6. rest = << >> => \A b \in Client \ {c} : s.group[b] # g
    BY <1>1, <1>3 DEF Linked, Range
  <1>7. ASSUME NEW b \in Client \ {c}, s.group[b] # NULL
        PROVE  /\ DesktopOf(left, b) = DesktopOf(s, b)
               /\ rest = << >> => DesktopOf(gone, b) = DesktopOf(s, b)
    BY <1>0, <1>5, <1>6, <1>7 DEF DesktopOf
  <1> QED BY <1>4, <1>5, <1>7

\* A client that joins a group on d moves to d, and nobody else moves.
LEMMA AssignPlace ==
  ASSUME NEW s \in WindowStates, Linked(s), NEW c \in Client, s.group[c] = NULL,
         NEW d \in Desktop
  PROVE  LET t == Assigned(s, d, c)
         IN  /\ t.viewable = s.viewable /\ t.desktop_index = s.desktop_index
             /\ t.mapped = s.mapped /\ t.focus = s.focus
             /\ DesktopOf(t, c) = d
             /\ \A b \in Client \ {c} : s.group[b] # NULL => DesktopOf(t, b) = DesktopOf(s, b)
  <1> DEFINE named == {g \in GroupId : s.name[g] = ClassOf[c]}
             same  == GroupNamed(s, d, ClassOf[c])
             fresh == CHOOSE g \in GroupId : s.clients[g] = << >>
             g == IF same # NULL THEN same ELSE fresh
             a == group_assign(s, d, c)
             t == [a EXCEPT !.desktop[a.group[c]] = d]
  <1>0. /\ s.group \in [Client -> GroupId \cup {NULL}]
        /\ s.desktop \in [GroupId -> Desktop \cup {NULL}]
        /\ s.groups \in [Desktop -> Seq(GroupId)]
        /\ NULL \notin GroupId /\ NULL \notin Desktop
    BY WindowStateAssumption DEF WindowStates
  <1>1. IF Range(s.groups[d]) \cap named = {} THEN same = NULL
        ELSE same \in Range(s.groups[d]) \cap named
    BY <1>0, FirstInFound DEF GroupNamed
  <1>2. fresh \in GroupId /\ s.clients[fresh] = << >>
    BY FreeGroup
  <1>3. Assigned(s, d, c) = t
    BY DEF Assigned
  <1>4. same # NULL => same \in GroupId /\ s.desktop[same] = d
    BY <1>1 DEF Linked
  <1>5. \A b \in Client : s.group[b] # fresh
    BY <1>2, NotEmpty DEF Linked
  <1>6. /\ a.viewable = s.viewable /\ a.desktop_index = s.desktop_index
        /\ a.mapped = s.mapped /\ a.focus = s.focus
        /\ a.group = [s.group EXCEPT ![c] = g] /\ a.desktop = s.desktop
    <2>1. CASE same # NULL
      <3> HIDE DEF same, fresh
      <3> QED BY <2>1 DEF group_assign, WindowStates, same
    <2>2. CASE same = NULL
      <3> HIDE DEF same, fresh
      <3> QED BY <2>2 DEF group_assign, WindowStates, same, fresh
    <2> QED BY <2>1, <2>2
  <1>7. g \in GroupId /\ \A b \in Client : s.group[b] = g => s.desktop[g] = d
    BY <1>2, <1>4, <1>5
  <1> HIDE DEF a, g, same, fresh
  <1>8. /\ t.viewable = s.viewable /\ t.desktop_index = s.desktop_index
        /\ t.mapped = s.mapped /\ t.focus = s.focus
        /\ t.group = [s.group EXCEPT ![c] = g] /\ t.desktop = [s.desktop EXCEPT ![g] = d]
    BY <1>0, <1>6
  <1> HIDE DEF t
  <1>9. DesktopOf(t, c) = d
    BY <1>0, <1>7, <1>8 DEF DesktopOf
  <1>10. ASSUME NEW b \in Client \ {c}, s.group[b] # NULL
         PROVE  DesktopOf(t, b) = DesktopOf(s, b)
    BY <1>0, <1>7, <1>8, <1>10 DEF DesktopOf
  <1> QED BY <1>3, <1>8, <1>9, <1>10

\* screen_adopt moves one client to the current desktop of the screen.
LEMMA AdoptPlace ==
  ASSUME NEW s, Sound(s), NEW scr \in Screen, NEW c \in Client
  PROVE  LET t == screen_adopt(s, scr, c)
         IN  /\ t.viewable = s.viewable /\ t.desktop_index = s.desktop_index
             /\ t.mapped = s.mapped /\ t.focus = s.focus
             /\ DesktopOf(t, c) = CurrentDesktop(s, scr)
             /\ \A b \in Client \ {c} : s.group[b] # NULL => DesktopOf(t, b) = DesktopOf(s, b)
  <1> DEFINE u == group_unassign(s, c)
             d == CurrentDesktop(s, scr)
  <1>1. d \in Desktop /\ s \in WindowStates /\ Linked(s)
    BY DEF CurrentDesktop, Desktop, Sound, WindowStates
  <1>2. /\ u \in WindowStates /\ Linked(u) /\ u.group = [s.group EXCEPT ![c] = NULL]
        /\ u.viewable = s.viewable /\ u.desktop_index = s.desktop_index
        /\ u.mapped = s.mapped /\ u.focus = s.focus
        /\ \A b \in Client \ {c} : s.group[b] # NULL => DesktopOf(u, b) = DesktopOf(s, b)
    <2>1. CASE s.group[c] = NULL
      <3>1. u = s
        BY <2>1 DEF group_unassign
      <3>2. s.group = [s.group EXCEPT ![c] = NULL]
        BY <1>1, <2>1 DEF WindowStates
      <3> QED BY <1>1, <3>1, <3>2
    <2>2. CASE s.group[c] # NULL
      BY <1>1, <2>2, UnassignLinked, UnassignPlace
    <2> QED BY <2>1, <2>2
  <1>3. screen_adopt(s, scr, c) = Assigned(u, d, c)
    BY DEF screen_adopt, Assigned
  <1> HIDE DEF u, d
  <1>4. u.group[c] = NULL /\ \A b \in Client \ {c} : u.group[b] = s.group[b]
    BY <1>1, <1>2 DEF WindowStates
  <1> DEFINE t == Assigned(u, d, c)
  <1>5. /\ t.viewable = u.viewable /\ t.desktop_index = u.desktop_index
        /\ t.mapped = u.mapped /\ t.focus = u.focus
        /\ DesktopOf(t, c) = d
        /\ \A b \in Client \ {c} : u.group[b] # NULL => DesktopOf(t, b) = DesktopOf(u, b)
    <2>1. /\ u \in WindowStates /\ Linked(u) /\ u.group[c] = NULL /\ d \in Desktop
      BY <1>1, <1>2, <1>4
    <2> QED BY <2>1, AssignPlace
  <1> HIDE DEF t
  <1>6. /\ t.viewable = s.viewable /\ t.desktop_index = s.desktop_index
        /\ t.mapped = s.mapped /\ t.focus = s.focus
        /\ DesktopOf(t, c) = d
        /\ \A b \in Client \ {c} : s.group[b] # NULL => DesktopOf(t, b) = DesktopOf(s, b)
    BY <1>2, <1>4, <1>5
  <1> QED BY <1>3, <1>6 DEF t, d

\* client_init makes a client of a window and leaves the window and the other clients alone.
LEMMA InitPlace ==
  ASSUME NEW s, Sound(s), NEW c \in Client, s.group[c] = NULL, NEW scr \in Screen
  PROVE  LET t == client_init(s, c, scr)
         IN  /\ t.viewable = s.viewable /\ t.desktop_index = s.desktop_index
             /\ t.focus = s.focus /\ t.mapped[c] = s.viewable[c]
             /\ \A b \in Client \ {c} :
                  /\ t.mapped[b] = s.mapped[b] /\ t.flags[b] = s.flags[b]
                  /\ s.group[b] # NULL => DesktopOf(t, b) = DesktopOf(s, b)
  <1> DEFINE fresh    == [s EXCEPT !.mapped[c] = s.viewable[c], !.flags[c] = {}]
             hinted   == client_update_wm_hints(fresh, c)
             adopted  == screen_adopt(hinted, scr, c)
             restored == ewmh_restore_net_wm_state(adopted, c)
             F        == restored.flags[c] \cup {"IGNORE"}
             bar      == SetFlags(restored, c, F)
  <1>1. /\ fresh \in WindowStates /\ Dropped(s, fresh)
        /\ fresh.mapped = [s.mapped EXCEPT ![c] = s.viewable[c]]
        /\ fresh.flags = [s.flags EXCEPT ![c] = {}] /\ fresh.viewable = s.viewable
        /\ fresh.desktop_index = s.desktop_index /\ fresh.focus = s.focus
    BY DEF Sound, WindowStates, Dropped, With
  <1> HIDE DEF fresh
  <1>2. hinted \in WindowStates /\ Same(fresh, hinted)
    BY <1>1, UpdateHintsSame
  <1>3. /\ \A b \in Client \ {c} : hinted.flags[b] = s.flags[b]
        /\ hinted.viewable = s.viewable /\ hinted.focus = s.focus
        /\ hinted.desktop_index = s.desktop_index /\ hinted.mapped = fresh.mapped
    BY <1>1 DEF client_update_wm_hints, SetFlags, WindowStates, Sound
  <1> HIDE DEF hinted
  <1>4. Sound(hinted) /\ hinted.group = s.group /\ hinted.desktop = s.desktop
    BY <1>1, <1>2, FrameDropped, Frame DEF Same, Dropped
  <1>5. /\ Sound(adopted) /\ adopted.flags = hinted.flags
        /\ \A b \in Client \ {c} : adopted.group[b] = hinted.group[b]
    BY <1>4, AdoptSound
  <1>6. /\ adopted.viewable = hinted.viewable /\ adopted.desktop_index = hinted.desktop_index
        /\ adopted.mapped = hinted.mapped /\ adopted.focus = hinted.focus
        /\ \A b \in Client \ {c} : hinted.group[b] # NULL =>
             DesktopOf(adopted, b) = DesktopOf(hinted, b)
    BY <1>4, AdoptPlace
  <1> HIDE DEF adopted
  <1>7. restored \in WindowStates
    BY <1>5, RestoreStateSame DEF Sound
  <1>8. /\ restored.viewable = adopted.viewable /\ restored.focus = adopted.focus
        /\ restored.desktop_index = adopted.desktop_index /\ restored.mapped = adopted.mapped
        /\ restored.group = adopted.group /\ restored.desktop = adopted.desktop
        /\ \A b \in Client \ {c} : restored.flags[b] = adopted.flags[b]
    BY <1>5 DEF ewmh_restore_net_wm_state, Sound, WindowStates
  <1> HIDE DEF restored
  <1>9. /\ bar.viewable = restored.viewable /\ bar.focus = restored.focus
        /\ bar.desktop_index = restored.desktop_index /\ bar.mapped = restored.mapped
        /\ bar.group = restored.group /\ bar.desktop = restored.desktop
        /\ \A b \in Client \ {c} : bar.flags[b] = restored.flags[b]
    BY <1>7 DEF SetFlags, WindowStates
  <1> HIDE DEF bar, F
  <1>10. client_init(s, c, scr) = IF ClassOf[c] \in Ignored THEN bar ELSE restored
    BY DEF client_init, fresh, hinted, adopted, restored, F, bar
  <1>11. ASSUME NEW t \in {bar, restored}
         PROVE  /\ t.viewable = s.viewable /\ t.desktop_index = s.desktop_index
                /\ t.focus = s.focus /\ t.mapped[c] = s.viewable[c]
                /\ \A b \in Client \ {c} :
                     /\ t.mapped[b] = s.mapped[b] /\ t.flags[b] = s.flags[b]
                     /\ s.group[b] # NULL => DesktopOf(t, b) = DesktopOf(s, b)
    <2>1. /\ t.viewable = s.viewable /\ t.desktop_index = s.desktop_index
          /\ t.focus = s.focus /\ t.mapped = fresh.mapped
          /\ t.group = adopted.group /\ t.desktop = adopted.desktop
      BY <1>3, <1>6, <1>8, <1>9, <1>11
    <2>2. \A b \in Client \ {c} : t.flags[b] = s.flags[b]
      BY <1>3, <1>5, <1>8, <1>9, <1>11
    <2>3. t.mapped[c] = s.viewable[c] /\ \A b \in Client \ {c} : t.mapped[b] = s.mapped[b]
      BY <1>1, <2>1 DEF Sound, WindowStates
    <2>4. \A b \in Client \ {c} : s.group[b] # NULL => DesktopOf(t, b) = DesktopOf(s, b)
      BY <1>4, <1>6, <2>1 DEF DesktopOf
    <2> QED BY <2>1, <2>2, <2>3, <2>4
  <1> QED BY <1>10, <1>11

\* client_remove forgets one client and activates another; no window is touched.
LEMMA RemoveStill ==
  ASSUME NEW s, Sound(s), NEW c \in Client, s.group[c] # NULL
  PROVE  Still(s, client_remove(s, c))
  <1> DEFINE g      == s.group[c]
             told   == IF "ACTIVE" \in s.flags[c] THEN ewmh_set_net_active_window(s, c) ELSE s
             u      == group_unassign(told, c)
             freed  == [u EXCEPT !.flags[c] = {}, !.mapped[c] = FALSE]
             tail   == TAILQ_LAST(freed.groups[s.desktop[g]])
             inGroup == LastActivatable(freed, g)
             inTail  == IF tail = NULL THEN NULL ELSE LastActivatable(freed, tail)
  <1>1. g \in GroupId /\ s.desktop[g] \in Desktop
    BY GroupHasDesktop DEF Sound
  <1>2. told \in WindowStates /\ Same(s, told) /\ told.flags = s.flags
        /\ told.viewable = s.viewable /\ told.desktop_index = s.desktop_index
        /\ told.mapped = s.mapped /\ told.focus = s.focus
    <2>1. "ACTIVE" \in s.flags[c] => s.netActive = c
      BY DEF Sound, With
    <2> QED BY <2>1 DEF Sound, ewmh_set_net_active_window, WindowStates, Same, Dropped, With
  <1>3. /\ Linked(told) /\ told.group = s.group /\ told.desktop = s.desktop
        /\ told.netActive = s.netActive /\ told.life = s.life
    BY <1>2, Frame DEF Sound, Same, Dropped
  <1> HIDE DEF told
  <1>4. /\ u \in WindowStates
        /\ Linked(u)
        /\ u.group = [s.group EXCEPT ![c] = NULL]
        /\ u.flags = s.flags
        /\ u.netActive = s.netActive
        /\ u.life = s.life
    BY <1>2, <1>3, UnassignLinked
  <1>5. /\ u.viewable = s.viewable /\ u.desktop_index = s.desktop_index
        /\ u.mapped = s.mapped /\ u.focus = s.focus
        /\ \A b \in Client \ {c} : s.group[b] # NULL => DesktopOf(u, b) = DesktopOf(s, b)
    <2>1. /\ u.viewable = told.viewable /\ u.desktop_index = told.desktop_index
          /\ u.mapped = told.mapped /\ u.focus = told.focus
          /\ \A b \in Client \ {c} : told.group[b] # NULL =>
               DesktopOf(u, b) = DesktopOf(told, b)
      BY <1>2, <1>3, UnassignPlace
    <2> HIDE DEF u
    <2> QED BY <1>2, <1>3, <2>1 DEF DesktopOf
  <1> HIDE DEF u
  <1>6. /\ freed \in WindowStates
        /\ freed.group = u.group
        /\ freed.clients = u.clients
        /\ freed.desktop = u.desktop
        /\ freed.groups = u.groups
        /\ freed.viewable = u.viewable
        /\ freed.desktop_index = u.desktop_index
        /\ freed.focus = u.focus
        /\ freed.mapped = [u.mapped EXCEPT ![c] = FALSE]
        /\ freed.flags = [u.flags EXCEPT ![c] = {}]
        /\ freed.netActive = u.netActive
        /\ freed.life = u.life
    BY <1>4 DEF WindowStates
  <1> HIDE DEF freed
  <1>7. Linked(freed)
    BY <1>4, <1>6 DEF Linked
  <1>8. \A b \in With(freed, "ACTIVE") : b # c /\ b \in With(s, "ACTIVE")
    BY <1>4, <1>6 DEF With, WindowStates
  <1>9. \A b \in With(freed, "ACTIVE") : freed.group[b] = s.group[b]
    BY <1>4, <1>6, <1>8 DEF Sound, WindowStates, With
  <1>10. Sound(freed)
    BY <1>4, <1>6, <1>7, <1>8, <1>9 DEF Sound
  <1>11. Still(s, freed)
    <2>1. freed.group[c] = NULL
      BY <1>4, <1>6 DEF WindowStates, Sound
    <2>2. \A b \in Client \ {c} : /\ freed.flags[b] = s.flags[b]
                                  /\ freed.mapped[b] = s.mapped[b]
                                  /\ freed.group[b] = s.group[b]
      BY <1>4, <1>5, <1>6 DEF WindowStates, Sound
    <2>3. \A b \in Client \ {c} : s.group[b] # NULL => DesktopOf(freed, b) = DesktopOf(s, b)
      BY <1>5, <1>6 DEF DesktopOf
    <2> QED BY <1>4, <1>5, <1>6, <1>8, <2>1, <2>2, <2>3 DEF Still
  <1>12. inGroup # NULL => inGroup \in Client /\ freed.group[inGroup] # NULL
    BY <1>1, <1>6, <1>7, LastActivatableFound, WindowStateAssumption
  <1>13. tail # NULL => tail \in GroupId
    <2>1. freed.groups[s.desktop[g]] \in Seq(GroupId)
      BY <1>1, <1>6 DEF WindowStates
    <2>2. tail # NULL => tail \in Range(freed.groups[s.desktop[g]])
      BY <2>1, LastFound
    <2> QED BY <2>1, <2>2 DEF Range
  <1>14. inTail # NULL => inTail \in Client /\ freed.group[inTail] # NULL
    BY <1>6, <1>7, <1>13, LastActivatableFound, WindowStateAssumption
  <1>15. \/ client_remove(s, c) = freed
         \/ inGroup # NULL /\ client_remove(s, c) = client_activate(freed, inGroup, TRUE)
         \/ inTail # NULL /\ client_remove(s, c) = client_activate(freed, inTail, TRUE)
    BY DEF client_remove, freed, u, told
  <1> HIDE DEF inGroup, inTail
  <1>16. ASSUME NEW b \in Client, freed.group[b] # NULL
         PROVE  Still(s, client_activate(freed, b, TRUE))
    BY <1>10, <1>11, <1>16, ActivateStill, StillTransitive
  <1> QED BY <1>11, <1>12, <1>14, <1>15, <1>16

-----------------------------------------------------------------------------
(* What is shown, hidden and destroyed *)

\* client_show and client_hide, what they do to the window and its flags.
LEMMA ShowHideEffect ==
  ASSUME NEW s \in WindowStates, NEW c \in Client
  PROVE  LET t == client_show(s, c)
             u == client_hide(s, c)
         IN  /\ t.viewable = [s.viewable EXCEPT ![c] = Alive(s, c)] /\ t.mapped = s.mapped
             /\ t.flags = [s.flags EXCEPT ![c] = @ \ {"HIDDEN"}] /\ t.life = s.life
             /\ t.group = s.group /\ t.desktop = s.desktop
             /\ t.desktop_index = s.desktop_index /\ t.focus = s.focus
             /\ u.viewable = [s.viewable EXCEPT ![c] = FALSE] /\ u.mapped = s.mapped
             /\ u.flags = [s.flags EXCEPT ![c] = @ \cup {"HIDDEN"}] /\ u.life = s.life
             /\ u.group = s.group /\ u.desktop = s.desktop
             /\ u.desktop_index = s.desktop_index
             /\ u.focus = IF s.focus = c THEN NULL ELSE s.focus
  BY DEF client_show, client_hide, XMapWindow, XUnmapWindow, SetFlags, ewmh_set_net_wm_state,
         WindowStates

\* A window that is shown is where it should be.
LEMMA ShowAnchored ==
  ASSUME NEW s \in WindowStates, NEW c \in Client, NEW q, Anchored(s, q)
  PROVE  Anchored(client_show(s, c), q \ {<<"MapRequest", c>>})
  <1> DEFINE t == client_show(s, c)
  <1>1. /\ t.viewable = [s.viewable EXCEPT ![c] = Alive(s, c)] /\ t.mapped = s.mapped
        /\ t.flags = [s.flags EXCEPT ![c] = @ \ {"HIDDEN"}] /\ t.life = s.life
        /\ t.group = s.group /\ t.desktop = s.desktop /\ t.desktop_index = s.desktop_index
    BY ShowHideEffect
  <1> HIDE DEF t
  <1>2. t.viewable[c] = Alive(t, c)
    BY <1>1 DEF WindowStates, Alive
  <1>3. \A b \in Client \ {c} : t.viewable[b] = s.viewable[b] /\ t.flags[b] = s.flags[b]
    BY <1>1 DEF WindowStates
  <1>4. Anchored(t, q \ {<<"MapRequest", c>>})
    BY <1>1, <1>2, <1>3 DEF Anchored, CurrentDesktop, DesktopOf, Alive
  <1> QED BY <1>4 DEF t

\* A window that is hidden is nowhere and has no focus.
LEMMA HideKeeps ==
  ASSUME NEW s \in WindowStates, NEW c \in Client
  PROVE  /\ Focused(s) => Focused(client_hide(s, c))
         /\ \A q : Anchored(s, q) => Anchored(client_hide(s, c), q)
  <1> DEFINE t == client_hide(s, c)
  <1>1. /\ t.viewable = [s.viewable EXCEPT ![c] = FALSE] /\ t.mapped = s.mapped
        /\ t.flags = [s.flags EXCEPT ![c] = @ \cup {"HIDDEN"}] /\ t.life = s.life
        /\ t.group = s.group /\ t.desktop = s.desktop /\ t.desktop_index = s.desktop_index
        /\ t.focus = IF s.focus = c THEN NULL ELSE s.focus
    BY ShowHideEffect
  <1> HIDE DEF t
  <1>2. ~t.viewable[c] /\ "HIDDEN" \in t.flags[c]
    BY <1>1 DEF WindowStates
  <1>3. \A b \in Client \ {c} : t.viewable[b] = s.viewable[b] /\ t.flags[b] = s.flags[b]
    BY <1>1 DEF WindowStates
  <1>4. Focused(s) => Focused(t)
    BY <1>1, <1>2, <1>3, WindowStateAssumption DEF Focused, With
  <1>5. \A q : Anchored(s, q) => Anchored(t, q)
    BY <1>1, <1>2, <1>3 DEF Anchored, CurrentDesktop, DesktopOf, Alive
  <1> QED BY <1>4, <1>5 DEF t

\* So is one that is destroyed.
LEMMA DestroyedKeeps ==
  ASSUME NEW s \in WindowStates, NEW c \in Client
  PROVE  /\ Focused(s) => Focused(Destroyed(s, c))
         /\ \A q, r : Anchored(s, q) /\ q \subseteq r => Anchored(Destroyed(s, c), r)
  <1> DEFINE t == Destroyed(s, c)
  <1>1. /\ t.viewable = [s.viewable EXCEPT ![c] = FALSE] /\ t.mapped = s.mapped
        /\ t.flags = s.flags /\ t.group = s.group /\ t.desktop = s.desktop
        /\ t.desktop_index = s.desktop_index
        /\ t.focus = IF s.focus = c THEN NULL ELSE s.focus
        /\ t.life[c] # "alive" /\ \A b \in Client \ {c} : t.life[b] = s.life[b]
    BY DEF Destroyed, WindowStates
  <1> HIDE DEF t
  <1>2. ~t.viewable[c] /\ \A b \in Client \ {c} : t.viewable[b] = s.viewable[b]
    BY <1>1 DEF WindowStates
  <1>3. Focused(s) => Focused(t)
    BY <1>1, <1>2, WindowStateAssumption DEF Focused, With
  <1>4. \A q, r : Anchored(s, q) /\ q \subseteq r => Anchored(t, r)
    BY <1>1, <1>2 DEF Anchored, CurrentDesktop, DesktopOf, Alive
  <1> QED BY <1>3, <1>4 DEF t

-----------------------------------------------------------------------------
(* Desktops *)

\* What a switch of desktops has done before it activates a group: the clients of the old
\* desktop that are neither sticky nor hidden are off, those of the new one that are not
\* mapped and not hidden are on.
LEMMA SwitchEffect ==
  ASSUME NEW s \in WindowStates, NEW d \in Desktop, NEW e \in Desktop
  PROVE  LET t == MapDesktop(UnmapDesktop(s, d), e)
             gone == Unmappable(s, d)
         IN  /\ t.group = s.group /\ t.desktop = s.desktop /\ t.life = s.life
             /\ t.desktop_index = s.desktop_index /\ t.clients = s.clients
             /\ t.groups = s.groups /\ t.active = s.active
             /\ t.focus = IF s.focus \in gone THEN NULL ELSE s.focus
             /\ \A c \in Client :
                  /\ t.mapped[c] <=> s.mapped[c] /\ c \notin gone
                  /\ "HIDDEN" \in t.flags[c] <=> "HIDDEN" \in s.flags[c]
                  /\ "ACTIVE" \in t.flags[c] <=> "ACTIVE" \in s.flags[c] /\ c \notin gone
                  /\ t.viewable[c] <=>
                       IF c \in ClientsOn(s, e) /\ ~t.mapped[c] /\ "HIDDEN" \notin s.flags[c]
                       THEN Alive(s, c) ELSE s.viewable[c] /\ c \notin gone
  <1> DEFINE gone == Unmappable(s, d)
             u == UnmapDesktop(s, d)
             t == MapDesktop(u, e)
  <1>1. /\ u.group = s.group /\ u.desktop = s.desktop /\ u.life = s.life
        /\ u.desktop_index = s.desktop_index /\ u.clients = s.clients
        /\ u.groups = s.groups /\ u.active = s.active
        /\ u.focus = IF s.focus \in gone THEN NULL ELSE s.focus
        /\ u.mapped = [c \in Client |-> s.mapped[c] /\ c \notin gone]
        /\ u.viewable = [c \in Client |-> s.viewable[c] /\ c \notin gone]
        /\ u.flags = [c \in Client |-> IF c \in gone THEN s.flags[c] \ {"ACTIVE"} ELSE s.flags[c]]
        /\ DOMAIN u = DOMAIN s
    BY DEF UnmapDesktop, WindowStates
  <1> HIDE DEF u, gone
  <1> DEFINE shown == {c \in ClientsOn(u, e) : ~u.mapped[c] /\ "HIDDEN" \notin u.flags[c]}
  <1>2. /\ t.group = u.group /\ t.desktop = u.desktop /\ t.life = u.life
        /\ t.desktop_index = u.desktop_index /\ t.clients = u.clients
        /\ t.groups = u.groups /\ t.active = u.active /\ t.focus = u.focus
        /\ t.mapped = u.mapped /\ t.flags = u.flags
        /\ t.viewable = [c \in Client |-> IF c \in shown THEN Alive(u, c) ELSE u.viewable[c]]
    BY <1>1 DEF MapDesktop, WindowStates
  <1>3. ClientsOn(u, e) = ClientsOn(s, e)
    BY <1>1 DEF ClientsOn
  <1> HIDE DEF t
  <1>4. ASSUME NEW c \in Client
        PROVE  /\ t.mapped[c] <=> s.mapped[c] /\ c \notin gone
               /\ "HIDDEN" \in t.flags[c] <=> "HIDDEN" \in s.flags[c]
               /\ "ACTIVE" \in t.flags[c] <=> "ACTIVE" \in s.flags[c] /\ c \notin gone
    <2>1. CASE c \in gone
      <3>1. ~u.mapped[c] /\ u.flags[c] = s.flags[c] \ {"ACTIVE"}
        BY <1>1, <2>1
      <3> QED BY <1>2, <2>1, <3>1
    <2>2. CASE c \notin gone
      <3>1. (u.mapped[c] <=> s.mapped[c]) /\ u.flags[c] = s.flags[c]
        BY <1>1, <2>2
      <3> QED BY <1>2, <2>2, <3>1
    <2> QED BY <2>1, <2>2
  <1>5. ASSUME NEW c \in Client
        PROVE  t.viewable[c] <=>
                 IF c \in ClientsOn(s, e) /\ ~t.mapped[c] /\ "HIDDEN" \notin s.flags[c]
                 THEN Alive(s, c) ELSE s.viewable[c] /\ c \notin gone
    <2>1. u.viewable[c] <=> s.viewable[c] /\ c \notin gone
      BY <1>1
    <2>2. c \in shown <=> c \in ClientsOn(s, e) /\ ~t.mapped[c] /\ "HIDDEN" \notin s.flags[c]
      BY <1>2, <1>3, <1>4
    <2>3. t.viewable[c] = IF c \in shown THEN Alive(u, c) ELSE u.viewable[c]
      BY <1>2
    <2>4. Alive(u, c) <=> Alive(s, c)
      BY <1>1 DEF Alive
    <2> HIDE DEF shown
    <2> QED BY <2>1, <2>2, <2>3, <2>4
  <1> QED BY <1>1, <1>2, <1>4, <1>5 DEF t, u, gone

\* A client is on the desktop of its group.
LEMMA OnDesktop ==
  ASSUME NEW s \in WindowStates, Linked(s), NEW c \in Client, NEW d \in Desktop
  PROVE  c \in ClientsOn(s, d) <=> s.group[c] # NULL /\ DesktopOf(s, c) = d
  <1>0. /\ s.group \in [Client -> GroupId \cup {NULL}]
        /\ s.groups \in [Desktop -> Seq(GroupId)] /\ NULL \notin GroupId
    BY WindowStateAssumption DEF WindowStates
  <1>1. ASSUME c \in ClientsOn(s, d) PROVE s.group[c] # NULL /\ DesktopOf(s, c) = d
    <2>1. PICK g \in Range(s.groups[d]) : c \in Range(s.clients[g])
      BY <1>1 DEF ClientsOn
    <2>2. g \in GroupId
      BY <1>0, <2>1 DEF Range
    <2>3. s.group[c] = g /\ s.desktop[g] = d
      BY <2>1, <2>2 DEF Linked
    <2> QED BY <1>0, <2>2, <2>3 DEF DesktopOf
  <1>2. ASSUME s.group[c] # NULL, DesktopOf(s, c) = d PROVE c \in ClientsOn(s, d)
    <2>1. s.group[c] \in GroupId
      BY <1>0, <1>2
    <2>2. c \in Range(s.clients[s.group[c]]) /\ s.group[c] \in Range(s.groups[d])
      BY <1>2, <2>1 DEF Linked, DesktopOf
    <2> QED BY <2>2 DEF ClientsOn
  <1> QED BY <1>1, <1>2

\* A switch of desktops shows every client of the new desktop that is not hidden.
LEMMA SwitchAnchored ==
  ASSUME NEW s, Sound(s), NEW i \in 0 .. DesktopCount - 1, NEW q, Anchored(s, q),
         NEW m, m = MapDesktop(UnmapDesktop(s, CurrentDesktop(s, s.active)), <<s.active, i>>),
         NEW t, t.viewable = m.viewable, t.life = m.life,
         t.desktop_index = [m.desktop_index EXCEPT ![s.active] = i],
         \A c \in Client : t.group[c] # NULL =>
           /\ m.group[c] # NULL /\ DesktopOf(t, c) = DesktopOf(m, c)
           /\ t.mapped[c] = m.mapped[c]
           /\ "HIDDEN" \in t.flags[c] <=> "HIDDEN" \in m.flags[c]
  PROVE  Anchored(t, q)
  <1> DEFINE old == CurrentDesktop(s, s.active)
             d == <<s.active, i>>
             gone == Unmappable(s, old)
  <1>1. /\ s \in WindowStates /\ Linked(s) /\ s.active \in Screen
        /\ old \in Desktop /\ d \in Desktop /\ s.desktop_index \in [Screen -> 0 .. DesktopCount - 1]
    BY DEF CurrentDesktop, Desktop, Sound, WindowStates
  <1>2. /\ m.group = s.group /\ m.desktop = s.desktop /\ m.life = s.life
        /\ m.desktop_index = s.desktop_index
        /\ \A c \in Client :
             /\ m.mapped[c] <=> s.mapped[c] /\ c \notin gone
             /\ "HIDDEN" \in m.flags[c] <=> "HIDDEN" \in s.flags[c]
             /\ m.viewable[c] <=>
                  IF c \in ClientsOn(s, d) /\ ~m.mapped[c] /\ "HIDDEN" \notin s.flags[c]
                  THEN Alive(s, c) ELSE s.viewable[c] /\ c \notin gone
    BY <1>1, SwitchEffect
  <1> SUFFICES ASSUME NEW c \in Client, t.group[c] # NULL, Alive(t, c), "HIDDEN" \notin t.flags[c],
                      t.mapped[c] \/ DesktopOf(t, c) = CurrentDesktop(t, DesktopOf(t, c)[1])
               PROVE  t.viewable[c] \/ <<"MapRequest", c>> \in q
    BY DEF Anchored
  <1> DEFINE e == DesktopOf(s, c)
  <1>3. /\ s.group[c] # NULL /\ Alive(s, c) /\ "HIDDEN" \notin s.flags[c]
        /\ DesktopOf(t, c) = e /\ (t.mapped[c] <=> s.mapped[c] /\ c \notin gone)
        /\ t.viewable[c] <=> IF c \in ClientsOn(s, d) /\ ~t.mapped[c]
                             THEN Alive(s, c) ELSE s.viewable[c] /\ c \notin gone
    BY <1>2 DEF DesktopOf, Alive
  <1>4. e \in Desktop /\ e[1] \in Screen
    BY <1>1, <1>3, GroupHasDesktop DEF DesktopOf, Desktop
  <1>5. /\ c \in ClientsOn(s, d) <=> e = d
        /\ c \in gone => e = old
    BY <1>1, <1>3, <1>4, OnDesktop DEF Unmappable
  <1>6. s.mapped[c] \/ e = CurrentDesktop(s, e[1]) => s.viewable[c] \/ <<"MapRequest", c>> \in q
    BY <1>3 DEF Anchored
  <1>7. e # d => (e = CurrentDesktop(t, e[1]) => e = CurrentDesktop(s, e[1]) /\ e[1] # s.active)
    BY <1>1, <1>2, <1>4 DEF CurrentDesktop
  <1>8. c \in gone => e[1] = s.active
    BY <1>5 DEF CurrentDesktop
  <1> HIDE DEF e, d, gone
  <1>9. CASE e = d
    BY <1>3, <1>5, <1>6, <1>9
  <1>10. CASE e # d
    BY <1>3, <1>5, <1>6, <1>7, <1>8, <1>10
  <1> QED BY <1>9, <1>10

\* The windows that a switch shows are not active before it activates one, unless nobody heeds
\* them.
LEMMA SwitchFocused ==
  ASSUME NEW s, Sound(s), Honest(s), Regular, Focused(s), NEW d \in Desktop, NEW e \in Desktop,
         NEW m, m = MapDesktop(UnmapDesktop(s, d), e), Steady(s, m),
         \A g \in Range(m.groups[e]) : ~group_can_activate(m, g)
  PROVE  Focused(m)
  <1> DEFINE gone == Unmappable(s, d)
  <1>1. s \in WindowStates /\ Linked(s) /\ s.groups[e] \in Seq(GroupId)
    BY DEF Sound, WindowStates
  <1>2. /\ m.groups = s.groups /\ m.clients = s.clients
        /\ m.focus = IF s.focus \in gone THEN NULL ELSE s.focus
        /\ \A c \in Client :
             /\ "ACTIVE" \in m.flags[c] <=> "ACTIVE" \in s.flags[c] /\ c \notin gone
             /\ m.viewable[c] <=>
                  IF c \in ClientsOn(s, e) /\ ~m.mapped[c] /\ "HIDDEN" \notin s.flags[c]
                  THEN Alive(s, c) ELSE s.viewable[c] /\ c \notin gone
    BY <1>1, SwitchEffect
  <1>3. ASSUME NEW c \in ClientsOn(s, e) PROVE "ACTIVE" \notin m.flags[c]
    <2>1. PICK g \in Range(m.groups[e]) : c \in Range(m.clients[g])
      BY <1>2 DEF ClientsOn
    <2>2. c \in Client /\ "IGNORE" \in m.flags[c]
      BY <2>1 DEF group_can_activate, With, ClientsOn
    <2>3. "IGNORE" \in s.flags[c]
      BY <2>2 DEF Steady
    <2> QED BY <1>2, <2>2, <2>3 DEF Honest
  <1>4. Elsewhere \notin gone
    BY WindowStateAssumption DEF Unmappable, ClientsOn
  <1> HIDE DEF gone
  <1> QED BY <1>2, <1>3, <1>4 DEF Focused, With, ClientsOn

\* Nothing but the program itself takes a window off the screen or shows it, and it shows
\* windows only to activate them.
Obeyed == Regular /\ ~Withdrawals /\ "_NET_ACTIVE_WINDOW" \notin Messages

\* Clients are made of windows that are being mapped, and from then on only the program takes
\* them off the screen and marks them hidden; keys do not move them to other screens.
Watched ==
  /\ FirstWindows = {} /\ "restart" \notin KeyBindings \cup MouseBindings
  /\ ~Withdrawals /\ "HIDDEN" \notin NetMessages
  /\ ScreenCount = 1 \/ {"window-move", "window-move-to-screen"} \cap KeyBindings = {}

\* What every function keeps of the screen, with the MapRequests q.
Visibly(s, q) == (Obeyed => Focused(s)) /\ (Watched => Anchored(s, q))

\* Still steps do.
LEMMA StillVisibly ==
  ASSUME NEW s, NEW t, Still(s, t), NEW q, Visibly(s, q)
  PROVE  Visibly(t, q)
  BY StillKeeps DEF Visibly

\* A switch of desktops.
LEMMA SwitchVisibly ==
  ASSUME NEW s, Sound(s), Honest(s), NEW i \in 0 .. DesktopCount - 1, NEW q, Visibly(s, q)
  PROVE  Visibly(SwitchTo(s, i), q)
  <1> DEFINE old == CurrentDesktop(s, s.active)
             d == <<s.active, i>>
             unmapped == UnmapDesktop(s, old)
             mapped == MapDesktop(unmapped, d)
             g == LastIn(mapped.groups[d], {h \in GroupId : group_can_activate(mapped, h)})
             activated == IF g = NULL THEN mapped ELSE group_activate(mapped, g)
             indexed == [activated EXCEPT !.desktop_index[s.active] = i]
             t == ewmh_set_net_current_desktop(indexed)
  <1>1. old \in Desktop /\ d \in Desktop /\ s \in WindowStates
    BY DEF CurrentDesktop, Desktop, Sound, WindowStates
  <1>2. SwitchTo(s, i) = t
    BY DEF SwitchTo
  <1>3. unmapped \in WindowStates /\ Dropped(s, unmapped) /\ Steady(s, unmapped)
    BY <1>1, UnmapDesktopDropped, UnmapDesktopSteady
  <1>4. mapped \in WindowStates /\ Same(unmapped, mapped) /\ Steady(unmapped, mapped)
    <2> HIDE DEF unmapped, d
    <2>1. /\ mapped.life = unmapped.life /\ mapped.flags = unmapped.flags
          /\ mapped.netState = unmapped.netState /\ mapped.group = unmapped.group
          /\ mapped.desktop = unmapped.desktop /\ mapped.name = unmapped.name
      BY <1>3 DEF MapDesktop, WindowStates
    <2>2. Steady(unmapped, mapped)
      BY <2>1, UntouchedSteady
    <2> QED BY <1>1, <1>3, <2>2, MapDesktopSame
  <1>5. Sound(mapped) /\ Steady(s, mapped)
    <2> HIDE DEF mapped, unmapped
    <2> QED BY <1>3, <1>4, FrameDropped, Frame, SteadyTransitive
  <1>6. mapped = MapDesktop(UnmapDesktop(s, CurrentDesktop(s, s.active)), <<s.active, i>>)
    OBVIOUS
  <1> HIDE DEF unmapped, mapped
  <1>7. IF Range(mapped.groups[d]) \cap {h \in GroupId : group_can_activate(mapped, h)} = {}
        THEN g = NULL
        ELSE g \in Range(mapped.groups[d]) \cap {h \in GroupId : group_can_activate(mapped, h)}
    <2>1. mapped.groups[d] \in Seq(GroupId)
      BY <1>1, <1>4 DEF WindowStates
    <2> QED BY <2>1, LastInFound
  <1> HIDE DEF g
  <1>8. g # NULL => /\ g \in GroupId /\ mapped.desktop[g] # NULL
                    /\ LastActivatable(mapped, g) # NULL
    <2> SUFFICES ASSUME g # NULL
                 PROVE  /\ g \in GroupId /\ mapped.desktop[g] # NULL
                        /\ LastActivatable(mapped, g) # NULL
      OBVIOUS
    <2>1. g \in Range(mapped.groups[d]) /\ g \in GroupId /\ group_can_activate(mapped, g)
      BY <1>7
    <2>2. mapped.desktop[g] = d
      BY <1>1, <1>5, <2>1 DEF Sound, Linked
    <2>3. mapped.clients[g] \in Seq(Client)
      BY <1>4, <2>1 DEF WindowStates
    <2>4. Range(mapped.clients[g]) \cap (Client \ With(mapped, "IGNORE")) # {}
      BY <2>1, <2>3 DEF group_can_activate, Range
    <2>5. LastActivatable(mapped, g) \in Client
      BY <2>3, <2>4, LastInFound DEF LastActivatable
    <2> QED BY <1>1, <2>1, <2>2, <2>5, WindowStateAssumption
  <1>9. /\ Still(mapped, activated) /\ activated \in WindowStates
        /\ g # NULL => Focused(activated)
    <2>1. g # NULL => /\ Sound(group_activate(mapped, g))
                      /\ Still(mapped, group_activate(mapped, g))
                      /\ Focused(group_activate(mapped, g))
      BY <1>5, <1>8, GroupActivateSound, GroupActivateStill
    <2> QED BY <1>4, <2>1, StillReflexive DEF Sound
  <1>10. Obeyed => Focused(activated)
    <2>1. CASE g # NULL
      BY <1>9, <2>1
    <2>2. CASE g = NULL
      <3>1. \A h \in Range(mapped.groups[d]) : ~group_can_activate(mapped, h)
        <4>1. mapped.groups[d] \in Seq(GroupId)
          BY <1>1, <1>4 DEF WindowStates
        <4>2. g \notin Range(mapped.groups[d])
          BY <2>2, <4>1, WindowStateAssumption DEF Range
        <4>3. Range(mapped.groups[d]) \cap {h \in GroupId : group_can_activate(mapped, h)} = {}
          BY <1>7, <4>2
        <4>4. Range(mapped.groups[d]) \subseteq GroupId
          BY <4>1 DEF Range
        <4> QED BY <4>3, <4>4
      <3>2. Obeyed => Focused(s) /\ Regular
        BY DEF Visibly, Obeyed
      <3>3. mapped = MapDesktop(UnmapDesktop(s, old), d)
        BY <1>6
      <3>4. Obeyed => Focused(mapped)
        <4> HIDE DEF old, d
        <4> QED BY <1>1, <1>5, <3>1, <3>2, <3>3, SwitchFocused
      <3> QED BY <2>2, <3>4
    <2> QED BY <2>1, <2>2
  <1> HIDE DEF activated
  <1>11. /\ t.viewable = activated.viewable /\ t.life = activated.life
         /\ t.desktop_index = [activated.desktop_index EXCEPT ![s.active] = i]
         /\ t.group = activated.group /\ t.desktop = activated.desktop
         /\ t.mapped = activated.mapped /\ t.flags = activated.flags
         /\ t.focus = activated.focus
    BY <1>9 DEF ewmh_set_net_current_desktop, WindowStates
  <1> HIDE DEF t
  <1>12. Obeyed => Focused(t)
    BY <1>10, <1>11 DEF Focused, With
  <1>13. /\ t.viewable = mapped.viewable /\ t.life = mapped.life
         /\ t.desktop_index = [mapped.desktop_index EXCEPT ![s.active] = i]
         /\ \A c \in Client : t.group[c] # NULL =>
              /\ mapped.group[c] # NULL /\ DesktopOf(t, c) = DesktopOf(mapped, c)
              /\ t.mapped[c] = mapped.mapped[c]
              /\ "HIDDEN" \in t.flags[c] <=> "HIDDEN" \in mapped.flags[c]
    BY <1>9, <1>11 DEF Still, DesktopOf
  <1>14. Anchored(s, q) => Anchored(t, q)
    BY <1>6, <1>13, SwitchAnchored
  <1> QED BY <1>2, <1>12, <1>14 DEF Visibly

-----------------------------------------------------------------------------
(* The functions that keys and buttons are bound to *)

\* A client is moved to the current desktop of a screen, where it belongs on the screen.
LEMMA AdoptVisibly ==
  ASSUME NEW s, Sound(s), NEW scr \in Screen, NEW c \in Client, s.group[c] # NULL,
         NEW q, Visibly(s, q), Watched => s.viewable[c]
  PROVE  Visibly(screen_adopt(s, scr, c), q)
  <1> DEFINE t == screen_adopt(s, scr, c)
  <1>1. /\ t.flags = s.flags /\ t.life = s.life
        /\ \A b \in Client \ {c} : t.group[b] = s.group[b]
    BY AdoptSound
  <1>2. /\ t.viewable = s.viewable /\ t.desktop_index = s.desktop_index
        /\ t.mapped = s.mapped /\ t.focus = s.focus
        /\ \A b \in Client \ {c} : s.group[b] # NULL => DesktopOf(t, b) = DesktopOf(s, b)
    BY AdoptPlace
  <1> HIDE DEF t
  <1>3. Focused(s) => Focused(t)
    BY <1>1, <1>2 DEF Focused, With
  <1>4. Watched => Anchored(t, q)
    BY <1>1, <1>2 DEF Visibly, Anchored, Alive, CurrentDesktop
  <1> QED BY <1>3, <1>4 DEF Visibly, t

\* Commands on a client.  A move to another screen is one by mouse.
LEMMA OnClientVisibly ==
  ASSUME NEW s, Sound(s), Visibly(s, queue), Visibly(state, queue),
         NEW c \in Client, s.group[c] # NULL,
         NEW tag, OnClient(s, tag, c),
         Watched /\ tag \in {"window-move", "window-move-to-screen"} =>
           ScreenCount = 1 \/ s.viewable[c]
  PROVE  Visibly(state', queue')
  <1>0. s \in WindowStates
    BY DEF Sound
  <1>1. ASSUME NEW t, Still(s, t), Continue(t) PROVE Visibly(state', queue')
    BY <1>1, StillVisibly DEF Continue
  <1>2. ASSUME NEW how, Stop(how) PROVE Visibly(state', queue')
    BY <1>2 DEF Stop
  <1>3. Continue(s) => Visibly(state', queue')
    BY DEF Continue
  <1>4. CASE function_menu_windows(s, c)
    <2> DEFINE g == s.group[c]
               Shown(w) == IF "HIDDEN" \in s.flags[w] THEN client_show(s, w) ELSE s
    <2>1. g \in GroupId /\ s.clients[g] \in Seq(Client)
      BY GroupHasDesktop DEF Sound, WindowStates
    <2>2. \/ Continue(s)
          \/ Stop("CRASHED")
          \/ \E w \in Range(s.clients[g]) \cap Normal :
               Continue(client_activate(Shown(w), w, TRUE))
      BY <1>4 DEF function_menu_windows
    <2>3. ASSUME NEW w \in Range(s.clients[g]) \cap Normal
          PROVE  Visibly(client_activate(Shown(w), w, TRUE), queue)
      <3>1. w \in Client
        BY <2>1 DEF Range
      <3>2. s.group[w] # NULL
        BY <2>1, <3>1, WindowStateAssumption DEF Sound, Linked
      <3>3. Shown(w) \in WindowStates /\ Same(s, Shown(w))
        BY <3>1, ShowSame, SameReflexive DEF Sound
      <3>4. Watched => Anchored(Shown(w), queue)
        <4>1. Watched => Anchored(client_show(s, w), queue \ {<<"MapRequest", w>>})
          BY <1>0, <3>1, ShowAnchored DEF Visibly
        <4>2. Watched => Anchored(client_show(s, w), queue)
          BY <4>1 DEF Anchored
        <4> QED BY <4>2 DEF Visibly
      <3> HIDE DEF Shown
      <3>5. Sound(Shown(w)) /\ Shown(w).group[w] # NULL
        BY <3>2, <3>3, Frame DEF Same, Dropped
      <3>6. /\ Still(Shown(w), client_activate(Shown(w), w, TRUE))
            /\ Focused(client_activate(Shown(w), w, TRUE))
        BY <3>1, <3>5, ActivateStill
      <3> QED BY <3>4, <3>6, StillKeeps DEF Visibly
    <2> HIDE DEF Shown
    <2> QED BY <1>2, <1>3, <2>2, <2>3 DEF Continue
  <1>5. CASE client_close(s, c)
    <2>1. Visibly(Destroyed(s, c), DestroyNotified(s, c))
      <3>1. queue \subseteq DestroyNotified(s, c)
        BY DEF DestroyNotified
      <3> QED BY <1>0, <3>1, DestroyedKeeps DEF Visibly
    <2> QED BY <1>3, <1>5, <2>1 DEF client_close
  <1>6. CASE function_window_cycle(s, c, 0) \/ function_window_cycle(s, c, 1)
    <2> DEFINE a == client_next(s, c)
               b == client_previous(s, c)
    <2>1. /\ a \in Client => s.group[a] # NULL
          /\ b \in Client => s.group[b] # NULL
      BY NextFound
    <2>2. \/ a \in Client /\ Continue(client_activate(s, a, FALSE))
          \/ b \in Client /\ Continue(client_activate(s, b, FALSE))
          \/ Stop("HUNG")
          \/ Stop("CRASHED")
      BY <1>6 DEF function_window_cycle
    <2> HIDE DEF a, b
    <2> QED BY <1>1, <1>2, <2>1, <2>2, ActivateStill
  <1>7. CASE tag = "window-move" /\ function_window_move(s, c)
    <2>1. PICK moved \in BOOLEAN, scr \in Screen :
            LET dropped == client_move_resize(s, c, moved)
            IN  Continue(IF scr = DesktopOf(s, c)[1] THEN dropped
                         ELSE screen_adopt(dropped, scr, c))
      BY <1>7 DEF function_window_move
    <2> DEFINE dropped == client_move_resize(s, c, moved)
    <2>2. dropped \in WindowStates /\ Same(s, dropped) /\ Still(s, dropped)
      BY <1>0, MoveResizeSame, ToggleSizeStill
    <2>3. Continue(IF scr = DesktopOf(s, c)[1] THEN dropped ELSE screen_adopt(dropped, scr, c))
      BY <2>1
    <2> HIDE DEF dropped
    <2>4. Sound(dropped) /\ Visibly(dropped, queue) /\ dropped.group[c] # NULL
      BY <2>2, Frame, StillVisibly DEF Same, Dropped
    <2>5. scr # DesktopOf(s, c)[1] => (Watched => dropped.viewable[c])
      <3>1. DesktopOf(s, c)[1] \in Screen
        BY <1>0, GroupHasDesktop DEF Sound, DesktopOf, Desktop
      <3>2. ScreenCount = 1 => scr = DesktopOf(s, c)[1]
        BY <3>1 DEF Screen
      <3> QED BY <1>7, <2>2, <3>2 DEF Still
    <2>6. scr # DesktopOf(s, c)[1] => Visibly(screen_adopt(dropped, scr, c), queue)
      BY <2>4, <2>5, AdoptVisibly
    <2> QED BY <2>3, <2>4, <2>6 DEF Continue
  <1>8. CASE tag = "window-move-to-screen" /\ function_window_move_to_screen(s, c)
    <2>1. \/ Continue(s)
          \/ \E scr \in Screen \ {DesktopOf(s, c)[1]} : Continue(screen_adopt(s, scr, c))
      BY <1>8 DEF function_window_move_to_screen
    <2>2. ASSUME NEW scr \in Screen \ {DesktopOf(s, c)[1]}
          PROVE  Visibly(screen_adopt(s, scr, c), queue)
      <3>1. DesktopOf(s, c)[1] \in Screen
        BY <1>0, GroupHasDesktop DEF Sound, DesktopOf, Desktop
      <3>2. Watched => s.viewable[c]
        BY <1>8, <3>1 DEF Screen
      <3> QED BY <3>2, AdoptVisibly
    <2> QED BY <1>3, <2>1, <2>2 DEF Continue
  <1>9. CASE \/ function_window_resize(s, c)
             \/ function_window_center(s, c)
             \/ function_window_tile(s, c)
             \/ Continue(client_restore(s, c))
    <2>1. \E moved \in BOOLEAN : Continue(client_move_resize(s, c, moved))
      BY <1>9 DEF function_window_resize, function_window_center, function_window_tile,
                  client_restore
    <2> QED BY <1>0, <1>1, <2>1, ToggleSizeStill
  <1>10. CASE \/ Continue(client_toggle_fullscreen(s, c))
              \/ Continue(client_toggle_maximize(s, c))
    BY <1>0, <1>1, <1>10, ToggleSizeStill
  <1>11. CASE Continue(client_hide(s, c))
    BY <1>0, <1>11, HideKeeps DEF Visibly, Continue
  <1> QED BY <1>4, <1>5, <1>6, <1>7, <1>8, <1>9, <1>10, <1>11 DEF OnClient

\* While the windows are taken over, an active client is on the screen, and there are no clients
\* at all if there were no windows.
Begun ==
  wm_state = "IDLE" =>
    /\ Obeyed => \A c \in With(state, "ACTIVE") : state.viewable[c] \/ ~Alive(state, c)
    /\ Watched => windows = {} /\ \A c \in Client : state.group[c] = NULL

\* The inductive invariant, beside Inv, Waiting and Honest(state).
InSight == Visibly(state, queue) /\ Begun /\ (Watched => wm_state # "RESTART")

\* What is left to show of a step that handles an event.
EventInSight == Visibly(state', queue') /\ (Watched => wm_state' # "RESTART")

\* Bound functions, for whichever client or without one.
LEMMA RunVisibly ==
  ASSUME InSight, NEW s, Sound(s), Visibly(s, queue),
         NEW c \in Client \cup {NULL}, c # NULL => s.group[c] # NULL, NEW scr \in Screen,
         NEW tag \in KeyBindings \cup MouseBindings, Run(s, tag, c, scr),
         tag \in KeyBindings \/ (c # NULL => s.viewable[c])
  PROVE  EventInSight
  <1>0. Visibly(state, queue) /\ (Watched => wm_state # "RESTART")
    BY DEF InSight
  <1>1. CASE c # NULL /\ OnClient(s, tag, c)
    <2>1. Watched /\ tag \in {"window-move", "window-move-to-screen"} =>
            ScreenCount = 1 \/ s.viewable[c]
      BY <1>1 DEF Watched
    <2>2. Visibly(state', queue')
      BY <1>0, <1>1, <2>1, OnClientVisibly
    <2>3. wm_state' \in {wm_state, "HUNG", "CRASHED"}
      BY <1>1 DEF OnClient, function_menu_windows, function_window_center, client_close,
                  function_window_cycle, function_window_move, function_window_move_to_screen,
                  function_window_resize, function_window_tile, Continue, Stop
    <2> QED BY <1>0, <2>2, <2>3 DEF EventInSight
  <1>2. CASE function_group_cycle(s, scr)
    <2> DEFINE d == CurrentDesktop(s, scr)
    <2>1. d \in Desktop /\ s.groups[d] \in Seq(GroupId)
      BY DEF CurrentDesktop, Desktop, Sound, WindowStates
    <2>2. \/ Continue(s)
          \/ \E g \in Range(s.groups[d]) : Continue(group_activate(s, g))
      BY <1>2 DEF function_group_cycle
    <2> HIDE DEF d
    <2>3. ASSUME NEW g \in Range(s.groups[d]) PROVE Visibly(group_activate(s, g), queue)
      <3>1. g \in GroupId
        BY <2>1 DEF Range
      <3>2. s.desktop[g] # NULL
        BY <2>1, <3>1, WindowStateAssumption DEF Sound, Linked
      <3> QED BY <3>1, <3>2, GroupActivateStill, StillVisibly
    <2> QED BY <1>0, <2>2, <2>3 DEF Continue, EventInSight
  <1>3. CASE tag = "restart" /\ function_wm_state(s, "RESTART")
    BY <1>3 DEF function_wm_state, Watched, EventInSight
  <1>4. CASE function_wm_state(s, "QUIT")
    BY <1>4 DEF function_wm_state, EventInSight
  <1> QED BY <1>1, <1>2, <1>3, <1>4 DEF Run

-----------------------------------------------------------------------------
(* The event handlers *)

\* MapRequest is read: the window is shown, and activated unless its class is ignored.
LEMMA MapRequestVisibly ==
  ASSUME Inv, Waiting, Honest(state), InSight, NEW c \in Client, event_handle_map_request(c)
  PROVE  EventInSight
  <1>1. state \in WindowStates /\ Sound(state) /\ Visibly(state, queue)
    BY DEF Inv, Sound, InSight
  <1>2. wm_state' = wm_state /\ queue' = queue \ {<<"MapRequest", c>>}
    BY DEF event_handle_map_request, XNextEvent
  <1>3. CASE c \notin Managed(state) /\ ~Alive(state, c)
    <2>1. state' = state /\ state.group[c] = NULL
      BY <1>1, <1>3, ManagedHasGroup DEF event_handle_map_request, Sound
    <2> QED BY <1>1, <1>2, <2>1 DEF EventInSight, InSight, Visibly, Anchored
  <1>4. CASE ~(c \notin Managed(state) /\ ~Alive(state, c))
    <2> DEFINE Known(scr) == IF c \in Managed(state) THEN state
                             ELSE screen_adopt(client_init(state, c, scr), ScreenCount, c)
    <2>1. PICK scr \in Screen :
            LET shown == client_show([Known(scr) EXCEPT !.mapped[c] = TRUE], c)
                taken == IF "IGNORE" \in shown.flags[c] THEN shown
                         ELSE client_activate(shown, c, TRUE)
            IN  state' = GroupToTail(taken, taken.group[c])
      BY <1>4 DEF event_handle_map_request
    <2> DEFINE known == Known(scr)
               mapped == [known EXCEPT !.mapped[c] = TRUE]
               shown == client_show(mapped, c)
               taken == IF "IGNORE" \in shown.flags[c] THEN shown
                        ELSE client_activate(shown, c, TRUE)
    <2>2. state' = GroupToTail(taken, taken.group[c])
      BY <2>1
    <2>3. /\ Sound(known) /\ known.group[c] # NULL /\ Honest(known)
          /\ known.viewable = state.viewable /\ known.focus = state.focus
          /\ known.desktop_index = state.desktop_index /\ known.life = state.life
          /\ With(known, "ACTIVE") \subseteq With(state, "ACTIVE")
          /\ \A b \in Client \ {c} :
               /\ known.mapped[b] = state.mapped[b] /\ known.flags[b] = state.flags[b]
               /\ known.group[b] # NULL =>
                    state.group[b] # NULL /\ DesktopOf(known, b) = DesktopOf(state, b)
      <3>1. CASE c \in Managed(state)
        BY <1>1, <3>1, ManagedHasGroup DEF Sound
      <3>2. CASE c \notin Managed(state)
        <4>1. state.group[c] = NULL
          BY <1>1, <3>2, ManagedHasGroup DEF Sound
        <4> DEFINE new == client_init(state, c, scr)
                   t == screen_adopt(new, ScreenCount, c)
        <4>2. /\ Sound(new) /\ new.group[c] # NULL /\ Honest(new) /\ new.life = state.life
              /\ With(new, "ACTIVE") = With(state, "ACTIVE") \ {c}
              /\ \A b \in Client \ {c} : new.group[b] = state.group[b]
          BY <1>1, <4>1, InitSound, InitHonest
        <4>3. /\ new.viewable = state.viewable /\ new.desktop_index = state.desktop_index
              /\ new.focus = state.focus
              /\ \A b \in Client \ {c} :
                  /\ new.mapped[b] = state.mapped[b] /\ new.flags[b] = state.flags[b]
                  /\ state.group[b] # NULL => DesktopOf(new, b) = DesktopOf(state, b)
          BY <1>1, <4>1, InitPlace
        <4>4. ScreenCount \in Screen
          BY WindowStateAssumption DEF Screen
        <4>5. known = t
          BY <3>2
        <4> HIDE DEF known, new
        <4>6. /\ Sound(t) /\ t.group[c] # NULL /\ t.flags = new.flags /\ t.life = new.life
              /\ \A b \in Client \ {c} : t.group[b] = new.group[b]
          BY <4>2, <4>4, AdoptSound
        <4>7. /\ t.viewable = new.viewable /\ t.desktop_index = new.desktop_index
              /\ t.mapped = new.mapped /\ t.focus = new.focus
              /\ \A b \in Client \ {c} : new.group[b] # NULL =>
                   DesktopOf(t, b) = DesktopOf(new, b)
          BY <4>2, <4>4, AdoptPlace
        <4>8. Honest(t)
          BY <4>2, <4>4, AdoptHonest
        <4> HIDE DEF t
        <4>9. With(t, "ACTIVE") \subseteq With(state, "ACTIVE")
          BY <4>2, <4>6 DEF With
        <4> QED BY <4>2, <4>3, <4>5, <4>6, <4>7, <4>8, <4>9
      <3> QED BY <3>1, <3>2
    <2> HIDE DEF known
    <2>4. mapped \in WindowStates /\ Same(known, mapped) /\ Honest(mapped)
      <3>1. mapped \in WindowStates /\ Same(known, mapped)
        BY <2>3 DEF Sound, WindowStates, Same, Dropped, With
      <3>2. /\ mapped.life = known.life /\ mapped.flags = known.flags
            /\ mapped.netState = known.netState /\ mapped.group = known.group
            /\ mapped.desktop = known.desktop /\ mapped.name = known.name
        BY <2>3 DEF Sound, WindowStates
      <3> HIDE DEF mapped
      <3> QED BY <2>3, <3>1, <3>2, UntouchedSteady, SteadyHonest
    <2>5. /\ mapped.viewable = known.viewable /\ mapped.focus = known.focus
          /\ mapped.desktop_index = known.desktop_index /\ mapped.life = known.life
          /\ mapped.flags = known.flags /\ mapped.group = known.group
          /\ mapped.desktop = known.desktop
          /\ \A b \in Client \ {c} : mapped.mapped[b] = known.mapped[b]
      BY <2>3 DEF Sound, WindowStates
    <2> HIDE DEF mapped
    <2>6. /\ shown \in WindowStates /\ Same(mapped, shown) /\ Steady(mapped, shown)
          /\ shown.viewable = [mapped.viewable EXCEPT ![c] = Alive(mapped, c)]
          /\ shown.mapped = mapped.mapped
          /\ shown.flags = [mapped.flags EXCEPT ![c] = @ \ {"HIDDEN"}]
          /\ shown.life = mapped.life /\ shown.group = mapped.group
          /\ shown.desktop = mapped.desktop /\ shown.desktop_index = mapped.desktop_index
          /\ shown.focus = mapped.focus
      BY <2>4, ShowSame, ShowHideSteady, ShowHideEffect
    <2> HIDE DEF shown
    <2>7. Sound(shown) /\ shown.group[c] # NULL /\ Honest(shown)
      BY <2>3, <2>4, <2>6, Frame, SteadyHonest DEF Same, Dropped
    <2>8. Watched => Anchored(shown, queue')
      <3> SUFFICES ASSUME Watched, NEW b \in Client,
                          shown.group[b] # NULL, Alive(shown, b), "HIDDEN" \notin shown.flags[b],
                          \/ shown.mapped[b]
                          \/ DesktopOf(shown, b) = CurrentDesktop(shown, DesktopOf(shown, b)[1])
                   PROVE  shown.viewable[b] \/ <<"MapRequest", b>> \in queue'
        BY DEF Anchored
      <3>1. CASE b = c
        BY <2>4, <2>6, <3>1 DEF Alive, WindowStates
      <3>2. CASE b # c
        <4>1. /\ shown.viewable[b] = state.viewable[b] /\ shown.flags[b] = state.flags[b]
              /\ shown.mapped[b] = state.mapped[b] /\ shown.life = state.life
              /\ shown.desktop_index = state.desktop_index
          BY <2>3, <2>4, <2>5, <2>6, <3>2 DEF WindowStates
        <4>2. state.group[b] # NULL /\ DesktopOf(shown, b) = DesktopOf(state, b)
          BY <2>3, <2>5, <2>6, <3>2 DEF DesktopOf
        <4>3. state.viewable[b] \/ <<"MapRequest", b>> \in queue
          BY <1>1, <4>1, <4>2 DEF Visibly, Anchored, Alive, CurrentDesktop
        <4> QED BY <1>2, <3>2, <4>1, <4>3
      <3> QED BY <3>1, <3>2
    <2>9. "IGNORE" \in shown.flags[c] => (Obeyed => Focused(shown))
      <3> SUFFICES ASSUME "IGNORE" \in shown.flags[c], Obeyed, NEW b \in With(shown, "ACTIVE"),
                          b \in GivenFocus, shown.viewable[b]
                   PROVE  shown.focus \in {b, Elsewhere}
        BY DEF Focused
      <3>1. b # c
        BY <2>7 DEF Honest, Obeyed, With
      <3>2. b \in With(state, "ACTIVE") /\ state.viewable[b]
        BY <2>3, <2>4, <2>5, <2>6, <3>1 DEF Same, Dropped, WindowStates, With
      <3> QED BY <1>1, <2>3, <2>5, <2>6, <3>2 DEF Visibly, Focused
    <2>10. taken \in WindowStates /\ Visibly(taken, queue')
      <3>1. CASE "IGNORE" \in shown.flags[c]
        BY <2>6, <2>8, <2>9, <3>1 DEF Visibly
      <3>2. CASE "IGNORE" \notin shown.flags[c]
        <4>1. /\ Still(shown, client_activate(shown, c, TRUE))
              /\ Focused(client_activate(shown, c, TRUE))
              /\ Sound(client_activate(shown, c, TRUE))
          BY <2>7, ActivateStill, ActivateSound
        <4> QED BY <2>8, <3>2, <4>1, StillKeeps DEF Visibly, Sound
      <3> QED BY <3>1, <3>2
    <2> HIDE DEF taken
    <2>11. Visibly(state', queue')
      BY <2>2, <2>10, ToTailStill, StillVisibly
    <2> QED BY <1>2, <2>11 DEF EventInSight, InSight
  <1> QED BY <1>3, <1>4

\* The two atoms of a message change neither the focus nor what is on the screen, even when one
\* of them is HIDDEN.
LEMMA StateMessageFocused ==
  ASSUME NEW s \in WindowStates, NEW c \in Client, NEW action,
         NEW i \in DOMAIN Handlers, NEW j \in DOMAIN Handlers, Focused(s)
  PROVE  Focused(ewmh_handle_net_wm_state_message(s, c, action, i, j))
  <1>1. ASSUME NEW r \in WindowStates, NEW atom
        PROVE  LET t == HandleAtom(r, c, action, atom)
               IN  t.viewable = r.viewable /\ t.focus = r.focus
    <2>1. ASSUME NEW F
          PROVE  LET t == ewmh_set_net_wm_state(SetFlags(r, c, F), c)
                 IN  t.viewable = r.viewable /\ t.focus = r.focus
      BY DEF ewmh_set_net_wm_state, SetFlags, WindowStates
    <2>2. LET t == client_toggle_one_axis(r, c)
          IN  t.viewable = r.viewable /\ t.focus = r.focus
      BY DEF client_toggle_one_axis, ewmh_set_net_wm_state, WindowStates
    <2>3. LET t == client_toggle_fullscreen(r, c)
          IN  t.viewable = r.viewable /\ t.focus = r.focus
      BY <2>1 DEF client_toggle_fullscreen
    <2>4. LET t == client_toggle_urgent(r, c)
          IN  t.viewable = r.viewable /\ t.focus = r.focus
      BY DEF client_toggle_urgent, SetFlags, WindowStates
    <2>5. LET t == client_toggle_flag(r, c, atom)
          IN  t.viewable = r.viewable /\ t.focus = r.focus
      BY <2>1 DEF client_toggle_flag
    <2> QED BY <2>2, <2>3, <2>4, <2>5 DEF HandleAtom, Toggle
  <1> DEFINE first  == HandleAtom(s, c, action, Handlers[i])
             second == HandleAtom(first, c, action, Handlers[j])
  <1>2. Handlers[i] \in Atom /\ Handlers[j] \in Atom
    BY DEF Handlers, Atom, Maximized
  <1>3. /\ first \in WindowStates /\ Same(s, first)
        /\ first.viewable = s.viewable /\ first.focus = s.focus
    BY <1>1, <1>2, HandleAtomSame
  <1> HIDE DEF first
  <1>4. Same(first, second) /\ second.viewable = first.viewable /\ second.focus = first.focus
    BY <1>1, <1>2, <1>3, HandleAtomSame
  <1> HIDE DEF second
  <1>5. Focused(first) /\ Focused(second)
    BY <1>3, <1>4 DEF Focused, Same
  <1> QED BY <1>5 DEF ewmh_handle_net_wm_state_message, first, second

\* A button is pressed over a window that is on the screen, or over the root.
LEMMA ButtonPressVisibly ==
  ASSUME Inv, InSight, NEW w \in Client \cup {NULL}, NEW scr \in Screen,
         event_handle_button_press(w, scr)
  PROVE  EventInSight
  <1> DEFINE c      == IF w \in Managed(state) THEN w ELSE NULL
             tapped == screen_activate(state, scr)
             active == client_find_active(tapped)
             s      == IF c = NULL
                       THEN IF active = NULL THEN tapped ELSE client_deactivate(tapped, active)
                       ELSE IF tapped.flags[c] \cap {"ACTIVE", "IGNORE"} # {} THEN tapped
                       ELSE client_activate(tapped, c, TRUE)
  <1>1. state \in WindowStates /\ Sound(state) /\ Visibly(state, queue)
    BY DEF Inv, Sound, InSight
  <1>2. /\ c \in Client \cup {NULL}
        /\ c # NULL => state.group[c] # NULL /\ state.viewable[c]
    BY <1>1, ManagedHasGroup DEF Sound, event_handle_button_press
  <1>3. \/ Continue(s)
        \/ \E tag \in MouseBindings : Run(s, tag, c, scr)
    BY DEF event_handle_button_press
  <1> HIDE DEF c
  <1>4. tapped \in WindowStates /\ Same(state, tapped) /\ Still(state, tapped)
    <2>1. tapped \in WindowStates /\ Same(state, tapped)
      BY <1>1 DEF screen_activate, WindowStates, Same, Dropped, With
    <2>2. /\ tapped.viewable = state.viewable /\ tapped.desktop_index = state.desktop_index
          /\ tapped.life = state.life /\ tapped.group = state.group
          /\ tapped.desktop = state.desktop /\ tapped.mapped = state.mapped
          /\ tapped.focus = state.focus /\ tapped.flags = state.flags
      BY <1>1 DEF screen_activate, WindowStates
    <2> HIDE DEF tapped
    <2> QED BY <2>1, <2>2, UntouchedStill
  <1> HIDE DEF tapped
  <1>5. Sound(tapped) /\ tapped.group = state.group
    BY <1>1, <1>4, Frame DEF Same, Dropped
  <1>6. active \in Client \cup {NULL}
    BY <1>5, FindActive
  <1> HIDE DEF active
  <1>7. Sound(s) /\ s.group = state.group /\ Still(state, s)
    <2>1. CASE s = tapped
      BY <1>4, <1>5, <2>1
    <2>2. CASE active # NULL /\ s = client_deactivate(tapped, active)
      <3>1. s \in WindowStates /\ Dropped(tapped, s)
        BY <1>5, <1>6, <2>2, DeactivateDropped
      <3>2. Sound(s)
        BY <1>5, <3>1, FrameDropped
      <3>3. Still(tapped, s)
        BY <1>4, <1>6, <2>2, DeactivateStill
      <3> QED BY <1>4, <1>5, <3>1, <3>2, <3>3, StillTransitive DEF Dropped
    <2>3. CASE c # NULL /\ s = client_activate(tapped, c, TRUE)
      <3> DEFINE t == client_activate(tapped, c, TRUE)
      <3>1. c \in Client /\ tapped.group[c] # NULL
        BY <1>2, <1>5, <2>3
      <3>2. Sound(t) /\ t.group = tapped.group /\ Still(tapped, t)
        BY <1>5, <3>1, ActivateSound, ActivateStill
      <3> HIDE DEF t
      <3>3. s = t
        BY <2>3 DEF t
      <3> HIDE DEF s
      <3> QED BY <1>4, <1>5, <3>2, <3>3, StillTransitive
    <2> QED BY <2>1, <2>2, <2>3
  <1> HIDE DEF s
  <1>8. Visibly(s, queue)
    BY <1>1, <1>7, StillVisibly
  <1>9. c # NULL => s.group[c] # NULL /\ s.viewable[c]
    BY <1>2, <1>7 DEF Still
  <1>10. CASE Continue(s)
    BY <1>8, <1>10 DEF Continue, EventInSight, InSight
  <1>11. ASSUME NEW tag \in MouseBindings, Run(s, tag, c, scr) PROVE EventInSight
    BY <1>2, <1>7, <1>8, <1>9, <1>11, RunVisibly
  <1> QED BY <1>3, <1>10, <1>11

\* The other events.
LEMMA EventsInSight ==
  ASSUME Inv, Waiting, Honest(state), InSight, Events
  PROVE  InSight'
  <1>0. Visibly(state, queue) /\ (Watched => wm_state # "RESTART") /\ wm_state' # "IDLE"
    <2>1. Listening
      BY DEF Events, event_handle_map_request, event_handle_destroy_notify, XNextEvent,
             event_handle_property_notify, event_handle_key_press, event_handle_button_press,
             event_handle_client_message
    <2> DEFINE Next5 == {wm_state, "HUNG", "CRASHED", "RESTART", "QUIT"}
    <2>2. ASSUME NEW s, NEW tag, NEW c, OnClient(s, tag, c) PROVE wm_state' \in Next5
      BY <2>2 DEF OnClient, function_menu_windows, function_window_center, client_close,
                  function_window_cycle, function_window_move, function_window_move_to_screen,
                  function_window_resize, function_window_tile, Continue, Stop
    <2>3. ASSUME NEW s, NEW tag, NEW c, NEW scr, Run(s, tag, c, scr) PROVE wm_state' \in Next5
      BY <2>2, <2>3 DEF Run, function_group_cycle, function_wm_state, Continue
    <2>4. ASSUME NEW c, NEW type, XNextEvent(type, c) PROVE wm_state' \in Next5
      BY <2>4 DEF XNextEvent
    <2>5. ASSUME NEW c, event_handle_property_notify(c) PROVE wm_state' \in Next5
      BY <2>5 DEF event_handle_property_notify
    <2>6. ASSUME NEW tag, event_handle_key_press(tag) PROVE wm_state' \in Next5
      BY <2>3, <2>6 DEF event_handle_key_press
    <2>7. ASSUME NEW w, NEW scr, event_handle_button_press(w, scr) PROVE wm_state' \in Next5
      <3> HIDE DEF Next5
      <3>1. ASSUME NEW s, Continue(s) PROVE wm_state' \in Next5
        BY <3>1 DEF Continue, Next5
      <3> QED BY <2>3, <2>7, <3>1 DEF event_handle_button_press
    <2>8. ASSUME event_handle_client_message PROVE wm_state' \in Next5
      BY <2>8 DEF event_handle_client_message, client_close, desktop_switch_to_index, Continue,
                  Stop
    <2>9. wm_state' \in Next5
      <3> HIDE DEF Next5
      <3> QED BY <2>4, <2>5, <2>6, <2>7, <2>8
              DEF Events, event_handle_map_request, event_handle_destroy_notify
    <2> QED BY <2>1, <2>9 DEF InSight, Listening
  <1>1. state \in WindowStates /\ Sound(state)
    BY DEF Inv, Sound
  <1>2. ASSUME NEW c \in Managed(state) PROVE c \in Client /\ state.group[c] # NULL
    BY <1>1, ManagedHasGroup DEF Managed, Sound
  <1>3. ASSUME NEW t, Visibly(t, queue), Continue(t) PROVE EventInSight
    BY <1>0, <1>3 DEF Continue, EventInSight
  <1>4. ASSUME NEW c \in Client, event_handle_destroy_notify(c) PROVE EventInSight
    <2>1. queue' = queue \ {<<"DestroyNotify", c>>} /\ wm_state' = wm_state
      BY <1>4 DEF event_handle_destroy_notify, XNextEvent
    <2>2. Still(state, state')
      BY <1>1, <1>2, <1>4, RemoveStill, StillReflexive DEF event_handle_destroy_notify
    <2>3. \A b \in Client : <<"MapRequest", b>> \in queue => <<"MapRequest", b>> \in queue'
      BY <2>1
    <2>4. Visibly(state', queue)
      BY <1>0, <2>2, StillVisibly
    <2> QED BY <1>0, <2>1, <2>3, <2>4 DEF EventInSight, Visibly, Anchored
  <1>5. ASSUME NEW c \in Client, event_handle_property_notify(c) PROVE EventInSight
    <2>1. Still(state, state') /\ queue' = queue /\ wm_state' = wm_state
      BY <1>1, <1>5, UpdateNameStill, UrgentStill DEF event_handle_property_notify
    <2> QED BY <1>0, <2>1, StillVisibly DEF EventInSight
  <1>6. ASSUME NEW tag \in KeyBindings, event_handle_key_press(tag) PROVE EventInSight
    <2> DEFINE c   == client_find_active(state)
               scr == IF c = NULL THEN state.active ELSE DesktopOf(state, c)[1]
    <2>1. c \in Client \cup {NULL} /\ (c # NULL => state.group[c] # NULL)
      BY <1>1, FindActive
    <2>2. Run(state, tag, c, scr)
      BY <1>6 DEF event_handle_key_press
    <2> HIDE DEF c
    <2>3. scr \in Screen
      <3>1. CASE c = NULL
        BY <1>1, <3>1 DEF WindowStates
      <3>2. CASE c # NULL
        <4>1. DesktopOf(state, c) \in Desktop
          BY <1>1, <2>1, <3>2, GroupHasDesktop DEF DesktopOf, Sound
        <4> QED BY <3>2, <4>1 DEF Desktop
      <3> QED BY <3>1, <3>2
    <2> HIDE DEF scr
    <2> QED BY <1>0, <1>1, <2>1, <2>2, <2>3, RunVisibly
  <1>7. ASSUME event_handle_client_message PROVE EventInSight
    <2>1. ASSUME NEW c \in Managed(state), Continue(client_hide(state, c)) PROVE EventInSight
      <3>1. Visibly(client_hide(state, c), queue)
        BY <1>0, <1>1, <1>2, HideKeeps DEF Visibly
      <3> QED BY <1>3, <2>1, <3>1
    <2>2. ASSUME NEW c \in Managed(state), client_close(state, c) PROVE EventInSight
      <3>1. queue \subseteq DestroyNotified(state, c)
        BY DEF DestroyNotified
      <3>2. Visibly(Destroyed(state, c), DestroyNotified(state, c))
        BY <1>0, <1>1, <1>2, <3>1, DestroyedKeeps DEF Visibly
      <3>3. CASE Continue(state)
        BY <1>0, <1>3, <3>3
      <3>4. CASE /\ state' = Destroyed(state, c) /\ queue' = DestroyNotified(state, c)
                 /\ UNCHANGED wm_state
        BY <1>0, <3>2, <3>4 DEF EventInSight
      <3> QED BY <2>2, <3>3, <3>4 DEF client_close
    <2>3. ASSUME NEW c \in Managed(state), "_NET_ACTIVE_WINDOW" \in Messages,
                 Continue(client_show(state, c))
          PROVE  EventInSight
      <3>1. Anchored(state, queue) =>
              Anchored(client_show(state, c), queue \ {<<"MapRequest", c>>})
        BY <1>1, <1>2, ShowAnchored
      <3>2. Visibly(client_show(state, c), queue)
        <4>1. Anchored(client_show(state, c), queue \ {<<"MapRequest", c>>})
                => Anchored(client_show(state, c), queue)
          BY DEF Anchored
        <4> QED BY <1>0, <2>3, <3>1, <4>1 DEF Visibly, Obeyed
      <3> QED BY <1>3, <2>3, <3>2
    <2>4. ASSUME NEW c \in Managed(state), NEW action, NEW i \in DOMAIN Handlers,
                 NEW j \in DOMAIN Handlers, {Handlers[i], Handlers[j]} \subseteq NetMessages,
                 Continue(ewmh_handle_net_wm_state_message(state, c, action, i, j))
          PROVE  EventInSight
      <3> DEFINE t == ewmh_handle_net_wm_state_message(state, c, action, i, j)
      <3>1. Watched => "HIDDEN" \notin {Handlers[i], Handlers[j]}
        BY <2>4 DEF Watched
      <3>2. Watched => Still(state, t)
        BY <1>1, <1>2, <3>1, StateMessageStill
      <3>3. Focused(state) => Focused(t)
        BY <1>1, <1>2, StateMessageFocused
      <3> HIDE DEF t
      <3>4. Visibly(t, queue)
        BY <1>0, <3>2, <3>3, StillKeeps DEF Visibly
      <3> QED BY <1>3, <2>4, <3>4 DEF t
    <2>5. ASSUME NEW index, desktop_switch_to_index(index) PROVE EventInSight
      <3> DEFINE i == index - (state.active - 1) * DesktopCount
      <3>1. CASE i \in 0 .. DesktopCount - 1
        <4>1. Continue(SwitchTo(state, i))
          BY <2>5, <3>1 DEF desktop_switch_to_index
        <4> HIDE DEF i
        <4> QED BY <1>0, <1>1, <1>3, <3>1, <4>1, SwitchVisibly
      <3>2. CASE i \notin 0 .. DesktopCount - 1
        <4>1. Stop("CRASHED")
          BY <2>5, <3>2 DEF desktop_switch_to_index
        <4> QED BY <1>0, <4>1 DEF Stop, EventInSight
      <3> QED BY <3>1, <3>2
    <2> QED BY <1>7, <2>1, <2>2, <2>3, <2>4, <2>5 DEF event_handle_client_message
  <1>8. EventInSight
    BY <1>4, <1>5, <1>6, <1>7, MapRequestVisibly, ButtonPressVisibly DEF Events
  <1> QED BY <1>0, <1>8 DEF EventInSight, InSight, Begun

-----------------------------------------------------------------------------
(* Owners, and start, restart and end *)

\* Owners map windows before anybody listens, and destroy them whenever they like.
LEMMA OwnersInSight ==
  ASSUME Inv, Waiting, InSight, Owners
  PROVE  InSight'
  <1>1. state \in WindowStates /\ Sound(state) /\ Visibly(state, queue) /\ wm_state' = wm_state
    BY DEF Inv, Sound, InSight, Owners, Create, RequestMap, Withdraw, Destroy, TakeFocus
  <1>2. PICK c \in Client : Create(c) \/ RequestMap(c) \/ Withdraw(c) \/ Destroy(c) \/ TakeFocus(c)
    BY DEF Owners
  <1>3. CASE Create(c)
    <2>1. state.group[c] = NULL
      <3>1. state.life[c] = "absent" /\ <<"DestroyNotify", c>> \notin queue
        BY <1>3 DEF Create, Pending
      <3> QED BY <3>1 DEF Waiting
    <2>2. PICK atoms \in InitialStates :
            state' = [state EXCEPT !.life[c] = "alive", !.netState[c] = atoms]
      BY <1>3 DEF Create
    <2>3. /\ state'.flags = state.flags /\ state'.group = state.group
          /\ state'.desktop = state.desktop /\ state'.mapped = state.mapped
          /\ state'.desktop_index = state.desktop_index
          /\ state'.viewable = state.viewable /\ state'.focus = state.focus
          /\ \A b \in Client \ {c} : state'.life[b] = state.life[b]
          /\ queue' = queue /\ windows' = windows
      BY <1>1, <1>3, <2>2 DEF WindowStates, Create
    <2>4. c \notin With(state, "ACTIVE")
      BY <1>1, <2>1 DEF Sound
    <2>5. Focused(state) => Focused(state')
      BY <2>3 DEF Focused, With
    <2>6. Anchored(state, queue) => Anchored(state', queue')
      BY <2>1, <2>3 DEF Anchored, Alive, DesktopOf, CurrentDesktop
    <2>7. Begun => Begun'
      BY <1>1, <2>3, <2>4 DEF Begun, With, Alive
    <2> QED BY <1>1, <2>5, <2>6, <2>7 DEF InSight, Visibly
  <1>4. CASE RequestMap(c)
    <2>1. CASE UNCHANGED state /\ queue' = queue \cup {<<"MapRequest", c>>}
      <3>1. windows' = windows
        BY <1>4 DEF RequestMap
      <3>2. Anchored(state, queue) => Anchored(state', queue')
        BY <2>1 DEF Anchored
      <3> QED BY <1>1, <2>1, <3>1, <3>2 DEF InSight, Visibly, Begun
    <2>2. CASE wm_state = "IDLE" /\ state' = XMapWindow(state, c)
      <3>1. /\ state'.flags = state.flags /\ state'.group = state.group
            /\ state'.desktop = state.desktop /\ state'.mapped = state.mapped
            /\ state'.desktop_index = state.desktop_index /\ state'.life = state.life
            /\ state'.focus = state.focus
            /\ state'.viewable = [state.viewable EXCEPT ![c] = Alive(state, c)]
        BY <1>1, <2>2 DEF XMapWindow, WindowStates
      <3>2. Alive(state, c) /\ ~state.viewable[c] /\ windows' = windows /\ queue \subseteq queue'
        BY <1>4 DEF RequestMap
      <3>3. \A b \in Client : state.viewable[b] => state'.viewable[b]
        BY <1>1, <3>1, <3>2 DEF WindowStates
      <3>4. Obeyed => c \notin With(state, "ACTIVE")
        BY <2>2, <3>2 DEF InSight, Begun
      <3>5. Obeyed => Focused(state')
        BY <1>1, <3>1, <3>4 DEF Visibly, Focused, With, WindowStates
      <3>6. Anchored(state, queue) => Anchored(state', queue')
        BY <3>1, <3>2, <3>3 DEF Anchored, Alive, DesktopOf, CurrentDesktop
      <3>7. Begun => Begun'
        BY <1>1, <3>1, <3>2, <3>3 DEF Begun, With, Alive
      <3> QED BY <1>1, <3>5, <3>6, <3>7 DEF InSight, Visibly
    <2> QED BY <1>4, <2>1, <2>2 DEF RequestMap
  <1>5. CASE Withdraw(c)
    BY <1>1, <1>5 DEF Withdraw, InSight, Visibly, Begun, Obeyed, Watched
  <1>6. CASE Destroy(c)
    <2>1. /\ state' = Destroyed(state, c) /\ queue' = DestroyNotified(state, c)
          /\ windows' = windows
      BY <1>6 DEF Destroy
    <2>2. queue \subseteq queue'
      BY <2>1 DEF DestroyNotified
    <2>3. /\ state'.flags = state.flags /\ state'.group = state.group
          /\ state'.life[c] # "alive"
          /\ \A b \in Client \ {c} : /\ state'.life[b] = state.life[b]
                                      /\ state'.viewable[b] = state.viewable[b]
      BY <1>1, <2>1 DEF Destroyed, WindowStates
    <2>4. Visibly(state', queue')
      BY <1>1, <2>1, <2>2, DestroyedKeeps DEF Visibly
    <2>5. Begun => Begun'
      BY <1>1, <2>1, <2>3 DEF Begun, With, Alive
    <2> QED BY <1>1, <2>4, <2>5 DEF InSight
  <1>7. CASE TakeFocus(c)
    <2>1. /\ state'.flags = state.flags /\ state'.group = state.group
          /\ state'.desktop = state.desktop /\ state'.mapped = state.mapped
          /\ state'.desktop_index = state.desktop_index /\ state'.life = state.life
          /\ state'.viewable = state.viewable /\ state'.focus = Elsewhere
          /\ queue' = queue /\ windows' = windows
      BY <1>1, <1>7, TakeFocusSame DEF WindowStates
    <2>2. Focused(state')
      BY <2>1 DEF Focused
    <2>3. Anchored(state, queue) => Anchored(state', queue')
      BY <2>1 DEF Anchored, Alive, DesktopOf, CurrentDesktop
    <2>4. Begun => Begun'
      BY <1>1, <2>1 DEF Begun, With, Alive
    <2> QED BY <1>1, <2>2, <2>3, <2>4 DEF InSight, Visibly
  <1> QED BY <1>2, <1>3, <1>4, <1>5, <1>6, <1>7

\* state_update_clients activates a client of a window that is on the screen already.
LEMMA UpdateClientsInSight ==
  ASSUME Inv, Waiting, InSight, NEW c \in Client, state_update_clients(c)
  PROVE  InSight'
  <1>1. state \in WindowStates /\ Sound(state) /\ Visibly(state, queue) /\ Begun
    BY DEF Inv, Sound, InSight
  <1>2. /\ wm_state' = wm_state /\ wm_state = "IDLE" /\ windows' = windows \ {c}
        /\ queue' = queue /\ c \in windows /\ ~Watched
    BY <1>1 DEF state_update_clients, Begun
  <1>3. CASE ~Alive(state, c)
    <2>1. state' = state
      BY <1>3 DEF state_update_clients
    <2> QED BY <1>1, <1>2, <2>1 DEF InSight, Begun
  <1>4. CASE Alive(state, c)
    <2>1. PICK scr \in Screen :
            LET s == client_init(state, c, scr)
            IN  state' = IF s.mapped[c] /\ s.flags[c] \cap {"IGNORE", "HIDDEN"} = {}
                         THEN client_activate(s, c, FALSE) ELSE s
      BY <1>4 DEF state_update_clients
    <2>2. state.group[c] = NULL
      BY <1>2 DEF Waiting
    <2> DEFINE s == client_init(state, c, scr)
               t == client_activate(s, c, FALSE)
    <2>3. /\ Sound(s) /\ s.group[c] # NULL /\ s.life = state.life
          /\ With(s, "ACTIVE") = With(state, "ACTIVE") \ {c}
      BY <1>1, InitSound
    <2>4. s.viewable = state.viewable /\ s.focus = state.focus /\ s.mapped[c] = state.viewable[c]
      BY <1>1, <2>2, InitPlace
    <2>5. state' = IF s.mapped[c] /\ s.flags[c] \cap {"IGNORE", "HIDDEN"} = {} THEN t ELSE s
      BY <2>1
    <2> HIDE DEF s
    <2>6. Sound(t) /\ With(t, "ACTIVE") = {c} /\ Focused(t) /\ t.viewable = s.viewable
      BY <2>3, ActivateSound, ActivateStill DEF Still
    <2> HIDE DEF t
    <2>7. Obeyed => Focused(s)
      BY <1>1, <2>3, <2>4 DEF Visibly, Focused
    <2>8. Obeyed => /\ Focused(state')
                    /\ \A b \in With(state', "ACTIVE") : state'.viewable[b] \/ ~Alive(state', b)
      <3>1. CASE state' = s
        BY <1>1, <1>2, <2>3, <2>4, <2>7, <3>1 DEF Begun, Alive
      <3>2. CASE s.mapped[c] /\ state' = t
        BY <2>4, <2>6, <3>2
      <3> QED BY <2>5, <3>1, <3>2 DEF t
    <2> QED BY <1>2, <2>8 DEF InSight, Visibly, Begun, Watched
  <1> QED BY <1>3, <1>4

\* Start, restart and end.
LEMMA MainInSight ==
  ASSUME Inv, Waiting, InSight, Main
  PROVE  InSight'
  <1>1. state \in WindowStates /\ Visibly(state, queue) /\ (Watched => wm_state # "RESTART")
    BY DEF Inv, TypeOK, InSight
  <1>2. CASE main_enter_loop
    <2>1. /\ state'.viewable = state.viewable /\ state'.desktop_index = state.desktop_index
          /\ state'.life = state.life /\ state'.group = state.group
          /\ state'.desktop = state.desktop /\ state'.mapped = state.mapped
          /\ state'.focus = state.focus /\ state'.flags = state.flags
      BY <1>1, <1>2 DEF main_enter_loop, ewmh_set_net_current_desktop, WindowStates
    <2>2. Still(state, state')
      BY <2>1, UntouchedStill
    <2> QED BY <1>1, <1>2, <2>2, StillVisibly DEF main_enter_loop, InSight, Begun
  <1>3. CASE main_leave_loop
    <2>1. CASE wm_state' = "EXITED" /\ UNCHANGED <<state, windows, queue>>
      BY <1>1, <2>1 DEF InSight, Begun
    <2>2. CASE /\ wm_state = "RESTART" /\ wm_state' = "IDLE"
               /\ \E scr \in Screen : state' = Started(state, scr)
      <3>1. state'.flags = [c \in Client |-> {}]
        BY <1>1, <2>2 DEF Started, WindowStates
      <3>2. With(state', "ACTIVE") = {}
        BY <3>1 DEF With
      <3> QED BY <1>1, <2>2, <3>2 DEF InSight, Visibly, Begun, Focused
    <2> QED BY <1>3, <2>1, <2>2 DEF main_leave_loop
  <1>4. CASE signal_handler
    BY <1>1, <1>4 DEF signal_handler, InSight, Begun
  <1> QED BY <1>2, <1>3, <1>4, UpdateClientsInSight DEF Main

\* Nobody is active at first.
LEMMA InitInSight == Init => InSight
  <1> SUFFICES ASSUME Init PROVE InSight
    OBVIOUS
  <1>1. /\ state.group = [c \in Client |-> NULL] /\ state.flags = [c \in Client |-> {}]
        /\ wm_state = "IDLE" /\ windows = AliveIn(state)
    BY DEF Init
  <1>2. With(state, "ACTIVE") = {}
    BY <1>1 DEF With
  <1>3. FirstWindows = {} => AliveIn(state) = {}
    BY DEF Init, AliveIn, Alive
  <1> QED BY <1>1, <1>2, <1>3 DEF InSight, Visibly, Begun, Watched, Focused, Anchored

\* Every step keeps the invariant, so it holds in every state.
LEMMA InSightHolds == Spec => [](Inv /\ Honest(state) /\ InSight)
  <1>1. Inv /\ Waiting /\ Honest(state) /\ InSight /\ UNCHANGED vars => InSight'
    BY DEF vars, InSight, Begun
  <1>2. /\ Inv /\ Waiting /\ Honest(state) /\ InSight /\ [Next]_vars
        => Inv' /\ Waiting' /\ Honest(state)' /\ InSight'
    BY <1>1, NextInv, NextWaiting, NextHonest, OwnersInSight, MainInSight, EventsInSight
       DEF Next
  <1> QED BY <1>2, InitInv, InitWaiting, InitBlank, InitInSight, PTL DEF Spec

\* KeysGoToActive: a window that is drawn as active and can be seen has the focus, if
\* client_activate gives it to windows of its input model at all, until an owner sets it.
THEOREM KeysAlwaysGoToActive ==
  ASSUME Obeyed
  PROVE  Spec => []KeysGoToActive
  <1>1. InSight => KeysGoToActive
    BY DEF InSight, Visibly, Focused, KeysGoToActive
  <1> QED BY <1>1, InSightHolds, PTL

\* No client of a current desktop that is not hidden stays off the screen.
THEOREM NothingEverStranded ==
  ASSUME Watched
  PROVE  Spec => []NothingStranded
  <1>1. Inv /\ InSight => NothingStranded
    <2> SUFFICES ASSUME Inv, InSight, NEW scr \in Screen,
                        NEW c \in ClientsOn(state, CurrentDesktop(state, scr)),
                        Alive(state, c), "HIDDEN" \notin state.flags[c]
                 PROVE  state.viewable[c] \/ <<"MapRequest", c>> \in queue
      BY DEF NothingStranded
    <2>1. /\ state \in WindowStates /\ Linked(state) /\ c \in Client
          /\ CurrentDesktop(state, scr) \in Desktop
      BY DEF Inv, Sound, ClientsOn, CurrentDesktop, Desktop, WindowStates
    <2>2. state.group[c] # NULL /\ DesktopOf(state, c) = CurrentDesktop(state, scr)
      BY <2>1, OnDesktop
    <2>3. DesktopOf(state, c)[1] = scr
      BY <2>2 DEF CurrentDesktop
    <2> QED BY <2>1, <2>2, <2>3 DEF InSight, Visibly, Anchored
  <1> QED BY <1>1, InSightHolds, PTL

-----------------------------------------------------------------------------
(* Nothing loops for ever or follows a NULL pointer *)

\* No class is ignored, or the groups are of one class and windows are cycled from the active
\* client only, which is of none that is ignored.
Cyclable ==
  \/ \A c \in Client : ClassOf[c] \notin Ignored
  \/ Labelled /\ Regular /\ {"window-cycle", "window-rcycle"} \cap MouseBindings = {}

\* The menu of windows never meets a window without a title.
Titled ==
  "menu-windows" \in KeyBindings \cup MouseBindings => \A w \in Normal : TitleOf[w] # NoName

\* Pagers ask for desktops of the first screen, and there is no other.
Numbered == DesktopIndices # {} => ScreenCount = 1 /\ DesktopIndices \subseteq 0 .. DesktopCount - 1

\* The loop of client_next returns where nobody is ignored.
LEMMA CycleFromReturns ==
  ASSUME NEW q \in Seq(Client), NEW c \in Range(q), NEW ignored, Range(q) \cap ignored = {}
  PROVE  CycleFrom(q, c, ignored) \in Client
  <1> DEFINE at == CHOOSE i \in DOMAIN q : q[i] = c
  <1>1. at \in 1 .. Len(q) /\ Len(q) \in Nat /\ DOMAIN q = 1 .. Len(q)
    BY DEF Range
  <1>2. \A i \in 1 .. Len(q) : q[i] \in Client /\ q[i] \notin ignored
    BY DEF Range
  <1> HIDE DEF at
  <1>3. at < Len(q) \/ at = Len(q)
    <2>1. \A n \in Nat : \A i \in 1 .. n : i < n \/ i = n
      OBVIOUS
    <2> QED BY <2>1, <1>1, Zenon
  <1>4. at < Len(q) => at + 1 \in 1 .. Len(q)
    BY <1>1
  <1>5. 1 \in 1 .. Len(q)
    BY <1>1
  <1>6. at = Len(q) => ~(at < Len(q))
    BY <1>1
  <1> QED BY <1>2, <1>3, <1>4, <1>5, <1>6 DEF CycleFrom, at

\* So do client_next and client_previous, in a group without ignored clients.
LEMMA NextReturns ==
  ASSUME NEW s, Sound(s), NEW c \in Client, s.group[c] # NULL,
         \A b \in Client : s.group[b] = s.group[c] => "IGNORE" \notin s.flags[b]
  PROVE  client_next(s, c) \in Client /\ client_previous(s, c) \in Client
  <1> DEFINE g == s.group[c]
             q == s.clients[g]
             r == [i \in DOMAIN q |-> q[Len(q) + 1 - i]]
  <1>1. g \in GroupId /\ q \in Seq(Client)
    BY GroupHasDesktop DEF Sound, WindowStates
  <1>2. c \in Range(q) /\ Range(q) \cap With(s, "IGNORE") = {}
    BY <1>1 DEF Sound, Linked, With
  <1>3. /\ client_next(s, c) = CycleFrom(q, c, With(s, "IGNORE"))
        /\ client_previous(s, c) = CycleFrom(r, c, With(s, "IGNORE"))
    BY DEF client_next, client_previous
  <1> HIDE DEF q
  <1>4. r \in Seq(Client) /\ DOMAIN r = 1 .. Len(q) /\ Len(q) \in Nat /\ DOMAIN q = 1 .. Len(q)
    BY <1>1
  <1>5. \A i \in 1 .. Len(q) : Len(q) + 1 - i \in 1 .. Len(q) /\ r[Len(q) + 1 - i] = q[i]
    BY <1>1
  <1>6. \A i \in 1 .. Len(q) : r[i] = q[Len(q) + 1 - i]
    BY <1>4
  <1> HIDE DEF r
  <1>7. c \in Range(r) /\ Range(r) \subseteq Range(q)
    BY <1>2, <1>4, <1>5, <1>6 DEF Range
  <1>8. Range(r) \cap With(s, "IGNORE") = {}
    BY <1>2, <1>7
  <1> QED BY <1>1, <1>2, <1>3, <1>4, <1>7, <1>8, CycleFromReturns

\* Commands on a client return, cycling from one that is not ignored.
LEMMA OnClientReturns ==
  ASSUME Cyclable, Titled, NEW s, Sound(s), Honest(s), NEW c \in Client, s.group[c] # NULL,
         NEW tag \in KeyBindings \cup MouseBindings, OnClient(s, tag, c),
         tag \in {"window-cycle", "window-rcycle"} =>
           \/ \A b \in Client : ClassOf[b] \notin Ignored
           \/ Labelled /\ "IGNORE" \notin s.flags[c]
  PROVE  wm_state' = wm_state
  <1>1. CASE tag = "menu-windows" /\ function_menu_windows(s, c)
    BY <1>1 DEF function_menu_windows, Titled, Continue
  <1>2. CASE /\ tag \in {"window-cycle", "window-rcycle"}
             /\ function_window_cycle(s, c, 0) \/ function_window_cycle(s, c, 1)
    <2>1. ASSUME NEW b \in Client, s.group[b] = s.group[c] PROVE "IGNORE" \notin s.flags[b]
      <3>1. Fit(s, b) /\ Fit(s, c)
        BY <2>1 DEF Honest
      <3>2. CASE \A a \in Client : ClassOf[a] \notin Ignored
        BY <3>1, <3>2 DEF Fit
      <3>3. CASE Labelled /\ "IGNORE" \notin s.flags[c]
        <4>1. ClassOf[b] = ClassOf[c]
          BY <2>1, <3>3 DEF Honest, Names
        <4> QED BY <3>1, <3>3, <4>1 DEF Fit
      <3> QED BY <1>2, <3>2, <3>3
    <2>2. client_next(s, c) \in Client /\ client_previous(s, c) \in Client
      BY <2>1, NextReturns
    <2>3. Never \notin Client /\ NULL \notin Client
      BY WindowStateAssumption
    <2> QED BY <1>2, <2>2, <2>3 DEF function_window_cycle, Continue
  <1>3. CASE \/ client_close(s, c)
             \/ function_window_center(s, c)
             \/ function_window_move(s, c)
             \/ function_window_move_to_screen(s, c)
             \/ function_window_resize(s, c)
             \/ function_window_tile(s, c)
    BY <1>3 DEF client_close, function_window_center, function_window_move,
                function_window_move_to_screen, function_window_resize, function_window_tile,
                Continue
  <1> QED BY <1>1, <1>2, <1>3 DEF OnClient, Continue

\* Bound functions return.
LEMMA RunReturns ==
  ASSUME Cyclable, Titled, NEW s, Sound(s), Honest(s), NEW c \in Client \cup {NULL},
         c # NULL => s.group[c] # NULL, NEW scr,
         NEW tag \in KeyBindings \cup MouseBindings, Run(s, tag, c, scr),
         tag \in MouseBindings \/ (c # NULL => "ACTIVE" \in s.flags[c])
  PROVE  wm_state' \in {wm_state, "RESTART", "QUIT"}
  <1>1. CASE c # NULL /\ OnClient(s, tag, c)
    <2>1. tag \in {"window-cycle", "window-rcycle"} =>
            \/ \A b \in Client : ClassOf[b] \notin Ignored
            \/ Labelled /\ "IGNORE" \notin s.flags[c]
      BY <1>1 DEF Cyclable, Honest
    <2> QED BY <1>1, <2>1, OnClientReturns
  <1>2. CASE \/ function_group_cycle(s, scr)
             \/ function_wm_state(s, "RESTART")
             \/ function_wm_state(s, "QUIT")
    BY <1>2 DEF function_group_cycle, function_wm_state, Continue
  <1> QED BY <1>1, <1>2 DEF Run

\* So does every handler.
LEMMA EventsReturn ==
  ASSUME Cyclable, Titled, Numbered, Inv, Honest(state), Events
  PROVE  wm_state' \in {wm_state, "RESTART", "QUIT"}
  <1>1. state \in WindowStates /\ Sound(state)
    BY DEF Inv, Sound
  <1>2. ASSUME NEW tag \in KeyBindings, event_handle_key_press(tag)
        PROVE  wm_state' \in {wm_state, "RESTART", "QUIT"}
    <2> DEFINE c   == client_find_active(state)
               scr == IF c = NULL THEN state.active ELSE DesktopOf(state, c)[1]
    <2>1. /\ c \in Client \cup {NULL}
          /\ c # NULL => state.group[c] # NULL /\ "ACTIVE" \in state.flags[c]
      BY <1>1, FindActive DEF With
    <2>2. Run(state, tag, c, scr)
      BY <1>2 DEF event_handle_key_press
    <2> HIDE DEF c, scr
    <2> QED BY <1>1, <2>1, <2>2, RunReturns
  <1>3. ASSUME NEW w \in Client \cup {NULL}, NEW scr \in Screen, event_handle_button_press(w, scr)
        PROVE  wm_state' \in {wm_state, "RESTART", "QUIT"}
    <2>1. PICK s : \E c \in Client \cup {NULL} :
            /\ Sound(s) /\ Honest(s) /\ (c # NULL => s.group[c] # NULL)
            /\ Continue(s) \/ \E tag \in MouseBindings : Run(s, tag, c, scr)
      BY <1>3, ButtonPressFinds
    <2>2. PICK c \in Client \cup {NULL} :
            /\ Sound(s) /\ Honest(s) /\ (c # NULL => s.group[c] # NULL)
            /\ Continue(s) \/ \E tag \in MouseBindings : Run(s, tag, c, scr)
      BY <2>1
    <2> QED BY <2>2, RunReturns DEF Continue
  <1>4. ASSUME event_handle_client_message PROVE wm_state' = wm_state
    <2>1. ASSUME NEW index \in DesktopIndices, desktop_switch_to_index(index)
          PROVE  wm_state' = wm_state
      <3>1. /\ index \in 0 .. DesktopCount - 1 /\ state.active = 1
            /\ DesktopCount \in Nat \ {0}
        BY <1>1, WindowStateAssumption DEF Numbered, WindowStates, Screen
      <3>2. index - (state.active - 1) * DesktopCount = index
        BY <3>1
      <3> QED BY <2>1, <3>1, <3>2 DEF desktop_switch_to_index, Continue
    <2> QED BY <1>4, <2>1 DEF event_handle_client_message, client_close, Continue
  <1> QED BY <1>2, <1>3, <1>4
          DEF Events, event_handle_map_request, event_handle_destroy_notify, XNextEvent,
              event_handle_property_notify

\* Every step leaves the process running or ends it on purpose.
LEMMA NextGoesOn ==
  ASSUME Cyclable, Titled, Numbered, Inv, Honest(state), NeverStops, [Next]_vars
  PROVE  NeverStops'
  <1>1. CASE Owners \/ Main \/ UNCHANGED vars
    BY <1>1 DEF NeverStops, Owners, Create, RequestMap, Withdraw, Destroy, TakeFocus, Main, vars,
                state_update_clients, main_enter_loop, main_leave_loop, signal_handler
  <1>2. CASE Events
    BY <1>2, EventsReturn DEF NeverStops
  <1> QED BY <1>1, <1>2 DEF Next

\* No input makes the program loop for ever in client_next or follow a NULL pointer, where
\* what each of the three needs to go wrong is missing.
THEOREM ProgramNeverStops ==
  ASSUME Cyclable, Titled, Numbered
  PROVE  Spec => []NeverStops
  <1>1. Init => NeverStops
    BY DEF Init, NeverStops
  <1>2. Inv /\ Honest(state) /\ NeverStops /\ [Next]_vars => NeverStops'
    BY NextGoesOn
  <1> QED BY <1>1, <1>2, HonestHolds, PTL DEF Spec
=============================================================================
