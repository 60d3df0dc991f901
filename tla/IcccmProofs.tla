----------------------------- MODULE IcccmProofs -----------------------------
(***************************************************************************)
(* What holds of the conversation between the program and the owners for   *)
(* any number of windows and desktops: no window that has announced        *)
(* WM_DELETE_WINDOW is killed, and at rest the focus is where the           *)
(* activation is.                                                           *)
(***************************************************************************)
EXTENDS Icccm, TLAPS

-----------------------------------------------------------------------------
(* The functions of the program *)

\* The same clients, which forget nothing that they know of their owners, and windows that
\* are what they were or gone.
Keeps(s, t) ==
  /\ t \in States
  /\ \A c \in Client : t.clients[c] = NULL <=> s.clients[c] = NULL
  /\ \A c \in Client : t.clients[c] # NULL =>
       s.clients[c].flags \ {"ACTIVE", "HIDDEN"} \subseteq t.clients[c].flags
  /\ \A c \in Client : t.life[c] \in {s.life[c], "gone"}

\* Only windows that are there are on the screen.
Shown(s) == \A c \in Client : s.viewable[c] => s.life[c] = "alive"

IsActive(s, c) == s.clients[c] # NULL /\ "ACTIVE" \in s.clients[c].flags

\* There is one active client at most; it has the focus, or a message that asks its owner
\* to take it is on its way.
Focused(s) ==
  /\ \A c, d \in Client : IsActive(s, c) /\ IsActive(s, d) => c = d
  /\ ~s.stray => \A c \in Client :
       IsActive(s, c) /\ s.viewable[c] =>
         s.focus = c \/ <<"WM_TAKE_FOCUS", c>> \in s.mail

\* Changing the flags of a client.
LEMMA FlagsKeep ==
  ASSUME NEW s \in States, NEW c \in Client, s.clients[c] # NULL,
         NEW F \in SUBSET Flag, s.clients[c].flags \ {"ACTIVE", "HIDDEN"} \subseteq F
  PROVE  Keeps(s, SetFlags(s, c, F))
  <1> DEFINE t == SetFlags(s, c, F)
             r == [s.clients[c] EXCEPT !.flags = F]
  <1>1. r \in ClientT /\ r # NULL /\ r.flags = F
    BY IcccmAssumption DEF States, ClientT
  <1>2. t = [s EXCEPT !.clients = [s.clients EXCEPT ![c] = r]]
    BY DEF SetFlags, States
  <1> HIDE DEF t, r
  <1>3. [s.clients EXCEPT ![c] = r] \in [Client -> ClientT \cup {NULL}]
    BY <1>1 DEF States
  <1>4. t \in States /\ t.clients = [s.clients EXCEPT ![c] = r] /\ t.life = s.life
    BY <1>2, <1>3 DEF States
  <1> QED BY <1>1, <1>4 DEF Keeps, States, t

\* client_activate gives the client the focus, or asks its owner to take it.
LEMMA ActivateKeeps ==
  ASSUME NEW s \in States, NEW c \in Client, s.clients[c] # NULL, Shown(s)
  PROVE  /\ Keeps(s, client_activate(s, c))
         /\ Shown(client_activate(s, c))
         /\ Focused(client_activate(s, c))
  <1> DEFINE t == client_activate(s, c)
             own == s.clients[c].flags
             F(d) == IF d = c THEN s.clients[d].flags \cup {"ACTIVE"}
                     ELSE s.clients[d].flags \ {"ACTIVE"}
             K == OnlyActive(s, c)
             alone == [s EXCEPT !.clients = K, !.stray = FALSE]
             f == IF ("INPUT" \in own \/ "WM_TAKE_FOCUS" \notin own) /\ s.viewable[c]
                  THEN c ELSE s.focus
             m == IF "WM_TAKE_FOCUS" \in own /\ s.life[c] = "alive"
                  THEN s.mail \cup {<<"WM_TAKE_FOCUS", c>>} ELSE s.mail
  <1>1. \A d \in Client : s.clients[d] # NULL =>
          /\ s.clients[d] \in ClientT
          /\ K[d] \in ClientT
          /\ K[d].flags = F(d)
    <2> SUFFICES ASSUME NEW d \in Client, s.clients[d] # NULL
                 PROVE  s.clients[d] \in ClientT /\ K[d] \in ClientT /\ K[d].flags = F(d)
      OBVIOUS
    <2>1. s.clients[d] \in ClientT
      BY DEF States
    <2>2. F(d) \in SUBSET Flag
      BY <2>1 DEF ClientT, Flag
    <2>3. K[d] = [s.clients[d] EXCEPT !.flags = F(d)]
      BY DEF OnlyActive
    <2> QED BY <2>1, <2>2, <2>3 DEF ClientT
  <1>2. K \in [Client -> ClientT \cup {NULL}]
    BY <1>1 DEF OnlyActive
  <1>3. t = [s EXCEPT !.clients = K, !.stray = FALSE, !.focus = f, !.mail = m]
    <2>1. /\ alone.viewable = s.viewable /\ alone.life = s.life
          /\ alone.focus = s.focus /\ alone.mail = s.mail
      BY DEF States
    <2>2. t = LET given == IF "INPUT" \in own \/ "WM_TAKE_FOCUS" \notin own
                           THEN XSetInputFocus(alone, c) ELSE alone
              IN  IF "WM_TAKE_FOCUS" \in own THEN x_send_message(given, c, "WM_TAKE_FOCUS")
                  ELSE given
      BY DEF client_activate
    <2>3. alone = [s EXCEPT !.clients = K, !.stray = FALSE]
      OBVIOUS
    <2> HIDE DEF alone, K, t
    <2> QED BY <2>1, <2>2, <2>3 DEF XSetInputFocus, x_send_message, States
  <1>4. f \in Client \cup {NULL} /\ m \in SUBSET (Protocol \X Client)
    BY DEF States, Protocol
  <1>5. /\ t \in States
        /\ t.clients = K /\ t.focus = f /\ t.mail = m
        /\ t.life = s.life /\ t.viewable = s.viewable
    <2> HIDE DEF K, f, m
    <2> QED BY <1>2, <1>3, <1>4 DEF States
  <1>6. \A d \in Client : K[d] = NULL <=> s.clients[d] = NULL
    BY <1>1, IcccmAssumption DEF OnlyActive
  <1>7. Keeps(s, t)
    BY <1>1, <1>5, <1>6 DEF Keeps
  <1>8. Shown(t)
    BY <1>5 DEF Shown
  <1>9. Focused(t)
    <2>1. \A d \in Client : t.clients[d] # NULL /\ "ACTIVE" \in t.clients[d].flags => d = c
      BY <1>1, <1>5, <1>6
    <2>2. s.viewable[c] => f = c \/ <<"WM_TAKE_FOCUS", c>> \in m
      BY DEF Shown
    <2> HIDE DEF t, f, m
    <2> QED BY <1>5, <2>1, <2>2 DEF Focused, IsActive
  <1> QED BY <1>7, <1>8, <1>9

\* Showing and hiding a window.
LEMMA ShowKeeps ==
  ASSUME NEW s \in States, NEW c \in Client, s.clients[c] # NULL, Shown(s)
  PROVE  Keeps(s, client_show(s, c)) /\ Shown(client_show(s, c))
  <1> DEFINE m == XMapWindow(s, c)
             u == SetFlags(m, c, s.clients[c].flags \ {"HIDDEN"})
             v == [u EXCEPT !.atom = @ \ {c}]
             t == client_show(s, c)
  <1>1. /\ m \in States /\ m.clients = s.clients /\ m.life = s.life
        /\ m.viewable = [s.viewable EXCEPT ![c] = s.life[c] = "alive"]
    BY DEF XMapWindow, States
  <1>2. Keeps(m, u)
    <2>1. s.clients[c].flags \ {"HIDDEN"} \in SUBSET Flag
      BY DEF States, ClientT
    <2> HIDE DEF m
    <2> QED BY <1>1, <2>1, FlagsKeep
  <1>3. u.viewable = m.viewable /\ u.life = m.life
    BY <1>1 DEF SetFlags, States
  <1>4. t = [u EXCEPT !.atom = u.atom \ {c}, !.wm_state = [u.wm_state EXCEPT ![c] = "Normal"]]
    BY <1>2 DEF client_show, icccm_set_wm_state, Keeps, States
  <1> HIDE DEF m, u, v, t
  <1>5. /\ t \in States /\ t.clients = u.clients
        /\ t.life = u.life /\ t.viewable = u.viewable
    BY <1>2, <1>4 DEF Keeps, States
  <1> QED BY <1>1, <1>2, <1>3, <1>5 DEF Keeps, Shown, States, t

\* Hiding takes the focus away, and nobody else gets it.
LEMMA HideKeeps ==
  ASSUME NEW s \in States, NEW c \in Client, s.clients[c] # NULL, Shown(s)
  PROVE  /\ Keeps(s, client_hide(s, c)) /\ Shown(client_hide(s, c))
         /\ Focused(s) => Focused(client_hide(s, c))
  <1> DEFINE m == XUnmapWindow(s, c)
             u == SetFlags(m, c, s.clients[c].flags \cup {"HIDDEN"})
             t == client_hide(s, c)
  <1>1. /\ m \in States /\ m.clients = s.clients /\ m.life = s.life /\ m.mail = s.mail
        /\ m.stray = s.stray
        /\ m.viewable = [s.viewable EXCEPT ![c] = FALSE]
        /\ m.focus = IF s.focus = c THEN NULL ELSE s.focus
    BY DEF XUnmapWindow, States
  <1>2. Keeps(m, u)
    <2>1. s.clients[c].flags \cup {"HIDDEN"} \in SUBSET Flag
      BY DEF States, ClientT, Flag
    <2> HIDE DEF m
    <2> QED BY <1>1, <2>1, FlagsKeep
  <1>3. /\ u.viewable = m.viewable /\ u.life = m.life /\ u.mail = m.mail
        /\ u.stray = m.stray /\ u.focus = m.focus
        /\ \A d \in Client \ {c} : u.clients[d] = m.clients[d]
    BY <1>1 DEF SetFlags, States
  <1>4. t = [u EXCEPT !.atom = u.atom \cup {c}, !.wm_state = [u.wm_state EXCEPT ![c] = "Iconic"]]
    BY <1>2 DEF client_hide, icccm_set_wm_state, Keeps, States
  <1>8. "ACTIVE" \in u.clients[c].flags => "ACTIVE" \in s.clients[c].flags
    <2>1. u.clients[c].flags = s.clients[c].flags \cup {"HIDDEN"}
      BY <1>1 DEF SetFlags, States, ClientT
    <2> QED BY <2>1
  <1> HIDE DEF m, u, t
  <1>5. /\ t \in States /\ t.clients = u.clients
        /\ t.life = u.life /\ t.viewable = u.viewable
        /\ t.mail = u.mail /\ t.stray = u.stray /\ t.focus = u.focus
    BY <1>2, <1>4 DEF Keeps, States
  <1>6. Keeps(s, t) /\ Shown(t)
    BY <1>1, <1>2, <1>3, <1>5 DEF Keeps, Shown, States
  <1>7. ASSUME Focused(s) PROVE Focused(t)
    <2>1. \A d \in Client : IsActive(t, d) => IsActive(s, d)
      BY <1>1, <1>2, <1>3, <1>5, <1>8 DEF Keeps, IsActive
    <2>2. \A d \in Client : t.viewable[d] => s.viewable[d] /\ d # c
      BY <1>1, <1>3, <1>5 DEF States
    <2> QED BY <1>1, <1>3, <1>5, <1>7, <2>1, <2>2 DEF Focused
  <1> QED BY <1>6, <1>7 DEF t

\* A window that goes away.
LEMMA GoneKeeps ==
  ASSUME NEW s \in States, NEW c \in Client, Shown(s)
  PROVE  /\ Keeps(s, Gone(s, c)) /\ Shown(Gone(s, c))
         /\ Gone(s, c).clients = s.clients
         /\ Gone(s, c).life[c] # "alive"
         /\ Focused(s) => Focused(Gone(s, c))
  <1> DEFINE t == Gone(s, c)
             f == IF s.focus = c THEN NULL ELSE s.focus
             mail == {m \in s.mail : m[2] # c}
  <1>1. t = [s EXCEPT !.viewable = [s.viewable EXCEPT ![c] = FALSE], !.focus = f,
                      !.life = [s.life EXCEPT ![c] = "gone"], !.mail = mail]
    BY DEF Gone, XUnmapWindow, States
  <1>2. \A d \in Client \ {c} : <<"WM_TAKE_FOCUS", d>> \in s.mail => <<"WM_TAKE_FOCUS", d>> \in mail
    OBVIOUS
  <1> HIDE DEF t
  <1>3. /\ t \in States /\ t.clients = s.clients /\ t.stray = s.stray
        /\ t.viewable = [s.viewable EXCEPT ![c] = FALSE]
        /\ t.life = [s.life EXCEPT ![c] = "gone"]
        /\ t.focus = f /\ t.mail = mail
    BY <1>1 DEF States
  <1>4. Keeps(s, t) /\ Shown(t) /\ t.life[c] # "alive"
    BY <1>3 DEF Keeps, Shown, States
  <1>5. ASSUME Focused(s) PROVE Focused(t)
    <2> HIDE DEF mail
    <2> QED BY <1>2, <1>3, <1>5 DEF Focused, IsActive, States
  <1> QED BY <1>3, <1>4, <1>5 DEF t

\* Unmapping and mapping the clients of a desktop.
LEMMA UnmappedKeeps ==
  ASSUME NEW s \in States, NEW some \in SUBSET Client, \A c \in some : s.clients[c] # NULL,
         Shown(s)
  PROVE  /\ Keeps(s, Unmapped(s, some)) /\ Shown(Unmapped(s, some))
         /\ Focused(s) => Focused(Unmapped(s, some))
         /\ \A c \in Client : s.clients[c] # NULL =>
              Unmapped(s, some).clients[c].desktop = s.clients[c].desktop
  <1> DEFINE t == Unmapped(s, some)
             K == [c \in Client |-> IF c \notin some THEN s.clients[c]
                                    ELSE [s.clients[c] EXCEPT !.flags = @ \ {"ACTIVE"},
                                                              !.mapped = FALSE]]
             V == [c \in Client |-> s.viewable[c] /\ c \notin some]
             f == IF s.focus \in some THEN NULL ELSE s.focus
             W == [c \in Client |-> IF c \in some THEN "Iconic" ELSE s.wm_state[c]]
  <1>1. \A c \in Client : s.clients[c] # NULL =>
          /\ K[c] \in ClientT
          /\ K[c].flags = IF c \in some THEN s.clients[c].flags \ {"ACTIVE"} ELSE s.clients[c].flags
          /\ K[c].desktop = s.clients[c].desktop
    <2> SUFFICES ASSUME NEW c \in Client, s.clients[c] # NULL
                 PROVE  /\ K[c] \in ClientT
                        /\ K[c].flags = IF c \in some THEN s.clients[c].flags \ {"ACTIVE"}
                                        ELSE s.clients[c].flags
                        /\ K[c].desktop = s.clients[c].desktop
      OBVIOUS
    <2>1. s.clients[c] \in ClientT
      BY DEF States
    <2> QED BY <2>1 DEF ClientT
  <1>2. /\ K \in [Client -> ClientT \cup {NULL}]
        /\ \A c \in Client : K[c] = NULL <=> s.clients[c] = NULL
    <2>1. \A c \in Client : s.clients[c] = NULL => K[c] = NULL
      OBVIOUS
    <2>2. K = [c \in Client |-> K[c]]
      OBVIOUS
    <2> HIDE DEF K
    <2> QED BY <1>1, <2>1, <2>2, IcccmAssumption
  <1>3. V \in [Client -> BOOLEAN] /\ f \in Client \cup {NULL}
        /\ W \in [Client -> {"None", "Normal", "Iconic"}]
    BY DEF States
  <1>4. t = [s EXCEPT !.clients = K, !.viewable = V, !.focus = f, !.wm_state = W]
    BY DEF Unmapped
  <1>5. \A c \in Client : V[c] => s.viewable[c] /\ c \notin some
    OBVIOUS
  <1> HIDE DEF t, K, V, W
  <1>6. /\ t \in States /\ t.clients = K /\ t.viewable = V /\ t.focus = f
        /\ t.life = s.life /\ t.mail = s.mail /\ t.stray = s.stray
    <2> HIDE DEF f
    <2> QED BY <1>2, <1>3, <1>4 DEF States
  <1>7. Keeps(s, t)
    BY <1>1, <1>2, <1>6 DEF Keeps
  <1>8. Shown(t)
    BY <1>5, <1>6 DEF Shown
  <1>9. ASSUME Focused(s) PROVE Focused(t)
    BY <1>1, <1>2, <1>5, <1>6, <1>9 DEF Focused, IsActive
  <1> QED BY <1>1, <1>6, <1>7, <1>8, <1>9 DEF t

\* Mapping nothing keeps the focus where it is; what is mapped has no focus yet.
LEMMA MappedKeeps ==
  ASSUME NEW s \in States, NEW some \in SUBSET Client, Shown(s)
  PROVE  /\ Keeps(s, Mapped(s, some)) /\ Shown(Mapped(s, some))
         /\ Mapped(s, some).clients = s.clients
         /\ some = {} /\ Focused(s) => Focused(Mapped(s, some))
  <1> DEFINE t == Mapped(s, some)
             V == [c \in Client |-> IF c \in some THEN s.life[c] = "alive" ELSE s.viewable[c]]
             W == [c \in Client |-> IF c \in some THEN "Normal" ELSE s.wm_state[c]]
  <1>1. V \in [Client -> BOOLEAN] /\ W \in [Client -> {"None", "Normal", "Iconic"}]
    BY DEF States
  <1>2. t = [s EXCEPT !.viewable = V, !.wm_state = W]
    BY DEF Mapped
  <1>3. /\ \A c \in Client : V[c] => s.viewable[c] \/ s.life[c] = "alive"
        /\ some = {} => \A c \in Client : V[c] = s.viewable[c]
    OBVIOUS
  <1> HIDE DEF t, V, W
  <1>4. /\ t \in States /\ t.clients = s.clients /\ t.viewable = V /\ t.focus = s.focus
        /\ t.life = s.life /\ t.mail = s.mail /\ t.stray = s.stray
    BY <1>1, <1>2 DEF States
  <1>5. Keeps(s, t) /\ Shown(t)
    BY <1>3, <1>4 DEF Keeps, Shown
  <1>6. ASSUME some = {}, Focused(s) PROVE Focused(t)
    BY <1>3, <1>4, <1>6 DEF Focused, IsActive
  <1> QED BY <1>4, <1>5, <1>6 DEF t

\* A function that does nothing keeps everything.
LEMMA KeepsItself == ASSUME NEW s \in States PROVE Keeps(s, s)
  BY DEF Keeps

\* What two functions keep is kept by one after the other.
LEMMA KeepsOn ==
  ASSUME NEW s, NEW t, NEW u, Keeps(s, t), Keeps(t, u)
  PROVE  Keeps(s, u)
  BY DEF Keeps

\* A client that is told that its window is mapped.
LEMMA MappedFlagKeeps ==
  ASSUME NEW s \in States, NEW c \in Client, s.clients[c] # NULL, Shown(s)
  PROVE  LET t == [s EXCEPT !.clients[c].mapped = TRUE]
         IN  Keeps(s, t) /\ Shown(t)
  <1> DEFINE t == [s EXCEPT !.clients[c].mapped = TRUE]
             r == [s.clients[c] EXCEPT !.mapped = TRUE]
  <1>1. r \in ClientT /\ r # NULL /\ r.flags = s.clients[c].flags
    <2>1. s.clients[c] \in ClientT
      BY DEF States
    <2>2. r \in ClientT /\ r.flags = s.clients[c].flags
      BY <2>1 DEF ClientT
    <2> QED BY <2>2, IcccmAssumption
  <1>2. t = [s EXCEPT !.clients = [s.clients EXCEPT ![c] = r]]
    BY DEF States
  <1> HIDE DEF t, r
  <1>3. [s.clients EXCEPT ![c] = r] \in [Client -> ClientT \cup {NULL}]
    BY <1>1 DEF States
  <1>4. /\ t \in States /\ t.clients = [s.clients EXCEPT ![c] = r]
        /\ t.life = s.life /\ t.viewable = s.viewable
    BY <1>2, <1>3 DEF States
  <1>5. Keeps(s, t) /\ Shown(t)
    BY <1>1, <1>4 DEF Keeps, Shown, States
  <1> QED BY <1>5 DEF t

\* Showing a window and activating it.
LEMMA ShowActivateKeeps ==
  ASSUME NEW s \in States, NEW c \in Client, s.clients[c] # NULL, Shown(s)
  PROVE  LET t == client_activate(client_show(s, c), c)
         IN  Keeps(s, t) /\ Shown(t) /\ Focused(t)
  <1> DEFINE u == client_show(s, c)
  <1>1. Keeps(s, u) /\ Shown(u)
    BY ShowKeeps
  <1>2. u \in States /\ u.clients[c] # NULL
    BY <1>1 DEF Keeps
  <1> HIDE DEF u
  <1>3. /\ Keeps(u, client_activate(u, c)) /\ Shown(client_activate(u, c))
        /\ Focused(client_activate(u, c))
    BY <1>1, <1>2, ActivateKeeps
  <1> QED BY <1>1, <1>3, KeepsOn DEF u

\* Activating some client of a desktop.
LEMMA SomeActivatedKeeps ==
  ASSUME NEW s \in States, NEW d \in Desktop, Shown(s), NEW t \in SomeActivated(s, d)
  PROVE  /\ Keeps(s, t) /\ Shown(t)
         /\ Focused(s) \/ On(s, d) # {} => Focused(t)
  <1>1. CASE On(s, d) = {}
    <2>1. t = s
      BY <1>1 DEF SomeActivated
    <2> QED BY <1>1, <2>1, KeepsItself
  <1>2. CASE On(s, d) # {}
    <2>1. PICK c \in On(s, d) : t = client_activate(s, c)
      BY <1>2 DEF SomeActivated
    <2>2. c \in Client /\ s.clients[c] # NULL
      BY DEF On
    <2> QED BY <2>1, <2>2, ActivateKeeps
  <1> QED BY <1>1, <1>2

\* What client_init makes of a window: a client that knows what its owner has announced.
LEMMA InitClient ==
  ASSUME TypeOK, NEW c \in Client, state.clients[c] = NULL
  PROVE  LET t == client_init(state, c, current)
         IN  /\ t \in States
             /\ t.clients[c] # NULL
             /\ protocols[c] \subseteq t.clients[c].flags
             /\ "ACTIVE" \notin t.clients[c].flags
             /\ \A d \in Client \ {c} : t.clients[d] = state.clients[d]
             /\ t.life = state.life /\ t.viewable = state.viewable
             /\ t.focus = state.focus /\ t.mail = state.mail /\ t.stray = state.stray
  <1> DEFINE F == (IF hints[c].input THEN {"INPUT"} ELSE {}) \cup protocols[c]
                     \cup (IF c \in state.atom THEN {"HIDDEN"} ELSE {})
             r == [flags |-> F, mapped |-> state.viewable[c], desktop |-> current,
                   initial_state |-> hints[c].state]
             made == [state EXCEPT !.clients[c] = r]
             t == client_init(state, c, current)
  <1>1. /\ F \in SUBSET Flag /\ protocols[c] \subseteq F /\ "ACTIVE" \notin F
        /\ hints[c].state \in {"None", "Normal", "Iconic"}
    BY DEF TypeOK, Flag, Protocol, WmHints
  <1>2. r \in ClientT /\ r.flags = F
    BY <1>1 DEF TypeOK, States, ClientT
  <1>3. r # NULL
    BY <1>2, IcccmAssumption
  <1>4. t = made \/ t = icccm_set_wm_state(made, c, hints[c].state)
    BY DEF client_init
  <1> HIDE DEF r, t
  <1>5. /\ made \in States /\ made.clients = [state.clients EXCEPT ![c] = r]
        /\ made.life = state.life /\ made.viewable = state.viewable
        /\ made.focus = state.focus /\ made.mail = state.mail /\ made.stray = state.stray
    BY <1>2 DEF TypeOK, States
  <1> HIDE DEF made, F
  <1>6. /\ t \in States /\ t.clients = made.clients /\ t.life = made.life
        /\ t.viewable = made.viewable /\ t.focus = made.focus /\ t.mail = made.mail
        /\ t.stray = made.stray
    BY <1>1, <1>4, <1>5 DEF icccm_set_wm_state, States
  <1> QED BY <1>1, <1>2, <1>3, <1>5, <1>6 DEF TypeOK, States, t

-----------------------------------------------------------------------------
(* The invariant *)

\* The program knows what its windows have announced, or will hear of it, or has missed it
\* while it was adopting them.
Heard ==
  \A c \in Client :
    state.clients[c] # NULL /\ state.life[c] = "alive" =>
      \/ protocols[c] \subseteq state.clients[c].flags \cup unheard[c]
      \/ <<"WM_PROTOCOLS", c>> \in queue

\* Only windows that are or were there have clients, and at the start only those that have
\* been looked at.
Adopted ==
  \A c \in Client :
    state.clients[c] # NULL => state.life[c] # "absent" /\ (at = "STARTING" => c \notin tree)

Inv == TypeOK /\ Shown(state) /\ Focused(state) /\ Heard /\ Adopted

\* What a step needs to keep the invariant that changes no more than the state, the queue
\* and the current desktop, and takes no news of WM_PROTOCOLS out of the queue.
LEMMA KeptInv ==
  ASSUME Inv, Keeps(state, state'), Shown(state'), Focused(state'),
         UNCHANGED <<protocols, hints, selected, at, tree, held, edits, unheard>>,
         current' \in Desktop,
         queue' \subseteq {"MapRequest", "WM_PROTOCOLS", "WM_HINTS", "DestroyNotify"} \X Client,
         \A c \in Client : <<"WM_PROTOCOLS", c>> \in queue => <<"WM_PROTOCOLS", c>> \in queue'
  PROVE  Inv'
  <1>1. TypeOK'
    BY DEF Inv, TypeOK, Keeps, Managed
  <1>2. Heard'
    BY DEF Inv, TypeOK, Heard, Keeps, Protocol
  <1>3. Adopted'
    BY DEF Inv, Adopted, Keeps
  <1> QED BY <1>1, <1>2, <1>3 DEF Inv

\* In the first state there are no clients.
LEMMA InitInv == Init => Inv
  <1> SUFFICES ASSUME Init PROVE Inv
    OBVIOUS
  <1> DEFINE none == [c \in Client |-> NULL]
             life == [c \in Client |-> IF c \in FirstWindows THEN "alive" ELSE "absent"]
             viewable == [c \in Client |-> c \in FirstWindows]
             unset == [c \in Client |-> "None"]
  <1>0. state = [clients |-> none, life |-> life, viewable |-> viewable, wm_state |-> unset,
                 atom |-> {}, focus |-> NULL, mail |-> {}, stray |-> FALSE]
    BY DEF Init
  <1>t. /\ none \in [Client -> ClientT \cup {NULL}]
        /\ life \in [Client -> {"absent", "alive", "gone"}]
        /\ viewable \in [Client -> BOOLEAN]
        /\ unset \in [Client -> {"None", "Normal", "Iconic"}]
    OBVIOUS
  <1>1. /\ state.clients = none /\ state.life = life /\ state.viewable = viewable
        /\ state \in States
    <2> HIDE DEF none, life, viewable, unset
    <2> QED BY <1>0, <1>t DEF States
  <1>2. TypeOK
    BY <1>1, IcccmAssumption DEF Init, TypeOK, Managed
  <1> QED BY <1>1, <1>2 DEF Inv, Shown, Focused, IsActive, Heard, Adopted

-----------------------------------------------------------------------------
(* The owners *)

\* A window that appears has no client.
LEMMA CreateInv == ASSUME Inv, NEW c \in Client, Create(c) PROVE Inv'
  <1>1. /\ state' \in States /\ state'.life = [state.life EXCEPT ![c] = "alive"]
        /\ state'.clients = state.clients /\ state'.viewable = state.viewable
        /\ state'.focus = state.focus /\ state'.mail = state.mail /\ state'.stray = state.stray
    BY DEF Inv, TypeOK, States, Create
  <1>2. state.clients[c] = NULL
    BY DEF Inv, Adopted, Create
  <1>3. UNCHANGED <<protocols, hints, queue, selected, current, at, tree, held, edits, unheard>>
    BY DEF Create, Program
  <1>4. TypeOK'
    BY <1>1, <1>3 DEF Inv, TypeOK, Managed
  <1>5. Shown(state') /\ Focused(state')
    BY <1>1 DEF Inv, TypeOK, States, Shown, Focused, IsActive
  <1>6. Heard' /\ Adopted'
    BY <1>1, <1>2, <1>3 DEF Inv, TypeOK, States, Heard, Adopted
  <1> QED BY <1>4, <1>5, <1>6 DEF Inv

\* A request waits in the queue and changes nothing else.
LEMMA MapInv == ASSUME Inv, NEW c \in Client, Map(c) PROVE Inv'
  <1>1. Keeps(state, state') /\ Shown(state') /\ Focused(state')
    BY KeepsItself DEF Inv, TypeOK, Map
  <1> QED BY <1>1, KeptInv DEF Inv, TypeOK, Map, Program

\* What is announced is heard of if the window was selected, or counted as missed.
LEMMA AnnounceInv ==
  ASSUME Inv, NEW c \in Client, NEW P \in ProtocolSets, Announce(c, P)
  PROVE  Inv'
  <1>1. P \subseteq Protocol
    BY IcccmAssumption
  <1>2. /\ protocols' = [protocols EXCEPT ![c] = P]
        /\ queue \subseteq queue'
        /\ c \in selected => <<"WM_PROTOCOLS", c>> \in queue'
        /\ unheard' = [unheard EXCEPT ![c] = IF c \in Managed \ selected THEN @ \cup P ELSE @]
        /\ UNCHANGED <<state, hints, selected, current, at, tree, held>>
    BY DEF Announce, Tell, Program
  <1>3. TypeOK'
    <2>1. edits' \in 0 .. Edits
      BY IcccmAssumption DEF Announce, Inv, TypeOK
    <2>2. queue' \subseteq {"MapRequest", "WM_PROTOCOLS", "WM_HINTS", "DestroyNotify"} \X Client
      BY DEF Announce, Tell, Inv, TypeOK
    <2>3. protocols' \in [Client -> SUBSET Protocol] /\ unheard' \in [Client -> SUBSET Protocol]
      BY <1>1, <1>2 DEF Inv, TypeOK
    <2> QED BY <1>2, <2>1, <2>2, <2>3 DEF Inv, TypeOK, Managed
  <1>4. Heard'
    <2> SUFFICES ASSUME NEW d \in Client, state.clients[d] # NULL, state.life[d] = "alive"
                 PROVE  \/ protocols'[d] \subseteq state.clients[d].flags \cup unheard'[d]
                        \/ <<"WM_PROTOCOLS", d>> \in queue'
      BY <1>2 DEF Heard
    <2>1. CASE d = c /\ c \in selected
      BY <1>2, <2>1
    <2>2. CASE d = c /\ c \notin selected
      BY <1>2, <2>2 DEF Managed, Inv, TypeOK
    <2>3. CASE d # c
      BY <1>2, <2>3 DEF Inv, TypeOK, Heard
    <2> QED BY <2>1, <2>2, <2>3
  <1> QED BY <1>2, <1>3, <1>4 DEF Inv, Adopted

\* News of WM_HINTS may wait, or be missed: the invariant is about WM_PROTOCOLS.
LEMMA SetHintsInv ==
  ASSUME Inv, NEW c \in Client, NEW h \in Hints, SetHints(c, h)
  PROVE  Inv'
  <1>1. /\ queue \subseteq queue'
        /\ queue' \subseteq {"MapRequest", "WM_PROTOCOLS", "WM_HINTS", "DestroyNotify"} \X Client
        /\ UNCHANGED <<state, protocols, selected, current, at, tree, held, unheard>>
    BY DEF SetHints, Tell, Program, Inv, TypeOK
  <1>2. hints' \in [Client -> WmHints] /\ edits' \in 0 .. Edits
    BY IcccmAssumption DEF SetHints, Inv, TypeOK
  <1>3. TypeOK'
    BY <1>1, <1>2 DEF Inv, TypeOK, Managed
  <1> QED BY <1>1, <1>3 DEF Inv, Heard, Adopted

\* A window that is destroyed leaves its client behind, for now.
LEMMA QuitInv == ASSUME Inv, NEW c \in Client, Quit(c) PROVE Inv'
  <1>1. Keeps(state, state') /\ Shown(state') /\ Focused(state')
    BY GoneKeeps DEF Inv, TypeOK, Quit
  <1> QED BY <1>1, KeptInv DEF Inv, TypeOK, Quit, Buried, Program

\* An answer gives the focus to the active window, or is noted as stray.
LEMMA TakeFocusInv == ASSUME Inv, NEW c \in Client, TakeFocus(c) PROVE Inv'
  <1> DEFINE speaks == "WM_TAKE_FOCUS" \in protocols[c]
             active == c \in Managed /\ "ACTIVE" \in state.clients[c].flags
             read == [state EXCEPT !.mail = @ \ {<<"WM_TAKE_FOCUS", c>>},
                                   !.stray = @ \/ speaks # active]
  <1>1. /\ read \in States /\ read.clients = state.clients /\ read.life = state.life
        /\ read.viewable = state.viewable /\ read.focus = state.focus
        /\ read.mail = state.mail \ {<<"WM_TAKE_FOCUS", c>>}
        /\ read.stray = (state.stray \/ speaks # active)
    BY DEF Inv, TypeOK, States
  <1>2. state' = IF speaks THEN XSetInputFocus(read, c) ELSE read
    BY DEF TakeFocus
  <1> HIDE DEF read
  <1>3. /\ state' \in States /\ state'.clients = state.clients /\ state'.life = state.life
        /\ state'.viewable = state.viewable
        /\ state'.mail = state.mail \ {<<"WM_TAKE_FOCUS", c>>}
        /\ state'.stray = (state.stray \/ speaks # active)
        /\ state'.focus = IF speaks /\ state.viewable[c] THEN c ELSE state.focus
    BY <1>1, <1>2 DEF XSetInputFocus, States
  <1>4. Keeps(state, state') /\ Shown(state')
    BY <1>3 DEF Inv, Keeps, Shown
  <1>5. Focused(state')
    <2> SUFFICES ASSUME ~state.stray, speaks = active, NEW d \in Client,
                        state.clients[d] # NULL, "ACTIVE" \in state.clients[d].flags,
                        state.viewable[d]
                 PROVE  state'.focus = d \/ <<"WM_TAKE_FOCUS", d>> \in state'.mail
      BY <1>3 DEF Focused, IsActive, Inv, TypeOK, States
    <2>1. CASE d = c
      BY <1>3, <2>1 DEF Managed
    <2>2. CASE d # c
      <3>1. ~active
        BY <2>2 DEF Managed, Inv, Focused, IsActive
      <3>2. state.focus = d \/ <<"WM_TAKE_FOCUS", d>> \in state.mail
        BY DEF Inv, Focused, IsActive
      <3> QED BY <1>3, <2>2, <3>1, <3>2
    <2> QED BY <2>1, <2>2
  <1> QED BY <1>4, <1>5, KeptInv DEF Inv, TypeOK, TakeFocus, Program

\* An owner that was asked stays or goes; a message of another kind leaves the mail.
LEMMA DeleteWindowInv == ASSUME Inv, NEW c \in Client, DeleteWindow(c) PROVE Inv'
  <1> DEFINE read == [state EXCEPT !.mail = @ \ {<<"WM_DELETE_WINDOW", c>>}]
  <1>1. /\ read \in States /\ read.clients = state.clients /\ read.life = state.life
        /\ read.viewable = state.viewable /\ read.focus = state.focus
        /\ read.mail = state.mail \ {<<"WM_DELETE_WINDOW", c>>}
        /\ read.stray = state.stray
    BY DEF Inv, TypeOK, States
  <1>2. \/ state' = read /\ queue' = queue
        \/ state' = Gone(read, c) /\ queue' = Buried(c)
    BY DEF DeleteWindow
  <1> HIDE DEF read
  <1>3. Keeps(state, read) /\ Shown(read) /\ Focused(read)
    BY <1>1 DEF Inv, Keeps, Shown, Focused, IsActive
  <1>4. /\ Keeps(read, Gone(read, c)) /\ Shown(Gone(read, c)) /\ Focused(Gone(read, c))
    BY <1>1, <1>3, GoneKeeps
  <1>5. Keeps(state, state') /\ Shown(state') /\ Focused(state')
    BY <1>2, <1>3, <1>4, KeepsOn
  <1>6. /\ queue \subseteq queue'
        /\ queue' \subseteq {"MapRequest", "WM_PROTOCOLS", "WM_HINTS", "DestroyNotify"} \X Client
    BY <1>2 DEF Buried, Inv, TypeOK
  <1> QED BY <1>5, <1>6, KeptInv DEF Inv, TypeOK, DeleteWindow, Program

-----------------------------------------------------------------------------
(* The program *)

\* client_init keeps the invariant, whoever calls it.
LEMMA AdoptInv ==
  ASSUME Inv, NEW c \in Client, state.clients[c] = NULL, state.life[c] = "alive",
         state' = client_init(state, c, current), held' = c,
         UNCHANGED <<protocols, hints, selected, current, at, edits, unheard>>,
         tree' \subseteq tree, at = "STARTING" => c \notin tree',
         queue' \subseteq {"MapRequest", "WM_PROTOCOLS", "WM_HINTS", "DestroyNotify"} \X Client,
         \A d \in Client : <<"WM_PROTOCOLS", d>> \in queue => <<"WM_PROTOCOLS", d>> \in queue'
  PROVE  Inv'
  <1>1. /\ state' \in States
        /\ state'.clients[c] # NULL
        /\ protocols[c] \subseteq state'.clients[c].flags
        /\ "ACTIVE" \notin state'.clients[c].flags
        /\ \A d \in Client \ {c} : state'.clients[d] = state.clients[d]
        /\ state'.life = state.life /\ state'.viewable = state.viewable
        /\ state'.focus = state.focus /\ state'.mail = state.mail
        /\ state'.stray = state.stray
    BY InitClient DEF Inv
  <1>2. c \notin selected
    BY DEF Inv, TypeOK, Managed
  <1>3. TypeOK'
    BY <1>1, <1>2 DEF Inv, TypeOK, Managed
  <1>4. Shown(state') /\ Focused(state')
    BY <1>1 DEF Inv, Shown, Focused, IsActive
  <1>5. Heard'
    BY <1>1 DEF Inv, Heard
  <1>6. Adopted'
    BY <1>1 DEF Inv, Adopted
  <1> QED BY <1>3, <1>4, <1>5, <1>6 DEF Inv

\* The windows of the session are adopted once each.
LEMMA StartInv ==
  ASSUME Inv, (\E c \in Client : state_update_clients(c)) \/ started
  PROVE  Inv'
  <1>1. CASE started
    <2>1. /\ UNCHANGED <<state, protocols, hints, queue, selected, current, tree, held, edits,
                         unheard>>
          /\ at' = "RUNNING"
      BY <1>1 DEF started, Owners
    <2> QED BY <2>1 DEF Inv, TypeOK, Managed, Heard, Adopted
  <1>2. ASSUME NEW c \in Client, state_update_clients(c) PROVE Inv'
    <2>1. /\ UNCHANGED <<protocols, hints, queue, selected, current, at, edits, unheard>>
          /\ tree' \subseteq tree
      BY <1>2 DEF state_update_clients, Owners
    <2>2. CASE Alive(c)
      <3>1. state.clients[c] = NULL /\ c \notin tree'
        BY <1>2 DEF state_update_clients, Inv, Adopted
      <3> QED BY <1>2, <2>1, <2>2, <3>1, AdoptInv DEF state_update_clients, Alive, Inv, TypeOK
    <2>3. CASE ~Alive(c)
      <3>1. UNCHANGED <<state, held>>
        BY <1>2, <2>3 DEF state_update_clients
      <3> QED BY <2>1, <3>1 DEF Inv, TypeOK, Managed, Heard, Adopted
    <2> QED BY <2>2, <2>3
  <1> QED BY <1>1, <1>2

\* The end of client_init selects the window, if it is still there.
LEMMA XSelectInputInv == ASSUME Inv, NEW c \in Client, XSelectInput(c) PROVE Inv'
  <1>1. state.clients[c] # NULL /\ c \notin selected
    BY IcccmAssumption DEF XSelectInput, Inv, TypeOK, Managed
  <1>2. Keeps(state, state') /\ Shown(state') /\ Focused(state')
    <2>1. CASE state' = state
      BY <2>1, KeepsItself DEF Inv, TypeOK
    <2>2. CASE state' = client_activate(state, c)
      BY <1>1, <2>2, ActivateKeeps DEF Inv, TypeOK
    <2>3. CASE state' = client_activate(client_show([state EXCEPT !.clients[c].mapped = TRUE], c), c)
      <3> DEFINE m == [state EXCEPT !.clients[c].mapped = TRUE]
      <3>1. Keeps(state, m) /\ Shown(m)
        BY <1>1, MappedFlagKeeps DEF Inv, TypeOK
      <3> HIDE DEF m
      <3>2. m \in States /\ m.clients[c] # NULL
        BY <1>1, <3>1 DEF Keeps
      <3>3. Keeps(m, state') /\ Shown(state') /\ Focused(state')
        BY <2>3, <3>1, <3>2, ShowActivateKeeps DEF m
      <3> QED BY <3>1, <3>3, KeepsOn
    <2> QED BY <2>1, <2>2, <2>3 DEF XSelectInput, Inv, TypeOK
  <1>3. /\ UNCHANGED <<protocols, hints, queue, current, at, tree, edits, unheard>>
        /\ held' = NULL /\ selected' \subseteq selected \cup {c}
    BY DEF XSelectInput, Owners
  <1>4. TypeOK'
    BY <1>1, <1>2, <1>3 DEF Inv, TypeOK, Keeps, Managed
  <1>5. Heard'
    BY <1>2, <1>3 DEF Inv, TypeOK, Heard, Keeps, Protocol
  <1>6. Adopted'
    BY <1>2, <1>3 DEF Inv, Adopted, Keeps
  <1> QED BY <1>2, <1>4, <1>5, <1>6 DEF Inv

\* A window without a client is adopted, one with a client shown and activated.
LEMMA MapRequestInv == ASSUME Inv, NEW c \in Client, event_handle_map_request(c) PROVE Inv'
  <1>1. /\ UNCHANGED <<protocols, hints, selected, current, at, tree, edits, unheard>>
        /\ queue' = queue \ {<<"MapRequest", c>>}
        /\ held = NULL /\ at = "RUNNING"
    BY DEF event_handle_map_request, XNextEvent, Idle, Owners
  <1>2. CASE c \in Managed
    <2>1. /\ state' = client_activate(client_show([state EXCEPT !.clients[c].mapped = TRUE], c), c)
          /\ held' = held /\ state.clients[c] # NULL
      BY <1>2 DEF event_handle_map_request, Managed
    <2> DEFINE m == [state EXCEPT !.clients[c].mapped = TRUE]
    <2>2. Keeps(state, m) /\ Shown(m)
      BY <2>1, MappedFlagKeeps DEF Inv, TypeOK
    <2> HIDE DEF m
    <2>3. m \in States /\ m.clients[c] # NULL
      BY <2>1, <2>2 DEF Keeps
    <2>4. Keeps(m, state') /\ Shown(state') /\ Focused(state')
      BY <2>1, <2>2, <2>3, ShowActivateKeeps DEF m
    <2>5. Keeps(state, state')
      BY <2>2, <2>4, KeepsOn
    <2> QED BY <1>1, <2>1, <2>4, <2>5, KeptInv DEF Inv, TypeOK
  <1>3. CASE c \notin Managed /\ Alive(c)
    <2>1. state' = client_init(state, c, current) /\ held' = c /\ state.clients[c] = NULL
      BY <1>3 DEF event_handle_map_request, Managed
    <2> QED BY <1>1, <1>3, <2>1, AdoptInv DEF Alive, Inv, TypeOK
  <1>4. CASE c \notin Managed /\ ~Alive(c)
    <2>1. UNCHANGED <<state, held>>
      BY <1>4 DEF event_handle_map_request
    <2>2. Keeps(state, state') /\ Shown(state') /\ Focused(state')
      BY <2>1, KeepsItself DEF Inv, TypeOK
    <2> QED BY <1>1, <2>1, <2>2, KeptInv DEF Inv, TypeOK
  <1> QED BY <1>2, <1>3, <1>4

\* The property is read as it is now, so the news of it are not needed any more.
LEMMA PropertyInv ==
  ASSUME Inv, NEW c \in Client, NEW kind \in {"WM_PROTOCOLS", "WM_HINTS"},
         icccm_handle_property(kind, c)
  PROVE  Inv'
  <1>1. /\ UNCHANGED <<protocols, hints, selected, held, current, at, tree, edits, unheard>>
        /\ queue' = queue \ {<<kind, c>>}
    BY DEF icccm_handle_property, XNextEvent, Owners
  <1> DEFINE told == IF kind = "WM_PROTOCOLS" THEN protocols[c]
                     ELSE IF hints[c].input THEN {"INPUT"} ELSE {}
             initial == IF kind = "WM_HINTS" /\ hints[c].state # "None" THEN hints[c].state
                        ELSE state.clients[c].initial_state
             F == state.clients[c].flags \cup told
             u == SetFlags(state, c, F)
  <1>2. CASE c \notin Managed \/ ~Alive(c)
    <2>1. state' = state
      BY <1>2 DEF icccm_handle_property
    <2>2. TypeOK'
      BY <1>1, <2>1 DEF Inv, TypeOK, Managed
    <2>3. Heard'
      BY <1>1, <1>2, <2>1 DEF Inv, Heard, Managed, Alive
    <2> QED BY <1>1, <2>1, <2>2, <2>3 DEF Inv, Adopted
  <1>3. CASE c \in Managed /\ Alive(c)
    <2>0. state.clients[c] \in ClientT /\ state.clients[c] # NULL
      BY <1>3 DEF Managed, Inv, TypeOK, States
    <2>1. F \in SUBSET Flag /\ initial \in {"None", "Normal", "Iconic"}
      BY <2>0 DEF Inv, TypeOK, Protocol, Flag, WmHints, ClientT
    <2>2. state' = [u EXCEPT !.clients[c].initial_state = initial]
      BY <1>3 DEF icccm_handle_property
    <2> DEFINE r == [state.clients[c] EXCEPT !.flags = F, !.initial_state = initial]
    <2>3. r \in ClientT /\ r.flags = F
      BY <2>0, <2>1 DEF ClientT
    <2>4. state' = [state EXCEPT !.clients = [state.clients EXCEPT ![c] = r]]
      BY <2>2 DEF SetFlags, Inv, TypeOK, States
    <2>5. told \cap {"ACTIVE"} = {} /\ (kind = "WM_PROTOCOLS" => protocols[c] \subseteq F)
      BY DEF Inv, TypeOK, Protocol
    <2>6. state.clients[c].flags \subseteq F /\ ("ACTIVE" \in F => "ACTIVE" \in state.clients[c].flags)
      BY <2>5
    <2> HIDE DEF r, F, u, told, initial
    <2>7. [state.clients EXCEPT ![c] = r] \in [Client -> ClientT \cup {NULL}]
      BY <2>3 DEF Inv, TypeOK, States
    <2>8. /\ state' \in States /\ state'.clients = [state.clients EXCEPT ![c] = r]
          /\ state'.life = state.life /\ state'.viewable = state.viewable
          /\ state'.focus = state.focus /\ state'.mail = state.mail
          /\ state'.stray = state.stray
      BY <2>4, <2>7 DEF Inv, TypeOK, States
    <2>9. r # NULL
      BY <2>3, IcccmAssumption
    <2>10. Keeps(state, state')
      BY <2>0, <2>3, <2>6, <2>8, <2>9 DEF Keeps, Inv, TypeOK, States
    <2>11. \A d \in Client : IsActive(state', d) => IsActive(state, d)
      BY <2>0, <2>3, <2>6, <2>8 DEF IsActive, Inv, TypeOK, States
    <2>12. Shown(state') /\ Focused(state')
      BY <2>8, <2>11 DEF Inv, Shown, Focused
    <2>13. TypeOK'
      BY <1>1, <2>10 DEF Inv, TypeOK, Keeps, Managed
    <2>14. Heard'
      <3> SUFFICES ASSUME NEW d \in Client, state'.clients[d] # NULL, state'.life[d] = "alive"
                   PROVE  \/ protocols[d] \subseteq state'.clients[d].flags \cup unheard[d]
                          \/ <<"WM_PROTOCOLS", d>> \in queue'
        BY <1>1 DEF Heard
      <3>1. CASE d = c /\ kind = "WM_PROTOCOLS"
        BY <2>3, <2>5, <2>8, <3>1 DEF Inv, TypeOK, States
      <3>2. CASE d = c /\ kind # "WM_PROTOCOLS"
        BY <1>1, <1>3, <2>3, <2>6, <2>8, <3>2 DEF Inv, TypeOK, States, Heard, Managed, Alive
      <3>3. CASE d # c
        BY <1>1, <2>8, <3>3 DEF Inv, TypeOK, States, Heard
      <3> QED BY <3>1, <3>2, <3>3
    <2>15. Adopted'
      BY <1>1, <2>10 DEF Inv, Adopted, Keeps
    <2> QED BY <2>12, <2>13, <2>14, <2>15 DEF Inv
  <1> QED BY <1>2, <1>3

\* A client is freed; the activation goes to another of its desktop.
LEMMA DestroyInv == ASSUME Inv, NEW c \in Client, event_handle_destroy_notify(c) PROVE Inv'
  <1>1. /\ UNCHANGED <<protocols, hints, held, current, at, tree, edits, unheard>>
        /\ queue' = queue \ {<<"DestroyNotify", c>>}
        /\ selected' = selected \ {c} /\ held = NULL
    BY DEF event_handle_destroy_notify, XNextEvent, Idle, Owners
  <1> DEFINE freed == [state EXCEPT !.clients[c] = NULL]
  <1>2. CASE c \notin Managed
    <2>1. state' = state /\ selected' = selected
      BY <1>1, <1>2 DEF event_handle_destroy_notify, Inv, TypeOK
    <2>2. Keeps(state, state') /\ Shown(state') /\ Focused(state')
      BY <2>1, KeepsItself DEF Inv, TypeOK
    <2> QED BY <1>1, <2>1, <2>2, KeptInv DEF Inv, TypeOK
  <1>3. CASE c \in Managed
    <2>1. /\ freed \in States /\ freed.clients = [state.clients EXCEPT ![c] = NULL]
          /\ freed.life = state.life /\ freed.viewable = state.viewable
          /\ freed.focus = state.focus /\ freed.mail = state.mail
          /\ freed.stray = state.stray
      BY DEF Inv, TypeOK, States
    <2>2. Shown(freed) /\ Focused(freed)
      BY <2>1 DEF Inv, TypeOK, States, Shown, Focused, IsActive
    <2>3. state.clients[c].desktop \in Desktop
      BY <1>3 DEF Managed, Inv, TypeOK, States, ClientT
    <2>4. state' = freed \/ state' \in SomeActivated(freed, state.clients[c].desktop)
      BY <1>3 DEF event_handle_destroy_notify
    <2> HIDE DEF freed
    <2>5. Keeps(freed, state') /\ Shown(state') /\ Focused(state')
      BY <2>1, <2>2, <2>3, <2>4, KeepsItself, SomeActivatedKeeps
    <2>6. \A d \in Client : state'.clients[d] = NULL <=> d = c \/ state.clients[d] = NULL
      BY <2>1, <2>5 DEF Keeps, Inv, TypeOK, States
    <2>7. TypeOK'
      BY <1>1, <2>5, <2>6 DEF Inv, TypeOK, Keeps, Managed
    <2>8. Heard'
      BY <1>1, <2>1, <2>5, <2>6 DEF Inv, TypeOK, Heard, Keeps, Protocol, States
    <2>9. Adopted'
      BY <1>1, <2>1, <2>5, <2>6 DEF Inv, Adopted, Keeps
    <2> QED BY <2>5, <2>7, <2>8, <2>9 DEF Inv
  <1> QED BY <1>2, <1>3

\* What clicks, keys and menus do to a client.
LEMMA CommandInv ==
  ASSUME Inv, NEW c \in Client,
         Choose(c) \/ function_menu_windows(c) \/ client_deactivate(c) \/ function_window_hide(c)
  PROVE  Inv'
  <1>1. UNCHANGED <<protocols, hints, queue, selected, held, current, at, tree, edits, unheard>>
    BY DEF Choose, function_menu_windows, client_deactivate, function_window_hide, Command,
           Owners, Program
  <1>2. state.clients[c] # NULL /\ state \in States /\ Shown(state) /\ Focused(state)
    BY DEF Choose, function_menu_windows, client_deactivate, function_window_hide, Managed, On,
           Inv, TypeOK
  <1>3. Keeps(state, state') /\ Shown(state') /\ Focused(state')
    <2>1. CASE Choose(c)
      BY <1>2, <2>1, ActivateKeeps DEF Choose
    <2>2. CASE function_menu_windows(c)
      BY <1>2, <2>2, ShowActivateKeeps DEF function_menu_windows
    <2>3. CASE client_deactivate(c)
      <3> DEFINE F == state.clients[c].flags \ {"ACTIVE"}
                 r == [state.clients[c] EXCEPT !.flags = F]
      <3>1. state.clients[c] \in ClientT
        BY <1>2 DEF States
      <3>2. F \in SUBSET Flag /\ r.flags = F
        BY <3>1 DEF ClientT
      <3>3. state' = SetFlags(state, c, F)
        BY <2>3 DEF client_deactivate
      <3>4. Keeps(state, state')
        BY <1>2, <3>2, <3>3, FlagsKeep
      <3>5. /\ state'.clients = [state.clients EXCEPT ![c] = r]
            /\ state'.life = state.life /\ state'.viewable = state.viewable
            /\ state'.focus = state.focus /\ state'.mail = state.mail
            /\ state'.stray = state.stray
        BY <1>2, <3>3 DEF SetFlags, States
      <3> HIDE DEF r
      <3>6. \A d \in Client : IsActive(state', d) => IsActive(state, d)
        BY <1>2, <3>2, <3>5 DEF IsActive, States
      <3> QED BY <1>2, <3>4, <3>5, <3>6 DEF Shown, Focused
    <2>4. CASE function_window_hide(c)
      BY <1>2, <2>4, HideKeeps DEF function_window_hide
    <2> QED BY <2>1, <2>2, <2>3, <2>4
  <1> QED BY <1>1, <1>3, KeptInv DEF Inv, TypeOK

\* An active window is asked to go, or killed.
LEMMA CloseInv == ASSUME Inv, NEW c \in Client, client_close(c) PROVE Inv'
  <1>1. UNCHANGED <<protocols, hints, selected, held, current, at, tree, edits, unheard>>
    BY DEF client_close, Owners, Program
  <1>2. CASE "WM_DELETE_WINDOW" \in state.clients[c].flags
    <2>1. state' = x_send_message(state, c, "WM_DELETE_WINDOW") /\ queue' = queue
      BY <1>2 DEF client_close
    <2>2. /\ state' \in States /\ state'.clients = state.clients
          /\ state'.life = state.life /\ state'.viewable = state.viewable
          /\ state'.focus = state.focus /\ state.mail \subseteq state'.mail
          /\ state'.stray = state.stray
      BY <2>1 DEF x_send_message, Inv, TypeOK, States, Protocol
    <2>3. Keeps(state, state') /\ Shown(state') /\ Focused(state')
      BY <2>2 DEF Inv, Keeps, Shown, Focused, IsActive
    <2> QED BY <1>1, <2>1, <2>3, KeptInv DEF Inv, TypeOK
  <1>3. CASE "WM_DELETE_WINDOW" \notin state.clients[c].flags
    <2>1. state' = Gone(state, c) /\ queue' = Buried(c)
      BY <1>3 DEF client_close
    <2>2. Keeps(state, state') /\ Shown(state') /\ Focused(state')
      BY <2>1, GoneKeeps DEF Inv, TypeOK
    <2> QED BY <1>1, <2>1, <2>2, KeptInv DEF Inv, TypeOK, Buried
  <1> QED BY <1>2, <1>3

\* A desktop without clients maps nothing; on one with clients one of them is activated.
LEMMA SwitchInv == ASSUME Inv, NEW d \in Desktop, desktop_switch_to_index(d) PROVE Inv'
  <1> DEFINE old == On(state, current) \ Hidden(state)
             u == Unmapped(state, old)
             some == {c \in On(state, d) \ Hidden(state) : ~u.clients[c].mapped}
             m == Mapped(u, some)
  <1>1. state' \in SomeActivated(m, d)
    BY DEF desktop_switch_to_index
  <1>2. /\ Keeps(state, u) /\ Shown(u) /\ Focused(u)
        /\ \A c \in Client : state.clients[c] # NULL =>
             u.clients[c].desktop = state.clients[c].desktop
    BY UnmappedKeeps DEF On, Inv, TypeOK
  <1>3. some \subseteq On(state, d) /\ some \in SUBSET Client
    BY DEF On
  <1> HIDE DEF u, some
  <1>4. /\ Keeps(u, m) /\ Shown(m) /\ m.clients = u.clients
        /\ some = {} => Focused(m)
    BY <1>2, <1>3, MappedKeeps DEF Keeps
  <1> HIDE DEF m
  <1>5. On(m, d) = On(state, d)
    BY <1>2, <1>4 DEF On, Keeps
  <1>6. Focused(m) \/ On(m, d) # {}
    BY <1>3, <1>4, <1>5
  <1>7. Keeps(m, state') /\ Shown(state') /\ Focused(state')
    BY <1>1, <1>4, <1>6, SomeActivatedKeeps DEF Keeps
  <1>8. Keeps(state, state')
    BY <1>2, <1>4, <1>7, KeepsOn
  <1> QED BY <1>7, <1>8, KeptInv DEF desktop_switch_to_index, Owners, Inv, TypeOK

\* Without clients there is nothing to know or to focus.
LEMMA RestartInv == ASSUME Inv, restart PROVE Inv'
  <1> DEFINE none == [c \in Client |-> NULL]
  <1>1. state' = [state EXCEPT !.clients = none, !.focus = NULL]
    BY DEF restart
  <1>2. none \in [Client -> ClientT \cup {NULL}] /\ \A c \in Client : none[c] = NULL
    OBVIOUS
  <1> HIDE DEF none
  <1>3. /\ state' \in States /\ state'.clients = none
        /\ state'.life = state.life /\ state'.viewable = state.viewable
    BY <1>1, <1>2 DEF Inv, TypeOK, States
  <1>4. /\ UNCHANGED <<protocols, hints, held, edits>> /\ held = NULL
        /\ at' = "STARTING" /\ tree' \subseteq Client
        /\ queue' = {} /\ selected' = {} /\ current' \in Desktop
        /\ unheard' \in [Client -> SUBSET Protocol]
    BY IcccmAssumption DEF restart, Idle, Owners
  <1>5. TypeOK'
    BY <1>3, <1>4 DEF Inv, TypeOK, Managed
  <1>6. Shown(state') /\ Focused(state') /\ Heard' /\ Adopted'
    BY <1>2, <1>3, <1>4 DEF Inv, Shown, Focused, IsActive, Heard, Adopted
  <1> QED BY <1>5, <1>6 DEF Inv

-----------------------------------------------------------------------------
(* The theorems *)

\* Every step keeps the invariant.
LEMMA NextInv == Inv /\ [Next]_vars => Inv'
  <1> SUFFICES ASSUME Inv, [Next]_vars PROVE Inv'
    OBVIOUS
  <1>1. CASE UNCHANGED vars
    BY <1>1 DEF vars, Inv, TypeOK, Managed, Heard, Adopted
  <1>2. ASSUME NEW c \in Client,
               \/ Create(c) \/ Map(c) \/ Quit(c) \/ TakeFocus(c) \/ DeleteWindow(c)
               \/ \E P \in ProtocolSets : Announce(c, P)
               \/ \E h \in Hints : SetHints(c, h)
        PROVE  Inv'
    BY <1>2, CreateInv, MapInv, QuitInv, TakeFocusInv, DeleteWindowInv, AnnounceInv, SetHintsInv
  <1>3. ASSUME NEW c \in Client,
               \/ state_update_clients(c) \/ XSelectInput(c)
               \/ event_handle_map_request(c) \/ event_handle_destroy_notify(c)
               \/ \E kind \in {"WM_PROTOCOLS", "WM_HINTS"} : icccm_handle_property(kind, c)
        PROVE  Inv'
    BY <1>3, StartInv, XSelectInputInv, MapRequestInv, DestroyInv, PropertyInv
  <1>4. ASSUME NEW c \in Client,
               \/ Choose(c) \/ function_menu_windows(c) \/ client_deactivate(c)
               \/ function_window_hide(c) \/ client_close(c)
        PROVE  Inv'
    BY <1>4, CommandInv, CloseInv
  <1>5. ASSUME NEW d \in Desktop, desktop_switch_to_index(d) PROVE Inv'
    BY <1>5, SwitchInv
  <1>6. CASE started \/ restart
    BY <1>6, StartInv, RestartInv
  <1> QED BY <1>1, <1>2, <1>3, <1>4, <1>5, <1>6 DEF Next

\* Every client, property, message and event of the conversation has its type, and only
\* clients of the program are held or selected.
THEOREM ConversationTypes == Spec => []TypeOK
  <1>1. Inv => TypeOK
    BY DEF Inv
  <1> QED BY <1>1, InitInv, NextInv, PTL DEF Spec

\* client_close kills no window that has announced WM_DELETE_WINDOW: the program knows of
\* it, or the announcement is on its way or was made while the window was being adopted.
THEOREM PoliteNeverKilled == Spec => NeverKilledUnasked
  <1>1. ASSUME Inv, NEW c \in Client, client_close(c), Alive(c), ~Alive(c)'
        PROVE  \/ "WM_DELETE_WINDOW" \notin protocols[c]
               \/ <<"WM_PROTOCOLS", c>> \in queue
               \/ "WM_DELETE_WINDOW" \in unheard[c]
    <2>1. "WM_DELETE_WINDOW" \notin state.clients[c].flags
      BY <1>1 DEF client_close, x_send_message, Alive, Inv, TypeOK, States
    <2>2. state.clients[c] # NULL
      BY <1>1 DEF client_close, Managed
    <2> QED BY <1>1, <2>1, <2>2 DEF Inv, Heard, Alive
  <1>2. Inv => \A c \in Client :
          client_close(c) /\ Alive(c) /\ ~Alive(c)' =>
            \/ "WM_DELETE_WINDOW" \notin protocols[c]
            \/ <<"WM_PROTOCOLS", c>> \in queue
            \/ "WM_DELETE_WINDOW" \in unheard[c]
    BY <1>1
  <1> QED BY <1>2, InitInv, NextInv, PTL DEF Spec, NeverKilledUnasked

\* At rest the keys go to the active window when it can be seen, whatever its owner has
\* announced about input, unless the last WM_TAKE_FOCUS went astray.
THEOREM KeysFollowActive == Spec => []FocusOnActive
  <1>1. Inv => FocusOnActive
    BY DEF Inv, Focused, IsActive, FocusOnActive, AtRest, Managed
  <1> QED BY <1>1, InitInv, NextInv, PTL DEF Spec

-----------------------------------------------------------------------------
(* WM_STATE and what can be seen *)

\* Owners do not change their minds about WM_HINTS saying that a window starts Normal.
Steady ==
  \/ Edits = 0
  \/ \A g, h \in Hints : g.state = "Normal" => h.state = "Normal"

\* WM_STATE of every window, with a client or without: a window that can be seen is not
\* Iconic, and one that cannot is Normal on the word of its WM_HINTS alone, which its client
\* has read.
Labelled(s) ==
  \A c \in Client :
    /\ s.viewable[c] => s.wm_state[c] # "Iconic"
    /\ s.life[c] # "gone" /\ ~s.viewable[c] /\ s.wm_state[c] = "Normal" =>
         hints[c].state = "Normal"
    /\ s.clients[c] # NULL /\ hints[c].state = "Normal" =>
         s.clients[c].initial_state = "Normal"

Told == Labelled(state) /\ hints \in [Client -> Hints]

\* From s to t, windows that are shown get another label than Iconic and windows that are
\* hidden another one than Normal, or they are gone; clients remember their initial state.
Relabels(s, t) ==
  \A c \in Client :
    /\ \/ t.viewable[c] = s.viewable[c] /\ t.wm_state[c] = s.wm_state[c]
       \/ t.viewable[c] /\ t.wm_state[c] = "Normal"
       \/ ~t.viewable[c] /\ t.wm_state[c] = "Iconic"
       \/ ~t.viewable[c] /\ t.life[c] = "gone"
    /\ t.life[c] \in {s.life[c], "gone"}
    /\ t.clients[c] # NULL => /\ s.clients[c] # NULL
                              /\ t.clients[c].initial_state = s.clients[c].initial_state

\* Who is labelled right stays so.
LEMMA RelabelsKeeps ==
  ASSUME NEW s, NEW t, Relabels(s, t), Labelled(s)
  PROVE  Labelled(t)
  BY DEF Relabels, Labelled

\* Nothing done is a relabelling.
LEMMA RelabelsItself == ASSUME NEW s PROVE Relabels(s, s)
  BY DEF Relabels

\* Changing the flags of a client changes no label.
LEMMA FlagsRelabel ==
  ASSUME NEW s \in States, NEW c \in Client, s.clients[c] # NULL, NEW F \in SUBSET Flag
  PROVE  /\ Relabels(s, SetFlags(s, c, F))
         /\ SetFlags(s, c, F).wm_state = s.wm_state
         /\ SetFlags(s, c, F).viewable = s.viewable
         /\ SetFlags(s, c, F).life = s.life
  <1> DEFINE t == SetFlags(s, c, F)
             r == [s.clients[c] EXCEPT !.flags = F]
  <1>1. r.initial_state = s.clients[c].initial_state
    BY DEF States, ClientT
  <1>2. t = [s EXCEPT !.clients = [s.clients EXCEPT ![c] = r]]
    BY DEF SetFlags, States
  <1> HIDE DEF t, r
  <1>3. /\ t.clients = [s.clients EXCEPT ![c] = r] /\ t.wm_state = s.wm_state
        /\ t.viewable = s.viewable /\ t.life = s.life
    BY <1>2 DEF States
  <1> QED BY <1>1, <1>3 DEF Relabels, States, t

\* Neither does activating one.
LEMMA ActivateRelabels ==
  ASSUME NEW s \in States, NEW c \in Client, s.clients[c] # NULL
  PROVE  Relabels(s, client_activate(s, c))
  <1> DEFINE t == client_activate(s, c)
             K == OnlyActive(s, c)
  <1>1. \A d \in Client : K[d] # NULL => /\ s.clients[d] # NULL
                                         /\ K[d].initial_state = s.clients[d].initial_state
    <2> SUFFICES ASSUME NEW d \in Client, K[d] # NULL
                 PROVE  /\ s.clients[d] # NULL
                        /\ K[d].initial_state = s.clients[d].initial_state
      OBVIOUS
    <2>1. s.clients[d] # NULL
      BY DEF OnlyActive
    <2>2. s.clients[d] \in ClientT
      BY <2>1 DEF States
    <2>3. \E F : K[d] = [s.clients[d] EXCEPT !.flags = F]
      BY <2>1 DEF OnlyActive
    <2> QED BY <2>1, <2>2, <2>3 DEF ClientT
  <1>2. /\ t.clients = K /\ t.viewable = s.viewable /\ t.wm_state = s.wm_state
        /\ t.life = s.life
    <2> DEFINE alone == [s EXCEPT !.clients = K, !.stray = FALSE]
    <2>1. /\ alone.clients = K /\ alone.viewable = s.viewable
          /\ alone.wm_state = s.wm_state /\ alone.life = s.life
          /\ DOMAIN alone = DOMAIN s
      BY DEF States
    <2>2. t = LET own == s.clients[c].flags
                  given == IF "INPUT" \in own \/ "WM_TAKE_FOCUS" \notin own
                           THEN XSetInputFocus(alone, c) ELSE alone
              IN  IF "WM_TAKE_FOCUS" \in own THEN x_send_message(given, c, "WM_TAKE_FOCUS")
                  ELSE given
      BY DEF client_activate
    <2> HIDE DEF alone, K, t
    <2> QED BY <2>1, <2>2 DEF XSetInputFocus, x_send_message, States
  <1> HIDE DEF t, K
  <1> QED BY <1>1, <1>2 DEF Relabels, t

\* A window that is shown is Normal, one that is hidden Iconic.
LEMMA ShowRelabels ==
  ASSUME NEW s \in States, NEW c \in Client, s.clients[c] # NULL, s.life[c] # "absent"
  PROVE  Relabels(s, client_show(s, c)) /\ Relabels(s, client_hide(s, c))
  <1> DEFINE F == s.clients[c].flags \ {"HIDDEN"}
             G == s.clients[c].flags \cup {"HIDDEN"}
             m == XMapWindow(s, c)
             n == XUnmapWindow(s, c)
             u == SetFlags(m, c, F)
             v == SetFlags(n, c, G)
             t == client_show(s, c)
             w == client_hide(s, c)
  <1>1. F \in SUBSET Flag /\ G \in SUBSET Flag
    BY DEF States, ClientT, Flag
  <1>2. /\ m \in States /\ m.clients = s.clients /\ m.life = s.life
        /\ m.wm_state = s.wm_state
        /\ m.viewable = [s.viewable EXCEPT ![c] = s.life[c] = "alive"]
    BY DEF XMapWindow, States
  <1>3. /\ n \in States /\ n.clients = s.clients /\ n.life = s.life
        /\ n.wm_state = s.wm_state
        /\ n.viewable = [s.viewable EXCEPT ![c] = FALSE]
    BY DEF XUnmapWindow, States
  <1>4. t = [[u EXCEPT !.atom = @ \ {c}] EXCEPT !.wm_state[c] = "Normal"]
    BY DEF client_show, icccm_set_wm_state
  <1>5. w = [[v EXCEPT !.atom = @ \cup {c}] EXCEPT !.wm_state[c] = "Iconic"]
    BY DEF client_hide, icccm_set_wm_state
  <1> HIDE DEF m, n, F, G
  <1>6. /\ Relabels(m, u) /\ u.wm_state = s.wm_state /\ u.viewable = m.viewable
        /\ u.life = s.life
    BY <1>1, <1>2, FlagsRelabel
  <1>7. /\ Relabels(n, v) /\ v.wm_state = s.wm_state /\ v.viewable = n.viewable
        /\ v.life = s.life
    BY <1>1, <1>3, FlagsRelabel
  <1>8. DOMAIN u = DOMAIN m /\ DOMAIN v = DOMAIN n
    BY DEF SetFlags
  <1>9. DOMAIN m = DOMAIN s /\ DOMAIN n = DOMAIN s
    BY <1>2, <1>3 DEF States
  <1> HIDE DEF u, v, t, w
  <1>10. /\ t.clients = u.clients /\ t.viewable = u.viewable /\ t.life = u.life
         /\ t.wm_state = [s.wm_state EXCEPT ![c] = "Normal"]
    BY <1>4, <1>6, <1>8, <1>9 DEF States
  <1>11. /\ w.clients = v.clients /\ w.viewable = v.viewable /\ w.life = v.life
         /\ w.wm_state = [s.wm_state EXCEPT ![c] = "Iconic"]
    BY <1>5, <1>7, <1>8, <1>9 DEF States
  <1>12. Relabels(s, t)
    <2>0. s.life[c] \in {"alive", "gone"}
      BY DEF States
    <2>1. /\ t.viewable[c] \/ (~t.viewable[c] /\ t.life[c] = "gone")
          /\ t.wm_state[c] = "Normal"
      BY <1>2, <1>6, <1>10, <2>0 DEF States
    <2>2. \A d \in Client \ {c} : t.viewable[d] = s.viewable[d] /\ t.wm_state[d] = s.wm_state[d]
      BY <1>2, <1>6, <1>10 DEF States
    <2>3. t.life = s.life
      BY <1>2, <1>6, <1>10
    <2>4. \A d \in Client : t.clients[d] # NULL =>
            /\ s.clients[d] # NULL
            /\ t.clients[d].initial_state = s.clients[d].initial_state
      BY <1>2, <1>6, <1>10 DEF Relabels
    <2> QED BY <2>1, <2>2, <2>3, <2>4 DEF Relabels
  <1>13. Relabels(s, w)
    <2>1. ~w.viewable[c] /\ w.wm_state[c] = "Iconic"
      BY <1>3, <1>7, <1>11 DEF States
    <2>2. \A d \in Client \ {c} : w.viewable[d] = s.viewable[d] /\ w.wm_state[d] = s.wm_state[d]
      BY <1>3, <1>7, <1>11 DEF States
    <2>3. w.life = s.life
      BY <1>3, <1>7, <1>11
    <2>4. \A d \in Client : w.clients[d] # NULL =>
            /\ s.clients[d] # NULL
            /\ w.clients[d].initial_state = s.clients[d].initial_state
      BY <1>3, <1>7, <1>11 DEF Relabels
    <2> QED BY <2>1, <2>2, <2>3, <2>4 DEF Relabels
  <1> QED BY <1>12, <1>13 DEF t, w

\* A window that goes away has no label that counts.
LEMMA GoneRelabels ==
  ASSUME NEW s \in States, NEW c \in Client
  PROVE  Relabels(s, Gone(s, c))
  <1> DEFINE t == Gone(s, c)
  <1>1. /\ t.clients = s.clients /\ t.wm_state = s.wm_state
        /\ t.viewable = [s.viewable EXCEPT ![c] = FALSE]
        /\ t.life = [s.life EXCEPT ![c] = "gone"]
    BY DEF Gone, XUnmapWindow, States
  <1> HIDE DEF t
  <1> QED BY <1>1 DEF Relabels, States, t

\* The clients of a desktop that is left become Iconic, those of the next one Normal.
LEMMA UnmappedRelabels ==
  ASSUME NEW s \in States, NEW some \in SUBSET Client, \A c \in some : s.clients[c] # NULL
  PROVE  Relabels(s, Unmapped(s, some))
  <1> DEFINE t == Unmapped(s, some)
             K == [c \in Client |-> IF c \notin some THEN s.clients[c]
                                    ELSE [s.clients[c] EXCEPT !.flags = @ \ {"ACTIVE"},
                                                              !.mapped = FALSE]]
  <1>1. \A c \in Client : K[c] # NULL => /\ s.clients[c] # NULL
                                         /\ K[c].initial_state = s.clients[c].initial_state
    <2> SUFFICES ASSUME NEW c \in Client, K[c] # NULL
                 PROVE  /\ s.clients[c] # NULL
                        /\ K[c].initial_state = s.clients[c].initial_state
      OBVIOUS
    <2>1. s.clients[c] # NULL
      OBVIOUS
    <2>2. s.clients[c] \in ClientT
      BY <2>1 DEF States
    <2> QED BY <2>1, <2>2 DEF ClientT
  <1>2. /\ t.clients = K /\ t.life = s.life
        /\ \A c \in Client : t.viewable[c] = (s.viewable[c] /\ c \notin some)
        /\ \A c \in Client : t.wm_state[c] = IF c \in some THEN "Iconic" ELSE s.wm_state[c]
    BY DEF Unmapped, States
  <1> HIDE DEF t, K
  <1>3. \A c \in Client : s.viewable[c] \in BOOLEAN
    BY DEF States
  <1> QED BY <1>1, <1>2, <1>3 DEF Relabels, t

\* Mapping a window only tells what it shows.
LEMMA MappedRelabels ==
  ASSUME NEW s \in States, NEW some \in SUBSET Client, \A c \in some : s.life[c] # "absent"
  PROVE  Relabels(s, Mapped(s, some))
  <1> DEFINE t == Mapped(s, some)
  <1>1. /\ t.clients = s.clients /\ t.life = s.life
        /\ \A c \in Client : t.viewable[c] = IF c \in some THEN s.life[c] = "alive"
                                             ELSE s.viewable[c]
        /\ \A c \in Client : t.wm_state[c] = IF c \in some THEN "Normal" ELSE s.wm_state[c]
    BY DEF Mapped, States
  <1>2. \A c \in Client : s.life[c] \in {"absent", "alive", "gone"}
    BY DEF States
  <1> HIDE DEF t
  <1> QED BY <1>1, <1>2 DEF Relabels, t

\* A client that is told that its window is mapped.
LEMMA MappedFlagRelabels ==
  ASSUME NEW s \in States, NEW c \in Client, s.clients[c] # NULL
  PROVE  Relabels(s, [s EXCEPT !.clients[c].mapped = TRUE])
  <1> DEFINE t == [s EXCEPT !.clients[c].mapped = TRUE]
             r == [s.clients[c] EXCEPT !.mapped = TRUE]
  <1>1. r.initial_state = s.clients[c].initial_state
    BY DEF States, ClientT
  <1>2. /\ t.clients = [s.clients EXCEPT ![c] = r] /\ t.wm_state = s.wm_state
        /\ t.viewable = s.viewable /\ t.life = s.life
    BY DEF States
  <1> HIDE DEF t, r
  <1> QED BY <1>1, <1>2 DEF Relabels, States, t

\* What one relabelling and the next do to labels that are right.
LEMMA ShowActivateRelabels ==
  ASSUME NEW s \in States, NEW c \in Client, s.clients[c] # NULL, s.life[c] # "absent",
         Shown(s), Labelled(s)
  PROVE  Labelled(client_activate(client_show(s, c), c))
  <1> DEFINE u == client_show(s, c)
  <1>1. Relabels(s, u) /\ Keeps(s, u)
    BY ShowRelabels, ShowKeeps
  <1>2. u \in States /\ u.clients[c] # NULL
    BY <1>1 DEF Keeps
  <1> HIDE DEF u
  <1>3. Labelled(u)
    BY <1>1, RelabelsKeeps
  <1>4. Relabels(u, client_activate(u, c))
    BY <1>2, ActivateRelabels
  <1> QED BY <1>3, <1>4, RelabelsKeeps DEF u

\* The same for a client that is first told that its window is mapped.
LEMMA MapActivateRelabels ==
  ASSUME NEW s \in States, NEW c \in Client, s.clients[c] # NULL, s.life[c] # "absent",
         Shown(s), Labelled(s)
  PROVE  Labelled(client_activate(client_show([s EXCEPT !.clients[c].mapped = TRUE], c), c))
  <1> DEFINE m == [s EXCEPT !.clients[c].mapped = TRUE]
  <1>1. Relabels(s, m) /\ Keeps(s, m) /\ Shown(m)
    BY MappedFlagRelabels, MappedFlagKeeps
  <1>2. m.life = s.life
    BY DEF States
  <1> HIDE DEF m
  <1>3. m \in States /\ m.clients[c] # NULL /\ Labelled(m)
    BY <1>1, RelabelsKeeps DEF Keeps
  <1> QED BY <1>1, <1>2, <1>3, ShowActivateRelabels DEF m

\* So does activating another client.
LEMMA SomeActivatedRelabels ==
  ASSUME NEW s \in States, NEW d \in Desktop, NEW t \in SomeActivated(s, d), Labelled(s)
  PROVE  Labelled(t)
  <1>1. CASE On(s, d) = {}
    BY <1>1 DEF SomeActivated
  <1>2. CASE On(s, d) # {}
    <2>1. PICK c \in On(s, d) : t = client_activate(s, c)
      BY <1>2 DEF SomeActivated
    <2>2. c \in Client /\ s.clients[c] # NULL
      BY DEF On
    <2> QED BY <2>1, <2>2, ActivateRelabels, RelabelsKeeps
  <1> QED BY <1>1, <1>2

\* client_init takes the word of WM_HINTS for a window that is not on the screen, and
\* remembers it.
LEMMA InitRelabels ==
  ASSUME TypeOK, Told, NEW c \in Client, state.clients[c] = NULL
  PROVE  Labelled(client_init(state, c, current))
  <1> DEFINE F == (IF hints[c].input THEN {"INPUT"} ELSE {}) \cup protocols[c]
                     \cup (IF c \in state.atom THEN {"HIDDEN"} ELSE {})
             r == [flags |-> F, mapped |-> state.viewable[c], desktop |-> current,
                   initial_state |-> hints[c].state]
             made == [state EXCEPT !.clients[c] = r]
             t == client_init(state, c, current)
  <1>1. t = IF ~state.viewable[c] /\ hints[c].state # "None"
            THEN icccm_set_wm_state(made, c, hints[c].state) ELSE made
    BY DEF client_init
  <1>2. r.initial_state = hints[c].state
    OBVIOUS
  <1> HIDE DEF r, t
  <1>3. /\ made.clients = [state.clients EXCEPT ![c] = r] /\ made.life = state.life
        /\ made.viewable = state.viewable /\ made.wm_state = state.wm_state
        /\ DOMAIN made = DOMAIN state
    BY DEF TypeOK, States
  <1> HIDE DEF made
  <1>4. /\ t.clients = made.clients /\ t.life = made.life /\ t.viewable = made.viewable
        /\ t.wm_state = IF ~state.viewable[c] /\ hints[c].state # "None"
                        THEN [made.wm_state EXCEPT ![c] = hints[c].state] ELSE made.wm_state
    BY <1>1, <1>3 DEF icccm_set_wm_state, TypeOK, States
  <1>5. \A d \in Client :
          \/ t.wm_state[d] = state.wm_state[d]
          \/ d = c /\ ~state.viewable[c] /\ t.wm_state[c] = hints[c].state
    <2>1. state.wm_state \in [Client -> {"None", "Normal", "Iconic"}]
      BY DEF TypeOK, States
    <2>2. CASE ~state.viewable[c] /\ hints[c].state # "None"
      BY <1>3, <1>4, <2>1, <2>2
    <2>3. CASE ~(~state.viewable[c] /\ hints[c].state # "None")
      BY <1>3, <1>4, <2>3
    <2> QED BY <2>2, <2>3
  <1>6. \A d \in Client : t.clients[d] = IF d = c THEN r ELSE state.clients[d]
    BY <1>3, <1>4 DEF TypeOK, States
  <1> QED BY <1>2, <1>3, <1>4, <1>5, <1>6 DEF Told, Labelled, t

\* A step that leaves WM_HINTS alone, and what it makes of the labels.
LEMMA ToldKept ==
  ASSUME Told, hints' = hints, Labelled(state')
  PROVE  Told'
  BY DEF Told, Labelled

\* At the beginning there is nobody to be told of.
LEMMA ToldInit == Init => Told
  <1> SUFFICES ASSUME Init PROVE Told
    OBVIOUS
  <1>1. state.clients = [c \in Client |-> NULL] /\ state.wm_state = [c \in Client |-> "None"]
    BY DEF Init
  <1> QED BY <1>1 DEF Init, Told, Labelled

\* The owners.
LEMMA ToldOwners ==
  ASSUME Steady, Inv, Told, NEW c \in Client,
         \/ Create(c) \/ Map(c) \/ Quit(c) \/ TakeFocus(c) \/ DeleteWindow(c)
         \/ \E P \in ProtocolSets : Announce(c, P)
         \/ \E h \in Hints : SetHints(c, h)
  PROVE  Told'
  <1>0. state \in States /\ Labelled(state)
    BY DEF Inv, TypeOK, Told
  <1>1. CASE Create(c)
    <2>1. /\ state'.life = [state.life EXCEPT ![c] = "alive"] /\ state.life[c] = "absent"
          /\ state'.clients = state.clients /\ state'.viewable = state.viewable
          /\ state'.wm_state = state.wm_state /\ hints' = hints
      BY <1>0, <1>1 DEF States, Create
    <2>2. Labelled(state')
      BY <1>0, <2>1 DEF Labelled, States
    <2> QED BY <2>1, <2>2, ToldKept
  <1>2. CASE Map(c) \/ \E P \in ProtocolSets : Announce(c, P)
    BY <1>0, <1>2, ToldKept DEF Map, Announce
  <1>3. CASE Quit(c)
    BY <1>0, <1>3, GoneRelabels, RelabelsKeeps, ToldKept DEF Quit
  <1>4. CASE TakeFocus(c)
    <2>1. /\ state'.life = state.life /\ state'.clients = state.clients
          /\ state'.viewable = state.viewable /\ state'.wm_state = state.wm_state
          /\ hints' = hints
      BY <1>0, <1>4 DEF TakeFocus, XSetInputFocus, States
    <2> QED BY <1>0, <2>1, ToldKept DEF Labelled
  <1>5. CASE DeleteWindow(c)
    <2> DEFINE read == [state EXCEPT !.mail = @ \ {<<"WM_DELETE_WINDOW", c>>}]
    <2>1. /\ read \in States /\ read.clients = state.clients /\ read.life = state.life
          /\ read.viewable = state.viewable /\ read.wm_state = state.wm_state
      BY <1>0 DEF States
    <2>2. (state' = read \/ state' = Gone(read, c)) /\ hints' = hints
      BY <1>5 DEF DeleteWindow
    <2> HIDE DEF read
    <2>3. Labelled(read)
      BY <1>0, <2>1 DEF Labelled
    <2> QED BY <2>1, <2>2, <2>3, GoneRelabels, RelabelsKeeps, ToldKept
  <1>6. ASSUME NEW h \in Hints, SetHints(c, h) PROVE Told'
    <2>1. /\ hints' = [hints EXCEPT ![c] = h] /\ state' = state /\ Edits # 0
      BY <1>6, IcccmAssumption DEF SetHints, Inv, TypeOK
    <2>2. \A d \in Client : hints'[d].state = "Normal" <=> hints[d].state = "Normal"
      BY <2>1 DEF Steady, Told
    <2>3. hints' \in [Client -> Hints]
      BY <2>1 DEF Told
    <2> QED BY <1>0, <2>1, <2>2, <2>3 DEF Told, Labelled
  <1> QED BY <1>1, <1>2, <1>3, <1>4, <1>5, <1>6

\* Windows that are adopted, and events.
LEMMA ToldEvents ==
  ASSUME Inv, Told, NEW c \in Client,
         \/ state_update_clients(c) \/ XSelectInput(c)
         \/ event_handle_map_request(c) \/ event_handle_destroy_notify(c)
         \/ \E kind \in {"WM_PROTOCOLS", "WM_HINTS"} : icccm_handle_property(kind, c)
  PROVE  Told'
  <1>0. state \in States /\ Labelled(state) /\ Shown(state)
    BY DEF Inv, TypeOK, Told
  <1>1. hints' = hints
    BY DEF state_update_clients, XSelectInput, event_handle_map_request,
           event_handle_destroy_notify, icccm_handle_property, XNextEvent, Owners
  <1>2. CASE state_update_clients(c)
    <2>1. state' = state \/ state' = client_init(state, c, current)
      BY <1>2 DEF state_update_clients
    <2>2. state.clients[c] = NULL
      BY <1>2 DEF state_update_clients, Inv, Adopted
    <2> QED BY <1>0, <1>1, <2>1, <2>2, InitRelabels, ToldKept DEF Inv
  <1>3. CASE XSelectInput(c)
    <2>1. state.clients[c] # NULL /\ state.life[c] # "absent"
      BY <1>3, IcccmAssumption DEF XSelectInput, Inv, TypeOK, Managed, Adopted
    <2>2. \/ state' = state
          \/ state' = client_activate(state, c)
          \/ state' = client_activate(client_show([state EXCEPT !.clients[c].mapped = TRUE], c), c)
      BY <1>3 DEF XSelectInput, Inv, TypeOK
    <2> QED BY <1>0, <1>1, <2>1, <2>2, ActivateRelabels, RelabelsKeeps, MapActivateRelabels,
               ToldKept
  <1>4. CASE event_handle_map_request(c)
    <2>1. \/ state' = state
          \/ state' = client_init(state, c, current) /\ state.clients[c] = NULL
          \/ /\ state' = client_activate(client_show([state EXCEPT !.clients[c].mapped = TRUE], c), c)
             /\ state.clients[c] # NULL
      BY <1>4 DEF event_handle_map_request, Managed
    <2>2. state.clients[c] # NULL => state.life[c] # "absent"
      BY DEF Inv, Adopted
    <2> QED BY <1>0, <1>1, <2>1, <2>2, InitRelabels, MapActivateRelabels, ToldKept DEF Inv
  <1>5. CASE event_handle_destroy_notify(c)
    <2> DEFINE freed == [state EXCEPT !.clients[c] = NULL]
    <2>1. \/ state' = state
          \/ state' = freed
          \/ /\ state' \in SomeActivated(freed, state.clients[c].desktop)
             /\ state.clients[c].desktop \in Desktop
      BY <1>0, <1>5 DEF event_handle_destroy_notify, Managed, States, ClientT
    <2>2. /\ freed \in States /\ freed.clients = [state.clients EXCEPT ![c] = NULL]
          /\ freed.life = state.life /\ freed.viewable = state.viewable
          /\ freed.wm_state = state.wm_state
      BY <1>0 DEF States
    <2> HIDE DEF freed
    <2>3. Labelled(freed)
      <3>1. \A d \in Client : freed.clients[d] = IF d = c THEN NULL ELSE state.clients[d]
        BY <1>0, <2>2 DEF States
      <3> QED BY <1>0, <2>2, <3>1 DEF Labelled
    <2> QED BY <1>0, <1>1, <2>1, <2>2, <2>3, SomeActivatedRelabels, ToldKept
  <1>6. ASSUME NEW kind \in {"WM_PROTOCOLS", "WM_HINTS"}, icccm_handle_property(kind, c)
        PROVE  Told'
    <2> DEFINE told == IF kind = "WM_PROTOCOLS" THEN protocols[c]
                       ELSE IF hints[c].input THEN {"INPUT"} ELSE {}
               initial == IF kind = "WM_HINTS" /\ hints[c].state # "None" THEN hints[c].state
                          ELSE state.clients[c].initial_state
               F == state.clients[c].flags \cup told
               u == SetFlags(state, c, F)
    <2>1. \/ state' = state
          \/ state' = [u EXCEPT !.clients[c].initial_state = initial] /\ c \in Managed
      BY <1>6 DEF icccm_handle_property
    <2>2. CASE state' = state
      BY <1>0, <1>1, <2>2, ToldKept
    <2>3. CASE state' = [u EXCEPT !.clients[c].initial_state = initial] /\ c \in Managed
      <3> DEFINE r == [state.clients[c] EXCEPT !.flags = F, !.initial_state = initial]
      <3>1. state.clients[c] \in ClientT
        BY <1>0, <2>3 DEF Managed, States
      <3>2. r.initial_state = initial
        BY <3>1 DEF ClientT
      <3>3. hints[c].state = "Normal" => initial = "Normal"
        BY <1>0, <2>3 DEF Labelled, Managed
      <3>4. state' = [state EXCEPT !.clients = [state.clients EXCEPT ![c] = r]]
        BY <1>0, <2>3 DEF SetFlags, States
      <3> HIDE DEF r, F, u, told, initial
      <3>5. /\ state'.clients = [state.clients EXCEPT ![c] = r]
            /\ state'.life = state.life /\ state'.viewable = state.viewable
            /\ state'.wm_state = state.wm_state
        BY <1>0, <3>4 DEF States
      <3>6. \A d \in Client : state'.clients[d] = IF d = c THEN r ELSE state.clients[d]
        BY <1>0, <3>5 DEF States
      <3>7. Labelled(state')
        BY <1>0, <2>3, <3>2, <3>3, <3>5, <3>6 DEF Labelled, Managed
      <3> QED BY <1>1, <3>7, ToldKept
    <2> QED BY <2>1, <2>2, <2>3
  <1> QED BY <1>2, <1>3, <1>4, <1>5, <1>6

\* Clicks, keys and menus.
LEMMA ToldCommands ==
  ASSUME Inv, Told, NEW c \in Client,
         \/ Choose(c) \/ function_menu_windows(c) \/ client_deactivate(c)
         \/ function_window_hide(c) \/ client_close(c)
  PROVE  Told'
  <1>0. state \in States /\ Labelled(state) /\ Shown(state)
    BY DEF Inv, TypeOK, Told
  <1>1. /\ hints' = hints /\ state.clients[c] # NULL /\ state.life[c] # "absent"
    BY DEF Choose, function_menu_windows, client_deactivate, function_window_hide, client_close,
           Command, Owners, Managed, On, Inv, Adopted
  <1>2. CASE Choose(c)
    BY <1>0, <1>1, <1>2, ActivateRelabels, RelabelsKeeps, ToldKept DEF Choose
  <1>3. CASE function_menu_windows(c)
    BY <1>0, <1>1, <1>3, ShowActivateRelabels, ToldKept DEF function_menu_windows
  <1>4. CASE client_deactivate(c)
    <2>1. state.clients[c].flags \ {"ACTIVE"} \in SUBSET Flag
      BY <1>0, <1>1 DEF States, ClientT
    <2> QED BY <1>0, <1>1, <1>4, <2>1, FlagsRelabel, RelabelsKeeps, ToldKept
            DEF client_deactivate
  <1>5. CASE function_window_hide(c)
    BY <1>0, <1>1, <1>5, ShowRelabels, RelabelsKeeps, ToldKept DEF function_window_hide
  <1>6. CASE client_close(c)
    <2>1. state' = x_send_message(state, c, "WM_DELETE_WINDOW") \/ state' = Gone(state, c)
      BY <1>6 DEF client_close
    <2>2. CASE state' = x_send_message(state, c, "WM_DELETE_WINDOW")
      <3>1. /\ state'.life = state.life /\ state'.clients = state.clients
            /\ state'.viewable = state.viewable /\ state'.wm_state = state.wm_state
        BY <1>0, <2>2 DEF x_send_message, States
      <3> QED BY <1>0, <1>1, <3>1, ToldKept DEF Labelled
    <2> QED BY <1>0, <1>1, <2>1, <2>2, GoneRelabels, RelabelsKeeps, ToldKept
  <1> QED BY <1>2, <1>3, <1>4, <1>5, <1>6

\* Switching desktops relabels the windows of both.
LEMMA ToldSwitch ==
  ASSUME Inv, Told, NEW d \in Desktop, desktop_switch_to_index(d)
  PROVE  Told'
  <1> DEFINE old == On(state, current) \ Hidden(state)
             u == Unmapped(state, old)
             some == {c \in On(state, d) \ Hidden(state) : ~u.clients[c].mapped}
             m == Mapped(u, some)
  <1>1. state' \in SomeActivated(m, d) /\ hints' = hints
    BY DEF desktop_switch_to_index, Owners
  <1>2. Keeps(state, u) /\ Shown(u) /\ Relabels(state, u)
    BY UnmappedKeeps, UnmappedRelabels DEF On, Inv, TypeOK
  <1>3. some \in SUBSET Client /\ \A c \in some : u.life[c] # "absent"
    <2>1. u.life = state.life
      BY DEF Unmapped, Inv, TypeOK, States
    <2> QED BY <2>1 DEF On, Inv, Adopted
  <1> HIDE DEF u, some
  <1>4. u \in States /\ Labelled(u)
    BY <1>2, RelabelsKeeps DEF Keeps, Told
  <1>5. m \in States /\ Labelled(m)
    BY <1>2, <1>3, <1>4, MappedKeeps, MappedRelabels, RelabelsKeeps DEF Keeps
  <1> HIDE DEF m
  <1> QED BY <1>1, <1>5, SomeActivatedRelabels, ToldKept

\* A restart forgets clients; labels and hints stay.
LEMMA ToldRestart == ASSUME Inv, Told, started \/ restart PROVE Told'
  <1>0. state \in States /\ Labelled(state)
    BY DEF Inv, TypeOK, Told
  <1>1. CASE started
    BY <1>0, <1>1, ToldKept DEF started, Owners
  <1>2. CASE restart
    <2>1. /\ state'.clients = [c \in Client |-> NULL] /\ state'.life = state.life
          /\ state'.viewable = state.viewable /\ state'.wm_state = state.wm_state
          /\ hints' = hints
      BY <1>0, <1>2 DEF restart, Owners, States
    <2> QED BY <1>0, <2>1, ToldKept DEF Labelled
  <1> QED BY <1>1, <1>2

\* Every step tells the state of what it maps and unmaps.
LEMMA ToldNext == Steady /\ Inv /\ Told /\ [Next]_vars => Told'
  <1> SUFFICES ASSUME Steady, Inv, Told, [Next]_vars PROVE Told'
    OBVIOUS
  <1>1. CASE UNCHANGED vars
    BY <1>1 DEF vars, Told, Labelled
  <1>2. ASSUME NEW c \in Client,
               \/ Create(c) \/ Map(c) \/ Quit(c) \/ TakeFocus(c) \/ DeleteWindow(c)
               \/ \E P \in ProtocolSets : Announce(c, P)
               \/ \E h \in Hints : SetHints(c, h)
        PROVE  Told'
    BY <1>2, ToldOwners
  <1>3. ASSUME NEW c \in Client,
               \/ state_update_clients(c) \/ XSelectInput(c)
               \/ event_handle_map_request(c) \/ event_handle_destroy_notify(c)
               \/ \E kind \in {"WM_PROTOCOLS", "WM_HINTS"} : icccm_handle_property(kind, c)
        PROVE  Told'
    BY <1>3, ToldEvents
  <1>4. ASSUME NEW c \in Client,
               \/ Choose(c) \/ function_menu_windows(c) \/ client_deactivate(c)
               \/ function_window_hide(c) \/ client_close(c)
        PROVE  Told'
    BY <1>4, ToldCommands
  <1>5. ASSUME NEW d \in Desktop, desktop_switch_to_index(d) PROVE Told'
    BY <1>5, ToldSwitch
  <1>6. CASE started \/ restart
    BY <1>6, ToldRestart
  <1> QED BY <1>1, <1>2, <1>3, <1>4, <1>5, <1>6 DEF Next

\* At rest WM_STATE calls no window Iconic that can be seen and none Normal that cannot, but
\* for one whose WM_HINTS ask for it: client_show, client_hide, the desktops and client_init
\* write it together with what they do to the window.
THEOREM StateAlwaysTellsShown ==
  ASSUME Steady
  PROVE  Spec => []StateTellsShown
  <1>1. Told => StateTellsShown
    BY DEF Told, Labelled, StateTellsShown, Managed, Alive
  <1> QED BY <1>1, InitInv, NextInv, ToldInit, ToldNext, PTL DEF Spec
=============================================================================
