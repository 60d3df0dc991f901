---------------------------- MODULE OutputsProofs ----------------------------
(***************************************************************************)
(* For any number of outputs, whatever layouts the server may be set to    *)
(* and at whatever moments: one screen is active, and what pagers read of  *)
(* the desktops fits the screens.                                          *)
(***************************************************************************)
EXTENDS Outputs, TailQueueProofs

-----------------------------------------------------------------------------
(* Numbers *)

\* The desktop of index k on the screen i, counted over all screens, belongs to that screen.
LEMMA Desktops ==
  ASSUME NEW n \in Nat, NEW i \in 1 .. n, NEW d \in Nat \ {0}, NEW k \in 0 .. d - 1
  PROVE  /\ (i - 1) * d + k \in Nat
         /\ (i - 1) * d + k + 1 \in 1 .. d * n
         /\ ((i - 1) * d + k) \div d = i - 1
  <1> DEFINE m == (i - 1) * d
             q == (m + k) \div d
  <1>1. m \in Nat /\ m = d * (i - 1)
    OBVIOUS
  <1>2. m + d = i * d
    OBVIOUS
  <1>3. i * d <= n * d /\ n * d = d * n /\ d * n \in Nat
    OBVIOUS
  <1>4. q \in Int /\ d * q <= m + k /\ m + k < d * q + d
    <2> HIDE DEF m
    <2> QED BY <1>1
  <1>5. q = i - 1
    <2>1. CASE q >= i
      <3>1. d * q >= d * i
        BY <1>4, <2>1
      <3> QED BY <1>2, <1>4, <3>1
    <2>2. CASE q <= i - 2
      <3>1. d * (q + 1) <= d * (i - 1)
        BY <1>4, <2>2
      <3> QED BY <1>1, <1>4, <3>1
    <2> QED BY <1>4, <2>1, <2>2
  <1> HIDE DEF m
  <1> QED BY <1>1, <1>2, <1>3, <1>5 DEF m

\* Every desktop belongs to some screen.
LEMMA OnSome ==
  ASSUME NEW n \in Nat, NEW d \in Nat \ {0}, NEW m \in 1 .. d * n
  PROVE  ((m - 1) \div d) + 1 \in 1 .. n
  <1> DEFINE q == (m - 1) \div d
             total == d * n
  <1>1. total \in Nat /\ m \in 1 .. total
    OBVIOUS
  <1>2. q \in Int /\ d * q <= m - 1 /\ m - 1 < d * q + d
    BY <1>1
  <1>3. CASE q < 0
    <2>1. d * (q + 1) <= 0
      BY <1>2, <1>3
    <2> QED BY <1>1, <1>2, <2>1
  <1>4. CASE q >= n
    <2>1. d * q >= total
      BY <1>2, <1>4
    <2> QED BY <1>1, <1>2, <2>1
  <1> HIDE DEF q
  <1>5. q + 1 \in 1 .. n
    BY <1>2, <1>3, <1>4
  <1> QED BY <1>5 DEF q

-----------------------------------------------------------------------------
(* The invariant *)

\* The steps of state_init up to the choice of a screen, and those after it.
Reading == {"resources", "output", "crtc"}

Chosen == {"number", "geometry", "names", "viewport", "current", "RUNNING"}

\* No screen is active while the list is made, one is after that.
Single ==
  /\ at = "resources" => screens = << >>
  /\ at \in Reading => Active = {}
  /\ at \in Chosen /\ screens # << >> => \E i \in DOMAIN screens : Active = {i}

Corners ==
  [n \in 1 .. DesktopCount * Len(screens) |->
     LET g == screens[((n - 1) \div DesktopCount) + 1].geometry IN <<g.x, g.y>>]

\* What each property says once it is written.
Written ==
  /\ at \in Chosen \ {"number"} => root.number = DesktopCount * Len(screens)
  /\ at \in {"viewport", "current", "RUNNING"} => root.names = DesktopCount * Len(screens)
  /\ at \in {"current", "RUNNING"} => root.viewport = Corners
  /\ at = "RUNNING" /\ screens # << >> =>
       \E i \in DOMAIN screens : root.current = (i - 1) * DesktopCount + screens[i].index

Inv == TypeOK /\ Single /\ Written

\* screen_for_point finds a screen of the list, or none.
LEMMA PointOnList ==
  ASSUME TypeOK, NEW x, NEW y
  PROVE  G!screen_for_point(x, y) \in DOMAIN screens \cup {0}
  <1> DEFINE list == G!Screens
             test == [i \in DOMAIN list |-> G!x_contains_point(list[i], x, y)]
             T == {i \in DOMAIN list : test[i]}
             found == CHOOSE i \in DOMAIN list : test[i] /\ \A j \in 1 .. i - 1 : ~test[j]
  <1>1. DOMAIN list = DOMAIN screens /\ DOMAIN screens = 1 .. Len(screens) /\ Len(screens) \in Nat
    BY DEF TypeOK, G!Screens
  <1>2. G!screen_for_point(x, y) = IF \E i \in DOMAIN list : test[i] THEN found ELSE 0
    BY Zenon DEF G!screen_for_point, G!FirstScreen
  <1>3. ASSUME T # {} PROVE found \in DOMAIN list
    <2>1. PICK t \in T : \A j \in 1 .. t - 1 : j \notin T
      BY <1>1, <1>3, First
    <2>2. \A j \in 1 .. t - 1 : j \in DOMAIN list
      BY <1>1, <2>1
    <2>3. \E i \in DOMAIN list : test[i] /\ \A j \in 1 .. i - 1 : ~test[j]
      <3> HIDE DEF test
      <3> QED BY <2>1, <2>2
    <2> HIDE DEF test
    <2> QED BY <2>3
  <1> HIDE DEF found, test
  <1> QED BY <1>1, <1>2, <1>3

\* The corners are those of the screens, screen by screen.
LEMMA CornersType ==
  ASSUME TypeOK
  PROVE  /\ Corners \in Seq(Nat \X Nat) /\ Len(Corners) = DesktopCount * Len(screens)
         /\ \A i \in DOMAIN screens : \A k \in 0 .. DesktopCount - 1 :
              Corners[(i - 1) * DesktopCount + k + 1] =
                <<screens[i].geometry.x, screens[i].geometry.y>>
  <1> DEFINE n == Len(screens)
             total == DesktopCount * n
             V(m) == <<screens[((m - 1) \div DesktopCount) + 1].geometry.x,
                       screens[((m - 1) \div DesktopCount) + 1].geometry.y>>
  <1>1. n \in Nat /\ DOMAIN screens = 1 .. n /\ DesktopCount \in Nat \ {0}
    BY OutputsAssumption DEF TypeOK
  <1>2. total \in Nat
    BY <1>1
  <1>3. Corners = [m \in 1 .. total |-> V(m)]
    BY DEF Corners
  <1>4. \A m \in 1 .. total : ((m - 1) \div DesktopCount) + 1 \in 1 .. n
    BY <1>1, OnSome
  <1>5. \A j \in 1 .. n : screens[j].geometry.x \in Nat /\ screens[j].geometry.y \in Nat
    <2>1. \A j \in 1 .. n : screens[j] \in Screen
      BY <1>1 DEF TypeOK
    <2> QED BY <2>1 DEF Screen, Rectangles
  <1>6. \A m \in 1 .. total : V(m) \in Nat \X Nat
    BY <1>4, <1>5
  <1>7. Corners \in [1 .. total -> Nat \X Nat]
    <2> HIDE DEF V, total
    <2> QED BY <1>3, <1>6
  <1>8. Corners \in Seq(Nat \X Nat) /\ Len(Corners) = total
    <2> HIDE DEF total
    <2> QED BY <1>2, <1>7
  <1>9. ASSUME NEW i \in DOMAIN screens, NEW k \in 0 .. DesktopCount - 1
        PROVE  Corners[(i - 1) * DesktopCount + k + 1] =
                 <<screens[i].geometry.x, screens[i].geometry.y>>
    <2> DEFINE m == (i - 1) * DesktopCount + k
    <2>1. m \in Nat /\ m + 1 \in 1 .. total /\ m \div DesktopCount = i - 1
      BY <1>1, Desktops
    <2> HIDE DEF m
    <2>2. (m + 1) - 1 = m /\ (i - 1) + 1 = i
      BY <1>1, <2>1
    <2>3. Corners[m + 1] = V(m + 1)
      <3> HIDE DEF V, total
      <3> QED BY <1>3, <2>1
    <2>4. V(m + 1) = <<screens[i].geometry.x, screens[i].geometry.y>>
      BY <2>1, <2>2
    <2> QED BY <2>3, <2>4 DEF m
  <1> QED BY <1>8, <1>9

\* The sizes that are written in their place meanwhile are pairs of numbers as well.
LEMMA SizesType ==
  ASSUME TypeOK
  PROVE  [n \in 1 .. DesktopCount * Len(screens) |->
            <<screens[((n - 1) \div DesktopCount) + 1].geometry.width,
              screens[((n - 1) \div DesktopCount) + 1].geometry.height>>] \in Seq(Nat \X Nat)
  <1> DEFINE total == DesktopCount * Len(screens)
             V(m) == <<screens[((m - 1) \div DesktopCount) + 1].geometry.width,
                       screens[((m - 1) \div DesktopCount) + 1].geometry.height>>
  <1>1. /\ Len(screens) \in Nat /\ DOMAIN screens = 1 .. Len(screens)
        /\ DesktopCount \in Nat \ {0} /\ total \in Nat
    BY OutputsAssumption DEF TypeOK
  <1>2. \A m \in 1 .. total : ((m - 1) \div DesktopCount) + 1 \in 1 .. Len(screens)
    BY <1>1, OnSome
  <1>3. \A j \in 1 .. Len(screens) :
          screens[j].geometry.width \in Nat /\ screens[j].geometry.height \in Nat
    <2>1. \A j \in 1 .. Len(screens) : screens[j] \in Screen
      BY <1>1 DEF TypeOK
    <2> QED BY <2>1 DEF Screen, Rectangles
  <1>4. \A m \in 1 .. total : V(m) \in Nat \X Nat
    BY <1>2, <1>3
  <1>5. [m \in 1 .. total |-> V(m)] \in [1 .. total -> Nat \X Nat]
    <2> HIDE DEF V, total
    <2> QED BY <1>4
  <1>6. [m \in 1 .. total |-> V(m)] \in Seq(Nat \X Nat)
    <2> HIDE DEF V, total
    <2> QED BY <1>1, <1>5
  <1> QED BY <1>6

\* A step that leaves the screens and the properties alone.
LEMMA Frame ==
  ASSUME Inv, UNCHANGED <<screens, root>>, TypeOK',
         \/ at' = at
         \/ at \in Reading /\ at' \in Reading \ {"resources"}
         \/ at' \in {"EXITED", "CRASHED"}
  PROVE  Inv'
  BY DEF Inv, Single, Written, Corners, Active, Reading, Chosen

\* Nothing is asked or chosen yet.
LEMMA InitInv == Init => Inv
  <1> SUFFICES ASSUME Init PROVE Inv
    OBVIOUS
  <1>1. TypeOK
    <2>1. "resources" \in Range(Steps)
      <3>1. Steps[1] = "resources" /\ 1 \in DOMAIN Steps
        BY DEF Steps
      <3> QED BY <3>1 DEF Range
    <2> QED BY <2>1, OutputsAssumption DEF Init, TypeOK
  <1>2. Active = {}
    BY DEF Init, Active
  <1> QED BY <1>1, <1>2 DEF Init, Inv, Single, Written, Reading, Chosen

\* The names of the steps.
LEMMA StepNames ==
  Range(Steps) = {"resources", "output", "crtc", "pointer", "number", "geometry", "names",
                  "viewport", "current"}
  <1>1. DOMAIN Steps = 1 .. 9
    BY DEF Steps
  <1>2. Range(Steps) = {Steps[i] : i \in 1 .. 9}
    BY <1>1 DEF Range
  <1> QED BY <1>2 DEF Steps

-----------------------------------------------------------------------------
(* Reading the outputs *)

\* The outputs are listed, or the program ends.
LEMMA ResourcesInv == ASSUME Inv, XRRGetScreenResources PROVE Inv'
  <1>1. TypeOK'
    BY OutputsAssumption, StepNames DEF Inv, TypeOK, XRRGetScreenResources, Server
  <1> QED BY <1>1, Frame DEF XRRGetScreenResources, Reading

\* A CRTC is at hand when the output has one.
LEMMA OutputInv == ASSUME Inv, XRRGetOutputInfo PROVE Inv'
  <1>1. Head(left) \in Output /\ left' \in Seq(Output)
    BY DEF Inv, TypeOK, XRRGetOutputInfo
  <1>2. layout.crtc[Head(left)] \in Crtc \cup {NULL}
    BY <1>1, OutputsAssumption DEF Inv, TypeOK
  <1>3. /\ UNCHANGED <<Server, screens, root>> /\ at = "output"
        /\ \/ at' = "crtc" /\ held' = layout.crtc[Head(left)] /\ held' # NULL
           \/ UNCHANGED <<at, held>>
    BY DEF XRRGetOutputInfo, Lit
  <1>4. TypeOK'
    BY <1>1, <1>2, <1>3, StepNames DEF Inv, TypeOK, Server
  <1> QED BY <1>3, <1>4, Frame DEF Reading

\* A new screen is not active.
LEMMA CrtcInv == ASSUME Inv, XRRGetCrtcInfo PROVE Inv'
  <1>1. /\ at = "crtc" /\ at' = "output" /\ held' = NULL
        /\ UNCHANGED <<Server, left, root>>
    BY DEF XRRGetCrtcInfo
  <1> DEFINE new == [geometry |-> layout.at[held], index |-> 0, active |-> FALSE]
  <1>2. CASE screens' = screens
    <2>1. TypeOK'
      BY <1>1, <1>2, StepNames DEF Inv, TypeOK, Server
    <2> QED BY <1>1, <1>2, <2>1, Frame DEF Reading
  <1>3. CASE layout.at[held] # NULL /\ screens' = Append(screens, new)
    <2>1. held \in Crtc /\ layout \in Layouts
      BY <1>1 DEF Inv, TypeOK
    <2>2. layout.at[held] \in Rectangles
      BY <1>3, <2>1, OutputsAssumption
    <2>3. new \in Screen /\ ~new.active
      BY <2>2, OutputsAssumption DEF Screen
    <2> HIDE DEF new
    <2>4. screens' \in Seq(Screen)
      BY <1>3, <2>3 DEF Inv, TypeOK
    <2>5. TypeOK'
      BY <1>1, <2>4, StepNames DEF Inv, TypeOK, Server
    <2>6. Active = {}
      BY <1>1 DEF Inv, Single, Reading
    <2>7. \A i \in DOMAIN screens' :
                   (i \in DOMAIN screens /\ screens'[i] = screens[i]) \/ screens'[i] = new
      BY <1>3, <2>3 DEF Inv, TypeOK
    <2>8. Active' = {}
      BY <2>3, <2>6, <2>7 DEF Active
    <2> QED BY <1>1, <2>5, <2>8 DEF Inv, Single, Written, Reading, Chosen
  <1> QED BY <1>2, <1>3 DEF XRRGetCrtcInfo

\* Never are two screens active while the program starts or runs.
LEMMA AtMostOne ==
  ASSUME Inv, at \in Reading \cup Chosen
  PROVE  \A j, k \in Active : j = k
  <1>1. CASE screens = << >>
    BY <1>1 DEF Active
  <1>2. CASE screens # << >>
    BY <1>2 DEF Inv, Single
  <1> QED BY <1>1, <1>2

\* When at most one screen is active, screen_activate makes the screen the only active one,
\* and it changes nothing else of any.
LEMMA ActivateOne ==
  ASSUME TypeOK, NEW i \in DOMAIN screens, screens' = screen_activate(screens, i),
         \A j, k \in Active : j = k
  PROVE  /\ screens' \in Seq(Screen) /\ Len(screens') = Len(screens)
         /\ DOMAIN screens' = DOMAIN screens
         /\ \A j \in DOMAIN screens : /\ screens'[j].geometry = screens[j].geometry
                                      /\ screens'[j].index = screens[j].index
         /\ Active' = {i}
  <1> DEFINE current == screen_find_active(screens)
  <1>0. DOMAIN screens = 1 .. Len(screens) /\ Len(screens) \in Nat /\ current = Active
    BY DEF TypeOK, screen_find_active, Active
  <1>8. \A j \in DOMAIN screens : screens[j] \in Screen /\ (screens[j].active <=> j \in Active)
    <2>1. \A j \in DOMAIN screens : screens[j] \in Screen
      BY DEF TypeOK
    <2> QED BY <2>1 DEF Active
  <1>1. /\ DOMAIN screens' = DOMAIN screens
        /\ screens' = [j \in DOMAIN screens |-> screens'[j]]
        /\ \A j \in DOMAIN screens : screens'[j] = [screens[j] EXCEPT !.active = (j = i)]
    <2>1. CASE i \in current
      <3>1. screens' = screens /\ Active = {i}
        BY <1>0, <2>1 DEF screen_activate
      <3>2. \A j \in DOMAIN screens : screens[j] = [screens[j] EXCEPT !.active = (j = i)]
        BY <1>8, <3>1 DEF Screen
      <3> QED BY <1>0, <3>1, <3>2 DEF TypeOK
    <2>2. CASE i \notin current
      <3>1. screens' = [j \in DOMAIN screens |->
                         [screens[j] EXCEPT !.active = (j = i) \/ (@ /\ j \notin current)]]
        BY <2>2 DEF screen_activate
      <3> HIDE DEF current
      <3>2. \A j \in DOMAIN screens : ~(screens[j].active /\ j \notin current)
        BY <1>0, <1>8
      <3> QED BY <3>1, <3>2
    <2> QED BY <2>1, <2>2
  <1>2. ASSUME NEW j \in DOMAIN screens
        PROVE  /\ screens'[j] \in Screen
               /\ screens'[j].geometry = screens[j].geometry
               /\ screens'[j].index = screens[j].index
               /\ screens'[j].active = (j = i)
    <2>1. screens[j] \in Screen
      BY DEF TypeOK
    <2> QED BY <1>1, <2>1 DEF Screen
  <1>3. DOMAIN screens = 1 .. Len(screens) /\ Len(screens) \in Nat
    BY <1>0
  <1>4. DOMAIN screens' = DOMAIN screens /\ screens' = [j \in DOMAIN screens |-> screens'[j]]
    BY <1>1
  <1>5. screens' \in [1 .. Len(screens) -> Screen]
    BY <1>2, <1>3, <1>4
  <1>6. screens' \in Seq(Screen) /\ Len(screens') = Len(screens)
    BY <1>3, <1>5
  <1>7. Active' = {i}
    BY <1>2, <1>4 DEF Active
  <1> QED BY <1>2, <1>4, <1>6, <1>7

\* After any of these the same corners are due.
LEMMA SameCorners ==
  ASSUME TypeOK, Len(screens') = Len(screens), DOMAIN screens' = DOMAIN screens,
         \A j \in DOMAIN screens : screens'[j].geometry = screens[j].geometry
  PROVE  Corners' = Corners
  <1> DEFINE total == DesktopCount * Len(screens)
             p(m) == ((m - 1) \div DesktopCount) + 1
  <1>1. \A m \in 1 .. total : p(m) \in DOMAIN screens
    <2>1. Len(screens) \in Nat /\ DOMAIN screens = 1 .. Len(screens)
      BY DEF TypeOK
    <2> QED BY <2>1, OnSome, OutputsAssumption
  <1> QED BY <1>1 DEF Corners

\* The screen of the pointer, or the last one, becomes the one that is active.
LEMMA ChooseInv == ASSUME Inv, choose_active PROVE Inv'
  <1>1. at = "output" /\ at' = "number" /\ UNCHANGED <<Server, left, held, root>>
    BY DEF choose_active
  <1>2. CASE screens = << >>
    <2>1. PICK x, y : LET under == G!screen_for_point(x, y)
                          i == IF under # 0 THEN under ELSE Len(screens)
                      IN  screens' = IF i = 0 THEN screens ELSE screen_activate(screens, i)
      BY DEF choose_active
    <2>2. G!screen_for_point(x, y) = 0
      BY <1>2, PointOnList DEF Inv
    <2>3. screens' = screens
      BY <1>2, <2>1, <2>2
    <2>4. TypeOK'
      BY <1>1, <2>3, StepNames DEF Inv, TypeOK, Server
    <2> QED BY <1>1, <1>2, <2>3, <2>4 DEF Inv, Single, Written, Reading, Chosen
  <1>3. CASE screens # << >>
    <2>1. \E i \in DOMAIN screens : screens' = screen_activate(screens, i)
      <3>1. PICK x, y : LET under == G!screen_for_point(x, y)
                            i == IF under # 0 THEN under ELSE Len(screens)
                        IN  screens' = IF i = 0 THEN screens ELSE screen_activate(screens, i)
        BY DEF choose_active
      <3>2. G!screen_for_point(x, y) \in DOMAIN screens \cup {0}
        BY PointOnList DEF Inv
      <3>3. Len(screens) \in DOMAIN screens /\ \A i \in DOMAIN screens : i # 0
        BY <1>3 DEF Inv, TypeOK
      <3> QED BY <3>1, <3>2, <3>3
    <2>2. PICK i \in DOMAIN screens : screens' = screen_activate(screens, i)
      BY <2>1
    <2>3. screens' \in Seq(Screen) /\ DOMAIN screens' = DOMAIN screens /\ Active' = {i}
      BY <1>1, <2>2, ActivateOne, AtMostOne DEF Inv, Reading
    <2>4. TypeOK'
      BY <1>1, <2>3, StepNames DEF Inv, TypeOK, Server
    <2> QED BY <1>1, <2>3, <2>4 DEF Inv, Single, Written, Reading, Chosen
  <1> QED BY <1>2, <1>3

-----------------------------------------------------------------------------
(* The properties of the root window *)

\* Each property is right when it is written, and the later ones leave it so.
LEMMA RootInv ==
  ASSUME Inv,
         \/ ewmh_set_net_number_of_desktops \/ ewmh_set_net_desktop_geometry
         \/ ewmh_set_net_desktop_names \/ ewmh_set_net_desktop_viewport
  PROVE  Inv'
  <1>0. /\ UNCHANGED <<Server, left, held, screens>>
        /\ at \in Chosen /\ at' \in Chosen \ {"number", "RUNNING"}
    BY DEF ewmh_set_net_number_of_desktops, ewmh_set_net_desktop_geometry,
           ewmh_set_net_desktop_names, ewmh_set_net_desktop_viewport, Write, Chosen
  <1>1. DesktopCount * Len(screens) \in Nat
    BY OutputsAssumption DEF Inv, TypeOK
  <1>2. Corners' = Corners /\ Active' = Active
    BY <1>0 DEF Corners, Active
  <1>3. Single'
    BY <1>0, <1>2 DEF Inv, Single, Reading, Chosen
  <1>4. ASSUME root' \in [number : Nat, names : Nat, viewport : Seq(Nat \X Nat), current : Nat]
        PROVE  TypeOK'
    BY <1>0, <1>4, StepNames DEF Inv, TypeOK, Server, Chosen
  <1>5. CASE ewmh_set_net_number_of_desktops
    <2>1. /\ at' = "geometry"
          /\ root' = [root EXCEPT !.number = DesktopCount * Len(screens)]
      BY <1>5 DEF ewmh_set_net_number_of_desktops, Write
    <2>2. Written'
      BY <1>0, <2>1 DEF Inv, TypeOK, Written, Chosen
    <2> QED BY <1>1, <1>3, <1>4, <2>1, <2>2 DEF Inv, TypeOK
  <1>6. CASE ewmh_set_net_desktop_geometry
    <2> DEFINE sizes == [n \in 1 .. DesktopCount * Len(screens) |->
                          <<screens[((n - 1) \div DesktopCount) + 1].geometry.width,
                            screens[((n - 1) \div DesktopCount) + 1].geometry.height>>]
    <2>1. at = "geometry" /\ at' = "names" /\ root' = [root EXCEPT !.viewport = sizes]
      BY <1>6 DEF ewmh_set_net_desktop_geometry, Write, GeometryOf
    <2>2. sizes \in Seq(Nat \X Nat)
      BY SizesType DEF Inv
    <2> HIDE DEF sizes
    <2>3. Written'
      BY <1>0, <2>1 DEF Inv, TypeOK, Written, Chosen
    <2> QED BY <1>3, <1>4, <2>1, <2>2, <2>3 DEF Inv, TypeOK
  <1>7. CASE ewmh_set_net_desktop_names
    <2>1. /\ at = "names" /\ at' = "viewport"
          /\ root' = [root EXCEPT !.names = DesktopCount * Len(screens)]
      BY <1>7 DEF ewmh_set_net_desktop_names, Write
    <2>2. Written'
      BY <1>0, <2>1 DEF Inv, TypeOK, Written, Chosen
    <2> QED BY <1>1, <1>3, <1>4, <2>1, <2>2 DEF Inv, TypeOK
  <1>8. CASE ewmh_set_net_desktop_viewport
    <2>1. /\ at = "viewport" /\ at' = "current"
          /\ root' = [root EXCEPT !.viewport = Corners]
      BY <1>8 DEF ewmh_set_net_desktop_viewport, Write, GeometryOf, Corners
    <2>2. Corners \in Seq(Nat \X Nat)
      BY CornersType DEF Inv
    <2>3. Written'
      BY <1>0, <1>2, <2>1 DEF Inv, TypeOK, Written, Chosen
    <2> QED BY <1>3, <1>4, <2>1, <2>2, <2>3 DEF Inv, TypeOK
  <1> QED BY <1>5, <1>6, <1>7, <1>8

\* The number of the current desktop of the one active screen.
LEMMA CurrentInv == ASSUME Inv, ewmh_set_net_current_desktop PROVE Inv'
  <1>1. /\ UNCHANGED <<Server, left, held, screens>>
        /\ at = "current" /\ at' = "RUNNING"
        /\ root' = [root EXCEPT !.current = Number(screens)]
    BY DEF ewmh_set_net_current_desktop, Write
  <1>2. Corners' = Corners /\ Active' = Active
    BY <1>1 DEF Corners, Active
  <1>3. /\ Number(screens) \in Nat
        /\ screens # << >> => \E i \in DOMAIN screens :
             Number(screens) = (i - 1) * DesktopCount + screens[i].index
    <2>1. CASE screens = << >>
      <3>1. ~\E j \in DOMAIN screens : screens[j].active
        BY <2>1
      <3> QED BY <2>1, <3>1, OutputsAssumption DEF Number
    <2>2. CASE screens # << >>
      <3>1. PICK i \in DOMAIN screens : Active = {i}
        BY <1>1, <2>2 DEF Inv, Single, Chosen
      <3>2. screens[i].active /\ \A j \in DOMAIN screens : screens[j].active => j = i
        BY <3>1 DEF Active
      <3>3. Number(screens) = (i - 1) * DesktopCount + screens[i].index
        BY <3>2 DEF Number
      <3>4. /\ Len(screens) \in Nat /\ i \in 1 .. Len(screens)
            /\ screens[i].index \in 0 .. DesktopCount - 1
        <4>1. screens[i] \in Screen
          BY DEF Inv, TypeOK
        <4> QED BY <4>1 DEF Inv, TypeOK, Screen
      <3>5. (i - 1) * DesktopCount + screens[i].index \in Nat
        BY <3>4, Desktops, OutputsAssumption
      <3> QED BY <3>3, <3>5
    <2> QED BY <2>1, <2>2
  <1> HIDE DEF Number
  <1>4. TypeOK'
    BY <1>1, <1>3, StepNames DEF Inv, TypeOK, Server
  <1>5. Single'
    BY <1>1, <1>2 DEF Inv, Single, Reading, Chosen
  <1>6. Written'
    BY <1>1, <1>2, <1>3 DEF Inv, TypeOK, Written, Chosen
  <1> QED BY <1>4, <1>5, <1>6 DEF Inv

-----------------------------------------------------------------------------
(* Events *)

\* A tap changes which screen is active, and tells nobody.
LEMMA TapInv == ASSUME Inv, NEW p \in Points, event_handle_button_press(p) PROVE Inv'
  <1> DEFINE i == G!screen_for_point(p.x, p.y)
  <1>1. at = "RUNNING" /\ UNCHANGED <<Server, left, held, root>>
    BY DEF event_handle_button_press
  <1>2. i \in DOMAIN screens \cup {0}
    BY PointOnList DEF Inv
  <1> HIDE DEF i
  <1>3. CASE i # 0
    <2>1. at' = at /\ screens' = screen_activate(screens, i) /\ i \in DOMAIN screens
      BY <1>2, <1>3 DEF event_handle_button_press, i
    <2>2. /\ screens' \in Seq(Screen) /\ Len(screens') = Len(screens)
          /\ DOMAIN screens' = DOMAIN screens
          /\ \A j \in DOMAIN screens : /\ screens'[j].geometry = screens[j].geometry
                                       /\ screens'[j].index = screens[j].index
          /\ Active' = {i}
      BY <1>1, <2>1, ActivateOne, AtMostOne DEF Inv, Chosen
    <2>3. Corners' = Corners
      BY <2>2, SameCorners DEF Inv
    <2>4. TypeOK'
      BY <1>1, <2>1, <2>2 DEF Inv, TypeOK, Server
    <2>5. screens # << >>
      BY <2>1
    <2>6. Single'
      BY <1>1, <2>1, <2>2 DEF Single, Reading, Chosen
    <2>7. Written'
      BY <1>1, <2>1, <2>2, <2>3, <2>5 DEF Inv, Written, Chosen
    <2> QED BY <2>4, <2>6, <2>7 DEF Inv
  <1>4. CASE i = 0
    <2>1. screens' = screens /\ at' \in {at, "CRASHED"}
      BY <1>4 DEF event_handle_button_press, i
    <2>2. TypeOK'
      BY <1>1, <2>1, StepNames DEF Inv, TypeOK, Server
    <2> QED BY <1>1, <2>1, <2>2, Frame
  <1> QED BY <1>3, <1>4

\* The index that a pager has asked for is the one that is published, and its desktop shown.
LEMMA SwitchInv == ASSUME Inv, NEW n \in DesktopIndices, desktop_switch_to_index(n) PROVE Inv'
  <1>1. at = "RUNNING" /\ UNCHANGED <<Server, left, held>> /\ n \in Nat
    BY OutputsAssumption DEF desktop_switch_to_index
  <1>2. PICK i \in Active :
          LET index == n - (i - 1) * DesktopCount
          IN  IF index \in 0 .. DesktopCount - 1
              THEN /\ screens' = [screens EXCEPT ![i].index = index]
                   /\ root' = [root EXCEPT !.current = n]
                   /\ UNCHANGED at
              ELSE at' = "CRASHED" /\ UNCHANGED <<screens, root>>
    BY DEF desktop_switch_to_index
  <1> DEFINE index == n - (i - 1) * DesktopCount
  <1>3. CASE index \in 0 .. DesktopCount - 1
    <2>0. i \in DOMAIN screens /\ DOMAIN screens = 1 .. Len(screens) /\ Len(screens) \in Nat
      BY DEF Active, Inv, TypeOK
    <2>1. n = (i - 1) * DesktopCount + index
      <3>1. (i - 1) * DesktopCount \in Int
        BY <2>0, OutputsAssumption
      <3> QED BY <1>1, <3>1
    <2> HIDE DEF index
    <2> DEFINE r == [screens[i] EXCEPT !.index = index]
    <2>2. /\ screens' = [screens EXCEPT ![i].index = index]
          /\ root' = [root EXCEPT !.current = n] /\ at' = at
      BY <1>2, <1>3 DEF index
    <2>3. \A j \in DOMAIN screens : screens[j] \in Screen
      BY DEF Inv, TypeOK
    <2>4. /\ r \in Screen /\ r.geometry = screens[i].geometry
          /\ r.active = screens[i].active /\ r.index = index
      BY <1>3, <2>0, <2>3 DEF Screen
    <2>5. screens' = [screens EXCEPT ![i] = r]
      BY <2>2
    <2> HIDE DEF r
    <2>6. /\ screens' \in Seq(Screen) /\ Len(screens') = Len(screens)
          /\ DOMAIN screens' = DOMAIN screens
          /\ \A j \in DOMAIN screens : screens'[j] = IF j = i THEN r ELSE screens[j]
      BY <2>0, <2>4, <2>5 DEF Inv, TypeOK
    <2>7. Corners' = Corners
      BY <2>4, <2>6, SameCorners DEF Inv
    <2>8. Active' = Active
      BY <2>4, <2>6 DEF Active
    <2>9. root' \in [number : Nat, names : Nat, viewport : Seq(Nat \X Nat), current : Nat]
          /\ root'.current = n /\ root'.number = root.number /\ root'.names = root.names
          /\ root'.viewport = root.viewport
      BY <1>1, <2>2 DEF Inv, TypeOK
    <2>10. TypeOK'
      BY <1>1, <2>2, <2>6, <2>9 DEF Inv, TypeOK, Server
    <2>11. Single'
      BY <2>2, <2>6, <2>8, <1>1 DEF Inv, Single, Reading, Chosen
    <2>12. screens'[i].index = index
      BY <2>0, <2>4, <2>6
    <2>13. Written'
      BY <1>1, <2>0, <2>1, <2>2, <2>6, <2>7, <2>9, <2>12 DEF Inv, Written, Chosen
    <2> QED BY <2>10, <2>11, <2>13 DEF Inv
  <1>4. CASE index \notin 0 .. DesktopCount - 1
    <2>1. at' = "CRASHED" /\ UNCHANGED <<screens, root>>
      BY <1>2, <1>4
    <2>2. TypeOK'
      BY <1>1, <2>1 DEF Inv, TypeOK, Server
    <2> QED BY <2>1, <2>2, Frame
  <1> QED BY <1>3, <1>4

\* A new process has no screens, and nothing it has written.
LEMMA RestartInv == ASSUME Inv, restart PROVE Inv'
  <1>1. /\ at' = "resources" /\ screens' = << >> /\ calm' = TRUE /\ at = "RUNNING"
        /\ UNCHANGED <<layout, changes, left, held, root>>
    BY DEF restart
  <1>2. TypeOK'
    BY <1>1, StepNames DEF Inv, TypeOK
  <1>3. Active' = {}
    BY <1>1 DEF Active
  <1> QED BY <1>1, <1>2, <1>3 DEF Inv, Single, Written, Reading, Chosen

\* What happens to the outputs is not noticed.
LEMMA ChangeInv == ASSUME Inv, NEW l \in Layouts, Change(l) PROVE Inv'
  <1>1. changes' \in 0 .. Changes
    BY OutputsAssumption DEF Change, Inv, TypeOK
  <1>2. TypeOK'
    BY <1>1 DEF Change, Inv, TypeOK
  <1> QED BY <1>2, Frame DEF Change

-----------------------------------------------------------------------------
(* The theorems *)

\* Every step keeps the invariant.
LEMMA NextInv == Inv /\ [Next]_vars => Inv'
  <1> SUFFICES ASSUME Inv, [Next]_vars PROVE Inv'
    OBVIOUS
  <1>1. CASE UNCHANGED vars
    <2>1. TypeOK'
      BY <1>1 DEF vars, Inv, TypeOK
    <2> QED BY <1>1, <2>1, Frame DEF vars
  <1>2. CASE state_init
    BY <1>2, ResourcesInv, OutputInv, CrtcInv, ChooseInv, RootInv, CurrentInv DEF state_init
  <1>3. ASSUME NEW p \in Points, event_handle_button_press(p) PROVE Inv'
    BY <1>3, TapInv
  <1>4. ASSUME NEW n \in DesktopIndices, desktop_switch_to_index(n) PROVE Inv'
    BY <1>4, SwitchInv
  <1>5. ASSUME NEW l \in Layouts, Change(l) PROVE Inv'
    BY <1>5, ChangeInv
  <1> QED BY <1>1, <1>2, <1>3, <1>4, <1>5, RestartInv DEF Next

\* The list of screens, their current desktops and what is written of them have their types,
\* and a CRTC is at hand just while it is asked for.
THEOREM OutputTypes == Spec => []TypeOK
  <1>1. Inv => TypeOK
    BY DEF Inv
  <1> QED BY <1>1, InitInv, NextInv, PTL DEF Spec

\* While the program runs and has a screen, exactly one is active, whatever is plugged,
\* tapped and restarted.
THEOREM AlwaysOneScreen == Spec => []OneActiveScreen
  <1>1. Inv => OneActiveScreen
    BY DEF Inv, Single, OneActiveScreen, Chosen
  <1> QED BY <1>1, InitInv, NextInv, PTL DEF Spec

\* The current desktop that pagers read is one that some screen shows, and the viewport at
\* that index is the corner of that screen, for any number of screens and desktops.
THEOREM PagersAlwaysAgree == Spec => []PagersAgree
  <1>1. ASSUME Inv, at = "RUNNING", NEW i \in DOMAIN screens,
               root.current = (i - 1) * DesktopCount + screens[i].index
        PROVE  root.viewport[root.current + 1] = <<screens[i].geometry.x, screens[i].geometry.y>>
    <2>1. screens[i] \in Screen /\ i \in DOMAIN screens
      BY <1>1 DEF Inv, TypeOK
    <2>2. screens[i].index \in 0 .. DesktopCount - 1
      BY <2>1 DEF Screen
    <2>3. root.viewport = Corners
      BY <1>1 DEF Inv, Written
    <2>4. Corners[(i - 1) * DesktopCount + screens[i].index + 1] =
            <<screens[i].geometry.x, screens[i].geometry.y>>
      BY <1>1, <2>2, CornersType DEF Inv
    <2> QED BY <1>1, <2>3, <2>4
  <1>2. Inv => PagersAgree
    <2> SUFFICES ASSUME Inv, at = "RUNNING"
                 PROVE  /\ root.number = DesktopCount * Len(screens)
                        /\ root.names = root.number
                        /\ Len(root.viewport) = root.number
                        /\ screens = << >> \/
                           \E i \in DOMAIN screens :
                             /\ root.current = (i - 1) * DesktopCount + screens[i].index
                             /\ root.viewport[root.current + 1] =
                                  <<screens[i].geometry.x, screens[i].geometry.y>>
      BY DEF PagersAgree
    <2>1. /\ root.number = DesktopCount * Len(screens)
          /\ root.names = DesktopCount * Len(screens)
          /\ root.viewport = Corners
      BY DEF Inv, Written, Chosen
    <2>2. Len(root.viewport) = root.number
      BY <2>1, CornersType DEF Inv
    <2>3. screens # << >> => \E i \in DOMAIN screens :
            root.current = (i - 1) * DesktopCount + screens[i].index
      BY DEF Inv, Written
    <2> QED BY <1>1, <2>1, <2>2, <2>3
  <1> QED BY <1>2, InitInv, NextInv, PTL DEF Spec

-----------------------------------------------------------------------------
(* The screens are the outputs *)

\* How many outputs have been looked at.
Read == Len(OutputList) - Len(left)

\* The outputs that are left are the last ones of the list.  While nothing changes, the
\* screens are those of the outputs before them, or before the one at hand.
Followed ==
  /\ at \in {"output", "crtc"} =>
       Read \in 0 .. Len(OutputList) /\ \A k \in DOMAIN left : left[k] = OutputList[Read + k]
  /\ at = "output" /\ calm => Geometries = Areas(Read)
  /\ at = "crtc" /\ calm =>
       /\ Read # 0
       /\ OutputList[Read] \in layout.connected /\ held = layout.crtc[OutputList[Read]]
       /\ Geometries = Areas(Read - 1)
  /\ at \in Chosen /\ calm => Geometries = Areas(Len(OutputList))

\* The list of outputs is a sequence of them.
LEMMA ListType == /\ OutputList \in Seq(Output) /\ Len(OutputList) \in Nat
                  /\ DOMAIN OutputList = 1 .. Len(OutputList)
  BY OutputsAssumption

\* No outputs, no areas.
LEMMA AreasStart == Areas(0) = << >>
  <1> DEFINE shown == {k \in 1 .. 0 : Shows(layout, OutputList[k])}
             lit == Picked(OutputList, shown)
  <1>1. shown = {}
    OBVIOUS
  <1>2. Cardinality(shown) = 0 /\ shown \in SUBSET DOMAIN OutputList
    BY <1>1, FS_EmptySet
  <1> HIDE DEF shown
  <1>3. lit \in Seq(Output) /\ Len(lit) = 0
    BY <1>2, ListType, PickedType
  <1>4. Areas(0) = [i \in DOMAIN lit |-> layout.at[layout.crtc[lit[i]]]]
    BY DEF Areas, shown
  <1> HIDE DEF lit
  <1> QED BY <1>3, <1>4

\* One output more has an area more, if it shows something.
LEMMA AreasNext ==
  ASSUME NEW n \in 1 .. Len(OutputList)
  PROVE  /\ Shows(layout, OutputList[n]) =>
              Areas(n) = Append(Areas(n - 1), layout.at[layout.crtc[OutputList[n]]])
         /\ ~Shows(layout, OutputList[n]) => Areas(n) = Areas(n - 1)
  <1> DEFINE Shown(m) == {k \in 1 .. m : Shows(layout, OutputList[k])}
             Lit_(m) == Picked(OutputList, Shown(m))
             Area(o) == layout.at[layout.crtc[o]]
             o == OutputList[n]
  <1>1. n \in Nat \ {0} /\ n \in DOMAIN OutputList /\ o \in Output
    BY ListType
  <1>2. 1 .. n = (1 .. n - 1) \cup {n}
    BY <1>1
  <1>3. \A m : Areas(m) = [i \in DOMAIN Lit_(m) |-> Area(Lit_(m)[i])]
    BY DEF Areas
  <1>4. CASE ~Shows(layout, o)
    <2>1. Shown(n) = Shown(n - 1)
      BY <1>2, <1>4
    <2> QED BY <1>3, <1>4, <2>1
  <1>5. CASE Shows(layout, o)
    <2>1. Shown(n) = Shown(n - 1) \cup {n}
      BY <1>2, <1>5
    <2>2. Shown(n - 1) \in SUBSET (1 .. n - 1) /\ Shown(n - 1) \in SUBSET DOMAIN OutputList
      BY <1>1, <1>2, ListType
    <2> HIDE DEF Shown, o
    <2>3. Lit_(n) = Append(Lit_(n - 1), o)
      BY <1>1, <2>1, <2>2, ListType, PickedNext DEF o
    <2>4. Lit_(n - 1) \in Seq(Output)
      BY <2>2, ListType, PickedType
    <2> DEFINE l == Lit_(n - 1)
    <2>5. /\ Areas(n) = [i \in DOMAIN Append(l, o) |-> Area(Append(l, o)[i])]
          /\ Areas(n - 1) = [i \in DOMAIN l |-> Area(l[i])]
      BY <1>3, <2>3
    <2> HIDE DEF l
    <2>6. l \in Seq(Output)
      BY <2>4 DEF l
    <2>7. Areas(n) = Append(Areas(n - 1), Area(o))
      <3> HIDE DEF Area
      <3> QED BY <1>1, <2>5, <2>6
    <2> QED BY <1>5, <2>7 DEF o
  <1> QED BY <1>4, <1>5

\* What leaves layout and areas alone, and goes on with writing or events.
LEMMA FollowedFrame ==
  ASSUME Followed, at \in Chosen, calm' => calm /\ layout' = layout, Geometries' = Geometries,
         at' \notin {"output", "crtc"}
  PROVE  Followed'
  <1>1. calm' => Areas(Len(OutputList))' = Areas(Len(OutputList))
    BY DEF Areas
  <1> QED BY <1>1 DEF Followed, Chosen

\* Nothing is read yet.
LEMMA InitFollowed == Init => Followed
  BY DEF Init, Followed, Chosen

\* The loop starts with all outputs.
LEMMA ResourcesFollowed == ASSUME Inv, XRRGetScreenResources PROVE Followed'
  <1>1. CASE at' = "output" /\ left' = OutputList
    <2>1. screens' = << >> /\ Read' = 0
      BY <1>1, ListType DEF Inv, Single, XRRGetScreenResources, Read
    <2>2. Geometries' = << >>
      BY <2>1 DEF Geometries
    <2>3. (Areas(0) = << >>)'
      BY AreasStart, PTL
    <2>4. (Geometries = Areas(Read))'
      BY <2>1, <2>2, <2>3
    <2> QED BY <1>1, <2>1, <2>4, ListType DEF Followed, Chosen
  <1>2. CASE at' = "EXITED"
    BY <1>2 DEF Followed, Chosen
  <1> QED BY <1>1, <1>2 DEF XRRGetScreenResources

\* The output at hand has a CRTC; one that has none, or no monitor, is passed over.
LEMMA OutputFollowed == ASSUME Inv, Followed, XRRGetOutputInfo PROVE Followed'
  <1> DEFINE o == Head(left)
  <1>1. /\ at = "output" /\ left # << >> /\ left' = Tail(left)
        /\ UNCHANGED <<Server, screens, root>>
    BY DEF XRRGetOutputInfo
  <1>2. /\ left \in Seq(Output) /\ Len(left) \in Nat \ {0} /\ Len(left') = Len(left) - 1
        /\ \A k \in DOMAIN left' : k + 1 \in DOMAIN left /\ left'[k] = left[k + 1]
        /\ left[1] = o /\ 1 \in DOMAIN left
    BY <1>1 DEF Inv, TypeOK
  <1>3. /\ Read \in 0 .. Len(OutputList) /\ Len(OutputList) \in Nat
        /\ \A k \in DOMAIN left : left[k] = OutputList[Read + k]
    BY <1>1, ListType DEF Followed
  <1>4. Read' = Read + 1 /\ Read + 1 \in 1 .. Len(OutputList)
    BY <1>2, <1>3 DEF Read
  <1>5. o = OutputList[Read + 1]
    BY <1>2, <1>3
  <1>6. \A k \in DOMAIN left' : left'[k] = OutputList[Read' + k]
    <2> SUFFICES ASSUME NEW k \in DOMAIN left' PROVE left'[k] = OutputList[Read' + k]
      OBVIOUS
    <2>1. left'[k] = OutputList[Read + (k + 1)]
      BY <1>2, <1>3
    <2>2. k \in Int
      BY <1>1, <1>2 DEF Inv, TypeOK
    <2>3. Read + (k + 1) = Read' + k
      BY <1>3, <1>4, <2>2
    <2> QED BY <2>1, <2>3
  <1>7. /\ Geometries' = Geometries
        /\ (Areas(Read))' = Areas(Read') /\ (Areas(Read - 1))' = Areas(Read' - 1)
    BY <1>1 DEF Geometries, Areas, Server
  <1>8. calm' = calm /\ layout' = layout
    BY <1>1 DEF Server
  <1>9. /\ Read' \in 0 .. Len(OutputList) /\ Read' # 0 /\ Read' - 1 = Read
        /\ OutputList[Read'] = o
    BY <1>3, <1>4, <1>5
  <1>10. CASE o \in layout.connected /\ Lit(layout, o)
    <2>1. at' = "crtc" /\ held' = layout.crtc[o]
      BY <1>10 DEF XRRGetOutputInfo
    <2>2. calm => Geometries = Areas(Read)
      BY <1>1 DEF Followed
    <2>3. calm' => /\ OutputList[Read'] \in layout'.connected
                   /\ held' = layout'.crtc[OutputList[Read']]
                   /\ (Geometries = Areas(Read - 1))'
      BY <1>7, <1>8, <1>9, <1>10, <2>1, <2>2
    <2> QED BY <1>6, <1>9, <2>1, <2>3 DEF Followed, Chosen
  <1>11. CASE ~(o \in layout.connected /\ Lit(layout, o))
    <2>1. at' = at
      BY <1>11 DEF XRRGetOutputInfo
    <2>2. ~Shows(layout, OutputList[Read + 1])
      BY <1>5, <1>11 DEF Shows
    <2>3. Areas(Read + 1) = Areas((Read + 1) - 1)
      BY <1>4, <2>2, AreasNext
    <2>4. calm => Geometries = Areas(Read + 1)
      BY <1>1, <1>3, <2>3 DEF Followed
    <2>5. calm' => (Geometries = Areas(Read))'
      BY <1>4, <1>7, <1>8, <2>4
    <2> QED BY <1>1, <1>6, <1>9, <2>1, <2>5 DEF Followed, Chosen
  <1> QED BY <1>10, <1>11

\* The area of the CRTC becomes that of a new screen, unless the CRTC is gone.
LEMMA CrtcFollowed == ASSUME Inv, Followed, XRRGetCrtcInfo PROVE Followed'
  <1> DEFINE g == layout.at[held]
             o == OutputList[Read]
  <1>1. /\ at = "crtc" /\ at' = "output" /\ UNCHANGED <<Server, left, root>>
        /\ screens' = IF g = NULL THEN screens
                      ELSE Append(screens, [geometry |-> g, index |-> 0, active |-> FALSE])
    BY DEF XRRGetCrtcInfo
  <1>2. /\ Read' = Read /\ calm' = calm /\ layout' = layout /\ \A n : Areas(n)' = Areas(n)
        /\ Read \in 0 .. Len(OutputList) /\ \A k \in DOMAIN left : left[k] = OutputList[Read + k]
    BY <1>1 DEF Read, Areas, Server, Followed
  <1>3. ASSUME calm PROVE Geometries' = Areas(Read)
    <2>1. /\ Read # 0 /\ o \in layout.connected /\ held = layout.crtc[o]
          /\ Geometries = Areas(Read - 1)
      BY <1>1, <1>3 DEF Followed
    <2>2. Lit(layout, o)
      BY <1>1, <2>1 DEF Inv, TypeOK, Lit
    <2>3. Shows(layout, o) <=> g # NULL
      BY <2>1, <2>2 DEF Shows
    <2>4. Read \in 1 .. Len(OutputList)
      BY <1>2, <2>1, ListType
    <2>5. CASE g = NULL
      <3>1. Geometries' = Geometries
        BY <1>1, <2>5 DEF Geometries
      <3> QED BY <2>1, <2>3, <2>4, <2>5, <3>1, AreasNext
    <2>6. CASE g # NULL
      <3>1. Areas(Read) = Append(Areas(Read - 1), g)
        BY <2>1, <2>3, <2>4, <2>6, AreasNext
      <3> DEFINE new == [geometry |-> g, index |-> 0, active |-> FALSE]
      <3>2. screens' = Append(screens, new) /\ new.geometry = g
        BY <1>1, <2>6
      <3> HIDE DEF new
      <3>3. Geometries' = Append(Geometries, g)
        <4>1. screens \in Seq(Screen)
          BY DEF Inv, TypeOK
        <4> HIDE DEF g
        <4> QED BY <3>2, <4>1 DEF Geometries
      <3> QED BY <2>1, <3>1, <3>3
    <2> QED BY <2>5, <2>6
  <1> QED BY <1>1, <1>2, <1>3 DEF Followed, Chosen

\* The choice of a screen comes after the last output and changes no area.
LEMMA ChooseFollowed == ASSUME Inv, Followed, choose_active PROVE Followed'
  <1>1. at = "output" /\ left = << >> /\ at' = "number" /\ UNCHANGED <<Server, left, held, root>>
    BY DEF choose_active
  <1>2. Read = Len(OutputList)
    BY <1>1, ListType DEF Read
  <1>3. Geometries' = Geometries
    <2>1. PICK x, y : LET under == G!screen_for_point(x, y)
                          i == IF under # 0 THEN under ELSE Len(screens)
                      IN  screens' = IF i = 0 THEN screens ELSE screen_activate(screens, i)
      BY DEF choose_active
    <2>2. G!screen_for_point(x, y) \in DOMAIN screens \cup {0}
      BY PointOnList DEF Inv
    <2>3. Len(screens) # 0 => Len(screens) \in DOMAIN screens
      BY DEF Inv, TypeOK
    <2>4. screens' = screens \/ \E i \in DOMAIN screens : screens' = screen_activate(screens, i)
      BY <2>1, <2>2, <2>3
    <2> QED BY <1>1, <2>4, ActivateOne, AtMostOne DEF Inv, Geometries, Reading
  <1>4. calm' = calm /\ layout' = layout /\ (calm => Geometries = Areas(Len(OutputList)))
    BY <1>1, <1>2 DEF Followed, Server
  <1>5. Areas(Len(OutputList))' = Areas(Len(OutputList))
    BY <1>4 DEF Areas
  <1> QED BY <1>1, <1>3, <1>4, <1>5 DEF Followed

\* Every step keeps the count of the outputs and the areas.
LEMMA NextFollowed == Inv /\ Followed /\ [Next]_vars => Followed'
  <1> SUFFICES ASSUME Inv, Followed, [Next]_vars PROVE Followed'
    OBVIOUS
  <1>1. CASE UNCHANGED vars
    BY <1>1 DEF vars, Followed, Read, Geometries, Areas, Chosen
  <1>2. ASSUME \/ ewmh_set_net_number_of_desktops \/ ewmh_set_net_desktop_geometry
               \/ ewmh_set_net_desktop_names \/ ewmh_set_net_desktop_viewport
               \/ ewmh_set_net_current_desktop
        PROVE  Followed'
    <2>1. /\ at \in Chosen /\ at' \in Chosen /\ UNCHANGED <<Server, screens>>
      BY <1>2 DEF ewmh_set_net_number_of_desktops, ewmh_set_net_desktop_geometry,
             ewmh_set_net_desktop_names, ewmh_set_net_desktop_viewport,
             ewmh_set_net_current_desktop, Write, Chosen
    <2> QED BY <2>1, FollowedFrame DEF Server, Geometries, Chosen
  <1>3. CASE state_init
    BY <1>2, <1>3, ResourcesFollowed, OutputFollowed, CrtcFollowed, ChooseFollowed DEF state_init
  <1>4. ASSUME NEW p \in Points, event_handle_button_press(p) PROVE Followed'
    <2> DEFINE i == G!screen_for_point(p.x, p.y)
    <2>1. at = "RUNNING" /\ at' \in {"RUNNING", "CRASHED"} /\ UNCHANGED Server
      BY <1>4 DEF event_handle_button_press
    <2>2. i \in DOMAIN screens \cup {0}
      BY PointOnList DEF Inv
    <2>3. screens' = screens \/ (i \in DOMAIN screens /\ screens' = screen_activate(screens, i))
      BY <1>4, <2>2 DEF event_handle_button_press
    <2>4. Geometries' = Geometries
      BY <2>1, <2>3, ActivateOne, AtMostOne DEF Inv, Geometries, Chosen
    <2> QED BY <2>1, <2>4, FollowedFrame DEF Server, Chosen
  <1>5. ASSUME NEW n \in DesktopIndices, desktop_switch_to_index(n) PROVE Followed'
    <2>1. at = "RUNNING" /\ at' \in {"RUNNING", "CRASHED"} /\ UNCHANGED Server
      BY <1>5 DEF desktop_switch_to_index
    <2>2. \/ screens' = screens
          \/ \E i \in DOMAIN screens : \E k : screens' = [screens EXCEPT ![i].index = k]
      BY <1>5 DEF desktop_switch_to_index, Active
    <2>3. Geometries' = Geometries
      <3>1. ASSUME NEW i \in DOMAIN screens, NEW k, screens' = [screens EXCEPT ![i].index = k]
            PROVE  Geometries' = Geometries
        <4>1. \A j \in DOMAIN screens : screens[j] \in Screen
          BY DEF Inv, TypeOK
        <4>2. \A j \in DOMAIN screens : screens'[j].geometry = screens[j].geometry
          BY <3>1, <4>1 DEF Screen
        <4> QED BY <3>1, <4>2 DEF Geometries
      <3> QED BY <2>2, <3>1 DEF Geometries
    <2> QED BY <2>1, <2>3, FollowedFrame DEF Server, Chosen
  <1>6. CASE restart
    BY <1>6 DEF restart, Followed, Chosen
  <1>7. ASSUME NEW l \in Layouts, Change(l) PROVE Followed'
    BY <1>7 DEF Change, Followed, Read
  <1> QED BY <1>1, <1>3, <1>4, <1>5, <1>6, <1>7 DEF Next

\* If the server was left alone since the process started, the screens are the outputs
\* with a monitor and a CRTC, in the order of the server, however many there are.
THEOREM ScreensAlwaysAsPlugged == Spec => []ScreensAsPlugged
  <1>1. Followed => ScreensAsPlugged
    BY DEF Followed, ScreensAsPlugged, Chosen
  <1> QED BY <1>1, InitInv, NextInv, InitFollowed, NextFollowed, PTL DEF Spec

\* An area of the server that holds the pointer holds it for x_contains_point as well.
LEMMA SeenFromHere ==
  ASSUME NEW g \in Rectangles, g.x + g.width < Word, g.y + g.height < Word,
         NEW p \in [x : Nat, y : Nat],
         p.x \in g.x .. g.x + g.width - 1, p.y \in g.y .. g.y + g.height - 1
  PROVE  G!x_contains_point(g, p.x, p.y)
  <1>1. /\ g.x \in Nat /\ g.y \in Nat /\ g.width \in Nat /\ g.height \in Nat
        /\ p.x \in Nat /\ p.y \in Nat /\ Word \in Nat
    BY OutputsAssumption DEF Rectangles
  <1>2. \A a, n, q \in Nat : a + n < Word /\ q \in a .. a + n - 1 => G!ContainsAxis(a, n, q)
    BY <1>1 DEF G!ContainsAxis, G!End, G!Plus, G!ToUnsigned
  <1>3. G!ContainsAxis(g.x, g.width, p.x) /\ G!ContainsAxis(g.y, g.height, p.y)
    BY <1>1, <1>2
  <1> QED BY <1>3 DEF G!x_contains_point

\* Where every area belongs to an output with a monitor, the pointer is always on a screen.
LEMMA AlwaysOnScreen ==
  ASSUME Inv, Followed, at = "RUNNING", calm, AllConnected, NEW p \in Points, OnGlass(p)
  PROVE  G!screen_for_point(p.x, p.y) # 0
  <1>1. PICK k \in Crtc : /\ ~Empty(layout.at[k])
                          /\ p.x \in layout.at[k].x .. layout.at[k].x + layout.at[k].width - 1
                          /\ p.y \in layout.at[k].y .. layout.at[k].y + layout.at[k].height - 1
    BY DEF OnGlass
  <1> DEFINE g == layout.at[k]
  <1>2. PICK o \in layout.connected : layout.crtc[o] = k
    BY <1>1 DEF AllConnected
  <1>3. /\ layout \in Layouts /\ layout.connected \subseteq Output
        /\ k # NULL /\ g # NULL /\ g \in Rectangles
        /\ g.x + g.width < Word /\ g.y + g.height < Word
    <2>1. layout \in Layouts /\ NULL \notin Crtc
      BY OutputsAssumption DEF Inv, TypeOK
    <2>2. /\ layout.connected \subseteq Output /\ layout.at \in [Crtc -> Rectangles \cup {NULL}]
          /\ layout.at[k] # NULL =>
               layout.at[k].x + layout.at[k].width < Word /\ layout.at[k].y + layout.at[k].height < Word
      BY <2>1, OutputsAssumption
    <2> QED BY <1>1, <2>1, <2>2 DEF Empty
  <1>4. Shows(layout, o)
    BY <1>2, <1>3 DEF Shows, Lit
  <1>5. PICK n \in DOMAIN OutputList : OutputList[n] = o
    BY <1>2, <1>3, OutputsAssumption DEF Range
  <1> DEFINE shown == {m \in 1 .. Len(OutputList) : Shows(layout, OutputList[m])}
             lit == Picked(OutputList, shown)
             i == Rank(shown, n)
  <1>6. shown \in SUBSET DOMAIN OutputList /\ n \in shown
    BY <1>4, <1>5, ListType
  <1>7. i \in DOMAIN lit /\ lit[i] = o
    <2> HIDE DEF shown
    <2> QED BY <1>5, <1>6, ListType, PickedAll
  <1>8. Geometries = [j \in DOMAIN lit |-> layout.at[layout.crtc[lit[j]]]]
    BY DEF Followed, Areas, Chosen
  <1> HIDE DEF i, lit
  <1>9. i \in DOMAIN screens /\ screens[i].geometry = g
    BY <1>2, <1>7, <1>8 DEF Geometries
  <1> DEFINE list == G!Screens
             test == [j \in DOMAIN list |-> G!x_contains_point(list[j], p.x, p.y)]
             found == CHOOSE j \in DOMAIN list : test[j] /\ \A m \in 1 .. j - 1 : ~test[m]
  <1>10. DOMAIN list = DOMAIN screens /\ DOMAIN screens = 1 .. Len(screens) /\ list[i] = g
         /\ Len(screens) \in Nat
    BY <1>9 DEF Inv, TypeOK, G!Screens
  <1>11. i \in DOMAIN list /\ test[i]
    <2>1. p \in [x : Nat, y : Nat]
      BY OutputsAssumption
    <2>2. G!x_contains_point(g, p.x, p.y)
      <3> HIDE DEF g
      <3> QED BY <1>1, <1>3, <2>1, SeenFromHere DEF g
    <2> QED BY <1>9, <1>10, <2>2
  <1>12. G!screen_for_point(p.x, p.y) = IF \E j \in DOMAIN list : test[j] THEN found ELSE 0
    BY Zenon DEF G!screen_for_point, G!FirstScreen
  <1>13. found \in DOMAIN list
    <2> DEFINE T == {j \in DOMAIN list : test[j]}
    <2>1. PICK t \in T : \A j \in 1 .. t - 1 : j \notin T
      <3>1. T \in SUBSET (1 .. Len(screens)) /\ T # {}
        BY <1>10, <1>11
      <3> HIDE DEF T
      <3> QED BY <1>10, <3>1, First
    <2>2. \A j \in 1 .. t - 1 : j \in DOMAIN list
      BY <1>10, <2>1
    <2>3. \E j \in DOMAIN list : test[j] /\ \A m \in 1 .. j - 1 : ~test[m]
      <3> HIDE DEF test
      <3> QED BY <2>1, <2>2
    <2> HIDE DEF test
    <2> QED BY <2>3
  <1> HIDE DEF test, found, list
  <1> QED BY <1>10, <1>11, <1>12, <1>13

\* No tap ends the program while its outputs are those it has started with and none is left
\* on without a monitor.
THEOREM TapsAlwaysSafe == Spec => TapsAreSafe
  <1>1. ASSUME Inv, Followed, [Next]_vars,
               NEW p \in Points, event_handle_button_press(p), calm, AllConnected
        PROVE  at' = "RUNNING"
    <2>1. at = "RUNNING" /\ OnGlass(p)
      BY <1>1 DEF event_handle_button_press
    <2>2. G!screen_for_point(p.x, p.y) # 0
      BY <1>1, <2>1, AlwaysOnScreen
    <2> QED BY <1>1, <2>1, <2>2 DEF event_handle_button_press
  <1>2. Inv /\ Followed /\ [Next]_vars =>
          [\A p \in Points : event_handle_button_press(p) /\ calm /\ AllConnected => at' = "RUNNING"]_vars
    BY <1>1
  <1> QED BY <1>2, InitInv, NextInv, InitFollowed, NextFollowed, PTL DEF Spec, TapsAreSafe
=============================================================================
