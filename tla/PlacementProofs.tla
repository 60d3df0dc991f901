--------------------------- MODULE PlacementProofs ---------------------------
(***************************************************************************)
(* For all screens, windows, struts, hints, requests and bindings: every   *)
(* path tells the server where it moves a window and which border it has,  *)
(* borders follow the flags, a maximized window fills its screen whatever  *)
(* commands it goes through, a drag gives a window the best size that its  *)
(* hints allow, tiles lie in the area that struts leave once the hints     *)
(* were applied, a window that is sent to the screen beside comes back to  *)
(* its place, and where the configuration has nothing that takes windows   *)
(* away, no path loses one beyond the edges of its screen.                 *)
(***************************************************************************)
EXTENDS Placement, WellFoundedInduction, TLAPS

-----------------------------------------------------------------------------
(* The invariant *)

Fields == {"screen", "geometry", "saved", "border", "flags", "hints", "strut", "window"}

IsClient(r) == r = [f \in Fields |-> r[f]]

\* Hints that client_update_size_hints has seen to.
Stepped(h) == h \in AxisHints /\ h.increment > 0 /\ h.min > 0

Hinted(hints) ==
  /\ hints \in HintsT
  /\ Stepped(hints.width) /\ Stepped(hints.height)

\* A client of a screen, whatever became of it.
Shaped(r) ==
  /\ r.screen \in DOMAIN Screens
  /\ r.geometry \in Rectangles /\ r.saved \in Rectangles
  /\ r.border \in Nat /\ 2 * r.border < Word
  /\ r.flags \subseteq Flag
  /\ r.strut \in Struts
  /\ Hinted(r.hints)

Bordered(r) ==
  r.border = IF r.flags \cap {"FULLSCREEN", "IGNORE"} = {} THEN BorderWidth ELSE 0

\* The area of the screen of r, where no window has a strut.
Free(r) == Reduced(Screens[r.screen], NoStrut)

Edge(r) == IF "IGNORE" \in r.flags THEN 0 ELSE BorderWidth

\* The hints of a client whose window gives none.
Defaults == UpdatedHints(NoHints, NoHints)

\* A client in a session of commands.
Commanded(r) ==
  /\ r.hints = Defaults
  /\ r.strut = NoStrut
  /\ "MAXIMIZED" \in r.flags =>
       Filling(Free(r), Edge(r)) = IF "FULLSCREEN" \in r.flags THEN r.saved ELSE r.geometry

Sound(r) ==
  /\ IsClient(r)
  /\ Shaped(r)
  /\ "FULLSCREEN" \in r.flags => "FREEZE" \in r.flags
  /\ Requests = {} => Bordered(r)
  /\ OnlyCommands => Commanded(r)

\* The server knows where r is, and how wide its border is.
InStep(r) == r.window \in Windows /\ r.window.geometry = r.geometry

Drawn(r) == r.window.border = r.border

\* The server is told whatever makes r another client t.
Told(r, t) == InStep(r) => InStep(t) /\ (Drawn(r) => Drawn(t))

\* The drag d of a client that is r now: what was asked for last is what its hints were
\* applied to.
Holding(d, r) ==
  /\ d \in Drags(Client)
  /\ d.kind = "resize" =>
       /\ d.width <= Limit /\ d.height <= Limit
       /\ d.asked # << >> =>
            \E g \in Rectangles :
              /\ g.width = d.asked[1] /\ g.height = d.asked[2]
              /\ r.geometry = client_apply_size_hints(g, r.hints)

Inv ==
  /\ session \in Sessions
  /\ DOMAIN clients = Client
  /\ \A c \in Managed : Sound(clients[c]) /\ InStep(clients[c])
  /\ wm = "IDLE" => Managed \subseteq FirstWindows
  /\ wm = "RUNNING" => \A c \in Managed \ FirstWindows : Drawn(clients[c])
  /\ drag # NONE => /\ Holding(drag, clients[drag.client])
                    /\ drag.client \in Managed
                    /\ ~OnlyCommands /\ wm # "IDLE"

-----------------------------------------------------------------------------
(* Numbers *)

\* The screens of a session are larger than two borders.
LEMMA Glass ==
  ASSUME session \in Sessions
  PROVE  /\ Screens \in Seq(Geometries) /\ Len(Screens) > 0
         /\ \A k \in DOMAIN Screens :
              /\ Screens[k] \in Geometries /\ Screens[k] \in Rectangles
              /\ Screens[k].x >= 0 /\ Screens[k].y >= 0
              /\ 2 * BorderWidth < Screens[k].width /\ 2 * BorderWidth < Screens[k].height
              /\ Screens[k].x + Screens[k].width < Half
              /\ Screens[k].y + Screens[k].height < Half
              /\ Screens[k].x + Screens[k].width + Screens[k].height < Half
  <1>1. /\ Screens \in Seq(Geometries) /\ Len(Screens) > 0
        /\ \A k \in DOMAIN Screens :
             /\ Screens[k].x >= 0 /\ Screens[k].y >= 0
             /\ 2 * BorderWidth < Screens[k].width /\ 2 * BorderWidth < Screens[k].height
             /\ Screens[k].x + Screens[k].y + Screens[k].width + Screens[k].height < Half
    BY GeometryAssumption, PlacementAssumption DEF Screens
  <1>2. ASSUME NEW k \in DOMAIN Screens
        PROVE  Screens[k] \in Geometries /\ Screens[k] \in Rectangles
    <2>1. Screens[k] \in Geometries
      BY <1>1
    <2> QED BY <2>1, GeometryAssumption DEF Geometries, Rectangles, Signed, Unsigned
  <1>3. ASSUME NEW k \in DOMAIN Screens
        PROVE  /\ Screens[k].x + Screens[k].width < Half
               /\ Screens[k].y + Screens[k].height < Half
               /\ Screens[k].x + Screens[k].width + Screens[k].height < Half
    <2> DEFINE g == Screens[k]
    <2>1. /\ g.x \in Nat /\ g.y \in Nat /\ g.width \in Nat /\ g.height \in Nat
          /\ g.x + g.y + g.width + g.height < Half
      BY <1>1, <1>2 DEF Rectangles
    <2> HIDE DEF g
    <2>2. g.x + g.width < Half /\ g.y + g.height < Half /\ g.x + g.width + g.height < Half
      BY <2>1, GeometryAssumption
    <2> QED BY <2>2 DEF g
  <1> QED BY <1>1, <1>2, <1>3

\* What X and the configuration hand to the program.
LEMMA Given ==
  ASSUME session \in Sessions
  PROVE  /\ BorderWidth \in Nat /\ 2 * BorderWidth < Word
         /\ \A w \in Attributes : w \in Windows
         /\ \A q \in Requests : /\ q \in ConfigureRequests /\ q.geometry \in Rectangles
                                /\ q.border \in Nat /\ 2 * q.border < Word
         /\ NoStrut \in Struts /\ Struts \subseteq StrutT
         /\ SizeHints \subseteq HintsT
         /\ Limit \in Nat /\ Limit < Word
         /\ \A p \in Points : p.x \in 0 .. Half - 1 /\ p.y \in 0 .. Half - 1
  <1>1. Geometries \subseteq Rectangles
    BY GeometryAssumption DEF Geometries, Rectangles, Signed, Unsigned
  <1>2. ASSUME NEW p \in Points PROVE p.x \in 0 .. Half - 1 /\ p.y \in 0 .. Half - 1
    <2>1. PICK k \in DOMAIN Screens : Shows(Screens[k], p)
      BY PlacementAssumption DEF Points, Screens
    <2>2. /\ Screens[k] \in Rectangles /\ Screens[k].x >= 0 /\ Screens[k].y >= 0
          /\ Screens[k].x + Screens[k].width < Half /\ Screens[k].y + Screens[k].height < Half
      BY Glass
    <2> QED BY <2>1, <2>2, GeometryAssumption DEF Shows, Rectangles
  <1>3. \A q \in Requests : q.border \in Nat /\ 2 * q.border < Word
    <2>1. \A q \in Requests : q.border \in 0 .. Half - 1
      BY PlacementAssumption DEF Requests, ConfigureRequests
    <2> QED BY <2>1, GeometryAssumption
  <1>4. Limit \in Nat /\ Limit < Word
    BY PlacementAssumption, GeometryAssumption DEF Limit, Unsigned
  <1>5. \A q \in Requests : q \in ConfigureRequests /\ q.geometry \in Rectangles
    BY <1>1, PlacementAssumption DEF Requests, ConfigureRequests
  <1>6. \A w \in Attributes : w \in Windows
    BY PlacementAssumption DEF Attributes
  <1> QED BY <1>2, <1>3, <1>4, <1>5, <1>6, PlacementAssumption DEF Struts, SizeHints

\* What the arithmetic needs to know of the two constants it is about.
LEMMA Words == Word \in Nat /\ Half \in Nat /\ Word = 2 * Half /\ Half > 0
  BY GeometryAssumption

\* The arithmetic of the program takes integers to integers.
LEMMA Sums ==
  ASSUME NEW u \in Int, NEW v \in Int
  PROVE  /\ ToUnsigned(u) \in Int /\ ToInt(u) \in Int
         /\ Plus(u, v) \in Int /\ Minus(u, v) \in Int
         /\ End(u, v) \in Int /\ Middle(u, v) \in Int
  BY Words DEF ToUnsigned, ToInt, Plus, Minus, End, Middle

\* Sizes stay sizes.
LEMMA Differences ==
  ASSUME NEW u \in Nat, NEW v \in Nat, v <= Word
  PROVE  Minus(u, v) \in Nat
  BY Words DEF Minus

\* Some numbers that are not above n have a largest one.
LEMMA Greatest ==
  ASSUME NEW n \in Nat, NEW S \in SUBSET (0 .. n), S # {}
  PROVE  \E m \in S : \A k \in S : k <= m
  <1> DEFINE less == {p \in Nat \X Nat : p[1] < p[2]}
             T == {n - k : k \in S}
  <1>1. IsWellFoundedOn(less, Nat)
    BY NatLessThanWellFounded, Zenon DEF OpToRel
  <1>2. S \subseteq Int /\ \A k \in S : k >= 0 /\ k <= n
    OBVIOUS
  <1>3. T \in SUBSET Nat /\ T # {}
    <2>1. \A k \in S : n - k \in Nat
      BY <1>2
    <2> QED BY <2>1
  <1>4. PICK t \in T : \A u \in T : <<u, t>> \notin less
    <2> HIDE DEF less, T
    <2> QED BY <1>1, <1>3, WFMin
  <1>5. PICK m \in S : t = n - m
    OBVIOUS
  <1>6. ASSUME NEW k \in S PROVE k <= m
    <2>1. n - k \in T /\ t \in Nat /\ n - k \in Nat
      BY <1>3
    <2>2. ~ n - k < t
      BY <1>4, <2>1
    <2> QED BY <1>2, <1>5, <2>2
  <1> QED BY <1>5, <1>6

\* The area of a screen is what the largest struts of each side leave of it.
LEMMA AreaLeft ==
  ASSUME Inv, NEW c \in Client, NEW r, r.screen \in DOMAIN Screens, r.strut \in Struts
  PROVE  \E strut \in StrutT :
           /\ AreaOf(c, r) = Reduced(Screens[r.screen], strut)
           /\ \A side \in {"left", "right", "top", "bottom"} :
                \E s \in Struts : strut[side] = s[side]
  <1> DEFINE others == {d \in Managed \ {c} : clients[d].screen = r.screen}
             struts == {r.strut} \cup {clients[d].strut : d \in others}
             Most(side) == CHOOSE n \in {s[side] : s \in struts} : \A s \in struts : s[side] <= n
             strut == [side \in DOMAIN r.strut |-> Most(side)]
  <1>1. struts \subseteq Struts /\ r.strut \in struts
    BY DEF Inv, Sound, Shaped
  <1>2. Struts \subseteq StrutT
    BY Given DEF Inv
  <1> HIDE DEF struts
  <1>3. ASSUME NEW side \in {"left", "right", "top", "bottom"}
        PROVE  \E s \in struts : Most(side) = s[side]
    <2> DEFINE S == {s[side] : s \in struts}
    <2>1. S \in SUBSET (0 .. Word - 1) /\ S # {}
      BY <1>1, <1>2 DEF StrutT, Unsigned
    <2>2. \E n \in S : \A k \in S : k <= n
      <3> HIDE DEF S
      <3>1. Word - 1 \in Nat
        BY Words
      <3> QED BY <2>1, <3>1, Greatest
    <2>3. \E n \in S : \A s \in struts : s[side] <= n
      BY <2>2
    <2>4. Most(side) \in S
      BY <2>3
    <2> QED BY <2>4
  <1>4. DOMAIN r.strut = {"left", "right", "top", "bottom"}
    BY <1>1, <1>2 DEF StrutT
  <1>5. AreaOf(c, r) = Reduced(Screens[r.screen], strut)
    BY DEF AreaOf, struts
  <1> HIDE DEF Most
  <1>6. \A side \in {"left", "right", "top", "bottom"} :
          /\ strut[side] \in Unsigned
          /\ \E s \in Struts : strut[side] = s[side]
    <2> SUFFICES ASSUME NEW side \in {"left", "right", "top", "bottom"}
                 PROVE  /\ strut[side] \in Unsigned
                        /\ \E s \in Struts : strut[side] = s[side]
      OBVIOUS
    <2>1. PICK s \in struts : strut[side] = s[side]
      BY <1>3, <1>4
    <2>2. s \in StrutT
      BY <1>1, <1>2
    <2>3. s[side] \in Unsigned
      BY <2>2 DEF StrutT
    <2> QED BY <1>1, <2>1, <2>3
  <1>7. strut = [left |-> strut.left, right |-> strut.right, top |-> strut.top,
                 bottom |-> strut.bottom]
    BY <1>4
  <1>8. strut \in StrutT
    <2> HIDE DEF strut
    <2> QED BY <1>6, <1>7 DEF StrutT
  <1> QED BY <1>5, <1>6, <1>8

\* It has a place and a size.
LEMMA ReducedShape ==
  ASSUME session \in Sessions, NEW k \in DOMAIN Screens, NEW strut \in StrutT
  PROVE  /\ Reduced(Screens[k], strut) \in Rectangles
         /\ Reduced(Screens[k], strut).width < Word /\ Reduced(Screens[k], strut).height < Word
  <1> DEFINE g == Screens[k]
  <1>1. /\ g.x \in Nat /\ g.y \in Nat /\ g.width \in Nat /\ g.height \in Nat
        /\ g.width < Word /\ g.height < Word
    <2>1. g \in Rectangles /\ g.x >= 0 /\ g.y >= 0 /\ g.x + g.width < Half /\ g.y + g.height < Half
      BY Glass
    <2> HIDE DEF g
    <2> QED BY <2>1, Words DEF Rectangles
  <1>2. /\ strut.left \in 0 .. Word - 1 /\ strut.right \in 0 .. Word - 1
        /\ strut.top \in 0 .. Word - 1 /\ strut.bottom \in 0 .. Word - 1
    BY DEF StrutT, Unsigned
  <1> HIDE DEF g
  <1>3. ASSUME NEW at \in Nat, NEW size \in 0 .. Word - 1, NEW m \in 0 .. Word - 1,
               NEW n \in 0 .. Word - 1
        PROVE  /\ ToInt(Plus(ToUnsigned(at), m)) \in Int
               /\ Minus(Minus(size, m), n) \in 0 .. Word - 1
    <2>1. \A a, b \in 0 .. Word - 1 : Minus(a, b) \in 0 .. Word - 1
      BY Words DEF Minus
    <2>2. Minus(Minus(size, m), n) \in 0 .. Word - 1
      BY <2>1
    <2>3. at \in Int /\ m \in Int
      OBVIOUS
    <2>4. Plus(ToUnsigned(at), m) \in Int
      BY <2>3, Sums
    <2> QED BY <2>2, <2>4, Sums
  <1>4. g.width \in 0 .. Word - 1 /\ g.height \in 0 .. Word - 1
    BY <1>1, Words
  <1>5. /\ ToInt(Plus(ToUnsigned(g.x), strut.left)) \in Int
        /\ ToInt(Plus(ToUnsigned(g.y), strut.top)) \in Int
        /\ Minus(Minus(g.width, strut.left), strut.right) \in 0 .. Word - 1
        /\ Minus(Minus(g.height, strut.top), strut.bottom) \in 0 .. Word - 1
    BY <1>1, <1>2, <1>3, <1>4
  <1>6. 0 .. Word - 1 \subseteq Nat /\ \A n \in 0 .. Word - 1 : n < Word
    BY Words
  <1> QED BY <1>5, <1>6 DEF Reduced, Rectangle, Rectangles, g

\* The area of a client is a rectangle.
LEMMA AreaShape ==
  ASSUME Inv, NEW c \in Client, NEW r, r.screen \in DOMAIN Screens, r.strut \in Struts
  PROVE  AreaOf(c, r) \in Rectangles
  BY AreaLeft, ReducedShape DEF Inv

\* Without struts it is the screen.
LEMMA FreeArea ==
  ASSUME Inv, Struts = {NoStrut}, NEW c \in Client, NEW r, r.strut = NoStrut
  PROVE  AreaOf(c, r) = Free(r)
  <1> DEFINE others == {d \in Managed \ {c} : clients[d].screen = r.screen}
             struts == {r.strut} \cup {clients[d].strut : d \in others}
             Most(side) == CHOOSE n \in {s[side] : s \in struts} : \A s \in struts : s[side] <= n
  <1>1. struts = {NoStrut}
    BY DEF Inv, Sound, Shaped
  <1>2. ASSUME NEW side \in {"left", "right", "top", "bottom"} PROVE Most(side) = 0
    <2>1. {s[side] : s \in struts} = {0}
      BY <1>1 DEF NoStrut
    <2>2. \A s \in struts : s[side] <= 0
      BY <1>1 DEF NoStrut
    <2> HIDE DEF struts
    <2> QED BY <2>1, <2>2
  <1>3. [side \in DOMAIN r.strut |-> Most(side)] = NoStrut
    <2> HIDE DEF Most
    <2> QED BY <1>2 DEF NoStrut
  <1> QED BY <1>3 DEF AreaOf, Free

\* What a screen leaves free is the screen, as no number of it overflows.
LEMMA FreeIsScreen ==
  ASSUME session \in Sessions, NEW r, r.screen \in DOMAIN Screens
  PROVE  Free(r) = Screens[r.screen]
  <1> DEFINE g == Screens[r.screen]
  <1>1. /\ g \in Rectangles /\ g.x >= 0 /\ g.y >= 0
        /\ g.x + g.width < Half /\ g.y + g.height < Half
    BY Glass
  <1> HIDE DEF g
  <1>2. ASSUME NEW at \in Nat, NEW size \in Nat, at + size < Half
        PROVE  ToInt(Plus(ToUnsigned(at), 0)) = at /\ Minus(Minus(size, 0), 0) = size
    BY <1>2, Words DEF ToInt, Plus, ToUnsigned, Minus
  <1>3. /\ ToInt(Plus(ToUnsigned(g.x), 0)) = g.x /\ ToInt(Plus(ToUnsigned(g.y), 0)) = g.y
        /\ Minus(Minus(g.width, 0), 0) = g.width /\ Minus(Minus(g.height, 0), 0) = g.height
    <2>1. g.x \in Nat /\ g.y \in Nat /\ g.width \in Nat /\ g.height \in Nat
      BY <1>1 DEF Rectangles
    <2> QED BY <1>1, <1>2, <2>1
  <1>4. g = [x |-> g.x, y |-> g.y, width |-> g.width, height |-> g.height]
    BY <1>1 DEF Rectangles
  <1> QED BY <1>3, <1>4 DEF Free, Reduced, Rectangle, NoStrut, g

\* Of some numbers that belong to positions, one is the least, and the first of those.
LEMMA Nearest ==
  ASSUME NEW n \in Nat \ {0}, NEW d \in [1 .. n -> Nat]
  PROVE  \E i \in 1 .. n : \A j \in 1 .. n : d[i] <= d[j] /\ (j < i => d[i] < d[j])
  <1> DEFINE less == {p \in Nat \X Nat : p[1] < p[2]}
  <1>1. IsWellFoundedOn(less, Nat)
    BY NatLessThanWellFounded, Zenon DEF OpToRel
  <1>2. ASSUME NEW T \in SUBSET Nat, T # {} PROVE \E t \in T : \A u \in T : t <= u
    <2>1. PICK t \in T : \A u \in T : <<u, t>> \notin less
      <3> HIDE DEF less
      <3> QED BY <1>1, <1>2, WFMin
    <2>2. ASSUME NEW u \in T PROVE t <= u
      <3>1. t \in Nat /\ u \in Nat /\ ~ u < t
        BY <2>1
      <3> QED BY <3>1
    <2> QED BY <2>2
  <1>3. PICK m \in {d[i] : i \in 1 .. n} : \A k \in {d[i] : i \in 1 .. n} : m <= k
    <2>1. {d[i] : i \in 1 .. n} \in SUBSET Nat /\ d[1] \in {d[i] : i \in 1 .. n}
      OBVIOUS
    <2> QED BY <1>2, <2>1
  <1>4. PICK i \in {k \in 1 .. n : d[k] = m} : \A j \in {k \in 1 .. n : d[k] = m} : i <= j
    <2>1. {k \in 1 .. n : d[k] = m} \in SUBSET Nat /\ {k \in 1 .. n : d[k] = m} # {}
      BY <1>3
    <2> QED BY <1>2, <2>1
  <1>5. ASSUME NEW j \in 1 .. n PROVE d[i] <= d[j] /\ (j < i => d[i] < d[j])
    BY <1>3, <1>4
  <1> QED BY <1>4, <1>5


\* What the program makes of rectangles are rectangles, of a size that is not negative.
LEMMA Shapes ==
  ASSUME NEW g \in Rectangles, NEW area \in Rectangles,
         NEW border \in Nat, 2 * border < Word
  PROVE  /\ Adopted(g, area) \in Rectangles
         /\ Placed(g, area) \in Rectangles
         /\ Centered(g, area, border) \in Rectangles
         /\ \A x, y \in Int : UnderPointer(g, x, y, border) \in Rectangles
         /\ Filling(area, border) \in Rectangles
         /\ \A h, v \in Parts : Tiled(area, border, h, v) \in Rectangles
  <1>1. /\ g.x \in Int /\ g.y \in Int /\ g.width \in Int /\ g.height \in Int
        /\ area.x \in Int /\ area.y \in Int /\ area.width \in Int /\ area.height \in Int
        /\ area.width \in Nat /\ area.height \in Nat
    BY DEF Rectangles
  <1>2. ASSUME NEW x \in Int, NEW y \in Int
        PROVE  [g EXCEPT !.x = x, !.y = y] \in Rectangles
    BY DEF Rectangles
  <1>3. Adopted(g, area) \in Rectangles
    <2>1. ASSUME NEW at \in Int, NEW size \in Int, NEW from \in Int, NEW extent \in Int
          PROVE  AdoptAxis(at, size, from, extent) \in Int
      BY Sums DEF AdoptAxis
    <2>2. /\ AdoptAxis(g.x, g.width, area.x, area.width) \in Int
          /\ AdoptAxis(g.y, g.height, area.y, area.height) \in Int
      BY <1>1, <2>1
    <2> QED BY <1>2, <2>2 DEF Adopted
  <1>4. Placed(g, area) \in Rectangles
    <2>1. ASSUME NEW at \in Int, NEW size \in Int, NEW from \in Int, NEW extent \in Int
          PROVE  PlaceAxis(at, size, from, extent) \in Int
      BY Sums DEF PlaceAxis
    <2>2. /\ PlaceAxis(g.x, g.width, area.x, area.width) \in Int
          /\ PlaceAxis(g.y, g.height, area.y, area.height) \in Int
      BY <1>1, <2>1
    <2> QED BY <1>2, <2>2 DEF Placed
  <1>5. Centered(g, area, border) \in Rectangles
    <2>1. ASSUME NEW size \in Int, NEW from \in Int, NEW extent \in Int
          PROVE  CenterAxis(size, from, extent, border) \in Int
      <3>1. Minus(extent, size) \in Int /\ ToUnsigned(from) \in Int
        BY Sums
      <3>2. \A n \in Int : n \div 2 \in Int
        OBVIOUS
      <3>3. Minus(extent, size) \div 2 \in Int
        BY <3>1, <3>2
      <3>4. Plus(ToUnsigned(from), Minus(extent, size) \div 2) \in Int
        BY <3>1, <3>3, Sums
      <3>5. Minus(Plus(ToUnsigned(from), Minus(extent, size) \div 2), border) \in Int
        BY <3>4, Sums
      <3> QED BY <3>5, Sums DEF CenterAxis
    <2>2. /\ CenterAxis(g.width, area.x, area.width, border) \in Int
          /\ CenterAxis(g.height, area.y, area.height, border) \in Int
      BY <1>1, <2>1
    <2> QED BY <1>2, <2>2 DEF Centered
  <1>6. ASSUME NEW x \in Int, NEW y \in Int PROVE UnderPointer(g, x, y, border) \in Rectangles
    <2>1. ASSUME NEW at \in Int, NEW size \in Int
          PROVE  ToInt(Minus(Minus(ToUnsigned(at), size \div 2), border)) \in Int
      <3>1. size \div 2 \in Int /\ ToUnsigned(at) \in Int
        BY Sums
      <3>2. Minus(ToUnsigned(at), size \div 2) \in Int
        BY <3>1, Sums
      <3>3. Minus(Minus(ToUnsigned(at), size \div 2), border) \in Int
        BY <3>2, Sums
      <3> QED BY <3>3, Sums
    <2>2. /\ ToInt(Minus(Minus(ToUnsigned(x), g.width \div 2), border)) \in Int
          /\ ToInt(Minus(Minus(ToUnsigned(y), g.height \div 2), border)) \in Int
      BY <1>1, <2>1
    <2> QED BY <1>2, <2>2 DEF UnderPointer
  <1>7. 2 * border \in Nat /\ 2 * border <= Word
    BY Words
  <1>8. Filling(area, border) \in Rectangles
    <2>1. Minus(area.width, 2 * border) \in Nat /\ Minus(area.height, 2 * border) \in Nat
      BY <1>1, <1>7, Differences
    <2> QED BY <1>1, <2>1 DEF Filling, Rectangle, Rectangles
  <1>9. ASSUME NEW h \in Parts, NEW v \in Parts PROVE Tiled(area, border, h, v) \in Rectangles
    <2>1. ASSUME NEW part \in Parts, NEW from \in Int, NEW extent \in Nat
          PROVE  /\ ToInt(Plus(ToUnsigned(from), Offset(part, extent))) \in Int
                 /\ Minus(Share(part, extent), 2 * border) \in Nat
      <3>1. Offset(part, extent) \in Int /\ Share(part, extent) \in Nat
        <4>1. extent \div 2 \in Nat /\ extent \div 3 \in Nat
          OBVIOUS
        <4>2. extent - extent \div 3 \in Int
          BY <4>1
        <4>3. /\ Offset(part, extent) \in {extent \div 2, extent - extent \div 3, 0}
              /\ Share(part, extent) \in {extent \div 2, extent \div 3, extent}
          <5> DEFINE half  == extent \div 2
                     third == extent \div 3
          <5> HIDE DEF half, third
          <5>1. /\ Offset(part, extent) \in {half, extent - third, 0}
                /\ Share(part, extent) \in {half, third, extent}
            BY Zenon DEF Offset, Share, half, third
          <5> QED BY <5>1 DEF half, third
        <4> QED BY <4>1, <4>2, <4>3
      <3>2. ToUnsigned(from) \in Int
        BY Sums
      <3>3. Plus(ToUnsigned(from), Offset(part, extent)) \in Int
        BY <3>1, <3>2, Sums
      <3> QED BY <1>7, <3>1, <3>3, Sums, Differences
    <2>2. /\ ToInt(Plus(ToUnsigned(area.x), Offset(h, area.width))) \in Int
          /\ ToInt(Plus(ToUnsigned(area.y), Offset(v, area.height))) \in Int
          /\ Minus(Share(h, area.width), 2 * border) \in Nat
          /\ Minus(Share(v, area.height), 2 * border) \in Nat
      BY <1>1, <2>1
    <2> QED BY <2>2 DEF Tiled, Rectangle, Rectangles
  <1> QED BY <1>3, <1>4, <1>5, <1>6, <1>8, <1>9

\* A size that the hints allow is a size.
LEMMA SnappedShape ==
  ASSUME NEW over \in Nat, NEW h, Stepped(h)
  PROVE  Snapped(over, h) \in Nat
  <1>1. /\ h.desired \in Nat /\ h.min \in Nat /\ h.max \in Nat
        /\ h.increment \in Nat \ {0}
    BY Words DEF Stepped, AxisHints, Unsigned
  <1>2. over % h.increment \in Int /\ over \in Int
    BY <1>1
  <1> DEFINE size == Plus(Minus(over, over % h.increment), h.desired)
  <1>3. size \in Int
    <2>1. Minus(over, over % h.increment) \in Int
      BY <1>2, Sums
    <2>2. h.desired \in Int
      BY <1>1
    <2> QED BY <2>1, <2>2, Sums
  <1> HIDE DEF size
  <1>4. Larger(size, h.min) \in Nat
    BY <1>1, <1>3 DEF Larger
  <1>5. Snapped(over, h) =
          IF h.max # 0 THEN Smaller(Larger(size, h.min), h.max) ELSE Larger(size, h.min)
    BY DEF Snapped, size
  <1> QED BY <1>1, <1>4, <1>5 DEF Smaller

\* The aspect ratios are never divided by zero.
LEMMA AspectShape ==
  ASSUME NEW w \in Nat, NEW h \in Nat, NEW hints, Hinted(hints)
  PROVE  /\ WithAspect(<<w, h>>, hints) \in Nat \X Nat
         /\ hints.min_aspect = << >> => WithAspect(<<w, h>>, hints) = <<w, h>>
  <1> DEFINE low == hints.min_aspect
             high == hints.max_aspect
  <1>1. ASSUME low # << >>, high # << >> PROVE WithAspect(<<w, h>>, hints) \in Nat \X Nat
    <2>1. low \in (Nat \ {0}) \X (Nat \ {0}) /\ high \in (Nat \ {0}) \X (Nat \ {0})
      BY <1>1 DEF Hinted, HintsT, Ratios
    <2> HIDE DEF low, high
    <2>2. /\ low[1] \in Nat \ {0} /\ low[2] \in Nat \ {0}
          /\ high[1] \in Nat \ {0} /\ high[2] \in Nat \ {0}
      BY <2>1
    <2>3. \A a, b \in Nat, d \in Nat \ {0} : (a * b) \div d \in Nat
      <3> TAKE a, b \in Nat, d \in Nat \ {0}
      <3>1. a * b \in Nat
        OBVIOUS
      <3> QED BY <3>1
    <2>4. (h * high[1]) \div high[2] \in Nat /\ (w * low[1]) \div low[2] \in Nat
      BY <2>2, <2>3
    <2>5. WithAspect(<<w, h>>, hints) \in
            {<<(h * high[1]) \div high[2], h>>, <<w, (w * low[1]) \div low[2]>>, <<w, h>>}
      BY DEF WithAspect, low, high
    <2> QED BY <2>4, <2>5
  <1>2. ASSUME low = << >> \/ high = << >> PROVE WithAspect(<<w, h>>, hints) = <<w, h>>
    BY <1>2 DEF WithAspect
  <1> QED BY <1>1, <1>2

\* Applying the hints to a size gives a size.
LEMMA HintShapes ==
  ASSUME NEW g \in Rectangles, NEW hints, Hinted(hints)
  PROVE  client_apply_size_hints(g, hints) \in Rectangles
  <1> DEFINE w == hints.width
             h == hints.height
             baseismin == w.desired = w.min /\ h.desired = h.min
             whole == <<g.width, g.height>>
             Over(size) == <<Minus(size[1], w.desired), Minus(size[2], h.desired)>>
             over == IF baseismin THEN Over(WithAspect(whole, hints))
                     ELSE WithAspect(Over(whole), hints)
  <1>1. Stepped(w) /\ Stepped(h)
    BY DEF Hinted
  <1>2. ASSUME NEW size \in Nat \X Nat PROVE Over(size) \in Nat \X Nat
    <2>1. /\ w.desired \in Nat /\ w.desired <= Word /\ h.desired \in Nat /\ h.desired <= Word
      BY <1>1, Words DEF Stepped, AxisHints, Unsigned
    <2>2. size[1] \in Nat /\ size[2] \in Nat
      OBVIOUS
    <2> QED BY <2>1, <2>2, Differences
  <1>3. g.width \in Nat /\ g.height \in Nat
    BY DEF Rectangles
  <1>4. WithAspect(whole, hints) \in Nat \X Nat
    BY <1>3, AspectShape
  <1>5. WithAspect(Over(whole), hints) \in Nat \X Nat
    <2>1. Over(whole) \in Nat \X Nat
      BY <1>2, <1>3
    <2>2. \A s \in Nat \X Nat : WithAspect(s, hints) \in Nat \X Nat
      <3> TAKE s \in Nat \X Nat
      <3>1. s = <<s[1], s[2]>> /\ s[1] \in Nat /\ s[2] \in Nat
        OBVIOUS
      <3> QED BY <3>1, AspectShape
    <2> HIDE DEF Over
    <2> QED BY <2>1, <2>2
  <1> HIDE DEF Over, whole
  <1>6. over \in Nat \X Nat
    BY <1>2, <1>4, <1>5
  <1>7. client_apply_size_hints(g, hints) =
          [g EXCEPT !.width = Snapped(over[1], w), !.height = Snapped(over[2], h)]
    BY DEF client_apply_size_hints, whole, Over
  <1> HIDE DEF over
  <1>8. Snapped(over[1], w) \in Nat /\ Snapped(over[2], h) \in Nat
    BY <1>1, <1>6, SnappedShape
  <1> DEFINE width == Snapped(over[1], w)
             height == Snapped(over[2], h)
  <1> HIDE DEF width, height
  <1>9. width \in Nat /\ height \in Nat
    BY <1>8 DEF width, height
  <1>10. [g EXCEPT !.width = width, !.height = height] \in Rectangles
    BY <1>9 DEF Rectangles
  <1> QED BY <1>7, <1>10 DEF width, height

\* client_update_size_hints leaves hints that can be applied, whatever the property gives.
LEMMA HintsUpdated ==
  ASSUME session \in Sessions, NEW old, Hinted(old) \/ old = NoHints, NEW given \in SizeHints
  PROVE  Hinted(UpdatedHints(old, given))
  <1>1. ASSUME NEW o \in AxisHints, NEW n \in AxisHints PROVE Stepped(UpdatedAxis(o, n))
    <2> DEFINE Chosen(f) == IF n[f] = 0 THEN o[f] ELSE n[f]
    <2>1. \A f \in {"desired", "min", "max", "increment"} : Chosen(f) \in Unsigned
      BY DEF AxisHints
    <2> HIDE DEF Chosen
    <2>2. \A k \in Unsigned : Larger(1, k) \in Unsigned /\ Larger(1, k) > 0
      BY Words DEF Larger, Unsigned
    <2>3. UpdatedAxis(o, n) =
            [desired |-> Chosen("desired"), min |-> Larger(1, Chosen("min")),
             max |-> Chosen("max"), increment |-> Larger(1, Chosen("increment"))]
      BY DEF UpdatedAxis, Chosen
    <2> QED BY <2>1, <2>2, <2>3 DEF Stepped, AxisHints
  <1>2. old \in HintsT
    <2>1. NoAxisHints \in AxisHints
      BY Words DEF NoAxisHints, AxisHints, Unsigned
    <2> QED BY <2>1 DEF Hinted, NoHints, Ratios, HintsT
  <1>3. given \in HintsT
    BY Given
  <1> DEFINE w == UpdatedAxis(old.width, given.width)
             h == UpdatedAxis(old.height, given.height)
  <1>4. Stepped(w) /\ Stepped(h)
    BY <1>1, <1>2, <1>3 DEF HintsT
  <1> HIDE DEF w, h
  <1> QED BY <1>2, <1>3, <1>4 DEF UpdatedHints, Hinted, HintsT, Stepped, w, h

\* Where a window gives no hints its size stays.
LEMMA NoLimits ==
  ASSUME NEW g \in Rectangles,
         g.width \in 1 .. Word - 1, g.height \in 1 .. Word - 1
  PROVE  client_apply_size_hints(g, Defaults) = g
  <1> DEFINE h == [desired |-> 0, min |-> 1, max |-> 0, increment |-> 1]
  <1>1. Defaults = [width |-> h, height |-> h, min_aspect |-> << >>, max_aspect |-> << >>]
    BY DEF Defaults, UpdatedHints, UpdatedAxis, NoHints, NoAxisHints, Larger
  <1>2. ASSUME NEW n \in 1 .. Word - 1 PROVE Snapped(Minus(n, 0), h) = n
    <2>1. Minus(n, 0) = n /\ n % 1 = 0
      BY Words DEF Minus
    <2>2. Minus(n, 0) = n /\ Plus(n, 0) = n /\ Larger(n, 1) = n
      BY Words DEF Minus, Plus, Larger
    <2> QED BY <2>1, <2>2 DEF Snapped
  <1>3. client_apply_size_hints(g, Defaults) =
          [g EXCEPT !.width = Snapped(Minus(@, 0), h), !.height = Snapped(Minus(@, 0), h)]
    BY <1>1 DEF client_apply_size_hints, WithAspect
  <1> HIDE DEF h
  <1> QED BY <1>2, <1>3 DEF Rectangles

-----------------------------------------------------------------------------
(* The functions *)

Standing == {"FULLSCREEN", "FREEZE", "IGNORE"}

\* Two clients that differ in what the server has of them.
Alike(t, u) ==
  /\ t.screen = u.screen /\ t.geometry = u.geometry /\ t.saved = u.saved
  /\ t.border = u.border /\ t.flags = u.flags /\ t.hints = u.hints /\ t.strut = u.strut

\* What the server has does not make a client sound.
LEMMA AlikeSound ==
  ASSUME NEW t, NEW u, IsClient(t), Alike(t, u), Sound(u)
  PROVE  Sound(t)
  <1>1. Shaped(t) /\ (Bordered(u) => Bordered(t)) /\ (Commanded(u) => Commanded(t))
    BY DEF Alike, Sound, Shaped, Bordered, Commanded, Free, Edge
  <1> QED BY <1>1 DEF Sound, Alike

\* What client_move_resize and client_draw_border tell the server.
LEMMA Telling ==
  ASSUME NEW u, IsClient(u)
  PROVE  /\ IsClient(client_move_resize(u)) /\ Alike(client_move_resize(u), u)
         /\ client_move_resize(u).window = [u.window EXCEPT !.geometry = u.geometry]
         /\ IsClient(client_draw_border(u)) /\ Alike(client_draw_border(u), u)
         /\ client_draw_border(u).window = [u.window EXCEPT !.border = u.border]
  BY DEF client_move_resize, client_draw_border, IsClient, Fields, Alike

\* A client that was moved, once the server knows.
LEMMA Moving ==
  ASSUME NEW r, NEW u, Sound(u), u.window = r.window, u.border = r.border
  PROVE  /\ Sound(client_move_resize(u)) /\ Alike(client_move_resize(u), u)
         /\ Told(r, client_move_resize(u))
  <1> DEFINE t == client_move_resize(u)
  <1>1. /\ IsClient(t) /\ Alike(t, u) /\ t.window = [u.window EXCEPT !.geometry = u.geometry]
    BY Telling DEF Sound
  <1> HIDE DEF t
  <1>2. u.geometry \in Rectangles
    BY DEF Sound, Shaped
  <1>3. Told(r, t)
    BY <1>1, <1>2 DEF Told, InStep, Drawn, Windows, Alike
  <1> QED BY <1>1, <1>3, AlikeSound DEF t

\* A client whose border is drawn.
LEMMA Drawing ==
  ASSUME NEW u, Sound(u)
  PROVE  /\ Sound(client_draw_border(u)) /\ Alike(client_draw_border(u), u)
         /\ InStep(u) => InStep(client_draw_border(u)) /\ Drawn(client_draw_border(u))
         /\ client_draw_border(u).window = [u.window EXCEPT !.border = u.border]
  <1> DEFINE t == client_draw_border(u)
  <1>1. /\ IsClient(t) /\ Alike(t, u) /\ t.window = [u.window EXCEPT !.border = u.border]
    BY Telling DEF Sound
  <1> HIDE DEF t
  <1>2. u.border \in Unsigned
    BY Words DEF Sound, Shaped, Unsigned
  <1>3. InStep(u) => InStep(t) /\ Drawn(t)
    BY <1>1, <1>2 DEF InStep, Drawn, Windows, Alike
  <1> QED BY <1>1, <1>3, AlikeSound DEF t

\* What moves a client and leaves its border alone.
LEMMA MoveSound ==
  ASSUME NEW r, Sound(r), NEW t, IsClient(t),
         t.screen = r.screen, t.border = r.border, t.hints = r.hints, t.strut = r.strut,
         t.flags \subseteq Flag, t.flags \cap Standing = r.flags \cap Standing,
         t.geometry \in Rectangles, t.saved \in Rectangles,
         OnlyCommands => "MAXIMIZED" \notin t.flags
  PROVE  Sound(t)
  <1>1. \A f \in Standing : f \in t.flags <=> f \in r.flags
    OBVIOUS
  <1>2. t.flags \cap {"FULLSCREEN", "IGNORE"} = r.flags \cap {"FULLSCREEN", "IGNORE"}
    BY <1>1 DEF Standing
  <1>3. "FULLSCREEN" \in t.flags => "FREEZE" \in t.flags
    BY <1>1 DEF Standing, Sound
  <1>4. Shaped(t)
    BY DEF Sound, Shaped
  <1>5. OnlyCommands => Commanded(t)
    BY DEF Sound, Commanded
  <1>6. Requests = {} => Bordered(t)
    BY <1>2 DEF Sound, Bordered
  <1> QED BY <1>3, <1>4, <1>5, <1>6 DEF Sound

\* A client whose place alone changes, and what the server is told of it.
LEMMA PutSound ==
  ASSUME NEW r, Sound(r), NEW g \in Rectangles, OnlyCommands => "MAXIMIZED" \notin r.flags
  PROVE  LET t == client_move_resize([r EXCEPT !.geometry = g])
         IN  /\ Sound(t) /\ Told(r, t)
             /\ t.geometry = g /\ t.screen = r.screen /\ t.saved = r.saved
             /\ t.border = r.border /\ t.flags = r.flags /\ t.hints = r.hints
             /\ t.strut = r.strut
  <1> DEFINE u == [r EXCEPT !.geometry = g]
             t == client_move_resize(u)
  <1>1. /\ IsClient(u) /\ u.screen = r.screen /\ u.saved = r.saved /\ u.geometry = g
        /\ u.border = r.border /\ u.flags = r.flags /\ u.hints = r.hints /\ u.strut = r.strut
        /\ u.window = r.window
    BY DEF Sound, IsClient, Fields
  <1>2. r.saved \in Rectangles /\ r.flags \subseteq Flag
    BY DEF Sound, Shaped
  <1> HIDE DEF u
  <1>3. Sound(u)
    BY <1>1, <1>2, MoveSound
  <1>4. Sound(t) /\ Alike(t, u) /\ Told(r, t)
    BY <1>1, <1>3, Moving
  <1> HIDE DEF t
  <1>5. /\ t.geometry = g /\ t.screen = r.screen /\ t.saved = r.saved
        /\ t.border = r.border /\ t.flags = r.flags /\ t.hints = r.hints /\ t.strut = r.strut
    BY <1>1, <1>4 DEF Alike
  <1> QED BY <1>4, <1>5 DEF t, u

\* In and out of fullscreen, before the server knows.
LEMMA FlippedSound ==
  ASSUME session \in Sessions, NEW r, Sound(r),
         "FREEZE" \in r.flags => "FULLSCREEN" \in r.flags
  PROVE  LET u == Flipped(r)
         IN  /\ Sound(u) /\ u.window = r.window /\ u.screen = r.screen
             /\ u.hints = r.hints /\ u.strut = r.strut
             /\ "FULLSCREEN" \in r.flags =>
                  /\ u.geometry = r.saved /\ u.saved = r.saved
                  /\ u.flags = r.flags \ {"FULLSCREEN", "FREEZE"}
             /\ "FULLSCREEN" \notin r.flags =>
                  /\ u.geometry = Screens[r.screen] /\ u.saved = r.geometry
                  /\ u.flags = r.flags \cup {"FULLSCREEN", "FREEZE"}
  <1> DEFINE u == Flipped(r)
  <1>1. CASE "FULLSCREEN" \in r.flags
    <2>1. u = [r EXCEPT !.border = IF "IGNORE" \in r.flags THEN @ ELSE BorderWidth,
                        !.geometry = r.saved, !.flags = @ \ {"FULLSCREEN", "FREEZE"}]
      BY <1>1 DEF Flipped
    <2>2. /\ IsClient(u) /\ u.screen = r.screen /\ u.geometry = r.saved /\ u.saved = r.saved
          /\ u.border = IF "IGNORE" \in r.flags THEN r.border ELSE BorderWidth
          /\ u.flags = r.flags \ {"FULLSCREEN", "FREEZE"}
          /\ u.hints = r.hints /\ u.strut = r.strut /\ u.window = r.window
      BY <2>1 DEF Sound, IsClient, Fields
    <2> HIDE DEF u
    <2>3. Requests = {} => Bordered(u)
      BY <1>1, <2>2 DEF Sound, Bordered
    <2>4. OnlyCommands => Commanded(u)
      BY <1>1, <2>2 DEF Sound, Commanded, Free, Edge
    <2>5. Shaped(u)
      BY <2>2, Given DEF Sound, Shaped
    <2>6. Sound(u)
      BY <2>2, <2>3, <2>4, <2>5 DEF Sound
    <2> QED BY <1>1, <2>2, <2>6 DEF u
  <1>2. CASE "FULLSCREEN" \notin r.flags
    <2>1. u = [r EXCEPT !.saved = r.geometry, !.geometry = Screens[r.screen], !.border = 0,
                        !.flags = @ \cup {"FULLSCREEN", "FREEZE"}]
      BY <1>2 DEF Flipped
    <2>2. /\ IsClient(u) /\ u.screen = r.screen
          /\ u.geometry = Screens[r.screen] /\ u.saved = r.geometry
          /\ u.border = 0 /\ u.flags = r.flags \cup {"FULLSCREEN", "FREEZE"}
          /\ u.hints = r.hints /\ u.strut = r.strut /\ u.window = r.window
      BY <2>1 DEF Sound, IsClient, Fields
    <2> HIDE DEF u
    <2>3. Requests = {} => Bordered(u)
      BY <2>2 DEF Bordered
    <2>4. OnlyCommands => Commanded(u)
      BY <1>2, <2>2 DEF Sound, Commanded, Free, Edge
    <2>5. Shaped(u)
      BY <2>2, Glass, Words DEF Sound, Shaped, Flag
    <2>6. Sound(u)
      BY <2>2, <2>3, <2>4, <2>5 DEF Sound
    <2> QED BY <1>2, <2>2, <2>6 DEF u
  <1> QED BY <1>1, <1>2

\* The function that leaves and enters fullscreen: the server is told of both.
LEMMA FullscreenSound ==
  ASSUME session \in Sessions, NEW c, NEW r, Sound(r)
  PROVE  LET t == client_toggle_fullscreen(c, r)
         IN  /\ Sound(t) /\ Told(r, t)
             /\ t = r \/ Alike(t, Flipped(r))
             /\ "FREEZE" \notin r.flags \/ "FULLSCREEN" \in r.flags => Alike(t, Flipped(r))
  <1> DEFINE t == client_toggle_fullscreen(c, r)
             u == Flipped(r)
             v == client_draw_border(u)
  <1>1. CASE "FREEZE" \in r.flags /\ "FULLSCREEN" \notin r.flags
    <2>1. t = r
      BY <1>1 DEF client_toggle_fullscreen
    <2> QED BY <1>1, <2>1 DEF Told
  <1>2. CASE "FREEZE" \notin r.flags \/ "FULLSCREEN" \in r.flags
    <2>1. t = client_move_resize(v)
      BY <1>2 DEF client_toggle_fullscreen
    <2>2. Sound(u) /\ u.window = r.window
      BY <1>2, FlippedSound
    <2> HIDE DEF u
    <2>3. Sound(v) /\ Alike(v, u) /\ v.window = [u.window EXCEPT !.border = u.border]
      BY <2>2, Drawing
    <2> HIDE DEF v
    <2>4. Sound(t) /\ Alike(t, v) /\ t.window = [v.window EXCEPT !.geometry = v.geometry]
      <3>1. IsClient(v)
        BY <2>3 DEF Sound
      <3>2. t.window = [v.window EXCEPT !.geometry = v.geometry]
        BY <2>1, <3>1, Telling
      <3>3. Sound(t) /\ Alike(t, v)
        BY <2>1, <2>3, Moving
      <3> QED BY <3>2, <3>3
    <2> HIDE DEF t
    <2>5. Alike(t, u)
      BY <2>3, <2>4 DEF Alike
    <2>6. u.geometry \in Rectangles /\ u.border \in Unsigned
      BY <2>2, Words DEF Sound, Shaped, Unsigned
    <2>7. Told(r, t)
      BY <2>2, <2>3, <2>4, <2>6 DEF Told, InStep, Drawn, Windows, Alike
    <2> QED BY <2>4, <2>5, <2>7 DEF t, u
  <1> QED BY <1>1, <1>2

\* The area of a client has a place and a size.
LEMMA SoundArea ==
  ASSUME Inv, NEW c \in Client, NEW r, Sound(r)
  PROVE  AreaOf(c, r) \in Rectangles
  BY AreaShape DEF Sound, Shaped

\* Maximizing fills the area that commands leave to a window, and gives it back.
LEMMA MaximizeSound ==
  ASSUME Inv, NEW c \in Client, NEW r, Sound(r)
  PROVE  Sound(client_toggle_maximize(c, r)) /\ Told(r, client_toggle_maximize(c, r))
  <1> DEFINE t == client_toggle_maximize(c, r)
  <1>1. CASE "FREEZE" \in r.flags
    <2>1. t = r
      BY <1>1 DEF client_toggle_maximize
    <2> QED BY <2>1 DEF Told
  <1>2. CASE "FREEZE" \notin r.flags /\ "MAXIMIZED" \in r.flags
    <2> DEFINE u == [Reset(r) EXCEPT !.geometry = IF r.saved.width > 0 /\ r.saved.height > 0
                                                     THEN r.saved ELSE @]
    <2>1. t = client_move_resize(u)
      BY <1>2 DEF client_toggle_maximize
    <2>2. /\ IsClient(u) /\ u.screen = r.screen /\ u.border = r.border
          /\ u.hints = r.hints /\ u.strut = r.strut /\ u.saved = r.saved
          /\ u.geometry \in {r.saved, r.geometry} /\ u.flags = r.flags \ {"MAXIMIZED"}
          /\ u.window = r.window
      BY DEF Reset, Sound, IsClient, Fields
    <2> HIDE DEF u
    <2>3. u.geometry \in Rectangles /\ u.saved \in Rectangles /\ u.flags \subseteq Flag
      BY <2>2 DEF Sound, Shaped
    <2>4. u.flags \cap Standing = r.flags \cap Standing /\ "MAXIMIZED" \notin u.flags
      BY <2>2 DEF Standing
    <2>5. Sound(u)
      BY <2>2, <2>3, <2>4, MoveSound
    <2>6. Sound(client_move_resize(u)) /\ Told(r, client_move_resize(u))
      BY <2>2, <2>5, Moving
    <2> QED BY <2>1, <2>6
  <1>3. CASE "FREEZE" \notin r.flags /\ "MAXIMIZED" \notin r.flags
    <2> DEFINE u == [r EXCEPT !.saved = r.geometry, !.geometry = Filling(AreaOf(c, r), r.border),
                              !.flags = @ \cup {"MAXIMIZED"}]
    <2>1. t = client_move_resize(u)
      BY <1>3 DEF client_toggle_maximize
    <2>2. /\ IsClient(u) /\ u.screen = r.screen /\ u.saved = r.geometry
          /\ u.geometry = Filling(AreaOf(c, r), r.border)
          /\ u.border = r.border /\ u.flags = r.flags \cup {"MAXIMIZED"}
          /\ u.hints = r.hints /\ u.strut = r.strut /\ u.window = r.window
      BY DEF Sound, IsClient, Fields
    <2> HIDE DEF u
    <2>3. "FULLSCREEN" \notin r.flags /\ "FULLSCREEN" \notin u.flags /\ "FREEZE" \notin u.flags
      BY <1>3, <2>2 DEF Sound
    <2>4. Requests = {} => Bordered(u) /\ r.border = Edge(u)
      BY <2>2, <2>3 DEF Sound, Bordered, Edge
    <2>5. ASSUME OnlyCommands PROVE Commanded(u)
      <3>1. r.strut = NoStrut /\ r.hints = Defaults /\ Requests = {} /\ Struts = {NoStrut}
        BY <2>5 DEF Sound, Commanded, OnlyCommands
      <3>2. AreaOf(c, r) = Free(u)
        BY <2>2, <3>1, FreeArea DEF Free
      <3> QED BY <2>2, <2>3, <2>4, <3>1, <3>2 DEF Commanded
    <2>6. Shaped(u)
      <3>1. Filling(AreaOf(c, r), r.border) \in Rectangles
        BY SoundArea, Shapes DEF Sound, Shaped
      <3> QED BY <2>2, <3>1 DEF Sound, Shaped, Flag
    <2>7. Sound(u)
      BY <2>2, <2>3, <2>4, <2>5, <2>6 DEF Sound
    <2>8. Sound(client_move_resize(u)) /\ Told(r, client_move_resize(u))
      BY <2>2, <2>7, Moving
    <2> QED BY <2>1, <2>8
  <1> QED BY <1>1, <1>2, <1>3

\* The client on another screen, whose area counts.
Onto(r, i) == [r EXCEPT !.screen = i]

\* Adoption by a screen moves a client that is not maximized; the server hears of it if the
\* window does not stay where it was.
LEMMA AdoptSound ==
  ASSUME Inv, NEW c \in Client, NEW r, Sound(r), NEW i \in DOMAIN Screens,
         OnlyCommands => "MAXIMIZED" \notin r.flags
  PROVE  LET t == screen_adopt(c, r, i)
         IN  /\ Sound(t) /\ Told(r, t)
             /\ t.geometry = Adopted(r.geometry, AreaOf(c, Onto(r, i)))
             /\ t.screen = i /\ t.saved = r.saved /\ t.border = r.border
             /\ t.flags = r.flags /\ t.hints = r.hints /\ t.strut = r.strut
  <1> DEFINE moved == [r EXCEPT !.screen = i]
             g == Adopted(r.geometry, AreaOf(c, moved))
             t == screen_adopt(c, r, i)
             told == client_move_resize([moved EXCEPT !.geometry = g])
  <1>1. /\ IsClient(moved) /\ moved.screen = i /\ moved.geometry = r.geometry
        /\ moved.saved = r.saved /\ moved.border = r.border /\ moved.flags = r.flags
        /\ moved.hints = r.hints /\ moved.strut = r.strut /\ moved.window = r.window
    BY DEF Sound, IsClient, Fields
  <1>2. t = IF g = r.geometry THEN moved ELSE told
    BY DEF screen_adopt
  <1> HIDE DEF moved
  <1>3. Sound(moved)
    <2>1. Shaped(moved)
      BY <1>1 DEF Sound, Shaped
    <2> QED BY <1>1, <2>1 DEF Sound, Bordered, Commanded
  <1>4. g \in Rectangles
    <2>1. /\ r.geometry \in Rectangles /\ AreaOf(c, moved) \in Rectangles
          /\ r.border \in Nat /\ 2 * r.border < Word
      BY <1>3, SoundArea DEF Sound, Shaped
    <2> QED BY <2>1, Shapes
  <1> HIDE DEF g, t
  <1>5. CASE g = r.geometry
    <2>1. Told(r, moved)
      BY <1>1 DEF Told, InStep, Drawn
    <2> QED BY <1>1, <1>2, <1>3, <1>5, <2>1 DEF t, g, moved, Onto
  <1>6. CASE g # r.geometry
    <2>1. /\ Sound(told) /\ Told(moved, told) /\ told.geometry = g /\ told.screen = i
          /\ told.saved = r.saved /\ told.border = r.border /\ told.flags = r.flags
          /\ told.hints = r.hints /\ told.strut = r.strut
      BY <1>1, <1>3, <1>4, PutSound
    <2>2. t = told
      BY <1>2, <1>6
    <2>3. Told(r, told)
      BY <1>1, <2>1 DEF Told, InStep, Drawn
    <2> HIDE DEF told
    <2> QED BY <2>1, <2>2, <2>3 DEF t, g, moved, Onto
  <1> QED BY <1>5, <1>6

\* New hints change the size of a window, default ones do not.
LEMMA HintsSound ==
  ASSUME Inv, NEW r, Sound(r), NEW given \in SizeHints
  PROVE  LET t == client_update_size_hints(r, given)
             hints == UpdatedHints(r.hints, given)
         IN  /\ Sound(t) /\ Told(r, t)
             /\ t.geometry = client_apply_size_hints(r.geometry, hints)
             /\ t.screen = r.screen /\ t.saved = r.saved /\ t.border = r.border
             /\ t.flags = r.flags /\ t.hints = hints /\ t.strut = r.strut
  <1> DEFINE hints == UpdatedHints(r.hints, given)
             g == client_apply_size_hints(r.geometry, hints)
             t == [r EXCEPT !.hints = hints, !.geometry = g]
  <1>1. /\ IsClient(t) /\ t.screen = r.screen /\ t.saved = r.saved /\ t.border = r.border
        /\ t.geometry = g /\ t.flags = r.flags /\ t.hints = hints /\ t.strut = r.strut
        /\ t.window = r.window
    BY DEF Sound, IsClient, Fields
  <1>2. Shaped(t)
    <2>1. Hinted(hints)
      BY HintsUpdated DEF Inv, Sound, Shaped
    <2> HIDE DEF hints, t
    <2>2. g \in Rectangles
      BY <2>1, HintShapes DEF Sound, Shaped
    <2> QED BY <1>1, <2>1, <2>2 DEF Sound, Shaped
  <1>3. ASSUME OnlyCommands PROVE Commanded(t)
    <2>1. /\ r.hints = Defaults /\ r.strut = NoStrut
          /\ r.screen \in DOMAIN Screens /\ r.geometry \in Rectangles
          /\ "MAXIMIZED" \in r.flags =>
               Filling(Free(r), Edge(r)) = IF "FULLSCREEN" \in r.flags THEN r.saved ELSE r.geometry
      BY <1>3 DEF Sound, Commanded, Shaped
    <2>2. given = NoHints
      BY <1>3 DEF OnlyCommands
    <2>3. hints = Defaults
      BY <2>1, <2>2 DEF Defaults, UpdatedHints, UpdatedAxis, NoHints, NoAxisHints, Larger
    <2> HIDE DEF hints, t
    <2>4. ASSUME "MAXIMIZED" \in r.flags, "FULLSCREEN" \notin r.flags PROVE g = r.geometry
      <3> DEFINE f == Free(r)
                 e == Edge(r)
      <3>1. /\ f \in Rectangles /\ f.width > 2 * BorderWidth /\ f.width < Word
            /\ f.height > 2 * BorderWidth /\ f.height < Word
        <4> DEFINE s == Screens[r.screen]
        <4>1. /\ s \in Rectangles /\ s.width > 2 * BorderWidth /\ s.height > 2 * BorderWidth
              /\ s.x >= 0 /\ s.x + s.width < Half /\ s.y >= 0 /\ s.y + s.height < Half
          BY <2>1, Glass DEF Inv
        <4>2. f = s
          BY <2>1, FreeIsScreen DEF Inv
        <4> HIDE DEF f, s
        <4>3. s.width < Word /\ s.height < Word
          BY <4>1, Words DEF Rectangles
        <4> QED BY <4>1, <4>2, <4>3
      <3>2. e \in {0, BorderWidth} /\ BorderWidth \in Nat
        BY PlacementAssumption DEF Edge
      <3>3. r.geometry = Filling(f, e)
        BY <2>1, <2>4
      <3> HIDE DEF f, e
      <3>4. r.geometry.width = Minus(f.width, 2 * e) /\ r.geometry.height = Minus(f.height, 2 * e)
        BY <3>3 DEF Filling, Rectangle
      <3>5. Minus(f.width, 2 * e) \in 1 .. Word - 1 /\ Minus(f.height, 2 * e) \in 1 .. Word - 1
        <4>1. 2 * e \in Nat /\ 2 * e <= 2 * BorderWidth /\ 2 * BorderWidth \in Nat
          BY <3>2
        <4>2. ASSUME NEW n \in Nat, n > 2 * BorderWidth, n < Word
              PROVE  Minus(n, 2 * e) \in 1 .. Word - 1
          <5> DEFINE m == 2 * e
          <5>1. m \in Nat /\ m < n
            BY <4>1, <4>2
          <5> HIDE DEF m
          <5>2. Minus(n, m) \in 1 .. Word - 1
            BY <4>2, <5>1, Words DEF Minus
          <5> QED BY <5>2 DEF m
        <4>3. f.width \in Nat /\ f.height \in Nat
          BY <3>1 DEF Rectangles
        <4> QED BY <3>1, <4>2, <4>3
      <3> QED BY <2>1, <2>3, <3>4, <3>5, NoLimits
    <2> HIDE DEF g
    <2> QED BY <1>1, <2>1, <2>3, <2>4 DEF Commanded, Free, Edge
  <1>4. Requests = {} => Bordered(t)
    <2> HIDE DEF t
    <2> QED BY <1>1 DEF Sound, Bordered
  <1>5. Sound(t)
    <2> HIDE DEF t
    <2> QED BY <1>1, <1>2, <1>3, <1>4 DEF Sound
  <1> DEFINE told == client_update_size_hints(r, given)
  <1>6. told = client_move_resize(t)
    BY DEF client_update_size_hints
  <1> HIDE DEF t, told
  <1>7. Sound(told) /\ Alike(told, t) /\ Told(r, told)
    BY <1>1, <1>5, <1>6, Moving
  <1> HIDE DEF hints, g
  <1>8. /\ told.geometry = g /\ told.screen = r.screen /\ told.saved = r.saved
        /\ told.border = r.border /\ told.flags = r.flags /\ told.hints = hints
        /\ told.strut = r.strut
    BY <1>1, <1>7 DEF Alike
  <1> QED BY <1>7, <1>8 DEF told, g, hints

\* The commands that move a window and forget that it was maximized.
LEMMA CommandSound ==
  ASSUME Inv, NEW c \in Client, NEW r, Sound(r)
  PROVE  /\ Sound(function_window_center(c, r)) /\ Told(r, function_window_center(c, r))
         /\ Sound(client_restore(c, r)) /\ Told(r, client_restore(c, r))
         /\ \A h, v \in Parts : /\ Sound(function_window_tile(c, r, h, v))
                                /\ Told(r, function_window_tile(c, r, h, v))
  <1>1. /\ r.geometry \in Rectangles /\ r.saved \in Rectangles /\ Hinted(r.hints)
        /\ AreaOf(c, r) \in Rectangles /\ r.border \in Nat /\ 2 * r.border < Word
    BY SoundArea DEF Sound, Shaped
  <1>2. ASSUME NEW g \in Rectangles, NEW v \in Rectangles
        PROVE  LET t == client_move_resize(Reset([r EXCEPT !.saved = v, !.geometry = g]))
               IN  Sound(t) /\ Told(r, t)
    <2> DEFINE t == Reset([r EXCEPT !.saved = v, !.geometry = g])
    <2>1. /\ IsClient(t) /\ t.screen = r.screen /\ t.saved = v /\ t.geometry = g
          /\ t.border = r.border /\ t.flags = r.flags \ {"MAXIMIZED"}
          /\ t.hints = r.hints /\ t.strut = r.strut /\ t.window = r.window
      BY DEF Reset, Sound, IsClient, Fields
    <2> HIDE DEF t
    <2>2. t.flags \cap Standing = r.flags \cap Standing /\ "MAXIMIZED" \notin t.flags
      BY <2>1 DEF Standing
    <2>3. t.flags \subseteq Flag
      BY <2>1 DEF Sound, Shaped
    <2>4. Sound(t)
      BY <2>1, <2>2, <2>3, MoveSound
    <2>5. Sound(client_move_resize(t)) /\ Told(r, client_move_resize(t))
      BY <2>1, <2>4, Moving
    <2> QED BY <2>5 DEF t
  <1>3. Sound(function_window_center(c, r)) /\ Told(r, function_window_center(c, r))
    <2>1. Centered(r.geometry, AreaOf(c, r), r.border) \in Rectangles
      BY <1>1, Shapes
    <2>2. function_window_center(c, r) =
            client_move_resize(
              Reset([r EXCEPT !.saved = r.geometry,
                              !.geometry = Centered(r.geometry, AreaOf(c, r), r.border)]))
      BY DEF function_window_center, Sound, IsClient, Fields
    <2> QED BY <1>1, <1>2, <2>1, <2>2
  <1>4. Sound(client_restore(c, r)) /\ Told(r, client_restore(c, r))
    <2>1. CASE r.saved.width = 0 \/ r.saved.height = 0
      BY <2>1 DEF client_restore, Told
    <2>2. CASE ~(r.saved.width = 0 \/ r.saved.height = 0)
      <3>1. client_restore(c, r) =
              client_move_resize(Reset([r EXCEPT !.saved = r.saved, !.geometry = r.saved]))
        BY <2>2 DEF client_restore, Reset, Sound, IsClient, Fields
      <3> QED BY <1>1, <1>2, <3>1
    <2> QED BY <2>1, <2>2
  <1>5. ASSUME NEW h \in Parts, NEW v \in Parts
        PROVE  /\ Sound(function_window_tile(c, r, h, v))
               /\ Told(r, function_window_tile(c, r, h, v))
    <2> DEFINE tile == Tiled(AreaOf(c, r), r.border, h, v)
    <2>1. tile \in Rectangles
      BY <1>1, Shapes
    <2>2. function_window_tile(c, r, h, v) =
            client_move_resize(
              Reset([r EXCEPT !.saved = r.geometry,
                              !.geometry = client_apply_size_hints(tile, r.hints)]))
      BY DEF function_window_tile
    <2> HIDE DEF tile
    <2>3. client_apply_size_hints(tile, r.hints) \in Rectangles
      BY <1>1, <2>1, HintShapes
    <2> QED BY <1>1, <1>2, <2>2, <2>3
  <1> QED BY <1>3, <1>4, <1>5

\* _NET_WM_STATE_TOGGLE of one direction, which leaves the flags alone.
LEMMA ToggleSound ==
  ASSUME Inv, NEW c \in Client, NEW r, Sound(r), OnlyCommands => "MAXIMIZED" \notin r.flags,
         NEW t \in {client_toggle_hmaximize(c, r), client_toggle_vmaximize(c, r)}
  PROVE  /\ Sound(t) /\ Told(r, t)
         /\ t.screen = r.screen /\ t.saved = r.saved /\ t.border = r.border
         /\ t.flags = r.flags /\ t.hints = r.hints /\ t.strut = r.strut
  <1> DEFINE full == Filling(AreaOf(c, r), r.border)
  <1>1. full \in Rectangles
    BY SoundArea, Shapes DEF Sound, Shaped
  <1>2. /\ client_toggle_hmaximize(c, r) =
             IF "FREEZE" \in r.flags THEN r
             ELSE client_move_resize([r EXCEPT !.geometry = [r.geometry EXCEPT !.x = full.x,
                                                                !.width = full.width]])
        /\ client_toggle_vmaximize(c, r) =
             IF "FREEZE" \in r.flags THEN r
             ELSE client_move_resize([r EXCEPT !.geometry = [r.geometry EXCEPT !.y = full.y,
                                                                !.width = full.height]])
    BY DEF client_toggle_hmaximize, client_toggle_vmaximize
  <1> HIDE DEF full
  <1>3. /\ [r.geometry EXCEPT !.x = full.x, !.width = full.width] \in Rectangles
        /\ [r.geometry EXCEPT !.y = full.y, !.width = full.height] \in Rectangles
    BY <1>1 DEF Sound, Shaped, Rectangles
  <1>4. t = r \/ \E g \in Rectangles : t = client_move_resize([r EXCEPT !.geometry = g])
    BY <1>2, <1>3
  <1>5. CASE t = r
    BY <1>5 DEF Told
  <1>6. ASSUME NEW g \in Rectangles, t = client_move_resize([r EXCEPT !.geometry = g])
        PROVE  /\ Sound(t) /\ Told(r, t)
               /\ t.screen = r.screen /\ t.saved = r.saved /\ t.border = r.border
               /\ t.flags = r.flags /\ t.hints = r.hints /\ t.strut = r.strut
    BY <1>6, PutSound
  <1> QED BY <1>4, <1>5, <1>6

\* FirstScreen finds a screen that the test holds for if there is one.
LEMMA FirstFound ==
  ASSUME session \in Sessions, NEW test
  PROVE  /\ FirstScreen(test) # 0 <=> \E k \in DOMAIN Screens : test[k]
         /\ FirstScreen(test) # 0 => /\ FirstScreen(test) \in DOMAIN Screens
                                     /\ test[FirstScreen(test)]
  <1> DEFINE d == [k \in DOMAIN Screens |-> IF test[k] THEN 0 ELSE 1]
  <1>1. DOMAIN Screens = 1 .. Len(Screens) /\ Len(Screens) \in Nat \ {0}
    BY Glass
  <1>2. d \in [1 .. Len(Screens) -> Nat]
    BY <1>1
  <1>3. PICK i \in DOMAIN Screens :
          \A j \in DOMAIN Screens : d[i] <= d[j] /\ (j < i => d[i] < d[j])
    <2> HIDE DEF d
    <2> QED BY <1>1, <1>2, Nearest
  <1>4. ASSUME NEW k \in DOMAIN Screens, test[k]
        PROVE  /\ FirstScreen(test) \in DOMAIN Screens
               /\ test[FirstScreen(test)]
    <2>1. test[i]
      BY <1>3, <1>4
    <2>2. \A j \in 1 .. i - 1 : ~test[j]
      <3> TAKE j \in 1 .. i - 1
      <3>1. j \in DOMAIN Screens /\ j < i
        BY <1>1
      <3> QED BY <1>3, <3>1
    <2>3. FirstScreen(test) =
            CHOOSE m \in DOMAIN Screens : test[m] /\ \A j \in 1 .. m - 1 : ~test[j]
      BY <1>4 DEF FirstScreen
    <2> QED BY <2>1, <2>2, <2>3
  <1>5. (\A k \in DOMAIN Screens : ~test[k]) => FirstScreen(test) = 0
    BY DEF FirstScreen
  <1>6. 0 \notin DOMAIN Screens
    BY <1>1
  <1> QED BY <1>4, <1>5, <1>6

\* Where the pointer is, a screen is.
LEMMA ShownContained ==
  ASSUME NEW g \in Rectangles, g.x >= 0, g.y >= 0, g.x + g.width < Half, g.y + g.height < Half,
         NEW p, Shows(g, p)
  PROVE  x_contains_point(g, p.x, p.y)
  BY Words DEF Shows, x_contains_point, ContainsAxis, ToUnsigned, End, Plus, Rectangles

\* A window belongs to the screen its middle is on, or to a nearest one if it is on none.
LEMMA ScreenOf ==
  ASSUME session \in Sessions, NEW g \in Rectangles
  PROVE  LET x == ToInt(Middle(g.x, g.width))
             y == ToInt(Middle(g.y, g.height))
             i == screen_for_client(g)
         IN  /\ i \in DOMAIN Screens
             /\ \/ x_contains_point(Screens[i], x, y)
                \/ \A j \in DOMAIN Screens :
                     x_distance(Screens[i], x, y) <= x_distance(Screens[j], x, y)
  <1> DEFINE x    == ToInt(Middle(g.x, g.width))
             y    == ToInt(Middle(g.y, g.height))
             at   == screen_for_point(x, y)
             D(i) == x_distance(Screens[i], x, y)
             d    == [i \in DOMAIN Screens |-> D(i)]
  <1>1. at # 0 => at \in DOMAIN Screens /\ x_contains_point(Screens[at], x, y)
    BY FirstFound DEF screen_for_point
  <1>2. x \in Int /\ y \in Int
    <2>1. g.x \in Int /\ g.width \in Int /\ g.y \in Int /\ g.height \in Int
      BY DEF Rectangles
    <2>2. Middle(g.x, g.width) \in Int /\ Middle(g.y, g.height) \in Int
      BY <2>1, Sums
    <2> QED BY <2>2, Sums
  <1>3. ASSUME NEW i \in DOMAIN Screens PROVE D(i) \in Nat
    <2> DEFINE s == Screens[i]
    <2>1. s.x \in Int /\ s.y \in Int /\ s.width \in Int /\ s.height \in Int
      BY Glass DEF Rectangles
    <2> HIDE DEF x, y, s
    <2>2. /\ ToInt(Minus(Middle(s.x, s.width), ToUnsigned(x))) \in Int
          /\ ToInt(Minus(Middle(s.y, s.height), ToUnsigned(y))) \in Int
      BY <1>2, <2>1, Sums
    <2>3. x_distance(s, x, y) \in Nat
      BY <2>2 DEF x_distance, Distance
    <2> QED BY <2>3 DEF s
  <1> HIDE DEF x, y, at
  <1>4. DOMAIN Screens = 1 .. Len(Screens) /\ Len(Screens) \in Nat \ {0}
    BY Glass
  <1>5. \E i \in DOMAIN Screens :
          \A j \in DOMAIN Screens : d[i] <= d[j] /\ (j < i => d[i] < d[j])
    <2>1. d \in [1 .. Len(Screens) -> Nat]
      BY <1>3, <1>4
    <2> HIDE DEF d
    <2> QED BY <1>4, <2>1, Nearest
  <1>6. \E i \in DOMAIN Screens :
          \A j \in DOMAIN Screens : D(i) <= D(j) /\ (j < i => D(i) < D(j))
    BY <1>5
  <1>7. screen_for_client(g) =
          IF at # 0 THEN at
          ELSE CHOOSE i \in DOMAIN Screens :
                 \A j \in DOMAIN Screens : D(i) <= D(j) /\ (j < i => D(i) < D(j))
    BY DEF screen_for_client, x, y, at
  <1> HIDE DEF D
  <1> DEFINE i == screen_for_client(g)
  <1>8. /\ i \in DOMAIN Screens
        /\ x_contains_point(Screens[i], x, y) \/ \A j \in DOMAIN Screens : D(i) <= D(j)
    BY <1>1, <1>6, <1>7
  <1> QED BY <1>8 DEF D, x, y

\* Wherever it is.
LEMMA SomeScreen ==
  ASSUME session \in Sessions, NEW g \in Rectangles
  PROVE  screen_for_client(g) \in DOMAIN Screens
  BY ScreenOf

\* window-move-to-screen moves a window that is not maximized.
LEMMA SendSound ==
  ASSUME Inv, NEW c \in Client, NEW r, Sound(r), ~OnlyCommands, NEW d
  PROVE  /\ Sound(function_window_move_to_screen(c, r, d))
         /\ Told(r, function_window_move_to_screen(c, r, d))
  <1> DEFINE i     == screen_find(d, r.screen)
             old   == AreaOf(c, r)
             new   == AreaOf(c, [r EXCEPT !.screen = i, !.strut = NoStrut])
             g     == [r.geometry EXCEPT !.x = new.x + (@ - old.x), !.y = new.y + (@ - old.y)]
             moved == client_move_resize([r EXCEPT !.geometry = g])
  <1>1. function_window_move_to_screen(c, r, d) = IF i = 0 THEN r ELSE screen_adopt(c, moved, i)
    <2> DEFINE across == [r EXCEPT !.geometry.x = new.x + (@ - old.x),
                                   !.geometry.y = new.y + (@ - old.y)]
    <2>1. function_window_move_to_screen(c, r, d) =
            IF i = 0 THEN r ELSE screen_adopt(c, client_move_resize(across), i)
      BY DEF function_window_move_to_screen
    <2> HIDE DEF i, old, new
    <2>2. across = [r EXCEPT !.geometry = g]
      BY DEF Sound, IsClient, Fields
    <2> QED BY <2>1, <2>2
  <1>2. i # 0 => i \in DOMAIN Screens
    BY FirstFound DEF screen_find, Inv
  <1> HIDE DEF i
  <1>3. r.geometry \in Rectangles /\ r.saved \in Rectangles /\ r.flags \subseteq Flag
    BY DEF Sound, Shaped
  <1>4. ASSUME i # 0 PROVE new \in Rectangles /\ old \in Rectangles
    <2> DEFINE there == [r EXCEPT !.screen = i, !.strut = NoStrut]
    <2>1. there.screen = i /\ there.strut = NoStrut
      BY DEF Sound, IsClient, Fields
    <2> HIDE DEF there
    <2>2. NoStrut \in Struts
      BY Given DEF Inv
    <2>3. AreaOf(c, there) \in Rectangles
      BY <1>2, <1>4, <2>1, <2>2, AreaShape
    <2> QED BY <2>3, SoundArea DEF there
  <1> HIDE DEF new, old
  <1>5. i # 0 => g \in Rectangles
    <2> DEFINE x == new.x + (r.geometry.x - old.x)
               y == new.y + (r.geometry.y - old.y)
    <2>1. i # 0 => x \in Int /\ y \in Int
      BY <1>3, <1>4 DEF Rectangles
    <2>2. g = [r.geometry EXCEPT !.x = x, !.y = y]
      BY <1>3 DEF Rectangles
    <2> HIDE DEF x, y, g
    <2> QED BY <1>3, <2>1, <2>2 DEF Rectangles
  <1> HIDE DEF g
  <1>6. i # 0 => Sound(moved) /\ Told(r, moved)
    BY <1>5, PutSound
  <1> HIDE DEF moved
  <1>7. i # 0 => Sound(screen_adopt(c, moved, i)) /\ Told(moved, screen_adopt(c, moved, i))
    BY <1>2, <1>6, AdoptSound
  <1>8. CASE i = 0
    <2>1. Told(r, r)
      BY DEF Told
    <2> QED BY <1>1, <1>8, <2>1
  <1>9. CASE i # 0
    <2>1. Told(r, screen_adopt(c, moved, i))
      BY <1>6, <1>7, <1>9 DEF Told
    <2> QED BY <1>1, <1>7, <1>9, <2>1
  <1> QED BY <1>8, <1>9

\* A client with the hints of its window.
LEMMA FreshSound ==
  ASSUME Inv, NEW window \in Windows, NEW given \in SizeHints
  PROVE  LET g      == window.geometry
             fresh  == [screen |-> screen_for_client(g), geometry |-> g, saved |-> g,
                        border |-> BorderWidth, flags |-> {}, strut |-> NoStrut,
                        hints |-> NoHints, window |-> window]
             hinted == client_update_size_hints(fresh, given)
         IN  /\ Sound(hinted) /\ InStep(hinted) /\ hinted.flags = {}
             /\ hinted.screen = screen_for_client(g) /\ hinted.saved = g
  <1> DEFINE g      == window.geometry
             fresh  == [screen |-> screen_for_client(g), geometry |-> g, saved |-> g,
                        border |-> BorderWidth, flags |-> {}, strut |-> NoStrut,
                        hints |-> NoHints, window |-> window]
             hinted == client_update_size_hints(fresh, given)
             hints  == UpdatedHints(NoHints, given)
             u      == [fresh EXCEPT !.hints = hints,
                                     !.geometry = client_apply_size_hints(g, hints)]
  <1>1. g \in Rectangles /\ screen_for_client(g) \in DOMAIN Screens
    BY SomeScreen DEF Inv, Windows
  <1>2. hinted = client_move_resize(u)
    BY DEF client_update_size_hints
  <1>3. Hinted(hints)
    BY HintsUpdated DEF Inv
  <1>4. OnlyCommands => hints = Defaults
    BY DEF OnlyCommands, Defaults
  <1> HIDE DEF hints
  <1>5. /\ IsClient(u) /\ u.screen = screen_for_client(g) /\ u.saved = g
        /\ u.border = BorderWidth /\ u.geometry = client_apply_size_hints(g, hints)
        /\ u.flags = {} /\ u.hints = hints /\ u.strut = NoStrut /\ u.window = window
    BY DEF IsClient, Fields
  <1> HIDE DEF hinted, g, u
  <1>6. client_apply_size_hints(g, hints) \in Rectangles
    BY <1>1, <1>3, HintShapes
  <1>7. Shaped(u)
    BY <1>1, <1>3, <1>5, <1>6, Given DEF Shaped, Inv
  <1>8. OnlyCommands => Commanded(u)
    BY <1>4, <1>5 DEF Commanded
  <1>9. Sound(u)
    BY <1>5, <1>7, <1>8 DEF Sound, Bordered
  <1>10. /\ Sound(hinted) /\ Alike(hinted, u)
         /\ hinted.window = [window EXCEPT !.geometry = u.geometry]
    <2>1. IsClient(u)
      BY <1>5
    <2>2. hinted.window = [window EXCEPT !.geometry = u.geometry]
      BY <1>2, <1>5, <2>1, Telling
    <2> QED BY <1>2, <1>9, <2>2, Moving
  <1>11. InStep(hinted)
    BY <1>5, <1>6, <1>10 DEF InStep, Windows, Alike
  <1>12. hinted.flags = {} /\ hinted.screen = screen_for_client(g) /\ hinted.saved = g
    BY <1>5, <1>10 DEF Alike
  <1> QED BY <1>10, <1>11, <1>12 DEF hinted, g

\* A client that was just made is sound and not maximized.
LEMMA InitsSound ==
  ASSUME Inv, NEW c \in Client, NEW window \in Windows, NEW r \in Inits(c, window)
  PROVE  /\ Sound(r) /\ InStep(r) /\ "MAXIMIZED" \notin r.flags
         /\ r.screen = screen_for_client(window.geometry)
  <1>1. PICK atoms \in NetStates, strut \in Struts, given \in SizeHints :
          r = Initialized(c, window, atoms, strut, given)
    BY DEF Inits
  <1> DEFINE g        == window.geometry
             fresh    == [screen |-> screen_for_client(g), geometry |-> g, saved |-> g,
                          border |-> BorderWidth, flags |-> {}, strut |-> NoStrut,
                          hints |-> NoHints, window |-> window]
             hinted   == client_update_size_hints(fresh, given)
             adopted  == screen_adopt(c, hinted, fresh.screen)
             v == IF "VMAXIMIZED" \in atoms THEN client_toggle_vmaximize(c, adopted) ELSE adopted
             h == IF "HMAXIMIZED" \in atoms THEN client_toggle_hmaximize(c, v) ELSE v
             f == IF "FULLSCREEN" \in atoms THEN client_toggle_fullscreen(c, h) ELSE h
             restored == [f EXCEPT !.strut = strut]
             ignored  == [restored EXCEPT !.flags = @ \cup {"IGNORE"}, !.border = 0]
  <1>2. g \in Rectangles /\ screen_for_client(g) \in DOMAIN Screens
    BY SomeScreen DEF Inv, Windows
  <1>3. Sound(hinted) /\ InStep(hinted) /\ hinted.flags = {}
    BY FreshSound
  <1> DEFINE home == fresh.screen
  <1>4. home \in DOMAIN Screens /\ home = screen_for_client(window.geometry)
    BY <1>2
  <1> HIDE DEF hinted, home
  <1>5. Sound(adopted) /\ InStep(adopted) /\ adopted.flags = {} /\ adopted.screen = home
    <2>1. "MAXIMIZED" \notin hinted.flags
      BY <1>3
    <2>2. /\ Sound(adopted) /\ Told(hinted, adopted) /\ adopted.flags = hinted.flags
          /\ adopted.screen = home
      <3>1. adopted = screen_adopt(c, hinted, home)
        BY DEF home
      <3> HIDE DEF adopted
      <3> DEFINE t == screen_adopt(c, hinted, home)
      <3>2. Sound(t) /\ Told(hinted, t) /\ t.flags = hinted.flags /\ t.screen = home
        BY <1>3, <1>4, <2>1, AdoptSound
      <3> QED BY <3>1, <3>2
    <2> QED BY <1>3, <2>2 DEF Told
  <1> HIDE DEF adopted, fresh
  <1>6. Sound(v) /\ InStep(v) /\ v.flags = {} /\ v.screen = home
    <2>1. v # adopted => Sound(v) /\ Told(adopted, v) /\ v.flags = {} /\ v.screen = home
      BY <1>5, ToggleSound
    <2> QED BY <1>5, <2>1 DEF Told
  <1> HIDE DEF v
  <1>7. Sound(h) /\ InStep(h) /\ h.flags = {} /\ h.screen = home
    <2>1. h # v => Sound(h) /\ Told(v, h) /\ h.flags = {} /\ h.screen = home
      BY <1>6, ToggleSound
    <2> QED BY <1>6, <2>1 DEF Told
  <1> HIDE DEF h
  <1>8. Sound(f) /\ InStep(f) /\ "MAXIMIZED" \notin f.flags /\ f.screen = home
    <2> DEFINE full == client_toggle_fullscreen(c, h)
               u    == Flipped(h)
    <2>1. Sound(full) /\ Told(h, full) /\ Alike(full, u)
      BY <1>7, FullscreenSound DEF Inv
    <2>2. u.flags = {"FULLSCREEN", "FREEZE"} /\ u.screen = h.screen
      BY <1>7, FlippedSound DEF Inv
    <2>3. Sound(full) /\ InStep(full) /\ "MAXIMIZED" \notin full.flags /\ full.screen = home
      BY <1>7, <2>1, <2>2 DEF Told, Alike
    <2> QED BY <1>7, <2>3
  <1> HIDE DEF f
  <1>9. Sound(restored) /\ InStep(restored) /\ "MAXIMIZED" \notin restored.flags /\ restored.screen = home
    <2>1. /\ IsClient(restored) /\ restored.screen = f.screen /\ restored.saved = f.saved
          /\ restored.geometry = f.geometry /\ restored.border = f.border
          /\ restored.flags = f.flags /\ restored.hints = f.hints /\ restored.strut = strut
          /\ restored.window = f.window
      BY <1>8 DEF Sound, IsClient, Fields
    <2> HIDE DEF restored
    <2>2. OnlyCommands => strut = NoStrut
      BY DEF OnlyCommands
    <2>3. Shaped(restored)
      BY <1>8, <2>1 DEF Sound, Shaped
    <2> QED BY <1>8, <2>1, <2>2, <2>3 DEF Sound, Bordered, Commanded, InStep
  <1> HIDE DEF restored
  <1>10. Sound(ignored) /\ InStep(ignored) /\ "MAXIMIZED" \notin ignored.flags /\ ignored.screen = home
    <2>1. /\ IsClient(ignored) /\ ignored.screen = restored.screen
          /\ ignored.saved = restored.saved /\ ignored.geometry = restored.geometry
          /\ ignored.border = 0 /\ ignored.flags = restored.flags \cup {"IGNORE"}
          /\ ignored.hints = restored.hints /\ ignored.strut = restored.strut
          /\ ignored.window = restored.window
      BY <1>9 DEF Sound, IsClient, Fields
    <2> HIDE DEF ignored
    <2>2. Shaped(ignored)
      BY <1>9, <2>1, Words DEF Sound, Shaped, Flag
    <2> QED BY <1>9, <2>1, <2>2 DEF Sound, Bordered, Commanded, InStep
  <1> HIDE DEF ignored
  <1>11. r = IF c \in Ignored THEN ignored ELSE restored
    BY <1>1 DEF Initialized, Restored, ignored, restored, f, h, v, adopted, hinted, fresh
  <1> QED BY <1>4, <1>9, <1>10, <1>11

\* Beside another window lies a rectangle, wherever rand() puts it.
LEMMA CascadedShapes ==
  ASSUME NEW existing \in Rectangles, NEW area \in Rectangles
  PROVE  Cascaded(existing, area) \subseteq Rectangles
  <1>1. ASSUME NEW at \in Int, NEW size \in Int, NEW from \in Int, NEW extent \in Int,
               NEW last \in Int
        PROVE  Somewhere(at, size, from, extent, last) \subseteq Int
    <2> DEFINE far == Middle(at, size) > End(from, extent) \div 2
               a   == IF far THEN from ELSE ToInt(End(from, extent \div 3))
               b   == ToInt(End(from, IF far THEN extent \div 3 ELSE last))
    <2>1. extent \div 3 \in Int
      OBVIOUS
    <2>2. a \in Int
      BY <2>1, Sums
    <2>3. Somewhere(at, size, from, extent, last) = {a + k : k \in 0 .. Distance(a, b) - 1}
      BY DEF Somewhere
    <2> HIDE DEF a, b
    <2> QED BY <2>2, <2>3
  <1>2. Fuzzy \in Int
    BY GeometryAssumption
  <1> DEFINE xs == Somewhere(existing.x, existing.width, area.x, area.width, area.height)
             ys == Somewhere(existing.y, existing.height, area.y, area.height, area.height)
             beside == [existing EXCEPT !.x = @ + Fuzzy, !.y = @ + Fuzzy]
  <1>3. xs \subseteq Int /\ ys \subseteq Int
    BY <1>1 DEF Rectangles
  <1>4. beside \in Rectangles
    <2>1. existing.x + Fuzzy \in Int /\ existing.y + Fuzzy \in Int
      BY <1>2 DEF Rectangles
    <2> QED BY <2>1 DEF Rectangles
  <1> DEFINE fits == /\ End(beside.x, beside.width) <= End(area.x, area.width)
                     /\ End(beside.y, beside.height) <= End(area.y, area.height)
             At(x, y) == [beside EXCEPT !.x = x, !.y = y]
  <1>5. Cascaded(existing, area) =
          IF fits THEN {beside} ELSE {At(x, y) : x \in xs, y \in ys}
    BY DEF Cascaded
  <1> HIDE DEF xs, ys, beside, fits
  <1>6. ASSUME NEW x \in xs, NEW y \in ys PROVE At(x, y) \in Rectangles
    <2>1. x \in Int /\ y \in Int
      BY <1>3
    <2> QED BY <1>4, <2>1 DEF Rectangles
  <1> HIDE DEF At
  <1>7. ASSUME NEW g \in Cascaded(existing, area) PROVE g \in Rectangles
    <2>1. CASE fits
      BY <1>4, <1>5, <1>7, <2>1
    <2>2. CASE ~fits
      <3>1. PICK x \in xs, y \in ys : g = At(x, y)
        BY <1>5, <1>7, <2>2
      <3> QED BY <1>6, <3>1
    <2> QED BY <2>1, <2>2
  <1> QED BY <1>7

\* Wherever a new client is placed it stays sound.
LEMMA PlacementSound ==
  ASSUME Inv, NEW c \in Client, NEW r, Sound(r), "MAXIMIZED" \notin r.flags,
         NEW p \in Points, NEW g \in client_placement(c, r, p)
  PROVE  LET t == client_move_resize([r EXCEPT !.geometry = g])
         IN  g \in Rectangles /\ Sound(t) /\ Told(r, t) /\ "MAXIMIZED" \notin t.flags
  <1>1. /\ r.geometry \in Rectangles /\ r.border \in Nat /\ 2 * r.border < Word
        /\ AreaOf(c, r) \in Rectangles
    BY SoundArea DEF Sound, Shaped
  <1>2. CASE c \in Positioned
    <2>1. g = r.geometry
      BY <1>2 DEF client_placement
    <2> QED BY <1>1, <2>1, PutSound
  <1>3. CASE c \notin Positioned /\ Pointer
    <2>1. g = Placed(UnderPointer(r.geometry, p.x, p.y, r.border), AreaOf(c, r))
      BY <1>3 DEF client_placement
    <2>2. p.x \in Int /\ p.y \in Int
      BY Given DEF Inv
    <2>3. UnderPointer(r.geometry, p.x, p.y, r.border) \in Rectangles
      BY <1>1, <2>2, Shapes
    <2>4. g \in Rectangles
      BY <1>1, <2>1, <2>3, Shapes
    <2> QED BY <2>4, PutSound
  <1>4. CASE c \notin Positioned /\ ~Pointer
    <2>1. PICK wish \in (UNION Cascades(c, r))
                           \cup {Centered(r.geometry, AreaOf(c, r), r.border)} :
            g = Placed(wish, AreaOf(c, r))
      BY <1>4 DEF client_placement
    <2>2. wish \in Rectangles
      <3>1. Centered(r.geometry, AreaOf(c, r), r.border) \in Rectangles
        BY <1>1, Shapes
      <3>2. ASSUME NEW d \in Managed
            PROVE  Cascaded(clients[d].geometry, AreaOf(c, r)) \subseteq Rectangles
        BY <1>1, CascadedShapes DEF Inv, Sound, Shaped
      <3>3. UNION Cascades(c, r) \subseteq Rectangles
        BY <3>2 DEF Cascades
      <3>4. wish \in UNION Cascades(c, r) \/ wish = Centered(r.geometry, AreaOf(c, r), r.border)
        BY <2>1, Zenon
      <3> QED BY <3>1, <3>3, <3>4, Zenon
    <2>3. g \in Rectangles
      BY <1>1, <2>1, <2>2, Shapes
    <2> QED BY <2>3, PutSound
  <1> QED BY <1>2, <1>3, <1>4

\* The area of a client goes by its screen and its strut.
LEMMA SameArea ==
  ASSUME NEW c, NEW r, NEW u, u.screen = r.screen, u.strut = r.strut
  PROVE  AreaOf(c, u) = AreaOf(c, r)
  BY DEF AreaOf

\* A new client is shown where client_placement has put it, and its border is drawn.
LEMMA ShownSound ==
  ASSUME Inv, NEW c \in Client, NEW r, Sound(r), "MAXIMIZED" \notin r.flags,
         NEW p \in Points, NEW g \in client_placement(c, r, p)
  PROVE  LET t == Shown(c, r, g)
         IN  /\ Sound(t) /\ (InStep(r) => InStep(t) /\ Drawn(t))
             /\ t.geometry = Adopted(g, AreaOf(c, Onto(r, Len(Screens))))
             /\ t.screen = Len(Screens) /\ t.saved = r.saved /\ t.border = r.border
             /\ t.flags = r.flags /\ t.hints = r.hints /\ t.strut = r.strut
  <1> DEFINE put     == client_move_resize([r EXCEPT !.geometry = g])
             last    == Len(Screens)
             adopted == screen_adopt(c, put, last)
             t       == Shown(c, r, g)
  <1>1. t = client_draw_border(adopted)
    BY DEF Shown
  <1>2. /\ Sound(put) /\ Told(r, put) /\ "MAXIMIZED" \notin put.flags
        /\ put.geometry = g /\ put.screen = r.screen /\ put.saved = r.saved
        /\ put.border = r.border /\ put.flags = r.flags /\ put.hints = r.hints
        /\ put.strut = r.strut
    BY PlacementSound, PutSound
  <1>3. last \in DOMAIN Screens
    BY Glass DEF Inv
  <1> HIDE DEF put, t, last
  <1>4. /\ Sound(adopted) /\ Told(put, adopted)
        /\ adopted.geometry = Adopted(g, AreaOf(c, Onto(put, last)))
        /\ adopted.screen = last /\ adopted.saved = r.saved /\ adopted.border = r.border
        /\ adopted.flags = r.flags /\ adopted.hints = r.hints /\ adopted.strut = r.strut
    BY <1>2, <1>3, AdoptSound
  <1>5. AreaOf(c, Onto(put, last)) = AreaOf(c, Onto(r, last))
    <2>1. /\ Onto(put, last).screen = last /\ Onto(r, last).screen = last
          /\ Onto(put, last).strut = put.strut /\ Onto(r, last).strut = r.strut
      BY <1>2 DEF Onto, Sound, IsClient, Fields
    <2> QED BY <1>2, <2>1, SameArea
  <1> HIDE DEF adopted
  <1>6. InStep(r) => InStep(adopted)
    BY <1>2, <1>4 DEF Told
  <1>7. Sound(t) /\ Alike(t, adopted) /\ (InStep(adopted) => InStep(t) /\ Drawn(t))
    BY <1>1, <1>4, Drawing
  <1>8. /\ t.geometry = Adopted(g, AreaOf(c, Onto(r, last))) /\ t.screen = last
        /\ t.saved = r.saved /\ t.border = r.border /\ t.flags = r.flags
        /\ t.hints = r.hints /\ t.strut = r.strut
    BY <1>4, <1>5, <1>7 DEF Alike
  <1> QED BY <1>6, <1>7, <1>8 DEF t, last

-----------------------------------------------------------------------------
(* The steps *)

\* The session is what it was, so what is sound stays so.
LEMMA SameSession ==
  ASSUME session' = session
  PROVE  /\ Client' = Client /\ (OnlyCommands' <=> OnlyCommands)
         /\ \A r : Sound(r)' <=> Sound(r)
         /\ \A d, r : Holding(d, r)' <=> Holding(d, r)
  <1>1. /\ Client' = Client /\ Screens' = Screens /\ Requests' = Requests
        /\ Struts' = Struts /\ Limit' = Limit
        /\ (OnlyCommands' <=> OnlyCommands)
    BY DEF Client, Screens, Requests, OnlyCommands, KeyBindings, MouseBindings, NetToggles,
           Struts, SizeHints, Limit
  <1>2. ASSUME NEW r PROVE Sound(r)' <=> Sound(r)
    BY <1>1 DEF Sound, Shaped, Bordered, Commanded, Free, Edge
  <1>3. ASSUME NEW d, NEW r PROVE Holding(d, r)' <=> Holding(d, r)
    BY <1>1 DEF Holding, Drags
  <1> QED BY <1>1, <1>2, <1>3

\* What is sound is a client.
LEMMA SoundClient ==
  ASSUME session \in Sessions, NEW r, Sound(r), InStep(r)
  PROVE  r \in Clients /\ r # NONE
  <1>1. /\ r.screen \in DOMAIN Screens /\ r.geometry \in Rectangles /\ r.saved \in Rectangles
        /\ r.border \in Nat /\ 2 * r.border < Word /\ r.flags \in SUBSET Flag
        /\ r.strut \in Struts /\ r.hints \in HintsT /\ r.window \in Windows /\ IsClient(r)
    BY DEF Sound, Shaped, Hinted, InStep
  <1>2. r.screen \in Nat /\ r.border \in Unsigned /\ r.strut \in StrutT
    BY <1>1, Glass, Given, Words DEF Unsigned
  <1>3. r \in Clients
    BY <1>1, <1>2, Zenon DEF Clients, IsClient, Fields
  <1> QED BY <1>3, PlacementAssumption

\* One client changes, and the server knows of it.
LEMMA BecomeInv ==
  ASSUME Inv, session' = session, NEW c \in Client, NEW r, Sound(r), InStep(r), Become(c, r),
         wm' = "IDLE" => wm = "IDLE" /\ c \in FirstWindows,
         wm' = "RUNNING" => wm = "RUNNING" /\ (c \in FirstWindows \/ Drawn(r)),
         drag' # NONE => /\ drag'.client = c /\ Holding(drag', r)
                         /\ ~OnlyCommands /\ wm' # "IDLE"
  PROVE  Inv'
  <1>1. /\ Client' = Client /\ (OnlyCommands' <=> OnlyCommands) /\ FirstWindows' = FirstWindows
        /\ r # NONE
    BY SameSession, SoundClient DEF FirstWindows, Inv
  <1>2. /\ DOMAIN clients' = Client /\ clients'[c] = r
        /\ \A d \in Client \ {c} : clients'[d] = clients[d]
    BY DEF Become, Inv
  <1>3. Managed' = Managed \cup {c}
    BY <1>1, <1>2 DEF Managed
  <1>4. ASSUME NEW d \in Managed'
        PROVE  Sound(clients[d])' /\ InStep(clients[d])'
    <2>1. CASE d = c
      BY <1>2, <2>1, SameSession DEF InStep
    <2>2. CASE d # c
      <3>1. d \in Managed /\ clients'[d] = clients[d]
        BY <1>2, <1>3, <2>2 DEF Managed
      <3> QED BY <3>1, SameSession DEF Inv, InStep
    <2> QED BY <2>1, <2>2
  <1>5. ASSUME drag' # NONE
        PROVE  /\ Holding(drag, clients[drag.client])'
               /\ (drag.client \in Managed)' /\ ~OnlyCommands' /\ wm' # "IDLE"
    <2>1. clients'[drag'.client] = r /\ drag'.client \in Managed'
      BY <1>2, <1>3, <1>5
    <2> QED BY <1>1, <1>5, <2>1, SameSession
  <1>6. (wm = "IDLE" => Managed \subseteq FirstWindows)'
    BY <1>1, <1>3 DEF Inv
  <1>7. (wm = "RUNNING" => \A d \in Managed \ FirstWindows : Drawn(clients[d]))'
    BY <1>1, <1>2, <1>3 DEF Inv, Drawn, Managed
  <1> QED BY <1>1, <1>2, <1>4, <1>5, <1>6, <1>7 DEF Inv

\* One that is a client already becomes another one, and the server is told.
LEMMA ToldInv ==
  ASSUME Inv, session' = session, NEW c \in Managed, NEW t, Sound(t), Told(clients[c], t),
         Become(c, t), wm' = wm,
         drag' # NONE => /\ drag'.client = c /\ Holding(drag', t)
                         /\ ~OnlyCommands /\ wm' # "IDLE"
  PROVE  Inv'
  <1>1. c \in Client /\ InStep(t)
    BY DEF Inv, Managed, Told
  <1>2. wm = "IDLE" => c \in FirstWindows
    BY DEF Inv
  <1>3. wm = "RUNNING" => c \in FirstWindows \/ Drawn(t)
    BY DEF Inv, Told
  <1> QED BY <1>1, <1>2, <1>3, BecomeInv

\* No client changes, and the program does not leave the start without all that were there.
LEMMA StillInv ==
  ASSUME Inv, UNCHANGED <<session, clients>>,
         wm' = wm \/ (wm = "IDLE" /\ wm' = "RUNNING"), drag' \in {drag, NONE},
         drag' # NONE => wm' # "IDLE"
  PROVE  Inv'
  <1>1. /\ Client' = Client /\ (OnlyCommands' <=> OnlyCommands) /\ Managed' = Managed
        /\ FirstWindows' = FirstWindows
    BY SameSession DEF Managed, FirstWindows
  <1>2. \A c \in Managed : Sound(clients[c])' /\ InStep(clients[c])'
    BY SameSession DEF Inv, InStep
  <1>3. drag' # NONE => (drag.client \in Managed)' /\ Holding(drag, clients[drag.client])'
    BY <1>1, SameSession DEF Inv
  <1>4. (wm = "RUNNING" => \A c \in Managed \ FirstWindows : Drawn(clients[c]))'
    BY <1>1 DEF Inv, Drawn
  <1> QED BY <1>1, <1>2, <1>3, <1>4 DEF Inv

\* At the start there is no client.
LEMMA InitInv == Init => Inv
  BY DEF Init, Inv, Managed

\* Windows that are there at the start.
LEMMA UpdateInv == ASSUME Inv, NEW c \in Client, state_update_clients(c) PROVE Inv'
  <1>1. PICK window \in Attributes : \E r \in Inits(c, window) :
          Become(c, r) \/ Become(c, client_draw_border(r))
    BY DEF state_update_clients
  <1>2. PICK r \in Inits(c, window) : Become(c, r) \/ Become(c, client_draw_border(r))
    BY <1>1
  <1>3. /\ wm = "IDLE" /\ wm' = "IDLE" /\ session' = session /\ drag' = drag
        /\ c \in FirstWindows
    BY DEF state_update_clients
  <1>4. drag' = NONE
    BY <1>3 DEF Inv
  <1>5. Sound(r) /\ InStep(r)
    BY InitsSound, Given DEF Inv
  <1>6. Sound(client_draw_border(r)) /\ InStep(client_draw_border(r))
    BY <1>5, Drawing
  <1>7. CASE Become(c, r)
    BY <1>3, <1>4, <1>5, <1>7, BecomeInv
  <1>8. CASE Become(c, client_draw_border(r))
    BY <1>3, <1>4, <1>6, <1>8, BecomeInv
  <1> QED BY <1>2, <1>7, <1>8

\* A window that is mapped.
LEMMA MapInv ==
  ASSUME Inv, NEW c \in Client, NEW window \in Attributes, event_handle_map_request(c, window)
  PROVE  Inv'
  <1>1. session' = session /\ drag' = NONE /\ wm = "RUNNING"
    BY DEF event_handle_map_request
  <1>2. CASE c \in Managed /\ Become(c, client_draw_border(clients[c])) /\ wm' = wm
    <2> DEFINE t == client_draw_border(clients[c])
    <2>1. Sound(clients[c]) /\ InStep(clients[c])
      BY <1>2 DEF Inv
    <2>2. Sound(t) /\ InStep(t) /\ Drawn(t)
      BY <2>1, Drawing
    <2> HIDE DEF t
    <2>3. Become(c, t)
      BY <1>2 DEF t
    <2> QED BY <1>1, <1>2, <2>2, <2>3, BecomeInv
  <1>3. ASSUME NEW r \in Inits(c, window), NEW p \in Points,
               NEW g \in client_placement(c, r, p), Become(c, Shown(c, r, g)), wm' = wm
        PROVE  Inv'
    <2>1. Sound(r) /\ InStep(r) /\ "MAXIMIZED" \notin r.flags
      BY InitsSound, Given DEF Inv
    <2>2. Sound(Shown(c, r, g)) /\ InStep(Shown(c, r, g)) /\ Drawn(Shown(c, r, g))
      BY <2>1, ShownSound
    <2> QED BY <1>1, <1>3, <2>2, BecomeInv
  <1>4. ASSUME NEW r \in Inits(c, window), Become(c, r), wm' = "CRASHED"
        PROVE  Inv'
    <2>1. Sound(r) /\ InStep(r)
      BY InitsSound, Given DEF Inv
    <2> QED BY <1>1, <1>4, <2>1, BecomeInv
  <1> QED BY <1>2, <1>3, <1>4 DEF event_handle_map_request

\* A window that is gone.
LEMMA DestroyInv == ASSUME Inv, NEW c \in Client, event_handle_destroy_notify(c) PROVE Inv'
  <1>1. /\ clients' = [clients EXCEPT ![c] = NONE] /\ session' = session /\ drag' = NONE
        /\ wm' = wm
    BY DEF event_handle_destroy_notify, Become
  <1>2. Client' = Client /\ FirstWindows' = FirstWindows
    BY <1>1, SameSession DEF FirstWindows
  <1>3. \A d \in Managed' : d \in Managed /\ d # c /\ clients'[d] = clients[d]
    BY <1>1, <1>2 DEF Managed, Inv
  <1>4. \A d \in Managed' : Sound(clients[d])' /\ InStep(clients[d])'
    BY <1>1, <1>3, SameSession DEF Inv, InStep
  <1>5. (wm = "RUNNING" => \A d \in Managed \ FirstWindows : Drawn(clients[d]))'
    BY <1>1, <1>2, <1>3 DEF Inv, Drawn
  <1> QED BY <1>1, <1>2, <1>3, <1>4, <1>5 DEF Inv

\* What the owner of a window asks for: the client and the window get the same fields of it.
LEMMA ConfigureInv == ASSUME Inv, NEW c \in Client, event_handle_configure_request(c) PROVE Inv'
  <1> DEFINE r == clients[c]
  <1>1. PICK q \in Requests : Become(c, XConfigureWindow(Configured(r, q), q))
    BY DEF event_handle_configure_request
  <1>2. /\ session' = session /\ drag' = NONE /\ wm' = wm /\ c \in Managed
        /\ Sound(r) /\ InStep(r)
    BY DEF event_handle_configure_request, Inv
  <1> HIDE DEF r
  <1>3. /\ q \in ConfigureRequests /\ q.geometry \in Rectangles
        /\ q.border \in Nat /\ 2 * q.border < Word
    BY Given DEF Inv
  <1> DEFINE Asked(g) == [f \in DOMAIN g |-> IF f \in q.mask THEN q.geometry[f] ELSE g[f]]
             edge  == IF "border_width" \in q.mask THEN q.border ELSE r.border
             other == IF "border_width" \in q.mask THEN q.border ELSE r.window.border
             t     == XConfigureWindow(Configured(r, q), q)
  <1>4. /\ IsClient(t) /\ t.geometry = Asked(r.geometry) /\ t.border = edge
        /\ t.flags = r.flags /\ t.screen = r.screen /\ t.saved = r.saved
        /\ t.hints = r.hints /\ t.strut = r.strut
        /\ t.window = [r.window EXCEPT !.geometry = Asked(r.window.geometry), !.border = other]
    BY <1>2 DEF XConfigureWindow, Configured, Sound, IsClient, Fields
  <1>5. ASSUME NEW g \in Rectangles PROVE Asked(g) \in Rectangles
    BY <1>3 DEF Rectangles
  <1>6. r.geometry \in Rectangles /\ r.window \in Windows /\ r.window.geometry = r.geometry
    BY <1>2 DEF Sound, Shaped, InStep
  <1>7. edge \in Nat /\ 2 * edge < Word
    BY <1>2, <1>3 DEF Sound, Shaped
  <1>8. other \in Unsigned
    BY <1>3, <1>6, Words DEF Windows, Unsigned
  <1> DEFINE asked == Asked(r.geometry)
  <1>9. asked \in Rectangles
    BY <1>5, <1>6
  <1>10. /\ t.geometry = asked
         /\ t.window = [r.window EXCEPT !.geometry = asked, !.border = other]
    BY <1>4, <1>6
  <1>11. Drawn(r) => other = edge
    BY DEF Drawn
  <1> HIDE DEF t, Asked, edge, other, asked
  <1>12. Shaped(t)
    BY <1>2, <1>4, <1>7, <1>9, <1>10 DEF Sound, Shaped
  <1>13. Sound(t)
    BY <1>2, <1>4, <1>12 DEF Sound, OnlyCommands
  <1>14. Told(r, t)
    BY <1>4, <1>6, <1>8, <1>9, <1>10, <1>11 DEF Told, InStep, Drawn, Windows
  <1> QED BY <1>1, <1>2, <1>13, <1>14, ToldInv DEF r, t

\* New hints and struts.
LEMMA PropertyInv == ASSUME Inv, NEW c \in Client, event_handle_property_notify(c) PROVE Inv'
  <1>1. /\ session' = session /\ drag' = NONE /\ wm' = wm /\ c \in Managed
        /\ Sound(clients[c])
    BY DEF event_handle_property_notify, Inv
  <1>2. ASSUME NEW given \in SizeHints, Become(c, client_update_size_hints(clients[c], given))
        PROVE  Inv'
    <2> DEFINE t == client_update_size_hints(clients[c], given)
    <2>1. Sound(t) /\ Told(clients[c], t)
      BY <1>1, HintsSound
    <2> QED BY <1>1, <1>2, <2>1, ToldInv
  <1>3. ASSUME NEW strut \in Struts, Become(c, [clients[c] EXCEPT !.strut = strut])
        PROVE  Inv'
    <2> DEFINE t == [clients[c] EXCEPT !.strut = strut]
    <2>1. /\ IsClient(t) /\ t.screen = clients[c].screen /\ t.saved = clients[c].saved
          /\ t.geometry = clients[c].geometry /\ t.border = clients[c].border
          /\ t.flags = clients[c].flags /\ t.hints = clients[c].hints /\ t.strut = strut
          /\ t.window = clients[c].window
      BY <1>1 DEF Sound, IsClient, Fields
    <2>2. Become(c, t)
      BY <1>3
    <2> HIDE DEF t
    <2>3. OnlyCommands => strut = NoStrut
      BY DEF OnlyCommands
    <2>4. Shaped(t)
      BY <1>1, <2>1 DEF Sound, Shaped
    <2>5. Sound(t)
      BY <1>1, <2>1, <2>3, <2>4 DEF Sound, Bordered, Commanded, Free, Edge
    <2>6. Told(clients[c], t)
      BY <2>1 DEF Told, InStep, Drawn
    <2> QED BY <1>1, <2>2, <2>5, <2>6, ToldInv
  <1> QED BY <1>2, <1>3 DEF event_handle_property_notify

\* Messages to the program.
LEMMA MessageInv == ASSUME Inv, NEW c \in Client, event_handle_client_message(c) PROVE Inv'
  <1>1. /\ session' = session /\ drag' = NONE /\ wm' = wm /\ c \in Managed
        /\ Sound(clients[c])
    BY DEF event_handle_client_message, Inv
  <1>2. ASSUME NEW t, Sound(t), Told(clients[c], t), Become(c, t) PROVE Inv'
    BY <1>1, <1>2, ToldInv
  <1>3. CASE "VMAXIMIZED" \in NetToggles /\ Become(c, client_toggle_vmaximize(c, clients[c]))
    <2>1. ~OnlyCommands
      BY <1>3 DEF OnlyCommands
    <2> QED BY <1>1, <1>2, <1>3, <2>1, ToggleSound
  <1>4. CASE "HMAXIMIZED" \in NetToggles /\ Become(c, client_toggle_hmaximize(c, clients[c]))
    <2>1. ~OnlyCommands
      BY <1>4 DEF OnlyCommands
    <2> QED BY <1>1, <1>2, <1>4, <2>1, ToggleSound
  <1>5. CASE "FULLSCREEN" \in NetToggles /\ Become(c, client_toggle_fullscreen(c, clients[c]))
    BY <1>1, <1>2, <1>5, FullscreenSound DEF Inv
  <1> QED BY <1>3, <1>4, <1>5 DEF event_handle_client_message

\* A drag begins.
LEMMA GrabInv ==
  ASSUME Inv, ~OnlyCommands, NEW c \in Managed, Sound(clients[c]),
         NEW kind \in {"move", "resize"}, NEW p \in Points,
         kind = "resize" => /\ clients[c].geometry.width <= Limit
                            /\ clients[c].geometry.height <= Limit,
         Grab(c, kind, p), session' = session, wm' = wm, wm' # "IDLE"
  PROVE  Inv'
  <1> DEFINE t == [clients[c] EXCEPT !.saved = clients[c].geometry]
  <1>1. /\ IsClient(t) /\ t.screen = clients[c].screen /\ t.geometry = clients[c].geometry
        /\ t.saved = clients[c].geometry
        /\ t.border = clients[c].border /\ t.flags = clients[c].flags
        /\ t.hints = clients[c].hints /\ t.strut = clients[c].strut
        /\ t.window = clients[c].window
    BY DEF Sound, IsClient, Fields
  <1>2. Become(c, t) /\ c \in Client
    BY DEF Grab, Inv, Become, Managed
  <1> HIDE DEF t
  <1>3. clients[c].geometry \in Rectangles /\ clients[c].flags \subseteq Flag
    BY DEF Sound, Shaped
  <1>4. Sound(t)
    BY <1>1, <1>3, MoveSound
  <1>5. Told(clients[c], t)
    BY <1>1 DEF Told, InStep, Drawn
  <1>6. drag' = [client |-> c, kind |-> kind, x |-> p.x, y |-> p.y,
                 top |-> AreaOf(c, clients[c]).y, asked |-> << >>,
                 width |-> clients[c].geometry.width, height |-> clients[c].geometry.height]
    BY DEF Grab
  <1>7. Holding(drag', t)
    <2>1. AreaOf(c, clients[c]).y \in Int
      BY <1>2, SoundArea DEF Rectangles
    <2>2. clients[c].geometry.width \in Nat /\ clients[c].geometry.height \in Nat
      BY <1>3 DEF Rectangles
    <2>3. p.x \in 0 .. Half - 1 /\ p.y \in 0 .. Half - 1
      BY Given DEF Inv
    <2>4. drag' \in Drags(Client)
      BY <1>2, <1>6, <2>1, <2>2, <2>3 DEF Drags
    <2>5. /\ drag'.kind = kind /\ drag'.asked = << >>
          /\ drag'.width = clients[c].geometry.width /\ drag'.height = clients[c].geometry.height
      BY <1>6
    <2> QED BY <2>4, <2>5 DEF Holding
  <1>8. drag'.client = c
    BY <1>6
  <1> QED BY <1>2, <1>4, <1>5, <1>7, <1>8, ToldInv

\* Every command keeps what it acts on sound.
LEMMA RunInv ==
  ASSUME Inv, drag = NONE, NEW c \in Managed, NEW command, NEW where \in SUBSET Points,
         Run(command, c, where),
         OnlyCommands =>
           command \notin {"window-move", "window-resize", "window-move-to-screen"},
         session' = session, wm' = wm, wm' # "IDLE"
  PROVE  Inv'
  <1> DEFINE r == clients[c]
  <1>1. c \in Client /\ Sound(r)
    BY DEF Inv, Managed
  <1> HIDE DEF r
  <1>2. ASSUME NEW t, Sound(t), Told(r, t), Become(c, t), drag' = drag PROVE Inv'
    BY <1>1, <1>2, ToldInv DEF r
  <1>3. CASE command = "window-move" /\ \E p \in where : Grab(c, "move", p)
    BY <1>1, <1>3, GrabInv DEF r
  <1>4. CASE /\ command = "window-resize" /\ r.geometry.width <= Limit /\ r.geometry.height <= Limit
             /\ \E p \in where : Grab(c, "resize", p)
    BY <1>1, <1>4, GrabInv DEF r
  <1>5. CASE Become(c, function_window_center(c, r)) /\ drag' = drag
    BY <1>1, <1>2, <1>5, CommandSound
  <1>6. CASE Become(c, client_toggle_fullscreen(c, r)) /\ drag' = drag
    BY <1>1, <1>2, <1>6, FullscreenSound DEF Inv
  <1>7. CASE Become(c, client_toggle_maximize(c, r)) /\ drag' = drag
    BY <1>1, <1>2, <1>7, MaximizeSound
  <1>8. CASE Become(c, client_restore(c, r)) /\ drag' = drag
    BY <1>1, <1>2, <1>8, CommandSound
  <1>9. ASSUME NEW h \in Parts, NEW v \in Parts,
               Become(c, function_window_tile(c, r, h, v)), drag' = drag
        PROVE  Inv'
    BY <1>1, <1>2, <1>9, CommandSound
  <1>10. ASSUME command = "window-move-to-screen", NEW d,
                Become(c, function_window_move_to_screen(c, r, d)), drag' = drag
         PROVE  Inv'
    <2>1. /\ Sound(function_window_move_to_screen(c, r, d))
          /\ Told(r, function_window_move_to_screen(c, r, d))
      BY <1>1, <1>10, SendSound
    <2> QED BY <1>2, <1>10, <2>1
  <1> QED BY <1>3, <1>4, <1>5, <1>6, <1>7, <1>8, <1>9, <1>10 DEF Run, r

\* The pointer moves during a drag.
LEMMA MotionInv == ASSUME Inv, NEW p \in Points, Motion(p) PROVE Inv'
  <1> DEFINE c == drag.client
             r == Reset(clients[c])
             y == r.geometry.y + p.y - drag.y
             size == [r.geometry EXCEPT
                        !.width = Plus(drag.width, ToUnsigned(p.x - drag.x)),
                        !.height = Plus(drag.height, ToUnsigned(p.y - drag.y))]
             moved == [r.geometry EXCEPT !.x = @ + p.x - drag.x, !.y = Larger(y, drag.top)]
  <1>1. /\ drag \in Drags(Client) /\ c \in Managed /\ Sound(clients[c]) /\ ~OnlyCommands
        /\ session' = session /\ wm' = wm /\ wm' # "IDLE"
        /\ drag.kind = "resize" => drag.width <= Limit /\ drag.height <= Limit
    BY DEF Motion, Inv, Holding, Drags
  <1>2. /\ drag.x \in 0 .. Half - 1 /\ drag.y \in 0 .. Half - 1 /\ drag.top \in Int
        /\ drag.width \in Nat /\ drag.height \in Nat
    BY <1>1 DEF Drags
  <1>3. p.x \in 0 .. Half - 1 /\ p.y \in 0 .. Half - 1
    BY Given DEF Inv
  <1>4. /\ IsClient(r) /\ r.screen = clients[c].screen /\ r.border = clients[c].border
        /\ r.flags = clients[c].flags \ {"MAXIMIZED"} /\ r.geometry = clients[c].geometry
        /\ r.saved = clients[c].saved
        /\ r.hints = clients[c].hints /\ r.strut = clients[c].strut
        /\ r.window = clients[c].window
    BY <1>1 DEF Reset, Sound, IsClient, Fields
  <1>5. Sound(r)
    <2>1. r.flags \cap Standing = clients[c].flags \cap Standing
      BY <1>4 DEF Standing
    <2>2. r.geometry \in Rectangles /\ r.saved \in Rectangles /\ r.flags \subseteq Flag
      BY <1>1, <1>4 DEF Sound, Shaped
    <2> HIDE DEF r
    <2> QED BY <1>1, <1>4, <2>1, <2>2, MoveSound
  <1>6. r.geometry \in Rectangles
    BY <1>5 DEF Sound, Shaped
  <1>7. \/ /\ drag.kind = "move" /\ Become(c, client_move_resize([r EXCEPT !.geometry = moved]))
           /\ drag' = [drag EXCEPT !.x = p.x, !.y = p.y]
        \/ /\ drag.kind = "resize"
           /\ Become(c, client_move_resize(
                           [r EXCEPT !.geometry = client_apply_size_hints(size, r.hints)]))
           /\ drag' = [drag EXCEPT !.asked = <<size.width, size.height>>]
    BY DEF Motion
  <1>10. ASSUME NEW t, Told(r, t) PROVE Told(clients[c], t)
    BY <1>4, <1>10 DEF Told, InStep, Drawn
  <1> HIDE DEF c, r
  <1>8. CASE /\ drag.kind = "move" /\ Become(c, client_move_resize([r EXCEPT !.geometry = moved]))
             /\ drag' = [drag EXCEPT !.x = p.x, !.y = p.y]
    <2>1. moved \in Rectangles
      <3> DEFINE nx == r.geometry.x + p.x - drag.x
                 ny == Larger(y, drag.top)
      <3>1. nx \in Int /\ y \in Int
        BY <1>2, <1>3, <1>6 DEF Rectangles
      <3> HIDE DEF y
      <3>2. ny \in Int
        BY <1>2, <3>1 DEF Larger
      <3>3. moved = [r.geometry EXCEPT !.x = nx, !.y = ny]
        BY <1>6 DEF Rectangles
      <3> HIDE DEF nx, ny
      <3> QED BY <1>6, <3>1, <3>2, <3>3 DEF Rectangles
    <2> HIDE DEF moved
    <2> DEFINE t == client_move_resize([r EXCEPT !.geometry = moved])
    <2>2. Sound(t) /\ Told(r, t)
      BY <1>1, <1>5, <2>1, PutSound
    <2>3. drag' \in Drags(Client) /\ drag'.kind = "move" /\ drag'.client = c
      BY <1>1, <1>3, <1>8 DEF Drags, c
    <2>4. Holding(drag', t) /\ Become(c, t)
      BY <1>8, <2>3 DEF Holding
    <2> HIDE DEF t
    <2> QED BY <1>1, <1>10, <2>2, <2>3, <2>4, ToldInv
  <1>9. CASE /\ drag.kind = "resize"
             /\ Become(c, client_move_resize(
                           [r EXCEPT !.geometry = client_apply_size_hints(size, r.hints)]))
             /\ drag' = [drag EXCEPT !.asked = <<size.width, size.height>>]
    <2>1. ASSUME NEW d \in 0 .. Half - 1, NEW q \in 0 .. Half - 1, NEW n \in Nat, n < Word
          PROVE  Plus(n, ToUnsigned(q - d)) \in Unsigned
      BY <2>1, Words DEF Plus, ToUnsigned, Unsigned
    <2>2. drag.width < Word /\ drag.height < Word
      <3>1. Limit \in Nat /\ Limit < Word
        BY Given DEF Inv
      <3> QED BY <1>1, <1>2, <1>9, <3>1, Words
    <2> DEFINE width  == Plus(drag.width, ToUnsigned(p.x - drag.x))
               height == Plus(drag.height, ToUnsigned(p.y - drag.y))
    <2>3. width \in Unsigned /\ height \in Unsigned
      BY <1>2, <1>3, <2>1, <2>2
    <2> HIDE DEF width, height
    <2>4. size \in Rectangles /\ size.width = width /\ size.height = height
      <3>1. width \in Nat /\ height \in Nat
        BY <2>3, Words DEF Unsigned
      <3>2. size = [r.geometry EXCEPT !.width = width, !.height = height]
        BY DEF width, height
      <3> HIDE DEF size
      <3> QED BY <1>6, <3>1, <3>2 DEF Rectangles
    <2> HIDE DEF size
    <2> DEFINE g == client_apply_size_hints(size, r.hints)
               t == client_move_resize([r EXCEPT !.geometry = g])
    <2>5. g \in Rectangles
      BY <1>5, <2>4, HintShapes DEF Sound, Shaped
    <2>6. Become(c, t)
      BY <1>9
    <2>7. Sound(t) /\ Told(r, t) /\ t.geometry = g /\ t.hints = r.hints
      <3> HIDE DEF g
      <3> QED BY <1>1, <1>5, <2>5, PutSound
    <2>8. /\ drag' \in Drags(Client) /\ drag'.kind = "resize" /\ drag'.client = c
          /\ drag'.asked = <<width, height>>
          /\ drag'.width = drag.width /\ drag'.height = drag.height
      BY <1>1, <1>9, <2>3, <2>4 DEF Drags, c
    <2> HIDE DEF t
    <2>9. Holding(drag', t)
      BY <1>1, <1>9, <2>4, <2>7, <2>8 DEF Holding
    <2> QED BY <1>1, <1>10, <2>6, <2>7, <2>8, <2>9, ToldInv
  <1> QED BY <1>7, <1>8, <1>9

\* A drag ends.
LEMMA ReleaseInv == ASSUME Inv, Release PROVE Inv'
  <1> DEFINE c == drag.client
             i == screen_for_client(clients[c].geometry)
  <1>1. /\ c \in Client /\ c \in Managed /\ Sound(clients[c]) /\ ~OnlyCommands
        /\ session' = session /\ drag' = NONE /\ wm' = wm /\ wm # "IDLE"
    BY DEF Release, Inv, Holding, Drags
  <1>2. \/ Become(c, screen_adopt(c, clients[c], i))
        \/ UNCHANGED clients
    BY DEF Release
  <1>3. i \in DOMAIN Screens
    BY <1>1, SomeScreen DEF Sound, Shaped, Inv
  <1> HIDE DEF c, i
  <1>4. CASE Become(c, screen_adopt(c, clients[c], i))
    <2>1. Sound(screen_adopt(c, clients[c], i)) /\ Told(clients[c], screen_adopt(c, clients[c], i))
      BY <1>1, <1>3, AdoptSound
    <2> QED BY <1>1, <1>4, <2>1, ToldInv
  <1>5. CASE UNCHANGED clients
    BY <1>1, <1>5, StillInv
  <1> QED BY <1>2, <1>4, <1>5

\* Every step keeps the invariant.
LEMMA NextInv == ASSUME Inv, [Next]_vars PROVE Inv'
  <1>1. CASE main_enter_loop
    BY <1>1, StillInv DEF main_enter_loop, Inv
  <1>2. ASSUME NEW c \in Client, NEW command \in KeyBindings, event_handle_key_press(c, command)
        PROVE  Inv'
    <2>1. OnlyCommands =>
            command \notin {"window-move", "window-resize", "window-move-to-screen"}
      BY DEF OnlyCommands
    <2> QED BY <1>2, <2>1, RunInv DEF event_handle_key_press
  <1>3. ASSUME NEW p \in Points, event_handle_button_press(p) PROVE Inv'
    <2>1. CASE UNCHANGED <<clients, drag>>
      BY <1>3, <2>1, StillInv DEF event_handle_button_press, Inv
    <2>2. ASSUME NEW c \in Managed, NEW command \in MouseBindings, Run(command, c, {p})
          PROVE  Inv'
      <3>1. ~OnlyCommands
        BY <2>2 DEF OnlyCommands
      <3> QED BY <1>3, <2>2, <3>1, RunInv DEF event_handle_button_press
    <2> QED BY <1>3, <2>1, <2>2 DEF event_handle_button_press
  <1>4. CASE UNCHANGED vars
    BY <1>4, StillInv DEF vars, Inv
  <1> QED BY <1>1, <1>2, <1>3, <1>4, UpdateInv, MapInv, DestroyInv, ConfigureInv, PropertyInv,
             MessageInv, MotionInv, ReleaseInv DEF Next

\* So it always holds.
LEMMA SpecInv == Spec => []Inv
  BY InitInv, NextInv, PTL DEF Spec

-----------------------------------------------------------------------------
(* The theorems *)

\* What the theorem on types needs beside Inv.
Typed ==
  /\ clients = [c \in Client |-> clients[c]]
  /\ tapped \in DOMAIN Screens \cup {0}
  /\ wm \in {"IDLE", "RUNNING", "CRASHED"}

\* The rest of the types: at the beginning
LEMMA TypedInit == Init => Typed
  BY Zenon DEF Init, Typed

\* and after every step.
LEMMA TypedNext == ASSUME Inv, Typed, [Next]_vars PROVE Typed'
  <1>1. session' = session /\ Client' = Client /\ Screens' = Screens
    <2>1. session' = session
      BY DEF Next, vars, main_enter_loop, state_update_clients, event_handle_map_request,
             event_handle_destroy_notify, event_handle_configure_request,
             event_handle_property_notify, event_handle_client_message, event_handle_key_press,
             event_handle_button_press, Motion, Release
    <2> QED BY <2>1 DEF Client, Screens
  <1> DEFINE Functions == clients' = [c \in Client |-> clients'[c]]
  <1>2. ASSUME NEW c, NEW r, Become(c, r) PROVE Functions
    BY <1>2 DEF Become, Typed
  <1>3. ASSUME UNCHANGED clients PROVE Functions
    BY <1>3 DEF Typed
  <1>4. ASSUME NEW c, NEW command, NEW where, Run(command, c, where) PROVE Functions
    <2>1. ASSUME NEW kind, NEW p, Grab(c, kind, p) PROVE Functions
      BY <2>1 DEF Grab, Typed
    <2> HIDE DEF Functions
    <2> QED BY <1>2, <1>4, <2>1 DEF Run
  <1>5. ASSUME NEW c, event_handle_destroy_notify(c) PROVE Functions
    BY <1>2, <1>5 DEF event_handle_destroy_notify
  <1>6. ASSUME NEW c, event_handle_configure_request(c) PROVE Functions
    BY <1>2, <1>6 DEF event_handle_configure_request
  <1>7. ASSUME NEW c, event_handle_property_notify(c) PROVE Functions
    BY <1>2, <1>7 DEF event_handle_property_notify
  <1> HIDE DEF Functions
  <1>8. Functions
    <2>1. CASE main_enter_loop
      BY <1>3, <2>1 DEF main_enter_loop
    <2>2. ASSUME NEW c, state_update_clients(c) PROVE Functions
      BY <1>2, <2>2 DEF state_update_clients
    <2>3. ASSUME NEW c, NEW window, event_handle_map_request(c, window) PROVE Functions
      BY <1>2, <2>3 DEF event_handle_map_request
    <2>4. ASSUME NEW c, event_handle_client_message(c) PROVE Functions
      BY <1>2, <2>4 DEF event_handle_client_message
    <2>5. ASSUME NEW c, NEW command, event_handle_key_press(c, command) PROVE Functions
      BY <1>4, <2>5 DEF event_handle_key_press
    <2>6. ASSUME NEW p, event_handle_button_press(p) PROVE Functions
      BY <1>3, <1>4, <2>6 DEF event_handle_button_press
    <2>7. ASSUME NEW p, Motion(p) PROVE Functions
      BY <1>2, <2>7 DEF Motion
    <2>8. CASE Release
      BY <1>2, <1>3, <2>8 DEF Release
    <2>9. CASE UNCHANGED vars
      BY <1>3, <2>9 DEF vars
    <2> QED BY <1>5, <1>6, <1>7, <2>1, <2>2, <2>3, <2>4, <2>5, <2>6, <2>7, <2>8, <2>9 DEF Next
  <1>9. tapped' \in DOMAIN Screens \cup {0}
    <2>1. ASSUME NEW p \in Points, event_handle_button_press(p) PROVE tapped' \in DOMAIN Screens
      <3>1. PICK k \in DOMAIN Screens : Shows(Screens[k], p)
        BY PlacementAssumption DEF Points, Screens, Inv
      <3>2. x_contains_point(Screens[k], p.x, p.y)
        BY <3>1, ShownContained, Glass, Given DEF Inv
      <3> QED BY <2>1, <3>2, FirstFound DEF event_handle_button_press, screen_for_point, Inv
    <2> QED BY <2>1 DEF Typed, Next, vars, main_enter_loop, state_update_clients,
               event_handle_map_request, event_handle_destroy_notify,
               event_handle_configure_request, event_handle_property_notify,
               event_handle_client_message, event_handle_key_press, Motion, Release
  <1>10. wm' \in {"IDLE", "RUNNING", "CRASHED"}
    BY DEF Typed, Next, vars, main_enter_loop, state_update_clients,
           event_handle_map_request, event_handle_destroy_notify,
           event_handle_configure_request, event_handle_property_notify,
           event_handle_client_message, event_handle_key_press,
           event_handle_button_press, Motion, Release
  <1> QED BY <1>1, <1>8, <1>9, <1>10 DEF Typed, Functions

\* TypeOK: clients, geometries and the drag keep their shape, and a screen that a client
\* belongs to or a tap activates exists.
THEOREM TypesAlwaysOK == Spec => []TypeOK
  <1>1. ASSUME Inv, Typed PROVE TypeOK
    <2>2. \A c \in Managed : clients[c] \in Clients /\ clients[c].screen \in DOMAIN Screens
      BY <1>1, SoundClient DEF Inv, Sound, Shaped
    <2>3. drag # NONE => drag \in Drags(Client) /\ clients[drag.client] # NONE
      BY <1>1 DEF Inv, Holding, Managed
    <2>4. clients \in [Client -> Clients \cup {NONE}]
      BY <1>1, <2>2 DEF Typed, Inv, Managed
    <2> QED BY <1>1, <2>2, <2>3, <2>4 DEF TypeOK, Typed, Inv, Managed
  <1>2. Spec => []Typed
    BY SpecInv, TypedInit, TypedNext, PTL DEF Spec
  <1> QED BY SpecInv, <1>1, <1>2, PTL

\* ServerInStep: after every step of every session client->geometry is where the server
\* has the window, whichever handler or command moved it and whichever fields its owner
\* asked for, and its border is the one the program drew last.
THEOREM ServerAlwaysInStep == Spec => []ServerInStep
  <1>1. Inv => ServerInStep
    BY DEF Inv, InStep, Drawn, ServerInStep
  <1> QED BY SpecInv, <1>1, PTL

\* BorderMatches: where no owner asks for another border, client_toggle_fullscreen and
\* client_init always leave the one that the flags call for.
THEOREM BordersAlwaysMatch == Spec => []BorderMatches
  <1>1. Inv => BorderMatches
    BY DEF Inv, Sound, Bordered, BorderMatches
  <1> QED BY SpecInv, <1>1, PTL

\* MaximizedFills: through center, tile, restore, maximize and fullscreen, in any order,
\* a client that is marked as maximized fills its screen or will when it leaves fullscreen.
THEOREM MaximizedAlwaysFills == Spec => []MaximizedFills
  <1>1. ASSUME Inv PROVE MaximizedFills
    <2> SUFFICES ASSUME OnlyCommands, NEW c \in Managed, "MAXIMIZED" \in clients[c].flags
                 PROVE  Filling(AreaOf(c, clients[c]), Edge(clients[c]))
                          = IF "FULLSCREEN" \in clients[c].flags
                            THEN clients[c].saved ELSE clients[c].geometry
      BY DEF MaximizedFills, Edge
    <2>1. c \in Client /\ Commanded(clients[c]) /\ Struts = {NoStrut}
      BY <1>1 DEF Inv, Sound, Managed, OnlyCommands
    <2>2. AreaOf(c, clients[c]) = Free(clients[c])
      BY <1>1, <2>1, FreeArea DEF Commanded
    <2> QED BY <2>1, <2>2 DEF Commanded
  <1> QED BY SpecInv, <1>1, PTL

-----------------------------------------------------------------------------
(* Sizes *)

\* What division leaves.
LEMMA Rounded ==
  ASSUME NEW n \in Nat, NEW i \in Nat \ {0}
  PROVE  /\ n % i \in 0 .. n
         /\ n - (n % i) = (n \div i) * i
  <1> DEFINE whole == (n \div i) * i
  <1>1. n % i \in 0 .. i - 1 /\ n % i <= n
    OBVIOUS
  <1>2. n = whole + (n % i) /\ whole \in Nat
    OBVIOUS
  <1> HIDE DEF whole
  <1>3. n % i \in 0 .. n
    BY <1>1
  <1>4. n - (n % i) = whole
    BY <1>1, <1>2
  <1> QED BY <1>3, <1>4 DEF whole

\* Above the base size the program finds the size that the ICCCM describes.
LEMMA SnappedFits ==
  ASSUME NEW asked \in Nat, asked < Word, NEW h, Stepped(h), asked >= h.desired
  PROVE  Snapped(Minus(asked, h.desired), h) = BestFit(asked, h)
  <1>1. /\ h.desired \in Nat /\ h.min \in Nat /\ h.max \in Nat
        /\ h.increment \in Nat \ {0}
    BY Words DEF Stepped, AxisHints, Unsigned
  <1> DEFINE over == asked - h.desired
             left == over % h.increment
  <1>2. over \in Nat /\ Minus(asked, h.desired) = over
    BY <1>1 DEF Minus
  <1>3. left \in 0 .. over /\ over - left = (over \div h.increment) * h.increment
    <2> HIDE DEF over
    <2> QED BY <1>1, <1>2, Rounded
  <1>4. Plus(Minus(over, left), h.desired) = h.desired + (over \div h.increment) * h.increment
    <2> DEFINE whole == over - left
    <2>1. whole \in Nat /\ whole + h.desired < Word
      <3>1. over + h.desired < Word /\ left \in 0 .. over
        BY <1>1, <1>3
      <3> HIDE DEF left, over
      <3> QED BY <1>1, <1>2, <3>1, Words
    <2>2. Minus(over, left) = whole
      <3> HIDE DEF left, over
      <3> QED BY <1>2, <1>3 DEF Minus
    <2>3. whole = (over \div h.increment) * h.increment
      BY <1>3
    <2> HIDE DEF whole, over, left
    <2>4. Plus(whole, h.desired) = h.desired + whole
      BY <1>1, <2>1, Words DEF Plus
    <2> QED BY <2>2, <2>3, <2>4
  <1>5. Snapped(over, h) = LET least == Larger(Plus(Minus(over, left), h.desired), h.min)
                           IN  IF h.max # 0 THEN Smaller(least, h.max) ELSE least
    BY DEF Snapped
  <1>6. BestFit(asked, h) =
          LET size == Larger(h.desired + (over \div h.increment) * h.increment, h.min)
          IN  IF h.max # 0 THEN Smaller(size, h.max) ELSE size
    BY DEF BestFit
  <1> HIDE DEF over, left
  <1> QED BY <1>2, <1>4, <1>5, <1>6

\* ResizeRespectsHints: whatever hints the window gives and gave, function_window_resize
\* finds the best size that they allow for where the pointer is, in every drag.
THEOREM ResizeAlwaysRespectsHints == Spec => []ResizeRespectsHints
  <1>1. ASSUME Inv PROVE ResizeRespectsHints
    <2> DEFINE r     == clients[drag.client]
               hints == r.hints
    <2> SUFFICES ASSUME drag # NONE, drag.kind = "resize", drag.asked # << >>,
                        hints.min_aspect = << >>, drag.asked[1] >= hints.width.desired,
                        drag.asked[2] >= hints.height.desired
                 PROVE  /\ r.geometry.width = BestFit(drag.asked[1], hints.width)
                        /\ r.geometry.height = BestFit(drag.asked[2], hints.height)
      BY DEF ResizeRespectsHints
    <2>1. Holding(drag, r) /\ Hinted(hints)
      BY <1>1 DEF Inv, Sound, Shaped
    <2> HIDE DEF r, hints
    <2>2. PICK g \in Rectangles : /\ g.width = drag.asked[1] /\ g.height = drag.asked[2]
                                  /\ r.geometry = client_apply_size_hints(g, hints)
      BY <2>1 DEF Holding, hints
    <2>3. drag.asked \in Unsigned \X Unsigned
      BY <2>1 DEF Holding, Drags
    <2>4. /\ drag.asked[1] \in Nat /\ drag.asked[1] < Word
          /\ drag.asked[2] \in Nat /\ drag.asked[2] < Word
      <3>1. drag.asked[1] \in Unsigned /\ drag.asked[2] \in Unsigned
        BY <2>3
      <3> QED BY <3>1, Words DEF Unsigned
    <2> DEFINE w == Minus(g.width, hints.width.desired)
               h == Minus(g.height, hints.height.desired)
    <2>5. /\ r.geometry.width = Snapped(w, hints.width)
          /\ r.geometry.height = Snapped(h, hints.height)
      <3>1. client_apply_size_hints(g, hints) =
              [g EXCEPT !.width = Snapped(w, hints.width), !.height = Snapped(h, hints.height)]
        BY DEF client_apply_size_hints, WithAspect
      <3> HIDE DEF w, h
      <3> QED BY <2>2, <3>1 DEF Rectangles
    <2>6. Stepped(hints.width) /\ Stepped(hints.height)
      BY <2>1 DEF Hinted
    <2> QED BY <2>2, <2>4, <2>5, <2>6, SnappedFits
  <1> QED BY SpecInv, <1>1, PTL

-----------------------------------------------------------------------------
(* Tiles and new windows *)

\* Struts never leave less than nothing of a screen.
Roomy ==
  \A s \in Sessions : \A k \in DOMAIN s.screens : \A t, u \in s.struts :
    /\ t.left + u.right <= s.screens[k].width
    /\ t.top + u.bottom <= s.screens[k].height

\* Then the available area is a part of the screen.
LEMMA RoomyArea ==
  ASSUME Roomy, Inv, NEW c \in Client, NEW r, r.screen \in DOMAIN Screens, r.strut \in Struts
  PROVE  LET area == AreaOf(c, r)
         IN  /\ area \in Rectangles /\ area.x >= 0 /\ area.y >= 0
             /\ area.x + area.width < Half /\ area.y + area.height < Half
             /\ area.x + area.height < Half
  <1>1. PICK strut \in StrutT :
          /\ AreaOf(c, r) = Reduced(Screens[r.screen], strut)
          /\ \A side \in {"left", "right", "top", "bottom"} :
               \E s \in Struts : strut[side] = s[side]
    BY AreaLeft
  <1> DEFINE g == Screens[r.screen]
  <1>2. /\ g.x \in Nat /\ g.y \in Nat /\ g.width \in Nat /\ g.height \in Nat
        /\ g.x + g.width < Half /\ g.y + g.height < Half /\ g.x + g.width + g.height < Half
    <2>1. /\ g \in Rectangles /\ g.x >= 0 /\ g.y >= 0
          /\ g.x + g.width < Half /\ g.y + g.height < Half /\ g.x + g.width + g.height < Half
      BY Glass DEF Inv
    <2> HIDE DEF g
    <2> QED BY <2>1 DEF Rectangles
  <1>3. /\ strut.left \in Nat /\ strut.right \in Nat /\ strut.top \in Nat /\ strut.bottom \in Nat
    BY Words DEF StrutT, Unsigned
  <1>4. strut.left + strut.right <= g.width /\ strut.top + strut.bottom <= g.height
    <2>1. \A t, u \in Struts : t.left + u.right <= g.width /\ t.top + u.bottom <= g.height
      BY DEF Roomy, Inv, Struts, Screens
    <2>2. /\ \E s \in Struts : strut.left = s.left
          /\ \E s \in Struts : strut.right = s.right
          /\ \E s \in Struts : strut.top = s.top
          /\ \E s \in Struts : strut.bottom = s.bottom
      BY <1>1
    <2> QED BY <2>1, <2>2
  <1> HIDE DEF g
  <1>5. ASSUME NEW at \in Nat, NEW size \in Nat, NEW m \in Nat, NEW n \in Nat,
               at + size < Half, m + n <= size
        PROVE  /\ ToInt(Plus(ToUnsigned(at), m)) = at + m
               /\ Minus(Minus(size, m), n) = size - m - n
    <2>1. Minus(size, m) = size - m /\ size - m \in Nat /\ n <= size - m
      BY <1>5 DEF Minus
    <2>2. Minus(size - m, n) = size - m - n
      BY <2>1 DEF Minus
    <2> QED BY <1>5, <2>1, <2>2, Words DEF ToInt, Plus, ToUnsigned
  <1>6. AreaOf(c, r) = [x |-> g.x + strut.left, y |-> g.y + strut.top,
                        width |-> g.width - strut.left - strut.right,
                        height |-> g.height - strut.top - strut.bottom]
    <2>1. /\ ToInt(Plus(ToUnsigned(g.x), strut.left)) = g.x + strut.left
          /\ Minus(Minus(g.width, strut.left), strut.right) = g.width - strut.left - strut.right
      BY <1>2, <1>3, <1>4, <1>5
    <2>2. /\ ToInt(Plus(ToUnsigned(g.y), strut.top)) = g.y + strut.top
          /\ Minus(Minus(g.height, strut.top), strut.bottom) = g.height - strut.top - strut.bottom
      BY <1>2, <1>3, <1>4, <1>5
    <2> QED BY <1>1, <2>1, <2>2 DEF Reduced, Rectangle, g
  <1> DEFINE area == AreaOf(c, r)
  <1>7. /\ area.x = g.x + strut.left /\ area.y = g.y + strut.top
        /\ area.width = g.width - strut.left - strut.right
        /\ area.height = g.height - strut.top - strut.bottom
    BY <1>6
  <1>8. /\ g.x + strut.left \in Nat /\ g.y + strut.top \in Nat
        /\ g.width - strut.left - strut.right \in Nat
        /\ g.height - strut.top - strut.bottom \in Nat
    BY <1>2, <1>3, <1>4
  <1>9. area \in Rectangles
    BY <1>6, <1>8 DEF Rectangles
  <1> HIDE DEF area
  <1>10. /\ area.x >= 0 /\ area.y >= 0
         /\ area.x + area.width < Half /\ area.y + area.height < Half
         /\ area.x + area.height < Half
    <2>1. ASSUME NEW at \in Nat, NEW size \in Nat, NEW m \in Nat, NEW n \in Nat, at + size < Half
          PROVE  at + m >= 0 /\ at + m + (size - m - n) < Half
      BY <2>1, Words
    <2>2. /\ g.x + strut.left >= 0
          /\ g.x + strut.left + (g.width - strut.left - strut.right) < Half
          /\ g.y + strut.top >= 0
          /\ g.y + strut.top + (g.height - strut.top - strut.bottom) < Half
      BY <1>2, <1>3, <2>1
    <2>3. ASSUME NEW at \in Nat, NEW across \in Nat, NEW size \in Nat, NEW m \in Nat,
                 NEW n \in Nat, NEW t \in Nat, NEW b \in Nat,
                 m + n <= across, at + across + size < Half
          PROVE  at + m + (size - t - b) < Half
      BY <2>3, Words
    <2>4. g.x + strut.left + (g.height - strut.top - strut.bottom) < Half
      BY <1>2, <1>3, <1>4, <2>3
    <2> QED BY <1>7, <2>2, <2>4
  <1> QED BY <1>9, <1>10 DEF area

\* A size that the hints make of a share with room for them and the border is no larger.
LEMMA SizeLeft ==
  ASSUME NEW share \in Nat, share < Word, NEW edge \in Nat, NEW h, Stepped(h),
         share >= edge + Larger(h.desired, h.min)
  PROVE  /\ Snapped(Minus(Minus(share, edge), h.desired), h) \in Nat
         /\ Snapped(Minus(Minus(share, edge), h.desired), h) + edge <= share
  <1>1. /\ h.desired \in Nat /\ h.min \in Nat /\ h.max \in Nat
        /\ h.increment \in Nat \ {0}
    BY Words DEF Stepped, AxisHints, Unsigned
  <1> DEFINE asked == share - edge
             over  == asked - h.desired
             whole == (over \div h.increment) * h.increment
             size  == Larger(h.desired + whole, h.min)
             best  == IF h.max # 0 THEN Smaller(size, h.max) ELSE size
  <1>2. /\ asked \in Nat /\ asked < Word /\ asked >= h.desired /\ asked >= h.min
        /\ Minus(share, edge) = asked
    <2>1. share >= edge + h.desired /\ share >= edge + h.min
      BY <1>1 DEF Larger
    <2>2. Minus(share, edge) = asked
      BY <1>1, <2>1 DEF Minus
    <2> QED BY <1>1, <2>1, <2>2, Words
  <1>3. Snapped(Minus(Minus(share, edge), h.desired), h) = best
    <2>1. Snapped(Minus(asked, h.desired), h) = BestFit(asked, h)
      <3> HIDE DEF asked
      <3> QED BY <1>2, SnappedFits
    <2> QED BY <1>2, <2>1 DEF BestFit
  <1>4. over \in Nat
    <2> HIDE DEF asked
    <2> QED BY <1>1, <1>2
  <1>5. whole \in Nat /\ whole <= over
    <2> HIDE DEF over
    <2>1. over % h.increment \in 0 .. over /\ over - (over % h.increment) = whole
      BY <1>1, <1>4, Rounded
    <2> HIDE DEF whole
    <2> QED BY <1>4, <2>1
  <1> HIDE DEF whole
  <1>6. size \in Nat /\ size <= asked
    <2>1. h.desired + whole \in Nat /\ h.desired + whole <= asked
      BY <1>1, <1>2, <1>5
    <2> HIDE DEF asked, over
    <2> QED BY <1>1, <1>2, <2>1 DEF Larger
  <1> HIDE DEF size
  <1>7. best \in Nat /\ best <= asked
    <2> HIDE DEF asked
    <2> QED BY <1>1, <1>2, <1>6 DEF Smaller
  <1> HIDE DEF best
  <1> QED BY <1>3, <1>7

\* The tiles of one axis, once the hints h were applied.
LEMMA TileAxis ==
  ASSUME NEW from \in Nat, NEW extent \in Nat, from + extent < Half,
         NEW border \in Nat, NEW h, Stepped(h)
  PROVE  LET At(part)   == ToInt(Plus(ToUnsigned(from), Offset(part, extent)))
             Size(part) == Snapped(Minus(Minus(Share(part, extent), 2 * border), h.desired), h)
         IN  \A p \in Parts : Room(p, extent, border, h) =>
               /\ Within(At(p), Size(p) + 2 * border, from, extent)
               /\ p \in {"first_half", "first_third"} =>
                    \A q \in {"last_half", "last_third"} : At(p) + Size(p) + 2 * border <= At(q)
  <1> DEFINE half  == extent \div 2
             third == extent \div 3
             edge  == 2 * border
             At(part)   == ToInt(Plus(ToUnsigned(from), Offset(part, extent)))
             Size(part) == Snapped(Minus(Minus(Share(part, extent), edge), h.desired), h)
  <1>1. /\ half \in Nat /\ third \in Nat /\ edge \in Nat
        /\ 2 * half <= extent /\ 3 * third <= extent /\ third <= half
    OBVIOUS
  <1>2. ASSUME NEW part \in Parts
        PROVE  <<Offset(part, extent), Share(part, extent)>> \in
                 {<<0, half>>, <<0, third>>, <<half, half>>, <<extent - third, third>>, <<0, extent>>}
    BY DEF Parts, Offset, Share
  <1>3. \A p \in {"first_half", "first_third"}, q \in {"last_half", "last_third"} :
          /\ p \in Parts /\ Offset(p, extent) = 0 /\ Share(p, extent) \in {half, third}
          /\ Offset(q, extent) \in {half, extent - third}
    BY DEF Offset, Share, Parts
  <1> HIDE DEF half, third, edge
  <1>4. ASSUME NEW n \in Nat, n <= extent
        PROVE  ToInt(Plus(ToUnsigned(from), n)) = from + n
    BY <1>4, Words DEF ToInt, Plus, ToUnsigned
  <1>5. ASSUME NEW p \in Parts, Room(p, extent, border, h)
        PROVE  Size(p) \in Nat /\ Size(p) + edge <= Share(p, extent)
    <2> DEFINE n == Share(p, extent)
    <2>1. n \in Nat /\ n < Word
      <3>1. n \in {half, third, extent}
        BY <1>2
      <3> HIDE DEF n
      <3> QED BY <1>1, <3>1, Words
    <2>2. n >= edge + Larger(h.desired, h.min)
      BY <1>5 DEF Room, edge
    <2> HIDE DEF n
    <2>3. /\ Snapped(Minus(Minus(n, edge), h.desired), h) \in Nat
          /\ Snapped(Minus(Minus(n, edge), h.desired), h) + edge <= n
      BY <1>1, <2>1, <2>2, SizeLeft
    <2> QED BY <2>3 DEF n
  <1>6. ASSUME NEW p \in Parts, Room(p, extent, border, h)
        PROVE  Within(At(p), Size(p) + edge, from, extent)
    <2> DEFINE m == Offset(p, extent)
               n == Share(p, extent)
               size == Size(p)
    <2>1. m \in Nat /\ n \in Nat /\ m + n <= extent
      <3>1. \/ m = 0 /\ n = half
            \/ m = 0 /\ n = third
            \/ m = half /\ n = half
            \/ m = extent - third /\ n = third
            \/ m = 0 /\ n = extent
        BY <1>2
      <3> HIDE DEF m, n
      <3> QED BY <1>1, <3>1
    <2>2. size \in Nat /\ size + edge <= n
      BY <1>5, <1>6
    <2> HIDE DEF m, n, size
    <2>3. ToInt(Plus(ToUnsigned(from), m)) = from + m
      BY <1>4, <2>1
    <2>4. Within(from + m, size + edge, from, extent)
      BY <1>1, <2>1, <2>2 DEF Within
    <2> QED BY <2>3, <2>4 DEF m, n, size
  <1>7. ASSUME NEW p \in {"first_half", "first_third"}, Room(p, extent, border, h),
               NEW q \in {"last_half", "last_third"}
        PROVE  At(p) + Size(p) + edge <= At(q)
    <2> DEFINE m == Offset(q, extent)
               n == Share(p, extent)
               size == Size(p)
    <2>1. p \in Parts /\ Offset(p, extent) = 0 /\ n \in {half, third} /\ m \in {half, extent - third}
      BY <1>3
    <2>2. size \in Nat /\ size + edge <= n
      BY <1>5, <1>7, <2>1
    <2> HIDE DEF m, n, size
    <2>3. n \in Nat /\ m \in Nat /\ m <= extent /\ n <= m
      BY <1>1, <2>1
    <2>4. ToInt(Plus(ToUnsigned(from), 0)) = from + 0 /\ ToInt(Plus(ToUnsigned(from), m)) = from + m
      <3>1. 0 \in Nat /\ 0 <= extent
        OBVIOUS
      <3> QED BY <1>4, <2>3, <3>1
    <2>5. from + 0 + size + edge <= from + m
      BY <1>1, <2>2, <2>3
    <2> QED BY <2>1, <2>4, <2>5 DEF m, n, size
  <1> HIDE DEF At, Size
  <1>8. \A p \in Parts : Room(p, extent, border, h) =>
          /\ Within(At(p), Size(p) + edge, from, extent)
          /\ p \in {"first_half", "first_third"} =>
               \A q \in {"last_half", "last_third"} : At(p) + Size(p) + edge <= At(q)
    BY <1>6, <1>7
  <1> QED BY <1>8 DEF At, Size, edge

\* TilesFit: wherever struts are that do not exceed their screen, window-tile divides what
\* they leave into tiles that lie in it and do not overlap those of the opposite side, after
\* the hints of the window and its border were taken into account.
THEOREM TilesAlwaysFit == ASSUME Roomy PROVE Spec => []TilesFit
  <1>1. ASSUME Inv PROVE TilesFit
    <2> SUFFICES ASSUME NEW c \in Managed
                 PROVE  LET r    == clients[c]
                            area == AreaOf(c, r)
                            T(part) == function_window_tile(c, r, part, part).geometry
                            Outer(g) == [g EXCEPT !.width = @ + 2 * r.border,
                                                  !.height = @ + 2 * r.border]
                            Fits(part) == /\ Room(part, area.width, r.border, r.hints.width)
                                          /\ Room(part, area.height, r.border, r.hints.height)
                        IN  r.hints.min_aspect = << >> =>
                              \A p \in {part \in Parts : Fits(part)} :
                                /\ Inside(Outer(T(p)), area)
                                /\ p \in {"first_half", "first_third"} =>
                                     \A q \in {"last_half", "last_third"} :
                                       /\ T(p).x + T(p).width + 2 * r.border <= T(q).x
                                       /\ T(p).y + T(p).height + 2 * r.border <= T(q).y
      BY DEF TilesFit
    <2> DEFINE r     == clients[c]
               area  == AreaOf(c, r)
               edge  == 2 * r.border
               w     == r.hints.width
               h     == r.hints.height
               T(part) == function_window_tile(c, r, part, part).geometry
    <2>1. Sound(r)
      BY <1>1 DEF Inv
    <2>2. Stepped(w) /\ Stepped(h) /\ r.border \in Nat
      BY <2>1 DEF Sound, Shaped, Hinted
    <2>3. /\ area \in Rectangles /\ area.x >= 0 /\ area.y >= 0
          /\ area.x + area.width < Half /\ area.y + area.height < Half
      BY <1>1, <2>1, RoomyArea DEF Managed, Sound, Shaped
    <2> HIDE DEF r, area, w, h
    <2>4. area.x \in Nat /\ area.y \in Nat /\ area.width \in Nat /\ area.height \in Nat
      BY <2>3 DEF Rectangles
    <2> SUFFICES ASSUME r.hints.min_aspect = << >>,
                        NEW p \in Parts,
                        Room(p, area.width, r.border, w), Room(p, area.height, r.border, h)
                 PROVE  /\ Inside([T(p) EXCEPT !.width = @ + edge, !.height = @ + edge], area)
                        /\ p \in {"first_half", "first_third"} =>
                             \A q \in {"last_half", "last_third"} :
                               /\ T(p).x + T(p).width + edge <= T(q).x
                               /\ T(p).y + T(p).height + edge <= T(q).y
      BY DEF r, area, w, h
    <2> DEFINE AtX(part)  == ToInt(Plus(ToUnsigned(area.x), Offset(part, area.width)))
               AtY(part)  == ToInt(Plus(ToUnsigned(area.y), Offset(part, area.height)))
               Wide(part) == Snapped(Minus(Minus(Share(part, area.width), edge), w.desired), w)
               High(part) == Snapped(Minus(Minus(Share(part, area.height), edge), h.desired), h)
    <2>5. \A part \in Parts :
            T(part) = [x |-> AtX(part), y |-> AtY(part), width |-> Wide(part), height |-> High(part)]
      <3> TAKE part \in Parts
      <3> DEFINE t == Tiled(area, r.border, part, part)
      <3>1. T(part) = client_apply_size_hints(t, r.hints)
        BY <2>1 DEF function_window_tile, client_move_resize, Reset, area, Sound, IsClient, Fields
      <3>2. client_apply_size_hints(t, r.hints) =
              [t EXCEPT !.width = Snapped(Minus(t.width, w.desired), w),
                        !.height = Snapped(Minus(t.height, h.desired), h)]
        BY DEF client_apply_size_hints, WithAspect, w, h
      <3>3. t = [x |-> AtX(part), y |-> AtY(part),
                 width |-> Minus(Share(part, area.width), edge),
                 height |-> Minus(Share(part, area.height), edge)]
        BY DEF Tiled, Rectangle
      <3> HIDE DEF t, T, AtX, AtY
      <3> QED BY <3>1, <3>2, <3>3
    <2>6. /\ Within(AtX(p), Wide(p) + edge, area.x, area.width)
          /\ p \in {"first_half", "first_third"} =>
               \A q \in {"last_half", "last_third"} : AtX(p) + Wide(p) + edge <= AtX(q)
      BY <2>2, <2>3, <2>4, TileAxis
    <2>7. /\ Within(AtY(p), High(p) + edge, area.y, area.height)
          /\ p \in {"first_half", "first_third"} =>
               \A q \in {"last_half", "last_third"} : AtY(p) + High(p) + edge <= AtY(q)
      BY <2>2, <2>3, <2>4, TileAxis
    <2> HIDE DEF T, AtX, AtY, Wide, High, edge
    <2>8. Inside([T(p) EXCEPT !.width = @ + edge, !.height = @ + edge], area)
      <3> DEFINE o == [T(p) EXCEPT !.width = @ + edge, !.height = @ + edge]
      <3>1. /\ o.x = AtX(p) /\ o.width = Wide(p) + edge
            /\ o.y = AtY(p) /\ o.height = High(p) + edge
        BY <2>5
      <3> QED BY <2>6, <2>7, <3>1 DEF Inside
    <2>9. ASSUME p \in {"first_half", "first_third"}, NEW q \in {"last_half", "last_third"}
          PROVE  /\ T(p).x + T(p).width + edge <= T(q).x
                 /\ T(p).y + T(p).height + edge <= T(q).y
      <3>1. q \in Parts
        BY DEF Parts
      <3>2. /\ T(p).x = AtX(p) /\ T(p).width = Wide(p) /\ T(p).y = AtY(p) /\ T(p).height = High(p)
            /\ T(q).x = AtX(q) /\ T(q).y = AtY(q)
        BY <2>5, <3>1
      <3> QED BY <2>6, <2>7, <2>9, <3>2
    <2> QED BY <2>8, <2>9
  <1> QED BY SpecInv, <1>1, PTL

-----------------------------------------------------------------------------
(* Moves to another screen *)

\* Screens of one size in a row, without struts, or one screen.
SideBySide ==
  \A s \in Sessions :
    \/ Len(s.screens) = 1
    \/ /\ s.struts = {NoStrut}
       /\ \A j, k \in DOMAIN s.screens :
            /\ s.screens[j].y = s.screens[k].y
            /\ s.screens[j].width = s.screens[k].width
            /\ s.screens[j].height = s.screens[k].height
            /\ j # k => s.screens[j].x # s.screens[k].x

Directions == {"up", "down", "left", "right"}

InOneRow ==
  \A j, k \in DOMAIN Screens :
    /\ Screens[j].y = Screens[k].y
    /\ Screens[j].width = Screens[k].width /\ Screens[j].height = Screens[k].height
    /\ j # k => Screens[j].x # Screens[k].x

\* In a row a screen is only beside one that begins where the other ends.
LEMMA Neighbours ==
  ASSUME session \in Sessions, InOneRow, NEW k \in DOMAIN Screens, NEW d \in Directions,
         screen_find(d, k) # 0
  PROVE  LET j == screen_find(d, k)
         IN  /\ j \in DOMAIN Screens /\ j # k
             /\ screen_find(Opposite(d), j) = k
  <1> DEFINE Test(e, i) == [j \in DOMAIN Screens |->
               CASE e = "up"    -> End(Screens[j].y, Screens[j].height) = ToUnsigned(Screens[i].y)
                 [] e = "down"  -> ToUnsigned(Screens[j].y) = End(Screens[i].y, Screens[i].height)
                 [] e = "left"  -> End(Screens[j].x, Screens[j].width) = ToUnsigned(Screens[i].x)
                 [] e = "right" -> ToUnsigned(Screens[j].x) = End(Screens[i].x, Screens[i].width)]
  <1>1. \A e, i : screen_find(e, i) = FirstScreen(Test(e, i))
    BY DEF screen_find
  <1>2. ASSUME NEW i \in DOMAIN Screens
        PROVE  /\ Screens[i].x \in Nat /\ Screens[i].y \in Nat
               /\ Screens[i].width \in Nat \ {0} /\ Screens[i].height \in Nat \ {0}
               /\ End(Screens[i].x, Screens[i].width) = Screens[i].x + Screens[i].width
               /\ End(Screens[i].y, Screens[i].height) = Screens[i].y + Screens[i].height
               /\ ToUnsigned(Screens[i].x) = Screens[i].x
               /\ ToUnsigned(Screens[i].y) = Screens[i].y
    <2> DEFINE g == Screens[i]
    <2>1. /\ g \in Rectangles /\ g.x >= 0 /\ g.y >= 0
          /\ 2 * BorderWidth < g.width /\ 2 * BorderWidth < g.height
          /\ g.x + g.width < Half /\ g.y + g.height < Half
      BY Glass
    <2> HIDE DEF g
    <2>2. /\ g.x \in Nat /\ g.y \in Nat /\ g.width \in Nat \ {0} /\ g.height \in Nat \ {0}
      BY <2>1, PlacementAssumption DEF Rectangles
    <2>3. ASSUME NEW at \in Nat, NEW size \in Nat, at + size < Half
          PROVE  End(at, size) = at + size /\ ToUnsigned(at) = at
      BY <2>3, Words DEF End, Plus, ToUnsigned
    <2> QED BY <2>1, <2>2, <2>3 DEF g
  <1>3. ASSUME NEW i \in DOMAIN Screens, NEW j \in DOMAIN Screens
        PROVE  /\ ~Test("up", i)[j] /\ ~Test("down", i)[j]
               /\ Test("left", i)[j] <=> Screens[j].x + Screens[j].width = Screens[i].x
               /\ Test("right", i)[j] <=> Screens[j].x = Screens[i].x + Screens[i].width
    <2>1. Screens[i].y = Screens[j].y /\ Screens[i].height = Screens[j].height
      BY DEF InOneRow
    <2>2. /\ Test("up", i)[j] <=> Screens[j].y + Screens[j].height = Screens[i].y
          /\ Test("down", i)[j] <=> Screens[j].y = Screens[i].y + Screens[i].height
          /\ Test("left", i)[j] <=> Screens[j].x + Screens[j].width = Screens[i].x
          /\ Test("right", i)[j] <=> Screens[j].x = Screens[i].x + Screens[i].width
      BY <1>2
    <2> HIDE DEF Test
    <2> QED BY <1>2, <2>1, <2>2
  <1> HIDE DEF Test
  <1> DEFINE j == screen_find(d, k)
  <1>4. j \in DOMAIN Screens /\ Test(d, k)[j]
    BY <1>1, FirstFound
  <1> HIDE DEF j
  <1>5. d \in {"left", "right"}
    BY <1>3, <1>4 DEF Directions
  <1>6. Test(Opposite(d), j)[k]
    <2>1. CASE d = "left"
      BY <1>2, <1>3, <1>4, <2>1 DEF Opposite, InOneRow
    <2>2. CASE d = "right"
      BY <1>2, <1>3, <1>4, <2>2 DEF Opposite, InOneRow
    <2> QED BY <1>5, <2>1, <2>2
  <1> DEFINE m == screen_find(Opposite(d), j)
  <1>7. m \in DOMAIN Screens /\ Test(Opposite(d), j)[m]
    BY <1>1, <1>6, FirstFound
  <1> HIDE DEF m
  <1>8. Screens[m].x = Screens[k].x
    <2>1. Screens[m].width = Screens[k].width
      BY <1>7 DEF InOneRow
    <2>2. CASE d = "left"
      <3>1. /\ Screens[k].x = Screens[j].x + Screens[j].width
            /\ Screens[m].x = Screens[j].x + Screens[j].width
        BY <1>3, <1>4, <1>6, <1>7, <2>2 DEF Opposite
      <3> QED BY <3>1
    <2>3. CASE d = "right"
      <3>1. /\ Screens[k].x + Screens[k].width = Screens[j].x
            /\ Screens[m].x + Screens[m].width = Screens[j].x
        BY <1>3, <1>4, <1>6, <1>7, <2>3 DEF Opposite
      <3>2. Screens[k].x \in Nat /\ Screens[m].x \in Nat /\ Screens[k].width \in Nat
        BY <1>2, <1>7
      <3> QED BY <2>1, <3>1, <3>2
    <2> QED BY <1>5, <2>2, <2>3
  <1>9. m = k
    BY <1>7, <1>8 DEF InOneRow
  <1>10. j # k
    BY <1>2, <1>3, <1>4, <1>5
  <1> QED BY <1>4, <1>9, <1>10 DEF m, j

\* screen_adopt leaves a window alone that lies in the area.
LEMMA AdoptedInside ==
  ASSUME NEW g \in Rectangles, NEW area \in Rectangles, Inside(g, area),
         area.x >= 0, area.y >= 0, area.x + area.width < Half, area.y + area.height < Half
  PROVE  Adopted(g, area) = g
  <1>1. ASSUME NEW at \in Int, NEW size \in Nat, NEW from \in Nat, NEW extent \in Nat,
               from + extent < Half, Within(at, size, from, extent)
        PROVE  AdoptAxis(at, size, from, extent) = at
    <2>1. at \in Nat /\ at >= from /\ at + size <= from + extent /\ at + size < Half
      BY <1>1, Words DEF Within
    <2>2. /\ ToUnsigned(at) = at /\ ToUnsigned(from) = from
          /\ End(at, size) = at + size /\ End(from, extent) = from + extent
      BY <1>1, <2>1, Words DEF End, Plus, ToUnsigned
    <2> QED BY <2>1, <2>2 DEF AdoptAxis
  <1>2. /\ g.x \in Int /\ g.y \in Int /\ g.width \in Nat /\ g.height \in Nat
        /\ area.x \in Nat /\ area.y \in Nat /\ area.width \in Nat /\ area.height \in Nat
    BY DEF Rectangles
  <1>3. /\ AdoptAxis(g.x, g.width, area.x, area.width) = g.x
        /\ AdoptAxis(g.y, g.height, area.y, area.height) = g.y
    BY <1>1, <1>2 DEF Inside
  <1> QED BY <1>3 DEF Adopted, Rectangles

\* The clamps of client_placement bring a window into an area that it fits in.
LEMMA PlacedInside ==
  ASSUME NEW g \in Rectangles, NEW area \in Rectangles, g.x < Half, g.y < Half,
         area.x >= 0, area.y >= 0, area.x + area.width < Half, area.y + area.height < Half,
         g.width <= area.width, g.height <= area.height
  PROVE  /\ Placed(g, area) \in Rectangles
         /\ Placed(g, area).width = g.width /\ Placed(g, area).height = g.height
         /\ Inside(Placed(g, area), area)
  <1>1. ASSUME NEW at \in Int, NEW size \in Nat, NEW from \in Nat, NEW extent \in Nat,
               from + extent < Half, at < Half, size <= extent
        PROVE  /\ PlaceAxis(at, size, from, extent) \in Int
               /\ Within(PlaceAxis(at, size, from, extent), size, from, extent)
    <2> DEFINE low == IF at < from THEN from ELSE at
    <2>1. low \in Nat /\ low >= from /\ low < Half /\ size < Half
      BY <1>1, Words
    <2> HIDE DEF low
    <2>2. End(low, size) = low + size /\ End(from, extent) = from + extent
      BY <1>1, <2>1, Words DEF End, Plus, ToUnsigned
    <2>3. ToInt(Minus(from + extent, size)) = from + extent - size
      BY <1>1, Words DEF Minus, ToInt
    <2>4. PlaceAxis(at, size, from, extent) =
            IF low + size > from + extent THEN from + extent - size ELSE low
      BY <2>2, <2>3 DEF PlaceAxis, low
    <2> QED BY <1>1, <2>1, <2>4 DEF Within
  <1>2. /\ g.x \in Int /\ g.y \in Int /\ g.width \in Nat /\ g.height \in Nat
        /\ area.x \in Nat /\ area.y \in Nat /\ area.width \in Nat /\ area.height \in Nat
    BY DEF Rectangles
  <1> DEFINE x == PlaceAxis(g.x, g.width, area.x, area.width)
             y == PlaceAxis(g.y, g.height, area.y, area.height)
  <1>3. /\ x \in Int /\ Within(x, g.width, area.x, area.width)
        /\ y \in Int /\ Within(y, g.height, area.y, area.height)
    BY <1>1, <1>2
  <1>4. Placed(g, area) = [g EXCEPT !.x = x, !.y = y]
    BY DEF Placed, Rectangles
  <1> HIDE DEF x, y
  <1> QED BY <1>3, <1>4 DEF Rectangles, Inside

\* An int is less than half a word.
LEMMA Signs ==
  /\ \A u \in Int : u < Word => ToInt(u) < Half /\ ToInt(u) \in Int
  /\ \A u \in Int, v \in Nat : u < Word => Minus(u, v) \in Int /\ Minus(u, v) < Word
  /\ \A u \in Int, v \in Int : u < Half /\ v < Half => Plus(u, v) \in Int /\ Plus(u, v) < Word
  /\ \A u \in Nat : u < Word => u \div 2 \in Nat /\ u \div 2 < Half
  <1>1. \A u \in Int : u < Word => ToInt(u) < Half /\ ToInt(u) \in Int
    BY Words DEF ToInt
  <1>2. \A u \in Int, v \in Nat : u < Word => Minus(u, v) \in Int /\ Minus(u, v) < Word
    BY Words DEF Minus
  <1>3. \A u \in Int, v \in Int : u < Half /\ v < Half => Plus(u, v) \in Int /\ Plus(u, v) < Word
    BY Words DEF Plus
  <1>4. \A u \in Nat : u < Word => u \div 2 \in Nat /\ u \div 2 < Half
    BY Words
  <1> QED BY <1>1, <1>2, <1>3, <1>4

\* Neither the middle of the area nor the pointer lies beyond the ints.
LEMMA CenterIsInt ==
  ASSUME NEW size \in Nat, NEW from \in Nat, NEW extent \in Nat, NEW border \in Nat,
         from + extent < Half
  PROVE  CenterAxis(size, from, extent, border) < Half
  <1> DEFINE half == Minus(extent, size) \div 2
  <1>1. half \in Int /\ half < Half
    <2>1. Minus(extent, size) \in Int /\ Minus(extent, size) < Word
      BY Signs, Words
    <2>2. \A u \in Int : u < Word => u \div 2 \in Int /\ u \div 2 < Half
      BY Words
    <2> QED BY <2>1, <2>2
  <1> HIDE DEF half
  <1>2. ToUnsigned(from) = from /\ from < Half
    BY Words DEF ToUnsigned
  <1>3. CenterAxis(size, from, extent, border) = ToInt(Minus(Plus(from, half), border))
    BY <1>2 DEF CenterAxis, half
  <1>4. Plus(from, half) \in Int /\ Plus(from, half) < Word
    <2>1. from \in Int
      OBVIOUS
    <2> QED BY <1>1, <1>2, <2>1, Signs
  <1> DEFINE u == Plus(from, half)
             v == Minus(u, border)
  <1> HIDE DEF u
  <1>5. v \in Int /\ v < Word
    BY <1>4, Signs DEF u
  <1> HIDE DEF v
  <1> QED BY <1>3, <1>5, Signs DEF u, v

\* Where a window goes under the pointer is a number.
LEMMA PointerIsInt ==
  ASSUME NEW size \in Nat, NEW at \in 0 .. Half - 1, NEW border \in Nat
  PROVE  ToInt(Minus(Minus(ToUnsigned(at), size \div 2), border)) < Half
  <1> DEFINE half == size \div 2
             u == Minus(at, half)
             v == Minus(u, border)
  <1>1. half \in Nat
    OBVIOUS
  <1> HIDE DEF half
  <1>2. ToUnsigned(at) = at /\ at \in Int /\ at < Word
    BY Words DEF ToUnsigned
  <1>3. u \in Int /\ u < Word
    BY <1>1, <1>2, Signs
  <1> HIDE DEF u
  <1>4. v \in Int /\ v < Word
    BY <1>3, Signs
  <1> HIDE DEF v
  <1> QED BY <1>2, <1>4, Signs DEF half, u, v

\* What rand() chooses begins in the area and does not leave the ints.
LEMMA CascadeIsInt ==
  ASSUME NEW at \in Int, NEW size \in Int, NEW from \in Nat, NEW extent \in Nat, NEW last \in Nat,
         from + extent < Half, from + last < Half, NEW n \in Somewhere(at, size, from, extent, last)
  PROVE  n < Half
  <1> DEFINE third == extent \div 3
             far == Middle(at, size) > End(from, extent) \div 2
             a   == IF far THEN from ELSE ToInt(End(from, third))
             b   == ToInt(End(from, IF far THEN third ELSE last))
  <1>1. third \in Nat /\ 3 * third <= extent
    OBVIOUS
  <1>2. PICK k \in 0 .. Distance(a, b) - 1 : n = a + k
    BY DEF Somewhere
  <1> HIDE DEF third, far
  <1>3. ASSUME NEW m \in Nat, from + m < Half PROVE ToInt(End(from, m)) = from + m
    BY <1>3, Words DEF ToInt, End, Plus, ToUnsigned
  <1>4. ToInt(End(from, third)) = from + third /\ ToInt(End(from, last)) = from + last
    BY <1>1, <1>3, Words
  <1>5. /\ a = IF far THEN from ELSE from + third
        /\ b = IF far THEN from + third ELSE from + last
    BY <1>4
  <1> HIDE DEF a, b
  <1> QED BY <1>1, <1>2, <1>5, Words DEF Distance

\* No client is so far away that FUZZY_DISTANCE leads out of the ints.
Near ==
  \A c \in Managed : /\ clients[c].geometry.x + Fuzzy < Half
                     /\ clients[c].geometry.y + Fuzzy < Half

\* Where client_placement wants a new window is an int.
LEMMA WishedIsInt ==
  ASSUME Inv, Near, Roomy, NEW c \in Client \ Positioned, NEW r, Sound(r), NEW p \in Points,
         NEW g \in client_placement(c, r, p)
  PROVE  \E wish \in Rectangles :
           wish.x < Half /\ wish.y < Half /\ g = Placed(wish, AreaOf(c, r))
  <1> DEFINE area == AreaOf(c, r)
  <1>1. /\ r.geometry \in Rectangles /\ r.border \in Nat /\ 2 * r.border < Word
        /\ r.screen \in DOMAIN Screens /\ r.strut \in Struts
    BY DEF Sound, Shaped
  <1>2. /\ area \in Rectangles /\ area.x >= 0 /\ area.y >= 0
        /\ area.x + area.width < Half /\ area.y + area.height < Half
        /\ area.x + area.height < Half
    BY <1>1, RoomyArea
  <1> HIDE DEF area
  <1>3. /\ area.x \in Nat /\ area.y \in Nat /\ area.width \in Nat /\ area.height \in Nat
    BY <1>2 DEF Rectangles
  <1>4. r.geometry.width \in Nat /\ r.geometry.height \in Nat
    BY <1>1 DEF Rectangles
  <1>5. CASE Pointer
    <2> DEFINE wish == UnderPointer(r.geometry, p.x, p.y, r.border)
    <2>1. g = Placed(wish, area)
      BY <1>5 DEF client_placement, area
    <2>2. p.x \in 0 .. Half - 1 /\ p.y \in 0 .. Half - 1
      BY Given DEF Inv
    <2>3. wish \in Rectangles
      <3>1. p.x \in Int /\ p.y \in Int
        BY Given DEF Inv
      <3> QED BY <1>1, <1>2, <3>1, Shapes
    <2> DEFINE x == ToInt(Minus(Minus(ToUnsigned(p.x), r.geometry.width \div 2), r.border))
               y == ToInt(Minus(Minus(ToUnsigned(p.y), r.geometry.height \div 2), r.border))
    <2>4. x < Half /\ y < Half
      BY <1>1, <1>4, <2>2, PointerIsInt
    <2> HIDE DEF x, y
    <2>5. wish = [r.geometry EXCEPT !.x = x, !.y = y]
      BY DEF UnderPointer, x, y
    <2> HIDE DEF wish
    <2>6. wish.x = x /\ wish.y = y
      BY <1>1, <2>5 DEF Rectangles
    <2> QED BY <2>1, <2>3, <2>4, <2>6 DEF area
  <1>6. CASE ~Pointer
    <2> DEFINE center == Centered(r.geometry, area, r.border)
    <2>1. PICK wish \in (UNION Cascades(c, r)) \cup {center} : g = Placed(wish, area)
      BY <1>6 DEF client_placement, area
    <2>2. /\ center \in Rectangles
          /\ center.x < Half /\ center.y < Half
      <3>1. center \in Rectangles
        BY <1>1, <1>2, Shapes
      <3> DEFINE x == CenterAxis(r.geometry.width, area.x, area.width, r.border)
                 y == CenterAxis(r.geometry.height, area.y, area.height, r.border)
      <3>2. x < Half /\ y < Half
        BY <1>1, <1>2, <1>3, <1>4, CenterIsInt
      <3> HIDE DEF x, y
      <3>3. center = [r.geometry EXCEPT !.x = x, !.y = y]
        BY DEF Centered, x, y
      <3> HIDE DEF center
      <3> QED BY <1>1, <3>1, <3>2, <3>3 DEF Rectangles
    <2> HIDE DEF center
    <2>3. ASSUME NEW d \in Managed, wish \in Cascaded(clients[d].geometry, area)
          PROVE  wish \in Rectangles /\ wish.x < Half /\ wish.y < Half
      <3> DEFINE e == clients[d].geometry
      <3>1. e \in Rectangles /\ e.x + Fuzzy < Half /\ e.y + Fuzzy < Half
        BY DEF Inv, Sound, Shaped, Near
      <3> HIDE DEF e
      <3>2. wish \in Rectangles
        BY <1>2, <2>3, <3>1, CascadedShapes DEF e
      <3> DEFINE fx == e.x + Fuzzy
                 fy == e.y + Fuzzy
                 beside == [e EXCEPT !.x = @ + Fuzzy, !.y = @ + Fuzzy]
                 fits == /\ End(beside.x, beside.width) <= End(area.x, area.width)
                         /\ End(beside.y, beside.height) <= End(area.y, area.height)
                 xs == Somewhere(e.x, e.width, area.x, area.width, area.height)
                 ys == Somewhere(e.y, e.height, area.y, area.height, area.height)
      <3>3. /\ e.x \in Int /\ e.y \in Int /\ e.width \in Int /\ e.height \in Int
        BY <3>1 DEF Rectangles
      <3>4. (\A x \in xs : x < Half) /\ (\A y \in ys : y < Half)
        BY <1>2, <1>3, <3>3, CascadeIsInt
      <3> DEFINE Put(x, y) == [beside EXCEPT !.x = x, !.y = y]
      <3>5. wish = beside \/ \E x \in xs, y \in ys : wish = Put(x, y)
        <4>1. Cascaded(e, area) = IF fits THEN {beside} ELSE {Put(x, y) : x \in xs, y \in ys}
          BY DEF Cascaded
        <4> HIDE DEF xs, ys, beside, fits, Put
        <4>2. wish \in Cascaded(e, area)
          BY <2>3 DEF e
        <4>3. CASE fits
          BY <4>1, <4>2, <4>3
        <4>4. CASE ~fits
          BY <4>1, <4>2, <4>4
        <4> QED BY <4>3, <4>4
      <3>6. DOMAIN beside = {"x", "y", "width", "height"} /\ beside.x = fx /\ beside.y = fy
        BY <3>1 DEF Rectangles
      <3> HIDE DEF xs, ys, fx, fy
      <3> HIDE DEF beside
      <3>7. CASE wish = beside
        BY <3>1, <3>2, <3>6, <3>7 DEF fx, fy
      <3>8. ASSUME NEW x \in xs, NEW y \in ys, wish = Put(x, y)
            PROVE  wish.x < Half /\ wish.y < Half
        BY <3>4, <3>6, <3>8
      <3> QED BY <3>2, <3>5, <3>7, <3>8
    <2>4. wish = center \/ \E d \in Managed : wish \in Cascaded(clients[d].geometry, area)
      <3>1. wish = center \/ \E cascade \in Cascades(c, r) : wish \in cascade
        BY <2>1, Zenon
      <3>2. ASSUME NEW cascade \in Cascades(c, r)
            PROVE  \E d \in Managed : cascade = Cascaded(clients[d].geometry, area)
        BY DEF Cascades, area
      <3> QED BY <3>1, <3>2
    <2> QED BY <2>1, <2>2, <2>3, <2>4 DEF area
  <1> QED BY <1>5, <1>6


\* NewWindowsFit: while no client is off by the size of an int, client_placement and the
\* screen_adopt after it leave a new window in the available area of the last screen,
\* if it is created there and fits.
THEOREM NewWindowsAlwaysFit == ASSUME Roomy PROVE Spec /\ []Near => NewWindowsFit
  <1>1. ASSUME Inv, Near, NEW c \in Client \ Positioned, NEW window \in Attributes,
               clients[c] = NONE, event_handle_map_request(c, window), wm' = "RUNNING",
               screen_for_client(window.geometry) = Len(Screens)
        PROVE  LET g    == clients'[c].geometry
                   area == AreaOf(c, clients[c])'
               IN  (g.width <= area.width /\ g.height <= area.height) => Inside(g, area)
    <2>1. c \notin Managed /\ session' = session
      BY <1>1 DEF Managed, event_handle_map_request
    <2>2. PICK r \in Inits(c, window) :
            \E p \in Points : \E g \in client_placement(c, r, p) : Become(c, Shown(c, r, g))
      BY <1>1, <2>1 DEF event_handle_map_request
    <2> PICK p \in Points : \E g \in client_placement(c, r, p) : Become(c, Shown(c, r, g))
      BY <2>2
    <2> PICK g \in client_placement(c, r, p) : Become(c, Shown(c, r, g))
      OBVIOUS
    <2> DEFINE last == Len(Screens)
               area == AreaOf(c, r)
               new  == Shown(c, r, g)
    <2>3. /\ Sound(r) /\ "MAXIMIZED" \notin r.flags /\ r.screen = last
          /\ r.screen \in DOMAIN Screens /\ r.strut \in Struts
      BY <1>1, InitsSound, Given DEF Sound, Shaped, Inv
    <2>4. PICK wish \in Rectangles : wish.x < Half /\ wish.y < Half /\ g = Placed(wish, area)
      BY <1>1, <2>3, WishedIsInt
    <2>5. /\ area \in Rectangles /\ area.x >= 0 /\ area.y >= 0
          /\ area.x + area.width < Half /\ area.y + area.height < Half
      BY <1>1, <2>3, RoomyArea
    <2>6. /\ new.geometry = Adopted(g, AreaOf(c, Onto(r, last)))
          /\ new.screen = last /\ new.strut = r.strut
      BY <1>1, <2>3, ShownSound
    <2> HIDE DEF last
    <2>7. AreaOf(c, Onto(r, last)) = area
      <3>1. Onto(r, last).screen = r.screen /\ Onto(r, last).strut = r.strut
        BY <2>3 DEF Onto, Sound, IsClient, Fields
      <3> QED BY <3>1, SameArea
    <2> HIDE DEF new, area
    <2>8. /\ new.geometry = Adopted(g, area) /\ new.screen = r.screen /\ new.strut = r.strut
      BY <2>3, <2>6, <2>7
    <2>9. /\ clients'[c] = new /\ session' = session
          /\ \A d \in Client \ {c} : clients'[d] = clients[d]
      BY <1>1, <2>1 DEF Become, Inv, new
    <2>10. AreaOf(c, clients[c])' = area
      <3>1. Managed' \ {c} = Managed \ {c} /\ Screens' = Screens
        BY <2>9 DEF Managed, Client, Screens
      <3>2. {d \in Managed' \ {c} : clients'[d].screen = r.screen}
              = {d \in Managed \ {c} : clients[d].screen = r.screen}
        BY <2>9, <3>1 DEF Managed
      <3> DEFINE others == {d \in Managed \ {c} : clients[d].screen = r.screen}
      <3>3. {clients'[d].strut : d \in others} = {clients[d].strut : d \in others}
        BY <2>9, <3>1 DEF Managed
      <3>4. {d \in Managed' \ {c} : clients'[d].screen = clients'[c].screen} = others
        BY <2>8, <2>9, <3>2
      <3>5. clients'[c].strut = r.strut /\ clients'[c].screen = r.screen
        BY <2>8, <2>9
      <3> DEFINE Left(i, sides, struts) ==
                   Reduced(Screens[i],
                           [side \in sides |-> CHOOSE n \in {s[side] : s \in struts} :
                                                \A s \in struts : s[side] <= n])
      <3>6. area = Left(r.screen, DOMAIN r.strut,
                        {r.strut} \cup {clients[d].strut : d \in others})
        BY DEF AreaOf, area
      <3> DEFINE now == {d \in Managed' \ {c} : clients'[d].screen = clients'[c].screen}
      <3>7. AreaOf(c, clients[c])' =
              Left(clients'[c].screen, DOMAIN clients'[c].strut,
                   {clients'[c].strut} \cup {clients'[d].strut : d \in now})
        BY <3>1 DEF AreaOf, Reduced
      <3> HIDE DEF others, now, Left
      <3>8. now = others
        BY <3>4 DEF now, others
      <3> QED BY <3>3, <3>5, <3>6, <3>7, <3>8
    <2>11. ASSUME Adopted(g, area).width <= area.width, Adopted(g, area).height <= area.height
           PROVE  Inside(Adopted(g, area), area)
      <3>1. g \in Rectangles
        BY <2>4, <2>5, Shapes, PlacementAssumption
      <3>2. Adopted(g, area).width = g.width /\ Adopted(g, area).height = g.height
        BY <3>1 DEF Adopted, Rectangles
      <3>3. g.width = wish.width /\ g.height = wish.height
        BY <2>4 DEF Placed, Rectangles
      <3>4. Inside(g, area)
        BY <2>4, <2>5, <2>11, <3>2, <3>3, PlacedInside
      <3> QED BY <2>5, <3>1, <3>4, AdoptedInside
    <2> QED BY <2>8, <2>9, <2>10, <2>11
  <1>2. Inv /\ Near /\ [Next]_vars =>
          [\A c \in Client \ Positioned, window \in Attributes :
             (clients[c] = NONE /\ screen_for_client(window.geometry) = Len(Screens)
                /\ event_handle_map_request(c, window) /\ wm' = "RUNNING") =>
               LET g    == clients'[c].geometry
                   area == AreaOf(c, clients[c])'
               IN  (g.width <= area.width /\ g.height <= area.height) => Inside(g, area)]_vars
    BY <1>1
  <1> QED BY SpecInv, <1>2, PTL DEF Spec, NewWindowsFit

\* The server has the window where the client is.
Seen(r) == r.window = [geometry |-> r.geometry, border |-> r.window.border]

\* Where a window goes that is sent to the screen beside.
LEMMA Sent ==
  ASSUME Inv, Struts = {NoStrut}, InOneRow, NEW c \in Client, NEW r, IsClient(r), Seen(r),
         r.screen \in DOMAIN Screens, r.strut = NoStrut, r.geometry \in Rectangles,
         Inside(r.geometry, Screens[r.screen]), NEW d \in Directions,
         screen_find(d, r.screen) # 0
  PROVE  LET i == screen_find(d, r.screen)
             t == function_window_move_to_screen(c, r, d)
         IN  /\ IsClient(t) /\ Seen(t) /\ t.screen = i
             /\ t.geometry = [r.geometry EXCEPT
                                !.x = Screens[i].x + (r.geometry.x - Screens[r.screen].x)]
             /\ t.geometry \in Rectangles /\ Inside(t.geometry, Screens[i])
             /\ t.saved = r.saved /\ t.border = r.border /\ t.flags = r.flags
             /\ t.hints = r.hints /\ t.strut = r.strut
             /\ t.window.border = r.window.border
  <1> DEFINE i     == screen_find(d, r.screen)
             old   == AreaOf(c, r)
             new   == AreaOf(c, [r EXCEPT !.screen = i, !.strut = NoStrut])
             o     == [r.geometry EXCEPT !.x = new.x + (@ - old.x), !.y = new.y + (@ - old.y)]
             moved == client_move_resize([r EXCEPT !.geometry = o])
             there == [moved EXCEPT !.screen = i]
             g     == [r.geometry EXCEPT
                         !.x = Screens[i].x + (r.geometry.x - Screens[r.screen].x)]
  <1>1. i \in DOMAIN Screens
    BY Neighbours DEF Inv
  <1>2. function_window_move_to_screen(c, r, d) = screen_adopt(c, moved, i)
    <2> DEFINE across == [r EXCEPT !.geometry.x = new.x + (@ - old.x),
                                   !.geometry.y = new.y + (@ - old.y)]
    <2>1. function_window_move_to_screen(c, r, d) =
            screen_adopt(c, client_move_resize(across), i)
      BY DEF function_window_move_to_screen
    <2> HIDE DEF i, old, new
    <2>2. across = [r EXCEPT !.geometry = o]
      BY DEF IsClient, Fields
    <2> QED BY <2>1, <2>2
  <1> HIDE DEF i
  <1>3. old = Screens[r.screen]
    BY FreeArea, FreeIsScreen DEF Inv
  <1>4. new = Screens[i]
    <2> DEFINE q == [r EXCEPT !.screen = i, !.strut = NoStrut]
    <2>1. q.screen = i /\ q.strut = NoStrut
      BY DEF IsClient, Fields
    <2> HIDE DEF q
    <2>2. AreaOf(c, q) = Screens[i]
      BY <1>1, <2>1, FreeArea, FreeIsScreen DEF Inv
    <2> QED BY <2>2 DEF q
  <1> DEFINE s == Screens[i]
             p == Screens[r.screen]
  <1>5. /\ s \in Rectangles /\ p \in Rectangles
        /\ s.x >= 0 /\ s.y >= 0 /\ s.x + s.width < Half /\ s.y + s.height < Half
        /\ s.y = p.y /\ s.width = p.width /\ s.height = p.height
    BY <1>1, Glass DEF Inv, InOneRow
  <1> HIDE DEF new, old
  <1>6. o = g
    <2> DEFINE x == s.x + (r.geometry.x - p.x)
               y == s.y + (r.geometry.y - p.y)
    <2>1. y = r.geometry.y
      BY <1>5 DEF Rectangles
    <2>2. o = [r.geometry EXCEPT !.x = x, !.y = y]
      BY <1>3, <1>4 DEF Rectangles
    <2>3. g = [r.geometry EXCEPT !.x = x]
      OBVIOUS
    <2> HIDE DEF x, y, g, o
    <2> QED BY <2>1, <2>2, <2>3 DEF Rectangles
  <1>7. g \in Rectangles /\ Inside(g, s)
    <2> DEFINE x == s.x + (r.geometry.x - p.x)
    <2>1. x \in Int /\ Within(x, r.geometry.width, s.x, s.width)
      <3>1. /\ r.geometry.x \in Int /\ r.geometry.width \in Nat
            /\ p.x \in Int /\ p.width \in Nat /\ s.x \in Int
        BY <1>5 DEF Rectangles
      <3>2. Within(r.geometry.x, r.geometry.width, p.x, p.width)
        BY DEF Inside
      <3> HIDE DEF s, p
      <3> QED BY <1>5, <3>1, <3>2 DEF Within
    <2>2. Within(r.geometry.y, r.geometry.height, s.y, s.height)
      BY <1>5 DEF Inside
    <2>3. g = [r.geometry EXCEPT !.x = x]
      OBVIOUS
    <2> HIDE DEF x, g
    <2>4. /\ g \in Rectangles /\ g.x = x /\ g.y = r.geometry.y
          /\ g.width = r.geometry.width /\ g.height = r.geometry.height
      BY <2>1, <2>3 DEF Rectangles
    <2> QED BY <2>1, <2>2, <2>4 DEF Inside
  <1> HIDE DEF g, o
  <1>8. /\ IsClient(moved) /\ moved.screen = r.screen /\ moved.border = r.border
        /\ moved.flags = r.flags /\ moved.hints = r.hints /\ moved.strut = r.strut
        /\ moved.saved = r.saved /\ moved.geometry = g
        /\ moved.window = [geometry |-> g, border |-> r.window.border]
    BY <1>6 DEF client_move_resize, IsClient, Fields, Seen
  <1> HIDE DEF moved
  <1>9. /\ IsClient(there) /\ there.screen = i /\ there.geometry = g
        /\ there.saved = r.saved /\ there.border = r.border /\ there.flags = r.flags
        /\ there.hints = r.hints /\ there.strut = r.strut
        /\ there.window = [geometry |-> g, border |-> r.window.border]
    BY <1>8 DEF IsClient, Fields
  <1>10. Adopted(moved.geometry, AreaOf(c, there)) = moved.geometry
           => screen_adopt(c, moved, i) = there
    BY DEF screen_adopt
  <1> HIDE DEF there
  <1>11. AreaOf(c, there) = s
    BY <1>1, <1>9, FreeArea, FreeIsScreen DEF Inv
  <1>12. Adopted(g, s) = g
    <2> HIDE DEF s
    <2> QED BY <1>5, <1>7, AdoptedInside
  <1>13. screen_adopt(c, moved, i) = there
    BY <1>8, <1>10, <1>11, <1>12
  <1>14. Seen(there) /\ there.window.border = r.window.border
    BY <1>9 DEF Seen
  <1> QED BY <1>2, <1>7, <1>9, <1>13, <1>14 DEF i, g

\* MoveIsReversible: on screens of one size in a row window-move-to-screen keeps the place
\* of a window on its screen, and the opposite direction brings it back.
THEOREM MovesAlwaysReversible == ASSUME SideBySide PROVE Spec => []MoveIsReversible
  <1>1. ASSUME Inv PROVE MoveIsReversible
    <2> SUFFICES ASSUME NEW c \in Managed, NEW d \in Directions,
                        Inside(clients[c].geometry, AreaOf(c, clients[c]))
                 PROVE  LET r     == clients[c]
                            there == function_window_move_to_screen(c, r, d)
                            back  == function_window_move_to_screen(c, there, Opposite(d))
                        IN  there = r \/ /\ Inside(there.geometry, AreaOf(c, there))
                                         /\ back = r
      BY DEF MoveIsReversible, Directions
    <2> DEFINE r == clients[c]
               i == screen_find(d, r.screen)
               t == function_window_move_to_screen(c, r, d)
    <2>1. c \in Client /\ Sound(r) /\ session \in Sessions
      BY <1>1 DEF Inv, Managed
    <2>2. r.screen \in DOMAIN Screens /\ IsClient(r) /\ r.geometry \in Rectangles /\ Seen(r)
      BY <1>1, <2>1 DEF Sound, Shaped, Inv, InStep, Windows, Seen
    <2>3. CASE i = 0
      <3>1. t = r
        BY <2>3 DEF function_window_move_to_screen
      <3> QED BY <3>1
    <2>4. CASE Len(Screens) = 1 /\ i # 0
      <3>1. DOMAIN Screens = {1}
        BY <2>1, <2>4, Glass
      <3>2. InOneRow
        BY <3>1 DEF InOneRow
      <3>3. i \in DOMAIN Screens /\ i # r.screen
        BY <2>1, <2>2, <2>4, <3>2, Neighbours
      <3> QED BY <2>2, <3>1, <3>3
    <2>5. CASE Len(Screens) # 1 /\ i # 0
      <3>1. Struts = {NoStrut} /\ InOneRow
        BY <2>1, <2>5 DEF SideBySide, InOneRow, Struts, Screens
      <3>2. r.strut = NoStrut
        BY <2>1, <3>1 DEF Sound, Shaped
      <3>3. AreaOf(c, r) = Screens[r.screen]
        BY <1>1, <2>1, <2>2, <3>1, <3>2, FreeArea, FreeIsScreen
      <3>4. Inside(r.geometry, Screens[r.screen])
        BY <3>3
      <3>5. /\ i \in DOMAIN Screens /\ screen_find(Opposite(d), i) = r.screen
            /\ Opposite(d) \in Directions /\ r.screen # 0
        <4>1. Opposite(d) \in Directions
          BY DEF Opposite, Directions
        <4>2. r.screen # 0
          BY <2>1, <2>2, Glass
        <4> QED BY <2>1, <2>2, <2>5, <3>1, <4>1, <4>2, Neighbours
      <3> HIDE DEF r, i
      <3>6. /\ IsClient(t) /\ Seen(t) /\ t.screen = i
            /\ t.geometry = [r.geometry EXCEPT
                               !.x = Screens[i].x + (r.geometry.x - Screens[r.screen].x)]
            /\ t.geometry \in Rectangles /\ Inside(t.geometry, Screens[i])
            /\ t.saved = r.saved /\ t.border = r.border /\ t.flags = r.flags
            /\ t.hints = r.hints /\ t.strut = r.strut
            /\ t.window.border = r.window.border
        BY <1>1, <2>1, <2>2, <2>5, <3>1, <3>2, <3>4, Sent DEF i
      <3> DEFINE b == function_window_move_to_screen(c, t, Opposite(d))
      <3> HIDE DEF t
      <3>7. /\ IsClient(b) /\ Seen(b) /\ b.screen = r.screen
            /\ b.geometry = [t.geometry EXCEPT
                               !.x = Screens[r.screen].x + (t.geometry.x - Screens[i].x)]
            /\ b.saved = t.saved /\ b.border = t.border /\ b.flags = t.flags
            /\ b.hints = t.hints /\ b.strut = t.strut
            /\ b.window.border = t.window.border
        <4> DEFINE o == Opposite(d)
        <4>1. /\ o \in Directions /\ screen_find(o, t.screen) = r.screen /\ r.screen # 0
              /\ t.screen \in DOMAIN Screens /\ t.strut = NoStrut
          BY <3>2, <3>5, <3>6
        <4> HIDE DEF o
        <4> DEFINE k == screen_find(o, t.screen)
                   e == function_window_move_to_screen(c, t, o)
        <4>2. /\ IsClient(e) /\ Seen(e) /\ e.screen = k
              /\ e.geometry = [t.geometry EXCEPT
                                 !.x = Screens[k].x + (t.geometry.x - Screens[t.screen].x)]
              /\ e.saved = t.saved /\ e.border = t.border /\ e.flags = t.flags
              /\ e.hints = t.hints /\ e.strut = t.strut
              /\ e.window.border = t.window.border
          <5>1. IsClient(t) /\ Seen(t) /\ t.geometry \in Rectangles /\ Inside(t.geometry, Screens[t.screen])
            BY <3>6
          <5> QED BY <1>1, <2>1, <3>1, <4>1, <5>1, Sent
        <4>3. e = b
          BY DEF o
        <4>4. k = r.screen /\ t.screen = i
          BY <3>6, <4>1
        <4> HIDE DEF e, k, b
        <4> QED BY <4>2, <4>3, <4>4
      <3> HIDE DEF b
      <3>8. b.geometry = r.geometry
        <4> DEFINE u == Screens[i].x
                   v == Screens[r.screen].x
                   x == u + (r.geometry.x - v)
                   y == v + (t.geometry.x - u)
        <4>1. u \in Int /\ v \in Int /\ r.geometry.x \in Int
          BY <2>1, <2>2, <3>5, Glass DEF Rectangles
        <4>2. t.geometry = [r.geometry EXCEPT !.x = x] /\ b.geometry = [t.geometry EXCEPT !.x = y]
          BY <3>6, <3>7
        <4> HIDE DEF x, y, u, v
        <4>3. t.geometry.x = x
          BY <2>2, <4>2 DEF Rectangles
        <4>4. y = r.geometry.x
          BY <4>1, <4>3 DEF x, y
        <4> QED BY <2>2, <4>2, <4>4 DEF Rectangles
      <3>9. b = r
        <4>1. \A f \in Fields : b[f] = r[f]
          BY <2>2, <3>6, <3>7, <3>8 DEF Fields, Seen
        <4>2. b = [f \in Fields |-> b[f]] /\ r = [f \in Fields |-> r[f]]
          BY <2>2, <3>7 DEF IsClient
        <4> QED BY <4>1, <4>2
      <3>10. AreaOf(c, t) = Screens[i]
        BY <1>1, <2>1, <3>1, <3>2, <3>5, <3>6, FreeArea, FreeIsScreen
      <3> QED BY <3>6, <3>9, <3>10 DEF b, t, r
    <2> QED BY <2>3, <2>4, <2>5
  <1> QED BY SpecInv, <1>1, PTL

-----------------------------------------------------------------------------
(* Windows within reach *)

\* What the configuration binds, to a key or a button.
Bound == KeyBindings \cup MouseBindings

\* Sizes are far from the ends of an int.
Sized(g) == 2 * g.width < Half /\ 2 * g.height < Half

Modest ==
  /\ \A k \in DOMAIN Screens : /\ 2 * (Screens[k].x + Screens[k].width) < Half
                               /\ 2 * (Screens[k].y + Screens[k].height) < Half
  /\ \A w \in Attributes : Sized(w.geometry)

\* What a window needs along an axis, and a third of it if windows are tiled.
Borders == IF "window-tile" \in Bound THEN 6 * BorderWidth ELSE 2 * BorderWidth

\* Struts leave so much of every screen.
Spacious ==
  \A k \in DOMAIN Screens : \A t, u \in Struts :
    /\ t.left + u.right + Borders <= Screens[k].width
    /\ t.top + u.bottom + Borders <= Screens[k].height

\* Sessions in which nothing takes a window out of reach.  Hints, resizing and vertical
\* maximizing (it changes the width) make a window smaller, which may end before its screen
\* then; the saved geometry is one of the screen that it was saved on, or of the window
\* before it was adopted; a strut at the top keeps a window below the pointer that drags
\* it, and one that goes away leaves a centered window where it was; and no window is
\* dragged above the top of its screen.
Kept ==
  /\ Modest /\ Spacious
  /\ SizeHints = {NoHints} /\ "window-resize" \notin Bound
  /\ "VMAXIMIZED" \notin NetToggles
  /\ \A atoms \in NetStates : "VMAXIMIZED" \in atoms => "HMAXIMIZED" \in atoms
  /\ \/ Len(Screens) = 1
     \/ /\ Bound \cap Savers = {} /\ "FULLSCREEN" \notin NetToggles
        /\ \A atoms \in NetStates : "FULLSCREEN" \notin atoms
  /\ "window-restore" \in Bound =>
       \A w \in Attributes : \A k \in DOMAIN Screens : Touches(w.geometry, Screens[k])
  /\ Struts = {NoStrut} \/ Bound \cap {"window-center", "window-move"} = {}
  /\ "window-move" \in Bound => InOneRow

\* Together with what the property asks for.
Gentle == Kept /\ Requests = {} /\ "window-move" \notin KeyBindings

\* Along one axis a window meets its screen, or centering has lost it: it is larger than
\* the screen then, and not below the ints by more than its size.
Lost(at, size, from, extent) ==
  "window-center" \in Bound /\ size > extent /\ at >= from - size - Half

Reached(at, size, from, extent) == Meet(at, size, from, extent) \/ Lost(at, size, from, extent)

OnScreen(g, s) ==
  Reached(g.x, g.width, s.x, s.width) /\ Reached(g.y, g.height, s.y, s.height)

\* The saved geometry may be needed.
Uses(r) == "window-restore" \in Bound \/ r.flags \cap {"FULLSCREEN", "MAXIMIZED"} # {}

Reachable(r) ==
  /\ r.hints = Defaults
  /\ Sized(r.geometry) /\ Sized(r.saved)
  /\ Uses(r) => Len(Screens) = 1 /\ OnScreen(r.saved, Screens[r.screen])

AtHome(r) == Reachable(r) /\ OnScreen(r.geometry, Screens[r.screen])

\* A drag of the client that is r now has the pointer on the window and on a screen.
Held(d, r) ==
  LET p == [x |-> d.x, y |-> d.y]
  IN  /\ d.kind = "move" /\ "window-move" \in Bound
      /\ d.top = Screens[r.screen].y
      /\ Shows(r.geometry, p)
      /\ \E k \in DOMAIN Screens : Shows(Screens[k], p)

Home ==
  Gentle =>
    /\ \A c \in Managed :
         /\ Reachable(clients[c])
         /\ OnScreen(clients[c].geometry, Screens[clients[c].screen])
              \/ (drag # NONE /\ drag.client = c)
    /\ drag # NONE => Held(drag, clients[drag.client])

\* A screen in such a session.
LEMMA Panes ==
  ASSUME session \in Sessions, Gentle, NEW k \in DOMAIN Screens
  PROVE  LET s == Screens[k]
         IN  /\ s.x \in Nat /\ s.y \in Nat /\ s.width \in Nat /\ s.height \in Nat
             /\ s.width > 0 /\ s.height > 0
             /\ 2 * (s.x + s.width) < Half /\ 2 * (s.y + s.height) < Half
             /\ Sized(s) /\ OnScreen(s, s)
  <1> DEFINE s == Screens[k]
  <1>1. /\ s \in Rectangles /\ s.x >= 0 /\ s.y >= 0
        /\ 2 * BorderWidth < s.width /\ 2 * BorderWidth < s.height
    BY Glass
  <1>2. 2 * (s.x + s.width) < Half /\ 2 * (s.y + s.height) < Half
    BY DEF Gentle, Kept, Modest
  <1> HIDE DEF s
  <1>3. /\ s.x \in Nat /\ s.y \in Nat /\ s.width \in Nat /\ s.height \in Nat
        /\ s.width > 0 /\ s.height > 0
    BY <1>1, PlacementAssumption DEF Rectangles
  <1>4. Sized(s)
    BY <1>2, <1>3, Words DEF Sized
  <1>5. OnScreen(s, s)
    BY <1>3 DEF OnScreen, Reached, Meet
  <1> QED BY <1>2, <1>3, <1>4, <1>5 DEF s

\* What struts leave of a screen.
LEMMA AreaWithin ==
  ASSUME Inv, Gentle, NEW c \in Client, NEW r, r.screen \in DOMAIN Screens, r.strut \in Struts
  PROVE  LET area == AreaOf(c, r)
             s    == Screens[r.screen]
         IN  /\ area.x \in Nat /\ area.y \in Nat /\ area.width \in Nat /\ area.height \in Nat
             /\ s.x <= area.x /\ area.x + area.width <= s.x + s.width /\ Borders <= area.width
             /\ s.y <= area.y /\ area.y + area.height <= s.y + s.height /\ Borders <= area.height
  <1>1. PICK strut \in StrutT :
          /\ AreaOf(c, r) = Reduced(Screens[r.screen], strut)
          /\ \A side \in {"left", "right", "top", "bottom"} :
               \E s \in Struts : strut[side] = s[side]
    BY AreaLeft
  <1> DEFINE s == Screens[r.screen]
  <1>2. /\ s.x \in Nat /\ s.y \in Nat /\ s.width \in Nat /\ s.height \in Nat
        /\ s.x + s.width < Half /\ s.y + s.height < Half
    <2>1. s \in Rectangles /\ s.x >= 0 /\ s.y >= 0 /\ s.x + s.width < Half /\ s.y + s.height < Half
      BY Glass DEF Inv
    <2> HIDE DEF s
    <2> QED BY <2>1 DEF Rectangles
  <1>3. /\ strut.left \in Nat /\ strut.right \in Nat /\ strut.top \in Nat /\ strut.bottom \in Nat
    BY Words DEF StrutT, Unsigned
  <1>4. /\ strut.left + strut.right + Borders <= s.width
        /\ strut.top + strut.bottom + Borders <= s.height
    <2>1. \A t, u \in Struts : /\ t.left + u.right + Borders <= s.width
                               /\ t.top + u.bottom + Borders <= s.height
      BY DEF Gentle, Kept, Spacious
    <2>2. /\ \E t \in Struts : strut.left = t.left
          /\ \E t \in Struts : strut.right = t.right
          /\ \E t \in Struts : strut.top = t.top
          /\ \E t \in Struts : strut.bottom = t.bottom
      BY <1>1
    <2> QED BY <2>1, <2>2
  <1>5. Borders \in Nat
    BY PlacementAssumption DEF Borders
  <1> HIDE DEF s
  <1>6. ASSUME NEW at \in Nat, NEW size \in Nat, NEW m \in Nat, NEW n \in Nat,
               at + size < Half, m + n + Borders <= size
        PROVE  /\ ToInt(Plus(ToUnsigned(at), m)) = at + m
               /\ Minus(Minus(size, m), n) = size - m - n
               /\ at + m \in Nat /\ size - m - n \in Nat
               /\ at <= at + m /\ at + m + (size - m - n) <= at + size
               /\ Borders <= size - m - n
    <2>1. Minus(size, m) = size - m /\ size - m \in Nat /\ n <= size - m
      BY <1>5, <1>6 DEF Minus
    <2>2. Minus(size - m, n) = size - m - n
      BY <2>1 DEF Minus
    <2>3. /\ at + m \in Nat /\ size - m - n \in Nat
          /\ at <= at + m /\ at + m + (size - m - n) <= at + size
          /\ Borders <= size - m - n
      BY <1>5, <1>6
    <2> QED BY <1>5, <1>6, <2>1, <2>2, <2>3, Words DEF ToInt, Plus, ToUnsigned
  <1> DEFINE area == AreaOf(c, r)
  <1>7. /\ area.x = ToInt(Plus(ToUnsigned(s.x), strut.left))
        /\ area.y = ToInt(Plus(ToUnsigned(s.y), strut.top))
        /\ area.width = Minus(Minus(s.width, strut.left), strut.right)
        /\ area.height = Minus(Minus(s.height, strut.top), strut.bottom)
    BY <1>1 DEF Reduced, Rectangle, s
  <1> HIDE DEF area
  <1>8. /\ area.x \in Nat /\ area.width \in Nat
        /\ s.x <= area.x /\ area.x + area.width <= s.x + s.width /\ Borders <= area.width
    BY <1>2, <1>3, <1>4, <1>6, <1>7
  <1>9. /\ area.y \in Nat /\ area.height \in Nat
        /\ s.y <= area.y /\ area.y + area.height <= s.y + s.height /\ Borders <= area.height
    BY <1>2, <1>3, <1>4, <1>6, <1>7
  <1> QED BY <1>8, <1>9 DEF area, s

\* screen_adopt brings a window back that is not off by a whole word.
LEMMA AdoptReaches ==
  ASSUME NEW from \in Nat, NEW extent \in Nat, from + extent < Half,
         NEW start \in Nat, NEW room \in Nat, from <= start, start + room <= from + extent,
         NEW at \in Int, NEW size \in Nat, 2 * size < Half, at > from + extent - Word
  PROVE  /\ AdoptAxis(at, size, start, room) \in Int
         /\ Meet(AdoptAxis(at, size, start, room), size, from, extent)
  <1>1. End(start, room) = start + room /\ ToUnsigned(start) = start
    BY Words DEF End, Plus, ToUnsigned
  <1>2. ToInt(Minus(start + room, size)) = start + room - size
    BY Words DEF ToInt, Minus
  <1> DEFINE moved == IF End(at, size) < start THEN start ELSE at
  <1>3. AdoptAxis(at, size, start, room) =
          IF ToUnsigned(moved) > start + room THEN start + room - size ELSE moved
    BY <1>1, <1>2 DEF AdoptAxis
  <1>4. CASE ToUnsigned(moved) > start + room
    BY <1>3, <1>4 DEF Meet
  <1>5. CASE ~(ToUnsigned(moved) > start + room) /\ End(at, size) < start
    BY <1>1, <1>3, <1>5 DEF Meet
  <1>6. CASE ~(ToUnsigned(moved) > start + room) /\ ~(End(at, size) < start)
    <2>1. at >= 0 /\ at <= start + room
      BY <1>6, Words DEF ToUnsigned
    <2>2. End(at, size) = at + size
      BY <2>1, Words DEF End, Plus, ToUnsigned
    <2> QED BY <1>3, <1>6, <2>1, <2>2 DEF Meet
  <1> QED BY <1>4, <1>5, <1>6

\* Centering puts a window in the middle of the screen, or loses it.
LEMMA CenterReaches ==
  ASSUME NEW from \in Nat, NEW extent \in Nat, 2 * (from + extent) < Half,
         NEW size \in Nat, 2 * size < Half, NEW border \in Nat, 2 * border < extent,
         "window-center" \in Bound
  PROVE  /\ CenterAxis(size, from, extent, border) \in Int
         /\ Reached(CenterAxis(size, from, extent, border), size, from, extent)
  <1>1. ToUnsigned(from) = from
    BY DEF ToUnsigned
  <1>2. CASE size <= extent
    <2> DEFINE half == (extent - size) \div 2
    <2>1. half \in Nat /\ 2 * half <= extent - size /\ extent - size <= 2 * half + 1
      BY <1>2
    <2> HIDE DEF half
    <2>2. Minus(extent, size) \div 2 = half
      BY <1>2 DEF Minus, half
    <2>3. Plus(from, half) = from + half
      BY <2>1, Words DEF Plus
    <2>4. ToInt(Minus(from + half, border)) = from + half - border
      BY <2>1, Words DEF ToInt, Minus
    <2>5. CenterAxis(size, from, extent, border) = from + half - border
      BY <1>1, <2>2, <2>3, <2>4 DEF CenterAxis
    <2> QED BY <2>1, <2>5 DEF Reached, Meet
  <1>3. CASE size > extent
    <2> DEFINE half == (extent - size + Word) \div 2
    <2>1. /\ half \in Nat /\ 2 * half <= extent - size + Word
          /\ extent - size + Word <= 2 * half + 1
      BY <1>3, Words
    <2> HIDE DEF half
    <2>2. Minus(extent, size) \div 2 = half
      BY <1>3 DEF Minus, half
    <2>3. Plus(from, half) = from + half
      BY <2>1, Words DEF Plus
    <2>4. Minus(from + half, border) = from + half - border
      BY <1>3, <2>1, Words DEF Minus
    <2>5. CenterAxis(size, from, extent, border) = ToInt(from + half - border)
      BY <1>1, <2>2, <2>3, <2>4 DEF CenterAxis
    <2>6. ToInt(from + half - border) \in Int /\ ToInt(from + half - border) >= from - size - Half
      BY <1>3, <2>1, Words DEF ToInt
    <2> QED BY <1>3, <2>5, <2>6 DEF Reached, Lost
  <1> QED BY <1>2, <1>3

\* What is reached along an axis is not off by a whole word, wherever it is measured.
LEMMA NotAway ==
  ASSUME NEW from \in Nat, NEW extent \in Nat, 2 * (from + extent) < Half,
         NEW to \in Nat, NEW length \in Nat, 2 * (to + length) < Half,
         NEW at \in Int, NEW size \in Nat, 2 * size < Half, Reached(at, size, from, extent)
  PROVE  at > to + length - Word
  <1>1. CASE Meet(at, size, from, extent)
    BY <1>1, Words DEF Meet
  <1>2. CASE Lost(at, size, from, extent)
    BY <1>2, Words DEF Lost
  <1> QED BY <1>1, <1>2 DEF Reached

\* Along both axes.
LEMMA NotAwayFrom ==
  ASSUME session \in Sessions, Gentle, NEW j \in DOMAIN Screens, NEW k \in DOMAIN Screens,
         NEW g \in Rectangles, Sized(g), OnScreen(g, Screens[j])
  PROVE  /\ g.x > Screens[k].x + Screens[k].width - Word
         /\ g.y > Screens[k].y + Screens[k].height - Word
  <1> DEFINE s == Screens[j]
             t == Screens[k]
  <1>1. /\ s.x \in Nat /\ s.y \in Nat /\ s.width \in Nat /\ s.height \in Nat
        /\ 2 * (s.x + s.width) < Half /\ 2 * (s.y + s.height) < Half
        /\ t.x \in Nat /\ t.y \in Nat /\ t.width \in Nat /\ t.height \in Nat
        /\ 2 * (t.x + t.width) < Half /\ 2 * (t.y + t.height) < Half
    BY Panes
  <1> HIDE DEF s, t
  <1>2. /\ g.x \in Int /\ g.y \in Int /\ g.width \in Nat /\ g.height \in Nat
        /\ 2 * g.width < Half /\ 2 * g.height < Half
    BY DEF Rectangles, Sized
  <1>3. Reached(g.x, g.width, s.x, s.width) /\ Reached(g.y, g.height, s.y, s.height)
    BY DEF OnScreen, s
  <1> QED BY <1>1, <1>2, <1>3, NotAway DEF t

\* The client that is adopted by a screen meets it.
LEMMA AdoptHome ==
  ASSUME Inv, Gentle, NEW c \in Client, NEW r, IsClient(r), r.strut \in Struts,
         r.geometry \in Rectangles, Reachable(r), NEW i \in DOMAIN Screens,
         Len(Screens) = 1 => r.screen = i,
         r.geometry.x > Screens[i].x + Screens[i].width - Word,
         r.geometry.y > Screens[i].y + Screens[i].height - Word
  PROVE  AtHome(screen_adopt(c, r, i)) /\ screen_adopt(c, r, i).screen = i
  <1> DEFINE moved == [r EXCEPT !.screen = i]
             area == AreaOf(c, moved)
             g == Adopted(r.geometry, area)
             told == client_move_resize([moved EXCEPT !.geometry = g])
             t == screen_adopt(c, r, i)
             s == Screens[i]
  <1>1. /\ IsClient(moved) /\ moved.screen = i /\ moved.geometry = r.geometry
        /\ moved.saved = r.saved /\ moved.flags = r.flags
        /\ moved.hints = r.hints /\ moved.strut = r.strut
    BY DEF IsClient, Fields
  <1>2. t = IF g = r.geometry THEN moved ELSE told
    BY DEF screen_adopt
  <1> HIDE DEF moved, t
  <1>3. /\ area.x \in Nat /\ area.y \in Nat /\ area.width \in Nat /\ area.height \in Nat
        /\ s.x <= area.x /\ area.x + area.width <= s.x + s.width
        /\ s.y <= area.y /\ area.y + area.height <= s.y + s.height
    BY <1>1, AreaWithin
  <1>4. /\ s.x \in Nat /\ s.y \in Nat /\ s.width \in Nat /\ s.height \in Nat
        /\ s.x + s.width < Half /\ s.y + s.height < Half
    <2>1. /\ s.x \in Nat /\ s.y \in Nat /\ s.width \in Nat /\ s.height \in Nat
          /\ 2 * (s.x + s.width) < Half /\ 2 * (s.y + s.height) < Half
      BY Panes DEF Inv
    <2> HIDE DEF s
    <2> QED BY <2>1, Words
  <1>5. /\ r.geometry.x \in Int /\ r.geometry.y \in Int
        /\ r.geometry.width \in Nat /\ r.geometry.height \in Nat
        /\ 2 * r.geometry.width < Half /\ 2 * r.geometry.height < Half
        /\ r.geometry.x > s.x + s.width - Word /\ r.geometry.y > s.y + s.height - Word
    BY DEF Rectangles, Reachable, Sized
  <1> HIDE DEF area, s
  <1> DEFINE x == AdoptAxis(r.geometry.x, r.geometry.width, area.x, area.width)
             y == AdoptAxis(r.geometry.y, r.geometry.height, area.y, area.height)
  <1>6. Meet(x, r.geometry.width, s.x, s.width) /\ Meet(y, r.geometry.height, s.y, s.height)
    BY <1>3, <1>4, <1>5, AdoptReaches
  <1> HIDE DEF x, y
  <1>7. /\ g.x = x /\ g.y = y
        /\ g.width = r.geometry.width /\ g.height = r.geometry.height
    BY DEF Adopted, x, y, Rectangles
  <1> HIDE DEF g
  <1>8. /\ t.screen = i /\ t.geometry = g /\ t.saved = r.saved /\ t.flags = r.flags
        /\ t.hints = r.hints
    <2>1. /\ told.screen = i /\ told.geometry = g /\ told.saved = r.saved /\ told.flags = r.flags
          /\ told.hints = r.hints
      BY <1>1 DEF client_move_resize, IsClient, Fields
    <2> HIDE DEF told
    <2> QED BY <1>1, <1>2, <2>1
  <1> HIDE DEF told
  <1>9. OnScreen(g, s) /\ Sized(g)
    BY <1>5, <1>6, <1>7 DEF OnScreen, Reached, Sized
  <1>10. Uses(t) => Len(Screens) = 1 /\ OnScreen(t.saved, Screens[t.screen])
    BY <1>8 DEF Reachable, Uses
  <1> QED BY <1>8, <1>9, <1>10 DEF AtHome, Reachable, s, t

\* What the server has does not take a client away.
LEMMA HomeAlike ==
  ASSUME NEW t, NEW u, Alike(t, u)
  PROVE  (Reachable(u) => Reachable(t)) /\ (AtHome(u) => AtHome(t))
  BY DEF Alike, Reachable, AtHome, Uses

\* A client that is where it was saved and moved to a place that meets its screen.
LEMMA MovedHome ==
  ASSUME NEW r, Reachable(r), NEW t, t.screen = r.screen, t.hints = r.hints,
         t.flags \subseteq r.flags, Sized(t.geometry), OnScreen(t.geometry, Screens[r.screen]),
         t.saved = r.saved \/ (t.saved = r.geometry /\ OnScreen(r.geometry, Screens[r.screen]))
  PROVE  AtHome(t)
  <1>1. Uses(t) => Uses(r)
    BY DEF Uses
  <1> QED BY <1>1 DEF AtHome, Reachable

\* function_window_center.
LEMMA CenterHome ==
  ASSUME Inv, Gentle, "window-center" \in Bound, NEW c \in Client, NEW r, Sound(r), AtHome(r)
  PROVE  AtHome(function_window_center(c, r))
  <1> DEFINE s == Screens[r.screen]
             g == Centered(r.geometry, AreaOf(c, r), r.border)
             t == function_window_center(c, r)
  <1>1. Struts = {NoStrut} /\ Requests = {}
    BY DEF Gentle, Kept
  <1>2. /\ r.geometry \in Rectangles /\ r.screen \in DOMAIN Screens /\ r.strut = NoStrut
        /\ Bordered(r)
    BY <1>1 DEF Sound, Shaped
  <1>3. AreaOf(c, r) = s
    BY <1>1, <1>2, FreeArea, FreeIsScreen DEF Inv
  <1>4. /\ s.x \in Nat /\ s.y \in Nat /\ s.width \in Nat /\ s.height \in Nat
        /\ 2 * (s.x + s.width) < Half /\ 2 * (s.y + s.height) < Half
        /\ 2 * BorderWidth < s.width /\ 2 * BorderWidth < s.height
    BY <1>2, Panes, Glass DEF Inv
  <1> HIDE DEF s
  <1>5. r.border \in Nat /\ 2 * r.border < s.width /\ 2 * r.border < s.height
    BY <1>2, <1>4, PlacementAssumption DEF Bordered
  <1>6. /\ r.geometry.width \in Nat /\ r.geometry.height \in Nat
        /\ 2 * r.geometry.width < Half /\ 2 * r.geometry.height < Half
    BY <1>2 DEF AtHome, Reachable, Sized, Rectangles
  <1> DEFINE x == CenterAxis(r.geometry.width, s.x, s.width, r.border)
             y == CenterAxis(r.geometry.height, s.y, s.height, r.border)
  <1>7. Reached(x, r.geometry.width, s.x, s.width) /\ Reached(y, r.geometry.height, s.y, s.height)
    BY <1>4, <1>5, <1>6, CenterReaches
  <1> HIDE DEF x, y
  <1>8. g.x = x /\ g.y = y /\ g.width = r.geometry.width /\ g.height = r.geometry.height
    BY <1>2, <1>3 DEF Centered, x, y, Rectangles
  <1> HIDE DEF g
  <1>9. /\ t.screen = r.screen /\ t.hints = r.hints /\ t.flags = r.flags \ {"MAXIMIZED"}
        /\ t.geometry = g /\ t.saved = r.geometry
    BY DEF function_window_center, client_move_resize, Reset, Sound, IsClient, Fields, g
  <1> HIDE DEF t
  <1>10. OnScreen(g, Screens[r.screen]) /\ Sized(g)
    BY <1>6, <1>7, <1>8 DEF OnScreen, Sized, s
  <1> QED BY <1>9, <1>10, MovedHome DEF AtHome, t

\* client_restore.
LEMMA RestoreHome ==
  ASSUME Gentle, "window-restore" \in Bound, NEW c, NEW r, Sound(r), AtHome(r)
  PROVE  AtHome(client_restore(c, r))
  <1> DEFINE t == client_restore(c, r)
  <1>1. CASE r.saved.width = 0 \/ r.saved.height = 0
    BY <1>1 DEF client_restore
  <1>2. CASE ~(r.saved.width = 0 \/ r.saved.height = 0)
    <2>1. /\ t.screen = r.screen /\ t.hints = r.hints /\ t.flags = r.flags \ {"MAXIMIZED"}
          /\ t.geometry = r.saved /\ t.saved = r.saved
      BY <1>2 DEF client_restore, client_move_resize, Reset, Sound, IsClient, Fields
    <2> HIDE DEF t
    <2>2. OnScreen(r.saved, Screens[r.screen]) /\ Sized(r.saved)
      BY DEF AtHome, Reachable, Uses
    <2> QED BY <2>1, <2>2, MovedHome DEF AtHome, t
  <1> QED BY <1>1, <1>2

\* client_toggle_fullscreen, on the only screen.
LEMMA FullscreenHome ==
  ASSUME session \in Sessions, Gentle, Len(Screens) = 1, NEW c, NEW r, Sound(r), AtHome(r)
  PROVE  AtHome(client_toggle_fullscreen(c, r))
  <1> DEFINE t == client_toggle_fullscreen(c, r)
             u == Flipped(r)
  <1>1. CASE "FREEZE" \in r.flags /\ "FULLSCREEN" \notin r.flags
    BY <1>1 DEF client_toggle_fullscreen
  <1>2. CASE "FREEZE" \notin r.flags \/ "FULLSCREEN" \in r.flags
    <2>1. Alike(t, u)
      BY <1>2, FullscreenSound
    <2>2. /\ u.screen = r.screen /\ u.hints = r.hints
          /\ "FULLSCREEN" \in r.flags =>
               /\ u.geometry = r.saved /\ u.saved = r.saved
               /\ u.flags = r.flags \ {"FULLSCREEN", "FREEZE"}
          /\ "FULLSCREEN" \notin r.flags =>
               u.geometry = Screens[r.screen] /\ u.saved = r.geometry
      BY <1>2, FlippedSound
    <2> HIDE DEF t, u
    <2>3. CASE "FULLSCREEN" \in r.flags
      <3>1. OnScreen(r.saved, Screens[r.screen]) /\ Sized(r.saved)
        BY <2>3 DEF AtHome, Reachable, Uses
      <3>2. AtHome(u)
        BY <2>2, <2>3, <3>1, MovedHome DEF AtHome
      <3> QED BY <2>1, <3>2, HomeAlike DEF t
    <2>4. CASE "FULLSCREEN" \notin r.flags
      <3>1. Sized(Screens[r.screen]) /\ OnScreen(Screens[r.screen], Screens[r.screen])
        BY Panes DEF Sound, Shaped
      <3>2. AtHome(u)
        BY <2>2, <2>4, <3>1 DEF AtHome, Reachable
      <3> QED BY <2>1, <3>2, HomeAlike DEF t
    <2> QED BY <2>3, <2>4
  <1> QED BY <1>1, <1>2

\* What fills the area meets the screen.
LEMMA FillHome ==
  ASSUME Inv, Gentle, NEW c \in Client, NEW r, Sound(r)
  PROVE  LET g == Filling(AreaOf(c, r), r.border)
             s == Screens[r.screen]
         IN  /\ Sized(g) /\ OnScreen(g, s) /\ g.width \in Nat /\ g.height \in Nat
             /\ \A n \in Nat : Reached(g.x, n, s.x, s.width) /\ Reached(g.y, n, s.y, s.height)
  <1> DEFINE area == AreaOf(c, r)
             g == Filling(area, r.border)
             s == Screens[r.screen]
  <1>1. /\ area.x \in Nat /\ area.y \in Nat /\ area.width \in Nat /\ area.height \in Nat
        /\ s.x <= area.x /\ area.x + area.width <= s.x + s.width /\ Borders <= area.width
        /\ s.y <= area.y /\ area.y + area.height <= s.y + s.height /\ Borders <= area.height
    BY AreaWithin DEF Sound, Shaped
  <1>2. /\ s.x \in Nat /\ s.y \in Nat /\ s.width \in Nat /\ s.height \in Nat
        /\ 2 * (s.x + s.width) < Half /\ 2 * (s.y + s.height) < Half
    BY Panes DEF Inv, Sound, Shaped
  <1>3. r.border \in {0, BorderWidth} /\ BorderWidth \in Nat
    BY PlacementAssumption DEF Gentle, Sound, Bordered
  <1>4. 2 * r.border \in Nat /\ 2 * r.border <= Borders
    BY <1>3 DEF Borders
  <1> HIDE DEF area, s
  <1> DEFINE edge == 2 * r.border
  <1> HIDE DEF edge
  <1>5. ASSUME NEW n \in Nat, Borders <= n PROVE Minus(n, edge) \in Nat /\ Minus(n, edge) <= n
    <2>1. edge \in Nat /\ edge <= n
      BY <1>3, <1>4, <1>5 DEF edge, Borders
    <2> QED BY <2>1 DEF Minus
  <1>6. /\ g.x = area.x /\ g.y = area.y
        /\ g.width = Minus(area.width, edge) /\ g.height = Minus(area.height, edge)
    BY DEF Filling, Rectangle, edge
  <1> HIDE DEF g
  <1>7. /\ g.width \in Nat /\ g.height \in Nat
        /\ g.width <= area.width /\ g.height <= area.height
    BY <1>1, <1>5, <1>6
  <1>8. \A n \in Nat : /\ Meet(g.x, n, s.x, s.width) /\ Meet(g.y, n, s.y, s.height)
    BY <1>1, <1>2, <1>6 DEF Meet
  <1>9. Sized(g)
    <2>1. ASSUME NEW from \in Nat, NEW extent \in Nat, 2 * (from + extent) < Half,
                 NEW start \in Nat, NEW room \in Nat, NEW n \in Nat, n <= room,
                 from <= start, start + room <= from + extent
          PROVE  2 * n < Half
      BY <2>1, Words
    <2>2. 2 * g.width < Half
      BY <1>1, <1>2, <1>7, <2>1
    <2>3. 2 * g.height < Half
      BY <1>1, <1>2, <1>7, <2>1
    <2> QED BY <2>2, <2>3 DEF Sized
  <1> QED BY <1>7, <1>8, <1>9 DEF OnScreen, Reached, g, s, area


\* client_toggle_maximize, on the only screen.
LEMMA MaximizeHome ==
  ASSUME Inv, Gentle, Len(Screens) = 1, NEW c \in Client, NEW r, Sound(r), AtHome(r)
  PROVE  AtHome(client_toggle_maximize(c, r))
  <1> DEFINE t == client_toggle_maximize(c, r)
             g == Filling(AreaOf(c, r), r.border)
  <1>1. CASE "FREEZE" \in r.flags
    BY <1>1 DEF client_toggle_maximize
  <1>2. CASE "FREEZE" \notin r.flags /\ "MAXIMIZED" \in r.flags
    <2>1. /\ t.screen = r.screen /\ t.saved = r.saved /\ t.hints = r.hints
          /\ t.geometry \in {r.saved, r.geometry} /\ t.flags = r.flags \ {"MAXIMIZED"}
      BY <1>2 DEF client_toggle_maximize, client_move_resize, Reset, Sound, IsClient, Fields
    <2> HIDE DEF t
    <2>2. /\ OnScreen(r.saved, Screens[r.screen]) /\ Sized(r.saved)
          /\ OnScreen(r.geometry, Screens[r.screen]) /\ Sized(r.geometry)
      BY <1>2 DEF AtHome, Reachable, Uses
    <2> QED BY <2>1, <2>2, MovedHome DEF AtHome, t
  <1>3. CASE ~("FREEZE" \in r.flags) /\ ~("FREEZE" \notin r.flags /\ "MAXIMIZED" \in r.flags)
    <2>1. /\ t.screen = r.screen /\ t.saved = r.geometry /\ t.hints = r.hints
          /\ t.geometry = g
      BY <1>3 DEF client_toggle_maximize, client_move_resize, Sound, IsClient, Fields
    <2>2. Sized(g) /\ OnScreen(g, Screens[r.screen])
      BY FillHome
    <2> HIDE DEF t, g
    <2> QED BY <2>1, <2>2 DEF AtHome, Reachable, t
  <1> QED BY <1>1, <1>2, <1>3

\* Without hints a size is not below one.
LEMMA LeastSize ==
  ASSUME NEW g \in Rectangles, g.width < Word, g.height < Word
  PROVE  client_apply_size_hints(g, Defaults) =
           [g EXCEPT !.width = Larger(@, 1), !.height = Larger(@, 1)]
  <1> DEFINE h == [desired |-> 0, min |-> 1, max |-> 0, increment |-> 1]
  <1>1. Defaults = [width |-> h, height |-> h, min_aspect |-> << >>, max_aspect |-> << >>]
    BY DEF Defaults, UpdatedHints, UpdatedAxis, NoHints, NoAxisHints, Larger
  <1>2. ASSUME NEW n \in Nat, n < Word PROVE Snapped(Minus(n, 0), h) = Larger(n, 1)
    <2>1. Minus(n, 0) = n /\ n % 1 = 0
      BY Words DEF Minus
    <2>2. Minus(n, 0) = n /\ Plus(n, 0) = n
      BY <1>2, Words DEF Minus, Plus
    <2> QED BY <2>1, <2>2 DEF Snapped
  <1>3. client_apply_size_hints(g, Defaults) =
          [g EXCEPT !.width = Snapped(Minus(@, 0), h), !.height = Snapped(Minus(@, 0), h)]
    BY <1>1 DEF client_apply_size_hints, WithAspect, Rectangles
  <1>4. g.width \in Nat /\ g.height \in Nat
    BY DEF Rectangles
  <1> HIDE DEF h
  <1>5. Snapped(Minus(g.width, 0), h) = Larger(g.width, 1)
    BY <1>2, <1>4
  <1>6. Snapped(Minus(g.height, 0), h) = Larger(g.height, 1)
    BY <1>2, <1>4
  <1> QED BY <1>3, <1>5, <1>6

\* So a window stays where it is reached.
LEMMA LeastHome ==
  ASSUME session \in Sessions, Gentle, NEW k \in DOMAIN Screens, NEW g \in Rectangles, Sized(g)
  PROVE  LET h == client_apply_size_hints(g, Defaults)
         IN  /\ Sized(h) /\ h \in Rectangles /\ h.x = g.x /\ h.y = g.y
             /\ OnScreen(g, Screens[k]) => OnScreen(h, Screens[k])
  <1> DEFINE h == client_apply_size_hints(g, Defaults)
             s == Screens[k]
  <1>1. /\ s.x \in Nat /\ s.y \in Nat /\ s.width \in Nat /\ s.height \in Nat
        /\ 2 * (s.x + s.width) < Half /\ 2 * (s.y + s.height) < Half
        /\ s.width > 0 /\ s.height > 0
    BY Panes
  <1> HIDE DEF s
  <1>2. /\ g.x \in Int /\ g.y \in Int /\ g.width \in Nat /\ g.height \in Nat
        /\ 2 * g.width < Half /\ 2 * g.height < Half
    BY DEF Rectangles, Sized
  <1>3. g.width < Word /\ g.height < Word /\ 2 < Half
    BY <1>1, <1>2, Words
  <1>4. h = [g EXCEPT !.width = Larger(@, 1), !.height = Larger(@, 1)]
    BY <1>3, LeastSize
  <1> HIDE DEF h
  <1>5. /\ h.x = g.x /\ h.y = g.y /\ h \in Rectangles
        /\ h.width = Larger(g.width, 1) /\ h.height = Larger(g.height, 1)
    BY <1>2, <1>4 DEF Rectangles, Larger
  <1>6. Sized(h)
    BY <1>2, <1>3, <1>5 DEF Sized, Larger
  <1>7. ASSUME NEW at \in Int, NEW size \in Nat, NEW from \in Nat, NEW extent \in Nat, extent > 0,
               Reached(at, size, from, extent)
        PROVE  Reached(at, Larger(size, 1), from, extent)
    <2>1. CASE size > 0
      BY <1>7, <2>1 DEF Larger
    <2>2. CASE size = 0
      <3>1. ~Lost(at, size, from, extent)
        BY <1>7, <2>2 DEF Lost
      <3>2. Larger(size, 1) = 1
        BY <2>2 DEF Larger
      <3> QED BY <1>7, <2>2, <3>1, <3>2 DEF Reached, Meet
    <2> QED BY <2>1, <2>2
  <1>8. OnScreen(g, s) => OnScreen(h, s)
    BY <1>1, <1>2, <1>5, <1>7 DEF OnScreen
  <1> QED BY <1>5, <1>6, <1>8 DEF h, s

\* A tile lies in the area, so on the screen.
LEMMA TileReaches ==
  ASSUME NEW from \in Nat, NEW extent \in Nat, 2 * (from + extent) < Half,
         NEW start \in Nat, NEW room \in Nat, from <= start, start + room <= from + extent,
         NEW border \in Nat, 6 * border <= room, NEW part \in Parts
  PROVE  LET at   == ToInt(Plus(ToUnsigned(start), Offset(part, room)))
             size == Minus(Share(part, room), 2 * border)
         IN  /\ at \in Int /\ size \in Nat /\ 2 * size < Half
             /\ Meet(at, size, from, extent)
  <1> DEFINE half  == room \div 2
             third == room \div 3
             edge  == 2 * border
             m     == Offset(part, room)
             n     == Share(part, room)
             at    == ToInt(Plus(ToUnsigned(start), m))
             size  == Minus(n, edge)
  <1>1. /\ half \in Nat /\ third \in Nat /\ edge \in Nat
        /\ 2 * half <= room /\ 3 * third <= room /\ third <= half /\ edge <= third
    OBVIOUS
  <1>2. \/ m = 0 /\ n = half
        \/ m = 0 /\ n = third
        \/ m = half /\ n = half
        \/ m = room - third /\ n = third
        \/ m = 0 /\ n = room
    BY DEF Parts, Offset, Share
  <1> HIDE DEF half, third, edge, m, n
  <1>3. m \in Nat /\ n \in Nat /\ n >= edge /\ m + n <= room
    BY <1>1, <1>2
  <1>4. at = start + m
    BY <1>3, Words DEF ToInt, Plus, ToUnsigned
  <1>5. size = n - edge
    BY <1>1, <1>3 DEF Minus
  <1> HIDE DEF at, size
  <1>6. at \in Int /\ size \in Nat /\ at >= start /\ at + size <= start + room
    BY <1>1, <1>3, <1>4, <1>5
  <1>7. 2 * size < Half
    BY <1>6, Words
  <1>8. Meet(at, size, from, extent)
    BY <1>6 DEF Meet
  <1> QED BY <1>6, <1>7, <1>8 DEF at, size, m, n, edge

\* function_window_tile.
LEMMA TileHome ==
  ASSUME Inv, Gentle, "window-tile" \in Bound, NEW c \in Client, NEW r, Sound(r), AtHome(r),
         NEW hpart \in Parts, NEW vpart \in Parts
  PROVE  AtHome(function_window_tile(c, r, hpart, vpart))
  <1> DEFINE area == AreaOf(c, r)
             g == Tiled(area, r.border, hpart, vpart)
             h == client_apply_size_hints(g, Defaults)
             t == function_window_tile(c, r, hpart, vpart)
             s == Screens[r.screen]
  <1>1. /\ area.x \in Nat /\ area.y \in Nat /\ area.width \in Nat /\ area.height \in Nat
        /\ s.x <= area.x /\ area.x + area.width <= s.x + s.width /\ Borders <= area.width
        /\ s.y <= area.y /\ area.y + area.height <= s.y + s.height /\ Borders <= area.height
    BY AreaWithin DEF Sound, Shaped
  <1>2. /\ s.x \in Nat /\ s.y \in Nat /\ s.width \in Nat /\ s.height \in Nat
        /\ 2 * (s.x + s.width) < Half /\ 2 * (s.y + s.height) < Half
    BY Panes DEF Inv, Sound, Shaped
  <1>3. r.border \in Nat /\ 6 * r.border <= Borders /\ Borders \in Nat
    <2>1. r.border \in {0, BorderWidth} /\ BorderWidth \in Nat
      BY PlacementAssumption DEF Gentle, Sound, Bordered
    <2> QED BY <2>1 DEF Borders
  <1> HIDE DEF area, s
  <1>4. 6 * r.border <= area.width /\ 6 * r.border <= area.height
    BY <1>1, <1>3
  <1> DEFINE x == ToInt(Plus(ToUnsigned(area.x), Offset(hpart, area.width)))
             y == ToInt(Plus(ToUnsigned(area.y), Offset(vpart, area.height)))
             width == Minus(Share(hpart, area.width), 2 * r.border)
             height == Minus(Share(vpart, area.height), 2 * r.border)
  <1>5. x \in Int /\ width \in Nat /\ 2 * width < Half /\ Meet(x, width, s.x, s.width)
    BY <1>1, <1>2, <1>3, <1>4, TileReaches
  <1>6. y \in Int /\ height \in Nat /\ 2 * height < Half /\ Meet(y, height, s.y, s.height)
    BY <1>1, <1>2, <1>3, <1>4, TileReaches
  <1>7. g = [x |-> x, y |-> y, width |-> width, height |-> height]
    BY DEF Tiled, Rectangle
  <1> HIDE DEF x, y, width, height, g
  <1>8. g \in Rectangles /\ Sized(g) /\ OnScreen(g, s)
    BY <1>5, <1>6, <1>7 DEF Rectangles, Sized, OnScreen, Reached
  <1>9. Sized(h) /\ OnScreen(h, s)
    BY <1>8, LeastHome DEF s, Inv, Sound, Shaped
  <1>10. /\ t.screen = r.screen /\ t.hints = r.hints /\ t.flags = r.flags \ {"MAXIMIZED"}
         /\ t.geometry = h /\ t.saved = r.geometry
    BY DEF function_window_tile, client_move_resize, Reset, Sound, IsClient, Fields, AtHome,
           Reachable, g, area
  <1> HIDE DEF t, h
  <1> QED BY <1>9, <1>10, MovedHome DEF AtHome, t, s

\* A window keeps its distance from the beginning of the area when it is sent to another.
LEMMA SendReaches ==
  ASSUME NEW from \in Nat, NEW extent \in Nat, 2 * (from + extent) < Half,
         NEW to \in Nat, NEW length \in Nat, 2 * (to + length) < Half,
         NEW old \in Nat, from <= old, old <= from + extent, NEW new \in Nat, to <= new,
         NEW at \in Int, NEW size \in Nat, 2 * size < Half, Reached(at, size, from, extent),
         "window-center" \in Bound => old = from
  PROVE  new + (at - old) > to + length - Word
  <1>1. CASE Meet(at, size, from, extent)
    BY <1>1, Words DEF Meet
  <1>2. CASE Lost(at, size, from, extent)
    <2>1. old = from
      BY <1>2 DEF Lost
    <2> QED BY <1>2, <2>1, Words DEF Lost
  <1> QED BY <1>1, <1>2 DEF Reached

\* function_window_move_to_screen.
LEMMA SendHome ==
  ASSUME Inv, Gentle, NEW c \in Client, NEW r, Sound(r), AtHome(r), NEW d
  PROVE  AtHome(function_window_move_to_screen(c, r, d))
  <1> DEFINE i     == screen_find(d, r.screen)
             away  == [r EXCEPT !.screen = i, !.strut = NoStrut]
             old   == AreaOf(c, r)
             new   == AreaOf(c, away)
             g     == [r.geometry EXCEPT !.x = new.x + (@ - old.x), !.y = new.y + (@ - old.y)]
             moved == client_move_resize([r EXCEPT !.geometry = g])
             s == Screens[r.screen]
             u == Screens[i]
  <1>1. function_window_move_to_screen(c, r, d) = IF i = 0 THEN r ELSE screen_adopt(c, moved, i)
    <2> DEFINE across == [r EXCEPT !.geometry.x = new.x + (@ - old.x),
                                   !.geometry.y = new.y + (@ - old.y)]
    <2>1. function_window_move_to_screen(c, r, d) =
            IF i = 0 THEN r ELSE screen_adopt(c, client_move_resize(across), i)
      BY DEF function_window_move_to_screen
    <2> HIDE DEF i, old, new
    <2>2. across = [r EXCEPT !.geometry = g]
      BY DEF Sound, IsClient, Fields
    <2> QED BY <2>1, <2>2
  <1>2. i # 0 => i \in DOMAIN Screens
    BY FirstFound DEF screen_find, Inv
  <1> HIDE DEF i
  <1>3. CASE i = 0
    BY <1>1, <1>3
  <1>4. CASE i # 0
    <2>1. /\ r.geometry \in Rectangles /\ r.screen \in DOMAIN Screens /\ r.strut \in Struts
          /\ i \in DOMAIN Screens /\ IsClient(r) /\ session \in Sessions
      BY <1>2, <1>4 DEF Sound, Shaped, Inv
    <2>2. away.screen = i /\ away.strut = NoStrut /\ NoStrut \in Struts
      BY <2>1, Given DEF IsClient, Fields
    <2> HIDE DEF away
    <2>3. /\ old.x \in Nat /\ old.y \in Nat /\ old.width \in Nat /\ old.height \in Nat
          /\ s.x <= old.x /\ old.x + old.width <= s.x + s.width
          /\ s.y <= old.y /\ old.y + old.height <= s.y + s.height
      BY <2>1, AreaWithin
    <2>4. new.x \in Nat /\ new.y \in Nat /\ u.x <= new.x /\ u.y <= new.y
      BY <2>1, <2>2, AreaWithin
    <2>5. /\ s.x \in Nat /\ s.y \in Nat /\ s.width \in Nat /\ s.height \in Nat
          /\ 2 * (s.x + s.width) < Half /\ 2 * (s.y + s.height) < Half
          /\ u.x \in Nat /\ u.y \in Nat /\ u.width \in Nat /\ u.height \in Nat
          /\ 2 * (u.x + u.width) < Half /\ 2 * (u.y + u.height) < Half
      BY <2>1, Panes
    <2>6. "window-center" \in Bound => old = s
      <3> SUFFICES ASSUME "window-center" \in Bound PROVE old = s
        OBVIOUS
      <3>1. Struts = {NoStrut}
        BY DEF Gentle, Kept
      <3> QED BY <2>1, <3>1, FreeArea, FreeIsScreen
    <2> HIDE DEF old, new, s, u
    <2>7. /\ r.geometry.x \in Int /\ r.geometry.y \in Int
          /\ r.geometry.width \in Nat /\ r.geometry.height \in Nat
          /\ 2 * r.geometry.width < Half /\ 2 * r.geometry.height < Half
      BY <2>1 DEF Rectangles, AtHome, Reachable, Sized
    <2>8. /\ Reached(r.geometry.x, r.geometry.width, s.x, s.width)
          /\ Reached(r.geometry.y, r.geometry.height, s.y, s.height)
      BY DEF AtHome, OnScreen, s
    <2> DEFINE x == new.x + (r.geometry.x - old.x)
               y == new.y + (r.geometry.y - old.y)
    <2>9. x > u.x + u.width - Word
      <3>1. old.x <= s.x + s.width
        BY <2>3, <2>5
      <3> QED BY <2>3, <2>4, <2>5, <2>6, <2>7, <2>8, <3>1, SendReaches
    <2>10. y > u.y + u.height - Word
      <3>1. old.y <= s.y + s.height
        BY <2>3, <2>5
      <3> QED BY <2>3, <2>4, <2>5, <2>6, <2>7, <2>8, <3>1, SendReaches
    <2>11. /\ IsClient(moved) /\ moved.screen = r.screen /\ moved.strut = r.strut
           /\ moved.saved = r.saved /\ moved.flags = r.flags /\ moved.hints = r.hints
           /\ moved.geometry = g
      BY <2>1 DEF client_move_resize, IsClient, Fields
    <2>12. x \in Int /\ y \in Int /\ g = [r.geometry EXCEPT !.x = x, !.y = y]
      BY <2>1, <2>3, <2>4, <2>7 DEF Rectangles
    <2> HIDE DEF moved, x, y, g
    <2>13. /\ moved.geometry \in Rectangles /\ moved.geometry.x = x /\ moved.geometry.y = y
           /\ Sized(moved.geometry)
      BY <2>1, <2>7, <2>11, <2>12 DEF Rectangles, Sized
    <2>14. Reachable(moved)
      BY <2>11, <2>13 DEF AtHome, Reachable, Uses
    <2>15. Len(Screens) = 1 => moved.screen = i
      <3>1. DOMAIN Screens = 1 .. Len(Screens)
        BY <2>1, Glass
      <3> QED BY <2>1, <2>11, <3>1
    <2>16. /\ moved.geometry.x > Screens[i].x + Screens[i].width - Word
           /\ moved.geometry.y > Screens[i].y + Screens[i].height - Word
      BY <2>9, <2>10, <2>13 DEF u
    <2>17. AtHome(screen_adopt(c, moved, i))
      BY <2>1, <2>11, <2>13, <2>14, <2>15, <2>16, AdoptHome
    <2> QED BY <1>1, <1>4, <2>17
  <1> QED BY <1>3, <1>4

\* client_toggle_hmaximize brings a window back along the axis it fills.
LEMMA AcrossHome ==
  ASSUME Inv, Gentle, NEW c \in Client, NEW r, Sound(r), Reachable(r),
         LET s == Screens[r.screen]
         IN  Reached(r.geometry.y, r.geometry.height, s.y, s.height),
         "FREEZE" \in r.flags => AtHome(r)
  PROVE  AtHome(client_toggle_hmaximize(c, r))
  <1> DEFINE t == client_toggle_hmaximize(c, r)
             full == Filling(AreaOf(c, r), r.border)
             s == Screens[r.screen]
  <1>1. CASE "FREEZE" \in r.flags
    BY <1>1 DEF client_toggle_hmaximize
  <1>2. CASE "FREEZE" \notin r.flags
    <2>1. /\ t.screen = r.screen /\ t.saved = r.saved /\ t.hints = r.hints /\ t.flags = r.flags
          /\ t.geometry.x = full.x /\ t.geometry.width = full.width
          /\ t.geometry.y = r.geometry.y /\ t.geometry.height = r.geometry.height
      BY <1>2 DEF client_toggle_hmaximize, client_move_resize, Sound, Shaped, IsClient, Fields,
                  Rectangles
    <2>2. Sized(full) /\ OnScreen(full, s)
      BY FillHome
    <2> HIDE DEF t, full
    <2>3. OnScreen(t.geometry, Screens[t.screen]) /\ Sized(t.geometry)
      BY <2>1, <2>2 DEF OnScreen, Reachable, Sized
    <2> QED BY <2>1, <2>3 DEF AtHome, Reachable, Uses, t
  <1> QED BY <1>1, <1>2

\* client_toggle_vmaximize does so along the other, and may lose it along this one.
LEMMA UprightHome ==
  ASSUME Inv, Gentle, NEW c \in Client, NEW r, Sound(r), Reachable(r), "FREEZE" \notin r.flags
  PROVE  LET t == client_toggle_vmaximize(c, r)
             s == Screens[r.screen]
         IN  /\ Reachable(t) /\ t.screen = r.screen
             /\ Reached(t.geometry.y, t.geometry.height, s.y, s.height)
  <1> DEFINE t == client_toggle_vmaximize(c, r)
             full == Filling(AreaOf(c, r), r.border)
             s == Screens[r.screen]
  <1>1. /\ t.screen = r.screen /\ t.saved = r.saved /\ t.hints = r.hints /\ t.flags = r.flags
        /\ t.geometry.y = full.y /\ t.geometry.width = full.height
        /\ t.geometry.height = r.geometry.height
    BY DEF client_toggle_vmaximize, client_move_resize, Sound, Shaped, IsClient, Fields, Rectangles
  <1>2. Sized(full) /\ \A n \in Nat : Reached(full.y, n, s.y, s.height)
    BY FillHome
  <1>3. r.geometry.height \in Nat
    BY DEF Sound, Shaped, Rectangles
  <1> HIDE DEF t, full
  <1>4. Reached(t.geometry.y, t.geometry.height, s.y, s.height) /\ Sized(t.geometry)
    BY <1>1, <1>2, <1>3 DEF Reachable, Sized
  <1> QED BY <1>1, <1>4 DEF Reachable, Uses, t

\* The hints of a window that gives none.
LEMMA NoHintsLeft ==
  ASSUME NEW hints \in {NoHints, Defaults}
  PROVE  UpdatedHints(hints, NoHints) = Defaults
  <1> DEFINE h == [desired |-> 0, min |-> 1, max |-> 0, increment |-> 1]
  <1>1. Defaults = [width |-> h, height |-> h, min_aspect |-> << >>, max_aspect |-> << >>]
    BY DEF Defaults, UpdatedHints, UpdatedAxis, NoHints, NoAxisHints, Larger
  <1>2. CASE hints = NoHints
    BY <1>2 DEF Defaults
  <1>3. CASE hints = Defaults
    BY <1>1, <1>3 DEF UpdatedHints, UpdatedAxis, NoHints, NoAxisHints, Larger
  <1> QED BY <1>2, <1>3

\* client_update_size_hints, when WM_NORMAL_HINTS changes.
LEMMA HintsHome ==
  ASSUME Inv, Gentle, NEW r, Sound(r), Reachable(r), NEW given \in SizeHints
  PROVE  LET t == client_update_size_hints(r, given)
         IN  /\ Reachable(t) /\ t.screen = r.screen
             /\ OnScreen(r.geometry, Screens[r.screen]) => OnScreen(t.geometry, Screens[r.screen])
  <1> DEFINE t == client_update_size_hints(r, given)
             g == client_apply_size_hints(r.geometry, Defaults)
  <1>1. UpdatedHints(r.hints, given) = Defaults
    BY NoHintsLeft DEF Gentle, Kept, Reachable
  <1>2. /\ t.screen = r.screen /\ t.saved = r.saved /\ t.flags = r.flags
        /\ t.hints = Defaults /\ t.geometry = g
    BY <1>1, HintsSound
  <1>3. Sized(g) /\ (OnScreen(r.geometry, Screens[r.screen]) => OnScreen(g, Screens[r.screen]))
    BY LeastHome DEF Inv, Sound, Shaped, Reachable
  <1> HIDE DEF t, g
  <1> QED BY <1>2, <1>3 DEF Reachable, Uses, t

\* A client that client_init has made of a window.
LEMMA InitsHome ==
  ASSUME Inv, Gentle, NEW c \in Client, NEW w \in Attributes, NEW r \in Inits(c, w)
  PROVE  AtHome(r)
  <1>1. PICK atoms \in NetStates, strut \in Struts, given \in SizeHints :
          r = Initialized(c, w, atoms, strut, given)
    BY DEF Inits
  <1> DEFINE window   == w.geometry
             fresh    == [screen |-> screen_for_client(window), geometry |-> window,
                          saved |-> window, border |-> BorderWidth, flags |-> {},
                          strut |-> NoStrut, hints |-> NoHints, window |-> w]
             hinted   == client_update_size_hints(fresh, given)
             adopted  == screen_adopt(c, hinted, fresh.screen)
             v == IF "VMAXIMIZED" \in atoms THEN client_toggle_vmaximize(c, adopted) ELSE adopted
             h == IF "HMAXIMIZED" \in atoms THEN client_toggle_hmaximize(c, v) ELSE v
             f == IF "FULLSCREEN" \in atoms THEN client_toggle_fullscreen(c, h) ELSE h
             restored == [f EXCEPT !.strut = strut]
             ignored  == [restored EXCEPT !.flags = @ \cup {"IGNORE"}, !.border = 0]
             home == screen_for_client(window)
  <1>2. window \in Rectangles /\ home \in DOMAIN Screens /\ session \in Sessions
    BY SomeScreen, Given DEF Inv, Windows
  <1>3. Sized(window) /\ window.x >= -Half /\ window.y >= -Half
    <2>1. window \in Geometries
      BY <1>2, PlacementAssumption DEF Attributes
    <2>2. window.x >= -Half /\ window.y >= -Half
      BY <2>1, Words DEF Geometries, Signed
    <2>3. Sized(window)
      BY DEF Gentle, Kept, Modest
    <2> QED BY <2>2, <2>3
  <1> HIDE DEF window, home
  <1>4. Sound(hinted) /\ hinted.flags = {}
    BY FreshSound, Given DEF window, Inv
  <1> DEFINE g == client_apply_size_hints(window, Defaults)
  <1>5. Sized(g) /\ g.x = window.x /\ g.y = window.y
    BY <1>2, <1>3, LeastHome
  <1>6. /\ hinted.screen = home /\ hinted.saved = window /\ hinted.hints = Defaults
        /\ hinted.geometry = g
    <2>1. UpdatedHints(NoHints, given) = Defaults
      BY NoHintsLeft DEF Gentle, Kept
    <2> QED BY <2>1 DEF client_update_size_hints, client_move_resize, home
  <1>7. fresh.screen = home
    BY DEF home
  <1> HIDE DEF hinted, g, fresh
  <1>8. Reachable(hinted)
    <2>1. ASSUME "window-restore" \in Bound
          PROVE  Len(Screens) = 1 /\ OnScreen(window, Screens[home])
      <3>1. Len(Screens) = 1
        BY <2>1 DEF Gentle, Kept, Savers
      <3>2. Touches(window, Screens[home])
        BY <1>2, <2>1 DEF Gentle, Kept, window
      <3> QED BY <3>1, <3>2 DEF Touches, OnScreen, Reached
    <2>2. Uses(hinted) => "window-restore" \in Bound
      BY <1>4 DEF Uses
    <2> QED BY <1>3, <1>5, <1>6, <2>1, <2>2 DEF Reachable
  <1>9. AtHome(adopted) /\ Sound(adopted) /\ adopted.flags = {}
    <2>1. /\ hinted.geometry.x > Screens[home].x + Screens[home].width - Word
          /\ hinted.geometry.y > Screens[home].y + Screens[home].height - Word
      <3> DEFINE s == Screens[home]
      <3>1. /\ s.x \in Nat /\ s.y \in Nat /\ s.width \in Nat /\ s.height \in Nat
            /\ 2 * (s.x + s.width) < Half /\ 2 * (s.y + s.height) < Half
        BY <1>2, Panes
      <3> HIDE DEF s
      <3>2. g.x \in Int /\ g.y \in Int
        BY <1>2, <1>5 DEF Rectangles
      <3>3. g.x >= -Half /\ g.y >= -Half
        BY <1>3, <1>5
      <3>4. Word \in Nat /\ Half \in Nat /\ Word = 2 * Half /\ Half > 0
        BY Words
      <3>5. g.x > s.x + s.width - Word /\ g.y > s.y + s.height - Word
        BY <3>1, <3>2, <3>3, <3>4
      <3> QED BY <1>6, <3>5 DEF s
    <2>2. IsClient(hinted) /\ hinted.strut \in Struts /\ hinted.geometry \in Rectangles
      BY <1>4 DEF Sound, Shaped
    <2>3. AtHome(adopted)
      BY <1>2, <1>6, <1>7, <1>8, <2>1, <2>2, AdoptHome
    <2>4. "MAXIMIZED" \notin hinted.flags
      BY <1>4
    <2> QED BY <1>2, <1>4, <1>7, <2>3, <2>4, AdoptSound
  <1> HIDE DEF adopted
  <1>10. AtHome(h) /\ Sound(h) /\ h.flags = {}
    <2>1. Sound(v) /\ v.flags = {} /\ Sound(h) /\ h.flags = {}
      <3>1. Sound(v) /\ v.flags = {}
        BY <1>9, ToggleSound
      <3> HIDE DEF v
      <3> QED BY <3>1, ToggleSound
    <2>2. CASE "VMAXIMIZED" \notin atoms
      <3>1. v = adopted
        BY <2>2
      <3> HIDE DEF v
      <3> QED BY <1>9, <2>1, <3>1, AcrossHome DEF AtHome, OnScreen
    <2>3. CASE "VMAXIMIZED" \in atoms
      <3>1. "HMAXIMIZED" \in atoms
        BY <2>3 DEF Gentle, Kept
      <3>2. /\ Reachable(v) /\ v.screen = adopted.screen
            /\ LET s == Screens[adopted.screen]
               IN  Reached(v.geometry.y, v.geometry.height, s.y, s.height)
        BY <1>9, <2>3, UprightHome DEF AtHome
      <3> HIDE DEF v
      <3> QED BY <2>1, <3>1, <3>2, AcrossHome
    <2> QED BY <2>1, <2>2, <2>3
  <1> HIDE DEF v, h
  <1>11. AtHome(f) /\ Sound(f)
    <2>1. "FULLSCREEN" \in atoms => Len(Screens) = 1
      BY DEF Gentle, Kept
    <2> QED BY <1>2, <1>10, <2>1, FullscreenHome, FullscreenSound
  <1> HIDE DEF f
  <1>12. AtHome(restored)
    <2>1. /\ restored.screen = f.screen /\ restored.saved = f.saved
          /\ restored.geometry = f.geometry /\ restored.flags = f.flags
          /\ restored.hints = f.hints
      BY <1>11 DEF Sound, IsClient, Fields
    <2> HIDE DEF restored
    <2> QED BY <1>11, <2>1 DEF AtHome, Reachable, Uses
  <1>13. AtHome(ignored)
    <2>1. /\ ignored.screen = f.screen /\ ignored.saved = f.saved
          /\ ignored.geometry = f.geometry /\ ignored.flags = f.flags \cup {"IGNORE"}
          /\ ignored.hints = f.hints
      BY <1>11 DEF Sound, IsClient, Fields
    <2> HIDE DEF ignored
    <2>2. Uses(ignored) => Uses(f)
      BY <2>1 DEF Uses
    <2> QED BY <1>11, <2>1, <2>2 DEF AtHome, Reachable
  <1> HIDE DEF ignored, restored
  <1>14. r = IF c \in Ignored THEN ignored ELSE restored
    BY <1>1 DEF Initialized, Restored, ignored, restored, f, h, v, adopted, hinted, fresh, window
  <1> QED BY <1>12, <1>13, <1>14

\* client_placement ends in the area or begins before its end by less than the window.
LEMMA PlaceReaches ==
  ASSUME NEW start \in Nat, NEW room \in Nat, 2 * (start + room) < Half,
         NEW to \in Nat, NEW length \in Nat, 2 * (to + length) < Half,
         NEW at \in Int, NEW size \in Nat, 2 * size < Half
  PROVE  PlaceAxis(at, size, start, room) > to + length - Word
  <1>1. End(start, room) = start + room
    BY Words DEF End, Plus, ToUnsigned
  <1>2. ToInt(Minus(start + room, size)) = start + room - size
    BY Words DEF ToInt, Minus
  <1> DEFINE low == IF at < start THEN start ELSE at
  <1>3. low \in Int /\ low >= 0
    OBVIOUS
  <1>4. PlaceAxis(at, size, start, room) \in {low, start + room - size}
    BY <1>1, <1>2 DEF PlaceAxis
  <1> HIDE DEF low
  <1> QED BY <1>3, <1>4, Words

\* What is cascaded has the size of the window beside it.
LEMMA CascadedSize ==
  ASSUME NEW existing \in Rectangles, NEW area \in Rectangles
  PROVE  \A g \in Cascaded(existing, area) :
           g.width = existing.width /\ g.height = existing.height
  <1> DEFINE beside == [existing EXCEPT !.x = @ + Fuzzy, !.y = @ + Fuzzy]
             xs == Somewhere(existing.x, existing.width, area.x, area.width, area.height)
             ys == Somewhere(existing.y, existing.height, area.y, area.height, area.height)
             At(x, y) == [beside EXCEPT !.x = x, !.y = y]
             fits == /\ End(beside.x, beside.width) <= End(area.x, area.width)
                     /\ End(beside.y, beside.height) <= End(area.y, area.height)
  <1>1. Cascaded(existing, area) = IF fits THEN {beside} ELSE {At(x, y) : x \in xs, y \in ys}
    BY DEF Cascaded
  <1>2. beside.width = existing.width /\ beside.height = existing.height
    BY DEF Rectangles
  <1>3. \A x, y : At(x, y).width = existing.width /\ At(x, y).height = existing.height
    BY DEF Rectangles
  <1> HIDE DEF xs, ys, fits, beside, At
  <1> QED BY <1>1, <1>2, <1>3

\* A client that client_placement has put somewhere, the last screen adopts and is shown.
LEMMA PlacementHome ==
  ASSUME Inv, Home, Gentle, NEW c \in Client, NEW r, Sound(r), AtHome(r),
         "MAXIMIZED" \notin r.flags, NEW p \in Points, NEW g \in client_placement(c, r, p)
  PROVE  AtHome(Shown(c, r, g))
  <1> DEFINE area == AreaOf(c, r)
             i == Len(Screens)
             t == client_move_resize([r EXCEPT !.geometry = g])
             s == Screens[i]
  <1>1. /\ r.geometry \in Rectangles /\ r.screen \in DOMAIN Screens /\ r.strut \in Struts
        /\ r.border \in Nat /\ 2 * r.border < Word /\ area \in Rectangles /\ IsClient(r)
        /\ session \in Sessions
    BY SoundArea DEF Sound, Shaped, Inv
  <1>2. i \in DOMAIN Screens /\ (i = 1 => r.screen = i)
    <2>1. DOMAIN Screens = 1 .. Len(Screens) /\ Len(Screens) > 0 /\ Len(Screens) \in Nat
      BY <1>1, Glass
    <2> QED BY <1>1, <2>1
  <1>3. Sound(t) /\ g \in Rectangles /\ "MAXIMIZED" \notin t.flags
    BY PlacementSound
  <1>4. /\ IsClient(t) /\ t.screen = r.screen /\ t.strut = r.strut /\ t.geometry = g
        /\ t.saved = r.saved /\ t.flags = r.flags /\ t.hints = r.hints
    BY <1>3, PutSound DEF Sound
  <1> HIDE DEF t, i
  <1>6. /\ s.x \in Nat /\ s.y \in Nat /\ s.width \in Nat /\ s.height \in Nat
        /\ 2 * (s.x + s.width) < Half /\ 2 * (s.y + s.height) < Half
    BY <1>1, <1>2, Panes
  <1>7. /\ area.x \in Nat /\ area.y \in Nat /\ area.width \in Nat /\ area.height \in Nat
        /\ 2 * (area.x + area.width) < Half /\ 2 * (area.y + area.height) < Half
    <2> DEFINE u == Screens[r.screen]
    <2>1. /\ area.x \in Nat /\ area.y \in Nat /\ area.width \in Nat /\ area.height \in Nat
          /\ area.x + area.width <= u.x + u.width /\ area.y + area.height <= u.y + u.height
      BY <1>1, AreaWithin
    <2>2. /\ u.x \in Nat /\ u.y \in Nat /\ u.width \in Nat /\ u.height \in Nat
          /\ 2 * (u.x + u.width) < Half /\ 2 * (u.y + u.height) < Half
      BY <1>1, Panes
    <2> HIDE DEF area, u
    <2>3. ASSUME NEW from \in Nat, NEW extent \in Nat, 2 * (from + extent) < Half,
                 NEW start \in Nat, NEW room \in Nat, start + room <= from + extent
          PROVE  2 * (start + room) < Half
      BY <2>3, Words
    <2>4. 2 * (area.x + area.width) < Half
      BY <2>1, <2>2, <2>3
    <2>5. 2 * (area.y + area.height) < Half
      BY <2>1, <2>2, <2>3
    <2> QED BY <2>1, <2>4, <2>5
  <1> HIDE DEF area
  <1>8. ASSUME NEW wish \in Rectangles, Sized(wish), g = Placed(wish, area)
        PROVE  /\ Sized(g)
               /\ g.x > s.x + s.width - Word /\ g.y > s.y + s.height - Word
    <2>1. /\ g.x = PlaceAxis(wish.x, wish.width, area.x, area.width)
          /\ g.y = PlaceAxis(wish.y, wish.height, area.y, area.height)
          /\ g.width = wish.width /\ g.height = wish.height
      BY <1>8 DEF Placed, Rectangles
    <2>2. /\ wish.x \in Int /\ wish.y \in Int /\ wish.width \in Nat /\ wish.height \in Nat
          /\ 2 * wish.width < Half /\ 2 * wish.height < Half
      BY <1>8 DEF Rectangles, Sized
    <2> HIDE DEF s
    <2>3. PlaceAxis(wish.x, wish.width, area.x, area.width) > s.x + s.width - Word
      BY <1>6, <1>7, <2>2, PlaceReaches
    <2>4. PlaceAxis(wish.y, wish.height, area.y, area.height) > s.y + s.height - Word
      BY <1>6, <1>7, <2>2, PlaceReaches
    <2> QED BY <2>1, <2>2, <2>3, <2>4 DEF Sized
  <1>9. Sized(r.geometry) /\ OnScreen(r.geometry, Screens[r.screen])
    BY DEF AtHome, Reachable
  <1>10. Sized(g) /\ g.x > s.x + s.width - Word /\ g.y > s.y + s.height - Word
    <2>1. CASE c \in Positioned
      <3>1. g = r.geometry
        BY <2>1 DEF client_placement
      <3> QED BY <1>1, <1>2, <1>9, <3>1, NotAwayFrom
    <2>2. CASE c \notin Positioned /\ Pointer
      <3> DEFINE wish == UnderPointer(r.geometry, p.x, p.y, r.border)
      <3>1. g = Placed(wish, area)
        BY <2>2 DEF client_placement, area
      <3>2. p.x \in Int /\ p.y \in Int
        BY Given DEF Inv
      <3>3. wish \in Rectangles
        BY <1>1, <3>2, Shapes
      <3>4. Sized(wish)
        BY <1>1, <1>9 DEF UnderPointer, Sized, Rectangles
      <3> HIDE DEF wish
      <3> QED BY <1>8, <3>1, <3>3, <3>4
    <2>3. CASE c \notin Positioned /\ ~Pointer
      <3>1. PICK wish \in (UNION Cascades(c, r)) \cup {Centered(r.geometry, area, r.border)} :
              g = Placed(wish, area)
        BY <2>3 DEF client_placement, area
      <3>2. CASE wish = Centered(r.geometry, area, r.border)
        <4>1. wish \in Rectangles
          BY <1>1, <3>2, Shapes
        <4>2. Sized(wish)
          BY <1>1, <1>9, <3>2 DEF Centered, Sized, Rectangles
        <4> QED BY <1>8, <3>1, <4>1, <4>2
      <3>3. CASE wish \in UNION Cascades(c, r)
        <4>1. PICK d \in Managed : wish \in Cascaded(clients[d].geometry, area)
          BY <3>3 DEF Cascades, area
        <4>2. clients[d].geometry \in Rectangles /\ Sized(clients[d].geometry)
          BY DEF Inv, Sound, Shaped, Home, Reachable
        <4>3. wish \in Rectangles
          BY <1>1, <4>1, <4>2, CascadedShapes
        <4>4. Sized(wish)
          BY <1>1, <4>1, <4>2, CascadedSize DEF Sized
        <4> QED BY <1>8, <3>1, <4>3, <4>4
      <3> QED BY <3>1, <3>2, <3>3
    <2> QED BY <2>1, <2>2, <2>3
  <1>11. Reachable(t)
    BY <1>4, <1>10 DEF AtHome, Reachable, Uses
  <1>12. AtHome(screen_adopt(c, t, i))
    BY <1>1, <1>2, <1>4, <1>3, <1>10, <1>11, AdoptHome DEF i
  <1>13. Sound(screen_adopt(c, t, i))
    BY <1>2, <1>3, AdoptSound
  <1>14. Alike(client_draw_border(screen_adopt(c, t, i)), screen_adopt(c, t, i))
    BY <1>13, Drawing
  <1> QED BY <1>12, <1>14, HomeAlike DEF Shown, t, i

\* function_window_move, with the pointer on the window.
LEMMA GrabHome ==
  ASSUME Inv, Gentle, "window-move" \in Bound, NEW c \in Client, NEW r, Sound(r), AtHome(r),
         NEW p \in Points, Shows(r.geometry, p),
         NEW d, d.kind = "move", d.x = p.x, d.y = p.y, d.top = AreaOf(c, r).y
  PROVE  AtHome([r EXCEPT !.saved = r.geometry]) /\ Held(d, [r EXCEPT !.saved = r.geometry])
  <1> DEFINE t == [r EXCEPT !.saved = r.geometry]
  <1>1. /\ t.screen = r.screen /\ t.hints = r.hints /\ t.flags = r.flags
        /\ t.geometry = r.geometry /\ t.saved = r.geometry
    BY DEF Sound, IsClient, Fields
  <1> HIDE DEF t
  <1>2. AtHome(t)
    BY <1>1, MovedHome DEF AtHome, Reachable
  <1>3. d.top = Screens[r.screen].y
    <2>1. Struts = {NoStrut}
      BY DEF Gentle, Kept
    <2>2. r.strut = NoStrut /\ r.screen \in DOMAIN Screens
      BY <2>1 DEF Sound, Shaped
    <2> QED BY <2>1, <2>2, FreeArea, FreeIsScreen DEF Inv
  <1>4. \E k \in DOMAIN Screens : Shows(Screens[k], p)
    BY PlacementAssumption DEF Inv, Points, Screens
  <1>5. Held(d, t)
    BY <1>1, <1>3, <1>4 DEF Held, Shows
  <1> QED BY <1>2, <1>5 DEF t

\* MotionNotify: the window stays under the pointer.
LEMMA MotionHome ==
  ASSUME Inv, Gentle, NEW r, Sound(r), Reachable(r), NEW p \in Points,
         NEW d \in Drags(Client), Held(d, r), NEW e, e = [d EXCEPT !.x = p.x, !.y = p.y],
         NEW g, g = [r.geometry EXCEPT !.x = @ + p.x - d.x,
                                       !.y = Larger(r.geometry.y + p.y - d.y, d.top)]
  PROVE  LET t == client_move_resize([Reset(r) EXCEPT !.geometry = g])
         IN  Reachable(t) /\ Held(e, t)
  <1> DEFINE t == client_move_resize([Reset(r) EXCEPT !.geometry = g])
             s == Screens[r.screen]
             h == r.geometry
  <1>1. /\ t.screen = r.screen /\ t.hints = r.hints /\ t.flags = r.flags \ {"MAXIMIZED"}
        /\ t.geometry = g /\ t.saved = r.saved
    BY DEF client_move_resize, Reset, Sound, IsClient, Fields
  <1> HIDE DEF t
  <1>2. h \in Rectangles /\ r.screen \in DOMAIN Screens
    BY DEF Sound, Shaped
  <1>3. /\ g.x = h.x + p.x - d.x /\ g.y = Larger(h.y + p.y - d.y, d.top)
        /\ g.width = h.width /\ g.height = h.height
    BY <1>2 DEF Rectangles
  <1>4. Reachable(t)
    <2>1. Sized(g)
      BY <1>3 DEF Reachable, Sized
    <2>2. Uses(t) => Uses(r)
      BY <1>1 DEF Uses
    <2> QED BY <1>1, <2>1, <2>2 DEF Reachable
  <1>5. /\ e.kind = "move" /\ e.x = p.x /\ e.y = p.y /\ e.top = d.top
        /\ d.x \in Int /\ d.y \in Int /\ p.x \in Int /\ p.y \in Int
    <2>1. d.x \in 0 .. Half - 1 /\ d.y \in 0 .. Half - 1 /\ p.x \in 0 .. Half - 1 /\ p.y \in 0 .. Half - 1
      BY Given DEF Drags, Inv
    <2> QED BY <2>1, Words DEF Drags, Held
  <1>6. PICK k \in DOMAIN Screens : Shows(Screens[k], p)
    BY PlacementAssumption DEF Inv, Points, Screens
  <1>7. d.top = Screens[k].y /\ d.top \in Int
    <2>1. InOneRow
      BY DEF Gentle, Kept, Held
    <2>2. Screens[k].y \in Nat
      BY Panes DEF Inv
    <2> QED BY <1>2, <2>1, <2>2 DEF Held, InOneRow
  <1>8. Shows(g, p)
    <2>1. /\ h.x \in Int /\ h.y \in Int /\ h.width \in Nat /\ h.height \in Nat
      BY <1>2 DEF Rectangles
    <2>2. /\ d.x >= h.x /\ d.x <= h.x + h.width - 1
          /\ d.y >= h.y /\ d.y <= h.y + h.height - 1
      BY <1>5, <2>1 DEF Held, Shows
    <2>3. p.y >= d.top
      <3>1. Screens[k].y \in Nat /\ Screens[k].height \in Nat
        BY Panes DEF Inv
      <3> QED BY <1>5, <1>6, <1>7, <3>1 DEF Shows
    <2> HIDE DEF h
    <2>4. g.x \in Int /\ g.x <= p.x /\ p.x <= g.x + g.width - 1
      BY <1>3, <1>5, <2>1, <2>2
    <2>5. g.y \in Int /\ g.y <= p.y /\ p.y <= g.y + g.height - 1
      BY <1>3, <1>5, <1>7, <2>1, <2>2, <2>3 DEF Larger
    <2>6. g.width \in Nat /\ g.height \in Nat
      BY <1>3, <2>1
    <2> QED BY <1>5, <2>4, <2>5, <2>6 DEF Shows
  <1>9. Held(e, t)
    <2>1. Shows(t.geometry, [x |-> e.x, y |-> e.y])
      BY <1>1, <1>5, <1>8 DEF Shows
    <2>2. Shows(Screens[k], [x |-> e.x, y |-> e.y])
      BY <1>5, <1>6 DEF Shows
    <2> QED BY <1>1, <1>5, <2>1, <2>2 DEF Held
  <1> QED BY <1>4, <1>9 DEF t

\* The middle of a window, as screen_for_client computes it.
LEMMA Middles ==
  ASSUME NEW at \in Int, NEW size \in Nat, 2 * size < Half, at > -Half, 2 * at < Half
  PROVE  ToInt(Middle(at, size)) = at + size \div 2
  <1> DEFINE half == size \div 2
  <1>1. half \in Nat /\ 2 * half <= size
    OBVIOUS
  <1> HIDE DEF half
  <1>2. CASE at >= 0
    BY <1>1, <1>2, Words DEF ToInt, Middle, Plus, ToUnsigned, half
  <1>3. CASE at < 0
    BY <1>1, <1>3, Words DEF ToInt, Middle, Plus, ToUnsigned, half
  <1> QED BY <1>2, <1>3

\* Its distance from the middle of a screen.
LEMMA Distances ==
  ASSUME NEW from \in Nat, NEW extent \in Nat, 2 * (from + extent) < Half,
         NEW at \in Int, 2 * at > -Half, at < Half
  PROVE  Distance(ToInt(Minus(Middle(from, extent), ToUnsigned(at))), 0)
           = IF from + extent \div 2 > at THEN from + extent \div 2 - at
                                          ELSE at - (from + extent \div 2)
  <1> DEFINE half == extent \div 2
  <1>1. half \in Nat /\ 2 * half <= extent
    OBVIOUS
  <1> HIDE DEF half
  <1>2. Middle(from, extent) = from + half
    BY <1>1, Words DEF Middle, Plus, ToUnsigned, half
  <1>3. ToInt(Minus(from + half, ToUnsigned(at))) = from + half - at
    BY <1>1, Words DEF ToInt, Minus, ToUnsigned
  <1> QED BY <1>1, <1>2, <1>3 DEF Distance, half

\* A window with the pointer on it meets the screen that its middle is nearest to, when
\* the pointer is on another one of the same size.
LEMMA NearestMeets ==
  ASSUME NEW at \in Int, NEW size \in Nat, NEW extent \in Nat,
         NEW from \in Nat, NEW other \in Nat, NEW p \in Int,
         at <= p, p <= at + size - 1, other <= p, p <= other + extent - 1,
         LET m == at + size \div 2
             Off(a) == IF a + extent \div 2 > m THEN a + extent \div 2 - m
                                               ELSE m - (a + extent \div 2)
         IN  Off(from) <= Off(other)
  PROVE  Meet(at, size, from, extent)
  <1> DEFINE h == size \div 2
             e == extent \div 2
             Off(a) == IF a + e > at + h THEN a + e - (at + h) ELSE at + h - (a + e)
  <1>1. /\ h \in Nat /\ 2 * h <= size /\ size <= 2 * h + 1
        /\ e \in Nat /\ 2 * e <= extent /\ extent <= 2 * e + 1
    OBVIOUS
  <1>2. Off(from) <= Off(other)
    OBVIOUS
  <1> HIDE DEF h, e
  <1>3. at <= from + extent
    BY <1>1, <1>2
  <1>4. from <= at + size
    BY <1>1, <1>2
  <1> QED BY <1>3, <1>4 DEF Meet

\* screen_for_client gives a window with the pointer on it a screen that it meets.
LEMMA DroppedMeets ==
  ASSUME session \in Sessions, Gentle, InOneRow, NEW g \in Rectangles, Sized(g),
         NEW p, p.x \in Int, p.y \in Int, Shows(g, p),
         NEW k \in DOMAIN Screens, Shows(Screens[k], p)
  PROVE  OnScreen(g, Screens[screen_for_client(g)])
  <1> DEFINE i == screen_for_client(g)
             x == ToInt(Middle(g.x, g.width))
             y == ToInt(Middle(g.y, g.height))
             s == Screens[i]
             u == Screens[k]
  <1>1. /\ i \in DOMAIN Screens
        /\ \/ x_contains_point(s, x, y)
           \/ x_distance(s, x, y) <= x_distance(u, x, y)
    BY ScreenOf
  <1> HIDE DEF i, x, y
  <1>2. /\ s.x \in Nat /\ s.y \in Nat /\ s.width \in Nat /\ s.height \in Nat
        /\ 2 * (s.x + s.width) < Half /\ 2 * (s.y + s.height) < Half
        /\ u.x \in Nat /\ u.y \in Nat /\ u.width \in Nat /\ u.height \in Nat
        /\ 2 * (u.x + u.width) < Half /\ 2 * (u.y + u.height) < Half
    BY <1>1, Panes
  <1>3. s.y = u.y /\ s.width = u.width /\ s.height = u.height
    BY <1>1 DEF InOneRow
  <1> HIDE DEF s
  <1>4. /\ g.x \in Int /\ g.y \in Int /\ g.width \in Nat /\ g.height \in Nat
        /\ 2 * g.width < Half /\ 2 * g.height < Half
    BY DEF Rectangles, Sized
  <1>5. /\ g.x <= p.x /\ p.x <= g.x + g.width - 1 /\ g.y <= p.y /\ p.y <= g.y + g.height - 1
        /\ u.x <= p.x /\ p.x <= u.x + u.width - 1 /\ u.y <= p.y /\ p.y <= u.y + u.height - 1
    BY <1>2, <1>4 DEF Shows
  <1> HIDE DEF u
  <1>6. Meet(g.y, g.height, s.y, s.height)
    BY <1>2, <1>3, <1>4, <1>5 DEF Meet
  <1>7. /\ 2 * g.x > -Half /\ 2 * g.x < Half /\ 2 * g.y > -Half /\ 2 * g.y < Half
    <2>1. ASSUME NEW from \in Nat, NEW extent \in Nat, 2 * (from + extent) < Half,
                 NEW at \in Int, NEW size \in Nat, 2 * size < Half, NEW m \in Int,
                 at <= m, m <= at + size - 1, from <= m, m <= from + extent - 1
          PROVE  2 * at > -Half /\ 2 * at < Half
      BY <2>1, Words
    <2>2. 2 * g.x > -Half /\ 2 * g.x < Half
      BY <1>2, <1>4, <1>5, <2>1
    <2>3. 2 * g.y > -Half /\ 2 * g.y < Half
      BY <1>2, <1>4, <1>5, <2>1
    <2> QED BY <2>2, <2>3
  <1>8. x = g.x + g.width \div 2 /\ y = g.y + g.height \div 2
    <2>1. g.x > -Half /\ g.y > -Half
      BY <1>4, <1>7, Words
    <2> QED BY <1>4, <1>7, <2>1, Middles DEF x, y
  <1>9. /\ x \in Int /\ 2 * x > -Half /\ x < Half /\ g.x <= x /\ x <= g.x + g.width
        /\ y \in Int /\ 2 * y > -Half /\ y < Half
    <2>1. ASSUME NEW at \in Int, NEW size \in Nat, 2 * size < Half, 2 * at > -Half, 2 * at < Half
          PROVE  LET m == at + size \div 2
                 IN  /\ m \in Int /\ 2 * m > -Half /\ m < Half
                     /\ at <= m /\ m <= at + size
      BY <2>1, Words
    <2> QED BY <1>4, <1>7, <1>8, <2>1
  <1>10. CASE x_contains_point(s, x, y)
    <2>1. End(s.x, s.width) = s.x + s.width
      BY <1>2, Words DEF End, Plus, ToUnsigned
    <2>2. x >= s.x /\ ToUnsigned(x) <= s.x + s.width
      BY <1>10, <2>1 DEF x_contains_point, ContainsAxis
    <2>3. x <= s.x + s.width
      BY <1>2, <1>9, <2>2 DEF ToUnsigned
    <2>4. Meet(g.x, g.width, s.x, s.width)
      BY <1>2, <1>4, <1>9, <2>2, <2>3 DEF Meet
    <2> QED BY <1>6, <2>4 DEF OnScreen, Reached, s, i
  <1>11. CASE x_distance(s, x, y) <= x_distance(u, x, y)
    <2> DEFINE Off(a) == IF a + u.width \div 2 > x THEN a + u.width \div 2 - x
                                                  ELSE x - (a + u.width \div 2)
               Down(a) == Distance(ToInt(Minus(Middle(a, u.height), ToUnsigned(y))), 0)
    <2>1. Distance(ToInt(Minus(Middle(s.x, s.width), ToUnsigned(x))), 0) = Off(s.x)
      BY <1>2, <1>3, <1>9, Distances
    <2>2. Distance(ToInt(Minus(Middle(u.x, u.width), ToUnsigned(x))), 0) = Off(u.x)
      BY <1>2, <1>9, Distances
    <2>3. Down(u.y) \in Int
      <3>1. Distance(ToInt(Minus(Middle(u.y, u.height), ToUnsigned(y))), 0)
              = IF u.y + u.height \div 2 > y THEN u.y + u.height \div 2 - y
                                             ELSE y - (u.y + u.height \div 2)
        BY <1>2, <1>9, Distances
      <3> QED BY <1>2, <1>9, <3>1
    <2>4. Off(s.x) \in Int /\ Off(u.x) \in Int
      BY <1>2, <1>9
    <2>5. x_distance(s, x, y) = Off(s.x) + Down(u.y) /\ x_distance(u, x, y) = Off(u.x) + Down(u.y)
      BY <1>3, <2>1, <2>2 DEF x_distance
    <2> HIDE DEF Off, Down
    <2>6. Off(s.x) <= Off(u.x)
      BY <1>11, <2>3, <2>4, <2>5
    <2>7. Meet(g.x, g.width, s.x, u.width)
      BY <1>2, <1>4, <1>5, <1>8, <2>6, NearestMeets DEF Off
    <2> QED BY <1>3, <1>6, <2>7 DEF OnScreen, Reached, s, i
  <1> QED BY <1>1, <1>10, <1>11

\* ButtonRelease: the window goes to the screen it is on.
LEMMA ReleaseHome ==
  ASSUME Inv, Gentle, NEW c \in Client, NEW r, Sound(r), Reachable(r),
         NEW d \in Drags(Client), Held(d, r)
  PROVE  LET i == screen_for_client(r.geometry)
         IN  AtHome(IF i # r.screen THEN screen_adopt(c, r, i) ELSE r)
  <1> DEFINE i == screen_for_client(r.geometry)
             s == Screens[i]
             p == [x |-> d.x, y |-> d.y]
             g == r.geometry
  <1>1. /\ g \in Rectangles /\ r.screen \in DOMAIN Screens /\ r.strut \in Struts /\ IsClient(r)
        /\ Sized(g) /\ session \in Sessions
    BY DEF Sound, Shaped, Reachable, Inv
  <1>2. i \in DOMAIN Screens
    BY <1>1, SomeScreen
  <1>3. p.x \in 0 .. Half - 1 /\ p.y \in 0 .. Half - 1
    BY DEF Drags
  <1>4. Shows(g, p) /\ InOneRow
    BY DEF Held, Gentle, Kept
  <1>5. PICK k \in DOMAIN Screens : Shows(Screens[k], p)
    BY DEF Held
  <1> HIDE DEF p
  <1>6. CASE i = r.screen
    <2>1. p.x \in Int /\ p.y \in Int
      BY <1>3, Words
    <2>2. OnScreen(g, Screens[i])
      BY <1>1, <1>4, <1>5, <2>1, DroppedMeets
    <2> QED BY <1>6, <2>2 DEF AtHome
  <1>7. CASE i # r.screen
    <2>1. /\ s.x \in Nat /\ s.y \in Nat /\ s.width \in Nat /\ s.height \in Nat
          /\ 2 * (s.x + s.width) < Half /\ 2 * (s.y + s.height) < Half
      BY <1>1, <1>2, Panes
    <2>2. /\ g.x \in Int /\ g.y \in Int /\ g.width \in Nat /\ g.height \in Nat
          /\ 2 * g.width < Half /\ 2 * g.height < Half
      BY <1>1 DEF Rectangles, Sized
    <2> HIDE DEF s, g
    <2>3. p.x <= g.x + g.width - 1 /\ p.y <= g.y + g.height - 1 /\ p.x >= 0 /\ p.y >= 0
      BY <1>3, <1>4, <2>2, Words DEF Shows
    <2>4. g.x > s.x + s.width - Word /\ g.y > s.y + s.height - Word
      <3>1. ASSUME NEW from \in Nat, NEW extent \in Nat, 2 * (from + extent) < Half,
                   NEW at \in Int, NEW size \in Nat, 2 * size < Half, NEW m \in Int,
                   m <= at + size - 1, m >= 0
            PROVE  at > from + extent - Word
        BY <3>1, Words
      <3>2. p.x \in Int /\ p.y \in Int
        BY <1>3, Words
      <3>3. g.x > s.x + s.width - Word
        BY <2>1, <2>2, <2>3, <3>1, <3>2
      <3>4. g.y > s.y + s.height - Word
        BY <2>1, <2>2, <2>3, <3>1, <3>2
      <3> QED BY <3>3, <3>4
    <2>5. Len(Screens) # 1
      <3>1. DOMAIN Screens = 1 .. Len(Screens)
        BY <1>1, Glass
      <3> QED BY <1>1, <1>2, <1>7, <3>1
    <2>6. AtHome(screen_adopt(c, r, i))
      BY <1>1, <1>2, <2>4, <2>5, AdoptHome DEF s, g
    <2> QED BY <1>7, <2>6
  <1> QED BY <1>6, <1>7

\* What a session allows does not change.
LEMMA SameHome ==
  ASSUME session' = session
  PROVE  /\ Client' = Client /\ Attributes' = Attributes /\ (Gentle' <=> Gentle)
         /\ \A r : Reachable(r)' <=> Reachable(r)
         /\ \A r : OnScreen(r.geometry, Screens[r.screen])'
                     <=> OnScreen(r.geometry, Screens[r.screen])
         /\ \A d, r : Held(d, r)' <=> Held(d, r)
  <1>1. /\ Client' = Client /\ Attributes' = Attributes /\ Screens' = Screens
        /\ Bound' = Bound /\ Struts' = Struts /\ SizeHints' = SizeHints
        /\ NetToggles' = NetToggles /\ NetStates' = NetStates /\ Requests' = Requests
        /\ KeyBindings' = KeyBindings
    BY DEF Client, Attributes, Screens, Bound, KeyBindings, MouseBindings, Struts, SizeHints,
           NetToggles, NetStates, Requests
  <1>2. /\ (Modest' <=> Modest) /\ (Spacious' <=> Spacious) /\ (InOneRow' <=> InOneRow)
    BY <1>1 DEF Modest, Sized, Spacious, Borders, InOneRow
  <1>3. Gentle' <=> Gentle
    BY <1>1, <1>2 DEF Gentle, Kept
  <1>4. \A r : Uses(r)' <=> Uses(r)
    BY <1>1 DEF Uses
  <1>5. \A g, k : OnScreen(g, Screens[k])' <=> OnScreen(g, Screens[k])
    BY <1>1 DEF OnScreen, Reached, Lost
  <1>6. \A r : Reachable(r)' <=> Reachable(r)
    BY <1>1, <1>4, <1>5 DEF Reachable, Sized
  <1>7. \A d, r : Held(d, r)' <=> Held(d, r)
    BY <1>1 DEF Held
  <1> QED BY <1>1, <1>3, <1>5, <1>6, <1>7

\* One client becomes another one, which is in reach or dragged.
LEMMA ChangeHome ==
  ASSUME Inv, Home, Gentle, session' = session, NEW c \in Client, NEW r,
         clients'[c] = r, \A d \in Client \ {c} : clients'[d] = clients[d],
         drag # NONE => drag.client = c,
         \/ AtHome(r) /\ (drag' # NONE => drag'.client = c /\ Held(drag', r))
         \/ Reachable(r) /\ drag' # NONE /\ drag'.client = c /\ Held(drag', r)
  PROVE  Home'
  <1>1. Client' = Client /\ Attributes' = Attributes
    BY SameHome
  <1>2. \A d \in Managed' : d # c => d \in Managed /\ clients'[d] = clients[d]
    BY <1>1 DEF Managed
  <1>3. ASSUME NEW d \in Managed'
        PROVE  /\ Reachable(clients[d])'
               /\ \/ OnScreen(clients[d].geometry, Screens[clients[d].screen])'
                  \/ drag' # NONE /\ drag'.client = d
    <2>1. CASE d = c
      BY <2>1, SameHome DEF AtHome
    <2>2. CASE d # c
      <3>1. d \in Managed /\ clients'[d] = clients[d] /\ ~(drag # NONE /\ drag.client = d)
        BY <1>2, <2>2
      <3>2. Reachable(clients[d]) /\ OnScreen(clients[d].geometry, Screens[clients[d].screen])
        BY <3>1 DEF Home
      <3> QED BY <3>1, <3>2, SameHome
    <2> QED BY <2>1, <2>2
  <1>4. drag' # NONE => Held(drag, clients[drag.client])'
    BY SameHome
  <1> QED BY <1>3, <1>4 DEF Home

\* A client becomes another one outside a drag.
LEMMA BecomeHome ==
  ASSUME Inv, Home, Gentle, session' = session, drag = NONE, drag' = NONE,
         NEW c \in Client, NEW r, AtHome(r), Become(c, r)
  PROVE  Home'
  <1>1. clients'[c] = r /\ \A d \in Client \ {c} : clients'[d] = clients[d]
    BY DEF Become, Inv
  <1> QED BY <1>1, ChangeHome

\* No client changes.
LEMMA StillHome ==
  ASSUME Home, UNCHANGED <<session, clients, drag>>
  PROVE  Home'
  <1>1. Managed' = Managed /\ (Gentle' <=> Gentle)
    BY SameHome DEF Managed
  <1> SUFFICES ASSUME Gentle
               PROVE  /\ \A c \in Managed' :
                           /\ Reachable(clients[c])'
                           /\ OnScreen(clients[c].geometry, Screens[clients[c].screen])'
                                \/ (drag' # NONE /\ drag'.client = c)
                      /\ drag' # NONE => Held(drag, clients[drag.client])'
    BY <1>1 DEF Home
  <1>2. \A c \in Managed : /\ Reachable(clients[c])'
                           /\ OnScreen(clients[c].geometry, Screens[clients[c].screen])'
                                \/ (drag # NONE /\ drag.client = c)
    BY SameHome DEF Home
  <1>3. drag # NONE => Held(drag, clients[drag.client])'
    BY SameHome DEF Home
  <1> QED BY <1>1, <1>2, <1>3 DEF Home

\* At the start there is no client.
LEMMA InitHome == Init => Home
  <1> SUFFICES ASSUME Init PROVE Home
    OBVIOUS
  <1> QED BY DEF Init, Home, Managed

\* A client outside a drag.
LEMMA AtRest ==
  ASSUME Inv, Home, Gentle, drag = NONE, NEW c \in Managed
  PROVE  c \in Client /\ Sound(clients[c]) /\ AtHome(clients[c])
  BY DEF Inv, Home, AtHome, Managed

\* A client that client_draw_border tells the server about stays where it is.
LEMMA DrawnHome ==
  ASSUME NEW r, Sound(r), AtHome(r)
  PROVE  AtHome(client_draw_border(r))
  <1>1. Alike(client_draw_border(r), r)
    BY Drawing
  <1> QED BY <1>1, HomeAlike

\* Windows that are there at the start.
LEMMA UpdateHome ==
  ASSUME Inv, Home, Gentle, NEW c \in Client, state_update_clients(c)
  PROVE  Home'
  <1>1. session' = session /\ drag' = NONE /\ drag = NONE
    BY DEF state_update_clients, Inv
  <1>2. PICK w \in Attributes : \E r \in Inits(c, w) :
          Become(c, r) \/ Become(c, client_draw_border(r))
    BY DEF state_update_clients
  <1>3. PICK r \in Inits(c, w) : Become(c, r) \/ Become(c, client_draw_border(r))
    BY <1>2
  <1>4. Sound(r) /\ AtHome(r)
    BY InitsSound, InitsHome, Given DEF Inv
  <1>5. AtHome(client_draw_border(r))
    BY <1>4, DrawnHome
  <1> QED BY <1>1, <1>3, <1>4, <1>5, BecomeHome

\* A window that is mapped.
LEMMA MapHome ==
  ASSUME Inv, Home, Gentle, NEW c \in Client, NEW w \in Attributes,
         event_handle_map_request(c, w)
  PROVE  Home'
  <1>1. session' = session /\ drag' = NONE /\ drag = NONE
    BY DEF event_handle_map_request
  <1>2. CASE c \in Managed /\ Become(c, client_draw_border(clients[c]))
    <2>1. AtHome(client_draw_border(clients[c]))
      BY <1>1, <1>2, AtRest, DrawnHome
    <2> QED BY <1>1, <1>2, <2>1, BecomeHome
  <1>3. ASSUME NEW r \in Inits(c, w)
        PROVE  Sound(r) /\ "MAXIMIZED" \notin r.flags /\ AtHome(r)
    BY InitsSound, InitsHome, Given DEF Inv
  <1>4. ASSUME NEW r \in Inits(c, w), NEW p \in Points, NEW g \in client_placement(c, r, p),
               Become(c, Shown(c, r, g))
        PROVE  Home'
    <2>1. AtHome(Shown(c, r, g))
      BY <1>3, PlacementHome
    <2> QED BY <1>1, <1>4, <2>1, BecomeHome
  <1>5. ASSUME NEW r \in Inits(c, w), Become(c, r)
        PROVE  Home'
    BY <1>1, <1>3, <1>5, BecomeHome
  <1> QED BY <1>2, <1>4, <1>5 DEF event_handle_map_request

\* A window that is gone.
LEMMA DestroyHome ==
  ASSUME Inv, Home, Gentle, NEW c \in Client, event_handle_destroy_notify(c)
  PROVE  Home'
  <1>1. /\ clients' = [clients EXCEPT ![c] = NONE] /\ session' = session
        /\ drag' = NONE /\ drag = NONE
    BY DEF event_handle_destroy_notify, Become
  <1>2. \A d \in Managed' : d \in Managed /\ clients'[d] = clients[d]
    BY <1>1, SameHome DEF Managed, Inv
  <1>3. \A d \in Managed' : /\ Reachable(clients[d])'
                            /\ OnScreen(clients[d].geometry, Screens[clients[d].screen])'
    BY <1>1, <1>2, SameHome DEF Home
  <1> QED BY <1>1, <1>3 DEF Home

\* New hints and struts.
LEMMA PropertyHome ==
  ASSUME Inv, Home, Gentle, NEW c \in Client, event_handle_property_notify(c)
  PROVE  Home'
  <1> DEFINE r == clients[c]
  <1>1. session' = session /\ drag' = NONE /\ drag = NONE /\ c \in Managed
    BY DEF event_handle_property_notify
  <1>2. Sound(r) /\ AtHome(r)
    BY <1>1, AtRest
  <1>3. ASSUME NEW given \in SizeHints, Become(c, client_update_size_hints(r, given))
        PROVE  Home'
    <2>1. AtHome(client_update_size_hints(r, given))
      BY <1>2, HintsHome DEF AtHome
    <2> HIDE DEF r
    <2> QED BY <1>1, <1>3, <2>1, BecomeHome
  <1>4. ASSUME NEW strut \in Struts, Become(c, [r EXCEPT !.strut = strut])
        PROVE  Home'
    <2> DEFINE t == [r EXCEPT !.strut = strut]
    <2>1. /\ t.screen = r.screen /\ t.saved = r.saved /\ t.geometry = r.geometry
          /\ t.flags = r.flags /\ t.hints = r.hints
      BY <1>2 DEF Sound, IsClient, Fields
    <2>2. Become(c, t)
      BY <1>4
    <2> HIDE DEF t, r
    <2>3. AtHome(t)
      BY <1>2, <2>1 DEF AtHome, Reachable, Uses
    <2> QED BY <1>1, <2>2, <2>3, BecomeHome
  <1> QED BY <1>3, <1>4 DEF event_handle_property_notify

\* Messages to the program.
LEMMA MessageHome ==
  ASSUME Inv, Home, Gentle, NEW c \in Client, event_handle_client_message(c)
  PROVE  Home'
  <1> DEFINE r == clients[c]
  <1>1. session' = session /\ drag' = NONE /\ drag = NONE /\ c \in Managed
    BY DEF event_handle_client_message
  <1>2. Sound(r) /\ AtHome(r)
    BY <1>1, AtRest
  <1>3. \/ "HMAXIMIZED" \in NetToggles /\ Become(c, client_toggle_hmaximize(c, r))
        \/ "FULLSCREEN" \in NetToggles /\ Become(c, client_toggle_fullscreen(c, r))
    BY DEF event_handle_client_message, Gentle, Kept
  <1> HIDE DEF r
  <1>4. CASE "HMAXIMIZED" \in NetToggles /\ Become(c, client_toggle_hmaximize(c, r))
    <2>1. AtHome(client_toggle_hmaximize(c, r))
      BY <1>2, AcrossHome DEF AtHome, OnScreen
    <2> QED BY <1>1, <1>4, <2>1, BecomeHome
  <1>5. CASE "FULLSCREEN" \in NetToggles /\ Become(c, client_toggle_fullscreen(c, r))
    <2>1. Len(Screens) = 1
      BY <1>5 DEF Gentle, Kept
    <2>2. AtHome(client_toggle_fullscreen(c, r))
      BY <1>2, <2>1, FullscreenHome DEF Inv
    <2> QED BY <1>1, <1>5, <2>2, BecomeHome
  <1> QED BY <1>3, <1>4, <1>5

\* The commands; a drag begins with the pointer on the window.
LEMMA RunHome ==
  ASSUME Inv, Home, Gentle, drag = NONE, NEW c \in Managed, NEW command \in Bound,
         NEW where \in SUBSET Points, Run(command, c, where), session' = session,
         command = "window-move" => \A p \in where : Shows(clients[c].window.geometry, p)
  PROVE  Home'
  <1> DEFINE r == clients[c]
  <1>1. c \in Client /\ Sound(r) /\ AtHome(r) /\ r.window.geometry = r.geometry
    BY AtRest DEF Inv, InStep
  <1>2. ASSUME NEW t, AtHome(t), Become(c, t), drag' = drag PROVE Home'
    BY <1>1, <1>2, BecomeHome
  <1>3. command \in Savers => Len(Screens) = 1
    BY DEF Gentle, Kept
  <1>4. ASSUME command = "window-move", NEW p \in where, Grab(c, "move", p) PROVE Home'
    <2> DEFINE t == [r EXCEPT !.saved = r.geometry]
    <2>1. clients' = [clients EXCEPT ![c].saved = clients[c].geometry]
      BY <1>4 DEF Grab
    <2>2. clients'[c] = t /\ \A d \in Client \ {c} : clients'[d] = clients[d]
      BY <1>1, <2>1 DEF Inv
    <2>3. drag' = [client |-> c, kind |-> "move", x |-> p.x, y |-> p.y,
                   top |-> AreaOf(c, r).y, asked |-> << >>,
                   width |-> r.geometry.width, height |-> r.geometry.height]
      BY <1>4 DEF Grab
    <2>4. /\ drag'.client = c /\ drag'.kind = "move" /\ drag'.x = p.x /\ drag'.y = p.y
          /\ drag'.top = AreaOf(c, r).y
      BY <2>3
    <2>5. AtHome(t) /\ Held(drag', t)
      <3>1. Shows(r.geometry, p) /\ p \in Points /\ "window-move" \in Bound
        BY <1>1, <1>4
      <3> HIDE DEF r
      <3> QED BY <1>1, <2>4, <3>1, GrabHome
    <2> HIDE DEF t, r
    <2> QED BY <1>1, <2>2, <2>4, <2>5, ChangeHome
  <1> HIDE DEF r
  <1>5. CASE command = "window-center" /\ Become(c, function_window_center(c, r)) /\ drag' = drag
    BY <1>1, <1>2, <1>5, CenterHome
  <1>6. CASE /\ command = "window-fullscreen" /\ Become(c, client_toggle_fullscreen(c, r))
             /\ drag' = drag
    BY <1>1, <1>2, <1>3, <1>6, FullscreenHome DEF Inv, Savers
  <1>7. CASE /\ command = "window-maximize" /\ Become(c, client_toggle_maximize(c, r))
             /\ drag' = drag
    BY <1>1, <1>2, <1>3, <1>7, MaximizeHome DEF Savers
  <1>8. CASE command = "window-restore" /\ Become(c, client_restore(c, r)) /\ drag' = drag
    BY <1>1, <1>2, <1>8, RestoreHome
  <1>9. ASSUME command = "window-tile", NEW h \in Parts, NEW v \in Parts,
               Become(c, function_window_tile(c, r, h, v)), drag' = drag
        PROVE  Home'
    BY <1>1, <1>2, <1>9, TileHome
  <1>10. ASSUME command = "window-move-to-screen", NEW d,
                Become(c, function_window_move_to_screen(c, r, d)), drag' = drag
         PROVE  Home'
    <2>1. AtHome(function_window_move_to_screen(c, r, d))
      BY <1>1, SendHome
    <2> QED BY <1>2, <1>10, <2>1
  <1>11. command # "window-resize"
    BY DEF Gentle, Kept
  <1> QED BY <1>4, <1>5, <1>6, <1>7, <1>8, <1>9, <1>10, <1>11 DEF Run, r

\* The pointer moves during a drag.
LEMMA MovingHome ==
  ASSUME Inv, Home, Gentle, NEW p \in Points, Motion(p)
  PROVE  Home'
  <1> DEFINE c == drag.client
             r == clients[c]
             g == [r.geometry EXCEPT !.x = @ + p.x - drag.x,
                                     !.y = Larger(r.geometry.y + p.y - drag.y, drag.top)]
             t == client_move_resize([Reset(r) EXCEPT !.geometry = g])
  <1>1. /\ drag # NONE /\ drag \in Drags(Client) /\ c \in Client /\ c \in Managed /\ Sound(r)
        /\ session' = session
    BY DEF Motion, Inv, Holding, Drags
  <1>2. Held(drag, r) /\ Reachable(r)
    BY <1>1 DEF Home
  <1>3. r.geometry = Reset(r).geometry
    BY <1>1 DEF Reset, Sound, IsClient, Fields
  <1>4. Become(c, t) /\ drag' = [drag EXCEPT !.x = p.x, !.y = p.y]
    <2>1. drag.kind = "move"
      BY <1>2 DEF Held
    <2> DEFINE moved == [Reset(r) EXCEPT !.geometry.x = @ + p.x - drag.x,
                 !.geometry.y = Larger(Reset(r).geometry.y + p.y - drag.y, drag.top)]
    <2>2. Become(c, client_move_resize(moved)) /\ drag' = [drag EXCEPT !.x = p.x, !.y = p.y]
      BY <2>1 DEF Motion
    <2>3. moved = [Reset(r) EXCEPT !.geometry = g]
      BY <1>1, <1>3 DEF Reset, Sound, IsClient, Fields
    <2> QED BY <2>2, <2>3
  <1>5. Reachable(t) /\ Held(drag', t)
    <2> HIDE DEF r
    <2> QED BY <1>1, <1>2, <1>4, MotionHome
  <1>6. drag'.client = c /\ drag' # NONE
    <2>1. drag'.client = c
      BY <1>1, <1>4 DEF Drags
    <2>2. p.x \in 0 .. Half - 1 /\ p.y \in 0 .. Half - 1
      BY Given DEF Inv
    <2>3. drag' \in Drags(Client)
      BY <1>1, <1>4, <2>2 DEF Drags
    <2>4. NONE \notin Drags(Client)
      BY PlacementAssumption DEF Inv, Client
    <2> QED BY <2>1, <2>3, <2>4
  <1>7. clients'[c] = t /\ \A d \in Client \ {c} : clients'[d] = clients[d]
    BY <1>1, <1>4 DEF Become, Inv
  <1> HIDE DEF t, r, c
  <1>8. drag # NONE => drag.client = c
    BY DEF c
  <1> QED BY <1>1, <1>5, <1>6, <1>7, <1>8, ChangeHome

\* A drag ends.
LEMMA DropHome ==
  ASSUME Inv, Home, Gentle, Release
  PROVE  Home'
  <1> DEFINE c == drag.client
             r == clients[c]
             i == screen_for_client(r.geometry)
             t == IF i # r.screen THEN screen_adopt(c, r, i) ELSE r
  <1>1. /\ drag # NONE /\ drag \in Drags(Client) /\ c \in Client /\ c \in Managed /\ Sound(r)
        /\ session' = session /\ drag' = NONE
    BY DEF Release, Inv, Holding, Drags
  <1>2. Held(drag, r) /\ Reachable(r)
    BY <1>1 DEF Home
  <1>3. clients'[c] = t /\ \A d \in Client \ {c} : clients'[d] = clients[d]
    <2>1. drag.kind = "move"
      BY <1>2 DEF Held
    <2>2. CASE i # r.screen
      BY <1>1, <2>1, <2>2 DEF Release, Become, Inv
    <2>3. CASE i = r.screen
      BY <1>1, <2>1, <2>3 DEF Release
    <2> QED BY <2>2, <2>3
  <1> HIDE DEF r, c
  <1>4. AtHome(t)
    BY <1>1, <1>2, ReleaseHome
  <1> HIDE DEF t
  <1>5. drag # NONE => drag.client = c
    BY DEF c
  <1> QED BY <1>1, <1>3, <1>4, <1>5, ChangeHome

\* Every step keeps the windows within reach.
LEMMA NextHome == ASSUME Inv, Home, [Next]_vars PROVE Home'
  <1>0. CASE ~Gentle
    <2>1. session' = session
      BY DEF Next, main_enter_loop, state_update_clients, event_handle_map_request,
             event_handle_destroy_notify, event_handle_configure_request,
             event_handle_property_notify, event_handle_client_message,
             event_handle_key_press, event_handle_button_press, Motion, Release, vars
    <2> QED BY <1>0, <2>1, SameHome DEF Home
  <1>1. CASE Gentle
    <2>1. CASE main_enter_loop
      BY <2>1, StillHome DEF main_enter_loop
    <2>2. ASSUME NEW c \in Client, NEW command \in KeyBindings, event_handle_key_press(c, command)
          PROVE  Home'
      <3>1. command # "window-move" /\ command \in Bound
        BY <1>1, <2>2 DEF Gentle, Bound
      <3> QED BY <1>1, <2>2, <3>1, RunHome DEF event_handle_key_press
    <2>3. ASSUME NEW p \in Points, event_handle_button_press(p) PROVE Home'
      <3>1. CASE UNCHANGED <<clients, drag>>
        BY <2>3, <3>1, StillHome DEF event_handle_button_press
      <3>2. ASSUME NEW c \in Managed, NEW command \in MouseBindings,
                   Shows(clients[c].window.geometry, p), Run(command, c, {p})
            PROVE  Home'
        <4>1. command \in Bound
          BY DEF Bound
        <4> QED BY <1>1, <2>3, <3>2, <4>1, RunHome DEF event_handle_button_press
      <3> QED BY <2>3, <3>1, <3>2 DEF event_handle_button_press
    <2>4. ASSUME NEW c \in Client, event_handle_configure_request(c) PROVE Home'
      BY <1>1, <2>4 DEF event_handle_configure_request, Gentle
    <2>5. CASE UNCHANGED vars
      BY <2>5, StillHome DEF vars
    <2> QED BY <1>1, <2>1, <2>2, <2>3, <2>4, <2>5, UpdateHome, MapHome, DestroyHome,
               PropertyHome, MessageHome, MovingHome, DropHome DEF Next
  <1> QED BY <1>0, <1>1

\* OnItsScreen: where nothing that the program does on request takes a window away (Kept),
\* no path of screen_adopt, client_placement, the window commands, maximizing, fullscreen
\* and the drag of function_window_move loses one beyond the edges of its screen.
THEOREM WindowsAlwaysOnTheirScreen == Spec => [](Kept => OnItsScreen)
  <1>1. ASSUME Inv, Home PROVE Kept => OnItsScreen
    <2> SUFFICES ASSUME Gentle, NEW c \in Managed,
                        ~(drag # NONE /\ drag.client = c),
                        ~Touches(clients[c].geometry, Screens[clients[c].screen])
                 PROVE  LET r    == clients[c]
                            area == AreaOf(c, r)
                        IN  /\ "window-center" \in KeyBindings \cup MouseBindings
                            /\ r.geometry.width > area.width \/ r.geometry.height > area.height
      BY DEF Gentle, OnItsScreen
    <2> DEFINE r == clients[c]
               s == Screens[r.screen]
    <2>1. c \in Client /\ Sound(r)
      BY <1>1 DEF Inv, Managed
    <2>2. OnScreen(r.geometry, s)
      BY <1>1 DEF Home
    <2>3. /\ "window-center" \in Bound
          /\ r.geometry.width > s.width \/ r.geometry.height > s.height
      BY <2>2 DEF OnScreen, Reached, Touches, Lost
    <2>4. Struts = {NoStrut}
      BY <2>3 DEF Gentle, Kept
    <2>5. AreaOf(c, r) = s
      <3>1. r.strut = NoStrut /\ r.screen \in DOMAIN Screens
        BY <2>1, <2>4 DEF Sound, Shaped
      <3> HIDE DEF r
      <3> QED BY <1>1, <2>1, <2>4, <3>1, FreeArea, FreeIsScreen DEF Inv
    <2> QED BY <2>3, <2>5 DEF Bound
  <1>2. Spec => []Home
    BY SpecInv, InitHome, NextHome, PTL DEF Spec
  <1> QED BY SpecInv, <1>1, <1>2, PTL

=============================================================================
