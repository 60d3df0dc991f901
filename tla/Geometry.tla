------------------------------ MODULE Geometry ------------------------------
(***************************************************************************)
(* Where windows are: the rectangles of xutils.h and the arithmetic of      *)
(* xutils.c, screen.c, client.c and functions.c on them.  A coordinate is  *)
(* an int and a size an unsigned int, so every sum of the two is unsigned  *)
(* and wraps: a coordinate left of zero is compared as a very large one.   *)
(* The two axes are treated alike almost everywhere in the code; what is   *)
(* said once for both is an operator on one axis, with the interval given   *)
(* by its first coordinate and its size.                                    *)
(*                                                                         *)
(* A definition named X_Wrong is X with a mistake somebody could make.      *)
(***************************************************************************)
EXTENDS Integers, Sequences

CONSTANTS
  Word,      \* 2^32: one more than the largest unsigned int
  Fuzzy,     \* FUZZY_DISTANCE, 25
  Sessions   \* what the server and the configuration may be like

VARIABLE session   \* the one of Sessions that the program runs in

\* The geometries of state->screens, in the order of the list.
Screens == session.screens

Half == Word \div 2

Signed   == -Half .. Half - 1
Unsigned == 0 .. Word - 1

Geometries == [x : Signed, y : Signed, width : Unsigned, height : Unsigned]

Rectangle(x, y, width, height) ==
  [x |-> x, y |-> y, width |-> width, height |-> height]

\* X hands out coordinates and sizes of 16 bits, so that sums of a few of them stay
\* far from the ends of an int.
ASSUME GeometryAssumption ==
  /\ Word \in Nat /\ Half \in Nat /\ Word = 2 * Half /\ Half > 0
  /\ Fuzzy \in Nat
  /\ \A s \in Sessions :
       LET screens == s.screens
       IN  /\ screens \in Seq(Geometries) /\ Len(screens) > 0
           /\ \A k \in DOMAIN screens :
                LET g == screens[k]
                IN  g.x >= 0 /\ g.y >= 0 /\ g.x + g.y + g.width + g.height < Half

-----------------------------------------------------------------------------
(* int and unsigned int *)

ToUnsigned(i) == IF i < 0 THEN i + Word ELSE i

ToInt(u) == IF u >= Half THEN u - Word ELSE u

Plus(u, v) == IF u + v >= Word THEN u + v - Word ELSE u + v

Minus(u, v) == IF u < v THEN u - v + Word ELSE u - v

\* at + size, and at + size / 2, as the code computes them.
End(at, size) == Plus(ToUnsigned(at), size)

Middle(at, size) == Plus(ToUnsigned(at), size \div 2)

Larger(a, b) == IF a > b THEN a ELSE b

Smaller(a, b) == IF a < b THEN a ELSE b

Distance(a, b) == IF a > b THEN a - b ELSE b - a

-----------------------------------------------------------------------------
(* Points and screens *)

\* Neither end of the interval belongs to it.
ContainsAxis_Wrong(at, size, p) == p > at /\ ToUnsigned(p) < End(at, size)

\* Both ends of the interval belong to it.
ContainsAxis(at, size, p) == p >= at /\ ToUnsigned(p) <= End(at, size)

x_contains_point(g, x, y) ==
  ContainsAxis(g.x, g.width, x) /\ ContainsAxis(g.y, g.height, y)

x_distance(g, x, y) ==
  Distance(ToInt(Minus(Middle(g.x, g.width), ToUnsigned(x))), 0)
    + Distance(ToInt(Minus(Middle(g.y, g.height), ToUnsigned(y))), 0)

\* The first screen of the list that the test holds for, 0 if there is none.
FirstScreen(test) ==
  IF \E i \in DOMAIN Screens : test[i]
  THEN CHOOSE i \in DOMAIN Screens : test[i] /\ \A j \in 1 .. i - 1 : ~test[j]
  ELSE 0

screen_for_point(x, y) ==
  FirstScreen([i \in DOMAIN Screens |-> x_contains_point(Screens[i], x, y)])

\* The screen of the middle of the window, or the one whose middle is nearest.
screen_for_client(g) ==
  LET x    == ToInt(Middle(g.x, g.width))
      y    == ToInt(Middle(g.y, g.height))
      at   == screen_for_point(x, y)
      D(i) == x_distance(Screens[i], x, y)
  IN  IF at # 0 THEN at
      ELSE CHOOSE i \in DOMAIN Screens :
             \A j \in DOMAIN Screens : D(i) <= D(j) /\ (j < i => D(i) < D(j))

\* screen_find_above, _below, _left and _right: the first screen that begins where
\* this one ends, or the reverse, whatever its place on the other axis.
screen_find(direction, i) ==
  LET s == Screens[i]
      Beside(t) ==
        CASE direction = "up"    -> End(t.y, t.height) = ToUnsigned(s.y)
          [] direction = "down"  -> ToUnsigned(t.y) = End(s.y, s.height)
          [] direction = "left"  -> End(t.x, t.width) = ToUnsigned(s.x)
          [] direction = "right" -> ToUnsigned(t.x) = End(s.x, s.width)
  IN  FirstScreen([j \in DOMAIN Screens |-> Beside(Screens[j])])

\* The space that struts leave, the largest of each side counting.
Reduced(g, strut) ==
  Rectangle(ToInt(Plus(ToUnsigned(g.x), strut.left)), ToInt(Plus(ToUnsigned(g.y), strut.top)),
            Minus(Minus(g.width, strut.left), strut.right),
            Minus(Minus(g.height, strut.top), strut.bottom))

-----------------------------------------------------------------------------
(* One axis of a window in an area *)

\* Compares as integers without a width, and only to the left.
AdoptAxis_Wrong(at, size, from, extent) == IF at + size < from THEN from ELSE at

\* The clamps of screen_adopt: a window that ends before the area moves to its
\* beginning, one that begins after its end moves back inside.
AdoptAxis(at, size, from, extent) ==
  LET moved == IF End(at, size) < ToUnsigned(from) THEN from ELSE at
  IN  IF ToUnsigned(moved) > End(from, extent)
      THEN ToInt(Minus(End(from, extent), size)) ELSE moved

Adopted(g, area) ==
  [g EXCEPT !.x = AdoptAxis(@, g.width, area.x, area.width),
            !.y = AdoptAxis(@, g.height, area.y, area.height)]

\* The end is clamped first.
PlaceAxis_Wrong(at, size, from, extent) ==
  IF End(at, size) > End(from, extent) THEN ToInt(Minus(End(from, extent), size)) ELSE at

\* The clamps of client_placement.
PlaceAxis(at, size, from, extent) ==
  LET low == IF at < from THEN from ELSE at
  IN  IF End(low, size) > End(from, extent)
      THEN ToInt(Minus(End(from, extent), size)) ELSE low

CenterAxis(size, from, extent, border) ==
  ToInt(Minus(Plus(ToUnsigned(from), Minus(extent, size) \div 2), border))

Centered(g, area, border) ==
  [g EXCEPT !.x = CenterAxis(g.width, area.x, area.width, border),
            !.y = CenterAxis(g.height, area.y, area.height, border)]

Filling(area, border) ==
  Rectangle(area.x, area.y, Minus(area.width, 2 * border), Minus(area.height, 2 * border))

\* The parts of an area that window-tile knows, along one axis.
Parts == {"first_half", "first_third", "last_half", "last_third", "all"}

Offset(part, extent) ==
  CASE part = "last_half"  -> extent \div 2
    [] part = "last_third" -> extent - extent \div 3
    [] OTHER               -> 0

Share(part, extent) ==
  CASE part \in {"first_half", "last_half"}   -> extent \div 2
    [] part \in {"first_third", "last_third"} -> extent \div 3
    [] OTHER                                  -> extent

\* The last part begins after a share, not before the last one.
Tiled_Wrong(area, border, hpart, vpart) ==
  LET Start(part, extent) == IF part \in {"last_half", "last_third"}
                             THEN Share(part, extent) - 2 * border ELSE 0
  IN  Rectangle(ToInt(Plus(ToUnsigned(area.x), Start(hpart, area.width))),
                ToInt(Plus(ToUnsigned(area.y), Start(vpart, area.height))),
                Minus(Share(hpart, area.width), 2 * border),
                Minus(Share(vpart, area.height), 2 * border))

Tiled(area, border, hpart, vpart) ==
  Rectangle(ToInt(Plus(ToUnsigned(area.x), Offset(hpart, area.width))),
            ToInt(Plus(ToUnsigned(area.y), Offset(vpart, area.height))),
            Minus(Share(hpart, area.width), 2 * border),
            Minus(Share(vpart, area.height), 2 * border))

-----------------------------------------------------------------------------
(* Size hints *)

\* client->hints: of each axis, and the two aspect ratios as fractions: height to width
\* for the smallest, width to height for the largest, << >> if there is none.
AxisHints == [desired : Unsigned, min : Unsigned, max : Unsigned, increment : Unsigned]

NoAxisHints == [desired |-> 0, min |-> 0, max |-> 0, increment |-> 0]

NoHints == [width |-> NoAxisHints, height |-> NoAxisHints, min_aspect |-> << >>,
            max_aspect |-> << >>]

\* client_update_size_hints, for hints in which 0 and << >> stand for what the property
\* does not give: that stays as it was.
UpdatedAxis(old, given) ==
  LET Given(f) == IF given[f] = 0 THEN old[f] ELSE given[f]
  IN  [desired |-> Given("desired"), min |-> Larger(1, Given("min")), max |-> Given("max"),
       increment |-> Larger(1, Given("increment"))]

UpdatedHints(old, given) ==
  LET Given(f) == IF given[f] = << >> THEN old[f] ELSE given[f]
  IN  [width |-> UpdatedAxis(old.width, given.width),
       height |-> UpdatedAxis(old.height, given.height),
       min_aspect |-> Given("min_aspect"), max_aspect |-> Given("max_aspect")]

\* Is a / b smaller than the fraction?  b may be 0: the quotient is then infinite, or
\* no number when both are, and no number is smaller.
Below(fraction, a, b) == fraction[1] * b < a * fraction[2]

WithAspect(size, hints) ==
  LET w == size[1]
      h == size[2]
  IN  IF hints.min_aspect = << >> \/ hints.max_aspect = << >> THEN size
      ELSE IF Below(hints.max_aspect, w, h)
      THEN <<(h * hints.max_aspect[1]) \div hints.max_aspect[2], h>>
      ELSE IF Below(hints.min_aspect, h, w)
      THEN <<w, (w * hints.min_aspect[1]) \div hints.min_aspect[2]>>
      ELSE size

\* Rounds what remains over the base size down to the increment and adds the base again.
Snapped(over, h) ==
  LET size  == Plus(Minus(over, over % h.increment), h.desired)
      least == Larger(size, h.min)
  IN  IF h.max # 0 THEN Smaller(least, h.max) ELSE least

\* Takes the base size off twice.
client_apply_size_hints_Wrong(g, hints) ==
  [g EXCEPT !.width = Snapped(Minus(Minus(@, hints.width.desired), hints.width.desired),
                              hints.width),
            !.height = Snapped(Minus(Minus(@, hints.height.desired), hints.height.desired),
                               hints.height)]

\* The base size is not part of the aspect ratio, unless it is the minimum size.
client_apply_size_hints(g, hints) ==
  LET w == hints.width
      h == hints.height
      baseismin == w.desired = w.min /\ h.desired = h.min
      whole == <<g.width, g.height>>
      Over(size) == <<Minus(size[1], w.desired), Minus(size[2], h.desired)>>
      over == IF baseismin THEN Over(WithAspect(whole, hints))
              ELSE WithAspect(Over(whole), hints)
  IN  [g EXCEPT !.width = Snapped(over[1], w), !.height = Snapped(over[2], h)]

-----------------------------------------------------------------------------
(* The place of a new window *)

\* Where rand() puts one coordinate when there is no room beside the last window: in
\* the first third if that window lies far, else between a third and last.  The set is
\* empty when the code divides by zero.
Somewhere(at, size, from, extent, last) ==
  LET far == Middle(at, size) > End(from, extent) \div 2
      a   == IF far THEN from ELSE ToInt(End(from, extent \div 3))
      b   == ToInt(End(from, IF far THEN extent \div 3 ELSE last))
  IN  {a + k : k \in 0 .. Distance(a, b) - 1}

\* client_placement_cascade beside an existing window.  Across, the random range ends
\* at the height of the area.
Cascaded(existing, area) ==
  LET beside == [existing EXCEPT !.x = @ + Fuzzy, !.y = @ + Fuzzy]
      fits == /\ End(beside.x, beside.width) <= End(area.x, area.width)
              /\ End(beside.y, beside.height) <= End(area.y, area.height)
      xs == Somewhere(existing.x, existing.width, area.x, area.width, area.height)
      ys == Somewhere(existing.y, existing.height, area.y, area.height, area.height)
  IN  IF fits THEN {beside}
      ELSE {[beside EXCEPT !.x = x, !.y = y] : x \in xs, y \in ys}

\* client_placement_pointer.
UnderPointer(g, x, y, border) ==
  [g EXCEPT !.x = ToInt(Minus(Minus(ToUnsigned(x), g.width \div 2), border)),
            !.y = ToInt(Minus(Minus(ToUnsigned(y), g.height \div 2), border))]

\* The clamps of client_placement.
Placed(g, area) ==
  [g EXCEPT !.x = PlaceAxis(@, g.width, area.x, area.width),
            !.y = PlaceAxis(@, g.height, area.y, area.height)]
=============================================================================
