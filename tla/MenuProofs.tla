----------------------------- MODULE MenuProofs -----------------------------
(***************************************************************************)
(* For menus and windows of any size and any keys: what is listed matches  *)
(* what was typed, the selection is what is drawn and what is chosen, and  *)
(* until the pointer moves it, or a cycle is longer than the window, it    *)
(* stays on the list; the first visible item stays on it always.           *)
(***************************************************************************)
EXTENDS Menu, TailQueueProofs

-----------------------------------------------------------------------------
(* The invariant *)

Ascends(list) == \A k, l \in DOMAIN list : k < l => list[k] < list[l]

\* What is listed, in a menu whose items are numbered in their order.  The items of a cycle
\* are never narrowed.
Listed(m) ==
  /\ m \in Menus /\ Range(m.items) \subseteq 1 .. ItemCount
  /\ Ascends(m.items) /\ Ascends(m.results)
  /\ m.count = Len(m.results)
  /\ Range(m.results) \subseteq Range(m.items) \cap Matching(m)
  /\ m.cycle => m.filter = << >> /\ m.results # << >>

\* The list begins in the window, or is empty and nothing is selected.
Visible(m) ==
  /\ m.results # << >> => m.visible \in 1 .. Len(m.results)
  /\ m.results = << >> =>
       m.visible = 0 /\ m.selected_visible < 0 /\ m.selected_item = m.selected_visible

\* The three numbers of the selection agree; a cycle that fits in the window does not scroll.
InStep(m) ==
  m.results # << >> =>
    /\ m.selected_item \in 0 .. m.count - 1
    /\ m.selected_visible \in 0 .. Limit - 1
    /\ m.selected_item = m.visible - 1 + m.selected_visible
    /\ m.cycle => m.visible = 1

\* What menu_filter would give back is what is drawn.
Drawn == Steps(menu) = "item" => shown = menu.results[Place(menu)]

Inv ==
  /\ Listed(menu) /\ Visible(menu)
  /\ Calm => InStep(menu) /\ loop # "crashed"
  /\ loop = "reading" => chosen = NULL /\ Drawn
  /\ chosen \in {NULL, shown}

-----------------------------------------------------------------------------
(* The list and the filter *)

\* What matches of an ascending list ascends, and matches.
LEMMA AmongType ==
  ASSUME NEW list \in Seq(Nat), Ascends(list), NEW matching
  PROVE  /\ Among(list, matching) \in Seq(Nat)
         /\ Ascends(Among(list, matching))
         /\ Range(Among(list, matching)) \subseteq Range(list) \cap matching
  <1> DEFINE at == {k \in DOMAIN list : list[k] \in matching}
             kept == Picked(list, at)
  <1>1. at \in SUBSET DOMAIN list /\ Among(list, matching) = kept
    BY DEF Among
  <1>2. /\ kept \in Seq(Nat)
        /\ \A k \in DOMAIN kept : \E j \in at : kept[k] = list[j]
    <2> HIDE DEF at
    <2> QED BY <1>1, PickedType
  <1>3. ASSUME NEW k \in DOMAIN kept, NEW l \in DOMAIN kept, k < l
        PROVE  kept[k] < kept[l]
    <2> HIDE DEF at
    <2> QED BY <1>1, <1>3, PickedAscends DEF Ascends
  <1>4. \A k \in DOMAIN kept : kept[k] \in Range(list) \cap matching
    BY <1>2 DEF Range
  <1> HIDE DEF kept
  <1> QED BY <1>1, <1>2, <1>3, <1>4 DEF Ascends, Range

\* The selection starts over with each list.
LEMMA UpdateGood ==
  ASSUME NEW m, Listed(m)
  PROVE  /\ Listed(menu_filter_update(m))
         /\ Visible(menu_filter_update(m))
         /\ InStep(menu_filter_update(m))
  <1> DEFINE n == menu_filter_update(m)
             at == IF m.results = << >> THEN -1 ELSE 0
  <1>1. m \in Menus
    BY DEF Listed
  <1>2. n = [m EXCEPT !.visible = at + 1, !.selected_item = at, !.selected_visible = at]
    BY DEF menu_filter_update
  <1>3. /\ at \in {-1, 0} /\ (at = -1 <=> m.results = << >>)
        /\ at \in Int /\ at + 1 \in Nat
    OBVIOUS
  <1> HIDE DEF n, at
  <1>4. /\ n \in Menus /\ n.items = m.items /\ n.results = m.results /\ n.filter = m.filter
        /\ n.count = m.count /\ n.cycle = m.cycle
        /\ n.visible = at + 1 /\ n.selected_item = at /\ n.selected_visible = at
    BY <1>1, <1>2, <1>3 DEF Menus
  <1>5. Listed(n)
    BY <1>4 DEF Listed, Matching
  <1>6. m.results # << >> => Len(m.results) \in Nat \ {0}
    BY <1>1 DEF Menus
  <1>7. Visible(n)
    BY <1>3, <1>4, <1>6 DEF Visible
  <1>8. InStep(n)
    BY <1>3, <1>4, <1>6, MenuAssumption DEF InStep, Listed
  <1> QED BY <1>5, <1>7, <1>8 DEF n

\* A list of items that match the filter, taken from the old list or from all items.
LEMMA NarrowListed ==
  ASSUME NEW m, Listed(m), ~m.cycle,
         NEW filter \in Seq(SUBSET (1 .. ItemCount)), NEW list \in {m.items, m.results},
         NEW S, S \subseteq IF filter = << >> THEN Range(m.items) ELSE Last(filter)
  PROVE  Listed([m EXCEPT !.filter = filter, !.results = Among(list, S),
                          !.count = Len(Among(list, S))])
  <1> DEFINE kept == Among(list, S)
             n == [m EXCEPT !.filter = filter, !.results = kept, !.count = Len(kept)]
  <1>1. /\ m \in Menus /\ list \in Seq(Nat) /\ Ascends(list)
        /\ Range(list) \subseteq Range(m.items)
    BY DEF Listed, Menus
  <1>2. kept \in Seq(Nat) /\ Ascends(kept) /\ Range(kept) \subseteq Range(list) \cap S
    BY <1>1, AmongType
  <1>3. Len(kept) \in Nat
    BY <1>2
  <1> HIDE DEF kept
  <1>4. /\ n \in Menus /\ n.items = m.items /\ n.results = kept /\ n.filter = filter
        /\ n.count = Len(kept) /\ n.cycle = m.cycle
    BY <1>1, <1>2, <1>3 DEF Menus
  <1> HIDE DEF n
  <1>5. Matching(n) = IF filter = << >> THEN Range(m.items) ELSE Last(filter)
    BY <1>4 DEF Matching
  <1>6. Listed(n)
    BY <1>1, <1>2, <1>4, <1>5 DEF Listed
  <1> QED BY <1>6 DEF n, kept

\* A letter narrows the list.
LEMMA AddGood ==
  ASSUME NEW m, Listed(m), ~m.cycle, NEW matching \in SUBSET Matching(m)
  PROVE  LET n == menu_filter_add(m, matching) IN Listed(n) /\ Visible(n) /\ InStep(n)
  <1> DEFINE filter == Append(m.filter, matching)
             kept == Among(m.results, matching)
             narrow == [m EXCEPT !.filter = filter, !.results = kept, !.count = Len(kept)]
  <1>1. m.filter \in Seq(SUBSET (1 .. ItemCount)) /\ Range(m.items) \subseteq 1 .. ItemCount
    BY DEF Listed, Menus
  <1>2. matching \in SUBSET (1 .. ItemCount)
    <2>1. m.filter # << >> => Last(m.filter) \in SUBSET (1 .. ItemCount)
      BY <1>1 DEF Last
    <2> QED BY <1>1, <2>1 DEF Matching
  <1>3. filter \in Seq(SUBSET (1 .. ItemCount)) /\ filter # << >> /\ Last(filter) = matching
    BY <1>1, <1>2 DEF Last
  <1>4. matching \subseteq IF filter = << >> THEN Range(m.items) ELSE Last(filter)
    BY <1>3
  <1>5. Listed(narrow)
    <2> HIDE DEF filter
    <2> QED BY <1>3, <1>4, NarrowListed
  <1>6. menu_filter_add(m, matching) = menu_filter_update(narrow)
    BY DEF menu_filter_add
  <1> HIDE DEF narrow
  <1> QED BY <1>5, <1>6, UpdateGood

\* A shorter filter is matched with all items again.
LEMMA DeleteGood ==
  ASSUME NEW m, Listed(m), ~m.cycle, NEW filter \in Seq(SUBSET (1 .. ItemCount))
  PROVE  LET n == menu_filter_delete([m EXCEPT !.filter = filter])
         IN  Listed(n) /\ Visible(n) /\ InStep(n)
  <1> DEFINE short == [m EXCEPT !.filter = filter]
             S == IF filter = << >> THEN Range(m.items) ELSE Last(filter)
             kept == Among(m.items, S)
             narrow == [m EXCEPT !.filter = filter, !.results = kept, !.count = Len(kept)]
  <1>1. m \in Menus
    BY DEF Listed
  <1>2. short.filter = filter /\ short.items = m.items
    BY <1>1 DEF Menus
  <1>3. Matching(short) = S
    BY <1>2 DEF Matching
  <1>4. menu_filter_delete(short) =
          menu_filter_update([short EXCEPT !.results = kept, !.count = Len(kept)])
    BY <1>2, <1>3 DEF menu_filter_delete
  <1>5. [short EXCEPT !.results = kept, !.count = Len(kept)] = narrow
    <2> HIDE DEF kept
    <2> QED BY <1>1 DEF Menus
  <1>6. Listed(narrow)
    <2>1. S \subseteq IF filter = << >> THEN Range(m.items) ELSE Last(filter)
      OBVIOUS
    <2> HIDE DEF S
    <2> QED BY <2>1, NarrowListed
  <1> HIDE DEF narrow, short
  <1> QED BY <1>4, <1>5, <1>6, UpdateGood DEF short

-----------------------------------------------------------------------------
(* The selection *)

\* What cycles fits in the window.
Fits(m) == m.cycle => m.count <= Limit

\* Only the three numbers of the selection are new.
Moved(m, n) ==
  /\ n \in Menus
  /\ n.cycle = m.cycle /\ n.items = m.items /\ n.results = m.results
  /\ n.filter = m.filter /\ n.count = m.count

\* That leaves the list what it is.
LEMMA MovedListed ==
  ASSUME NEW m, NEW n, Listed(m), Moved(m, n)
  PROVE  Listed(n)
  BY DEF Listed, Moved, Matching

\* The numbers of a menu have their types; the lists have a length.
LEMMA Numbers ==
  ASSUME NEW m, Listed(m)
  PROVE  /\ m \in Menus
         /\ m.count = Len(m.results) /\ Len(m.results) \in Nat
         /\ (m.results = << >> <=> m.count = 0)
         /\ m.selected_item \in Int /\ m.selected_visible \in Int /\ m.visible \in Nat
         /\ Limit \in Nat \ {0}
  BY MenuAssumption DEF Listed, Menus

\* Down: the end of the list and the last line of the window are reached together, or not at
\* all.
LEMMA DownGood ==
  ASSUME NEW m, Listed(m), Visible(m)
  PROVE  LET n == menu_move_down(m)
         IN  /\ Moved(m, n) /\ Visible(n)
             /\ Fits(m) /\ InStep(m) => InStep(n)
  <1> DEFINE n == menu_move_down(m)
             v == m.visible + 1
             k == m.selected_item + 1
             l == m.selected_visible + 1
  <1>1. /\ m \in Menus
        /\ m.count = Len(m.results) /\ Len(m.results) \in Nat
        /\ (m.results = << >> <=> m.count = 0)
        /\ m.selected_item \in Int /\ m.selected_visible \in Int /\ m.visible \in Nat
        /\ Limit \in Nat \ {0}
    BY Numbers
  <1>2. CASE n = m
    BY <1>1, <1>2 DEF Moved
  <1>3. CASE /\ m.selected_item # m.count - 1 /\ m.selected_visible = Limit - 1
             /\ m.visible # Len(m.results)
             /\ n = [m EXCEPT !.visible = v, !.selected_item = k]
    <2>1. v \in Nat /\ k \in Int
      BY <1>1
    <2> HIDE DEF n, v, k
    <2>2. /\ Moved(m, n) /\ n.visible = v /\ n.selected_item = k
          /\ n.selected_visible = m.selected_visible
      BY <1>1, <1>3, <2>1 DEF Moved, Menus
    <2>3. m.results # << >>
      BY <1>1, <1>3 DEF Visible
    <2>4. Visible(n)
      BY <1>1, <1>3, <2>2, <2>3 DEF Visible, Moved, v
    <2>5. ASSUME Fits(m), InStep(m) PROVE InStep(n)
      <3>1. /\ m.selected_item \in 0 .. m.count - 1
            /\ m.selected_item = m.visible - 1 + m.selected_visible
            /\ m.cycle => m.visible = 1
        BY <2>3, <2>5 DEF InStep
      <3>2. ~m.cycle
        BY <1>1, <1>3, <2>5, <3>1 DEF Fits
      <3> QED BY <1>1, <1>3, <2>2, <3>1, <3>2 DEF InStep, Moved, v, k
    <2> QED BY <2>2, <2>4, <2>5 DEF n
  <1>4. CASE /\ m.selected_item # m.count - 1 /\ m.selected_visible # Limit - 1
             /\ n = [m EXCEPT !.selected_item = k, !.selected_visible = l]
    <2>1. k \in Int /\ l \in Int
      BY <1>1
    <2> HIDE DEF n, k, l
    <2>2. Moved(m, n) /\ n.visible = m.visible /\ n.selected_item = k /\ n.selected_visible = l
      BY <1>1, <1>4, <2>1 DEF Moved, Menus
    <2>3. Visible(n)
      BY <1>1, <1>4, <2>2 DEF Visible, Moved, k, l
    <2>4. ASSUME InStep(m), m.results # << >> PROVE InStep(n)
      <3>1. /\ k \in 0 .. m.count - 1 /\ l \in 0 .. Limit - 1
            /\ k = m.visible - 1 + l
            /\ m.cycle => m.visible = 1
        <4>1. /\ m.selected_item \in 0 .. m.count - 1 /\ m.selected_visible \in 0 .. Limit - 1
              /\ m.selected_item = m.visible - 1 + m.selected_visible
              /\ m.cycle => m.visible = 1
          BY <2>4 DEF InStep
        <4> QED BY <1>1, <1>4, <4>1 DEF k, l
      <3> QED BY <2>2, <3>1 DEF InStep, Moved
    <2>5. m.results = << >> => InStep(n)
      BY <2>2 DEF InStep, Moved
    <2> QED BY <2>2, <2>3, <2>4, <2>5 DEF n
  <1> QED BY <1>2, <1>3, <1>4 DEF menu_move_down

\* Up: the same of the beginning.
LEMMA UpGood ==
  ASSUME NEW m, Listed(m), Visible(m)
  PROVE  LET n == menu_move_up(m)
         IN  /\ Moved(m, n) /\ Visible(n)
             /\ InStep(m) => InStep(n)
  <1> DEFINE n == menu_move_up(m)
             v == m.visible - 1
             k == m.selected_item - 1
             l == m.selected_visible - 1
  <1>1. /\ m \in Menus
        /\ m.count = Len(m.results) /\ Len(m.results) \in Nat
        /\ (m.results = << >> <=> m.count = 0)
        /\ m.selected_item \in Int /\ m.selected_visible \in Int /\ m.visible \in Nat
        /\ Limit \in Nat \ {0}
    BY Numbers
  <1>2. CASE n = m
    BY <1>1, <1>2 DEF Moved
  <1>3. CASE /\ m.selected_item # 0 /\ m.selected_visible = 0 /\ m.visible # 1
             /\ n = [m EXCEPT !.visible = v, !.selected_item = k]
    <2>1. m.results # << >> /\ v \in 1 .. Len(m.results) /\ v \in Nat /\ k \in Int
      BY <1>1, <1>3 DEF Visible
    <2> HIDE DEF n, v, k
    <2>2. /\ Moved(m, n) /\ n.visible = v /\ n.selected_item = k
          /\ n.selected_visible = m.selected_visible
      BY <1>1, <1>3, <2>1 DEF Moved, Menus
    <2>3. Visible(n)
      BY <2>1, <2>2 DEF Visible, Moved
    <2>4. ASSUME InStep(m) PROVE InStep(n)
      <3>1. /\ k \in 0 .. m.count - 1 /\ m.selected_visible \in 0 .. Limit - 1
            /\ k = v - 1 + m.selected_visible
            /\ ~m.cycle
        BY <1>1, <1>3, <2>1, <2>4 DEF InStep, k, v
      <3> QED BY <2>2, <3>1 DEF InStep, Moved
    <2> QED BY <2>2, <2>3, <2>4 DEF n
  <1>4. CASE /\ m.selected_item # 0 /\ m.selected_visible # 0
             /\ n = [m EXCEPT !.selected_item = k, !.selected_visible = l]
    <2>1. k \in Int /\ l \in Int
      BY <1>1
    <2> HIDE DEF n, k, l
    <2>2. Moved(m, n) /\ n.visible = m.visible /\ n.selected_item = k /\ n.selected_visible = l
      BY <1>1, <1>4, <2>1 DEF Moved, Menus
    <2>3. Visible(n)
      BY <1>1, <1>4, <2>2 DEF Visible, Moved, k, l
    <2>4. ASSUME InStep(m), m.results # << >> PROVE InStep(n)
      <3>1. /\ k \in 0 .. m.count - 1 /\ l \in 0 .. Limit - 1
            /\ k = m.visible - 1 + l
            /\ m.cycle => m.visible = 1
        <4>1. /\ m.selected_item \in 0 .. m.count - 1 /\ m.selected_visible \in 0 .. Limit - 1
              /\ m.selected_item = m.visible - 1 + m.selected_visible
              /\ m.cycle => m.visible = 1
          BY <2>4 DEF InStep
        <4>2. /\ m.count \in Nat /\ m.visible \in Nat /\ m.selected_item \in Int
              /\ m.selected_visible \in Int /\ Limit \in Nat
              /\ m.selected_item # 0 /\ m.selected_visible # 0
          BY <1>1, <1>4
        <4> QED BY <4>1, <4>2 DEF k, l
      <3> QED BY <2>2, <3>1 DEF InStep, Moved
    <2>5. m.results = << >> => InStep(n)
      BY <2>2 DEF InStep, Moved
    <2> QED BY <2>2, <2>3, <2>4, <2>5 DEF n
  <1> QED BY <1>2, <1>3, <1>4 DEF menu_move_up

\* Left and right go round in a cycle that fits in the window.
LEMMA RoundGood ==
  ASSUME NEW m, Listed(m), Visible(m), m.cycle, NEW n \in {menu_move_left(m), menu_move_right(m)}
  PROVE  /\ Moved(m, n) /\ Visible(n)
         /\ Fits(m) /\ InStep(m) => InStep(n)
  <1>1. /\ m \in Menus
        /\ m.count = Len(m.results) /\ Len(m.results) \in Nat
        /\ (m.results = << >> <=> m.count = 0)
        /\ m.selected_item \in Int /\ m.selected_visible \in Int /\ m.visible \in Nat
        /\ Limit \in Nat \ {0}
    BY Numbers
  <1>2. m.results # << >>
    BY DEF Listed
  <1>3. CASE n = menu_move_up(m)
    BY <1>3, UpGood
  <1>4. CASE n = menu_move_down(m)
    BY <1>4, DownGood
  <1>5. ASSUME NEW k \in {0, m.count - 1},
               n = [m EXCEPT !.selected_item = k, !.selected_visible = k]
        PROVE  /\ Moved(m, n) /\ Visible(n)
               /\ Fits(m) /\ InStep(m) => InStep(n)
    <2>1. k \in 0 .. m.count - 1 /\ k \in Int
      BY <1>1, <1>2, <1>5
    <2>2. /\ Moved(m, n) /\ n.visible = m.visible /\ n.selected_item = k
          /\ n.selected_visible = k
      BY <1>1, <1>5, <2>1 DEF Moved, Menus
    <2>3. Visible(n)
      BY <1>2, <2>2 DEF Visible, Moved
    <2>4. Fits(m) /\ InStep(m) => InStep(n)
      BY <1>1, <1>2, <2>1, <2>2 DEF Fits, InStep, Moved
    <2> QED BY <2>2, <2>3, <2>4
  <1> QED BY <1>3, <1>4, <1>5 DEF menu_move_left, menu_move_right

\* The selection does not follow the NULL at the end of the list.
LEMMA StepsOnList ==
  ASSUME NEW m, Listed(m), Visible(m), InStep(m)
  PROVE  Steps(m) # "NULL followed"
  <1>1. /\ m.count = Len(m.results) /\ Len(m.results) \in Nat
        /\ (m.results = << >> <=> m.count = 0)
        /\ m.selected_item \in Int /\ m.selected_visible \in Int /\ m.visible \in Nat
    BY Numbers
  <1>2. CASE m.results = << >>
    <2>1. m.visible = 0 /\ m.selected_visible < 0
      BY <1>2 DEF Visible
    <2> QED BY <1>1, <2>1 DEF Steps
  <1>3. CASE m.results # << >>
    <2>1. /\ m.visible \in 1 .. Len(m.results) /\ m.selected_item \in 0 .. m.count - 1
          /\ m.selected_visible \in 0 .. Limit - 1
          /\ m.selected_item = m.visible - 1 + m.selected_visible
      BY <1>3 DEF Visible, InStep
    <2>2. m.visible # 0 /\ Place(m) <= Len(m.results)
      <3>1. Place(m) = m.visible + m.selected_visible
        BY <1>1, <2>1 DEF Place
      <3> QED BY <1>1, <2>1, <3>1
    <2> QED BY <2>2 DEF Steps
  <1> QED BY <1>2, <1>3

-----------------------------------------------------------------------------
(* menu_filter *)

\* A menu is open, and the loop is in it.
LEMMA InitInv == Init => Inv
  <1> SUFFICES ASSUME Init PROVE Inv
    OBVIOUS
  <1>1. PICK cycle \in Cycles, n \in 1 .. ItemCount :
          LET items == [k \in 1 .. n |-> k]
              first == IF cycle THEN 1 ELSE 0
          IN  /\ cycle => n >= 2
              /\ menu = [cycle |-> cycle, items |-> items, results |-> items, filter |-> << >>,
                         count |-> n, selected_item |-> first, selected_visible |-> first,
                         visible |-> 1]
              /\ shown = items[first + 1]
    BY DEF Init
  <1> DEFINE items == [k \in 1 .. n |-> k]
             first == IF cycle THEN 1 ELSE 0
  <1>2. n \in Nat \ {0} /\ n <= ItemCount /\ cycle \in BOOLEAN /\ first \in {0, 1}
        /\ first <= n - 1
    BY <1>1, MenuAssumption
  <1>3. /\ items \in Seq(Nat) /\ Len(items) = n /\ DOMAIN items = 1 .. n
        /\ \A k \in 1 .. n : items[k] = k
    BY <1>2
  <1>4. items # << >> /\ Range(items) \subseteq 1 .. ItemCount /\ Ascends(items)
    BY <1>2, <1>3, MenuAssumption DEF Range, Ascends
  <1> HIDE DEF items, first
  <1>5. menu = [cycle |-> cycle, items |-> items, results |-> items, filter |-> << >>,
                count |-> n, selected_item |-> first, selected_visible |-> first, visible |-> 1]
        /\ shown = items[first + 1] /\ loop = "reading" /\ chosen = NULL /\ ~pointed
    BY <1>1 DEF items, first, Init
  <1>6. << >> \in Seq(SUBSET (1 .. ItemCount))
    OBVIOUS
  <1>7. Listed(menu)
    BY <1>2, <1>3, <1>4, <1>5, <1>6 DEF Listed, Menus, Matching
  <1>8. Visible(menu)
    BY <1>2, <1>3, <1>4, <1>5 DEF Visible
  <1>9. ASSUME Calm PROVE InStep(menu)
    <2>1. cycle => n >= 2 /\ n <= Limit
      BY <1>1, <1>5, <1>9 DEF Calm
    <2>2. first \in 0 .. n - 1 /\ first \in 0 .. Limit - 1 /\ first = 1 - 1 + first
      BY <1>2, <2>1, MenuAssumption DEF first
    <2> QED BY <1>5, <2>2 DEF InStep
  <1>10. Place(menu) = first + 1
    BY <1>2, <1>5 DEF Place
  <1> QED BY <1>5, <1>7, <1>8, <1>9, <1>10 DEF Inv, Drawn

\* A menu that is drawn is drawn with its selection.
LEMMA DrawInv ==
  ASSUME Inv, loop = "reading", NEW m, Listed(m), Visible(m), Calm' => InStep(m),
         NEW r, Draw(m, r)
  PROVE  Inv'
  <1>1. /\ menu' = m /\ chosen' = NULL
        /\ loop' = IF m.visible # 0 /\ Steps(m) = "NULL followed" THEN "crashed" ELSE "reading"
        /\ shown' = IF Steps(m) = "item" THEN m.results[Place(m)] ELSE shown
    BY DEF Draw, Inv
  <1>2. Calm' => InStep(m) /\ loop' # "crashed"
    BY <1>1, StepsOnList
  <1>3. Drawn'
    BY <1>1 DEF Drawn, Steps, Place
  <1> QED BY <1>1, <1>2, <1>3 DEF Inv

\* Nothing happens to the menu.
LEMMA IgnoreInv == ASSUME Inv, Ignore, UNCHANGED pointed PROVE Inv'
  BY DEF Inv, Ignore, Calm, Drawn, Steps, Place

\* What is chosen is what was drawn.
LEMMA LeaveInv == ASSUME Inv, loop = "reading", UNCHANGED pointed, NEW r, Leave(r) PROVE Inv'
  <1>1. UNCHANGED <<menu, shown>> /\ Calm' = Calm
    BY DEF Leave, Calm
  <1>2. /\ Listed(menu) /\ Visible(menu) /\ (Calm => InStep(menu)) /\ Drawn /\ chosen = NULL
    BY DEF Inv
  <1>3. Calm => Steps(menu) # "NULL followed"
    BY <1>2, StepsOnList
  <1>4. /\ loop' \in {"left", "crashed"} /\ (Calm => loop' # "crashed")
        /\ chosen' \in {NULL, shown}
    BY <1>2, <1>3 DEF Leave, Drawn
  <1> QED BY <1>1, <1>2, <1>4 DEF Inv

\* Calm depends on what the steps before the pointer do not change.
LEMMA StaysCalm ==
  ASSUME Inv, UNCHANGED pointed, Calm', menu'.cycle = menu.cycle,
         menu.cycle => menu'.count = menu.count
  PROVE  Calm /\ Fits(menu) /\ InStep(menu)
  BY DEF Inv, Calm, Fits

\* A move of the selection that is drawn.
LEMMA MoveDrawn ==
  ASSUME Inv, loop = "reading", UNCHANGED pointed, NEW m, NEW r, Draw(m, r),
         Moved(menu, m), Visible(m), Fits(menu) /\ InStep(menu) => InStep(m)
  PROVE  Inv'
  <1>1. Listed(m)
    BY MovedListed DEF Inv
  <1>2. ASSUME Calm' PROVE InStep(m)
    BY <1>2, StaysCalm DEF Draw, Moved
  <1> QED BY <1>1, <1>2, DrawInv

\* A new list with a prompt is drawn.
LEMMA ListDrawn ==
  ASSUME Inv, loop = "reading", NEW m, NEW r, Draw(m, r), Listed(m), Visible(m), InStep(m)
  PROVE  Inv'
  BY DrawInv

\* Keys.
LEMMA KeyInv == ASSUME Inv, loop = "reading", menu_handle_key, UNCHANGED pointed PROVE Inv'
  <1>0. Listed(menu) /\ Visible(menu)
    BY DEF Inv
  <1>1. ASSUME ~menu.cycle, NEW matching \in SUBSET Matching(menu),
               Draw(menu_filter_add(menu, matching), 1)
        PROVE  Inv'
    BY <1>0, <1>1, AddGood, ListDrawn
  <1>2. CASE Draw(AddNothing(menu), 1)
    BY <1>0, <1>2, UpdateGood, ListDrawn DEF AddNothing
  <1>3. ASSUME ~menu.cycle, NEW filter \in Seq(SUBSET (1 .. ItemCount)),
               Draw(menu_filter_delete([menu EXCEPT !.filter = filter]), 1)
        PROVE  Inv'
    BY <1>0, <1>3, DeleteGood, ListDrawn
  <1>4. CASE ~menu.cycle /\ menu.filter # << >>
             /\ Draw(menu_filter_delete([menu EXCEPT !.filter = Front(@)]), 1)
    <2>1. menu.filter \in Seq(SUBSET (1 .. ItemCount)) /\ menu \in Menus
      BY <1>0 DEF Listed, Menus
    <2>2. Front(menu.filter) \in Seq(SUBSET (1 .. ItemCount))
      BY <1>4, <2>1 DEF Front
    <2>3. [menu EXCEPT !.filter = Front(@)] = [menu EXCEPT !.filter = Front(menu.filter)]
      OBVIOUS
    <2> QED BY <1>3, <1>4, <2>2, <2>3
  <1>5. ASSUME ~menu.cycle, menu.results # << >>, NEW filter \in Completions(menu),
               Draw([menu EXCEPT !.filter = filter], 1)
        PROVE  Inv'
    <2> DEFINE m == [menu EXCEPT !.filter = filter]
    <2>1. /\ filter \in Seq(SUBSET (1 .. ItemCount))
          /\ filter # << >> => Range(menu.results) \subseteq Last(filter)
      <3>1. CASE filter = << >>
        BY <3>1
      <3>2. CASE filter # << >>
        <4>1. PICK k \in 1 .. FilterMax : filter \in [1 .. k -> SUBSET Range(menu.items)]
          BY <1>5, <3>2 DEF Completions
        <4>2. \A j \in DOMAIN filter : Range(menu.results) \subseteq filter[j]
          BY <1>5, <3>2 DEF Completions
        <4>3. /\ k \in Nat \ {0} /\ DOMAIN filter = 1 .. k
              /\ \A j \in 1 .. k : filter[j] \in SUBSET (1 .. ItemCount)
          BY <1>0, <4>1, MenuAssumption DEF Listed
        <4>4. filter \in Seq(SUBSET (1 .. ItemCount)) /\ Len(filter) = k
          BY <4>1, <4>3
        <4> QED BY <4>2, <4>3, <4>4 DEF Last
      <3> QED BY <3>1, <3>2
    <2>2. /\ m \in Menus /\ m.filter = filter
          /\ m.cycle = menu.cycle /\ m.items = menu.items /\ m.results = menu.results
          /\ m.count = menu.count /\ m.visible = menu.visible
          /\ m.selected_item = menu.selected_item /\ m.selected_visible = menu.selected_visible
      BY <1>0, <2>1 DEF Listed, Menus
    <2>3. Draw(m, 1) /\ menu' = m
      BY <1>5 DEF Draw
    <2> HIDE DEF m
    <2>4. Listed(m)
      BY <1>0, <1>5, <2>1, <2>2 DEF Listed, Matching
    <2>5. Visible(m)
      BY <1>0, <2>2 DEF Visible
    <2>6. ASSUME Calm' PROVE InStep(m)
      <3>1. InStep(menu)
        BY <2>2, <2>3, <2>6, StaysCalm
      <3> QED BY <2>2, <3>1 DEF InStep
    <2> QED BY <2>3, <2>4, <2>5, <2>6, DrawInv
  <1>6. CASE Move(menu_move_up(menu))
    BY <1>0, <1>6, UpGood, MoveDrawn, IgnoreInv DEF Move
  <1>7. CASE Move(menu_move_down(menu))
    BY <1>0, <1>7, DownGood, MoveDrawn, IgnoreInv DEF Move
  <1>8. ASSUME menu.cycle, NEW m \in {menu_move_left(menu), menu_move_right(menu)}, Draw(m, 1)
        PROVE  Inv'
    BY <1>0, <1>8, RoundGood, MoveDrawn
  <1>9. CASE i' = 2 /\ UNCHANGED <<menu, loop, shown, chosen>>
    BY <1>9 DEF Inv, Calm, Drawn, Steps, Place
  <1>10. CASE menu.filter # << >> /\ Draw(menu_filter_delete([menu EXCEPT !.filter = << >>]), 1)
    <2>1. ~menu.cycle /\ << >> \in Seq(SUBSET (1 .. ItemCount))
      BY <1>0, <1>10 DEF Listed
    <2> QED BY <1>3, <1>10, <2>1
  <1> QED
    BY <1>1, <1>2, <1>4, <1>5, <1>6, <1>7, <1>8, <1>9, <1>10, LeaveInv, IgnoreInv
    DEF menu_handle_key

\* The pointer may put the selection on any line that is drawn, or below them.
LEMMA PointerInv == ASSUME Inv, loop = "reading", menu_handle_move PROVE Inv'
  <1>1. PICK entry \in 0 .. (IF menu.count < Limit THEN menu.count ELSE Limit) - 1 :
          Draw([menu EXCEPT !.selected_visible = entry], i)
    BY DEF menu_handle_move
  <1> DEFINE m == [menu EXCEPT !.selected_visible = entry]
  <1>2. /\ menu \in Menus /\ menu.count = Len(menu.results) /\ Len(menu.results) \in Nat
        /\ (menu.results = << >> <=> menu.count = 0) /\ Limit \in Nat \ {0}
    BY Numbers DEF Inv
  <1>3. entry \in Int /\ menu.results # << >>
    BY <1>2
  <1>4. Moved(menu, m) /\ m.visible = menu.visible
    BY <1>2, <1>3 DEF Moved, Menus
  <1>5. ~Calm'
    BY DEF menu_handle_move, Calm
  <1> HIDE DEF m
  <1>6. Listed(m) /\ Visible(m)
    BY <1>3, <1>4, MovedListed DEF Inv, Visible, Moved
  <1> QED BY <1>1, <1>5, <1>6, DrawInv DEF m

\* Every event keeps the invariant.
LEMMA NextInv == Inv /\ [Next]_vars => Inv'
  <1> SUFFICES ASSUME Inv, [Next]_vars PROVE Inv'
    OBVIOUS
  <1>0. Listed(menu) /\ Visible(menu)
    BY DEF Inv
  <1>1. CASE UNCHANGED vars
    BY <1>1 DEF vars, Inv, Calm, Drawn, Steps, Place
  <1>2. CASE loop = "reading" /\ KeyRelease /\ UNCHANGED pointed
    BY <1>2, LeaveInv DEF KeyRelease
  <1>3. CASE loop = "reading" /\ Wheel /\ UNCHANGED pointed
    BY <1>0, <1>3, UpGood, DownGood, MoveDrawn DEF Wheel
  <1>4. CASE loop = "reading" /\ menu_handle_release /\ UNCHANGED pointed
    BY <1>4, LeaveInv DEF menu_handle_release
  <1> QED BY <1>1, <1>2, <1>3, <1>4, KeyInv, PointerInv DEF Next, menu_filter

-----------------------------------------------------------------------------
(* The theorems *)

\* The invariant holds in every menu.
LEMMA InvHolds == Spec => []Inv
  BY InitInv, NextInv, PTL DEF Spec

\* What is listed is listed once and in order, is counted right, and matches the filter that
\* the user sees, for any number of items and letters.
THEOREM ListAlwaysMatches == Spec => []ListMatchesFilter
  <1>1. Inv => ListMatchesFilter
    <2> SUFFICES ASSUME Listed(menu) PROVE ListMatchesFilter
      BY DEF Inv
    <2>1. DOMAIN menu.results = 1 .. Len(menu.results) /\ Len(menu.results) \in Nat
      BY DEF Listed, Menus
    <2>2. ASSUME NEW k \in 2 .. Len(menu.results)
          PROVE  menu.results[k - 1] < menu.results[k]
      <3>1. k - 1 \in DOMAIN menu.results /\ k \in DOMAIN menu.results /\ k - 1 < k
        BY <2>1
      <3> QED BY <3>1 DEF Listed, Ascends
    <2> QED BY <2>2 DEF Listed, ListMatchesFilter
  <1> QED BY <1>1, InvHolds, PTL

\* Until the pointer moves it, the selection is inside the window, and the item, the line and
\* the scroll position agree, unless a cycle is longer than the window.
THEOREM SelectionAlwaysInStep == Spec => []SelectionInStep
  <1>1. Inv => SelectionInStep
    BY DEF Inv, InStep, SelectionInStep
  <1> QED BY <1>1, InvHolds, PTL

\* So long nothing walks off the end of the list.
THEOREM NeverOffTheList == Spec => []NoNullFollowed
  <1>1. Inv => NoNullFollowed
    BY DEF Inv, NoNullFollowed
  <1> QED BY <1>1, InvHolds, PTL

\* Whatever the keys, the wheel and the pointer did, the user gets what is highlighted, or
\* nothing.
THEOREM ChosenAlwaysShown == Spec => []ChosenIsShown
  <1>1. Inv => ChosenIsShown
    BY DEF Inv, ChosenIsShown
  <1> QED BY <1>1, InvHolds, PTL

-----------------------------------------------------------------------------
(* The types *)

\* What Inv says nothing of.
Rest ==
  /\ i \in {NULL, -1, 0, 1, 2}
  /\ loop \in {"reading", "left", "crashed"}
  /\ shown \in Nat \cup {NULL}
  /\ chosen \in Nat \cup {NULL}
  /\ pointed \in BOOLEAN

\* What is under the selection is an item.
LEMMA StepsType ==
  ASSUME NEW m \in Menus, Steps(m) = "item"
  PROVE  m.results[Place(m)] \in Nat
  <1>1. /\ m.visible \in Nat /\ m.selected_visible \in Int
        /\ m.results \in Seq(Nat) /\ Len(m.results) \in Nat
    BY DEF Menus
  <1>2. m.visible # 0 /\ Place(m) <= Len(m.results)
    BY DEF Steps
  <1>3. Place(m) \in 1 .. Len(m.results)
    BY <1>1, <1>2 DEF Place
  <1> QED BY <1>1, <1>3

LEMMA DrawRest ==
  ASSUME Rest, pointed' \in BOOLEAN, NEW m \in Menus, NEW r \in {NULL, -1, 0, 1, 2}, Draw(m, r)
  PROVE  Rest'
  BY StepsType DEF Rest, Draw

LEMMA LeaveRest ==
  ASSUME Rest, UNCHANGED pointed, menu \in Menus, NEW r \in {NULL, -1, 0, 1, 2}, Leave(r)
  PROVE  Rest'
  BY StepsType DEF Rest, Leave

\* Every event keeps the types, as it keeps menu_t whole.
LEMMA RestStep == Inv /\ Rest /\ [Next]_vars => Rest'
  <1> SUFFICES ASSUME Inv, Rest, [Next]_vars PROVE Rest'
    OBVIOUS
  <1>1. menu \in Menus /\ menu' \in Menus
    BY NextInv DEF Inv, Listed
  <1>2. CASE UNCHANGED vars
    BY <1>2 DEF vars, Rest
  <1>3. ASSUME menu_handle_key, UNCHANGED pointed PROVE Rest'
    <2>1. ASSUME NEW m, Draw(m, 1) PROVE Rest'
      BY <1>1, <1>3, <2>1, DrawRest DEF Draw, Rest
    <2>2. ASSUME Ignore PROVE Rest'
      BY <1>3, <2>2 DEF Ignore, Rest
    <2>3. ASSUME NEW m, Move(m) PROVE Rest'
      BY <2>1, <2>2, <2>3 DEF Move
    <2>4. ASSUME NEW r \in {-1, 2}, Leave(r) PROVE Rest'
      BY <1>1, <1>3, <2>4, LeaveRest
    <2>5. ASSUME i' = 2, UNCHANGED <<menu, loop, shown, chosen>> PROVE Rest'
      BY <1>3, <2>5 DEF Rest
    <2> QED BY <1>3, <2>1, <2>2, <2>3, <2>4, <2>5 DEF menu_handle_key
  <1>4. ASSUME KeyRelease, UNCHANGED pointed PROVE Rest'
    BY <1>1, <1>4, LeaveRest DEF KeyRelease, Rest
  <1>5. ASSUME menu_handle_move PROVE Rest'
    <2>1. pointed' \in BOOLEAN
      BY <1>5 DEF menu_handle_move
    <2>2. PICK m : Draw(m, i)
      BY <1>5 DEF menu_handle_move
    <2> QED BY <1>1, <2>1, <2>2, DrawRest DEF Draw, Rest
  <1>6. ASSUME Wheel, UNCHANGED pointed PROVE Rest'
    <2>1. PICK m : Draw(m, i)
      BY <1>6 DEF Wheel
    <2> QED BY <1>1, <1>6, <2>1, DrawRest DEF Draw, Rest
  <1>7. ASSUME menu_handle_release, UNCHANGED pointed PROVE Rest'
    BY <1>1, <1>7, LeaveRest DEF menu_handle_release
  <1> QED BY <1>2, <1>3, <1>4, <1>5, <1>6, <1>7 DEF Next, menu_filter

\* The fields of menu_t and the variables of menu_filter keep their types through every
\* event; the first visible item is on the list, and there is one whenever the list is not
\* empty, even after the pointer has put the selection out of step.
THEOREM MenuTypes == Spec => []TypeOK
  <1>1. Init => Rest
    <2> SUFFICES ASSUME Init PROVE Rest
      OBVIOUS
    <2>1. PICK cycle \in Cycles, n \in 1 .. ItemCount :
            /\ cycle => n >= 2
            /\ i = NULL /\ loop = "reading" /\ chosen = NULL /\ pointed = FALSE
            /\ shown = [k \in 1 .. n |-> k][(IF cycle THEN 1 ELSE 0) + 1]
      BY DEF Init
    <2>2. (IF cycle THEN 1 ELSE 0) + 1 \in 1 .. n
      BY <2>1, MenuAssumption
    <2>3. shown \in Nat
      BY <2>1, <2>2
    <2> QED BY <2>1, <2>3 DEF Rest
  <1>2. Inv /\ Rest => TypeOK
    <2> SUFFICES ASSUME Inv, Rest PROVE TypeOK
      OBVIOUS
    <2>1. menu \in Menus /\ Len(menu.results) \in Nat
      BY DEF Inv, Listed, Menus
    <2>2. menu.visible \in 0 .. Len(menu.results)
      BY <2>1 DEF Inv, Visible
    <2> QED BY <2>1, <2>2 DEF Rest, TypeOK
  <1> QED BY <1>1, <1>2, InvHolds, RestStep, PTL DEF Spec
=============================================================================
