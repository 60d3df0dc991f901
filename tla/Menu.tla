-------------------------------- MODULE Menu --------------------------------
(***************************************************************************)
(* The menus of menu.c: the list of groups that group-cycle shows (cycle,  *)
(* no prompt) and the lists of windows, applications and programs (prompt, *)
(* no cycle).  menu_filter shows the menu and reads its keys, the pointer  *)
(* and the wheel until something is chosen; the rest of the program stands *)
(* still meanwhile.                                                        *)
(*                                                                         *)
(* Two things are abstracted.  Items are numbers, in the order of          *)
(* menu->items, and the filter is the sequence of the sets of items that   *)
(* its prefixes match: a letter more matches fewer items, whatever the     *)
(* letters are.  Texts are taken to be distinct.  An item that is pointed  *)
(* to is given by its place on menu->results, 0 for NULL.                  *)
(*                                                                         *)
(* As in WindowState, X_Wrong is X with a mistake.                         *)
(***************************************************************************)
EXTENDS TailQueue, SequencesExt

CONSTANTS
  ItemCount,   \* bound: menus have up to this many items
  Limit,       \* menu->limit, 10 in menu_init
  Cycles,      \* the values of menu->cycle that menus are opened with
  FilterMax,   \* bound: letters typed
  Lowest       \* bound: how far below zero selected_item is followed

ASSUME MenuAssumption ==
  /\ ItemCount \in Nat
  /\ Limit \in Nat \ {0}
  /\ Cycles \subseteq BOOLEAN
  /\ FilterMax \in Nat
  /\ Lowest \in Nat

VARIABLES
  menu,     \* menu_t
  i,        \* the local variable of menu_filter, NULL until it is set
  loop,     \* "reading", "left" or "crashed"
  shown,    \* the item the selection was last drawn over, NULL if there is none
  chosen,   \* what menu_filter returns
  pointed   \* history: has the pointer moved the selection?

vars == <<menu, i, loop, shown, chosen, pointed>>

Menus ==
  [ cycle            : BOOLEAN,                  \* menu->cycle; ~cycle: it has a prompt
    items            : Seq(Nat),
    results          : Seq(Nat),
    filter           : Seq(SUBSET (1 .. ItemCount)),
    count            : Nat,
    selected_item    : Int,
    selected_visible : Int,
    visible          : Nat ]

TypeOK ==
  /\ menu \in Menus
  /\ menu.visible \in 0 .. Len(menu.results)
  /\ i \in {NULL, -1, 0, 1, 2}
  /\ loop \in {"reading", "left", "crashed"}
  /\ shown \in Nat \cup {NULL}
  /\ chosen \in Nat \cup {NULL}
  /\ pointed \in BOOLEAN

-----------------------------------------------------------------------------
(* The list and the filter *)

\* The items whose text contains the filter.
Matching(m) == IF m.filter = << >> THEN Range(m.items) ELSE Last(m.filter)

menu_filter_update(m) ==
  LET at == IF m.results = << >> THEN -1 ELSE 0
  IN  [m EXCEPT !.visible = at + 1, !.selected_item = at, !.selected_visible = at]

\* The items of a list that match.
Among(list, matching) == Picked(list, {k \in DOMAIN list : list[k] \in matching})

\* Leaves the count as it was.
menu_filter_add_Wrong(m, matching) ==
  LET kept == Among(m.results, matching)
  IN  menu_filter_update([m EXCEPT !.filter = Append(@, matching), !.results = kept])

\* A letter is added; the list is narrowed, not searched again.
menu_filter_add(m, matching) ==
  LET kept == Among(m.results, matching)
  IN  menu_filter_update(
        [m EXCEPT !.filter = Append(@, matching), !.results = kept, !.count = Len(kept)])

\* A key without a letter, such as Shift: the empty suffix.
AddNothing(m) == menu_filter_update(m)

\* The filter became shorter: all items are searched again.
menu_filter_delete(m) ==
  LET kept == Among(m.items, Matching(m))
  IN  menu_filter_update([m EXCEPT !.results = kept, !.count = Len(kept)])

\* The filter becomes the longest prefix that all listed items have in common.  It
\* need not contain the old filter, and it may be empty.
Completions(m) ==
  {<< >>} \cup {filter \in UNION {[1 .. k -> SUBSET Range(m.items)] : k \in 1 .. FilterMax} :
                  /\ \A k \in DOMAIN filter : Range(m.results) \subseteq filter[k]
                  /\ \A k \in 2 .. Len(filter) : filter[k] \subseteq filter[k - 1]}

-----------------------------------------------------------------------------
(* The selection.  A move that returns 0 changes nothing. *)

\* Forgets that the list may be shorter than the window.
menu_move_down_Wrong(m) ==
  IF m.selected_visible = Limit - 1
  THEN IF m.visible = Len(m.results) THEN m
       ELSE [m EXCEPT !.visible = @ + 1, !.selected_item = @ + 1]
  ELSE [m EXCEPT !.selected_item = @ + 1, !.selected_visible = @ + 1]

menu_move_down(m) ==
  IF m.selected_item = m.count - 1 THEN m
  ELSE IF m.selected_visible = Limit - 1
       THEN IF m.visible = Len(m.results) THEN m
            ELSE [m EXCEPT !.visible = @ + 1, !.selected_item = @ + 1]
       ELSE [m EXCEPT !.selected_item = @ + 1, !.selected_visible = @ + 1]

\* Scrolls without taking the item along.
menu_move_up_Wrong(m) ==
  IF m.selected_item = 0 THEN m
  ELSE IF m.selected_visible = 0
       THEN IF m.visible = 1 THEN m ELSE [m EXCEPT !.visible = @ - 1]
       ELSE [m EXCEPT !.selected_item = @ - 1, !.selected_visible = @ - 1]

menu_move_up(m) ==
  IF m.selected_item = 0 THEN m
  ELSE IF m.selected_visible = 0
       THEN IF m.visible = 1 THEN m
            ELSE [m EXCEPT !.visible = @ - 1, !.selected_item = @ - 1]
       ELSE [m EXCEPT !.selected_item = @ - 1, !.selected_visible = @ - 1]

\* Neither end of a cycle scrolls back.
menu_move_left(m) ==
  IF menu_move_up(m) # m THEN menu_move_up(m)
  ELSE [m EXCEPT !.selected_item = m.count - 1, !.selected_visible = m.count - 1]

menu_move_right(m) ==
  IF menu_move_down(m) # m THEN menu_move_down(m)
  ELSE [m EXCEPT !.selected_item = 0, !.selected_visible = 0]

\* Where menu->selected_visible steps along TAILQ_NEXT lead from menu->visible: a
\* place of the list, the one behind its end (the NULL there), or a NULL followed.
Place(m) == m.visible + (IF m.selected_visible > 0 THEN m.selected_visible ELSE 0)

Steps(m) ==
  IF m.visible = 0
  THEN IF m.selected_visible > 0 THEN "NULL followed" ELSE "NULL"
  ELSE IF Place(m) <= Len(m.results) THEN "item"
  ELSE IF Place(m) = Len(m.results) + 1 THEN "NULL" ELSE "NULL followed"

-----------------------------------------------------------------------------
(* menu_filter *)

\* menu_draw and menu_draw_selection of a menu m; the event was handled with result r.
Draw(m, r) ==
  /\ menu' = m
  /\ i' = r
  /\ loop' = IF m.visible # 0 /\ Steps(m) = "NULL followed" THEN "crashed" ELSE "reading"
  /\ shown' = IF Steps(m) = "item" THEN m.results[Place(m)] ELSE shown
  /\ UNCHANGED chosen

Ignore == i' = 0 /\ UNCHANGED <<menu, loop, shown, chosen>>

\* The loop is left with i = r.
Leave(r) ==
  /\ i' = r
  /\ IF r # -1 /\ Steps(menu) = "NULL followed"
     THEN loop' = "crashed" /\ UNCHANGED chosen
     ELSE /\ loop' = "left"
          /\ chosen' = IF r # -1 /\ Steps(menu) = "item" THEN menu.results[Place(menu)]
                       ELSE NULL
  /\ UNCHANGED <<menu, shown>>

\* A menu that menu_filter does show; it shows none with no items, or with one if
\* that is a cycle.
Init ==
  \E cycle \in Cycles, n \in 1 .. ItemCount :
    LET items == [k \in 1 .. n |-> k]
        first == IF cycle THEN 1 ELSE 0
    IN  /\ cycle => n >= 2
        /\ menu = [cycle |-> cycle, items |-> items, results |-> items, filter |-> << >>,
                   count |-> n, selected_item |-> first, selected_visible |-> first,
                   visible |-> 1]
        /\ i = NULL
        /\ loop = "reading"
        /\ shown = items[first + 1]
        /\ chosen = NULL
        /\ pointed = FALSE

\* A key that moves the selection: menu_handle_key gives back what the move gave back.
Move(moved) == IF moved = menu THEN Ignore ELSE Draw(moved, 1)

menu_handle_key ==
  \/ /\ ~menu.cycle
     /\ \/ /\ Len(menu.filter) < FilterMax                       \* a letter
           /\ \E matching \in SUBSET Matching(menu) : Draw(menu_filter_add(menu, matching), 1)
        \/ Draw(AddNothing(menu), 1)                             \* Shift, Control, ...
        \/ /\ menu.filter # << >>                                \* XK_BackSpace
           /\ Draw(menu_filter_delete([menu EXCEPT !.filter = Front(@)]), 1)
        \/ /\ menu.results # << >>                               \* XK_Tab
           /\ \E filter \in Completions(menu) : Draw([menu EXCEPT !.filter = filter], 1)
        \/ menu.selected_item > -Lowest /\ Move(menu_move_up(menu))     \* XK_Up, C-p
        \/ Move(menu_move_down(menu))                                   \* XK_Down, C-n
  \/ /\ menu.cycle
     /\ \/ Draw(menu_move_left(menu), 1)                         \* XK_Left, C-b
        \/ Draw(menu_move_right(menu), 1)                        \* XK_Right, XK_Tab, C-f
        \/ Ignore                                                \* any letter
  \/ IF menu.count > 0 THEN Leave(2)                             \* XK_Return
     ELSE i' = 2 /\ UNCHANGED <<menu, loop, shown, chosen>>
  \/ IF menu.filter = << >> THEN Leave(-1)                       \* XK_Escape
     ELSE Draw(menu_filter_delete([menu EXCEPT !.filter = << >>]), 1)

\* Alt is let go of.  If no key was handled before, i has no value.
KeyRelease ==
  /\ menu.cycle
  /\ \E r \in IF i = NULL THEN {-1, 0} ELSE {i} : Leave(r)

\* Moves the selection without drawing it.
menu_handle_move_Wrong ==
  /\ \E entry \in 0 .. (IF menu.count < Limit THEN menu.count ELSE Limit) - 1 :
       menu' = [menu EXCEPT !.selected_visible = entry]
  /\ pointed' = TRUE
  /\ UNCHANGED <<i, loop, shown, chosen>>

\* MotionNotify over an entry that is drawn; selected_item stays.
menu_handle_move ==
  /\ \E entry \in 0 .. (IF menu.count < Limit THEN menu.count ELSE Limit) - 1 :
       /\ entry # menu.selected_visible
       /\ Draw([menu EXCEPT !.selected_visible = entry], i)
  /\ pointed' = TRUE

\* The wheel, Button4 and Button5; every turn redraws.
Wheel ==
  \/ menu.selected_item > -Lowest /\ Draw(menu_move_up(menu), i)
  \/ Draw(menu_move_down(menu), i)

\* Button1 is let go of, outside the entries or over them.
menu_handle_release ==
  \/ Leave(-1)
  \/ menu.count > 0 /\ Leave(2)

menu_filter ==
  /\ loop = "reading"
  /\ \/ menu_handle_key /\ UNCHANGED pointed
     \/ KeyRelease /\ UNCHANGED pointed
     \/ menu_handle_move
     \/ Wheel /\ UNCHANGED pointed
     \/ menu_handle_release /\ UNCHANGED pointed

Next == menu_filter

Spec == Init /\ [][Next]_vars
-----------------------------------------------------------------------------

\* What is listed is listed once and in order, it is counted right, and every item of
\* it matches the filter the user sees, through any mixture of typing, completing and
\* deleting.  (The converse fails: completing can replace the filter by one that
\* matches more than what is listed.)
ListMatchesFilter ==
  /\ menu.count = Len(menu.results)
  /\ \A k \in 2 .. Len(menu.results) : menu.results[k - 1] < menu.results[k]
  /\ Range(menu.results) \subseteq Range(menu.items) \cap Matching(menu)

\* The pointer has not been on the menu, and what cycles fits in the window.
Calm == ~pointed /\ (menu.cycle => menu.count <= Limit)

\* The three numbers that describe the selection agree while Calm holds, so that moving
\* it stops at both ends of the list and scrolls no further.  (menu_handle_move sets one
\* of them and menu_move_left two, which is where the provisos come from.)
SelectionInStep ==
  Calm /\ menu.results # << >> =>
    /\ menu.selected_item \in 0 .. menu.count - 1
    /\ menu.selected_visible \in 0 .. Limit - 1
    /\ menu.selected_item = menu.visible - 1 + menu.selected_visible

\* While Calm holds, neither drawing the selection nor choosing follows the NULL at the
\* end of the list, however the list shrank before.
NoNullFollowed == Calm => loop # "crashed"

\* The user gets what is highlighted, or nothing: after keys, wheel and pointer, in
\* whatever order, the selection on the screen is the one menu_filter returns.
ChosenIsShown ==
  chosen \in {NULL, shown}
=============================================================================
