# MagnetWM in TLA+

MagnetWM is a window manager for X11: one C program, one thread, one event loop. This directory
holds a model of it in TLA+, the TLC configurations that check the model on small instances, and
proofs, checked by TLAPS, that its most important invariants hold for every number of windows,
groups, screens, desktops and events.

    tlc -config Focus.cfg MCMagnetWM        # any of the runs below
    tlapm MagnetWMProofs.tla                # the theorems

## 1. The system

### Components

| Part | Source | State it keeps | Operations |
|---|---|---|---|
| Tail queues | `queue.h` | the order of screens, groups, clients, menu items, bindings | `TAILQ_INSERT_TAIL`, `TAILQ_REMOVE`, the two FOREACH loops, `TAILQ_LAST` |
| Clients | `client.c` | per window: flags, `mapped`, group, geometry and saved geometry, hints, names | init, place, activate, deactivate, remove, next, previous, show, hide, the toggles, move and resize |
| Groups | `group.c` | name (the window class), clients in order of use, desktop | assign, unassign, activate, map, unmap |
| Desktops | `desktop.c` | groups in order of use | switch |
| Screens | `screen.c` | geometry, desktops and the current one, `active` | activate, adopt a client, area, look up by point or neighbour |
| Event handlers | `event.c` | nothing of their own | MapRequest, DestroyNotify, PropertyNotify, ConfigureRequest, KeyPress, ButtonPress, ClientMessage |
| Bound functions | `functions.c` | nothing of their own | what keys and buttons can be bound to: cycling, menus, moving, tiling, restart, quit |
| EWMH | `ewmh.c` | properties on the X server that pagers read and write | publish and restore `_NET_WM_STATE`, `_NET_ACTIVE_WINDOW`, the desktops; struts |
| ICCCM | `icccm.c` | properties and messages shared with the owners of windows | `WM_PROTOCOLS`, `WM_HINTS`, `WM_NORMAL_HINTS`, `WM_STATE`, `WM_TAKE_FOCUS`, `WM_DELETE_WINDOW` |
| Start and main loop | `state.c`, `magnetwm.c` | `state_t`, `wm_state` | read the outputs, adopt the windows of the session, loop, restart by exec, signals |
| Menus | `menu.c` | items, results, filter, selection, scroll position | open, type, complete, move, choose |
| Configuration | `config.y` | bindings, ignored classes, labels, colours | parse, bind, unbind |
| X helpers | `xutils.c`, `utils.c` | none | rectangles and distances, messages, fork and exec |

Everything hangs together by pointers: a screen has desktops, a desktop a queue of groups, a group a
queue of clients; each client points back at its group and each group at its desktop. The last
element of a queue is the most recent one. The handlers look a client up (by window, or by the flag
`CLIENT_ACTIVE`), call functions of `client.c`, `group.c`, `desktop.c` and `screen.c`, and these
publish what pagers read. Menus and drags read the events of their own inside the handler.

### What is hard

There is no concurrency inside the program. What makes it hard is what surrounds it:

* **Owners of windows** create, map, withdraw and destroy them at any moment, change what they
  announce, and answer messages when they get round to it. A MapRequest, a DestroyNotify or a
  PropertyNotify waits in the queue while the handlers of earlier events still see the old window.
* **Start and restart**: outputs are asked for one round trip at a time, the session's windows are
  visited one by one before anybody is told about destroyed windows; a restart replaces the process
  and keeps only what is on the server.
* **Monitors** come and go at any moment, and nobody looks after the start.
* **Two queues of events**: `select` looks at the descriptor, and Xlib holds back what it has read.
  Nested loops pick events out of the middle; signals come between any two instructions.
* **One flag, many writers**: eight paths move `CLIENT_ACTIVE`; a dozen functions change flags that
  have to be published; five searches have to skip ignored windows; fifteen paths change the
  geometry of a client, and each has to tell the server itself.
* **Properties are read and written back** in two requests, and restoring `_NET_WM_STATE` after a
  restart does so atom by atom, while owners write and signals still end the process.
* **Order as data**: the queues order groups and clients by use, and cycling walks them while some
  functions requeue and others do not.
* **Arithmetic**: coordinates are signed, sizes unsigned, and their sums unsigned.
* **One saved geometry** for fullscreen, maximizing, centering, tiling and dragging.
* **Menus** keep four variables (selection, scroll position, count, list) in step.
* **Keys** are grabbed by keycode and looked up by keysym, in two places.

`PROJECT.json` lists each hazard at its line, with the property that covers it, or why none does.

### What makes the parts correct

* Lists: every element is on exactly the list its pointer names, once; no list is empty that is
  linked (`ListsAgree`). Groups are the classes of a desktop (`OneGroupPerClass`).
* Activation: at most one client is active and it is on a list (`AtMostOneActive`,
  `ActiveIsManaged`, proved in section 4); it is the one published, and it has the keys, as far as
  its owner lets the program give them (`ActivePublished`, `KeysGoToActive`, `FocusOnActive`); never
  one of an ignored class (`IgnoredNeverActive`). Together with the life of clients this amounts to
  the abstract specification `ActiveClient` (`ImplementsActiveClient`).
* Cycling comes round and never hangs (`CycleIsReversible`, `NeverStops`).
* Windows of a current desktop are on the screen (`NothingStranded`), requests are answered
  (`RequestedIsManaged`), and clients of destroyed windows go (`ClientsHaveWindows`,
  `DestroyedIsForgotten`).
* Pagers read what the program acts on (`StatePublished`, `PagersAgree`). A process finds it on the
  windows after a restart and restores it, or loses no more than it had still to come to, invents
  nothing and leaves alone what is not its own (`RestoresAll`, `ForeignKept`); owners are told
  whether they can be seen (`StateTellsShown`) and asked before they are killed
  (`NeverKilledUnasked`).
* Screens are the monitors, one of them active, and a tap finds one (`ScreensAsPlugged`,
  `OneActiveScreen`, `TapsAreSafe`).
* Geometry: program and server agree (`ServerInStep`); windows stay within reach (`OnItsScreen`),
  new ones and tiles in the free area (`NewWindowsFit`, `TilesFit`); modes that share the saved
  geometry do not spoil each other (`MaximizedFills`, `BorderMatches`); moving there and back
  changes nothing (`MoveIsReversible`); resizing respects the hints (`ResizeRespectsHints`).
* The main loop loses no event and sleeps only when nothing waits (`NothingLost`, `SleepsWhenDone`,
  `EventsAreHandled`, `TermEndsProgram`).
* Configuration: the last line wins, and what is bound is what is grabbed and what runs
  (`LastLineWins`, `GrabsMatchBindings`).
* Menus: the list is what the filter matches, selection and scrolling agree, the walk along the list
  stays on it, and what is chosen is what was highlighted (`ListMatchesFilter`, `SelectionInStep`,
  `NoNullFollowed`, `ChosenIsShown`).

## 2. The modules

    TailQueue <-- WindowState <-- MagnetWM <-- MCMagnetWM   Focus, Ignored, NetState, Lifecycle
    Flags     <--+                   |
                                     +-- INSTANCE ActiveClient, the abstract specification
    Flags     <-- Restore   <-- MCRestore                   Restoring
    TailQueue <-- Menu      <-- MCMenu                      Menu
    TailQueue <-- Config    <-- MCConfig                    Reading; Example, HiddenLabel, LessKeys
    Geometry  <-- Placement <-- MCPlacement                 Placement, NewWindow; Tap
    MainLoop  <-- MCMainLoop                                Loop
    TailQueue <-- Outputs   <-- MCOutputs                   Plugging; HotPlug
                     |
                     +-- INSTANCE Geometry
    Icccm     <-- MCIcccm                                   Owners

    Proofs: TailQueueProofs <-- MagnetWMProofs, MenuProofs, ConfigProofs, OutputsProofs
            MainLoopProofs, IcccmProofs, PlacementProofs

On the right are the cfg files of each MC module; those after a semicolon are not runs but
counterexamples that section 3 tells of.

The program is cut where its parts touch in little. MagnetWM composes lists, activation, events and
what pagers read; it takes what coordinates decide (the screen under the pointer) as a free choice.
The other machines each take one dimension that MagnetWM leaves out and model it in full, with the
rest of the program reduced to what it does to that dimension.

**TailQueue** (queue.h). A queue is the sequence from `TAILQ_FIRST` to `TAILQ_LAST`.

**WindowState** (client.c, group.c, desktop.c, screen.c, ewmh.c). A state is a record: the fields of
`state_t` and of the structs behind it as functions on `Client`, `GroupId`, `Desktop` and `Screen`,
and beside them what the X server holds (which windows exist and are viewable, who has the input
focus, the properties). Each C function is an operator of its name from the state in which it is
called to the state in which it returns. A window and its `client_t` are one value of `Client`; a
client exists while it is on a list. A `GroupId` is an address `calloc` may return. `XSetInputFocus`
is refused for windows that are not viewable, as the server does, and unmapping a window takes the
focus from it. `client_activate` gives the focus to windows with the input hint or without
`WM_TAKE_FOCUS` (`GivenFocus`, client.c:40); the others are sent a message, and owners of windows
with `WM_TAKE_FOCUS` may set the focus whenever they like, to where the program does not know
(`Elsewhere`). What a window announces is a constant here and a variable of Icccm.

**Flags** pairs the flags of a client with the atoms of `_NET_WM_STATE`.

**Restore** (`ewmh_restore_net_wm_state` and what it calls) has the process that takes over one
window, request by request. WindowState has that loop in one step, for what comes after it; here
`pc` stops after the one reading of the property at the beginning, after each turn, and between the
two requests of each publication, and in any of these places the owner may write and the process may
end, leaving the property to the next one. `flags` and the rest of the array (`atoms`) belong to the
process, `netState` to the server; `asked`, `ever`, `calm` and `torn` are history.

**MagnetWM** (event.c, functions.c, state.c, magnetwm.c). Four variables:

* `state`, the record of WindowState;
* `wm_state`, the variable of `magnetwm.c` (`IDLE`, `RUNNING`, `RESTART`, `QUIT`), or how the
  process ended: `EXITED`, `CRASHED` (it follows NULL or leaves an array), `HUNG` (a loop in a
  handler that never ends);
* `windows`, what `state_update_clients` has still to visit;
* `queue`, the MapRequest and DestroyNotify events not read yet.

One event is one step: a handler, with everything it calls, is one action of the name of the C
function. Between handlers the owners of windows act. Events that carry no more than the name of a
window (clicks, keys, client messages) are handled when they arrive, since nothing about them can
become stale that their handler does not look up again; the two events that can arrive for a window
that is gone, or be outlived by it, wait in `queue`, in order for each window. Windows destroyed
while nobody listens (start) and clients that exist for them then are `zombie`.

**ActiveClient** is what the session is promised about activation, in four variables: windows that
exist, clients, the active one, the one told to pagers. MagnetWM instantiates it with `existing`
from the server, `clients` from the lists, `active` from the walk that `client_find_active` makes
over them, and `told` from `_NET_ACTIVE_WINDOW`.

**Icccm** (icccm.c with its callers in client.c, functions.c, event.c, state.c). What owners write
(`WM_PROTOCOLS`, `WM_HINTS`), what the program has read of it (when it adopts a window and when a
PropertyNotify tells it), the messages under way (`mail`), the focus and `WM_STATE`. A property that
changes after the program has read it and before it has selected events for the window
(`XSelectInput`, the end of `client_init`) is `unheard` for good. Owners follow one of the four
input models of the ICCCM and answer a message in a step of their own, however late.

**Outputs** (`state_update_screens`, the rest of `state_init`, and their readers). The X server has
a layout that may change between any two round trips. `at` is the call that `state_init` has
reached; each of the five writes to the four properties of the root window is a step of its own,
from the list of screens. After the start come taps, pagers' switches and restarts. `calm` says that
no layout changed since the process began.

**Geometry** (xutils.c and the arithmetic of screen.c, client.c and functions.c) has functions of
rectangles and points only. What it needs of the list of screens it takes from `session`, a record
that never changes in Placement (several small sessions are checked in one run, and Init chooses
one) and that Outputs substitutes by its own list of screens. Sums of a coordinate and a size are
taken modulo `Word`, and comparisons are signed or unsigned as in C. `Word` is 2^32 in the program
and 4096 in the runs, since screens of 12 by 9 need no more: what wraps is a coordinate below zero,
and it does so with any word.

**Placement** (the placing, moving and resizing of windows in client.c, functions.c, event.c,
screen.c) has the geometry and saved geometry of each client, its flags that geometry depends on,
struts and hints, and in its field `window` the geometry and border that the X server has. Those
change only in `client_move_resize`, `client_draw_border` and `XConfigureWindow`, and each function
that changes the record calls one of them or does not, as in C. A ConfigureRequest names some of the
five fields, in the record and for the server alike. A drag is a step for each motion.

**MainLoop** (magnetwm.c, `event_process`, the loops of drags and menus, `state_free`, exec). `pc`
is the place in `main`; events go from the server to the socket, from there into Xlib's queue by any
call that reads, and from the queue to the handler or to a nested loop. Signals come at every place.

**Config** (config.y, `state_bind`, the handlers of presses). A file is a sequence of lines of
lexemes; `yyparse` takes one line a step. The keyword table is searched as `bsearch` does, by
halving. When the file is read, or given up at its first error, the grabs follow from the bindings
through keycodes, and what a press runs through keysyms.

**Menu** (menu.c). It is a machine of its own: while a menu is open the rest of the program stands
still, and what MagnetWM needs of a menu is that it gives back one of the items offered or none. The
filter is the sequence of the sets of items that its prefixes match, so that letters need not be
modelled; the texts are taken to be distinct. `pointed` records that the pointer has moved the
selection, after which the code's variables are no longer in step (section 3).

The modules named **MC...** give the constants values; those named **...Proofs** are section 4.

Definitions named `X_Wrong` are plausible mistakes in X; they are used by nothing but a run that
puts one in the place of X, to see that a property notices.

## 3. The runs

Deadlock is not checked where the program really ends (`EXITED`, `ended`, a crash); it is in the
other runs. What would be a deadlock of the program itself is a property: a handler that hangs
(`NeverStops`), a loop that sleeps over events (`SleepsWhenDone`), a nested loop that never ends
(`EventsAreHandled`).

| Run | Instance | Properties | States |
|---|---|---|---|
| `Focus` | 3 windows, classes A A B, 1 screen with 2 desktops, the third window one that sets the focus itself; clicks, cycling, window menus, closing, switches | `ActivePublished` `OneGroupPerClass` `NothingStranded` `KeysGoToActive` | 425,300 |
| `Ignored` | 3 windows of one class and one of an ignored class; cycling both ways, hiding, pagers that activate | `IgnoredNeverActive` `CycleIsReversible` `NeverStops` | 242,656 |
| `NetState` | 1 window; each key and each atom that changes its state, its hints and names, SIGTERM, SIGHUP, quit and restart | `StatePublished` | 112,841 |
| `Lifecycle` | 2 windows of two classes, 2 screens; owners that create, map, withdraw and destroy, during restarts too | `ListsAgree` `ClientsHaveWindows` `DestroyedIsForgotten` `RequestedIsManaged` `ImplementsActiveClient` | 84,048 |
| `Restoring` | 1 window, 9 atoms, of which the owner adds and removes two; processes ended anywhere | `RestoresAll` `ForeignKept` | 6,973,756 |
| `NewWindow` | 1 window, 2 screens (session `Taps`) | `NewWindowsOnTappedScreen`, violated | |
| `Menu` | up to 4 items in a window of 3 lines, with and without prompt; keys, wheel, pointer | `ListMatchesFilter` `SelectionInStep` `NoNullFollowed` `ChosenIsShown` | 13,988 |
| `Placement` | seven sessions, see below | `ServerInStep` `MaximizedFills` `BorderMatches` `OnItsScreen` `ResizeRespectsHints` `TilesFit` `MoveIsReversible` `NewWindowsFit` | 297,852 |
| `Reading` | all files of 3 lines out of 18, right and wrong; a US keyboard | `LastLineWins` `GrabsMatchBindings` | 75,408 |
| `Loop` | 4 events and the releases that end drags and menus; signals at any moment, restarts | `NothingLost` `SleepsWhenDone` `EventsAreHandled` `TermEndsProgram` | 149,787 |
| `Plugging` | 2 outputs, 8 layouts, 2 changes at any moment; taps, pagers, restarts | `OneActiveScreen` `ScreensAsPlugged` `PagersAgree` `TapsAreSafe` | 16,837 |
| `Owners` | 2 windows, 2 desktops, 4 input models, windows that start as icons; owners that announce or take back a protocol, or change their hints; closing, hiding, restarts | `FocusOnActive` `StateTellsShown` `NeverKilledUnasked` | 2,245,584 |

### The bounds

* **Windows.** Three windows give a group of two and another group (`Focus`), or a group with a
  first, a middle and a last client (`Ignored`): the branches of activation and cycling tell those
  apart and no more. There are as many `GroupId`s as windows; the lemma `FreeGroup` shows that this
  is enough for `calloc` never to run out. Windows of one class are exchanged by a symmetry set
  where all properties of the run are invariants or step properties.
* **Atoms.** `Restoring` has all eight that the program knows, any of them on the window at first,
  and one for all that it does not know; the owner writes that one and `HIDDEN`, one of those that
  are published.
* **Screens and desktops.** Two of each is what it takes for a client to be elsewhere; three screens
  in a row (`InARow`) what it takes to have a neighbour on both sides.
* **Placement** checks a session at a time: `Maximize` (each command on one window), `Drag` (two
  screens, sizes off either edge), `Resize` (increments, limits, aspect ratios, ConfigureRequests),
  `Cascade` and `UnderThePointer` (two windows under struts, one of an ignored class), `InARow`, and
  `Taps`. Screens are 12 by 9, so that a third of a side is not a whole number once borders and
  struts are off, and a border is 1. `Word` is 4096. `limit` bounds the size a drag asks for.
* **Menus** are longer than their window by one item, so that they scroll at both ends. `FilterMax`
  bounds the letters typed and `Lowest` how far below zero the selection is followed.
* **Configurations** of three lines bind, bind again and unbind; a fourth line adds no new pair.
* **`MaxEvents`** = 4 lets a nested loop take one event from between two others and leave one
  behind.
* **`Changes`** = 2 lets a monitor go and come back while the outputs are read; **`Edits`** = 1 lets
  the owner of one window announce a protocol, or take back one it began with, or change its hints,
  at any moment; that more edits change nothing is proved (`PoliteNeverKilled`, `KeysFollowActive`,
  `StateAlwaysTellsShown`). After an edit `Owners` stays on the first desktop (`EditOrSwitch`): both
  in one behaviour is only proved. No owner there says that it starts Normal: with owners that
  change their mind about that, `StateTellsShown` is not promised by the code.

### What the properties except

A proviso in a property is a case in which the code does otherwise. Each has its hazard in
`PROJECT.json`:

* `KeysGoToActive` is about windows that the program gives the focus, and about the time until an
  owner sets it. What becomes of `WM_TAKE_FOCUS` is the matter of `FocusOnActive`.
* The part `LostOnlyIfUnread` of `RestoresAll` is about processes during which the owner did not
  write (`calm`), and leaves out what restoring never brings back (`Lossy`): the maximized atoms,
  whose toggles set no flag, and `DEMANDS_ATTENTION`, which is published only if another atom
  follows. A process that a signal ends between two toggles does lose the atoms that it had not come
  to: the handlers are registered after `state_init` (magnetwm.c:64). `ForeignKept` excepts the
  owner that writes between the two requests of a publication (`torn`), which is undone.
* `NothingStranded` and `KeysGoToActive` are checked without pagers that toggle
  `_NET_WM_STATE_HIDDEN`, which changes the flag and not the window (client.c:636).
* `NeverStops` holds while only keys cycle: with `window-cycle` on a mouse button over an ignored
  window the code hangs in `client_next`. `IgnoredNeverActive` holds while `menu-windows` is not on
  a button over an ignored window, or ignored windows are not of type NORMAL (`Regular`, section 4):
  that menu offers the window and activates it. A pager's index of another screen's desktop ends the
  process (desktop.c:56).
* `StatePublished` leaves `DEMANDS_ATTENTION` out: two functions change the flag and do not publish.
* `ClientsHaveWindows` excepts windows destroyed before `state_init` selects events (`zombie`).
* `SelectionInStep` and `NoNullFollowed` hold until the pointer has moved the selection, and for
  menus that cycle only if all items fit (`Calm`). `ChosenIsShown` needs neither.
* `MaximizedFills` is about sessions without drags and ConfigureRequests (`OnlyCommands`);
  `BorderMatches` and `OnItsScreen` about owners that do not ask for a geometry; `OnItsScreen` about
  drags that begin with the pointer on the window, windows not centered when larger than the area,
  and commands that go back to a saved geometry on one screen only, since what is saved may be on
  another screen; `ResizeRespectsHints` about windows without an aspect ratio, and no less than the
  base size; `MoveIsReversible` about screens of one size.
* `ServerInStep` leaves out the border of windows that were there at the start, which `client_init`
  does not draw.
* `TilesFit` is about windows without an aspect ratio, and tiles with room for two borders and the
  base and minimum size of the window (`Room`): a minimum is larger than a tile that is too small,
  and a size without room for borders wraps.
* `SleepsWhenDone` and `EventsAreHandled` are about the time after the first sleep (`woken`): before
  it, Xlib may hold events that registering the keys brought in. `EventsAreHandled` and
  `TermEndsProgram` except a drag whose grab the server has ended (`Stuck`); the latter is about
  signals that arrive where the loop still looks at `wm_state` (`caught`).
* `ScreensAsPlugged` and `TapsAreSafe` are about processes during which no layout changed (`calm`).
* `NeverKilledUnasked` excepts announcements still in the queue or made between the reading of
  `WM_PROTOCOLS` and the selection of events (`unheard`); `FocusOnActive` a `WM_TAKE_FOCUS` answered
  too late or not understood (`stray`).
* `GrabsMatchBindings` has two halves. `OnlyBoundKeysTaken` is about bindings whose keysym the
  keyboard has: another one has keycode 0 and grabs every key (state.c:46). `BoundKeysWork` says
  nothing of presses with NumLock, which match no binding.

### Fairness

* **MagnetWM** (`Lifecycle`): an event that waits is read at last, weak fairness of reading the
  MapRequest and the DestroyNotify of each window. `event_process` reads until the queue is empty,
  `main` calls it whenever the connection is readable, and X delivers in order. Nothing is assumed
  of users, owners, signals, or the end of the loop.
* **MainLoop** (`Loop`): the program goes on when it can (`Program`: there is one thread, and the
  system runs it), and users let go of the button or leave the menu at last (`Send("release")`).
  Signals and other events come or do not.
* The other machines have safety properties only and assume nothing.

### Where code and documents differ

`NewWindow`: README.md:5 says that new windows are assigned to the screen that was tapped;
`event_handle_map_request` (event.c:217) takes the last screen of the list. TLC finds it in three
steps: the start, a tap on the first of two screens (`tapped` is 1), and a MapRequest, whose window
becomes a client of the second.

More cfg files lead TLC to such a disagreement, and stay here as records:

| File (module) | Property, violated | What happens |
|---|---|---|
| `Tap` (MCPlacement) | `TapActivates` | `x_contains_point` (xutils.c:15) counts both edges as inside, so a tap on the first column of the right screen activates the left one. |
| `HotPlug` (MCOutputs) | `TapsActivateAnywhere` | A monitor plugged in later has no screen; the handler of a tap there (event.c:33) follows NULL. The event that would tell of it is selected (state.c:216) and not handled. |
| `HiddenLabel` (MCConfig) | `GrammarIsReachable` | The keyword table (config.y:488) has `window-inactive` before `window-hidden`; `bsearch` does not find the latter, and a line of the grammar is a syntax error. |
| `Example` (MCConfig) | `ExampleIsRead` | example.magnetwmrc:60 binds `windows`, which is a keyword and not a string: reading stops there. |
| `LessKeys` (MCConfig) | `OneCommandAPress` | On a keyboard whose `less` is a key of its own, the bindings of example.magnetwmrc:32-33 (`M-less` and `MS-less`) are ambiguous: one press runs both commands. |

Seen in the model and not checked by a cfg file: `menu_move_left` and `menu_move_right` go round
without scrolling; `function_menu_exec` keeps entries of a directory that it has closed; SIGHUP is
caught and ignored; `window-center` loses a window that is larger than the area; outputs that show
the same part of the desktop (mirrored monitors) become two screens at one place.

## 4. The proofs

They hold for all constants that satisfy the assumptions named in the modules
(`WindowStateAssumption`, `MagnetWMAssumption`, `MainLoopAssumption`, `IcccmAssumption`,
`OutputsAssumption`, `MenuAssumption`, `ConfigAssumption` and `PlacementAssumption` with
`GeometryAssumption`): sets of any size where the code has lists (finite where a list or a count is
made of them), at least one screen and one desktop, a menu with room for one item, files that are
sequences of lines of lexemes, values of the right types. Those that are more than types:

* Screens hold more than two borders, and none of their corners is near the end of an int. The X
  protocol gives sizes and positions 16 bits, an int has 32.
* The areas of outputs do not reach the end of an unsigned int, for the same reason.
* The pointer is on a screen: the server keeps it there (Placement; Outputs does without).
* No key has the keycode 0: keycodes begin at 8.
* A window can have no strut.
* `NONE`, which stands for no client and no drag, is neither a window nor the record of a drag.

A theorem about a part of the configurations, or of the windows, names its hypothesis in the second
column of the table.

| Theorem | Statement | Module |
|---|---|---|
| `TypeCorrect` | `Spec => []TypeOK` | MagnetWMProofs |
| `ListsAlwaysAgree` | `Spec => []ListsAgree` | |
| `ActiveIsUnique` | `Spec => []AtMostOneActive` | |
| `ActiveIsOnAList` | `Spec => []ActiveIsManaged` | |
| `ActiveIsPublished` | `Spec => []ActivePublished` | |
| `Refinement` | `Spec => ImplementsActiveClient` | |
| `ClientsAlwaysHaveWindows` | `Spec => []ClientsHaveWindows` | |
| `StateAlwaysPublished` | `Spec => []StatePublished` | |
| `IgnoredNeverTakeOver` | `Regular`: `Spec => []IgnoredNeverActive` | |
| `AlwaysOneGroupPerClass` | `Labelled`: `Spec => []OneGroupPerClass` | |
| `CycleAlwaysReversible` | `Labelled`: `Spec => []CycleIsReversible` | |
| `KeysAlwaysGoToActive` | `Obeyed`: `Spec => []KeysGoToActive` | |
| `NothingEverStranded` | `Watched`: `Spec => []NothingStranded` | |
| `ProgramNeverStops` | `Cyclable`, `Titled`, `Numbered`: `Spec => []NeverStops` | |
| `LoopTypes` | `Spec => []TypeOK` | MainLoopProofs |
| `SleepsOnlyWhenDone` | `Spec => []SleepsWhenDone` | |
| `EventsInOrder` | `Spec => []NothingLost` | |
| `ConversationTypes` | `Spec => []TypeOK` | IcccmProofs |
| `PoliteNeverKilled` | `Spec => NeverKilledUnasked` | |
| `KeysFollowActive` | `Spec => []FocusOnActive` | |
| `StateAlwaysTellsShown` | `Steady`: `Spec => []StateTellsShown` | |
| `TypesAlwaysOK` | `Spec => []TypeOK` | PlacementProofs |
| `ServerAlwaysInStep` | `Spec => []ServerInStep` | |
| `BordersAlwaysMatch` | `Spec => []BorderMatches` | |
| `MaximizedAlwaysFills` | `Spec => []MaximizedFills` | |
| `ResizeAlwaysRespectsHints` | `Spec => []ResizeRespectsHints` | |
| `TilesAlwaysFit` | `Roomy`: `Spec => []TilesFit` | |
| `NewWindowsAlwaysFit` | `Roomy`: `Spec /\ []Near => NewWindowsFit` | |
| `WindowsAlwaysOnTheirScreen` | `Kept`: `Spec => []OnItsScreen` | |
| `MovesAlwaysReversible` | `SideBySide`: `Spec => []MoveIsReversible` | |
| `OutputTypes` | `Spec => []TypeOK` | OutputsProofs |
| `AlwaysOneScreen` | `Spec => []OneActiveScreen` | |
| `PagersAlwaysAgree` | `Spec => []PagersAgree` | |
| `ScreensAlwaysAsPlugged` | `Spec => []ScreensAsPlugged` | |
| `TapsAlwaysSafe` | `Spec => TapsAreSafe` | |
| `MenuTypes` | `Spec => []TypeOK` | MenuProofs |
| `ListAlwaysMatches` | `Spec => []ListMatchesFilter` | |
| `SelectionAlwaysInStep` | `Spec => []SelectionInStep` | |
| `NeverOffTheList` | `Spec => []NoNullFollowed` | |
| `ChosenAlwaysShown` | `Spec => []ChosenIsShown` | |
| `ConfigTypes` | `Spec => []TypeOK` | ConfigProofs |
| `LastLineAlwaysWins` | `Spec => []LastLineWins` | |
| `GrabsAlwaysMatch` | `Spec => []GrabsMatchBindings` | |

**Tail queues.** `TailQueueProofs` says what insertion, removal and the two searches do to the
elements of a queue of any length. Removal needs the element to be on the queue, once: that is what
`ListsAgree` provides. A walk that keeps some elements is `Picked`: `Ranks` shows that the places it
keeps have the ranks from 1 to their number, from which follows that it keeps them all, in their
order (`PickedType`, `PickedAll`, `PickedAscends`), and what one step further adds (`PickedNext`).
The lists of menus, the screens made of outputs and the commands that a press runs are such walks.

**MagnetWM.** The inductive invariant is `Inv == TypeOK /\ Sound(state)`, where `Sound` says that
the lists agree, that the active client is the one that `_NET_ACTIVE_WINDOW` names, and that it has
a group. Its parts need one another. `client_activate` takes the flag from the client that
`client_find_active` finds by walking all lists, so uniqueness needs the active client to be on a
list; being on a list is the same as having a group only while lists and pointers agree
(`ManagedHasGroup`); and `client_deactivate` and `client_unmap` write `_NET_ACTIVE_WINDOW` for the
client that loses the flag, which is harmless only because it names that client already. The
argument has two layers above the queues:

* Each function of the program preserves `Sound`. Most of them leave lists and activation alone
  (`Same`, and the lemma `Frame`); the others are `GroupToTailSound`, `ClientToTailSound`,
  `ActivateSound`, `UnassignLinked`, `AssignLinked`, `AdoptSound`, `RemoveSound`, `InitSound` and
  `SwitchSound`. `FreeGroup` is a pigeonhole argument.
* One lemma for each handler and each command, then `NextInv`.

**The refinement.** ActiveClient lets windows come and go, adopts a client for a window that exists
and has none, lets go of one whose window is gone, and moves the activation and what is told of it
in one step. For the first two `Inv` is not enough: a handler does not look whether the window of
its event is still there. That is what `Waiting` adds: a window that is still to be visited has no
client, and one whose DestroyNotify waits is gone. With both, each handler is one abstract step: a
removal hands the activation on in the same step, since `client_remove` activates the next client
before it returns, and a restart is a step that lets go of all clients. The abstract specification
states no fairness, and neither does the theorem. `Waiting` says of clients, too, that they are of
windows that exist, are zombies or are waited for; `ClientsAlwaysHaveWindows` follows from it at
once.

**Flags, properties and names.** `Honest(state)` says of every client that it is `Fit`: the atoms
published of it are the ones of its flags, urgency aside (`client_set_urgent` tells nobody), and it
is marked `IGNORE` just if its class is ignored; under `Regular` nobody who is marked is active;
under `Labelled` a group has the name of the class of its members and shares it with no other group
of its desktop (`Names`). Most functions are `Steady`: they publish what they change, give the
activation to nobody who is marked and leave groups and names alone, and what is steady keeps
`Honest`. The functions that are not have lemmas of their own (`InitHonest`, `RemoveHonest`,
`AdoptHonest`, `UpdateNameHonest`). The two hypotheses are what the code needs, not what the proof
would like:

* `Regular`: no window of an ignored class is of type NORMAL, or, while `Labelled`, `menu-windows`
  is on no mouse button. That menu lists the windows of a group by type and does not ask what is
  ignored, so on a button over an ignored window a user could pick it and activate it.
* `Labelled`: no title changes, or every window has a class. `client_update_wm_name` names a group
  that has no name after the title of a window, and another window of no class then gets another
  group.

`CycleAlwaysReversible` needs `Names`, since only a group of one class is ignored as a whole or not
at all, and `IsInjective` of its list; `CycleFromAt` and `CycleBack` do the arithmetic of the loop
of `client_next` on a list of any length.

**What is on the screen.** `InSight` is the inductive invariant beside `Inv`, `Waiting` and
`Honest`. Two properties are in it, each under its hypothesis. `Focused` is `KeysGoToActive` itself,
for any sets of windows with the input hint and with `WM_TAKE_FOCUS`, and owners that set the focus
at any moment (`TakeFocusSame`). `Anchored` is more than `NothingStranded`: a client that is not
hidden is on the screen, or waits for its MapRequest, if its desktop is a current one *or it is
marked as mapped*, since `group_map` passes over what it takes to be mapped already. That is the
relation that `desktop_switch_to_index` depends on and no single function states. `Begun` is the
part about a process that is still taking over windows. What leaves the screen alone is `Still`; the
functions that do not are `SwitchVisibly` and those like it. The hypotheses:

* `Obeyed`: `Regular`, no owner withdraws a window, and pagers do not activate clients. A pager may
  activate a client that is off the screen, which cannot take the focus.
* `Watched`: the process starts without windows and is not restarted by a key (after a restart
  windows of other desktops come back where they may not belong), no owner withdraws a window and no
  pager toggles `HIDDEN` (which changes the flag and not the window), and with several screens no
  key moves a window to another one (the active client may be off the screen, and arrives as it is).

**Nothing hangs or follows NULL.** `NeverStops` is inductive with `Inv` and `Honest`: `EventsReturn`
goes through all that a handler can call. The three hypotheses are the three ways in which the code
goes wrong: `Cyclable` (no class is ignored, or cycling starts only at the active client of a group
of one class), `Titled` (the menu of windows meets none without a title) and `Numbered` (pagers ask
for desktops that exist, on one screen; desktop.c:56 goes wrong on others).

**MainLoop.** `SleepsOnlyWhenDone` rests on `Drained`: from the return of `event_process` to the
next `select` nothing is left in Xlib's queue, nested loops included. `EventsInOrder` rests on
`Chronicle`, which says that the handled events, Xlib's queue and the socket, one after the other,
hold the events of the connection, each once, and those of one sort in the order of their arrival
(`InOrder`); the step that takes an event out of the middle of the queue is the one that needs the
two sorts.

**Icccm.** `Inv == TypeOK /\ Shown(state) /\ Focused(state) /\ Heard /\ Adopted`. Only windows that
exist are viewable; at most one client is active, and if it can be seen it has the focus, a
`WM_TAKE_FOCUS` for it is under way, or one went astray; what owners have announced is known to the
program, waits in the queue, or was missed for good; only windows that exist or existed have
clients, and at the start only those that have been visited. `PoliteNeverKilled` is a property of
steps and needs `Heard` in the state before the kill.

`StateAlwaysTellsShown` needs more, `Told`, since a window can be unlabelled between two steps and
be adopted with the label of the process before: it labels every window, with a client or without,
and where WM_STATE is Normal on the word of `WM_HINTS` alone, the client has read that word.
Functions that map and unmap are `Relabels`. The hypothesis `Steady` is that owners do not edit
their hints, or none changes what they say of the start as an icon: `client_init` takes the word of
`WM_HINTS` after a restart, and the owner may have another one by then.

**Placement.** `Inv` says of each client that it is `Sound`, that the server has its geometry
(`InStep`) and, once it is drawn, its border (`Drawn`), and of a drag that it is `Holding`. `InStep`
needs every function to end with a call to the server: those that change the geometry twice (a move
to another screen, a new window) tell it in the middle, too, and `screen_adopt` tells it only if a
clamp moved the window. `BorderMatches` and `MaximizedFills` are not inductive. A border is right
after fullscreen only if `FULLSCREEN` never stands without `FREEZE`: otherwise
`client_toggle_fullscreen` would leave it alone. A maximized window fills its screen after
fullscreen only if `geometry_saved` held the filling geometry before, which is the relation in
`Commanded`; it is stated for sessions of commands (`OnlyCommands`), where screen, hints and struts
of a client do not change, and `FreeArea` shows that its area is then the screen, whatever clients
there are. New default hints must leave a maximized window as it is: `NoLimits`, with the screens
wider than two borders so that no size wraps to zero. `SomeScreen` shows that the search for the
nearest screen always finds one. Each function from client to client has its lemma
(`FullscreenSound`, `MaximizeSound`, `AdoptSound`, `HintsSound`, `CommandSound`, `ToggleSound`,
`InitsSound`, `PlacementSound`), each handler one above it.

The five geometric theorems build on the types, `Shaped`: a size that came out negative or that
wrapped would be no size.

* `ResizeAlwaysRespectsHints`: while a window is dragged its geometry is what the hints made of the
  size asked for last (`Holding`), and `SnappedFits` shows that the program's subtraction of a
  remainder is the largest size of base and increments, which the limits then cut.
* `TilesAlwaysFit`: `TileAxis` is about one axis, with division by two and by three and the borders;
  `RoomyArea` about what struts leave, and `SnappedFits` again about what the hints make of a tile:
  no more than it, where it has room for base and minimum. `Roomy`: the struts of no two windows
  exceed a screen together. Otherwise the free area is no part of the screen.
* `NewWindowsAlwaysFit`: `PlacedInside` is about `PlaceAxis`, and the three ways of
  `client_placement` are shown to ask for a position that is an int (`CascadeIsInt`, `PointerIsInt`,
  `CenterIsInt`). For the cascade that needs `Near`: the window from which it starts is not within
  `FUZZY_DISTANCE` of the end of an int. This is no assumption about the world, and `window-center`
  on a window larger than the area breaks it (functions.c:281 wraps, and the window goes to about
  2^31). TLC finds `Near` true in the sessions `Resize`, `Cascade`, `UnderThePointer`, `InARow` and
  `Taps`, and broken in that way in `Maximize` and `Drag`.
* `MovesAlwaysReversible`: in a row (`SideBySide`) the screen beside is one that begins elsewhere
  and has the same height (`Neighbours`), so the move keeps the distance from the corner and the
  clamp does nothing (`Sent`).
* `WindowsAlwaysOnTheirScreen`: the property says nothing of the saved geometry, of a window during
  its drag, and of windows that are not clients yet, and each of them may be where a client is next.
  `Home` says where they are: a window that is no client has a geometry that it was created with;
  the saved geometry is within reach wherever a command may use it (`Reachable`); in a drag the
  pointer is on the window and on a screen (`Held`), so that releasing it finds a screen that the
  window meets or leaves the window where it was. A window that is wider than its area loses its
  place when it is centered, since half of a wrapped difference is about 2^31: `Lost` says no more
  of it than that it is not below the ints, which is what `screen_adopt` needs to bring it back. One
  lemma per function (`AdoptHome`, `SendHome`, `TileHome`, `CenterHome`, ...) and one per action
  follow; `screen_adopt` brings any window back whose sums do not pass the end of an unsigned int
  (`Modest`).

`Kept` is a long hypothesis, and each part of it, what it says of sizes (`Modest`, `Spacious`)
aside, is a way in which the program does lose windows. TLC finds each in a session of one or two
windows without that part:

| Part of `Kept` | How a window is lost without it |
|---|---|
| no `window-resize` | on the right one of two screens the pointer takes the far edge of the window to the left screen; or a key starts the drag with the pointer off the window |
| no size hints | a window that reaches over the left edge gets a new maximum, and is then smaller than what was off the screen |
| saved geometry: one screen, or nothing uses it | maximized or made fullscreen, sent to the other screen, restored to where it was |
| a window that may be restored meets each screen at first | `client_restore` right after the adoption takes it back to where it was created |
| no struts with `window-move` | a strut at the top keeps the window below the pointer that drags it, which then takes it below the bottom |
| no struts with `window-center` | a window wider than the area goes to the far right, and the strut that made the area so narrow goes away |
| no vertical maximizing alone | it sets the width to the height of the area (client.c:740), and a window that centering has lost is then no wider than the area |
| screens in one row, if windows are moved | a window is not dragged above the top of the screen it comes from, and left or right of that one there may be no screen so low |

`Kept` asks for more than it has to in one place: on a single screen and without hints, TLC finds no
window that a resize has lost which began with the pointer on it.

**Outputs.** `Inv == TypeOK /\ Single /\ Written`: no screen is active before the last step of
`state_update_screens` and exactly one after it; and each property of the root window has, from the
step that writes it on, the value that follows from the list of screens. `_NET_DESKTOP_VIEWPORT` has
its final value only from its second writing on. `CornersType` does the division that finds the
screen of a desktop's number. `ScreensAlwaysAsPlugged` adds `Followed`: the outputs that are left to
read are the last ones of the list, and while nothing changes the screens are those of the outputs
before them; the lemmas about `Picked` make a list longer by one output. `TapsAlwaysSafe` then has
the screen for each lit area.

**Menu.** `Inv` has the parts `Listed`, `Visible`, `InStep` and `Drawn`. `SelectionInStep` alone is
not inductive: whether down scrolls or moves the selection depends on the end of the list and the
end of the window being reached together, and that needs the first visible item to be on the list
(`Visible`) and a cycle never to be narrowed (`Listed`). `DownGood` and `UpGood` are the two moves.
`Drawn` says that the item that `menu_filter` would return is the one the selection was last drawn
over; it survives the pointer, `InStep` does not, and so `ChosenAlwaysShown` needs no `Calm`.
`MenuTypes` adds `Rest`, the variables that `Inv` says nothing of, and takes from `Visible` that the
first visible item is on the list even then.

**Config.** `Inv` says that no command has two bindings and that, as long as no line was wrong, the
queue holds just the `Last` ones of the lines read so far, with the defaults as lines before the
first; `OneMore` and `NoMore` are the two kinds of lines. `BoundAgain` shows that a command which is
bound again keeps its place and has the new binding alone. For the keys, the grabs are those of the
bindings, `KeyFound` says which key has a keysym, and `PressFinds` goes from the key and its
modifiers back to the binding. All this holds whatever `bsearch` finds: `Lexed` needs only that it
finds nothing but keywords.

TLC checks each of these invariants, or the property it is made for, on the small instances, and the
hypotheses are true of the instances that check the property.

**Only model-checked** are:

* the four properties of liveness, `DestroyedIsForgotten`, `RequestedIsManaged`, `EventsAreHandled`
  and `TermEndsProgram`: fairness and ENABLED are out of the prover's reach;
* the turns of `ewmh_restore_net_wm_state` (Restore): a window has eight atoms that the program
  knows, whatever the constants, so the run is almost the whole matter;
* what the recursive search `bsearch` finds, which is an induction over data;
* `NewWindowsOnTappedScreen` and the properties of the records in section 3, which the code
  violates.

## 5. What is not modelled

* **Stacking order, drawing, labels, fonts, colours, cursors, the pointer warp**: nothing that the
  program decides later depends on them.
* **Memory**: what is freed is reset in the model. `group_t`s and strings that leak do so silently.
* **Names**: of desktops and windows, as characters. Titles matter where they name a group.
* **EWMH properties that are constant** (`_NET_SUPPORTED`, the name and pid of the program), frame
  extents and window types.
* **The lexer's characters**: quotes, comments and continued lines reach the model as the lexemes
  that `yylex` returns. The includes that `pushfile` could stack are not in the grammar.
* **Menus of commands and programs** spawn a process and change no state. The pixel layout of menus
  is left out.
* **queue.h**: of its five families of lists the program uses `TAILQ` only.
* **Build files, the example configuration, the readme**: no state. Lines of the last two are quoted
  where the code disagrees with them.
* The loop over screens that are not `wired` (state.c:296) is never entered: `state_update_screens`
  runs once, and wires each screen that it makes.

## 6. What could follow

1. The theorems with hypotheses, cut closer: `NothingEverStranded` over restarts,
   `KeysAlwaysGoToActive` with pagers that activate what is on the screen,
   `WindowsAlwaysOnTheirScreen` with resizing on one screen.
2. A repaired `state_update_screens` that is called for RRScreenChangeNotify, with Outputs as the
   place to check it.
