------------------------------ MODULE Restore ------------------------------
(***************************************************************************)
(* How a new process takes over the state of one window: client_init       *)
(* reads _NET_WM_STATE once and calls the toggle of each atom it found,    *)
(* and each toggle publishes the flags as they are by then, so that the    *)
(* property shrinks and grows again.  A publication reads the property and *)
(* writes it back in two requests; between them, and between the turns of  *)
(* the loop, the owner of the window may write, and a signal may end the   *)
(* process, since state_init runs before the handlers are registered.      *)
(*                                                                         *)
(* WindowState has the loop in one step.                                   *)
(*                                                                         *)
(* A definition named X_Wrong is X with a mistake somebody could make;     *)
(* nothing uses it but the runs that put it in the place of X, to see that *)
(* a property notices.                                                     *)
(***************************************************************************)
EXTENDS Flags

CONSTANTS
  Foreign,    \* atoms of _NET_WM_STATE that the program does not know
  Carried,    \* atoms that windows carry before anybody restores them
  Owned       \* atoms that the owner adds and takes away meanwhile

ASSUME RestoreAssumption ==
  /\ Foreign \cap Flag = {}
  /\ Carried \subseteq Atom \cup Foreign
  /\ Owned \subseteq Atom \cup Foreign

VARIABLES
  netState,   \* _NET_WM_STATE of the window
  hinted,     \* the flags that client_init has from WM_HINTS by then
  flags,      \* client->flags
  atoms,      \* the part of the array `atoms` that the loop has still to go through
  input,      \* what ewmh_set_net_wm_state has read
  pc,         \* where the process is
  \* history
  asked,      \* what this process found on the window
  ever,       \* what was ever put on the window by somebody else
  calm,       \* the owner has not written since this process read the property
  torn        \* the owner has written since ewmh_set_net_wm_state, which is to write, read it

vars == <<netState, hinted, flags, atoms, input, pc, asked, ever, calm, torn>>

TypeOK ==
  /\ {netState, atoms, input, asked, ever} \subseteq SUBSET (Atom \cup Foreign)
  /\ flags \subseteq Flag
  /\ hinted \subseteq {"URGENCY"}
  /\ pc \in {"client_init", "loop", "ewmh_get_net_wm_state", "XChangeProperty", "done"}
  /\ calm \in BOOLEAN
  /\ torn \in BOOLEAN

Init ==
  /\ netState \in SUBSET Carried
  /\ hinted \in SUBSET {"URGENCY"}
  /\ ever = netState
  /\ pc = "client_init"
  /\ flags = {} /\ atoms = {} /\ input = {} /\ asked = {}
  /\ calm = TRUE /\ torn = FALSE

-----------------------------------------------------------------------------
(* What the toggles do *)

\* The flags after the toggle of an atom.  The client is not active yet, and frozen only if
\* it is fullscreen.
Toggled(f, a) ==
  CASE a \in {"STICKY", "HIDDEN", "SKIP_PAGER", "SKIP_TASKBAR"} -> Flip(f, {a})
    [] a = "FULLSCREEN"                                         -> Flip(f, {"FULLSCREEN", "FREEZE"})
    [] a = "URGENCY"                                            -> f \cup {"URGENCY"}
    [] OTHER                                                    -> f

\* Whether the toggle ends with ewmh_set_net_wm_state.
Publishes(f, a) ==
  \/ a \in {"STICKY", "HIDDEN", "FULLSCREEN", "SKIP_PAGER", "SKIP_TASKBAR"}
  \/ a \in Maximized /\ "FREEZE" \notin f

-----------------------------------------------------------------------------
(* The process *)

\* The call of ewmh_get_net_wm_state that begins ewmh_restore_net_wm_state.
client_init ==
  /\ pc = "client_init"
  /\ flags' = hinted
  /\ atoms' = netState
  /\ asked' = netState
  /\ calm' = TRUE
  /\ pc' = "loop"
  /\ UNCHANGED <<netState, hinted, input, ever, torn>>

\* Goes through the property as it is by now instead of the array.
Turn_Wrong(a) ==
  /\ pc = "loop"
  /\ a \in atoms
  /\ atoms' = (atoms \cap netState) \ {a}
  /\ flags' = Toggled(flags, a)
  /\ pc' = IF Publishes(flags, a) THEN "ewmh_get_net_wm_state" ELSE "loop"
  /\ UNCHANGED <<netState, hinted, input, asked, ever, calm, torn>>

\* One turn of the loop, up to the publication.  The order of the array is that in which
\* the owner, or the process before, has written the atoms: it can be any.
Turn(a) ==
  /\ pc = "loop"
  /\ a \in atoms
  /\ atoms' = atoms \ {a}
  /\ flags' = Toggled(flags, a)
  /\ pc' = IF Publishes(flags, a) THEN "ewmh_get_net_wm_state" ELSE "loop"
  /\ UNCHANGED <<netState, hinted, input, asked, ever, calm, torn>>

\* Uses the array that the loop has read.
ewmh_get_net_wm_state_Wrong ==
  /\ pc = "ewmh_get_net_wm_state"
  /\ input' = asked
  /\ pc' = "XChangeProperty"
  /\ UNCHANGED <<netState, hinted, flags, atoms, asked, ever, calm, torn>>

ewmh_get_net_wm_state ==
  /\ pc = "ewmh_get_net_wm_state"
  /\ input' = netState
  /\ pc' = "XChangeProperty"
  /\ UNCHANGED <<netState, hinted, flags, atoms, asked, ever, calm, torn>>

\* The rest of ewmh_set_net_wm_state: what it does not know it writes back.
XChangeProperty ==
  /\ pc = "XChangeProperty"
  /\ netState' = (input \ Atom) \cup Published(flags)
  /\ input' = {}
  /\ torn' = FALSE
  /\ pc' = "loop"
  /\ UNCHANGED <<hinted, flags, atoms, asked, ever, calm>>

\* ewmh_restore_net_wm_state returns.
Return ==
  /\ pc = "loop"
  /\ atoms = {}
  /\ pc' = "done"
  /\ UNCHANGED <<netState, hinted, flags, atoms, input, asked, ever, calm, torn>>

\* A signal ends the process, wherever it is, or the program is restarted later, and there is
\* another process.  The memory of the one before is gone, the property stays.
Start ==
  /\ pc # "client_init"
  /\ pc' = "client_init"
  /\ flags' = {} /\ atoms' = {} /\ input' = {} /\ asked' = {}
  /\ calm' = TRUE /\ torn' = FALSE
  /\ UNCHANGED <<netState, hinted, ever>>

\* The owner adds an atom or takes one away.
Write(a) ==
  /\ a \in Owned
  /\ netState' = Flip(netState, {a})
  /\ ever' = ever \cup {a}
  /\ calm' = (pc = "client_init")
  /\ torn' = (torn \/ pc = "XChangeProperty")
  /\ UNCHANGED <<hinted, flags, atoms, input, pc, asked>>

Next ==
  \/ client_init
  \/ \E a \in atoms : Turn(a)
  \/ ewmh_get_net_wm_state
  \/ XChangeProperty
  \/ Return
  \/ Start
  \/ \E a \in Owned : Write(a)

Spec == Init /\ [][Next]_vars

-----------------------------------------------------------------------------
(* Safety *)

\* The atoms that restoring does not bring back: the maximized ones, whose toggles set no
\* flag, and urgency, which is published only if another toggle follows.
Lossy == Maximized \cup {"URGENCY"}

\* However many processes begin to restore the window and are ended, it never carries what
\* nobody has put there.
NothingInvented == netState \subseteq ever \cup hinted

\* Whatever turn the loop is at, nothing that the process found is missing from the window
\* but what the loop has still to go through, although each publication strips all atoms
\* that are not among the flags yet.  So that is all a process that is ended there can lose;
\* the next one does not find it.
LostOnlyIfUnread ==
  calm /\ pc \in {"loop", "done"} => asked \ (netState \cup atoms) \subseteq Lossy

\* The flags are those that WindowState restores in one step, of the atoms gone through: no
\* toggle is applied twice, or to the wrong flag.
RestoredSoFar ==
  pc # "client_init" => flags = Restored(hinted, (asked \ atoms) \cap Atom)

\* Restoring is not atomic, and ends well all the same unless the process is ended on the way.
RestoresAll == NothingInvented /\ LostOnlyIfUnread /\ RestoredSoFar

\* The program writes back the atoms it does not know as the owner left them, unless the
\* owner writes between the two requests of one publication: then that is undone.
ForeignKept ==
  [][pc' # pc /\ ~torn => netState' \ Atom = netState \ Atom]_vars
=============================================================================
