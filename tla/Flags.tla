------------------------------- MODULE Flags -------------------------------
(***************************************************************************)
(* The flags of a client and the atoms of _NET_WM_STATE, as client.h and   *)
(* ewmh.c pair them.  The eight atoms are written with the names of the    *)
(* flags they publish.                                                     *)
(***************************************************************************)

Maximized == {"VMAXIMIZED", "HMAXIMIZED"}
Atom == Maximized \cup {"STICKY", "HIDDEN", "FULLSCREEN", "URGENCY",
                        "SKIP_PAGER", "SKIP_TASKBAR"}

\* The client_flags_t bits that are state here.
Flag == Atom \cup {"IGNORE", "FREEZE", "ACTIVE"}

Flip(flags, some) == (flags \ some) \cup (some \ flags)

\* What ewmh_set_net_wm_state writes for a set of flags.
Published(flags) ==
  (flags \cap {"STICKY", "HIDDEN", "URGENCY", "SKIP_PAGER", "SKIP_TASKBAR"})
    \cup (IF "FULLSCREEN" \in flags THEN {"FULLSCREEN"} ELSE flags \cap Maximized)

\* The flags that ewmh_restore_net_wm_state ends with, for the atoms it found.  The
\* maximized atoms set no flag.
Restored(flags, atoms) ==
  flags \cup (atoms \ Maximized) \cup (IF "FULLSCREEN" \in atoms THEN {"FREEZE"} ELSE {})
=============================================================================
