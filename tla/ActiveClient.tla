---------------------------- MODULE ActiveClient ----------------------------
(***************************************************************************)
(* What the session is promised about clients and activation, without      *)
(* groups, desktops, screens, flags or events: windows exist, some of them *)
(* are clients, one client at most is active, and pagers are told which    *)
(* one was active last.  MagnetWM implements it.                           *)
(***************************************************************************)
CONSTANTS Client, NULL

VARIABLES
  existing,   \* windows that exist
  clients,    \* windows that the program manages
  active,     \* the active client, or NULL
  told        \* _NET_ACTIVE_WINDOW

vars == <<existing, clients, active, told>>

Init ==
  /\ existing \subseteq Client
  /\ clients = {}
  /\ active = NULL
  /\ told = NULL

\* The activation goes to one of some, and pagers hear of it; if it goes to nobody they
\* keep the last they heard of.
Activate(some) ==
  /\ active' \in some
  /\ told' = IF active' = NULL THEN told ELSE active'

\* Owners create and destroy windows; that alone changes nothing else.
Own(c) ==
  /\ existing' \in {existing \cup {c}, existing \ {c}}
  /\ UNCHANGED <<clients, active, told>>

\* A window that exists becomes a client, and the active one if anything changes.
Adopt(c) ==
  /\ c \in existing \ clients
  /\ clients' = clients \cup {c}
  /\ Activate({active, c})
  /\ UNCHANGED existing

\* A client is let go only after its window is gone, and then somebody stays active if
\* somebody else was.
Forget(c) ==
  /\ c \in clients \ existing
  /\ clients' = clients \ {c}
  /\ Activate(IF active \in {c, NULL} THEN clients' \cup {NULL} ELSE clients')
  /\ UNCHANGED existing

\* Keys, clicks, pagers and switches of desktops; a command may destroy the window of a
\* client, which stays a client.
Select ==
  /\ Activate(clients \cup {NULL})
  /\ existing' \in {existing} \cup {existing \ {c} : c \in clients}
  /\ UNCHANGED clients

\* A new process begins without clients; the property stays on the server.
Restart ==
  /\ clients' = {}
  /\ active' = NULL
  /\ UNCHANGED <<existing, told>>

Next ==
  \/ Select
  \/ Restart
  \/ \E c \in Client : Own(c) \/ Adopt(c) \/ Forget(c)

Spec == Init /\ [][Next]_vars
=============================================================================
