------------------------------ MODULE MainLoop ------------------------------
(***************************************************************************)
(* The main loop of magnetwm.c and what it waits for: the descriptor that  *)
(* select looks at, the queue Xlib keeps of events it has read already,    *)
(* the nested loops of drags and menus, signals at any moment, and the end *)
(* of the process or its restart.                                          *)
(*                                                                         *)
(* What a handler does is the matter of the other modules.  Here an event  *)
(* is of one of five kinds: "input" opens a drag or a menu, or is taken by *)
(* the one that is open, "release" closes it, "quit" and "restart" are the *)
(* keys bound to those commands, and all others are "request"s.            *)
(***************************************************************************)
EXTENDS Integers, Sequences, Functions

CONSTANT MaxEvents    \* bound: the events that the server sends, releases apart

ASSUME MainLoopAssumption == MaxEvents \in Nat

Kind == {"input", "release", "quit", "restart", "request"}

\* What XMaskEvent asks for.
Input == {"input", "release"}

VARIABLES
  pc,        \* where the process is
  wm_state,  \* the variable of magnetwm.c
  sent,      \* the kinds of all events sent so far; an event is its place in sent
  socket,    \* events that wait in the socket
  xqueue,    \* events in Xlib's queue
  output,    \* are there requests in Xlib's output buffer?
  grab,      \* does the program hold the pointer?
  handled,   \* the events it has taken, in that order
  first,     \* the first event of this connection
  woken,     \* has select returned with the descriptor, on this connection?
  caught     \* has SIGTERM come while the program was waiting or at work?

vars == <<pc, wm_state, sent, socket, xqueue, output, grab, handled, first, woken, caught>>

\* Places in main, in the order of the code; bind is state_bind, register is before the
\* handlers of signals are set, modal is the loop of a drag or a menu.
Places ==
  {"bind", "register", "start", "test", "flush", "select", "process", "modal", "free", "exec", "ended"}

Connected == pc \notin {"exec", "ended"}

TypeOK ==
  /\ pc \in Places
  /\ wm_state \in {"IDLE", "RUNNING", "RESTART", "QUIT"}
  /\ sent \in Seq(Kind)
  /\ socket \in Seq(Nat) /\ xqueue \in Seq(Nat) /\ handled \in Seq(Nat)
  /\ output \in BOOLEAN /\ grab \in BOOLEAN /\ woken \in BOOLEAN /\ caught \in BOOLEAN
  /\ first \in Nat

Init ==
  /\ pc = "bind"
  /\ wm_state = "IDLE"
  /\ sent = << >> /\ socket = << >> /\ xqueue = << >> /\ handled = << >>
  /\ output = TRUE
  /\ grab = FALSE
  /\ first = 1
  /\ woken = FALSE /\ caught = FALSE

-----------------------------------------------------------------------------
(* The X server, and who sends signals *)

\* The event mask of the root window is set.  A release ends what the program grabbed
\* the pointer for, so there is none without that.  (More releases would change nothing.)
Send(kind) ==
  /\ Connected
  /\ IF kind = "release"
     THEN pc = "modal" /\ grab /\ \A i \in Range(socket) \cup Range(xqueue) : sent[i] # "release"
     ELSE Len(sent) < MaxEvents
  /\ sent' = Append(sent, kind)
  /\ socket' = Append(socket, Len(sent) + 1)
  /\ UNCHANGED <<pc, wm_state, xqueue, output, grab, handled, first, woken, caught>>

\* The window that the pointer is grabbed for is unmapped: the server ends the grab.
LoseGrab ==
  /\ pc = "modal"
  /\ grab
  /\ grab' = FALSE
  /\ UNCHANGED <<pc, wm_state, sent, socket, xqueue, output, handled, first, woken, caught>>

\* select is called again when a signal has interrupted it.
Term_Wrong ==
  /\ pc # "ended"
  /\ IF pc \in {"bind", "register"} THEN pc' = "ended" /\ UNCHANGED wm_state
     ELSE wm_state' = "QUIT" /\ UNCHANGED pc
  /\ caught' = (caught \/ pc \in {"test", "select", "process", "modal"})
  /\ UNCHANGED <<sent, socket, xqueue, output, grab, handled, first, woken>>

\* A signal interrupts select while the descriptor is not ready, and nothing else that
\* waits.  Without a handler it ends the process.
Interrupted ==
  CASE pc \in {"bind", "register"}           -> "ended"
    [] pc = "select" /\ socket = << >>       -> "test"
    [] OTHER                                 -> pc

\* SIGTERM or SIGINT.
Term ==
  /\ pc # "ended"
  /\ pc' = Interrupted
  /\ wm_state' = IF pc' = "ended" THEN wm_state ELSE "QUIT"
  /\ caught' = (caught \/ pc \in {"test", "select", "process", "modal"})
  /\ UNCHANGED <<sent, socket, xqueue, output, grab, handled, first, woken>>

\* SIGHUP: the handler sets a variable of its own.
Hup ==
  /\ pc # "ended"
  /\ pc' = Interrupted
  /\ UNCHANGED <<wm_state, sent, socket, xqueue, output, grab, handled, first, woken, caught>>

-----------------------------------------------------------------------------
(* The program *)

\* Reads all that has arrived into Xlib's queue.
Read ==
  /\ xqueue' = xqueue \o socket
  /\ socket' = << >>

\* A round trip, for the keyboard's map, after the event mask was set; the grabs of keys
\* follow it into the output buffer.
state_bind ==
  /\ pc = "bind"
  /\ pc' = "register"
  /\ output' = TRUE
  /\ Read \/ UNCHANGED <<xqueue, socket>>
  /\ UNCHANGED <<wm_state, sent, grab, handled, first, woken, caught>>

register_handlers ==
  /\ pc = "register"
  /\ pc' = "start"
  /\ UNCHANGED <<wm_state, sent, socket, xqueue, output, grab, handled, first, woken, caught>>

start ==
  /\ pc = "start"
  /\ pc' = "test"
  /\ wm_state' = "RUNNING"
  /\ UNCHANGED <<sent, socket, xqueue, output, grab, handled, first, woken, caught>>

test ==
  /\ pc = "test"
  /\ pc' = IF wm_state = "RUNNING" THEN "flush" ELSE "free"
  /\ UNCHANGED <<wm_state, sent, socket, xqueue, output, grab, handled, first, woken, caught>>

\* Leaves what was written in the buffer.
state_flush_Wrong ==
  /\ pc = "flush"
  /\ pc' = "select"
  /\ UNCHANGED <<wm_state, sent, socket, xqueue, output, grab, handled, first, woken, caught>>

\* While it writes, Xlib reads what has arrived.
state_flush ==
  /\ pc = "flush"
  /\ pc' = "select"
  /\ \/ output /\ Read
     \/ UNCHANGED <<xqueue, socket>>
  /\ output' = FALSE
  /\ UNCHANGED <<wm_state, sent, grab, handled, first, woken, caught>>

select ==
  /\ pc = "select"
  /\ socket # << >>
  /\ pc' = "process"
  /\ woken' = TRUE
  /\ UNCHANGED <<wm_state, sent, socket, xqueue, output, grab, handled, first, caught>>

\* XPending finds no event in Xlib's queue, flushes and reads.
XPending ==
  /\ pc = "process"
  /\ xqueue = << >>
  /\ Read
  /\ output' = FALSE
  /\ pc' = IF socket = << >> THEN "test" ELSE "process"
  /\ UNCHANGED <<wm_state, sent, grab, handled, first, woken, caught>>

\* Handles one event and goes back to select.
event_process_Wrong ==
  /\ pc = "process"
  /\ xqueue # << >>
  /\ LET kind == sent[Head(xqueue)]
     IN  /\ wm_state' = CASE kind = "quit" -> "QUIT" [] kind = "restart" -> "RESTART"
                          [] OTHER -> wm_state
         /\ pc' = IF kind = "input" THEN "modal" ELSE "test"
         /\ grab' = (kind = "input")
  /\ handled' = Append(handled, Head(xqueue))
  /\ xqueue' = Tail(xqueue)
  /\ output' = TRUE
  /\ UNCHANGED <<sent, socket, first, woken, caught>>

\* XNextEvent and the handler, which may wait for answers of the server and read events
\* meanwhile.
event_process ==
  /\ pc = "process"
  /\ xqueue # << >>
  /\ LET kind == sent[Head(xqueue)]
     IN  /\ wm_state' = CASE kind = "quit" -> "QUIT" [] kind = "restart" -> "RESTART"
                          [] OTHER -> wm_state
         /\ \/ kind = "input" /\ pc' = "modal" /\ grab' = TRUE
            \/ UNCHANGED <<pc, grab>>
  /\ handled' = Append(handled, Head(xqueue))
  /\ \/ xqueue' = Tail(xqueue) /\ UNCHANGED socket
     \/ xqueue' = Tail(xqueue) \o socket /\ socket' = << >>
  /\ output' = TRUE
  /\ UNCHANGED <<sent, first, woken, caught>>

\* The places of the events in Xlib's queue that XMaskEvent takes.
Wanted == {i \in DOMAIN xqueue : sent[xqueue[i]] \in Input}

Without(i) == [j \in 1 .. Len(xqueue) - 1 |-> IF j < i THEN xqueue[j] ELSE xqueue[j + 1]]

\* XNextEvent: the loop drops the events that are not for it.
XMaskEvent_Wrong ==
  /\ pc = "modal"
  /\ Wanted # {}
  /\ \E i \in Wanted :
       /\ \A j \in Wanted : i <= j
       /\ xqueue' = SubSeq(xqueue, i + 1, Len(xqueue))
       /\ handled' = Append(handled, xqueue[i])
       /\ IF sent[xqueue[i]] = "release" THEN pc' = "process" /\ grab' = FALSE
          ELSE UNCHANGED <<pc, grab>>
  /\ output' = TRUE
  /\ UNCHANGED <<wm_state, sent, socket, first, woken, caught>>

\* A drag or a menu takes the first event that is for it, wherever it is in the queue,
\* and ends with a release.
XMaskEvent ==
  /\ pc = "modal"
  /\ \E i \in Wanted :
       /\ \A j \in Wanted : i <= j
       /\ xqueue' = Without(i)
       /\ handled' = Append(handled, xqueue[i])
       /\ IF sent[xqueue[i]] = "release" THEN pc' = "process" /\ grab' = FALSE
          ELSE UNCHANGED <<pc, grab>>
  /\ output' = TRUE
  /\ UNCHANGED <<wm_state, sent, socket, first, woken, caught>>

\* Without one it sends what is in the buffer and reads on.
XMaskEvent_read ==
  /\ pc = "modal"
  /\ Wanted = {}
  /\ output \/ socket # << >>
  /\ Read
  /\ output' = FALSE
  /\ UNCHANGED <<pc, wm_state, sent, grab, handled, first, woken, caught>>

\* Closes the connection: what has not been read is lost.
state_free ==
  /\ pc = "free"
  /\ pc' = "exec"
  /\ socket' = << >> /\ xqueue' = << >>
  /\ UNCHANGED <<wm_state, sent, output, grab, handled, first, woken, caught>>

\* A new process, unless exec fails.
restart ==
  /\ pc = "exec"
  /\ \/ /\ wm_state = "RESTART"
        /\ pc' = "bind"
        /\ wm_state' = "IDLE"
        /\ output' = TRUE
        /\ first' = Len(sent) + 1
        /\ handled' = << >>
        /\ woken' = FALSE /\ caught' = FALSE
     \/ /\ pc' = "ended"
        /\ UNCHANGED <<wm_state, output, first, handled, woken, caught>>
  /\ UNCHANGED <<sent, socket, xqueue, grab>>

Program ==
  \/ state_bind \/ register_handlers \/ start \/ test \/ state_flush \/ select
  \/ XPending \/ event_process \/ XMaskEvent \/ XMaskEvent_read \/ state_free \/ restart

Next == Program \/ Term \/ Hup \/ LoseGrab \/ \E kind \in Kind : Send(kind)

Spec == Init /\ [][Next]_vars

\* The process is not stopped, and whoever drags a window or has a menu open ends that.
Fairness == WF_vars(Program) /\ WF_vars(Send("release"))

FairSpec == Spec /\ Fairness

-----------------------------------------------------------------------------
(* Properties *)

Waiting == Range(socket) \cup Range(xqueue)

\* Of the events of a connection none is lost, none is taken twice, and none overtakes
\* another of its sort (those that drags and menus ask for, and the others), whatever is
\* taken out of turn and whoever reads.
NothingLost ==
  Connected =>
    LET all == handled \o xqueue \o socket
    IN  /\ Range(all) = first .. Len(sent)
        /\ \A i, j \in DOMAIN all :
             i < j => /\ all[i] # all[j]
                      /\ (sent[all[i]] \in Input <=> sent[all[j]] \in Input) => all[i] < all[j]

\* The program sleeps only when nothing is left to do: its requests are sent, and Xlib
\* holds no event back.  The exception is the first sleep, before which nobody looks into
\* Xlib's queue.
SleepsWhenDone ==
  (pc = "select" /\ socket = << >>) => ~output /\ (woken => xqueue = << >>)

\* A drag whose grab the server ended waits for a release that does not come.
Stuck == pc = "modal" /\ ~grab

\* An event that waits is handled at last, once the program has woken for the first time,
\* unless the connection ends before, or a drag has lost its grab.
EventsAreHandled ==
  \A e \in 1 .. 2 * MaxEvents :
    (woken /\ e \in Waiting) ~> (e \in Range(handled) \/ e < first \/ pc = "ended" \/ Stuck)

\* SIGTERM ends the program, or the restart that a key asked for comes first, if it
\* arrives while the program sleeps, handles events, or is about to test wm_state.
TermEndsProgram == caught ~> (pc = "ended" \/ ~caught \/ Stuck)
=============================================================================
