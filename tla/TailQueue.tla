----------------------------- MODULE TailQueue -----------------------------
(***************************************************************************)
(* The tail queues of queue.h, the only container of the window manager:   *)
(* screens, the groups of a desktop, the clients of a group and the items  *)
(* of a menu are all kept in one.  A queue is the sequence of its elements *)
(* from TAILQ_FIRST to TAILQ_LAST.  The macros splice an element out       *)
(* through its own links and never search, so TAILQ_REMOVE means something *)
(* only for an element that is on the queue; that it always is, is what    *)
(* the invariant ListsAgree of MagnetWM is for.                            *)
(***************************************************************************)
EXTENDS Integers, Sequences, FiniteSets, Functions

CONSTANT NULL    \* the null pointer

TAILQ_INSERT_TAIL(q, e) == Append(q, e)

TAILQ_REMOVE(q, e) ==
  LET at == CHOOSE i \in DOMAIN q : q[i] = e
  IN  [i \in 1 .. Len(q) - 1 |-> IF i < at THEN q[i] ELSE q[i + 1]]

\* TAILQ_REMOVE followed by TAILQ_INSERT_TAIL: how the program marks an element
\* as the most recent one.
Requeue(q, e) == TAILQ_INSERT_TAIL(TAILQ_REMOVE(q, e), e)

TAILQ_LAST(q) == IF q = << >> THEN NULL ELSE q[Len(q)]

\* TAILQ_FOREACH left at the first element of S, NULL if there is none.
FirstIn(q, S) ==
  IF Range(q) \cap S = {} THEN NULL
  ELSE q[CHOOSE i \in DOMAIN q :
           q[i] \in S /\ \A j \in DOMAIN q : j < i => q[j] \notin S]

\* TAILQ_FOREACH_REVERSE left at the first element of S it meets.
LastIn(q, S) ==
  IF Range(q) \cap S = {} THEN NULL
  ELSE q[CHOOSE i \in DOMAIN q :
           q[i] \in S /\ \A j \in DOMAIN q : j > i => q[j] \notin S]

\* The elements that a walk along the queue meets at the places of a set, in their order.
Picked(q, at) ==
  [k \in 1 .. Cardinality(at) |-> q[CHOOSE i \in at : Cardinality({j \in at : j <= i}) = k]]
=============================================================================
