--------------------------- MODULE MainLoopProofs ---------------------------
(***************************************************************************)
(* The main loop sleeps only when nothing is left to do, and no event is   *)
(* lost, taken twice or overtaken by another of its kind, for any number   *)
(* of events and restarts and signals at any moment.                       *)
(***************************************************************************)
EXTENDS MainLoop, SequenceTheorems, TLAPS

-----------------------------------------------------------------------------
(* Types *)

Flags ==
  output \in BOOLEAN /\ grab \in BOOLEAN /\ woken \in BOOLEAN /\ caught \in BOOLEAN

Data ==
  /\ pc \in Places
  /\ wm_state \in {"IDLE", "RUNNING", "RESTART", "QUIT"}
  /\ sent \in Seq(Kind)
  /\ socket \in Seq(Nat) /\ xqueue \in Seq(Nat) /\ handled \in Seq(Nat)
  /\ first \in Nat

\* The types in two parts: Boolean variables are a matter for another prover.
LEMMA TypeParts == TypeOK <=> Flags /\ Data
  BY DEF TypeOK, Flags, Data

\* The loop starts with every variable of its type.
LEMMA InitTypes == Init => TypeOK
  <1> SUFFICES ASSUME Init PROVE Flags /\ Data
    BY TypeParts
  <1>1. Flags
    BY DEF Init, Flags
  <1>2. Data
    BY DEF Init, Data, Places
  <1> QED BY <1>1, <1>2

\* The flags are flags.
LEMMA NextFlags ==
  ASSUME Flags, [Next]_vars
  PROVE  Flags'
  <1> USE DEF Flags
  <1>1. ASSUME NEW kind \in Kind, Send(kind) PROVE Flags'
    BY <1>1 DEF Send
  <1>2. CASE Term
    BY <1>2 DEF Term
  <1>3. CASE Hup
    BY <1>3 DEF Hup
  <1>4. CASE LoseGrab
    BY <1>4 DEF LoseGrab
  <1>5. CASE state_bind
    BY <1>5 DEF state_bind
  <1>6. CASE register_handlers \/ start \/ test
    BY <1>6 DEF register_handlers, start, test
  <1>7. CASE state_flush
    BY <1>7 DEF state_flush
  <1>8. CASE select \/ XPending
    BY <1>8 DEF select, XPending
  <1>9. CASE event_process
    BY <1>9 DEF event_process
  <1>10. CASE XMaskEvent
    BY <1>10 DEF XMaskEvent
  <1>11. CASE XMaskEvent_read \/ state_free
    BY <1>11 DEF XMaskEvent_read, state_free
  <1>12. CASE restart
    BY <1>12 DEF restart
  <1>13. CASE UNCHANGED vars
    BY <1>13 DEF vars
  <1> QED
    BY <1>1, <1>2, <1>3, <1>4, <1>5, <1>6, <1>7, <1>8, <1>9, <1>10, <1>11, <1>12, <1>13
    DEF Next, Program

\* A place in Xlib's queue can be left out of it.
LEMMA WithoutType ==
  ASSUME xqueue \in Seq(Nat), NEW i \in DOMAIN xqueue
  PROVE  /\ Without(i) \in Seq(Nat)
         /\ Len(Without(i)) = Len(xqueue) - 1
         /\ \A j \in 1 .. Len(xqueue) - 1 :
              Without(i)[j] = IF j < i THEN xqueue[j] ELSE xqueue[j + 1]
  <1> DEFINE n == Len(xqueue)
  <1>1. n \in Nat /\ n >= 1 /\ n - 1 \in Nat
    OBVIOUS
  <1>2. \A j \in 1 .. n - 1 : xqueue[j] \in Nat /\ xqueue[j + 1] \in Nat
    BY <1>1
  <1>3. Without(i) \in [1 .. n - 1 -> Nat]
    BY <1>1, <1>2 DEF Without
  <1> QED BY <1>1, <1>3 DEF Without

\* Reading leaves lists of events.
LEMMA ReadType ==
  ASSUME xqueue \in Seq(Nat), socket \in Seq(Nat), Read
  PROVE  xqueue' \in Seq(Nat) /\ socket' \in Seq(Nat)
  BY ConcatProperties DEF Read

\* Queues hold events.
LEMMA NextData ==
  ASSUME Data, [Next]_vars
  PROVE  Data'
  <1> USE DEF Data, Places, Kind
  <1>1. ASSUME NEW kind \in Kind, Send(kind) PROVE Data'
    BY <1>1 DEF Send
  <1>2. CASE Term \/ Hup \/ LoseGrab
    BY <1>2 DEF Term, Hup, LoseGrab, Interrupted
  <1>3. CASE state_bind \/ register_handlers \/ start \/ test
    BY <1>3, ReadType DEF state_bind, register_handlers, start, test
  <1>4. CASE state_flush \/ select \/ XPending
    BY <1>4, ReadType DEF state_flush, select, XPending
  <1>5. CASE event_process
    <2>1. Head(xqueue) \in Nat /\ Tail(xqueue) \in Seq(Nat)
      BY <1>5, HeadTailProperties DEF event_process
    <2>2. Append(handled, Head(xqueue)) \in Seq(Nat)
      BY <2>1, AppendProperties
    <2>3. Tail(xqueue) \o socket \in Seq(Nat)
      BY <2>1, ConcatProperties
    <2>4. /\ handled' = Append(handled, Head(xqueue))
          /\ \/ xqueue' = Tail(xqueue) /\ socket' = socket
             \/ xqueue' = Tail(xqueue) \o socket /\ socket' = << >>
          /\ sent' = sent /\ first' = first
      BY <1>5, Zenon DEF event_process
    <2>5. handled' \in Seq(Nat) /\ xqueue' \in Seq(Nat) /\ socket' \in Seq(Nat)
      <3>1. << >> \in Seq(Nat)
        OBVIOUS
      <3> QED BY <2>1, <2>2, <2>3, <2>4, <3>1, Zenon
    <2>6. /\ pc' = pc \/ pc' = "modal"
          /\ wm_state' \in {wm_state, "QUIT", "RESTART"}
      BY <1>5 DEF event_process
    <2> QED BY <2>4, <2>5, <2>6
  <1>6. CASE XMaskEvent
    <2>1. PICK i \in Wanted :
            /\ xqueue' = Without(i)
            /\ handled' = Append(handled, xqueue[i])
            /\ IF sent[xqueue[i]] = "release" THEN pc' = "process" /\ grab' = FALSE
               ELSE UNCHANGED <<pc, grab>>
      BY <1>6 DEF XMaskEvent
    <2>2. i \in DOMAIN xqueue
      BY DEF Wanted
    <2>3. Without(i) \in Seq(Nat) /\ xqueue[i] \in Nat
      BY <2>2, WithoutType
    <2>4. xqueue' \in Seq(Nat) /\ handled' \in Seq(Nat)
      BY <2>1, <2>3, AppendProperties
    <2>5. pc' \in {pc, "process"} /\ UNCHANGED <<wm_state, sent, socket, first>>
      BY <1>6, <2>1 DEF XMaskEvent
    <2> QED BY <2>4, <2>5
  <1>7. CASE XMaskEvent_read \/ state_free
    <2>1. xqueue' \in Seq(Nat) /\ socket' \in Seq(Nat)
      <3>1. << >> \in Seq(Nat)
        OBVIOUS
      <3> QED BY <1>7, <3>1, ReadType DEF XMaskEvent_read, state_free
    <2>2. pc' \in {pc, "exec"} /\ UNCHANGED <<wm_state, sent, handled, first>>
      BY <1>7 DEF XMaskEvent_read, state_free
    <2> QED BY <2>1, <2>2
  <1>8. CASE restart
    <2>1. first' \in {first, Len(sent) + 1} /\ handled' \in {handled, << >>}
      BY <1>8 DEF restart
    <2>2. << >> \in Seq(Nat) /\ Len(sent) + 1 \in Nat
      OBVIOUS
    <2>3. handled' \in Seq(Nat) /\ first' \in Nat
      BY <2>1, <2>2
    <2>4. /\ UNCHANGED <<sent, socket, xqueue>>
          /\ pc' \in Places
          /\ wm_state' \in {wm_state, "IDLE"}
      BY <1>8 DEF restart
    <2> QED BY <2>3, <2>4
  <1>9. CASE UNCHANGED vars
    BY <1>9 DEF vars
  <1> QED BY <1>1, <1>2, <1>3, <1>4, <1>5, <1>6, <1>7, <1>8, <1>9 DEF Next, Program

\* A step leaves every variable of its type.
LEMMA NextTypes ==
  ASSUME TypeOK, [Next]_vars
  PROVE  TypeOK'
  <1>1. Flags' /\ Data'
    BY TypeParts, NextFlags, NextData
  <1> QED BY <1>1 DEF TypeOK, Flags, Data

\* Every variable of the loop keeps to its values.
THEOREM LoopTypes == Spec => []TypeOK
  BY InitTypes, NextTypes, PTL DEF Spec

-----------------------------------------------------------------------------
(* Sleep *)

\* What makes SleepsWhenDone inductive: once select has returned with the descriptor, the
\* loop gets back to the test only through an XPending that found nothing, and that has
\* sent the requests too; so the flush that follows reads nothing, and a signal that ends
\* the sleep leaves it that way.
Drained ==
  /\ pc = "select" => ~output
  /\ woken /\ pc \in {"test", "flush", "select"} => ~output /\ xqueue = << >>
  /\ woken => pc \notin {"bind", "register", "start"}

\* A step keeps that.
LEMMA NextDrained ==
  ASSUME TypeOK, Drained, [Next]_vars
  PROVE  Drained'
  <1> USE DEF Drained, TypeOK
  <1>1. ASSUME NEW kind \in Kind, Send(kind) PROVE Drained'
    BY <1>1 DEF Send
  <1>2. CASE Term \/ Hup \/ LoseGrab
    BY <1>2 DEF Term, Hup, LoseGrab, Interrupted
  <1>3. CASE state_bind \/ register_handlers \/ start \/ test
    BY <1>3 DEF state_bind, register_handlers, start, test
  <1>4. CASE state_flush \/ select
    BY <1>4 DEF state_flush, select
  <1>5. CASE XPending
    <2>1. socket = << >> => xqueue' = << >>
      BY <1>5 DEF XPending, Read
    <2> QED BY <1>5, <2>1 DEF XPending
  <1>6. CASE event_process \/ XMaskEvent \/ XMaskEvent_read
    <2>1. pc \in {"process", "modal"} /\ pc' \in {"process", "modal"}
      BY <1>6 DEF event_process, XMaskEvent, XMaskEvent_read
    <2> QED BY <2>1
  <1>7. CASE state_free \/ restart
    BY <1>7 DEF state_free, restart
  <1>8. CASE UNCHANGED vars
    BY <1>8 DEF vars
  <1> QED BY <1>1, <1>2, <1>3, <1>4, <1>5, <1>6, <1>7, <1>8 DEF Next, Program

\* After its first sleep the program never sleeps on requests that it has not sent or on
\* events that Xlib holds, wherever signals and arrivals fall.
THEOREM SleepsOnlyWhenDone == Spec => []SleepsWhenDone
  <1>1. Init => Drained
    BY DEF Init, Drained
  <1>2. TypeOK /\ Drained /\ [Next]_vars => Drained'
    BY NextDrained
  <1>3. Drained => SleepsWhenDone
    BY DEF Drained, SleepsWhenDone
  <1> QED BY <1>1, <1>2, <1>3, LoopTypes, PTL DEF Spec
-----------------------------------------------------------------------------
(* Events *)

\* The events from the one numbered from up to the last, each once, and those of one sort
\* in the order they were sent.
InOrder(all, kinds, from) ==
  /\ all \in Seq(Nat)
  /\ Range(all) = from .. Len(kinds)
  /\ \A i, j \in DOMAIN all :
       i < j => /\ all[i] # all[j]
                /\ (kinds[all[i]] \in Input <=> kinds[all[j]] \in Input) => all[i] < all[j]

\* The next event is the last.
LEMMA SendInOrder ==
  ASSUME NEW all, NEW kinds \in Seq(Kind), NEW from \in Nat, from >= 1, from <= Len(kinds) + 1,
         InOrder(all, kinds, from), NEW kind \in Kind
  PROVE  InOrder(Append(all, Len(kinds) + 1), Append(kinds, kind), from)
  <1> DEFINE n == Len(kinds) + 1
             a == Append(all, n)
             k == Append(kinds, kind)
  <1>1. /\ n \in Nat
        /\ all \in Seq(Nat)
        /\ Range(all) = from .. n - 1
    BY DEF InOrder
  <1>2. /\ a \in Seq(Nat)
        /\ Len(a) = Len(all) + 1
        /\ DOMAIN a = 1 .. Len(all) + 1
        /\ \A i \in 1 .. Len(all) : a[i] = all[i]
        /\ a[Len(all) + 1] = n
    BY <1>1, AppendProperties
  <1>3. Len(k) = n /\ \A i \in 1 .. Len(kinds) : k[i] = kinds[i]
    BY AppendProperties
  <1> HIDE DEF a, k, n
  <1>4. \A i \in 1 .. Len(all) : all[i] \in from .. n - 1
    BY <1>1 DEF Range
  <1>5. Range(a) = from .. n
    <2>1. \A i \in DOMAIN a : a[i] \in from .. n
      <3> SUFFICES ASSUME NEW i \in 1 .. Len(all) + 1 PROVE a[i] \in from .. n
        BY <1>2
      <3>1. Len(all) \in Nat /\ from <= n
        BY <1>1 DEF n
      <3>2. CASE i = Len(all) + 1
        BY <1>1, <1>2, <3>1, <3>2
      <3>3. CASE i # Len(all) + 1
        <4>1. i \in 1 .. Len(all)
          BY <3>1, <3>3
        <4>2. a[i] = all[i] /\ all[i] \in from .. n - 1
          BY <1>2, <1>4, <4>1
        <4> QED BY <1>1, <4>2
      <3> QED BY <3>2, <3>3
    <2>2. \A e \in from .. n : e \in Range(a)
      <3> SUFFICES ASSUME NEW e \in from .. n PROVE \E i \in DOMAIN a : a[i] = e
        BY DEF Range
      <3>1. CASE e = n
        BY <1>1, <1>2, <3>1
      <3>2. CASE e # n
        <4>1. e \in Range(all)
          BY <1>1, <3>2 DEF n
        <4>2. PICK i \in DOMAIN all : all[i] = e
          BY <4>1 DEF Range
        <4>3. i \in 1 .. Len(all) /\ Len(all) \in Nat
          BY <1>1
        <4>4. i \in DOMAIN a /\ a[i] = e
          BY <1>2, <4>2, <4>3
        <4> QED BY <4>4
      <3> QED BY <3>1, <3>2
    <2> QED BY <2>1, <2>2 DEF Range
  <1>6. ASSUME NEW i \in DOMAIN a, NEW j \in DOMAIN a, i < j
        PROVE  /\ a[i] # a[j]
               /\ (k[a[i]] \in Input <=> k[a[j]] \in Input) => a[i] < a[j]
    <2>0. Len(all) \in Nat
      BY <1>1
    <2>1. i \in 1 .. Len(all) /\ a[i] = all[i] /\ a[i] \in from .. n - 1
      <3>1. i \in 1 .. Len(all)
        BY <1>2, <1>6, <2>0
      <3> QED BY <1>2, <1>4, <3>1
    <2>2. CASE j = Len(all) + 1
      BY <1>1, <1>2, <2>1, <2>2
    <2>3. CASE j # Len(all) + 1
      <3>1. j \in 1 .. Len(all) /\ a[j] = all[j] /\ a[j] \in from .. n - 1
        BY <1>1, <1>2, <1>4, <2>3
      <3>2. k[a[i]] = kinds[a[i]] /\ k[a[j]] = kinds[a[j]]
        BY <1>1, <1>3, <2>1, <3>1 DEF n
      <3> QED BY <1>1, <1>6, <2>1, <3>1, <3>2 DEF InOrder
    <2> QED BY <2>2, <2>3
  <1> QED BY <1>1, <1>2, <1>3, <1>5, <1>6 DEF InOrder, a, k, n

\* The list x is p, q and r, which are l, m and n long, one after the other.
IsList(x, p, q, r, l, m, n) ==
  /\ \A j \in 1 .. l : x[j] = p[j]
  /\ \A j \in l + 1 .. l + m : x[j] = q[j - l]
  /\ \A j \in l + m + 1 .. l + m + n : x[j] = r[j - (l + m)]

\* What a list of events is made of.
LEMMA ListOfEvents ==
  ASSUME NEW p \in Seq(Nat), NEW q \in Seq(Nat), NEW r \in Seq(Nat),
         NEW l \in Nat, l = Len(p), NEW m \in Nat, m = Len(q), NEW n \in Nat, n = Len(r)
  PROVE  /\ p \o q \o r \in Seq(Nat)
         /\ Len(p \o q \o r) = l + m + n
         /\ IsList(p \o q \o r, p, q, r, l, m, n)
  <1> DEFINE pq == p \o q
             all == pq \o r
  <1>1. /\ pq \in Seq(Nat)
        /\ Len(pq) = l + m
        /\ \A j \in 1 .. l + m : pq[j] = IF j <= l THEN p[j] ELSE q[j - l]
    BY ConcatProperties
  <1> HIDE DEF pq
  <1> DEFINE k == l + m
  <1>0. k \in Nat /\ Len(pq) = k
    BY <1>1
  <1> HIDE DEF k
  <1>2. /\ all \in Seq(Nat)
        /\ Len(all) = k + n
        /\ \A j \in 1 .. k + n : all[j] = IF j <= k THEN pq[j] ELSE r[j - k]
    <2>1. /\ pq \o r \in Seq(Nat)
          /\ Len(pq \o r) = Len(pq) + Len(r)
          /\ \A j \in 1 .. Len(pq) + Len(r) :
               (pq \o r)[j] = IF j <= Len(pq) THEN pq[j] ELSE r[j - Len(pq)]
      <3>1. pq \in Seq(Nat)
        BY <1>1
      <3> HIDE DEF all
      <3> QED BY <3>1, ConcatProperties
    <2> HIDE DEF all
    <2>2. all = pq \o r
      BY DEF all
    <2>3. /\ all \in Seq(Nat)
          /\ Len(all) = Len(pq) + Len(r)
          /\ \A j \in 1 .. Len(pq) + Len(r) : all[j] = IF j <= Len(pq) THEN pq[j] ELSE r[j - Len(pq)]
      BY <2>1 DEF all
    <2> QED BY <1>0, <2>3
  <1> HIDE DEF all
  <1>3. \A j \in 1 .. l : all[j] = p[j]
    <2> SUFFICES ASSUME NEW j \in 1 .. l PROVE all[j] = p[j]
      OBVIOUS
    <2>1. j \in 1 .. l + m /\ j \in 1 .. l + m + n /\ j <= l + m /\ j <= l
      OBVIOUS
    <2> QED BY <1>1, <1>2, <2>1 DEF k
  <1>4. \A j \in l + 1 .. l + m : all[j] = q[j - l]
    <2> SUFFICES ASSUME NEW j \in l + 1 .. l + m PROVE all[j] = q[j - l]
      OBVIOUS
    <2>1. j \in 1 .. l + m /\ j \in 1 .. l + m + n /\ j <= l + m /\ ~(j <= l)
      OBVIOUS
    <2> QED BY <1>1, <1>2, <2>1 DEF k
  <1>5. \A j \in l + m + 1 .. l + m + n : all[j] = r[j - (l + m)]
    <2> SUFFICES ASSUME NEW j \in l + m + 1 .. l + m + n PROVE all[j] = r[j - (l + m)]
      OBVIOUS
    <2>1. j \in 1 .. l + m + n /\ ~(j <= l + m)
      OBVIOUS
    <2> QED BY <1>2, <2>1 DEF k
  <1>6. IsList(all, p, q, r, l, m, n)
    BY <1>3, <1>4, <1>5, Zenon DEF IsList
  <1>7. Len(all) = l + m + n
    BY <1>2 DEF k
  <1> QED BY <1>2, <1>6, <1>7, Zenon DEF all, pq

\* The same, with the lengths.
LEMMA ListOfAll ==
  ASSUME NEW p \in Seq(Nat), NEW q \in Seq(Nat), NEW r \in Seq(Nat)
  PROVE  /\ p \o q \o r \in Seq(Nat)
         /\ Len(p \o q \o r) = Len(p) + Len(q) + Len(r)
         /\ IsList(p \o q \o r, p, q, r, Len(p), Len(q), Len(r))
  <1> DEFINE l == Len(p)
             m == Len(q)
             n == Len(r)
  <1>1. l \in Nat /\ l = Len(p) /\ m \in Nat /\ m = Len(q) /\ n \in Nat /\ n = Len(r)
    OBVIOUS
  <1> HIDE DEF l, m, n
  <1>2. /\ p \o q \o r \in Seq(Nat)
        /\ Len(p \o q \o r) = l + m + n
        /\ IsList(p \o q \o r, p, q, r, l, m, n)
    BY <1>1, ListOfEvents
  <1> QED BY <1>1, <1>2, Zenon

\* Reading moves the queues together.
LEMMA ReadSame ==
  ASSUME NEW p \in Seq(Nat), NEW q \in Seq(Nat), NEW r \in Seq(Nat)
  PROVE  p \o (q \o r) \o << >> = p \o q \o r
  <1>1. q \o r \in Seq(Nat)
    BY ConcatProperties
  <1>2. (p \o q) \o r = p \o (q \o r)
    BY ConcatAssociative
  <1>3. p \o (q \o r) \in Seq(Nat)
    BY <1>1, ConcatProperties
  <1>4. p \o (q \o r) \o << >> = p \o (q \o r)
    BY <1>3, ConcatEmptySeq
  <1> QED BY <1>2, <1>4

\* So does taking the first event of Xlib's queue.
LEMMA HeadSame ==
  ASSUME NEW p \in Seq(Nat), NEW q \in Seq(Nat), q # << >>, NEW r \in Seq(Nat)
  PROVE  /\ Append(p, Head(q)) \in Seq(Nat)
         /\ Tail(q) \in Seq(Nat)
         /\ Append(p, Head(q)) \o Tail(q) \o r = p \o q \o r
  <1>1. Head(q) \in Nat /\ Tail(q) \in Seq(Nat)
    BY HeadTailProperties
  <1>2. Append(p, Head(q)) = p \o <<Head(q)>> /\ <<Head(q)>> \in Seq(Nat)
    BY <1>1, AppendIsConcat
  <1>3. <<Head(q)>> \o Tail(q) = q
    BY ConcatSimplifications
  <1>4. (p \o <<Head(q)>>) \o Tail(q) = p \o (<<Head(q)>> \o Tail(q))
    BY <1>1, <1>2, ConcatAssociative
  <1>5. Append(p, Head(q)) \in Seq(Nat)
    BY <1>1, AppendProperties
  <1> QED BY <1>1, <1>2, <1>3, <1>4, <1>5

\* Where the element a of a list was before the one at l + i was put at l + 1.
Was(l, i, a) ==
  IF a <= l \/ a > l + i THEN a ELSE IF a = l + 1 THEN l + i ELSE a - 1

\* Of n elements only that one has overtaken others.
Overtakes(l, i, n) ==
  /\ \A a \in 1 .. n : Was(l, i, a) \in 1 .. n
  /\ \A b \in 1 .. n : \E a \in 1 .. n : Was(l, i, a) = b
  /\ \A a, b \in 1 .. n : a < b =>
       \/ Was(l, i, a) < Was(l, i, b)
       \/ /\ a = l + 1 /\ Was(l, i, a) = l + i
          /\ b - l - 1 \in 1 .. i - 1 /\ Was(l, i, b) = l + (b - l - 1)

\* It has.
LEMMA WasWhere ==
  ASSUME NEW l \in Nat, NEW i \in Nat, i >= 1, NEW n \in Nat, l + i <= n
  PROVE  Overtakes(l, i, n)
  <1>1. \A a \in 1 .. n : Was(l, i, a) \in 1 .. n
    BY DEF Was
  <1>2. ASSUME NEW b \in 1 .. n PROVE \E a \in 1 .. n : Was(l, i, a) = b
    <2>1. CASE b <= l \/ b > l + i
      <3>1. Was(l, i, b) = b
        BY <2>1 DEF Was
      <3> QED BY <3>1
    <2>2. CASE b = l + i
      <3>1. l + 1 \in 1 .. n /\ Was(l, i, l + 1) = b
        BY <2>2 DEF Was
      <3> QED BY <3>1
    <2>3. CASE b > l /\ b < l + i
      <3>1. b + 1 \in 1 .. n /\ Was(l, i, b + 1) = b
        BY <2>3 DEF Was
      <3> QED BY <3>1
    <2> QED BY <2>1, <2>2, <2>3
  <1>3. ASSUME NEW a \in 1 .. n, NEW b \in 1 .. n, a < b
        PROVE  \/ Was(l, i, a) < Was(l, i, b)
               \/ /\ a = l + 1 /\ Was(l, i, a) = l + i
                  /\ b - l - 1 \in 1 .. i - 1 /\ Was(l, i, b) = l + (b - l - 1)
    BY <1>3 DEF Was
  <1> QED BY <1>1, <1>2, <1>3 DEF Overtakes

\* In the list old, the element i of its second part moves to the end of the first.
Move(old, new, p, q, r, t, w, l, m, k, i) ==
  /\ l \in Nat /\ m \in Nat /\ k \in Nat /\ i \in 1 .. m
  /\ IsList(old, p, q, r, l, m, k)
  /\ IsList(new, t, w, r, l + 1, m - 1, k)
  /\ \A j \in 1 .. l : t[j] = p[j]
  /\ t[l + 1] = q[i]
  /\ \A j \in 1 .. m - 1 : w[j] = q[IF j < i THEN j ELSE j + 1]

\* That makes new from old.
MadeFrom(old, new, q, l, n, i) ==
  /\ \A a \in 1 .. n : new[a] = old[Was(l, i, a)]
  /\ \A j \in 1 .. i : old[l + j] = q[j]

\* It is made so.
LEMMA Moved ==
  ASSUME NEW p, NEW q, NEW r, NEW t, NEW w, NEW old, NEW new, NEW l, NEW m, NEW k, NEW i,
         Move(old, new, p, q, r, t, w, l, m, k, i)
  PROVE  MadeFrom(old, new, q, l, l + m + k, i)
  <1>0. l \in Nat /\ m \in Nat /\ k \in Nat /\ i \in 1 .. m
    BY DEF Move
  <1> USE DEF Move
  <1>1. ASSUME NEW a \in 1 .. l + m + k PROVE new[a] = old[Was(l, i, a)]
    <2> DEFINE b == Was(l, i, a)
    <2>0. \/ a \in 1 .. l + 1 /\ a \in 1 .. l /\ b = a
          \/ a \in 1 .. l + 1 /\ a = l + 1 /\ b \in l + 1 .. l + m /\ b - l = i
          \/ /\ a \in (l + 1) + 1 .. (l + 1) + (m - 1)
             /\ b \in l + 1 .. l + m
             /\ a - (l + 1) \in 1 .. m - 1
             /\ b - l = IF a - (l + 1) < i THEN a - (l + 1) ELSE a - (l + 1) + 1
          \/ /\ a \in (l + 1) + (m - 1) + 1 .. (l + 1) + (m - 1) + k
             /\ a \in l + m + 1 .. l + m + k
             /\ b = a
             /\ a - ((l + 1) + (m - 1)) = a - (l + m)
      <3> HIDE DEF Move
      <3> QED BY <1>0 DEF Was
    <2> HIDE DEF b
    <2>1. new[a] = old[b]
      <3>1. CASE a \in 1 .. l + 1 /\ a \in 1 .. l /\ b = a
        BY <3>1, Zenon DEF IsList
      <3>2. CASE a \in 1 .. l + 1 /\ a = l + 1 /\ b \in l + 1 .. l + m /\ b - l = i
        <4>1. new[a] = t[a] /\ old[b] = q[b - l]
          BY <3>2, Zenon DEF IsList
        <4> QED BY <3>2, <4>1, Zenon
      <3>3. CASE /\ a \in (l + 1) + 1 .. (l + 1) + (m - 1)
                 /\ b \in l + 1 .. l + m
                 /\ a - (l + 1) \in 1 .. m - 1
                 /\ b - l = IF a - (l + 1) < i THEN a - (l + 1) ELSE a - (l + 1) + 1
        <4>1. new[a] = w[a - (l + 1)] /\ old[b] = q[b - l]
          BY <3>3, Zenon DEF IsList
        <4>2. w[a - (l + 1)] = q[IF a - (l + 1) < i THEN a - (l + 1) ELSE a - (l + 1) + 1]
          BY <3>3, Zenon
        <4> QED BY <3>3, <4>1, <4>2, Zenon
      <3>4. CASE /\ a \in (l + 1) + (m - 1) + 1 .. (l + 1) + (m - 1) + k
                 /\ a \in l + m + 1 .. l + m + k
                 /\ b = a
                 /\ a - ((l + 1) + (m - 1)) = a - (l + m)
        <4>1. new[a] = r[a - ((l + 1) + (m - 1))] /\ old[a] = r[a - (l + m)]
          BY <3>4, Zenon DEF IsList
        <4> QED BY <3>4, <4>1, Zenon
      <3> QED BY <2>0, <3>1, <3>2, <3>3, <3>4, Zenon
    <2> QED BY <2>1, Zenon DEF b
  <1>2. ASSUME NEW j \in 1 .. i PROVE old[l + j] = q[j]
    <2> DEFINE b == l + j
    <2>1. b \in l + 1 .. l + m /\ b - l = j
      <3> HIDE DEF Move
      <3> QED BY <1>0
    <2> HIDE DEF b
    <2>2. old[b] = q[b - l]
      BY <2>1, Zenon DEF IsList
    <2>3. old[b] = q[j]
      BY <2>1, <2>2, Zenon
    <2> QED BY <2>3, Zenon DEF b
  <1> QED BY <1>1, <1>2, Zenon DEF MadeFrom

\* The list w is q without its element i.
TakenFrom(q, w, i) ==
  /\ i \in 1 .. Len(q)
  /\ w \in Seq(Nat)
  /\ Len(w) = Len(q) - 1
  /\ \A j \in 1 .. Len(q) - 1 : w[j] = q[IF j < i THEN j ELSE j + 1]

\* What taking an event out of Xlib's queue does to the list of all events.
LEMMA TakeMoves ==
  ASSUME NEW p \in Seq(Nat), NEW q \in Seq(Nat), NEW r \in Seq(Nat), NEW w, NEW i,
         TakenFrom(q, w, i)
  PROVE  /\ Append(p, q[i]) \o w \o r \in Seq(Nat)
         /\ Len(Append(p, q[i]) \o w \o r) = Len(p) + Len(q) + Len(r)
         /\ Len(p \o q \o r) = Len(p) + Len(q) + Len(r)
         /\ MadeFrom(p \o q \o r, Append(p, q[i]) \o w \o r, q, Len(p), Len(p) + Len(q) + Len(r), i)
  <1> DEFINE l == Len(p)
             m == Len(q)
             k == Len(r)
             t == Append(p, q[i])
             old == p \o q \o r
             new == t \o w \o r
  <1>1. q[i] \in Nat /\ w \in Seq(Nat) /\ Len(w) = m - 1 /\ i \in 1 .. m
    BY DEF TakenFrom
  <1>2. t \in Seq(Nat) /\ Len(t) = l + 1 /\ (\A j \in 1 .. l : t[j] = p[j]) /\ t[l + 1] = q[i]
    BY <1>1, AppendProperties
  <1>3. l \in Nat /\ m \in Nat /\ k \in Nat /\ (l + 1) + (m - 1) + k = l + m + k
    OBVIOUS
  <1>4. Len(old) = l + m + k /\ IsList(old, p, q, r, l, m, k)
    BY ListOfAll, Zenon
  <1> HIDE DEF t
  <1>5. new \in Seq(Nat) /\ Len(new) = (l + 1) + (m - 1) + k /\ IsList(new, t, w, r, l + 1, m - 1, k)
    <2>1. t \in Seq(Nat)
      BY <1>2
    <2>2. /\ new \in Seq(Nat)
          /\ Len(new) = Len(t) + Len(w) + Len(r)
          /\ IsList(new, t, w, r, Len(t), Len(w), Len(r))
      BY <1>1, <2>1, ListOfAll, Zenon
    <2> QED BY <1>1, <1>2, <2>2, Zenon
  <1> HIDE DEF old, new
  <1>6. \A j \in 1 .. m - 1 : w[j] = q[IF j < i THEN j ELSE j + 1]
    BY Zenon DEF TakenFrom
  <1>7. Move(old, new, p, q, r, t, w, l, m, k, i)
    BY <1>1, <1>2, <1>3, <1>4, <1>5, <1>6, Zenon DEF Move
  <1> HIDE DEF l, m, k
  <1>8. MadeFrom(old, new, q, l, l + m + k, i)
    BY <1>7, Moved, Zenon
  <1> QED BY <1>3, <1>4, <1>5, <1>8, Zenon DEF old, new, t, l, m, k

\* The element i of q is the first of those that a drag or a menu asks for.
FirstWanted(q, i, kinds) ==
  /\ kinds[q[i]] \in Input
  /\ \A j \in DOMAIN q : j < i => kinds[q[j]] \notin Input

\* A drag or a menu takes an event past others of the other sort only.
LEMMA TakeInOrder ==
  ASSUME NEW p \in Seq(Nat), NEW q \in Seq(Nat), NEW r \in Seq(Nat), NEW w, NEW i,
         NEW kinds, NEW from,
         TakenFrom(q, w, i),
         FirstWanted(q, i, kinds),
         InOrder(p \o q \o r, kinds, from)
  PROVE  InOrder(Append(p, q[i]) \o w \o r, kinds, from)
  <1> DEFINE l == Len(p)
             n == Len(p) + Len(q) + Len(r)
             old == p \o q \o r
             new == Append(p, q[i]) \o w \o r
             was(a) == Was(l, i, a)
  <1>1. l \in Nat /\ n \in Nat
    OBVIOUS
  <1>2. /\ new \in Seq(Nat) /\ DOMAIN new = 1 .. n /\ DOMAIN old = 1 .. n
        /\ \A a \in 1 .. n : new[a] = old[was(a)]
        /\ \A j \in 1 .. i : old[l + j] = q[j]
        /\ i \in Nat /\ i >= 1 /\ l + i <= n
    <2>1. i \in 1 .. Len(q)
      BY DEF TakenFrom
    <2>2. old \in Seq(Nat)
      BY DEF InOrder
    <2>3. /\ new \in Seq(Nat) /\ Len(new) = n /\ Len(old) = n
          /\ MadeFrom(old, new, q, l, n, i)
      BY TakeMoves
    <2>4. i \in Nat /\ i >= 1 /\ l + i <= n
      BY <2>1
    <2> HIDE DEF l, n, old, new
    <2>5. DOMAIN new = 1 .. n /\ DOMAIN old = 1 .. n
      BY <2>2, <2>3
    <2> QED BY <2>3, <2>4, <2>5, Zenon DEF MadeFrom
  <1> HIDE DEF l, n, old, new
  <1>3. /\ \A a \in 1 .. n : was(a) \in 1 .. n
        /\ \A b \in 1 .. n : \E a \in 1 .. n : was(a) = b
        /\ \A a, b \in 1 .. n : a < b =>
              \/ was(a) < was(b)
              \/ /\ a = l + 1 /\ was(a) = l + i
                 /\ b - l - 1 \in 1 .. i - 1 /\ was(b) = l + (b - l - 1)
    <2>1. l \in Nat /\ i \in Nat /\ n \in Nat /\ i >= 1 /\ l + i <= n
      BY <1>1, <1>2
    <2>2. Overtakes(l, i, n)
      BY <2>1, WasWhere, Zenon
    <2> QED BY <2>2, Zenon DEF Overtakes
  <1> HIDE DEF was
  <1>4. InOrder(old, kinds, from)
    BY DEF old
  <1>5. Range(new) = Range(old)
    <2>1. \A a \in DOMAIN new : new[a] \in Range(old)
      BY <1>2, <1>3 DEF Range
    <2>2. \A b \in DOMAIN old : old[b] \in Range(new)
      <3> SUFFICES ASSUME NEW b \in DOMAIN old PROVE \E a \in DOMAIN new : new[a] = old[b]
        BY DEF Range
      <3>1. PICK a \in 1 .. n : was(a) = b
        BY <1>2, <1>3
      <3> QED BY <1>2, <3>1
    <2> QED BY <2>1, <2>2 DEF Range
  <1>6. ASSUME NEW a \in DOMAIN new, NEW b \in DOMAIN new, a < b
        PROVE  /\ new[a] # new[b]
               /\ (kinds[new[a]] \in Input <=> kinds[new[b]] \in Input) => new[a] < new[b]
    <2>1. /\ new[a] = old[was(a)] /\ was(a) \in DOMAIN old
          /\ new[b] = old[was(b)] /\ was(b) \in DOMAIN old
      BY <1>2, <1>3
    <2>2. CASE was(a) < was(b)
      BY <1>4, <2>1, <2>2 DEF InOrder
    <2>3. CASE /\ a = l + 1 /\ was(a) = l + i
               /\ b - l - 1 \in 1 .. i - 1 /\ was(b) = l + (b - l - 1)
      <3> DEFINE j == b - l - 1
      <3>1. j \in 1 .. i - 1 /\ was(b) = l + j
        BY <2>3
      <3> HIDE DEF j
      <3>2. j \in 1 .. i /\ j < i /\ i \in 1 .. i /\ was(b) < was(a)
        <4>1. i \in Nat /\ l \in Nat /\ i >= 1 /\ was(a) = l + i
          BY <1>1, <1>2, <2>3
        <4> QED BY <3>1, <4>1
      <3>3. new[a] = q[i] /\ new[b] = q[j]
        BY <1>2, <2>1, <2>3, <3>1, <3>2
      <3>4. j \in DOMAIN q
        BY <3>1 DEF TakenFrom
      <3>5. kinds[new[a]] \in Input /\ kinds[new[b]] \notin Input
        BY <3>2, <3>3, <3>4 DEF FirstWanted
      <3>6. new[b] # new[a]
        BY <1>4, <2>1, <3>2 DEF InOrder
      <3> QED BY <3>5, <3>6
    <2> QED BY <1>2, <1>3, <1>6, <2>2, <2>3
  <1>7. Range(old) = from .. Len(kinds)
    BY <1>4 DEF InOrder
  <1>8. InOrder(new, kinds, from)
    BY <1>2, <1>5, <1>6, <1>7 DEF InOrder
  <1> QED BY <1>8 DEF new

\* What makes NothingLost inductive: the next event is the next number, and a process that
\* starts finds nothing of the connection before.
Chronicle ==
  /\ first >= 1 /\ first <= Len(sent) + 1
  /\ pc = "exec" => socket = << >> /\ xqueue = << >>
  /\ Connected => InOrder(handled \o xqueue \o socket, sent, first)

\* Nothing is sent, read or taken.
LEMMA SameChronicle ==
  ASSUME Chronicle, UNCHANGED <<sent, socket, xqueue, handled, first>>,
         pc' = "exec" => pc = "exec", Connected' => Connected
  PROVE  Chronicle'
  BY DEF Chronicle

\* What has arrived is read, or not.
LEMMA ReadChronicle ==
  ASSUME TypeOK, Chronicle, Connected, pc' # "exec",
         Read \/ UNCHANGED <<xqueue, socket>>, UNCHANGED <<sent, handled, first>>
  PROVE  Chronicle'
  <1>1. CASE UNCHANGED <<xqueue, socket>>
    BY <1>1 DEF Chronicle
  <1>2. CASE Read
    <2>1. handled \o (xqueue \o socket) \o << >> = handled \o xqueue \o socket
      BY ReadSame DEF TypeOK
    <2>2. InOrder(handled \o xqueue \o socket, sent, first)
      BY DEF Chronicle
    <2>3. xqueue' = xqueue \o socket /\ socket' = << >>
      BY <1>2 DEF Read
    <2>4. InOrder(handled' \o xqueue' \o socket', sent', first')
      BY <2>1, <2>2, <2>3, Zenon
    <2> QED BY <2>4 DEF Chronicle
  <1> QED BY <1>1, <1>2

\* A step keeps that.
LEMMA NextChronicle ==
  ASSUME TypeOK, Chronicle, [Next]_vars
  PROVE  Chronicle'
  <1>0. /\ handled \in Seq(Nat) /\ xqueue \in Seq(Nat) /\ socket \in Seq(Nat)
        /\ sent \in Seq(Kind) /\ first \in Nat
    BY DEF TypeOK
  <1>1. ASSUME NEW kind \in Kind, Send(kind) PROVE Chronicle'
    <2>1. Connected /\ pc' = pc /\ first' = first
      BY <1>1 DEF Send
    <2>2. /\ sent' = Append(sent, kind) /\ socket' = Append(socket, Len(sent) + 1)
          /\ UNCHANGED <<xqueue, handled>>
      BY <1>1 DEF Send
    <2> DEFINE n == Len(sent) + 1
    <2>3. n \in Nat /\ Len(sent') = n /\ first <= n
      BY <1>0, <2>2, AppendProperties DEF Chronicle
    <2>4. InOrder(Append(handled \o xqueue \o socket, n), Append(sent, kind), first)
      <3>1. InOrder(handled \o xqueue \o socket, sent, first) /\ first >= 1 /\ first <= Len(sent) + 1
        BY <2>1 DEF Chronicle
      <3> QED BY <1>0, <3>1, SendInOrder
    <2>5. Append(handled \o xqueue \o socket, n) = handled \o xqueue \o Append(socket, n)
      <3> HIDE DEF n
      <3> DEFINE p == handled \o xqueue
      <3>1. p \in Seq(Nat) /\ <<n>> \in Seq(Nat)
        BY <1>0, <2>3, ConcatProperties
      <3> HIDE DEF p
      <3>2. p \o socket \in Seq(Nat)
        BY <1>0, <3>1, ConcatProperties
      <3>3. Append(p \o socket, n) = (p \o socket) \o <<n>>
        BY <2>3, <3>2, AppendIsConcat
      <3>4. Append(socket, n) = socket \o <<n>>
        BY <1>0, <2>3, AppendIsConcat
      <3>5. (p \o socket) \o <<n>> = p \o (socket \o <<n>>)
        BY <1>0, <3>1, ConcatAssociative
      <3> QED BY <3>3, <3>4, <3>5, Zenon DEF p
    <2> HIDE DEF n
    <2>6. InOrder(handled' \o xqueue' \o socket', sent', first')
      BY <2>1, <2>2, <2>4, <2>5, Zenon DEF n
    <2>7. first' >= 1 /\ first' <= Len(sent') + 1
      BY <1>0, <2>1, <2>3 DEF Chronicle
    <2>8. pc' # "exec"
      BY <2>1 DEF Connected
    <2> QED BY <2>6, <2>7, <2>8 DEF Chronicle
  <1>2. CASE Term \/ Hup \/ LoseGrab
    <2>1. UNCHANGED <<sent, socket, xqueue, handled, first>>
      BY <1>2 DEF Term, Hup, LoseGrab
    <2>2. pc' = "exec" => pc = "exec"
      BY <1>2 DEF Term, Hup, LoseGrab, Interrupted
    <2>3. Connected' => Connected
      BY <1>2 DEF Term, Hup, LoseGrab, Interrupted, Connected
    <2> QED BY <2>1, <2>2, <2>3, SameChronicle
  <1>3. CASE register_handlers \/ start \/ test \/ select
    <2>1. UNCHANGED <<sent, socket, xqueue, handled, first>> /\ pc' # "exec" /\ Connected
      BY <1>3 DEF register_handlers, start, test, select, Connected
    <2> QED BY <2>1, SameChronicle
  <1>4. CASE state_bind \/ state_flush \/ XPending \/ XMaskEvent_read
    <2>1. Connected /\ pc' # "exec" /\ UNCHANGED <<sent, handled, first>>
      BY <1>4 DEF state_bind, state_flush, XPending, XMaskEvent_read, Connected
    <2>2. Read \/ UNCHANGED <<xqueue, socket>>
      BY <1>4 DEF state_bind, state_flush, XPending, XMaskEvent_read
    <2> QED BY <2>1, <2>2, ReadChronicle
  <1>5. CASE event_process
    <2> DEFINE h == Append(handled, Head(xqueue))
               t == Tail(xqueue)
    <2>1. Connected /\ pc' # "exec" /\ UNCHANGED <<sent, first>> /\ xqueue # << >>
      BY <1>5 DEF event_process, Connected
    <2>2. /\ handled' = h
          /\ \/ xqueue' = t /\ socket' = socket
             \/ xqueue' = t \o socket /\ socket' = << >>
      BY <1>5, Zenon DEF event_process
    <2>3. h \in Seq(Nat) /\ t \in Seq(Nat) /\ h \o t \o socket = handled \o xqueue \o socket
      BY <1>0, <2>1, HeadSame
    <2> HIDE DEF h, t
    <2>4. h \o (t \o socket) \o << >> = h \o t \o socket
      BY <1>0, <2>3, ReadSame
    <2>5. InOrder(handled \o xqueue \o socket, sent, first)
      BY <2>1 DEF Chronicle
    <2>6. handled' \o xqueue' \o socket' = handled \o xqueue \o socket
      BY <2>2, <2>3, <2>4, Zenon
    <2>7. InOrder(handled' \o xqueue' \o socket', sent', first')
      BY <2>1, <2>5, <2>6, Zenon
    <2> QED BY <2>1, <2>7 DEF Chronicle
  <1>6. CASE XMaskEvent
    <2>1. PICK i \in Wanted :
            /\ \A j \in Wanted : i <= j
            /\ xqueue' = Without(i)
            /\ handled' = Append(handled, xqueue[i])
            /\ IF sent[xqueue[i]] = "release" THEN pc' = "process" /\ grab' = FALSE
               ELSE UNCHANGED <<pc, grab>>
      BY <1>6 DEF XMaskEvent
    <2>2. Connected /\ pc' # "exec" /\ UNCHANGED <<sent, socket, first>>
      BY <1>6, <2>1 DEF XMaskEvent, Connected
    <2>3. i \in DOMAIN xqueue /\ FirstWanted(xqueue, i, sent)
      BY <1>0, <2>1 DEF Wanted, FirstWanted
    <2>4. TakenFrom(xqueue, Without(i), i)
      <3>1. i \in 1 .. Len(xqueue)
        BY <1>0, <2>3
      <3>2. Without(i) \in Seq(Nat) /\ Len(Without(i)) = Len(xqueue) - 1
        BY <1>0, <2>3, WithoutType
      <3>3. \A j \in 1 .. Len(xqueue) - 1 : Without(i)[j] = xqueue[IF j < i THEN j ELSE j + 1]
        BY DEF Without
      <3> QED BY <3>1, <3>2, <3>3, Zenon DEF TakenFrom
    <2>5. InOrder(handled \o xqueue \o socket, sent, first)
      BY <2>2 DEF Chronicle
    <2>6. InOrder(Append(handled, xqueue[i]) \o Without(i) \o socket, sent, first)
      BY <1>0, <2>3, <2>4, <2>5, TakeInOrder, Zenon
    <2>7. InOrder(handled' \o xqueue' \o socket', sent', first')
      BY <2>1, <2>2, <2>6, Zenon
    <2> QED BY <2>2, <2>7 DEF Chronicle
  <1>7. CASE state_free
    <2>1. pc' = "exec" /\ socket' = << >> /\ xqueue' = << >> /\ UNCHANGED <<sent, first>>
      BY <1>7 DEF state_free
    <2> QED BY <2>1 DEF Chronicle, Connected
  <1>8. CASE restart
    <2>1. pc = "exec" /\ socket' = << >> /\ xqueue' = << >> /\ sent' = sent
      BY <1>8 DEF restart, Chronicle
    <2>2. CASE pc' = "ended" /\ first' = first
      BY <2>1, <2>2 DEF Chronicle, Connected
    <2>3. CASE pc' = "bind" /\ first' = Len(sent) + 1 /\ handled' = << >>
      <3>1. InOrder(<< >>, sent, Len(sent) + 1)
        BY <1>0 DEF InOrder, Range
      <3>2. handled' \o xqueue' \o socket' = << >>
        BY <2>1, <2>3
      <3>3. InOrder(handled' \o xqueue' \o socket', sent', first')
        BY <2>1, <2>3, <3>1, <3>2, Zenon
      <3>4. first' >= 1 /\ first' <= Len(sent') + 1
        BY <1>0, <2>1, <2>3
      <3> QED BY <2>3, <3>3, <3>4 DEF Chronicle
    <2> QED BY <1>8, <2>2, <2>3 DEF restart
  <1>9. CASE UNCHANGED vars
    <2>1. UNCHANGED <<sent, socket, xqueue, handled, first, pc>>
      BY <1>9 DEF vars
    <2>2. Connected' = Connected
      BY <2>1 DEF Connected
    <2> QED BY <2>1, <2>2, SameChronicle
  <1> QED BY <1>1, <1>2, <1>3, <1>4, <1>5, <1>6, <1>7, <1>8, <1>9 DEF Next, Program

\* Of the events of a connection none is lost, none is taken twice and none overtakes
\* another of its sort, for any number of them, whoever reads and whatever drags and menus
\* take out of turn.
THEOREM EventsInOrder == Spec => []NothingLost
  <1>1. Init => Chronicle
    <2> SUFFICES ASSUME Init PROVE Chronicle
      OBVIOUS
    <2>1. InOrder(<< >>, << >>, 1)
      BY DEF InOrder, Range
    <2>2. handled \o xqueue \o socket = << >>
      BY DEF Init
    <2>3. InOrder(handled \o xqueue \o socket, sent, first)
      BY <2>1, <2>2, Zenon DEF Init
    <2>4. first >= 1 /\ first <= Len(sent) + 1 /\ pc # "exec"
      BY DEF Init
    <2> QED BY <2>3, <2>4 DEF Chronicle
  <1>2. TypeOK /\ Chronicle /\ [Next]_vars => Chronicle'
    BY NextChronicle
  <1>3. Chronicle => NothingLost
    BY DEF Chronicle, NothingLost, InOrder
  <1> QED BY <1>1, <1>2, <1>3, LoopTypes, PTL DEF Spec
=============================================================================
