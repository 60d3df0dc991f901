--------------------------- MODULE TailQueueProofs ---------------------------
(***************************************************************************)
(* What the operators of TailQueue do to the elements of a queue, for      *)
(* queues of any length over any set.                                      *)
(***************************************************************************)
EXTENDS TailQueue, FiniteSetTheorems, WellFoundedInduction, TLAPS

\* TAILQ_INSERT_TAIL adds one element; a queue without repetitions has none after it
\* if the element is new.
LEMMA InsertTail ==
  ASSUME NEW S, NEW q \in Seq(S), NEW e \in S
  PROVE  /\ TAILQ_INSERT_TAIL(q, e) \in Seq(S)
         /\ Range(TAILQ_INSERT_TAIL(q, e)) = Range(q) \cup {e}
         /\ IsInjective(q) /\ e \notin Range(q) => IsInjective(TAILQ_INSERT_TAIL(q, e))
  <1> DEFINE p == Append(q, e)
  <1>1. p \in Seq(S) /\ DOMAIN p = 1 .. Len(q) + 1 /\ DOMAIN q = 1 .. Len(q) /\ Len(q) \in Nat
    OBVIOUS
  <1>2. p[Len(q) + 1] = e /\ \A i \in 1 .. Len(q) : p[i] = q[i]
    OBVIOUS
  <1> HIDE DEF p
  <1>3. Range(p) \subseteq Range(q) \cup {e}
    <2> SUFFICES ASSUME NEW i \in 1 .. Len(q) + 1 PROVE p[i] \in Range(q) \cup {e}
      BY <1>1 DEF Range
    <2> QED BY <1>1, <1>2 DEF Range
  <1>4. Range(q) \cup {e} \subseteq Range(p)
    <2>1. Len(q) + 1 \in DOMAIN p /\ \A i \in 1 .. Len(q) : i \in DOMAIN p
      BY <1>1
    <2> QED BY <2>1, <1>1, <1>2 DEF Range
  <1>5. ASSUME IsInjective(q), e \notin Range(q) PROVE IsInjective(p)
    <2>1. \A i \in 1 .. Len(q) : q[i] # e
      BY <1>1, <1>5 DEF Range
    <2> QED BY <2>1, <1>1, <1>2, <1>5 DEF IsInjective
  <1> QED BY <1>1, <1>3, <1>4, <1>5 DEF p, TAILQ_INSERT_TAIL

\* TAILQ_REMOVE takes out the element it is given, and only that, from a queue that has
\* it once.
LEMMA RemoveOne ==
  ASSUME NEW S, NEW q \in Seq(S), NEW e \in Range(q), IsInjective(q)
  PROVE  /\ TAILQ_REMOVE(q, e) \in Seq(S)
         /\ Range(TAILQ_REMOVE(q, e)) = Range(q) \ {e}
         /\ IsInjective(TAILQ_REMOVE(q, e))
PROOF
  <1> DEFINE at == CHOOSE i \in DOMAIN q : q[i] = e
             r  == [i \in 1 .. Len(q) - 1 |-> IF i < at THEN q[i] ELSE q[i + 1]]
  <1>1. at \in 1 .. Len(q) /\ q[at] = e /\ DOMAIN q = 1 .. Len(q) /\ Len(q) \in Nat
    BY DEF Range
  <1> HIDE DEF at
  <1>2. /\ r \in Seq(S)
        /\ Len(r) = Len(q) - 1
        /\ DOMAIN r = 1 .. Len(r)
        /\ \A i \in 1 .. Len(q) - 1 : r[i] = IF i < at THEN q[i] ELSE q[i + 1]
    BY <1>1
  <1> HIDE DEF r
  <1>3. \A i \in 1 .. Len(r) : r[i] \in Range(q) \ {e}
    BY <1>1, <1>2 DEF Range, IsInjective
  <1>4. ASSUME NEW x \in Range(q), x # e
        PROVE  \E i \in 1 .. Len(r) : r[i] = x
    <2>1. PICK j \in 1 .. Len(q) : q[j] = x
      BY DEF Range
    <2>2. CASE j < at
      BY <2>1, <2>2, <1>1, <1>2
    <2>3. CASE j > at
      <3>1. j - 1 \in 1 .. Len(r) /\ r[j - 1] = x
        BY <2>1, <2>3, <1>1, <1>2
      <3> QED BY <3>1
    <2>4. j # at
      BY <2>1, <1>1, <1>4
    <2> QED BY ONLY <2>1, <2>2, <2>3, <2>4, <1>1
  <1>5. Range(r) = Range(q) \ {e}
    <2>1. Range(r) \subseteq Range(q) \ {e}
      BY <1>2, <1>3 DEF Range
    <2>2. Range(q) \ {e} \subseteq Range(r)
      BY <1>2, <1>4 DEF Range
    <2> QED BY <2>1, <2>2
  <1>6. IsInjective(r)
    BY <1>1, <1>2 DEF IsInjective
  <1> QED BY <1>2, <1>5, <1>6 DEF TAILQ_REMOVE, at, r

\* Marking an element as the most recent one changes the order of a queue only.
LEMMA RequeueSame ==
  ASSUME NEW S, NEW q \in Seq(S), NEW e \in Range(q), IsInjective(q)
  PROVE  /\ Requeue(q, e) \in Seq(S)
         /\ Range(Requeue(q, e)) = Range(q)
         /\ IsInjective(Requeue(q, e))
  <1> DEFINE r == TAILQ_REMOVE(q, e)
  <1>1. e \in S
    BY DEF Range
  <1>2. r \in Seq(S) /\ Range(r) = Range(q) \ {e} /\ IsInjective(r)
    BY RemoveOne
  <1> HIDE DEF r
  <1>3. /\ TAILQ_INSERT_TAIL(r, e) \in Seq(S)
        /\ Range(TAILQ_INSERT_TAIL(r, e)) = Range(r) \cup {e}
        /\ IsInjective(TAILQ_INSERT_TAIL(r, e))
    BY <1>1, <1>2, InsertTail
  <1>4. Range(r) \cup {e} = Range(q)
    BY <1>2
  <1> QED BY <1>3, <1>4 DEF Requeue, r

\* A nonempty set of positive integers up to a bound has a largest element.
LEMMA Largest ==
  ASSUME NEW n \in Nat, NEW T \in SUBSET (1 .. n), T # {}
  PROVE  \E i \in T : \A j \in T : j <= i
  <1> DEFINE D == {d \in 0 .. n : n - d \in T}
  <1>1. D \in SUBSET Nat
    OBVIOUS
  <1>2. D # {}
    <2>1. PICK i \in T : i \in 1 .. n
      OBVIOUS
    <2>2. n - i \in 0 .. n /\ n - (n - i) = i
      BY <2>1
    <2> QED BY <2>1, <2>2
  <1> DEFINE less == {p \in Nat \X Nat : p[1] < p[2]}
  <1>3. IsWellFoundedOn(less, Nat)
    BY NatLessThanWellFounded, Zenon DEF OpToRel
  <1>4. PICK d \in D : \A k \in D : <<k, d>> \notin less
    <2> HIDE DEF less, D
    <2> QED BY <1>1, <1>2, <1>3, WFMin
  <1>5. ASSUME NEW k \in D PROVE d <= k
    <2>1. d \in Nat /\ k \in Nat
      BY <1>1
    <2>2. k < d => <<k, d>> \in less
      BY <2>1
    <2> QED BY <2>1, <2>2, <1>4
  <1>6. ASSUME NEW j \in T PROVE j <= n - d
    <2>1. j \in 1 .. n /\ n - j \in 0 .. n /\ n - (n - j) = j
      OBVIOUS
    <2>2. d <= n - j
      BY <2>1, <1>5
    <2> QED BY <2>1, <2>2, <1>1
  <1> QED BY <1>6

\* A set of positions that is not empty has a first one.
LEMMA First ==
  ASSUME NEW n \in Nat, NEW T \in SUBSET (1 .. n), T # {}
  PROVE  \E t \in T : \A j \in 1 .. t - 1 : j \notin T
  <1> DEFINE less == {p \in Nat \X Nat : p[1] < p[2]}
  <1>1. IsWellFoundedOn(less, Nat)
    BY NatLessThanWellFounded, Zenon DEF OpToRel
  <1>2. T \subseteq Nat
    OBVIOUS
  <1>3. PICK t \in T : \A k \in T : <<k, t>> \notin less
    <2> HIDE DEF less
    <2> QED BY <1>1, <1>2, WFMin
  <1>4. ASSUME NEW j \in 1 .. t - 1, j \in T PROVE FALSE
    <2>1. j \in Nat /\ t \in Nat /\ j < t
      BY <1>2
    <2> QED BY <2>1, <1>3, <1>4
  <1> QED BY <1>4

\* The smallest of some numbers.
LEMMA Smallest ==
  ASSUME NEW T \in SUBSET Nat, T # {}
  PROVE  \E t \in T : \A k \in T : t <= k
  <1> DEFINE less == {p \in Nat \X Nat : p[1] < p[2]}
  <1>1. IsWellFoundedOn(less, Nat)
    BY NatLessThanWellFounded, Zenon DEF OpToRel
  <1>2. PICK t \in T : \A k \in T : <<k, t>> \notin less
    <2> HIDE DEF less
    <2> QED BY <1>1, WFMin
  <1>3. ASSUME NEW k \in T PROVE t <= k
    <2>1. k \in Nat /\ t \in Nat /\ ~(k < t)
      BY <1>2
    <2> QED BY <2>1
  <1> QED BY <1>3

\* A backward search finds an element of the queue that is in the set, and NULL only if
\* there is none.
LEMMA LastInFound ==
  ASSUME NEW S, NEW q \in Seq(S), NEW T
  PROVE  IF Range(q) \cap T = {} THEN LastIn(q, T) = NULL
         ELSE LastIn(q, T) \in Range(q) \cap T
  <1> SUFFICES ASSUME Range(q) \cap T # {}
               PROVE  LastIn(q, T) \in Range(q) \cap T
    BY DEF LastIn
  <1> DEFINE I == {i \in 1 .. Len(q) : q[i] \in T}
  <1>1. I \in SUBSET (1 .. Len(q)) /\ I # {} /\ Len(q) \in Nat
    BY DEF Range
  <1>2. \E i \in I : \A j \in I : j <= i
    BY <1>1, Largest
  <1>3. \E i \in DOMAIN q : q[i] \in T /\ \A j \in DOMAIN q : j > i => q[j] \notin T
    BY <1>2
  <1> QED BY <1>3 DEF LastIn, Range

\* The same of a forward search.
LEMMA FirstInFound ==
  ASSUME NEW S, NEW q \in Seq(S), NEW T
  PROVE  IF Range(q) \cap T = {} THEN FirstIn(q, T) = NULL
         ELSE FirstIn(q, T) \in Range(q) \cap T
  <1> SUFFICES ASSUME Range(q) \cap T # {}
               PROVE  FirstIn(q, T) \in Range(q) \cap T
    BY DEF FirstIn
  <1> DEFINE I == {i \in 1 .. Len(q) : q[i] \in T}
  <1>1. I \in SUBSET (1 .. Len(q)) /\ I # {} /\ Len(q) \in Nat
    BY DEF Range
  <1>2. \E i \in I : \A j \in 1 .. i - 1 : j \notin I
    BY <1>1, First
  <1>3. \E i \in DOMAIN q : q[i] \in T /\ \A j \in DOMAIN q : j < i => q[j] \notin T
    BY <1>2
  <1> QED BY <1>3 DEF FirstIn, Range

\* TAILQ_LAST gives an element of a queue that has one.
LEMMA LastFound ==
  ASSUME NEW S, NEW q \in Seq(S)
  PROVE  IF q = << >> THEN TAILQ_LAST(q) = NULL ELSE TAILQ_LAST(q) \in Range(q)
  BY DEF TAILQ_LAST, Range

\* How many of the places up to i a walk along the queue has kept.
Rank(at, i) == Cardinality({j \in at : j <= i})

\* The places of a set, in their order, have the ranks from 1 to their number.
LEMMA Ranks ==
  ASSUME NEW n \in Nat, NEW at \in SUBSET (1 .. n)
  PROVE  /\ Cardinality(at) \in 0 .. n
         /\ \A i \in at : Rank(at, i) \in 1 .. Cardinality(at)
         /\ \A i, j \in at : i < j => Rank(at, i) < Rank(at, j)
         /\ \A k \in 1 .. Cardinality(at) : \E i \in at : Rank(at, i) = k
  <1> DEFINE Upto(i) == {j \in at : j <= i}
  <1>1. IsFiniteSet(1 .. n) /\ Cardinality(1 .. n) = n
    BY FS_Interval
  <1>2. IsFiniteSet(at) /\ Cardinality(at) \in 0 .. n
    <2>1. IsFiniteSet(at) /\ Cardinality(at) <= n
      BY <1>1, FS_Subset
    <2>2. Cardinality(at) \in Nat
      BY <2>1, FS_CardinalityType
    <2> QED BY <2>1, <2>2
  <1>0. at \subseteq Int
    OBVIOUS
  <1>3. ASSUME NEW i \in at
        PROVE  IsFiniteSet(Upto(i)) /\ Rank(at, i) = Cardinality(Upto(i))
               /\ Rank(at, i) \in 1 .. Cardinality(at)
    <2>1. Upto(i) \in SUBSET at /\ i \in Upto(i)
      OBVIOUS
    <2>2. /\ IsFiniteSet(Upto(i)) /\ Cardinality(Upto(i)) <= Cardinality(at)
          /\ Cardinality(Upto(i)) \in Nat
      BY <1>2, <2>1, FS_Subset, FS_CardinalityType
    <2>3. Cardinality(Upto(i)) # 0
      BY <2>1, <2>2, FS_EmptySet
    <2>4. Rank(at, i) = Cardinality(Upto(i))
      BY DEF Rank
    <2> HIDE DEF Upto
    <2> QED BY <1>2, <2>2, <2>3, <2>4
  <1>4. ASSUME NEW i \in at, NEW j \in at, i < j
        PROVE  Rank(at, i) < Rank(at, j)
    <2>0. i \in Int /\ j \in Int /\ ~(j <= i) /\ j <= j
      BY <1>0, <1>4
    <2>1. Upto(i) \in SUBSET Upto(j) /\ j \in Upto(j) /\ j \notin Upto(i)
      <3>1. \A k \in at : k <= i => k <= j
        BY <1>0, <1>4
      <3> QED BY <2>0, <3>1
    <2>2. Cardinality(Upto(i)) <= Cardinality(Upto(j)) /\ Cardinality(Upto(i)) # Cardinality(Upto(j))
      <3> HIDE DEF Upto
      <3> QED BY <1>3, <2>1, FS_Subset
    <2> HIDE DEF Upto
    <2> QED BY <1>2, <1>3, <2>2
  <1> DEFINE m == Cardinality(at)
             rank == [i \in at |-> Rank(at, i)]
  <1>5. ASSUME NEW k \in 1 .. m PROVE \E i \in at : Rank(at, i) = k
    <2>1. IsFiniteSet(1 .. m) /\ Cardinality(1 .. m) = m
      BY <1>2, FS_Interval
    <2>2. rank \in [at -> 1 .. m]
      BY <1>3
    <2>3. ASSUME NEW i \in at, NEW j \in at, rank[i] = rank[j] PROVE i = j
      <3>1. i \in Int /\ j \in Int
        OBVIOUS
      <3>2. Rank(at, i) = Rank(at, j)
        BY <2>3
      <3>3. Rank(at, i) \in Int
        BY <1>2, <1>3, \A a \in 1 .. m : a \in Int
      <3> QED BY <1>4, <3>1, <3>2, <3>3
    <2>4. rank \in Injection(at, 1 .. m)
      BY <2>2, <2>3 DEF Injection, IsInjective
    <2>5. rank \in Surjection(at, 1 .. m)
      BY <2>1, <2>4, FS_Injection
    <2> QED BY <2>5 DEF Surjection
  <1> QED BY <1>2, <1>3, <1>4, <1>5

\* What is kept of a queue is part of it, and in its order: an element before another one
\* was before it.
LEMMA PickedType ==
  ASSUME NEW S, NEW q \in Seq(S), NEW at \in SUBSET DOMAIN q
  PROVE  /\ Picked(q, at) \in Seq(S) /\ Len(Picked(q, at)) = Cardinality(at)
         /\ \A k \in DOMAIN Picked(q, at) : \E i \in at :
              Rank(at, i) = k /\ Picked(q, at)[k] = q[i]
  <1> DEFINE m == Cardinality(at)
             Place(k) == CHOOSE i \in at : Rank(at, i) = k
  <1>1. DOMAIN q = 1 .. Len(q) /\ Len(q) \in Nat
    OBVIOUS
  <1>2. m \in Nat /\ \A k \in 1 .. m : \E i \in at : Rank(at, i) = k
    BY <1>1, Ranks
  <1>3. \A k \in 1 .. m : Place(k) \in at /\ Rank(at, Place(k)) = k
    BY <1>2
  <1>4. Picked(q, at) = [k \in 1 .. m |-> q[Place(k)]]
    BY DEF Picked, Rank
  <1> HIDE DEF Place, m
  <1>5. \A k \in 1 .. m : q[Place(k)] \in S
    BY <1>1, <1>3
  <1>6. Picked(q, at) \in Seq(S) /\ Len(Picked(q, at)) = m /\ DOMAIN Picked(q, at) = 1 .. m
    BY <1>2, <1>4, <1>5
  <1> QED BY <1>3, <1>4, <1>6 DEF m

\* Everything at the places that are kept is kept.
LEMMA PickedAll ==
  ASSUME NEW S, NEW q \in Seq(S), NEW at \in SUBSET DOMAIN q, NEW i \in at
  PROVE  Rank(at, i) \in DOMAIN Picked(q, at) /\ Picked(q, at)[Rank(at, i)] = q[i]
  <1>1. DOMAIN q = 1 .. Len(q) /\ Len(q) \in Nat /\ at \subseteq Int
    <2>1. DOMAIN q = 1 .. Len(q) /\ Len(q) \in Nat
      OBVIOUS
    <2> QED BY <2>1
  <1>2. /\ Rank(at, i) \in 1 .. Cardinality(at)
        /\ \A a, b \in at : a < b => Rank(at, a) < Rank(at, b)
    BY <1>1, Ranks
  <1>3. Picked(q, at) \in Seq(S) /\ Len(Picked(q, at)) = Cardinality(at)
    BY PickedType
  <1>4. Rank(at, i) \in DOMAIN Picked(q, at)
    BY <1>2, <1>3
  <1>5. PICK j \in at : Rank(at, j) = Rank(at, i) /\ Picked(q, at)[Rank(at, i)] = q[j]
    BY <1>4, PickedType
  <1>6. ~(i < j) /\ ~(j < i) /\ i \in Int /\ j \in Int
    BY <1>1, <1>2, <1>5
  <1>7. i = j
    BY <1>6
  <1> QED BY <1>4, <1>5, <1>7

\* What is kept of an ascending queue is ascending.
LEMMA PickedAscends ==
  ASSUME NEW q \in Seq(Nat), NEW at \in SUBSET DOMAIN q,
         \A i, j \in DOMAIN q : i < j => q[i] < q[j],
         NEW k \in DOMAIN Picked(q, at), NEW l \in DOMAIN Picked(q, at), k < l
  PROVE  Picked(q, at)[k] < Picked(q, at)[l]
  <1>1. DOMAIN q = 1 .. Len(q) /\ Len(q) \in Nat
    OBVIOUS
  <1>2. PICK i \in at : Rank(at, i) = k /\ Picked(q, at)[k] = q[i]
    BY PickedType
  <1>3. PICK j \in at : Rank(at, j) = l /\ Picked(q, at)[l] = q[j]
    BY PickedType
  <1>4. /\ i \in Int /\ j \in Int /\ k \in Int /\ l \in Int
        /\ \A a, b \in at : a < b => Rank(at, a) < Rank(at, b)
    <2>1. \A a, b \in at : a < b => Rank(at, a) < Rank(at, b)
      BY <1>1, Ranks
    <2>2. DOMAIN Picked(q, at) \subseteq Int
      BY PickedType
    <2> QED BY <1>1, <2>1, <2>2
  <1>5. i < j
    <2>1. ~(j < i) /\ j # i
      <3>1. j < i => l < k
        BY <1>2, <1>3, <1>4
      <3>2. j = i => l = k
        BY <1>2, <1>3
      <3> QED BY <1>4, <3>1, <3>2
    <2> QED BY <1>4, <2>1
  <1> QED BY <1>2, <1>3, <1>5

\* A walk that goes one element further keeps that too, or not.
LEMMA PickedNext ==
  ASSUME NEW S, NEW q \in Seq(S), NEW n \in DOMAIN q, NEW at \in SUBSET (1 .. n - 1)
  PROVE  Picked(q, at \cup {n}) = Append(Picked(q, at), q[n])
  <1> DEFINE new == at \cup {n}
             m == Cardinality(at)
             p == Picked(q, at)
             r == Picked(q, new)
  <1>1. /\ DOMAIN q = 1 .. Len(q) /\ Len(q) \in Nat /\ n \in Nat \ {0}
        /\ at \in SUBSET DOMAIN q /\ new \in SUBSET DOMAIN q /\ n \notin at
        /\ new \in SUBSET (1 .. n) /\ at \subseteq Int
    <2>1. n \in 1 .. Len(q) /\ Len(q) \in Nat /\ DOMAIN q = 1 .. Len(q)
      OBVIOUS
    <2>2. \A i \in at : i \in Int /\ 1 <= i /\ i <= n - 1 /\ i <= Len(q) /\ i <= n /\ i # n
      BY <2>1
    <2>3. at \in SUBSET (1 .. Len(q)) /\ at \in SUBSET (1 .. n) /\ n \notin at
      BY <2>1, <2>2
    <2>4. n \in 1 .. n /\ n \in Nat \ {0}
      BY <2>1
    <2>5. new \in SUBSET (1 .. Len(q)) /\ new \in SUBSET (1 .. n)
      BY <2>1, <2>3, <2>4
    <2>6. at \subseteq Int
      BY <2>2
    <2> HIDE DEF new
    <2> QED BY <2>1, <2>3, <2>4, <2>5, <2>6
  <1>2. IsFiniteSet(at)
    <2>1. IsFiniteSet(1 .. n)
      BY <1>1, FS_Interval
    <2>2. at \in SUBSET (1 .. n)
      BY <1>1
    <2> QED BY <2>1, <2>2, FS_Subset
  <1>3. m \in Nat /\ Cardinality(new) = m + 1
    BY <1>1, <1>2, FS_AddElement, FS_CardinalityType
  <1>4. Rank(new, n) = m + 1
    <2>1. {j \in new : j <= n} = new
      BY <1>1
    <2> QED BY <1>3, <2>1 DEF Rank
  <1>5. \A i \in at : Rank(new, i) = Rank(at, i)
    <2>1. \A i \in at : {j \in new : j <= i} = {j \in at : j <= i}
      BY <1>1
    <2> QED BY <2>1 DEF Rank
  <1>6. p \in Seq(S) /\ r \in Seq(S) /\ Len(p) = m /\ Len(r) = m + 1
    BY <1>1, <1>3, PickedType
  <1>7. ASSUME NEW k \in 1 .. m + 1 PROVE r[k] = IF k = m + 1 THEN q[n] ELSE p[k]
    <2>0. k \in DOMAIN r
      BY <1>3, <1>6
    <2>1. PICK i \in new : Rank(new, i) = k /\ r[k] = q[i]
      <3> HIDE DEF new
      <3> QED BY <1>1, <2>0, PickedType
    <2>2. CASE i = n
      BY <1>4, <2>1, <2>2
    <2>3. CASE i \in at
      <3>1. Rank(at, i) = k /\ Rank(at, i) \in 1 .. m
        BY <1>1, <1>5, <2>1, <2>3, Ranks
      <3>2. PICK j \in at : Rank(at, j) = k /\ p[k] = q[j]
        <4>1. k \in DOMAIN p
          BY <1>3, <1>6, <3>1
        <4> QED BY <1>1, <4>1, PickedType
      <3>3. ~(i < j) /\ ~(j < i) /\ i \in Int /\ j \in Int
        <4>1. Rank(at, i) \in Int /\ \A a, b \in at : a < b => Rank(at, a) < Rank(at, b)
          BY <1>1, <3>1, Ranks
        <4> QED BY <2>3, <3>1, <3>2, <4>1
      <3> HIDE DEF m
      <3> QED BY <1>3, <2>1, <3>1, <3>2, <3>3
    <2> QED BY <2>2, <2>3
  <1> HIDE DEF m, p, r, new
  <1>8. r = Append(p, q[n])
    <2>1. q[n] \in S
      BY <1>1
    <2> QED BY <1>3, <1>6, <1>7, <2>1
  <1> QED BY <1>8 DEF p, r, new
=============================================================================
