--------------------------- MODULE KernelMutexProofs ---------------------------
(***************************************************************************)
(* The mutexes, for any threads, priorities and mutexes and any order of   *)
(* the calls.  The calls work on values k of the kernel's lists; what is   *)
(* said of them is said of every such value, and of the state last.        *)
(***************************************************************************)
EXTENDS KernelMutex, DataLemmas, TLAPS

Lists == [Mutexes -> Seq(Threads)]
Kernels == [owner   : [Mutexes -> Threads \cup {NoThread}],
            hold    : [Mutexes -> 0 .. MaxHold],
            first   : [Mutexes -> 0 .. NoPriority],
            waiters : Lists,
            stat    : [Threads -> {"ready", "suspended", "closed"}],
            prio    : [Threads -> 0 .. NoPriority - 1],
            pending : [Threads -> Mutexes \cup {NoMutex}]]

\* The same but for priorities and the order of the lists
Same(k, j) == j.owner = k.owner /\ j.hold = k.hold /\ j.stat = k.stat /\ j.pending = k.pending

Waiting(k, t, m) == k.stat[t] = "suspended" /\ k.pending[t] = m

\* Everybody who waits is on the list of one mutex, which somebody else has.
Shape(k) ==
  /\ k \in Kernels
  /\ \A m \in Mutexes : IsInjective(k.waiters[m])
  /\ \A m \in Mutexes : \A t \in Threads : t \in ToSet(k.waiters[m]) <=> Waiting(k, t, m)
  /\ \A m \in Mutexes : k.owner[m] \notin ToSet(k.waiters[m])
  /\ \A m \in Mutexes : k.owner[m] = NoThread => k.waiters[m] = <<>>

\* The most urgent waits first, and the owner is as urgent as the mutex, which
\* is as urgent as it.
Sound(k, m) ==
  /\ Ordered(k.waiters[m], k.prio)
  /\ k.first[m] <= FirstPriority(k, m)
  /\ k.owner[m] # NoThread => k.prio[k.owner[m]] <= k.first[m]

KernelInv(k) == Shape(k) /\ \A m \in Mutexes : Sound(k, m)

LEMMA KernelParts ==
  ASSUME NEW k \in Kernels
  PROVE  /\ k.owner \in [Mutexes -> Threads \cup {NoThread}] /\ k.hold \in [Mutexes -> 0 .. MaxHold]
         /\ k.first \in [Mutexes -> 0 .. NoPriority] /\ k.waiters \in [Mutexes -> Seq(Threads)]
         /\ k.stat \in [Threads -> {"ready", "suspended", "closed"}]
         /\ k.prio \in [Threads -> 0 .. NoPriority - 1]
         /\ k.pending \in [Threads -> Mutexes \cup {NoMutex}]
BY DEF Kernels, Lists

LEMMA Numbers ==
  ASSUME NEW k \in Kernels
  PROVE  /\ \A t \in Threads : k.prio[t] \in Nat /\ k.prio[t] < NoPriority
         /\ \A m \in Mutexes : k.first[m] \in Nat /\ k.first[m] <= NoPriority
         /\ NoPriority \in Nat
<1>1. NoPriority = 255
  BY DEF NoPriority
<1>2. \A t \in Threads : k.prio[t] \in 0 .. NoPriority - 1
  BY KernelParts
<1>3. \A m \in Mutexes : k.first[m] \in 0 .. NoPriority
  BY KernelParts
<1>4. \A t \in Threads : k.prio[t] \in Nat /\ k.prio[t] < NoPriority
  BY <1>1, <1>2
<1>5. \A m \in Mutexes : k.first[m] \in Nat /\ k.first[m] <= NoPriority
  BY <1>1, <1>3
<1> QED BY <1>1, <1>4, <1>5

-----------------------------------------------------------------------------
(* One part of k is written. *)

WithWaiters(k, w) == [k EXCEPT !.waiters = w]
WithFirst(k, m, p) == [k EXCEPT !.first[m] = p]
WithPrio(k, t, p) == [k EXCEPT !.prio[t] = p]

LEMMA WithWaitersValue ==
  ASSUME NEW k \in Kernels, NEW w \in Lists
  PROVE  /\ WithWaiters(k, w) \in Kernels /\ Same(k, WithWaiters(k, w))
         /\ WithWaiters(k, w).waiters = w
         /\ WithWaiters(k, w).first = k.first /\ WithWaiters(k, w).prio = k.prio
BY DEF Kernels, WithWaiters, Same

LEMMA WithFirstValue ==
  ASSUME NEW k \in Kernels, NEW m \in Mutexes, NEW p \in 0 .. NoPriority
  PROVE  /\ WithFirst(k, m, p) \in Kernels /\ Same(k, WithFirst(k, m, p))
         /\ WithFirst(k, m, p).first = [k.first EXCEPT ![m] = p]
         /\ WithFirst(k, m, p).waiters = k.waiters /\ WithFirst(k, m, p).prio = k.prio
BY DEF Kernels, WithFirst, Same

LEMMA WithPrioValue ==
  ASSUME NEW k \in Kernels, NEW t \in Threads, NEW p \in 0 .. NoPriority - 1
  PROVE  /\ WithPrio(k, t, p) \in Kernels /\ Same(k, WithPrio(k, t, p))
         /\ WithPrio(k, t, p).prio = [k.prio EXCEPT ![t] = p]
         /\ WithPrio(k, t, p).waiters = k.waiters /\ WithPrio(k, t, p).first = k.first
BY DEF Kernels, WithPrio, Same

-----------------------------------------------------------------------------
(* The numbers that are the least of others. *)

LEMMA OwnPriorityIs ==
  ASSUME NEW k \in Kernels, NEW t \in Threads, NEW M \in SUBSET Mutexes
  PROVE  /\ OwnPriority(k, t, M) \in 0 .. NoPriority - 1
         /\ OwnPriority(k, t, M) <= InitPriority[t]
         /\ \A m \in M : OwnPriority(k, t, M) <= k.first[m]
         /\ OwnPriority(k, t, M) = InitPriority[t] \/ \E m \in M : OwnPriority(k, t, M) = k.first[m]
<1> DEFINE S == {InitPriority[t]} \cup {k.first[m] : m \in M}
           p == Min(S)
<1>1. InitPriority[t] \in 0 .. NoPriority - 1 /\ \A m \in M : k.first[m] \in 0 .. NoPriority
  BY MutexAssumption, KernelParts
<1>2. S \in SUBSET Nat /\ S # {}
  <2>1. InitPriority[t] \in Nat /\ \A m \in M : k.first[m] \in Nat
    BY <1>1 DEF NoPriority
  <2> QED BY <2>1
<1>3. p \in S /\ \A x \in S : p <= x
  BY <1>2, LeastNatural
<1> HIDE DEF p
<1>4. p <= InitPriority[t] /\ \A m \in M : p <= k.first[m]
  BY <1>3
<1>5. p = InitPriority[t] \/ \E m \in M : p = k.first[m]
  BY <1>3
<1>6. p \in 0 .. NoPriority - 1
  BY <1>1, <1>4, <1>5 DEF NoPriority
<1> QED BY <1>4, <1>5, <1>6 DEF OwnPriority, p

\* The priority of a list in order
LEMMA FirstPriorityIs ==
  ASSUME NEW k \in Kernels, NEW m \in Mutexes, Ordered(k.waiters[m], k.prio)
  PROVE  /\ FirstPriority(k, m) \in 0 .. NoPriority
         /\ \A x \in ToSet(k.waiters[m]) : x \in Threads /\ FirstPriority(k, m) <= k.prio[x]
         /\ k.waiters[m] = <<>> => FirstPriority(k, m) = NoPriority
         /\ k.waiters[m] # <<>> => /\ Head(k.waiters[m]) \in ToSet(k.waiters[m])
                                   /\ FirstPriority(k, m) = k.prio[Head(k.waiters[m])]
<1> DEFINE q == k.waiters[m]
<1>1. q \in Seq(Threads) /\ k.prio \in [Threads -> 0 .. NoPriority - 1]
  BY KernelParts
<1>2. FirstPriority(k, m) = IF q = <<>> THEN NoPriority ELSE k.prio[Head(q)]
  BY DEF FirstPriority
<1> HIDE DEF q
<1>3. CASE q = <<>>
  BY <1>2, <1>3, OnNothing DEF NoPriority, q
<1>4. CASE q # <<>>
  <2>1. /\ Head(q) = q[1] /\ Len(q) \in Nat \ {0} /\ \A i \in 1 .. Len(q) : q[i] \in Threads
        /\ DOMAIN q = 1 .. Len(q)
    BY <1>1, <1>4
  <2>2. ASSUME NEW x \in ToSet(q) PROVE x \in Threads /\ k.prio[q[1]] <= k.prio[x]
    <3>1. PICK i \in 1 .. Len(q) : q[i] = x
      BY <2>1 DEF ToSet
    <3>2. CASE i = 1
      <4>1. x \in Threads /\ x = q[1]
        BY <2>1, <3>1, <3>2
      <4>2. k.prio[x] \in Int
        BY <4>1, Numbers
      <4> QED BY <4>1, <4>2
    <3>3. CASE 1 < i
      BY <2>1, <3>1, <3>3 DEF Ordered, q
    <3> QED BY <2>1, <3>1, <3>2, <3>3
  <2>3. Head(q) \in ToSet(q)
    BY <2>1 DEF ToSet
  <2>4. k.prio[q[1]] \in 0 .. NoPriority
    BY <1>1, <2>1 DEF NoPriority
  <2> QED BY <1>2, <1>4, <2>1, <2>2, <2>3, <2>4 DEF q
<1> QED BY <1>3, <1>4

-----------------------------------------------------------------------------
(* Onto a list and off it. *)

LEMMA Absent ==
  ASSUME NEW S, NEW s \in Seq(S), NEW t, t \notin ToSet(s)
  PROVE  RemoveFirst(s, t) = s
<1>1. {j \in 1 .. Len(s) : s[j] = t} = {}
  BY DEF ToSet
<1> QED BY <1>1, Zenon DEF RemoveFirst, SelectInSeq

LEMMA EnqueueValue ==
  ASSUME NEW k \in Kernels, NEW m \in Mutexes, NEW t \in Threads,
         IsInjective(k.waiters[m]), t \notin ToSet(k.waiters[m]), Ordered(k.waiters[m], k.prio)
  PROVE  \E q \in Seq(Threads) :
           /\ Enqueue(k, m, t) = WithWaiters(k, [k.waiters EXCEPT ![m] = q])
           /\ IsInjective(q) /\ ToSet(q) = ToSet(k.waiters[m]) \cup {t} /\ Ordered(q, k.prio)
<1> DEFINE s == k.waiters[m]
           behind == {i \in DOMAIN s : k.prio[t] < k.prio[s[i]]}
           place == IF behind = {} THEN Len(s) + 1 ELSE Min(behind)
           q == InsertAt(s, place, t)
<1>1. s \in Seq(Threads) /\ Len(s) \in Nat /\ DOMAIN s = 1 .. Len(s)
      /\ \A i \in 1 .. Len(s) : s[i] \in Threads
  BY KernelParts
<1>2. \A x \in Threads : k.prio[x] \in Int
  BY Numbers
<1>3. Enqueue(k, m, t) = [k EXCEPT !.waiters[m] = q]
  BY DEF Enqueue
<1>4. IsInjective(s) /\ t \notin ToSet(s) /\ Ordered(s, k.prio)
  OBVIOUS
<1> HIDE DEF s
<1>5. /\ place \in 1 .. Len(s) + 1
      /\ \A i \in 1 .. Len(s) : i < place => k.prio[s[i]] <= k.prio[t]
      /\ place \in 1 .. Len(s) => k.prio[t] < k.prio[s[place]]
  <2>1. CASE behind = {}
    BY <1>1, <1>2, <2>1
  <2>2. CASE behind # {}
    <3>1. behind \in SUBSET Nat
      BY <1>1
    <3>2. place \in behind /\ \A x \in behind : place <= x
      BY <2>2, <3>1, LeastNatural
    <3> HIDE DEF place
    <3> QED BY <1>1, <1>2, <3>2
  <2> QED BY <2>1, <2>2
<1> HIDE DEF place
<1>6. q \in Seq(Threads) /\ Lengthened(s, place, t, q)
  BY <1>1, <1>5, InsertAtLengthens
<1> HIDE DEF q
<1>7. IsInjective(q) /\ ToSet(q) = ToSet(s) \cup {t}
  BY <1>1, <1>4, <1>6, OnLengthened
<1>8. Ordered(q, k.prio)
  BY <1>1, <1>2, <1>4, <1>5, <1>6, LengthenedOrdered
<1>9. Enqueue(k, m, t) = WithWaiters(k, [k.waiters EXCEPT ![m] = q])
  BY <1>3 DEF WithWaiters, Kernels
<1> QED BY <1>6, <1>7, <1>8, <1>9 DEF s

LEMMA DequeueValue ==
  ASSUME NEW k \in Kernels, NEW m \in Mutexes, NEW t,
         \A x \in Mutexes : x # m => t \notin ToSet(k.waiters[x])
  PROVE  Dequeue(k, t) = WithWaiters(k, [k.waiters EXCEPT ![m] = RemoveFirst(k.waiters[m], t)])
<1>1. \A x \in Mutexes : k.waiters[x] \in Seq(Threads)
  BY KernelParts
<1>2. \A x \in Mutexes : x # m => RemoveFirst(k.waiters[x], t) = k.waiters[x]
  BY <1>1, Absent
<1>3. DOMAIN k.waiters = Mutexes /\ k.waiters = [x \in Mutexes |-> k.waiters[x]]
  BY KernelParts
<1>4. [x \in Mutexes |-> RemoveFirst(k.waiters[x], t)]
        = [k.waiters EXCEPT ![m] = RemoveFirst(k.waiters[m], t)]
  BY <1>2, <1>3
<1> QED BY <1>4, Zenon DEF Dequeue, WithWaiters

\* t is on no list any more.
LEMMA DequeueShape ==
  ASSUME NEW k, Shape(k), NEW m \in Mutexes, NEW t \in Threads, Waiting(k, t, m)
  PROVE  \E q \in Seq(Threads) :
           /\ Dequeue(k, t) = WithWaiters(k, [k.waiters EXCEPT ![m] = q])
           /\ q = RemoveFirst(k.waiters[m], t)
           /\ IsInjective(q) /\ ToSet(q) = ToSet(k.waiters[m]) \ {t}
           /\ t \in ToSet(k.waiters[m])
           /\ \A x \in Mutexes : x # m => t \notin ToSet(k.waiters[x])
<1>1. k \in Kernels /\ k.waiters[m] \in Seq(Threads) /\ IsInjective(k.waiters[m])
  BY KernelParts DEF Shape
<1>2. t \in ToSet(k.waiters[m]) /\ \A x \in Mutexes : x # m => t \notin ToSet(k.waiters[x])
  BY DEF Shape, Waiting
<1>3. /\ RemoveFirst(k.waiters[m], t) \in Seq(Threads) /\ IsInjective(RemoveFirst(k.waiters[m], t))
      /\ ToSet(RemoveFirst(k.waiters[m], t)) = ToSet(k.waiters[m]) \ {t}
  BY <1>1, OnRemoveFirst
<1>4. Dequeue(k, t) = WithWaiters(k, [k.waiters EXCEPT ![m] = RemoveFirst(k.waiters[m], t)])
  BY <1>1, <1>2, DequeueValue
<1> QED BY <1>2, <1>3, <1>4

-----------------------------------------------------------------------------
(* The way of a changed priority along the owners. *)

\* What putting u in its place again leaves, and does
Replaced(k, j, u, m) ==
  /\ Shape(j) /\ Same(k, j) /\ j.prio = k.prio
  /\ \A x \in Mutexes : x # m => j.waiters[x] = k.waiters[x] /\ j.first[x] = k.first[x]
  /\ Ordered(j.waiters[m], j.prio) /\ j.first[m] = FirstPriority(j, m)
  /\ ToSet(j.waiters[m]) = ToSet(k.waiters[m])

LEMMA RequeueKeeps ==
  ASSUME NEW k, Shape(k), NEW m \in Mutexes, NEW u \in Threads, Waiting(k, u, m),
         Ordered(RemoveFirst(k.waiters[m], u), k.prio)
  PROVE  Replaced(k, Requeue(k, u), u, m)
<1>1. k \in Kernels /\ k.pending[u] = m
  BY DEF Shape, Waiting
<1>2. PICK s \in Seq(Threads) :
         /\ Dequeue(k, u) = WithWaiters(k, [k.waiters EXCEPT ![m] = s])
         /\ s = RemoveFirst(k.waiters[m], u)
         /\ IsInjective(s) /\ ToSet(s) = ToSet(k.waiters[m]) \ {u} /\ u \in ToSet(k.waiters[m])
  BY DequeueShape
<1> DEFINE d == Dequeue(k, u)
           v == [k.waiters EXCEPT ![m] = s]
<1>3. v \in Lists /\ v[m] = s /\ \A x \in Mutexes : x # m => v[x] = k.waiters[x]
  BY <1>1, KernelParts DEF Lists
<1>4. d = WithWaiters(k, v)
  BY <1>2
<1> HIDE DEF d, v
<1>5. /\ d \in Kernels /\ Same(k, d) /\ d.waiters = v /\ d.first = k.first /\ d.prio = k.prio
  BY <1>1, <1>3, <1>4, WithWaitersValue
<1>6. /\ IsInjective(d.waiters[m]) /\ u \notin ToSet(d.waiters[m]) /\ Ordered(d.waiters[m], d.prio)
      /\ d.waiters[m] = s
  BY <1>2, <1>3, <1>5
<1>7. PICK q \in Seq(Threads) :
         /\ Enqueue(d, m, u) = WithWaiters(d, [d.waiters EXCEPT ![m] = q])
         /\ IsInjective(q) /\ ToSet(q) = ToSet(s) \cup {u} /\ Ordered(q, d.prio)
  BY <1>5, <1>6, EnqueueValue
<1> DEFINE e == Enqueue(d, m, u)
           w == [d.waiters EXCEPT ![m] = q]
<1>8. w \in Lists /\ w[m] = q /\ \A x \in Mutexes : x # m => w[x] = k.waiters[x]
  BY <1>3, <1>5 DEF Lists
<1>9. e = WithWaiters(d, w)
  BY <1>7
<1> HIDE DEF e, w
<1>10. /\ e \in Kernels /\ Same(k, e) /\ e.waiters = w /\ e.first = k.first /\ e.prio = k.prio
  BY <1>5, <1>8, <1>9, WithWaitersValue DEF Same
<1>11. FirstPriority(e, m) \in 0 .. NoPriority
  BY <1>5, <1>7, <1>8, <1>10, FirstPriorityIs
<1> DEFINE j == Requeue(k, u)
<1>12. j = WithFirst(e, m, FirstPriority(e, m))
  BY <1>1, Zenon DEF Requeue, WithFirst, e, d
<1> HIDE DEF j
<1>13. /\ j \in Kernels /\ Same(k, j) /\ j.waiters = w /\ j.prio = k.prio
       /\ j.first = [k.first EXCEPT ![m] = FirstPriority(e, m)]
  BY <1>10, <1>11, <1>12, WithFirstValue DEF Same
<1>14. FirstPriority(j, m) = FirstPriority(e, m)
  BY <1>10, <1>13 DEF FirstPriority
<1>15. ToSet(j.waiters[m]) = ToSet(k.waiters[m]) /\ IsInjective(j.waiters[m])
       /\ Ordered(j.waiters[m], j.prio)
  BY <1>2, <1>5, <1>7, <1>8, <1>13
<1>16. \A x \in Mutexes : x # m => j.waiters[x] = k.waiters[x] /\ j.first[x] = k.first[x]
  BY <1>8, <1>13, <1>1, KernelParts
<1>17. j.first[m] = FirstPriority(j, m)
  BY <1>13, <1>14, <1>1, KernelParts
<1>18. Shape(j)
  <2>1. \A x \in Mutexes : ToSet(j.waiters[x]) = ToSet(k.waiters[x]) /\ IsInjective(j.waiters[x])
    BY <1>15, <1>16 DEF Shape
  <2>2. \A x \in Mutexes : j.waiters[x] = <<>> <=> k.waiters[x] = <<>>
    <3>1. \A x \in Mutexes : x = m => k.waiters[x] # <<>> /\ j.waiters[x] # <<>>
      BY <1>2, <1>15, OnNothing
    <3> QED BY <3>1, <1>16
  <2> QED BY <2>1, <2>2, <1>13 DEF Shape, Same, Waiting
<1> QED BY <1>13, <1>15, <1>16, <1>17, <1>18 DEF Replaced, j

LEMMA OrderedAgrees ==
  ASSUME NEW S, NEW q \in Seq(S), NEW d, NEW e, Ordered(q, d), \A x \in ToSet(q) : d[x] = e[x]
  PROVE  Ordered(q, e)
<1>1. \A i \in 1 .. Len(q) : q[i] \in ToSet(q)
  BY DEF ToSet
<1> QED BY <1>1 DEF Ordered

\* The thread whose priority has just changed is out of order where it waits,
\* and nobody else.
LoopInv(c) ==
  /\ c \in [k : Kernels, next : Threads \cup {NoThread}]
  /\ Shape(c.k)
  /\ \A m \in Mutexes :
       IF c.next # NoThread /\ Waiting(c.k, c.next, m)
       THEN Ordered(RemoveFirst(c.k.waiters[m], c.next), c.k.prio)
       ELSE Sound(c.k, m)

\* Sound, but perhaps where o is the owner
SoundBut(k, o, m) ==
  /\ Ordered(k.waiters[m], k.prio)
  /\ k.first[m] <= FirstPriority(k, m)
  /\ k.owner[m] \notin {o, NoThread} => k.prio[k.owner[m]] <= k.first[m]

LEMMA PrioChanged ==
  ASSUME NEW k, Shape(k), NEW o \in Threads, NEW p \in 0 .. NoPriority - 1
  PROVE  /\ Shape(WithPrio(k, o, p))
         /\ \A m \in Mutexes : o \notin ToSet(k.waiters[m]) /\ Ordered(k.waiters[m], k.prio) =>
              /\ Ordered(k.waiters[m], WithPrio(k, o, p).prio)
              /\ FirstPriority(WithPrio(k, o, p), m) = FirstPriority(k, m)
<1> DEFINE j == WithPrio(k, o, p)
<1>1. k \in Kernels
  BY DEF Shape
<1>2. /\ j \in Kernels /\ Same(k, j) /\ j.waiters = k.waiters /\ j.first = k.first
      /\ j.prio = [k.prio EXCEPT ![o] = p]
  BY <1>1, WithPrioValue
<1> HIDE DEF j
<1>3. Shape(j)
  BY <1>2 DEF Shape, Same, Waiting
<1>4. \A x \in Threads : x # o => j.prio[x] = k.prio[x]
  BY <1>1, <1>2, KernelParts
<1>5. ASSUME NEW m \in Mutexes, o \notin ToSet(k.waiters[m]), Ordered(k.waiters[m], k.prio)
      PROVE  Ordered(k.waiters[m], j.prio) /\ FirstPriority(j, m) = FirstPriority(k, m)
  <2>1. k.waiters[m] \in Seq(Threads) /\ \A x \in ToSet(k.waiters[m]) : x \in Threads /\ x # o
    BY <1>1, <1>5, KernelParts, FirstPriorityIs
  <2>2. Ordered(k.waiters[m], j.prio)
    BY <1>4, <1>5, <2>1, OrderedAgrees
  <2>3. k.waiters[m] # <<>> => Head(k.waiters[m]) \in ToSet(k.waiters[m])
    BY <1>1, <1>5, FirstPriorityIs
  <2>4. FirstPriority(j, m) = FirstPriority(k, m)
    BY <1>2, <1>4, <2>1, <2>3 DEF FirstPriority
  <2> QED BY <2>2, <2>4
<1> QED BY <1>3, <1>5 DEF j

LEMMA LoopStarts ==
  ASSUME NEW k, Shape(k), NEW o \in Threads, NEW p \in 0 .. NoPriority - 1,
         \A m \in Mutexes : SoundBut(k, o, m),
         \A m \in Mutexes : k.owner[m] = o => p <= k.first[m]
  PROVE  LoopInv([k |-> WithPrio(k, o, p), next |-> o])
<1> DEFINE j == WithPrio(k, o, p)
<1>1. k \in Kernels
  BY DEF Shape
<1>2. /\ j \in Kernels /\ Same(k, j) /\ j.waiters = k.waiters /\ j.first = k.first
      /\ j.prio = [k.prio EXCEPT ![o] = p]
  BY <1>1, WithPrioValue
<1>3. /\ Shape(j)
      /\ \A m \in Mutexes : o \notin ToSet(k.waiters[m]) /\ Ordered(k.waiters[m], k.prio) =>
              /\ Ordered(k.waiters[m], j.prio) /\ FirstPriority(j, m) = FirstPriority(k, m)
  BY PrioChanged
<1> HIDE DEF j
<1>4. j.prio[o] = p /\ \A x \in Threads : x # o => j.prio[x] = k.prio[x]
  BY <1>1, <1>2, KernelParts
<1>5. ASSUME NEW m \in Mutexes, Waiting(j, o, m) PROVE Ordered(RemoveFirst(j.waiters[m], o), j.prio)
  <2>1. k.waiters[m] \in Seq(Threads) /\ IsInjective(k.waiters[m]) /\ Ordered(k.waiters[m], k.prio)
    BY <1>1, KernelParts DEF Shape, SoundBut
  <2> DEFINE q == RemoveFirst(k.waiters[m], o)
  <2>2. q \in Seq(Threads) /\ ToSet(q) = ToSet(k.waiters[m]) \ {o} /\ Ordered(q, k.prio)
    BY <2>1, OnRemoveFirst, RemoveFirstOrdered
  <2>3. \A x \in ToSet(q) : x \in Threads /\ x # o
    BY <1>1, <2>1, <2>2, FirstPriorityIs
  <2> HIDE DEF q
  <2>4. Ordered(q, j.prio)
    BY <1>4, <2>2, <2>3, OrderedAgrees
  <2> QED BY <1>2, <2>4 DEF q
<1>6. ASSUME NEW m \in Mutexes, ~Waiting(j, o, m) PROVE Sound(j, m)
  <2>1. o \notin ToSet(k.waiters[m])
    BY <1>2, <1>6 DEF Shape, Same, Waiting
  <2>2. /\ Ordered(k.waiters[m], k.prio) /\ k.first[m] <= FirstPriority(k, m)
        /\ k.owner[m] \notin {o, NoThread} => k.prio[k.owner[m]] <= k.first[m]
    BY DEF SoundBut
  <2>3. Ordered(j.waiters[m], j.prio) /\ j.first[m] <= FirstPriority(j, m)
    BY <1>2, <1>3, <2>1, <2>2
  <2>4. k.owner[m] \in Threads \cup {NoThread} /\ j.owner = k.owner
    BY <1>1, <1>2, KernelParts DEF Same
  <2>5. j.owner[m] # NoThread => j.prio[j.owner[m]] <= j.first[m]
    BY <1>2, <1>4, <2>2, <2>4
  <2> QED BY <2>3, <2>5 DEF Sound
<1>7. PICK c : c = [k |-> j, next |-> o]
  OBVIOUS
<1>8. c \in [k : Kernels, next : Threads \cup {NoThread}] /\ c.k = j /\ c.next = o /\ o # NoThread
  BY <1>2, <1>7, MutexAssumption
<1>9. LoopInv(c)
  BY <1>3, <1>5, <1>6, <1>8 DEF LoopInv
<1> QED BY <1>7, <1>9 DEF j

\* One way round the loop: u is put in its place again, and its mutex's owner
\* o, which runs at p from now on, is looked at next.
Follows(c, d, j, u, m, o, p) ==
  /\ u \in Threads /\ m \in Mutexes /\ o \in Threads /\ u = c.next
  /\ Waiting(c.k, u, m) /\ Replaced(c.k, j, u, m) /\ o = c.k.owner[m]
  /\ p = OwnPriority(j, o, Taken(j, o))
  /\ d = IF p = j.prio[o] THEN [k |-> j, next |-> NoThread]
         ELSE [k |-> WithPrio(j, o, p), next |-> o]

LEMMA StepFollows ==
  ASSUME NEW c, LoopInv(c), WaitsForMutex(c.k, c.next)
  PROVE  \E j, m, o, p : Follows(c, UpdateStep(c), j, c.next, m, o, p)
<1> DEFINE k == c.k
           u == c.next
           m == k.pending[u]
           j == Requeue(k, u)
           o == k.owner[m]
           p == OwnPriority(j, o, Taken(j, o))
<1>1. k \in Kernels /\ Shape(k) /\ u \in Threads
  BY DEF LoopInv, WaitsForMutex
<1>2. m \in Mutexes /\ Waiting(k, u, m)
  BY <1>1, KernelParts DEF WaitsForMutex, Waiting
<1>3. Ordered(RemoveFirst(k.waiters[m], u), k.prio)
  BY <1>1, <1>2, MutexAssumption DEF LoopInv
<1> HIDE DEF m
<1>4. Replaced(k, j, u, m)
  BY <1>1, <1>2, <1>3, RequeueKeeps
<1>5. o \in Threads
  <2>1. u \in ToSet(k.waiters[m])
    BY <1>1, <1>2 DEF Shape
  <2>2. k.waiters[m] # <<>>
    BY <2>1, OnNothing
  <2>3. k.owner[m] # NoThread
    BY <1>1, <1>2, <2>2 DEF Shape
  <2> QED BY <1>1, <1>2, <2>3, KernelParts
<1>6. UpdateStep(c) = FollowOwner(j, u)
  BY Zenon DEF UpdateStep
<1>7. j.owner = k.owner /\ j.pending = k.pending
  BY <1>4 DEF Replaced, Same
<1>8. FollowOwner(j, u) = IF p = j.prio[o] THEN [k |-> j, next |-> NoThread]
                          ELSE [k |-> WithPrio(j, o, p), next |-> o]
  <2> HIDE DEF j, k, u
  <2> QED BY <1>7, Zenon DEF FollowOwner, WithPrio, m
<1> HIDE DEF j, p, o
<1>9. Follows(c, UpdateStep(c), j, c.next, m, o, p)
  BY <1>1, <1>2, <1>4, <1>5, <1>6, <1>8 DEF Follows, o, p
<1> QED BY <1>9

LEMMA FollowedSound ==
  ASSUME NEW c, LoopInv(c), NEW d, NEW j, NEW u, NEW m, NEW o, NEW p, Follows(c, d, j, u, m, o, p)
  PROVE  /\ Shape(j) /\ Same(c.k, j)
         /\ p \in 0 .. NoPriority - 1 /\ p <= InitPriority[o]
         /\ \A x \in Mutexes : j.owner[x] = o => p <= j.first[x]
         /\ p = InitPriority[o] \/ \E x \in Mutexes : j.owner[x] = o /\ p = j.first[x]
         /\ \A x \in Mutexes : SoundBut(j, o, x)
<1>1. Shape(j) /\ j \in Kernels /\ Same(c.k, j) /\ c.k \in Kernels
  BY DEF Follows, Replaced, Shape, LoopInv
<1>2. o \in Threads /\ Taken(j, o) \in SUBSET Mutexes
  BY DEF Follows, Taken
<1>3. /\ p \in 0 .. NoPriority - 1 /\ p <= InitPriority[o]
      /\ \A x \in Taken(j, o) : p <= j.first[x]
      /\ p = InitPriority[o] \/ \E x \in Taken(j, o) : p = j.first[x]
  BY <1>1, <1>2, OwnPriorityIs DEF Follows
<1>4. ASSUME NEW x \in Mutexes PROVE SoundBut(j, o, x)
  <2>1. CASE x = m
    <3>1. Ordered(j.waiters[x], j.prio) /\ j.first[x] = FirstPriority(j, x) /\ o = j.owner[x]
      BY <1>1, <2>1 DEF Follows, Replaced, Same
    <3>2. j.first[x] <= FirstPriority(j, x)
      BY <1>1, <3>1, Numbers
    <3> QED BY <3>1, <3>2 DEF SoundBut
  <2>2. CASE x # m
    <3>1. Sound(c.k, x)
      BY <2>2 DEF Follows, LoopInv, Waiting
    <3>2. /\ j.waiters[x] = c.k.waiters[x] /\ j.first[x] = c.k.first[x] /\ j.prio = c.k.prio
          /\ j.owner = c.k.owner
      BY <2>2 DEF Follows, Replaced, Same
    <3>3. FirstPriority(j, x) = FirstPriority(c.k, x)
      BY <3>2 DEF FirstPriority
    <3> QED BY <3>1, <3>2, <3>3 DEF Sound, SoundBut
  <2> QED BY <2>1, <2>2
<1> QED BY <1>1, <1>3, <1>4 DEF Taken

LEMMA StepKeeps ==
  ASSUME NEW c, LoopInv(c)
  PROVE  LoopInv(UpdateStep(c)) /\ Same(c.k, UpdateStep(c).k)
<1>1. CASE WaitsForMutex(c.k, c.next)
  <2>1. PICK d : d = UpdateStep(c)
    OBVIOUS
  <2>2. PICK j, m, o, p : Follows(c, d, j, c.next, m, o, p)
    BY <1>1, <2>1, StepFollows
  <2>3. /\ Shape(j) /\ Same(c.k, j) /\ o \in Threads
        /\ p \in 0 .. NoPriority - 1
        /\ \A x \in Mutexes : j.owner[x] = o => p <= j.first[x]
        /\ \A x \in Mutexes : SoundBut(j, o, x)
    BY <2>2, FollowedSound DEF Follows
  <2>4. CASE p = j.prio[o]
    <3>1. d = [k |-> j, next |-> NoThread]
      BY <2>2, <2>4 DEF Follows
    <3>2. \A x \in Mutexes : Sound(j, x)
      BY <2>3, <2>4 DEF Sound, SoundBut
    <3>3. d.k = j /\ d.next = NoThread /\ d \in [k : Kernels, next : Threads \cup {NoThread}]
      BY <2>3, <3>1 DEF Shape
    <3> QED BY <2>1, <2>3, <3>2, <3>3 DEF LoopInv
  <2>5. CASE p # j.prio[o]
    <3>1. d = [k |-> WithPrio(j, o, p), next |-> o]
      BY <2>2, <2>5 DEF Follows
    <3>2. LoopInv(d)
      BY <2>3, <3>1, LoopStarts
    <3>3. Same(j, d.k)
      BY <2>3, <3>1, WithPrioValue DEF Shape
    <3> QED BY <2>1, <2>3, <3>2, <3>3 DEF Same
  <2> QED BY <2>4, <2>5
<1>2. CASE ~WaitsForMutex(c.k, c.next)
  <2>1. UpdateStep(c) = [c EXCEPT !.next = NoThread]
    BY <1>2, Zenon DEF UpdateStep
  <2>2. PICK d : d = UpdateStep(c)
    OBVIOUS
  <2>3. d.k = c.k /\ d.next = NoThread /\ d \in [k : Kernels, next : Threads \cup {NoThread}]
    BY <2>1, <2>2 DEF LoopInv
  <2>4. \A m \in Mutexes : Sound(c.k, m)
    BY <1>2, MutexAssumption DEF LoopInv, Waiting, WaitsForMutex
  <2> QED BY <2>2, <2>3, <2>4 DEF LoopInv, Same
<1> QED BY <1>1, <1>2

LEMMA LoopEnds ==
  ASSUME NEW c, LoopInv(c), c.next = NoThread
  PROVE  KernelInv(c.k)
BY DEF LoopInv, KernelInv

\* The loop ends: a thread that is come to again runs at a lower number than
\* before.  What is still open to the threads seen, and to those not seen yet:
Slots == Threads \X (0 .. NoPriority - 1)
Open(k, seen) == {s \in Slots : s[1] \notin seen \/ s[2] < k.prio[s[1]]}
Left(k, seen) == Cardinality(Open(k, seen))

Behind(c, seen) ==
  /\ seen \in SUBSET Threads /\ c.next \in seen
  /\ \A v \in seen : c.k.prio[c.next] <= c.k.prio[v]

LEMMA SlotsCount ==
  /\ IsFiniteSet(Slots) /\ Cardinality(Slots) = MaxUpdates
  /\ MaxUpdates \in Nat
<1>1. IsFiniteSet(0 .. 254) /\ Cardinality(0 .. 254) = 255
  <2>1. 0 \in Int /\ 254 \in Int /\ ~(0 > 254) /\ 254 - 0 + 1 = 255
    OBVIOUS
  <2>2. IsFiniteSet(0 .. 254) /\ Cardinality(0 .. 254) = IF 0 > 254 THEN 0 ELSE 254 - 0 + 1
    BY <2>1, FS_Interval, ZenonT(40)
  <2> QED BY <2>1, <2>2
<1>2. IsFiniteSet(Threads) /\ Cardinality(Threads) \in Nat
  BY MutexAssumption, FS_CardinalityType
<1> DEFINE N == 0 .. 254
<1>3. IsFiniteSet(Threads \X N) /\ Cardinality(Threads \X N) = Cardinality(Threads) * Cardinality(N)
  <2>1. IsFiniteSet(N)
    BY <1>1
  <2> HIDE DEF N
  <2> QED BY <1>2, <2>1, FS_Product
<1>4. Slots = Threads \X N /\ NoPriority = 255
  BY DEF Slots, NoPriority
<1>5. Cardinality(Threads) * 255 = 255 * Cardinality(Threads) /\ 255 * Cardinality(Threads) \in Nat
  BY <1>2
<1> QED BY <1>1, <1>3, <1>4, <1>5 DEF MaxUpdates

LEMMA OpenShrinks ==
  ASSUME NEW S \in SUBSET Slots, NEW T \in SUBSET S, NEW s \in S, s \notin T
  PROVE  /\ Cardinality(T) \in Nat /\ Cardinality(S) \in Nat
         /\ Cardinality(T) < Cardinality(S)
<1>1. IsFiniteSet(S) /\ IsFiniteSet(T) /\ Cardinality(T) <= Cardinality(S)
  BY SlotsCount, FS_Subset
<1>2. Cardinality(S) # Cardinality(T)
  BY <1>1, FS_Subset
<1> QED BY <1>1, <1>2, FS_CardinalityType

LEMMA StepLess ==
  ASSUME NEW c, LoopInv(c), NEW seen, Behind(c, seen), NEW d, d = UpdateStep(c), d.next # NoThread
  PROVE  \E after : Behind(d, after) /\ Left(d.k, after) < Left(c.k, seen)
<1>1. WaitsForMutex(c.k, c.next)
  <2> SUFFICES ASSUME ~WaitsForMutex(c.k, c.next) PROVE FALSE
    OBVIOUS
  <2>1. d = [c EXCEPT !.next = NoThread]
    BY Zenon DEF UpdateStep
  <2> QED BY <2>1 DEF LoopInv
<1>2. PICK j, m, o, p : Follows(c, d, j, c.next, m, o, p)
  BY <1>1, StepFollows
<1>3. /\ p # j.prio[o] /\ d = [k |-> WithPrio(j, o, p), next |-> o]
      /\ o \in Threads /\ c.next \in Threads /\ m \in Mutexes
  BY <1>2 DEF Follows
<1>4. /\ Shape(j) /\ j \in Kernels /\ c.k \in Kernels /\ j.prio = c.k.prio
      /\ p \in 0 .. NoPriority - 1 /\ p <= j.first[m]
  <2>1. j.owner[m] = o /\ j.prio = c.k.prio
    BY <1>2 DEF Follows, Replaced, Same
  <2> QED BY <1>2, <1>3, <2>1, FollowedSound DEF LoopInv, Shape
<1>5. j.first[m] <= c.k.prio[c.next]
  <2>1. /\ c.next \in ToSet(j.waiters[m]) /\ Ordered(j.waiters[m], j.prio)
        /\ j.first[m] = FirstPriority(j, m)
    BY <1>2 DEF Follows, Replaced, LoopInv, Shape
  <2> QED BY <1>3, <1>4, <2>1, FirstPriorityIs
<1>6. d.next = o /\ d.k.prio = [c.k.prio EXCEPT ![o] = p]
  <2>1. d.next = o /\ d.k = WithPrio(j, o, p)
    BY <1>3
  <2>2. /\ j \in Kernels /\ o \in Threads /\ p \in 0 .. NoPriority - 1
    BY <1>3, <1>4
  <2>3. WithPrio(j, o, p).prio = [j.prio EXCEPT ![o] = p]
    BY <2>2, WithPrioValue, Zenon
  <2>4. d.k.prio = [j.prio EXCEPT ![o] = p] /\ j.prio = c.k.prio
    BY <1>4, <2>1, <2>3, Zenon
  <2> QED BY <2>1, <2>4, Zenon
<1>7. /\ \A v \in Threads : c.k.prio[v] \in Nat
      /\ d.k.prio[o] = p /\ \A v \in Threads : v # o => d.k.prio[v] = c.k.prio[v]
      /\ p \in Nat /\ j.first[m] \in Nat /\ p < NoPriority /\ NoPriority - 1 \in 0 .. NoPriority - 1
      /\ \A v \in Threads : c.k.prio[v] \in 0 .. NoPriority - 1
  BY <1>3, <1>4, <1>6, Numbers, KernelParts
<1>8. p <= c.k.prio[c.next] /\ p # c.k.prio[o]
  BY <1>3, <1>4, <1>5, <1>7
<1> DEFINE after == seen \cup {o}
<1>9. Behind(d, after)
  <2>1. \A v \in seen : p <= c.k.prio[v] /\ v \in Threads
    BY <1>3, <1>7, <1>8 DEF Behind
  <2> QED BY <1>3, <1>6, <1>7, <2>1 DEF Behind
<1>10. ASSUME NEW s \in Open(d.k, after) PROVE s \in Open(c.k, seen)
  <2>1. s \in Slots /\ s[1] \in Threads /\ s[2] \in Nat
    BY DEF Open, Slots, NoPriority
  <2>2. CASE s[1] \notin seen
    BY <2>1, <2>2 DEF Open
  <2>3. CASE s[1] \in seen
    <3>1. s[2] < d.k.prio[s[1]]
      BY <2>3 DEF Open
    <3>2. s[1] = o => p <= c.k.prio[o]
      BY <1>7, <1>8, <1>3, <2>3 DEF Behind
    <3>3. s[2] < c.k.prio[s[1]]
      BY <1>7, <2>1, <3>1, <3>2
    <3> QED BY <2>1, <3>3 DEF Open
  <2> QED BY <2>2, <2>3
<1>11. \E s \in Open(c.k, seen) : s \notin Open(d.k, after)
  <2>1. CASE o \in seen
    <3>1. p < c.k.prio[o]
      BY <1>3, <1>7, <1>8, <2>1 DEF Behind
    <3>2. <<o, p>> \in Slots /\ <<o, p>> \in Open(c.k, seen)
      BY <1>3, <1>4, <3>1 DEF Open, Slots
    <3>3. <<o, p>> \notin Open(d.k, after)
      BY <1>7 DEF Open
    <3> QED BY <3>2, <3>3
  <2>2. CASE o \notin seen
    <3> DEFINE q == NoPriority - 1
    <3>1. q \in 0 .. NoPriority - 1 /\ ~(q < p)
      <4>1. p \in Nat /\ p < NoPriority /\ NoPriority \in Nat
        BY <1>4, <1>7 DEF NoPriority
      <4> QED BY <4>1
    <3> HIDE DEF q
    <3>2. <<o, q>> \in Slots /\ <<o, q>> \in Open(c.k, seen)
      BY <1>3, <2>2, <3>1 DEF Open, Slots
    <3>3. <<o, q>> \notin Open(d.k, after)
      BY <1>7, <3>1 DEF Open
    <3> QED BY <3>2, <3>3
  <2> QED BY <2>1, <2>2
<1>12. Open(c.k, seen) \in SUBSET Slots
  BY DEF Open
<1>13. Left(d.k, after) < Left(c.k, seen)
  BY <1>10, <1>11, <1>12, OpenShrinks DEF Left
<1> QED BY <1>9, <1>13

LEMMA LeftAtFirst ==
  ASSUME NEW c, LoopInv(c), c.next \in Threads
  PROVE  Behind(c, {c.next}) /\ Left(c.k, {c.next}) < MaxUpdates
<1>1. c.k \in Kernels /\ c.k.prio[c.next] \in Nat /\ c.k.prio[c.next] < NoPriority /\ NoPriority \in Nat
  BY Numbers DEF LoopInv
<1> DEFINE q == NoPriority - 1
<1>2. q \in 0 .. NoPriority - 1 /\ ~(q < c.k.prio[c.next])
  BY <1>1
<1> HIDE DEF q
<1>3. <<c.next, q>> \in Slots /\ <<c.next, q>> \notin Open(c.k, {c.next})
  BY <1>2 DEF Slots, Open
<1>4. Open(c.k, {c.next}) \in SUBSET Slots /\ Slots \in SUBSET Slots
  BY DEF Open
<1>5. Left(c.k, {c.next}) < MaxUpdates
  BY <1>3, <1>4, OpenShrinks, SlotsCount DEF Left
<1> QED BY <1>1, <1>5 DEF Behind

-----------------------------------------------------------------------------
(* As long as no wait has timed out the numbers are not only small enough, *)
(* they are exact.                                                         *)

\* p is t's own priority or that of the most urgent mutex it has.
OwnAt(k, t, p) ==
  /\ p <= InitPriority[t]
  /\ \A m \in Mutexes : k.owner[m] = t => p <= k.first[m]
  /\ p = InitPriority[t] \/ \E m \in Mutexes : k.owner[m] = t /\ p = k.first[m]

Exact(k) ==
  /\ \A t \in Threads : OwnAt(k, t, k.prio[t])
  /\ \A m \in Mutexes : k.first[m] = FirstPriority(k, m)

LoopExact(c) ==
  /\ \A t \in Threads : OwnAt(c.k, t, c.k.prio[t])
  /\ \A m \in Mutexes : (c.next # NoThread /\ Waiting(c.k, c.next, m))
                          \/ c.k.first[m] = FirstPriority(c.k, m)

LEMMA LoopStartsExact ==
  ASSUME NEW k, Shape(k), NEW o \in Threads, NEW p \in 0 .. NoPriority - 1, OwnAt(k, o, p),
         \A m \in Mutexes : SoundBut(k, o, m),
         \A m \in Mutexes : k.first[m] = FirstPriority(k, m),
         \A t \in Threads : t # o => OwnAt(k, t, k.prio[t])
  PROVE  LoopExact([k |-> WithPrio(k, o, p), next |-> o])
<1> DEFINE j == WithPrio(k, o, p)
<1>1. k \in Kernels
  BY DEF Shape
<1>2. /\ Same(k, j) /\ j.waiters = k.waiters /\ j.first = k.first
      /\ j.prio = [k.prio EXCEPT ![o] = p]
  BY <1>1, WithPrioValue
<1>3. /\ Shape(j)
      /\ \A m \in Mutexes : o \notin ToSet(k.waiters[m]) /\ Ordered(k.waiters[m], k.prio) =>
              FirstPriority(j, m) = FirstPriority(k, m)
  BY PrioChanged
<1> HIDE DEF j
<1>4. j.prio[o] = p /\ \A x \in Threads : x # o => j.prio[x] = k.prio[x]
  BY <1>1, <1>2, KernelParts
<1>5. ASSUME NEW t \in Threads PROVE OwnAt(j, t, j.prio[t])
  BY <1>2, <1>4 DEF OwnAt, Same
<1>6. ASSUME NEW m \in Mutexes, ~Waiting(j, o, m) PROVE j.first[m] = FirstPriority(j, m)
  <2>1. o \notin ToSet(k.waiters[m]) /\ Ordered(k.waiters[m], k.prio)
    BY <1>2, <1>6 DEF Shape, Same, Waiting, SoundBut
  <2> QED BY <1>2, <1>3, <2>1
<1>7. PICK c : c = [k |-> j, next |-> o]
  OBVIOUS
<1>8. c.k = j /\ c.next = o /\ o # NoThread
  BY <1>7, MutexAssumption
<1>9. LoopExact(c)
  BY <1>5, <1>6, <1>8 DEF LoopExact
<1> QED BY <1>7, <1>9 DEF j

LEMMA StepExact ==
  ASSUME NEW c, LoopInv(c), LoopExact(c)
  PROVE  LoopExact(UpdateStep(c))
<1>1. CASE WaitsForMutex(c.k, c.next)
  <2>1. PICK d : d = UpdateStep(c)
    OBVIOUS
  <2>2. PICK j, m, o, p : Follows(c, d, j, c.next, m, o, p)
    BY <1>1, <2>1, StepFollows
  <2>3. /\ Shape(j) /\ Same(c.k, j) /\ o \in Threads /\ m \in Mutexes /\ j.owner[m] = o
        /\ p \in 0 .. NoPriority - 1 /\ OwnAt(j, o, p)
        /\ \A x \in Mutexes : SoundBut(j, o, x)
    <3>1. /\ Shape(j) /\ Same(c.k, j) /\ p \in 0 .. NoPriority - 1 /\ p <= InitPriority[o]
          /\ \A x \in Mutexes : j.owner[x] = o => p <= j.first[x]
          /\ p = InitPriority[o] \/ \E x \in Mutexes : j.owner[x] = o /\ p = j.first[x]
          /\ \A x \in Mutexes : SoundBut(j, o, x)
      BY <2>2, FollowedSound
    <3>2. o \in Threads /\ m \in Mutexes /\ j.owner[m] = o
      BY <2>2, <3>1 DEF Follows, Same
    <3> QED BY <3>1, <3>2 DEF OwnAt
  <2>4. ASSUME NEW x \in Mutexes PROVE j.first[x] = FirstPriority(j, x) /\ (x # m => j.first[x] = c.k.first[x])
    <3>1. CASE x = m
      BY <2>2, <3>1 DEF Follows, Replaced
    <3>2. CASE x # m
      <4>1. /\ j.waiters[x] = c.k.waiters[x] /\ j.first[x] = c.k.first[x] /\ j.prio = c.k.prio
            /\ ~Waiting(c.k, c.next, x)
        BY <2>2, <3>2 DEF Follows, Replaced, Waiting
      <4>2. FirstPriority(j, x) = FirstPriority(c.k, x)
        BY <4>1 DEF FirstPriority
      <4> QED BY <4>1, <4>2 DEF LoopExact
    <3> QED BY <3>1, <3>2
  <2>5. ASSUME NEW t \in Threads, t # o PROVE OwnAt(j, t, j.prio[t])
    <3>1. j.prio = c.k.prio /\ j.owner = c.k.owner
      BY <2>2, <2>3 DEF Follows, Replaced, Same
    <3>2. \A x \in Mutexes : j.owner[x] = t => j.first[x] = c.k.first[x]
      BY <2>3, <2>4, <2>5
    <3>3. OwnAt(c.k, t, c.k.prio[t])
      BY DEF LoopExact
    <3> QED BY <3>1, <3>2, <3>3 DEF OwnAt
  <2>6. CASE p = j.prio[o]
    <3>1. d = [k |-> j, next |-> NoThread]
      BY <2>2, <2>6 DEF Follows
    <3>2. d.k = j /\ \A t \in Threads : OwnAt(j, t, j.prio[t])
      BY <2>3, <2>5, <2>6, <3>1
    <3> QED BY <2>1, <2>4, <3>2 DEF LoopExact
  <2>7. CASE p # j.prio[o]
    <3>1. d = [k |-> WithPrio(j, o, p), next |-> o]
      BY <2>2, <2>7 DEF Follows
    <3> QED BY <2>1, <2>3, <2>4, <2>5, <3>1, LoopStartsExact
  <2> QED BY <2>6, <2>7
<1>2. CASE ~WaitsForMutex(c.k, c.next)
  <2>1. UpdateStep(c) = [c EXCEPT !.next = NoThread]
    BY <1>2, Zenon DEF UpdateStep
  <2>2. PICK d : d = UpdateStep(c)
    OBVIOUS
  <2>3. d.k = c.k
    BY <2>1, <2>2 DEF LoopInv
  <2>4. \A m \in Mutexes : ~(c.next # NoThread /\ Waiting(c.k, c.next, m))
    BY <1>2, MutexAssumption DEF Waiting, WaitsForMutex
  <2> QED BY <2>2, <2>3, <2>4 DEF LoopExact
<1> QED BY <1>1, <1>2

-----------------------------------------------------------------------------
(* The loop as a whole. *)

LoopRun(step, k, t, p) ==
  step = [n \in Nat |-> IF n = 0 THEN [k |-> [k EXCEPT !.prio[t] = p], next |-> t]
                        ELSE UpdateStep(step[n - 1])]

LEMMA UpdateIsLoop ==
  ASSUME NEW k, NEW t, NEW p, \E step : LoopRun(step, k, t, p)
  PROVE  \E step : /\ LoopRun(step, k, t, p)
                   /\ UpdatePriority(k, t, p)
                        = step[CHOOSE n \in 0 .. MaxUpdates : step[n].next = NoThread].k
BY Zenon DEF UpdatePriority, LoopRun

LEMMA LoopRuns ==
  ASSUME NEW k, NEW t, NEW p, LoopInv([k |-> WithPrio(k, t, p), next |-> t])
  PROVE  \E step : LoopRun(step, k, t, p)
<1> DEFINE S == {c \in [k : Kernels, next : Threads \cup {NoThread}] : LoopInv(c)}
           F == [c \in S |-> UpdateStep(c)]
           a == [k |-> WithPrio(k, t, p), next |-> t]
<1>1. a \in S
  BY DEF LoopInv
<1>2. F \in [S -> S]
  <2>1. ASSUME NEW c \in S PROVE UpdateStep(c) \in S
    <3>1. LoopInv(UpdateStep(c))
      BY StepKeeps
    <3>2. UpdateStep(c) \in [k : Kernels, next : Threads \cup {NoThread}]
      BY <3>1 DEF LoopInv
    <3> QED BY <3>1, <3>2
  <2> QED BY <2>1
<1>3. \A c \in S : F[c] = UpdateStep(c)
  OBVIOUS
<1> HIDE DEF S, F
<1>4. PICK g \in [Nat -> S] : Repeats(g, a, F)
  BY <1>1, <1>2, Repetition
<1>5. ASSUME NEW n \in Nat PROVE g[n] = IF n = 0 THEN a ELSE UpdateStep(g[n - 1])
  <2>1. CASE n = 0
    BY <1>4, <2>1 DEF Repeats
  <2>2. CASE n # 0
    <3>1. PICK i \in Nat : n = i + 1 /\ n - 1 = i
      BY <2>2
    <3>2. g[n] = F[g[i]] /\ g[i] \in S
      BY <1>4, <3>1 DEF Repeats
    <3> QED BY <1>3, <2>2, <3>1, <3>2
  <2> QED BY <2>1, <2>2
<1>6. g = [n \in Nat |-> g[n]]
  OBVIOUS
<1>7. g = [n \in Nat |-> IF n = 0 THEN a ELSE UpdateStep(g[n - 1])]
  BY <1>5, <1>6
<1>8. LoopRun(g, k, t, p)
  BY <1>7, Zenon DEF LoopRun, WithPrio, a
<1> QED BY <1>8

\* The loop of _thread_update_priority ends (ipc.c:878-919), also where owners
\* wait for each other in a circle: a thread it comes to again runs at a lower
\* number than before.  Until then every turn leaves the lists in order but
\* for the waiter that is about to be put in its place.
THEOREM PropagationEnds ==
  ASSUME NEW k, NEW t \in Threads, NEW p \in 0 .. NoPriority - 1, k \in Kernels,
         LoopInv([k |-> WithPrio(k, t, p), next |-> t]),
         NEW exact \in BOOLEAN, exact => LoopExact([k |-> WithPrio(k, t, p), next |-> t]),
         NEW step, LoopRun(step, k, t, p)
  PROVE  /\ step[MaxUpdates].next = NoThread
         /\ \A n \in Nat : /\ LoopInv(step[n]) /\ Same(k, step[n].k)
                           /\ exact => LoopExact(step[n])
<1> DEFINE a == [k |-> WithPrio(k, t, p), next |-> t]
<1>1. step = [n \in Nat |-> IF n = 0 THEN a ELSE UpdateStep(step[n - 1])]
  BY Zenon DEF LoopRun, WithPrio
<1>2. step[0] = a
  BY <1>1
<1>3. ASSUME NEW n \in Nat PROVE step[n + 1] = UpdateStep(step[n])
  <2>1. n + 1 \in Nat /\ n + 1 # 0 /\ (n + 1) - 1 = n
    OBVIOUS
  <2>2. step[n + 1] = IF n + 1 = 0 THEN a ELSE UpdateStep(step[(n + 1) - 1])
    BY <1>1, <2>1, Zenon
  <2> QED BY <2>1, <2>2
<1>4. a.next = t /\ a.k = WithPrio(k, t, p) /\ t # NoThread /\ Same(k, a.k)
  BY MutexAssumption, WithPrioValue
<1> HIDE DEF a
<1> DEFINE Good(c) == LoopInv(c) /\ Same(k, c.k) /\ (exact => LoopExact(c))
           Early(n) == \E seen : Behind(step[n], seen) /\ n + Left(step[n].k, seen) < MaxUpdates
           G == {n \in Nat : Good(step[n]) /\ (step[n].next = NoThread \/ Early(n))}
<1>5. 0 \in G
  <2>1. Good(step[0])
    BY <1>2, <1>4 DEF a
  <2>2. Behind(step[0], {t}) /\ Left(step[0].k, {t}) < MaxUpdates
    BY <1>2, <1>4, <2>1, LeftAtFirst
  <2>3. Left(step[0].k, {t}) \in Nat
    <3>1. Open(step[0].k, {t}) \in SUBSET Slots
      BY DEF Open
    <3> QED BY <3>1, SlotsCount, FS_Subset, FS_CardinalityType DEF Left
  <2>4. Early(0)
    BY <2>2, <2>3
  <2> QED BY <2>1, <2>4
<1>6. ASSUME NEW n \in G PROVE n + 1 \in G
  <2>1. PICK c, d : c = step[n] /\ d = step[n + 1] /\ d = UpdateStep(c)
    BY <1>3
  <2>2. Good(c) /\ (c.next = NoThread \/ Early(n))
    BY <2>1
  <2>3. Good(d)
    <3>1. LoopInv(d) /\ Same(c.k, d.k)
      BY <2>1, <2>2, StepKeeps
    <3>2. exact => LoopExact(d)
      BY <2>1, <2>2, StepExact
    <3> QED BY <2>2, <3>1, <3>2 DEF Same
  <2>4. ASSUME d.next # NoThread PROVE Early(n + 1)
    <3>1. c.next # NoThread
      <4> SUFFICES ASSUME c.next = NoThread PROVE FALSE
        OBVIOUS
      <4>1. d = [c EXCEPT !.next = NoThread]
        BY <2>1, Zenon DEF UpdateStep, WaitsForMutex
      <4> QED BY <2>2, <2>4, <4>1 DEF LoopInv
    <3>2. PICK seen : Behind(c, seen) /\ n + Left(c.k, seen) < MaxUpdates
      BY <2>1, <2>2, <3>1
    <3>3. PICK after : Behind(d, after) /\ Left(d.k, after) < Left(c.k, seen)
      BY <2>1, <2>2, <2>4, <3>2, StepLess
    <3>4. Left(c.k, seen) \in Nat /\ Left(d.k, after) \in Nat /\ MaxUpdates \in Nat
      <4>1. Open(c.k, seen) \in SUBSET Slots /\ Open(d.k, after) \in SUBSET Slots
        BY DEF Open
      <4> QED BY <4>1, SlotsCount, FS_Subset, FS_CardinalityType DEF Left
    <3>5. (n + 1) + Left(d.k, after) < MaxUpdates
      BY <3>2, <3>3, <3>4
    <3> QED BY <2>1, <3>3, <3>5
  <2>5. Good(step[n + 1]) /\ (step[n + 1].next = NoThread \/ Early(n + 1))
    BY <2>1, <2>3, <2>4
  <2> HIDE DEF Good, Early
  <2> QED BY <2>5
<1>7. G = Nat
  <2>1. G \in SUBSET Nat
    OBVIOUS
  <2> HIDE DEF G
  <2> QED BY <1>5, <1>6, <2>1, NumberInduction
<1>8. step[MaxUpdates].next = NoThread
  <2>1. MaxUpdates \in Nat /\ ~Early(MaxUpdates)
    <3>1. MaxUpdates \in Nat
      BY SlotsCount
    <3>2. \A seen : Left(step[MaxUpdates].k, seen) \in Nat
      <4>1. \A seen : Open(step[MaxUpdates].k, seen) \in SUBSET Slots
        BY DEF Open
      <4> QED BY <4>1, SlotsCount, FS_Subset, FS_CardinalityType DEF Left
    <3> QED BY <3>1, <3>2
  <2> QED BY <1>7, <2>1
<1> QED BY <1>7, <1>8

\* Whoever waits for an owner the change comes to is put in its place again:
\* the loop does not end with somebody out of order.
LEMMA UpdateKeeps ==
  ASSUME NEW k, NEW t \in Threads, NEW p \in 0 .. NoPriority - 1, k \in Kernels,
         LoopInv([k |-> WithPrio(k, t, p), next |-> t]),
         NEW exact \in BOOLEAN, exact => LoopExact([k |-> WithPrio(k, t, p), next |-> t])
  PROVE  /\ KernelInv(UpdatePriority(k, t, p)) /\ Same(k, UpdatePriority(k, t, p))
         /\ exact => Exact(UpdatePriority(k, t, p))
<1>1. PICK step : /\ LoopRun(step, k, t, p)
                  /\ UpdatePriority(k, t, p)
                       = step[CHOOSE n \in 0 .. MaxUpdates : step[n].next = NoThread].k
  BY LoopRuns, UpdateIsLoop
<1>2. /\ step[MaxUpdates].next = NoThread
      /\ \A n \in Nat : /\ LoopInv(step[n]) /\ Same(k, step[n].k)
                        /\ exact => LoopExact(step[n])
  BY <1>1, PropagationEnds
<1>3. PICK n \in 0 .. MaxUpdates : /\ step[n].next = NoThread
                                   /\ UpdatePriority(k, t, p) = step[n].k
  <2>1. MaxUpdates \in 0 .. MaxUpdates
    BY SlotsCount
  <2> QED BY <1>1, <1>2, <2>1, Zenon
<1>4. LoopInv(step[n]) /\ Same(k, step[n].k) /\ (exact => LoopExact(step[n]))
  <2>1. n \in Nat
    BY SlotsCount
  <2> QED BY <1>2, <2>1, Zenon
<1>5. KernelInv(step[n].k)
  BY <1>3, <1>4, LoopEnds
<1>6. exact => Exact(step[n].k)
  BY <1>3, <1>4 DEF LoopExact, Exact
<1> QED BY <1>3, <1>4, <1>5, <1>6

-----------------------------------------------------------------------------
(* What the calls do to k. *)

\* Only how often a mutex is held has changed, or what a thread does that
\* does not wait.
LEMMA Alike ==
  ASSUME NEW k, KernelInv(k), NEW j \in Kernels,
         j.owner = k.owner, j.first = k.first, j.waiters = k.waiters, j.prio = k.prio,
         \A t \in Threads : \A m \in Mutexes : Waiting(j, t, m) <=> Waiting(k, t, m)
  PROVE  KernelInv(j) /\ (Exact(k) => Exact(j))
<1>1. Shape(j)
  BY DEF KernelInv, Shape
<1>2. \A m \in Mutexes : FirstPriority(j, m) = FirstPriority(k, m)
  BY DEF FirstPriority
<1>3. \A m \in Mutexes : Sound(j, m)
  BY <1>2 DEF KernelInv, Sound
<1>4. Exact(k) => Exact(j)
  BY <1>2 DEF Exact, OwnAt
<1> QED BY <1>1, <1>3, <1>4 DEF KernelInv

\* t has just left the list of m, whose number is still the one t may have given.
NearlyExact(k, m, t) ==
  /\ \A v \in Threads : OwnAt(k, v, k.prio[v])
  /\ \A x \in Mutexes : x # m => k.first[x] = FirstPriority(k, x)
  /\ k.first[m] <= k.prio[t]
  /\ k.first[m] = FirstPriority(k, m) \/ k.first[m] = k.prio[t]

\* The mutex's number is brought up to date.
LEMMA FirstKnown ==
  ASSUME NEW k, KernelInv(k), NEW m \in Mutexes, NEW j, j = WithFirst(k, m, FirstPriority(k, m))
  PROVE  /\ KernelInv(j) /\ Same(k, j) /\ j.prio = k.prio /\ j.waiters = k.waiters
         /\ k.first[m] <= j.first[m]
         /\ \A x \in Mutexes : /\ x # m => j.first[x] = k.first[x]
                               /\ FirstPriority(j, x) = FirstPriority(k, x)
         /\ j.first[m] = FirstPriority(j, m)
<1>1. k \in Kernels /\ Shape(k) /\ \A x \in Mutexes : Sound(k, x)
  BY DEF KernelInv, Shape
<1>2. FirstPriority(k, m) \in 0 .. NoPriority
  BY <1>1, FirstPriorityIs DEF Sound
<1>3. /\ j \in Kernels /\ Same(k, j) /\ j.waiters = k.waiters /\ j.prio = k.prio
      /\ j.first = [k.first EXCEPT ![m] = FirstPriority(k, m)]
  BY <1>1, <1>2, WithFirstValue
<1>4. j.first[m] = FirstPriority(k, m) /\ \A x \in Mutexes : x # m => j.first[x] = k.first[x]
  <2>1. DOMAIN k.first = Mutexes
    BY <1>1, KernelParts
  <2> QED BY <1>3, <2>1
<1>5. \A x \in Mutexes : FirstPriority(j, x) = FirstPriority(k, x)
  BY <1>3, Zenon DEF FirstPriority
<1>6. k.first[m] <= j.first[m]
  BY <1>1, <1>4 DEF Sound
<1>7. Shape(j)
  BY <1>1, <1>3 DEF Shape, Same, Waiting
<1>8. ASSUME NEW x \in Mutexes PROVE Sound(j, x)
  <2>1. CASE x = m
    <3>1. j.owner[m] # NoThread => k.prio[k.owner[m]] \in Int
      BY <1>1, <1>3, KernelParts, Numbers DEF Same
    <3>2. k.first[m] \in Int /\ j.first[m] \in Int
      BY <1>1, <1>3, Numbers
    <3> QED BY <2>1, <3>1, <3>2, <1>1, <1>3, <1>4, <1>5, <1>6 DEF Sound, Same
  <2>2. CASE x # m
    BY <2>2, <1>1, <1>3, <1>4, <1>5 DEF Sound, Same
  <2> QED BY <2>1, <2>2
<1> QED BY <1>3, <1>4, <1>5, <1>6, <1>7, <1>8 DEF KernelInv

LEMMA RecomputeKeeps ==
  ASSUME NEW k, KernelInv(k), NEW m \in Mutexes, NEW t \in Threads,
         NEW exact \in BOOLEAN, exact => NearlyExact(k, m, t)
  PROVE  /\ KernelInv(Recompute(k, m, t)) /\ Same(k, Recompute(k, m, t))
         /\ exact => Exact(Recompute(k, m, t))
<1>1. k \in Kernels
  BY DEF KernelInv, Shape
<1>2. PICK j : j = WithFirst(k, m, FirstPriority(k, m))
  OBVIOUS
<1>3. /\ KernelInv(j) /\ Same(k, j) /\ j.prio = k.prio /\ j.waiters = k.waiters
      /\ k.first[m] <= j.first[m]
      /\ \A x \in Mutexes : /\ x # m => j.first[x] = k.first[x]
                            /\ FirstPriority(j, x) = FirstPriority(k, x)
      /\ j.first[m] = FirstPriority(j, m)
  BY <1>2, FirstKnown
<1>4. j \in Kernels /\ Shape(j) /\ \A x \in Mutexes : Sound(j, x)
  BY <1>3 DEF KernelInv, Shape
<1>5. PICK o : o = k.owner[m] /\ o = j.owner[m] /\ o \in Threads \cup {NoThread}
  BY <1>1, <1>3, KernelParts DEF Same
<1>6. PICK p : p = OwnPriority(j, o, Taken(j, o))
  OBVIOUS
<1>7. Recompute(k, m, t) = IF o # NoThread /\ k.prio[o] = k.prio[t] /\ p # k.prio[o]
                           THEN UpdatePriority(j, o, p) ELSE j
  BY <1>2, <1>5, <1>6, Zenon DEF Recompute, WithFirst
<1>8. o \in Threads => p \in 0 .. NoPriority - 1 /\ OwnAt(j, o, p)
  <2> SUFFICES ASSUME o \in Threads PROVE p \in 0 .. NoPriority - 1 /\ OwnAt(j, o, p)
    OBVIOUS
  <2>1. Taken(j, o) \in SUBSET Mutexes
    BY DEF Taken
  <2>2. /\ p \in 0 .. NoPriority - 1 /\ p <= InitPriority[o]
        /\ \A x \in Taken(j, o) : p <= j.first[x]
        /\ p = InitPriority[o] \/ \E x \in Taken(j, o) : p = j.first[x]
    BY <1>4, <1>6, <2>1, OwnPriorityIs
  <2> QED BY <2>2 DEF OwnAt, Taken
<1>9. ASSUME exact, NEW v \in Threads, v # o PROVE OwnAt(j, v, j.prio[v])
  <2>1. \A x \in Mutexes : j.owner[x] = v => k.owner[x] = v /\ j.first[x] = k.first[x]
    BY <1>3, <1>5, <1>9 DEF Same
  <2>2. \A x \in Mutexes : k.owner[x] = v => j.owner[x] = v
    BY <1>3 DEF Same
  <2>3. OwnAt(k, v, k.prio[v])
    BY <1>9 DEF NearlyExact
  <2> QED BY <1>3, <2>1, <2>2, <2>3 DEF OwnAt
<1>10. exact => \A x \in Mutexes : j.first[x] = FirstPriority(j, x)
  BY <1>3 DEF NearlyExact
<1>11. CASE o # NoThread /\ k.prio[o] = k.prio[t] /\ p # k.prio[o]
  <2>1. o \in Threads /\ Recompute(k, m, t) = UpdatePriority(j, o, p)
    BY <1>5, <1>7, <1>11
  <2>2. /\ \A x \in Mutexes : SoundBut(j, o, x)
        /\ \A x \in Mutexes : j.owner[x] = o => p <= j.first[x]
    BY <1>4, <1>8, <2>1 DEF SoundBut, Sound, OwnAt
  <2>3. LoopInv([k |-> WithPrio(j, o, p), next |-> o])
    BY <1>4, <1>8, <2>1, <2>2, LoopStarts
  <2>4. exact => LoopExact([k |-> WithPrio(j, o, p), next |-> o])
    BY <1>4, <1>8, <1>9, <1>10, <2>1, <2>2, LoopStartsExact
  <2>5. /\ KernelInv(UpdatePriority(j, o, p)) /\ Same(j, UpdatePriority(j, o, p))
        /\ exact => Exact(UpdatePriority(j, o, p))
    BY <1>4, <1>8, <2>1, <2>3, <2>4, UpdateKeeps
  <2> QED BY <1>3, <2>1, <2>5 DEF Same
<1>12. CASE ~(o # NoThread /\ k.prio[o] = k.prio[t] /\ p # k.prio[o])
  <2>1. Recompute(k, m, t) = j
    BY <1>7, <1>12
  <2>2. ASSUME exact, o \in Threads PROVE OwnAt(j, o, j.prio[o])
    <3>1. CASE p = k.prio[o]
      BY <1>3, <1>8, <2>2, <3>1
    <3>2. CASE k.prio[o] # k.prio[t]
      <4>1. /\ OwnAt(k, o, k.prio[o]) /\ k.first[m] <= k.prio[t]
            /\ k.first[m] = FirstPriority(k, m) \/ k.first[m] = k.prio[t]
        BY <2>2 DEF NearlyExact
      <4>2. /\ k.prio[o] \in Int /\ k.prio[t] \in Int
            /\ \A x \in Mutexes : k.first[x] \in Int /\ j.first[x] \in Int
        BY <1>1, <1>4, <2>2, Numbers
      <4>3. k.prio[o] <= k.first[m] /\ k.prio[o] < k.prio[t]
        <5>1. k.owner[m] = o
          BY <1>5
        <5>2. k.prio[o] <= k.first[m]
          BY <4>1, <5>1 DEF OwnAt
        <5> QED BY <3>2, <4>1, <4>2, <5>2
      <4>4. \A x \in Mutexes : j.owner[x] = o => k.owner[x] = o /\ k.prio[o] <= j.first[x]
        BY <1>3, <4>1, <4>2, <4>3 DEF OwnAt, Same
      <4>5. k.prio[o] = k.first[m] => k.prio[o] = j.first[m]
        <5>1. k.first[m] = FirstPriority(k, m) => k.first[m] = j.first[m]
          BY <1>3
        <5>2. k.prio[o] = k.first[m] => k.first[m] # k.prio[t]
          BY <4>2, <4>3
        <5> QED BY <4>1, <5>1, <5>2
      <4>6. k.prio[o] = InitPriority[o] \/ \E x \in Mutexes : j.owner[x] = o /\ k.prio[o] = j.first[x]
        BY <1>3, <4>1, <4>5 DEF OwnAt, Same
      <4> QED BY <1>3, <4>1, <4>4, <4>6 DEF OwnAt
    <3> QED BY <1>12, <2>2, <3>1, <3>2, MutexAssumption
  <2>3. exact => Exact(j)
    BY <1>9, <1>10, <2>2 DEF Exact
  <2> QED BY <1>3, <2>1, <2>3
<1> QED BY <1>11, <1>12

-----------------------------------------------------------------------------
(* A thread leaves the list it is on: its time is up, or it is deleted.    *)

Stats == {"ready", "suspended", "closed"}
WithStat(k, t, s) == [k EXCEPT !.stat[t] = s]

LEMMA WithStatValue ==
  ASSUME NEW k \in Kernels, NEW t \in Threads, NEW s \in Stats
  PROVE  /\ WithStat(k, t, s) \in Kernels /\ WithStat(k, t, s).stat = [k.stat EXCEPT ![t] = s]
         /\ WithStat(k, t, s).owner = k.owner /\ WithStat(k, t, s).hold = k.hold
         /\ WithStat(k, t, s).first = k.first /\ WithStat(k, t, s).waiters = k.waiters
         /\ WithStat(k, t, s).prio = k.prio /\ WithStat(k, t, s).pending = k.pending
BY DEF Kernels, WithStat, Stats

\* t is on none of the lists w, which are k's otherwise.
Without(k, t, w) ==
  /\ w \in Lists
  /\ \A m \in Mutexes : /\ IsInjective(w[m]) /\ Ordered(w[m], k.prio)
                        /\ ToSet(w[m]) = ToSet(k.waiters[m]) \ {t}
                        /\ t \notin ToSet(k.waiters[m]) => w[m] = k.waiters[m]

LEMMA DequeueTakesOut ==
  ASSUME NEW k, KernelInv(k), NEW t \in Threads
  PROVE  \E w \in Lists : Without(k, t, w) /\ Dequeue(k, t) = WithWaiters(k, w)
<1> DEFINE w == [m \in Mutexes |-> RemoveFirst(k.waiters[m], t)]
<1>1. k \in Kernels /\ k.waiters \in [Mutexes -> Seq(Threads)]
  BY KernelParts DEF KernelInv, Shape
<1>2. ASSUME NEW m \in Mutexes
      PROVE  /\ w[m] \in Seq(Threads) /\ IsInjective(w[m]) /\ Ordered(w[m], k.prio)
             /\ ToSet(w[m]) = ToSet(k.waiters[m]) \ {t}
             /\ t \notin ToSet(k.waiters[m]) => w[m] = k.waiters[m]
  <2>1. k.waiters[m] \in Seq(Threads) /\ IsInjective(k.waiters[m]) /\ Ordered(k.waiters[m], k.prio)
    BY <1>1 DEF KernelInv, Shape, Sound
  <2>2. w[m] = RemoveFirst(k.waiters[m], t)
    OBVIOUS
  <2> HIDE DEF w
  <2> QED BY <2>1, <2>2, OnRemoveFirst, RemoveFirstOrdered, Absent
<1>3. w \in Lists
  BY <1>2 DEF Lists
<1>4. Dequeue(k, t) = WithWaiters(k, w)
  BY Zenon DEF Dequeue, WithWaiters
<1> HIDE DEF w
<1> QED BY <1>2, <1>3, <1>4 DEF Without

\* The first of those that stay
LEMMA FirstOfTheRest ==
  ASSUME NEW k, KernelInv(k), NEW j \in Kernels, NEW t \in Threads, Without(k, t, j.waiters),
         j.prio = k.prio, NEW m \in Mutexes
  PROVE  /\ FirstPriority(k, m) <= FirstPriority(j, m)
         /\ FirstPriority(j, m) = FirstPriority(k, m) \/ FirstPriority(k, m) = k.prio[t]
         /\ t \notin ToSet(k.waiters[m]) => FirstPriority(j, m) = FirstPriority(k, m)
<1>1. k \in Kernels /\ Ordered(k.waiters[m], k.prio) /\ Ordered(j.waiters[m], j.prio)
      /\ ToSet(j.waiters[m]) = ToSet(k.waiters[m]) \ {t}
  BY DEF KernelInv, Shape, Sound, Without
<1>2. /\ FirstPriority(k, m) \in 0 .. NoPriority
      /\ \A x \in ToSet(k.waiters[m]) : x \in Threads /\ FirstPriority(k, m) <= k.prio[x]
      /\ k.waiters[m] = <<>> => FirstPriority(k, m) = NoPriority
      /\ k.waiters[m] # <<>> => /\ Head(k.waiters[m]) \in ToSet(k.waiters[m])
                                /\ FirstPriority(k, m) = k.prio[Head(k.waiters[m])]
  BY <1>1, FirstPriorityIs
<1>3. /\ FirstPriority(j, m) \in 0 .. NoPriority
      /\ \A x \in ToSet(j.waiters[m]) : FirstPriority(j, m) <= k.prio[x]
      /\ j.waiters[m] = <<>> => FirstPriority(j, m) = NoPriority
      /\ j.waiters[m] # <<>> => /\ Head(j.waiters[m]) \in ToSet(j.waiters[m])
                                /\ FirstPriority(j, m) = k.prio[Head(j.waiters[m])]
  BY <1>1, FirstPriorityIs
<1> DEFINE f == FirstPriority(k, m)
           g == FirstPriority(j, m)
<1>9. f \in Int /\ g \in Int /\ f <= NoPriority
  <2>1. f \in 0 .. NoPriority /\ g \in 0 .. NoPriority /\ NoPriority \in Int
    BY <1>2, <1>3 DEF NoPriority
  <2> HIDE DEF f, g
  <2> QED BY <2>1
<1>4. FirstPriority(k, m) <= FirstPriority(j, m)
  <2>1. CASE j.waiters[m] = <<>>
    BY <1>9, <1>3, <2>1
  <2>2. CASE j.waiters[m] # <<>>
    BY <1>1, <1>2, <1>3, <2>2
  <2> QED BY <2>1, <2>2
<1>5. t \notin ToSet(k.waiters[m]) => FirstPriority(j, m) = FirstPriority(k, m)
  BY DEF Without, FirstPriority
<1>6. CASE k.waiters[m] = <<>>
  BY <1>4, <1>5, <1>6, OnNothing
<1>7. CASE k.waiters[m] # <<>> /\ Head(k.waiters[m]) = t
  BY <1>2, <1>4, <1>5, <1>7
<1>8. CASE k.waiters[m] # <<>> /\ Head(k.waiters[m]) # t
  <2>1. FirstPriority(j, m) <= FirstPriority(k, m)
    BY <1>1, <1>2, <1>3, <1>8
  <2>2. FirstPriority(j, m) = FirstPriority(k, m)
    <3>1. f \in Int /\ g \in Int /\ g <= f /\ f <= g
      BY <2>1, <1>9, <1>4
    <3> HIDE DEF f, g
    <3>2. g = f
      BY <3>1
    <3> QED BY <3>2 DEF f, g
  <2> QED BY <1>4, <2>2
<1> QED BY <1>6, <1>7, <1>8

Awake == {"ready", "closed"}
Leaves(k, t, s) == [Dequeue(k, t) EXCEPT !.stat[t] = s]

LEMMA LeaveKeeps ==
  ASSUME NEW k, KernelInv(k), NEW t \in Threads, NEW s \in Awake,
         NEW j, j = Leaves(k, t, s)
  PROVE  /\ KernelInv(j) /\ j.stat = [k.stat EXCEPT ![t] = s]
         /\ j.owner = k.owner /\ j.hold = k.hold /\ j.first = k.first
         /\ j.prio = k.prio /\ j.pending = k.pending
         /\ Exact(k) /\ (\A m \in Mutexes : ~Waiting(k, t, m)) => Exact(j)
         /\ \A m \in Mutexes : Exact(k) /\ Waiting(k, t, m) => NearlyExact(j, m, t)
<1>1. k \in Kernels /\ Shape(k) /\ \A m \in Mutexes : Sound(k, m)
  BY DEF KernelInv, Shape
<1>2. PICK w \in Lists : Without(k, t, w) /\ Dequeue(k, t) = WithWaiters(k, w)
  BY DequeueTakesOut
<1>3. PICK d : d = WithWaiters(k, w)
  OBVIOUS
<1>4. d \in Kernels /\ Same(k, d) /\ d.waiters = w /\ d.first = k.first /\ d.prio = k.prio
  BY <1>1, <1>3, WithWaitersValue
<1>5. j = WithStat(d, t, s)
  BY <1>2, <1>3, Zenon DEF WithStat, Leaves
<1>6. /\ j \in Kernels /\ j.waiters = w /\ j.stat = [k.stat EXCEPT ![t] = s]
      /\ j.owner = k.owner /\ j.hold = k.hold /\ j.first = k.first
      /\ j.prio = k.prio /\ j.pending = k.pending
  <2>1. s \in Stats
    BY DEF Stats, Awake
  <2>2. /\ j \in Kernels /\ j.stat = [d.stat EXCEPT ![t] = s]
        /\ j.owner = d.owner /\ j.hold = d.hold /\ j.first = d.first /\ j.waiters = d.waiters
        /\ j.prio = d.prio /\ j.pending = d.pending
    <3>1. d \in Kernels
      BY <1>4
    <3>2. PICK c : c = WithStat(d, t, s)
      OBVIOUS
    <3>3. /\ c \in Kernels /\ c.stat = [d.stat EXCEPT ![t] = s]
          /\ c.owner = d.owner /\ c.hold = d.hold /\ c.first = d.first /\ c.waiters = d.waiters
          /\ c.prio = d.prio /\ c.pending = d.pending
      BY <2>1, <3>1, <3>2, WithStatValue
    <3> QED BY <1>5, <3>2, <3>3
  <2> QED BY <1>4, <2>2 DEF Same
<1>7. \A x \in Threads : \A m \in Mutexes :
         /\ Waiting(j, x, m) <=> Waiting(k, x, m) /\ x # t
         /\ x \in ToSet(j.waiters[m]) <=> x \in ToSet(k.waiters[m]) /\ x # t
  <2>1. j.stat[t] = s /\ \A x \in Threads : x # t => j.stat[x] = k.stat[x]
    BY <1>1, <1>6, KernelParts
  <2> QED BY <1>2, <1>6, <2>1 DEF Waiting, Without, Awake
<1>8. Shape(j)
  <2>1. \A m \in Mutexes : IsInjective(j.waiters[m]) /\ ToSet(j.waiters[m]) \in SUBSET ToSet(k.waiters[m])
    BY <1>2, <1>6 DEF Without
  <2>2. \A m \in Mutexes : j.owner[m] \notin ToSet(j.waiters[m])
    BY <1>1, <1>6, <2>1 DEF Shape
  <2>3. \A m \in Mutexes : j.owner[m] = NoThread => j.waiters[m] = <<>>
    <3>1. ASSUME NEW m \in Mutexes, j.owner[m] = NoThread PROVE j.waiters[m] = <<>>
      <4>1. k.waiters[m] = <<>>
        BY <1>1, <1>6, <3>1 DEF Shape
      <4>2. t \notin ToSet(k.waiters[m])
        BY <4>1, OnNothing
      <4> QED BY <1>2, <1>6, <4>1, <4>2 DEF Without
    <3> QED BY <3>1
  <2>4. \A m \in Mutexes : \A x \in Threads : x \in ToSet(j.waiters[m]) <=> Waiting(j, x, m)
    BY <1>1, <1>7 DEF Shape
  <2> QED BY <1>6, <2>1, <2>2, <2>3, <2>4 DEF Shape
<1>9. \A m \in Mutexes :
         /\ FirstPriority(k, m) <= FirstPriority(j, m)
         /\ FirstPriority(j, m) = FirstPriority(k, m) \/ FirstPriority(k, m) = k.prio[t]
         /\ t \notin ToSet(k.waiters[m]) => FirstPriority(j, m) = FirstPriority(k, m)
         /\ FirstPriority(j, m) \in Int /\ FirstPriority(k, m) \in Int
  <2>1. \A m \in Mutexes : Ordered(j.waiters[m], j.prio)
    BY <1>2, <1>6 DEF Without
  <2>2. \A m \in Mutexes : FirstPriority(j, m) \in 0 .. NoPriority /\ FirstPriority(k, m) \in 0 .. NoPriority
    <3>1. ASSUME NEW m \in Mutexes PROVE FirstPriority(j, m) \in 0 .. NoPriority
      BY <1>6, <2>1, FirstPriorityIs
    <3>2. ASSUME NEW m \in Mutexes PROVE FirstPriority(k, m) \in 0 .. NoPriority
      BY <1>1, FirstPriorityIs DEF Sound
    <3> QED BY <3>1, <3>2
  <2>3. Without(k, t, j.waiters) /\ j \in Kernels /\ j.prio = k.prio
    BY <1>2, <1>6
  <2>4. ASSUME NEW m \in Mutexes
        PROVE  /\ FirstPriority(k, m) <= FirstPriority(j, m)
               /\ FirstPriority(j, m) = FirstPriority(k, m) \/ FirstPriority(k, m) = k.prio[t]
               /\ t \notin ToSet(k.waiters[m]) => FirstPriority(j, m) = FirstPriority(k, m)
    BY <2>3, FirstOfTheRest
  <2> QED BY <2>2, <2>4
<1>10. ASSUME NEW m \in Mutexes PROVE Sound(j, m)
  <2>1. Ordered(j.waiters[m], j.prio)
    BY <1>2, <1>6 DEF Without
  <2>2. k.first[m] \in Int
    BY <1>1, Numbers
  <2>3. j.first[m] <= FirstPriority(j, m)
    BY <1>1, <1>6, <1>9, <2>2 DEF Sound
  <2> QED BY <1>1, <1>6, <2>1, <2>3 DEF Sound
<1>11. Exact(k) => \A v \in Threads : OwnAt(j, v, j.prio[v])
  BY <1>6 DEF Exact, OwnAt
<1>12. Exact(k) /\ (\A m \in Mutexes : ~Waiting(k, t, m)) => Exact(j)
  BY <1>1, <1>6, <1>9, <1>11 DEF Exact, Shape
<1>13. ASSUME NEW m \in Mutexes, Exact(k), Waiting(k, t, m) PROVE NearlyExact(j, m, t)
  <2>1. \A x \in Mutexes : x # m => t \notin ToSet(k.waiters[x])
    BY <1>1, <1>13 DEF Shape, Waiting
  <2>2. k.first[m] <= k.prio[t]
    <3>1. t \in ToSet(k.waiters[m]) /\ Ordered(k.waiters[m], k.prio)
      BY <1>1, <1>13 DEF Shape, Sound
    <3>2. FirstPriority(k, m) <= k.prio[t]
      BY <1>1, <3>1, FirstPriorityIs
    <3> QED BY <1>13, <3>2 DEF Exact
  <2> QED BY <1>6, <1>9, <1>11, <1>13, <2>1, <2>2 DEF NearlyExact, Exact
<1> QED BY <1>6, <1>8, <1>10, <1>12, <1>13 DEF KernelInv

WithPending(k, t, m) == [k EXCEPT !.pending[t] = m]

LEMMA WithPendingValue ==
  ASSUME NEW k \in Kernels, NEW t \in Threads, NEW m \in Mutexes \cup {NoMutex}
  PROVE  /\ WithPending(k, t, m) \in Kernels
         /\ WithPending(k, t, m).pending = [k.pending EXCEPT ![t] = m]
         /\ WithPending(k, t, m).owner = k.owner /\ WithPending(k, t, m).hold = k.hold
         /\ WithPending(k, t, m).first = k.first /\ WithPending(k, t, m).waiters = k.waiters
         /\ WithPending(k, t, m).prio = k.prio /\ WithPending(k, t, m).stat = k.stat
BY DEF Kernels, WithPending

\* It gives its place up for good.
Forgets(k, t, m) == [Recompute(k, m, t) EXCEPT !.pending[t] = NoMutex]

LEMMA ForgetKeeps ==
  ASSUME NEW k, KernelInv(k), NEW m \in Mutexes, NEW t \in Threads, k.stat[t] # "suspended",
         NEW exact \in BOOLEAN, exact => NearlyExact(k, m, t),
         NEW j, j = Forgets(k, t, m)
  PROVE  /\ KernelInv(j) /\ (exact => Exact(j))
         /\ j.owner = k.owner /\ j.hold = k.hold /\ j.stat = k.stat
         /\ j.pending = [k.pending EXCEPT ![t] = NoMutex]
<1>1. PICK c : c = Recompute(k, m, t)
  OBVIOUS
<1>2. KernelInv(c) /\ Same(k, c) /\ (exact => Exact(c))
  BY <1>1, RecomputeKeeps
<1>3. c \in Kernels /\ NoMutex \in Mutexes \cup {NoMutex}
  BY <1>2 DEF KernelInv, Shape
<1>4. j = WithPending(c, t, NoMutex)
  BY <1>1, Zenon DEF WithPending, Forgets
<1>5. /\ j \in Kernels /\ j.pending = [c.pending EXCEPT ![t] = NoMutex]
      /\ j.owner = c.owner /\ j.hold = c.hold /\ j.first = c.first /\ j.waiters = c.waiters
      /\ j.prio = c.prio /\ j.stat = c.stat
  BY <1>3, <1>4, WithPendingValue
<1>6. \A x \in Threads : \A y \in Mutexes : Waiting(j, x, y) <=> Waiting(c, x, y)
  <2>1. c.stat[t] # "suspended"
    BY <1>2 DEF Same
  <2>2. \A x \in Threads : x # t => j.pending[x] = c.pending[x]
    BY <1>3, <1>5, KernelParts
  <2> QED BY <1>5, <2>1, <2>2 DEF Waiting
<1>7. KernelInv(j) /\ (Exact(c) => Exact(j))
  BY <1>2, <1>5, <1>6, Alike
<1> QED BY <1>2, <1>5, <1>7 DEF Same

LEMMA CloseKeeps ==
  ASSUME NEW k, KernelInv(k), NEW u \in Threads,
         NEW exact \in BOOLEAN, exact => Exact(k),
         exact => k.pending[u] = NoMutex \/ Waiting(k, u, k.pending[u]),
         NEW j, j = Drop(Close(k, u), u)
  PROVE  /\ KernelInv(j) /\ (exact => Exact(j))
         /\ j.owner = k.owner /\ j.hold = k.hold
         /\ j.stat = [k.stat EXCEPT ![u] = "closed"]
         /\ j.pending = [k.pending EXCEPT ![u] = NoMutex]
         /\ k.pending[u] = NoMutex => j.prio = k.prio
<1>1. PICK c : c = Leaves(k, u, "closed")
  OBVIOUS
<1>2. "closed" \in Awake
  BY DEF Awake
<1>3. /\ KernelInv(c) /\ c.stat = [k.stat EXCEPT ![u] = "closed"]
      /\ c.owner = k.owner /\ c.hold = k.hold /\ c.first = k.first
      /\ c.prio = k.prio /\ c.pending = k.pending
      /\ Exact(k) /\ (\A m \in Mutexes : ~Waiting(k, u, m)) => Exact(c)
      /\ \A m \in Mutexes : Exact(k) /\ Waiting(k, u, m) => NearlyExact(c, m, u)
  BY <1>1, <1>2, LeaveKeeps
<1>4. j = Drop(c, u)
  BY <1>1, Zenon DEF Close, Leaves
<1>5. k \in Kernels /\ c \in Kernels /\ c.stat[u] = "closed"
  <2>1. k \in Kernels /\ c \in Kernels
    BY <1>3 DEF KernelInv, Shape
  <2> QED BY <1>3, <2>1, KernelParts
<1>6. CASE k.pending[u] = NoMutex
  <2>1. j = c
    BY <1>3, <1>4, <1>6 DEF Drop
  <2>2. \A m \in Mutexes : ~Waiting(k, u, m)
    BY <1>6, MutexAssumption DEF Waiting
  <2>3. k.pending = [k.pending EXCEPT ![u] = NoMutex]
    BY <1>5, <1>6, KernelParts
  <2> QED BY <1>3, <2>1, <2>2, <2>3
<1>7. CASE k.pending[u] # NoMutex
  <2>1. PICK m : m = k.pending[u] /\ m \in Mutexes
    BY <1>5, <1>7, KernelParts
  <2>2. j = Forgets(c, u, m)
    BY <1>3, <1>4, <1>7, <2>1, Zenon DEF Drop, Forgets
  <2>3. exact => NearlyExact(c, m, u)
    BY <1>3, <1>7, <2>1
  <2>4. /\ KernelInv(j) /\ (exact => Exact(j))
        /\ j.owner = c.owner /\ j.hold = c.hold /\ j.stat = c.stat
        /\ j.pending = [c.pending EXCEPT ![u] = NoMutex]
    <3>1. KernelInv(c) /\ m \in Mutexes /\ c.stat[u] # "suspended"
      BY <1>3, <1>5, <2>1
    <3> QED BY <2>2, <2>3, <3>1, ForgetKeeps
  <2> QED BY <1>3, <1>7, <2>4
<1> QED BY <1>6, <1>7

-----------------------------------------------------------------------------
(* A thread starts to wait.                                                *)

AsWaiter(k, t, m) == [k EXCEPT !.stat[t] = "suspended", !.pending[t] = m]

LEMMA AsWaiterValue ==
  ASSUME NEW k \in Kernels, NEW t \in Threads, NEW m \in Mutexes
  PROVE  /\ AsWaiter(k, t, m) \in Kernels
         /\ AsWaiter(k, t, m).stat = [k.stat EXCEPT ![t] = "suspended"]
         /\ AsWaiter(k, t, m).pending = [k.pending EXCEPT ![t] = m]
         /\ AsWaiter(k, t, m).owner = k.owner /\ AsWaiter(k, t, m).hold = k.hold
         /\ AsWaiter(k, t, m).first = k.first /\ AsWaiter(k, t, m).waiters = k.waiters
         /\ AsWaiter(k, t, m).prio = k.prio
BY DEF Kernels, AsWaiter

\* In e, t is on the list of m besides.
Joins(k, e, t, m) ==
  /\ Shape(e) /\ e.owner = k.owner /\ e.hold = k.hold /\ e.first = k.first /\ e.prio = k.prio
  /\ e.stat = [k.stat EXCEPT ![t] = "suspended"] /\ e.pending = [k.pending EXCEPT ![t] = m]
  /\ \A x \in Mutexes : x # m => e.waiters[x] = k.waiters[x]
  /\ Ordered(e.waiters[m], e.prio) /\ ToSet(e.waiters[m]) = ToSet(k.waiters[m]) \cup {t}

LEMMA EnqueueJoins ==
  ASSUME NEW k, KernelInv(k), NEW t \in Threads, NEW m \in Mutexes, k.stat[t] = "ready",
         k.owner[m] \notin {t, NoThread}
  PROVE  Joins(k, Enqueue(AsWaiter(k, t, m), m, t), t, m)
<1>1. k \in Kernels /\ Shape(k) /\ \A x \in Mutexes : Sound(k, x)
  BY DEF KernelInv, Shape
<1>2. PICK a : a = AsWaiter(k, t, m)
  OBVIOUS
<1>3. /\ a \in Kernels /\ a.stat = [k.stat EXCEPT ![t] = "suspended"]
      /\ a.pending = [k.pending EXCEPT ![t] = m]
      /\ a.owner = k.owner /\ a.hold = k.hold /\ a.first = k.first
      /\ a.waiters = k.waiters /\ a.prio = k.prio
  BY <1>1, <1>2, AsWaiterValue
<1>4. \A x \in Mutexes : t \notin ToSet(k.waiters[x])
  BY <1>1 DEF Shape, Waiting
<1>5. IsInjective(a.waiters[m]) /\ t \notin ToSet(a.waiters[m]) /\ Ordered(a.waiters[m], a.prio)
  BY <1>1, <1>3, <1>4 DEF Shape, Sound
<1>6. PICK q \in Seq(Threads) :
         /\ Enqueue(a, m, t) = WithWaiters(a, [a.waiters EXCEPT ![m] = q])
         /\ IsInjective(q) /\ ToSet(q) = ToSet(a.waiters[m]) \cup {t} /\ Ordered(q, a.prio)
  BY <1>3, <1>5, EnqueueValue
<1> DEFINE v == [a.waiters EXCEPT ![m] = q]
<1>7. v \in Lists /\ v[m] = q /\ \A x \in Mutexes : x # m => v[x] = k.waiters[x]
  BY <1>1, <1>3, KernelParts DEF Lists
<1>8. PICK e : e = Enqueue(a, m, t) /\ e = WithWaiters(a, v)
  BY <1>6
<1> HIDE DEF v
<1>9. e \in Kernels /\ Same(a, e) /\ e.waiters = v /\ e.first = a.first /\ e.prio = a.prio
  BY <1>3, <1>7, <1>8, WithWaitersValue
<1>10. /\ e.owner = k.owner /\ e.hold = k.hold /\ e.first = k.first /\ e.prio = k.prio
       /\ e.stat = [k.stat EXCEPT ![t] = "suspended"] /\ e.pending = [k.pending EXCEPT ![t] = m]
       /\ \A x \in Mutexes : x # m => e.waiters[x] = k.waiters[x]
       /\ e.waiters[m] = q
       /\ ToSet(e.waiters[m]) = ToSet(k.waiters[m]) \cup {t}
  BY <1>3, <1>6, <1>7, <1>9 DEF Same
<1>11. \A x \in Threads : \A y \in Mutexes :
          Waiting(e, x, y) <=> IF x = t THEN y = m ELSE Waiting(k, x, y)
  <2>1. e.stat[t] = "suspended" /\ e.pending[t] = m
    BY <1>1, <1>10, KernelParts
  <2>2. \A x \in Threads : x # t => e.stat[x] = k.stat[x] /\ e.pending[x] = k.pending[x]
    BY <1>1, <1>10, KernelParts
  <2> QED BY <2>1, <2>2 DEF Waiting
<1>12. Shape(e)
  <2>1. \A x \in Mutexes : IsInjective(e.waiters[x])
    BY <1>1, <1>6, <1>10 DEF Shape
  <2>2. \A y \in Mutexes : \A x \in Threads : x \in ToSet(e.waiters[y]) <=> Waiting(e, x, y)
    BY <1>1, <1>4, <1>10, <1>11 DEF Shape
  <2>3. \A x \in Mutexes : e.owner[x] \notin ToSet(e.waiters[x])
    BY <1>1, <1>10 DEF Shape
  <2>4. \A x \in Mutexes : e.owner[x] = NoThread => e.waiters[x] = <<>>
    BY <1>1, <1>10 DEF Shape
  <2> QED BY <1>9, <2>1, <2>2, <2>3, <2>4 DEF Shape
<1>13. Ordered(e.waiters[m], e.prio)
  BY <1>3, <1>6, <1>9, <1>10
<1> QED BY <1>2, <1>8, <1>10, <1>12, <1>13 DEF Joins

LEMMA FirstJoined ==
  ASSUME NEW k, KernelInv(k), NEW t \in Threads, NEW m \in Mutexes, NEW e, Joins(k, e, t, m)
  PROVE  /\ FirstPriority(e, m) \in Int /\ FirstPriority(k, m) \in Int
         /\ FirstPriority(e, m) <= k.prio[t] /\ FirstPriority(e, m) <= FirstPriority(k, m)
         /\ FirstPriority(e, m) = k.prio[t] \/ FirstPriority(e, m) = FirstPriority(k, m)
         /\ \A x \in Mutexes : x # m => FirstPriority(e, x) = FirstPriority(k, x)
<1>1. /\ k \in Kernels /\ e \in Kernels /\ Ordered(k.waiters[m], k.prio) /\ e.prio = k.prio
      /\ Ordered(e.waiters[m], e.prio) /\ ToSet(e.waiters[m]) = ToSet(k.waiters[m]) \cup {t}
  BY DEF KernelInv, Shape, Sound, Joins
<1> DEFINE f == FirstPriority(k, m)
           g == FirstPriority(e, m)
<1>2. /\ f \in 0 .. NoPriority
      /\ \A x \in ToSet(k.waiters[m]) : x \in Threads /\ f <= k.prio[x]
      /\ k.waiters[m] = <<>> => f = NoPriority
      /\ k.waiters[m] # <<>> => Head(k.waiters[m]) \in ToSet(k.waiters[m]) /\ f = k.prio[Head(k.waiters[m])]
  BY <1>1, FirstPriorityIs
<1>3. /\ g \in 0 .. NoPriority
      /\ \A x \in ToSet(e.waiters[m]) : x \in Threads /\ g <= k.prio[x]
      /\ e.waiters[m] # <<>> => Head(e.waiters[m]) \in ToSet(e.waiters[m]) /\ g = k.prio[Head(e.waiters[m])]
  BY <1>1, FirstPriorityIs
<1> HIDE DEF f, g
<1>4. f \in Int /\ g \in Int /\ g <= NoPriority
  BY <1>2, <1>3 DEF NoPriority
<1>5. g <= k.prio[t] /\ e.waiters[m] # <<>>
  <2>1. t \in ToSet(e.waiters[m])
    BY <1>1
  <2> QED BY <1>3, <2>1, OnNothing
<1>6. g <= f
  <2>1. CASE k.waiters[m] = <<>>
    BY <1>2, <1>4, <2>1
  <2>2. CASE k.waiters[m] # <<>>
    BY <1>1, <1>2, <1>3, <2>2
  <2> QED BY <2>1, <2>2
<1>7. g = k.prio[t] \/ g = f
  <2>1. Head(e.waiters[m]) = t \/ Head(e.waiters[m]) \in ToSet(k.waiters[m])
    BY <1>1, <1>3, <1>5
  <2>2. CASE Head(e.waiters[m]) = t
    BY <1>3, <1>5, <2>2
  <2>3. CASE Head(e.waiters[m]) \in ToSet(k.waiters[m])
    <3>1. f <= g
      BY <1>2, <1>3, <1>5, <2>3
    <3> QED BY <1>4, <1>6, <3>1
  <2> QED BY <2>1, <2>2, <2>3
<1>8. \A x \in Mutexes : x # m => FirstPriority(e, x) = FirstPriority(k, x)
  BY DEF FirstPriority, Joins
<1> QED BY <1>4, <1>5, <1>6, <1>7, <1>8 DEF f, g

LEMMA InheritKeeps ==
  ASSUME NEW k, KernelInv(k), NEW t \in Threads, NEW m \in Mutexes, k.owner[m] \notin {t, NoThread},
         NEW e, Joins(k, e, t, m), NEW exact \in BOOLEAN, exact => Exact(k)
  PROVE  /\ KernelInv(Inherit(e, t, m)) /\ Same(e, Inherit(e, t, m))
         /\ exact => Exact(Inherit(e, t, m))
<1>1. /\ k \in Kernels /\ Shape(k) /\ (\A x \in Mutexes : Sound(k, x)) /\ e \in Kernels /\ Shape(e)
      /\ e.owner = k.owner /\ e.first = k.first /\ e.prio = k.prio /\ Ordered(e.waiters[m], e.prio)
  BY DEF KernelInv, Shape, Joins
<1>2. /\ FirstPriority(e, m) \in Int /\ FirstPriority(k, m) \in Int
      /\ FirstPriority(e, m) <= k.prio[t] /\ FirstPriority(e, m) <= FirstPriority(k, m)
      /\ FirstPriority(e, m) = k.prio[t] \/ FirstPriority(e, m) = FirstPriority(k, m)
      /\ \A x \in Mutexes : x # m => FirstPriority(e, x) = FirstPriority(k, x)
  BY FirstJoined
<1>3. \A x \in Mutexes : x # m => Sound(e, x)
  BY <1>1, <1>2 DEF Sound, Joins
<1>4. PICK o \in Threads : o = e.owner[m]
  BY <1>1, KernelParts
<1>5. /\ \A x \in Threads : k.prio[x] \in Int
      /\ \A x \in Mutexes : k.first[x] \in Int
      /\ k.first[m] <= FirstPriority(k, m) /\ k.prio[o] <= k.first[m]
  BY <1>1, <1>4, Numbers, MutexAssumption DEF Sound
<1>6. CASE k.prio[t] >= k.first[m]
  <2>1. Inherit(e, t, m) = e
    BY <1>1, <1>6 DEF Inherit
  <2>2. k.first[m] <= FirstPriority(e, m)
    BY <1>2, <1>5, <1>6
  <2>3. Sound(e, m)
    BY <1>1, <1>4, <1>5, <2>2 DEF Sound
  <2>4. ASSUME exact PROVE Exact(e)
    <3>1. e.first[m] = FirstPriority(e, m)
      <4>1. k.first[m] = FirstPriority(k, m)
        BY <2>4 DEF Exact
      <4> QED BY <1>1, <1>2, <1>5, <2>2, <4>1
    <3>2. \A x \in Mutexes : e.first[x] = FirstPriority(e, x)
      BY <1>1, <1>2, <2>4, <3>1 DEF Exact
    <3> QED BY <1>1, <2>4, <3>2 DEF Exact, OwnAt
  <2> QED BY <1>1, <1>3, <2>1, <2>3, <2>4 DEF KernelInv, Same
<1>7. CASE k.prio[t] < k.first[m]
  <2>1. PICK p : p = k.prio[t] /\ p \in 0 .. NoPriority - 1 /\ p \in 0 .. NoPriority
    <3>1. k.prio[t] \in 0 .. NoPriority - 1
      BY <1>1, KernelParts
    <3>2. \A i \in 0 .. NoPriority - 1 : i \in 0 .. NoPriority
      BY DEF NoPriority
    <3> QED BY <3>1, <3>2
  <2>2. PICK i : i = WithFirst(e, m, p)
    OBVIOUS
  <2>3. /\ i \in Kernels /\ Same(e, i) /\ i.first = [k.first EXCEPT ![m] = p]
        /\ i.waiters = e.waiters /\ i.prio = k.prio
    BY <1>1, <2>1, <2>2, WithFirstValue
  <2>4. Shape(i)
    BY <1>1, <2>3 DEF Shape, Same, Waiting
  <2>5. i.first[m] = p /\ \A x \in Mutexes : x # m => i.first[x] = k.first[x]
    BY <1>1, <2>3, KernelParts
  <2>6. \A x \in Mutexes : FirstPriority(i, x) = FirstPriority(e, x)
    BY <1>1, <2>3 DEF FirstPriority
  <2>7. FirstPriority(e, m) = p
    BY <1>2, <1>5, <1>7, <2>1
  <2>8. p \in Int /\ p < k.first[m]
    BY <1>5, <1>7, <2>1
  <2>9. ASSUME NEW x \in Mutexes, x # m PROVE Sound(i, x)
    BY <1>1, <1>3, <2>3, <2>5, <2>6, <2>9 DEF Sound, Same
  <2>10. Ordered(i.waiters[m], i.prio) /\ i.first[m] <= FirstPriority(i, m) /\ i.owner[m] = o
    BY <1>1, <1>4, <2>3, <2>5, <2>6, <2>7, <2>8 DEF Same
  <2>11. ASSUME exact PROVE \A x \in Mutexes : i.first[x] = FirstPriority(i, x)
    BY <1>2, <2>5, <2>6, <2>7, <2>11 DEF Exact
  <2>12. ASSUME exact, NEW v \in Threads, v # o PROVE OwnAt(i, v, i.prio[v])
    <3>1. \A x \in Mutexes : i.owner[x] = v => x # m
      BY <2>10, <2>12
    <3>2. i.owner = k.owner /\ i.prio = k.prio
      BY <1>1, <2>3 DEF Same
    <3>3. OwnAt(k, v, k.prio[v])
      BY <2>12 DEF Exact
    <3> QED BY <2>5, <3>1, <3>2, <3>3 DEF OwnAt
  <2>13. Inherit(e, t, m) = IF p < k.prio[o] THEN UpdatePriority(i, o, p) ELSE i
    <3>1. e.prio[t] = p /\ ~(e.prio[t] >= e.first[m])
      BY <1>1, <1>5, <1>7, <2>1
    <3>2. e.prio[o] = k.prio[o]
      BY <1>1
    <3> QED BY <1>4, <2>2, <3>1, <3>2, Zenon DEF Inherit, WithFirst
  <2>14. CASE p < k.prio[o]
    <3>1. \A x \in Mutexes : SoundBut(i, o, x)
      BY <2>9, <2>10 DEF Sound, SoundBut
    <3>2. ASSUME NEW x \in Mutexes, i.owner[x] = o PROVE p <= i.first[x]
      <4>1. CASE x = m
        BY <2>5, <2>8, <4>1
      <4>2. CASE x # m
        <5>1. k.prio[o] <= k.first[x]
          BY <1>1, <2>3, <3>2, MutexAssumption DEF Sound, Same
        <5> QED BY <1>5, <2>5, <2>8, <2>14, <4>2, <5>1
      <4> QED BY <4>1, <4>2
    <3>3. LoopInv([k |-> WithPrio(i, o, p), next |-> o])
      BY <2>1, <2>4, <3>1, <3>2, LoopStarts
    <3>4. ASSUME exact PROVE OwnAt(i, o, p)
      <4>1. k.prio[o] <= InitPriority[o]
        BY <3>4 DEF Exact, OwnAt
      <4>2. InitPriority[o] \in Int
        BY MutexAssumption DEF NoPriority
      <4>3. p <= InitPriority[o]
        BY <1>5, <2>8, <2>14, <4>1, <4>2
      <4> QED BY <2>5, <2>10, <3>2, <4>3 DEF OwnAt
    <3>5. exact => LoopExact([k |-> WithPrio(i, o, p), next |-> o])
      BY <2>1, <2>4, <2>11, <2>12, <3>1, <3>4, LoopStartsExact
    <3>6. /\ KernelInv(UpdatePriority(i, o, p)) /\ Same(i, UpdatePriority(i, o, p))
          /\ exact => Exact(UpdatePriority(i, o, p))
      BY <2>1, <2>3, <3>3, <3>5, UpdateKeeps
    <3> QED BY <2>3, <2>13, <2>14, <3>6 DEF Same
  <2>15. CASE ~(p < k.prio[o])
    <3>1. k.prio[o] <= p
      BY <1>5, <2>8, <2>15
    <3>2. Sound(i, m)
      BY <2>3, <2>5, <2>10, <3>1 DEF Sound
    <3>3. ASSUME exact PROVE OwnAt(i, o, i.prio[o])
      <4>1. OwnAt(k, o, k.prio[o]) /\ i.owner = k.owner /\ i.prio = k.prio
        BY <1>1, <2>3, <3>3 DEF Exact, Same
      <4>2. \A x \in Mutexes : i.owner[x] = o => k.prio[o] <= i.first[x]
        BY <2>5, <3>1, <4>1 DEF OwnAt
      <4>3. k.prio[o] # k.first[m]
        BY <1>5, <2>8, <3>1
      <4> QED BY <2>5, <4>1, <4>2, <4>3 DEF OwnAt
    <3>4. exact => Exact(i)
      BY <2>11, <2>12, <3>3 DEF Exact
    <3> QED BY <2>3, <2>4, <2>9, <2>13, <2>15, <3>2, <3>4 DEF KernelInv
  <2> QED BY <2>14, <2>15
<1> QED BY <1>1, <1>5, <1>6, <1>7

-----------------------------------------------------------------------------
(* An owner gives a mutex up.                                              *)

\* In l, t does not run at a number it has of m alone.
Lowered(k, l, t, m) ==
  /\ Shape(l) /\ Same(k, l) /\ l.waiters = k.waiters /\ l.first = k.first
  /\ \A v \in Threads : v # t => l.prio[v] = k.prio[v]
  /\ \A x \in Mutexes : SoundBut(l, t, x) /\ FirstPriority(l, x) = FirstPriority(k, x)
  /\ \A x \in Mutexes : x # m /\ l.owner[x] = t => l.prio[t] <= l.first[x]

LowersExactly(l, t, m) ==
  /\ l.prio[t] <= InitPriority[t]
  /\ l.prio[t] = InitPriority[t] \/ \E x \in Mutexes : x # m /\ l.owner[x] = t /\ l.prio[t] = l.first[x]

LEMMA LowerKeeps ==
  ASSUME NEW k, KernelInv(k), NEW m \in Mutexes, NEW t \in Threads, k.owner[m] = t,
         k.stat[t] # "suspended", NEW exact \in BOOLEAN, exact => Exact(k)
  PROVE  /\ Lowered(k, LowerPriority(k, t, m), t, m)
         /\ exact => LowersExactly(LowerPriority(k, t, m), t, m)
<1>1. k \in Kernels /\ Shape(k) /\ \A x \in Mutexes : Sound(k, x)
  BY DEF KernelInv, Shape
<1>2. CASE k.prio[t] # k.first[m]
  <2>1. LowerPriority(k, t, m) = k
    BY <1>2 DEF LowerPriority
  <2>2. \A x \in Mutexes : SoundBut(k, t, x)
    BY <1>1 DEF Sound, SoundBut
  <2>3. \A x \in Mutexes : k.owner[x] = t => k.prio[t] <= k.first[x]
    BY <1>1, MutexAssumption DEF Sound
  <2>4. Lowered(k, k, t, m)
    BY <1>1, <2>2, <2>3 DEF Lowered, Same
  <2>5. exact => LowersExactly(k, t, m)
    BY <1>2 DEF LowersExactly, Exact, OwnAt
  <2> QED BY <2>1, <2>4, <2>5
<1>3. CASE k.prio[t] = k.first[m]
  <2> DEFINE T == Taken(k, t) \ {m}
  <2>1. T \in SUBSET Mutexes
    BY DEF Taken
  <2>2. PICK p : p = OwnPriority(k, t, T)
    OBVIOUS
  <2>3. /\ p \in 0 .. NoPriority - 1 /\ p <= InitPriority[t]
        /\ \A x \in T : p <= k.first[x]
        /\ p = InitPriority[t] \/ \E x \in T : p = k.first[x]
    <3> HIDE DEF T
    <3> QED BY <1>1, <2>1, <2>2, OwnPriorityIs
  <2>4. PICK l : l = WithPrio(k, t, p)
    OBVIOUS
  <2>5. LowerPriority(k, t, m) = l
    BY <1>3, <2>2, <2>4, Zenon DEF LowerPriority, WithPrio
  <2>6. /\ l \in Kernels /\ Same(k, l) /\ l.waiters = k.waiters /\ l.first = k.first
        /\ l.prio = [k.prio EXCEPT ![t] = p]
    BY <1>1, <2>3, <2>4, WithPrioValue
  <2>7. l.prio[t] = p /\ \A v \in Threads : v # t => l.prio[v] = k.prio[v]
    BY <1>1, <2>6, KernelParts
  <2>8. /\ Shape(l)
        /\ \A x \in Mutexes : t \notin ToSet(k.waiters[x]) /\ Ordered(k.waiters[x], k.prio) =>
              /\ Ordered(k.waiters[x], l.prio) /\ FirstPriority(l, x) = FirstPriority(k, x)
    BY <1>1, <2>3, <2>4, PrioChanged
  <2>9. \A x \in Mutexes : t \notin ToSet(k.waiters[x])
    BY <1>1 DEF Shape, Waiting
  <2>10. ASSUME NEW x \in Mutexes PROVE SoundBut(l, t, x) /\ FirstPriority(l, x) = FirstPriority(k, x)
    <3>1. /\ Ordered(k.waiters[x], k.prio) /\ k.first[x] <= FirstPriority(k, x)
          /\ k.owner[x] # NoThread => k.prio[k.owner[x]] <= k.first[x]
          /\ k.owner[x] \in Threads \cup {NoThread}
      BY <1>1, KernelParts DEF Sound
    <3>2. Ordered(k.waiters[x], l.prio) /\ FirstPriority(l, x) = FirstPriority(k, x)
      BY <2>8, <2>9, <3>1
    <3>3. l.owner = k.owner
      BY <2>6 DEF Same
    <3>4. l.owner[x] \notin {t, NoThread} => l.prio[l.owner[x]] <= l.first[x]
      BY <2>6, <2>7, <3>1, <3>3
    <3> QED BY <2>6, <3>1, <3>2, <3>4 DEF SoundBut
  <2>11. /\ \A x \in T : x \in Mutexes /\ x # m /\ l.owner[x] = t
         /\ \A x \in Mutexes : x # m /\ l.owner[x] = t => x \in T
    BY <2>6 DEF Taken, Same
  <2> HIDE DEF T
  <2>12. Lowered(k, l, t, m)
    BY <2>3, <2>6, <2>7, <2>8, <2>10, <2>11 DEF Lowered
  <2>13. LowersExactly(l, t, m)
    BY <2>3, <2>6, <2>7, <2>11 DEF LowersExactly
  <2> QED BY <2>5, <2>12, <2>13
<1> QED BY <1>2, <1>3

\* m has gone from t to nobody, or to a thread that waited for it.
Passes(k, j, t, m) ==
  /\ \A x \in Mutexes : x # m => j.owner[x] = k.owner[x]
  /\ \/ j.owner[m] \in {t, NoThread} /\ j.stat = k.stat /\ j.pending = k.pending
     \/ /\ j.owner[m] \in Threads /\ Waiting(k, j.owner[m], m)
        /\ j.stat = [k.stat EXCEPT ![j.owner[m]] = "ready"]
        /\ j.pending = [k.pending EXCEPT ![j.owner[m]] = NoMutex]

\* One release of m is counted, m is freed, or its most urgent waiter has it.
Gives(k, j, m) ==
  \/ /\ k.hold[m] > 1 /\ j.hold[m] = k.hold[m] - 1
     /\ j.owner[m] = k.owner[m] /\ ToSet(j.waiters[m]) = ToSet(k.waiters[m])
  \/ /\ ~(k.hold[m] > 1) /\ ToSet(k.waiters[m]) = {}
     /\ j.owner[m] = NoThread /\ j.hold[m] = 0 /\ ToSet(j.waiters[m]) = {}
  \/ /\ ~(k.hold[m] > 1) /\ j.owner[m] \in ToSet(k.waiters[m]) /\ j.hold[m] = 1
     /\ \A v \in ToSet(k.waiters[m]) : k.prio[j.owner[m]] <= k.prio[v]
     /\ ToSet(j.waiters[m]) = ToSet(k.waiters[m]) \ {j.owner[m]}
Keeps(k, j, m) == /\ j.owner[m] = k.owner[m] /\ j.hold[m] = k.hold[m]
                  /\ ToSet(j.waiters[m]) = ToSet(k.waiters[m])
GivesOne(k, j, t, m) ==
  /\ Gives(k, j, m) /\ \A x \in Mutexes : x # m => Keeps(k, j, x)
  /\ \A v \in Threads : v # t => j.prio[v] = k.prio[v]

Freed(k, m) == [k EXCEPT !.owner[m] = NoThread, !.hold[m] = 0, !.first[m] = NoPriority]

LEMMA FreedKeeps ==
  ASSUME NEW k, NEW l, NEW m \in Mutexes, NEW t \in Threads, k.owner[m] = t, Lowered(k, l, t, m),
         k.waiters[m] = <<>>, NEW exact \in BOOLEAN, exact => Exact(k), exact => LowersExactly(l, t, m),
         ~(k.hold[m] > 1), NEW j, j = Freed(l, m)
  PROVE  KernelInv(j) /\ (exact => Exact(j)) /\ Passes(k, j, t, m) /\ GivesOne(k, j, t, m)
<1>1. /\ l \in Kernels /\ Shape(l) /\ Same(k, l) /\ l.waiters = k.waiters /\ l.first = k.first
      /\ \A v \in Threads : v # t => l.prio[v] = k.prio[v]
      /\ \A x \in Mutexes : SoundBut(l, t, x) /\ FirstPriority(l, x) = FirstPriority(k, x)
      /\ \A x \in Mutexes : x # m /\ l.owner[x] = t => l.prio[t] <= l.first[x]
  BY DEF Lowered, Shape
<1>2. /\ j \in Kernels /\ j.waiters = l.waiters /\ j.stat = l.stat /\ j.prio = l.prio
      /\ j.pending = l.pending
      /\ j.owner = [l.owner EXCEPT ![m] = NoThread] /\ j.first = [l.first EXCEPT ![m] = NoPriority]
      /\ j.hold = [l.hold EXCEPT ![m] = 0]
  <2>1. 0 \in 0 .. MaxHold /\ NoPriority \in 0 .. NoPriority
    BY MutexAssumption DEF NoPriority
  <2> QED BY <1>1, <2>1 DEF Kernels, Freed
<1>3. /\ j.owner[m] = NoThread /\ j.first[m] = NoPriority
      /\ \A x \in Mutexes : x # m => j.owner[x] = l.owner[x] /\ j.first[x] = l.first[x]
  BY <1>1, <1>2, KernelParts
<1>4. \A x \in Mutexes : FirstPriority(j, x) = FirstPriority(l, x)
  BY <1>2 DEF FirstPriority
<1>5. FirstPriority(j, m) = NoPriority
  BY <1>1, <1>2 DEF FirstPriority
<1>6. Shape(j)
  <2>1. \A x \in Mutexes : j.owner[x] \notin ToSet(j.waiters[x])
    BY <1>1, <1>2, <1>3, OnNothing DEF Shape
  <2>2. \A x \in Mutexes : j.owner[x] = NoThread => j.waiters[x] = <<>>
    BY <1>1, <1>2, <1>3 DEF Shape
  <2> QED BY <1>1, <1>2, <2>1, <2>2 DEF Shape, Waiting
<1>7. ASSUME NEW x \in Mutexes PROVE Sound(j, x)
  <2>1. CASE x = m
    BY <1>1, <1>2, <1>3, <1>5, <2>1 DEF Sound, SoundBut, NoPriority
  <2>2. CASE x # m
    BY <1>1, <1>2, <1>3, <1>4, <2>2 DEF Sound, SoundBut
  <2> QED BY <2>1, <2>2
<1>8. ASSUME exact PROVE Exact(j)
  <2>1. \A x \in Mutexes : j.first[x] = FirstPriority(j, x)
    BY <1>1, <1>3, <1>4, <1>5, <1>8 DEF Exact
  <2>2. OwnAt(j, t, j.prio[t])
    <3>1. NoThread # t
      BY MutexAssumption
    <3> QED BY <1>1, <1>2, <1>3, <1>8, <3>1 DEF OwnAt, LowersExactly
  <2>3. ASSUME NEW v \in Threads, v # t PROVE OwnAt(j, v, j.prio[v])
    <3>1. OwnAt(k, v, k.prio[v]) /\ NoThread # v
      BY <1>8, MutexAssumption DEF Exact
    <3>2. \A x \in Mutexes : /\ j.owner[x] = v <=> k.owner[x] = v
                             /\ j.owner[x] = v => j.first[x] = k.first[x]
      BY <1>1, <1>3, <2>3, <3>1 DEF Same
    <3> QED BY <1>1, <1>2, <2>3, <3>1, <3>2 DEF OwnAt
  <2> QED BY <2>1, <2>2, <2>3 DEF Exact
<1>9. Passes(k, j, t, m)
  BY <1>1, <1>2, <1>3 DEF Passes, Same
<1>10. GivesOne(k, j, t, m)
  <2>1. j.hold[m] = 0 /\ \A x \in Mutexes : x # m => j.hold[x] = k.hold[x]
    BY <1>1, <1>2, KernelParts DEF Same
  <2>2. ToSet(k.waiters[m]) = {}
    BY OnNothing
  <2>3. Gives(k, j, m)
    BY <1>1, <1>2, <1>3, <2>1, <2>2 DEF Gives
  <2>4. \A x \in Mutexes : x # m => Keeps(k, j, x)
    BY <1>1, <1>2, <1>3, <2>1 DEF Keeps, Same
  <2> QED BY <1>1, <1>2, <2>3, <2>4 DEF GivesOne
<1> QED BY <1>6, <1>7, <1>8, <1>9, <1>10 DEF KernelInv

LEMMA TailOrdered ==
  ASSUME NEW S, NEW s \in Seq(S), s # <<>>, NEW d, Ordered(s, d)
  PROVE  Ordered(Tail(s), d)
<1>1. /\ Len(s) \in Nat \ {0} /\ Len(Tail(s)) = Len(s) - 1
      /\ \A i \in 1 .. Len(s) - 1 : Tail(s)[i] = s[i + 1]
  OBVIOUS
<1> QED BY <1>1 DEF Ordered

Passed(k, m, u) ==
  [k EXCEPT !.waiters[m] = Tail(@), !.stat[u] = "ready", !.pending[u] = NoMutex,
            !.owner[m] = u, !.hold[m] = 1]

GoneTo(k, j, m, u) ==
  /\ j \in Kernels /\ j.waiters = [k.waiters EXCEPT ![m] = Tail(k.waiters[m])]
  /\ j.stat = [k.stat EXCEPT ![u] = "ready"] /\ j.pending = [k.pending EXCEPT ![u] = NoMutex]
  /\ j.owner = [k.owner EXCEPT ![m] = u] /\ j.first = k.first /\ j.prio = k.prio
  /\ j.hold = [k.hold EXCEPT ![m] = 1]

LEMMA PassedValue ==
  ASSUME NEW k \in Kernels, NEW m \in Mutexes, NEW u \in Threads, k.waiters[m] # <<>>
  PROVE  GoneTo(k, Passed(k, m, u), m, u)
<1>1. Tail(k.waiters[m]) \in Seq(Threads)
  <2>1. k.waiters[m] \in Seq(Threads)
    BY KernelParts
  <2> QED BY <2>1
<1>2. 1 \in 0 .. MaxHold
  BY MutexAssumption
<1> QED BY <1>1, <1>2 DEF Kernels, Lists, Passed, GoneTo

LEMMA PassedKeeps ==
  ASSUME NEW k, NEW l, NEW m \in Mutexes, NEW t \in Threads, k.owner[m] = t, k.stat[t] # "suspended",
         Lowered(k, l, t, m), k.waiters[m] # <<>>, KernelInv(k),
         NEW exact \in BOOLEAN, exact => Exact(k), exact => LowersExactly(l, t, m),
         ~(k.hold[m] > 1), NEW i, i = HandOver(l, m)
  PROVE  KernelInv(i) /\ (exact => Exact(i)) /\ Passes(k, i, t, m) /\ GivesOne(k, i, t, m)
<1>1. PICK u : u = Head(l.waiters[m])
  OBVIOUS
<1>2. PICK j : j = Passed(l, m, u)
  OBVIOUS
<1>3. /\ l \in Kernels /\ Shape(l) /\ Same(k, l) /\ l.waiters = k.waiters /\ l.first = k.first
      /\ \A v \in Threads : v # t => l.prio[v] = k.prio[v]
      /\ \A x \in Mutexes : SoundBut(l, t, x) /\ FirstPriority(l, x) = FirstPriority(k, x)
      /\ \A x \in Mutexes : x # m /\ l.owner[x] = t => l.prio[t] <= l.first[x]
  BY DEF Lowered, Shape
<1>4. /\ l.waiters[m] \in Seq(Threads) /\ IsInjective(l.waiters[m]) /\ l.waiters[m] # <<>>
      /\ Ordered(l.waiters[m], l.prio)
  BY <1>3, KernelParts DEF Shape, SoundBut
<1>5. i = WithFirst(j, m, FirstPriority(j, m))
  BY <1>4, <1>1, <1>2, Zenon DEF HandOver, Passed, WithFirst
<1>6. /\ Tail(l.waiters[m]) \in Seq(Threads) /\ IsInjective(Tail(l.waiters[m]))
      /\ u \in Threads /\ u \in ToSet(l.waiters[m])
      /\ ToSet(Tail(l.waiters[m])) = ToSet(l.waiters[m]) \ {u}
      /\ Ordered(Tail(l.waiters[m]), l.prio)
  BY <1>4, <1>1, OnTail, TailOrdered
<1>7. Waiting(k, u, m) /\ u # t
  BY <1>3, <1>6 DEF Shape, Waiting, Same
<1>8. /\ j \in Kernels /\ j.waiters = [l.waiters EXCEPT ![m] = Tail(l.waiters[m])]
      /\ j.stat = [l.stat EXCEPT ![u] = "ready"] /\ j.pending = [l.pending EXCEPT ![u] = NoMutex]
      /\ j.owner = [l.owner EXCEPT ![m] = u] /\ j.first = l.first /\ j.prio = l.prio
      /\ j.hold = [l.hold EXCEPT ![m] = 1]
  <2>1. l \in Kernels /\ u \in Threads /\ l.waiters[m] # <<>>
    BY <1>3, <1>4, <1>6
  <2>2. GoneTo(l, j, m, u)
    BY <1>2, <2>1, PassedValue
  <2> QED BY <2>2 DEF GoneTo
<1>9. /\ j.waiters[m] = Tail(l.waiters[m]) /\ j.owner[m] = u
      /\ \A x \in Mutexes : x # m => j.waiters[x] = l.waiters[x] /\ j.owner[x] = l.owner[x]
  BY <1>3, <1>8, KernelParts
<1>10. /\ FirstPriority(l, m) = l.prio[u]
       /\ \A x \in ToSet(l.waiters[m]) : x \in Threads /\ l.prio[u] <= l.prio[x]
  BY <1>3, <1>4, <1>1, FirstPriorityIs
<1>11. /\ FirstPriority(j, m) \in 0 .. NoPriority
       /\ j.waiters[m] = <<>> => FirstPriority(j, m) = NoPriority
       /\ j.waiters[m] # <<>> => /\ Head(j.waiters[m]) \in ToSet(j.waiters[m])
                                 /\ FirstPriority(j, m) = j.prio[Head(j.waiters[m])]
  <2>1. Ordered(j.waiters[m], j.prio)
    BY <1>6, <1>8, <1>9
  <2> QED BY <1>8, <2>1, FirstPriorityIs
<1>12. l.prio[u] \in Int /\ l.prio[u] < NoPriority /\ NoPriority \in Int
  BY <1>3, <1>6, Numbers
<1>13. l.prio[u] <= FirstPriority(j, m)
  <2>1. CASE j.waiters[m] = <<>>
    <3>1. FirstPriority(j, m) = NoPriority
      BY <1>11, <2>1
    <3> QED BY <1>12, <3>1
  <2>2. CASE j.waiters[m] # <<>>
    <3>1. Head(j.waiters[m]) \in ToSet(l.waiters[m])
      BY <1>6, <1>9, <1>11, <2>2
    <3>2. FirstPriority(j, m) = l.prio[Head(j.waiters[m])]
      BY <1>8, <1>11, <2>2
    <3> QED BY <1>10, <3>1, <3>2
  <2> QED BY <2>1, <2>2
<1>14. /\ i \in Kernels /\ Same(j, i) /\ i.waiters = j.waiters /\ i.prio = l.prio
       /\ i.first = [l.first EXCEPT ![m] = FirstPriority(j, m)]
  <2>1. j \in Kernels /\ FirstPriority(j, m) \in 0 .. NoPriority
    BY <1>8, <1>11
  <2>2. /\ i \in Kernels /\ Same(j, i) /\ i.waiters = j.waiters /\ i.prio = j.prio
        /\ i.first = [j.first EXCEPT ![m] = FirstPriority(j, m)]
    BY <1>5, <2>1, WithFirstValue
  <2> QED BY <1>8, <2>2
<1>15. i.first[m] = FirstPriority(j, m) /\ \A x \in Mutexes : x # m => i.first[x] = l.first[x]
  BY <1>3, <1>14, KernelParts
<1>16. /\ \A x \in Mutexes : FirstPriority(i, x) = FirstPriority(j, x)
       /\ \A x \in Mutexes : x # m => FirstPriority(i, x) = FirstPriority(l, x)
  BY <1>8, <1>9, <1>14 DEF FirstPriority
<1>17. Shape(i)
  <2>1. \A x \in Mutexes : IsInjective(i.waiters[x])
    BY <1>3, <1>6, <1>9, <1>14 DEF Shape
  <2>2. i.stat[u] = "ready" /\ \A x \in Threads : x # u => i.stat[x] = l.stat[x] /\ i.pending[x] = l.pending[x]
    BY <1>3, <1>6, <1>8, <1>14, KernelParts DEF Same
  <2>3. \A x \in Threads : \A y \in Mutexes : Waiting(i, x, y) <=> Waiting(l, x, y) /\ x # u
    BY <2>2 DEF Waiting
  <2>4. \A y \in Mutexes : y # m => u \notin ToSet(l.waiters[y])
    BY <1>3, <1>6, <1>7 DEF Shape, Waiting, Same
  <2>5. \A y \in Mutexes : \A x \in Threads : x \in ToSet(i.waiters[y]) <=> x \in ToSet(l.waiters[y]) /\ x # u
    BY <1>6, <1>9, <1>14, <2>4
  <2>6. \A y \in Mutexes : \A x \in Threads : x \in ToSet(i.waiters[y]) <=> Waiting(i, x, y)
    BY <1>3, <2>3, <2>5 DEF Shape
  <2>7. \A x \in Mutexes : i.owner[x] \notin ToSet(i.waiters[x])
    BY <1>3, <1>6, <1>9, <1>14 DEF Shape, Same
  <2>8. \A x \in Mutexes : i.owner[x] = NoThread => i.waiters[x] = <<>>
    BY <1>3, <1>6, <1>9, <1>14, MutexAssumption DEF Shape, Same
  <2> QED BY <1>14, <2>1, <2>6, <2>7, <2>8 DEF Shape
<1>18. ASSUME NEW x \in Mutexes PROVE Sound(i, x)
  <2>1. CASE x = m
    <3>1. Ordered(i.waiters[m], i.prio) /\ i.owner[m] = u
      BY <1>6, <1>9, <1>14 DEF Same
    <3>2. i.first[m] = FirstPriority(i, m) /\ i.first[m] \in Int
      <4>1. i.first[m] = FirstPriority(i, m)
        BY <1>15, <1>16
      <4>2. i \in Kernels
        BY <1>14
      <4> QED BY <4>1, <4>2, Numbers
    <3> QED BY <1>13, <1>14, <1>15, <2>1, <3>1, <3>2 DEF Sound
  <2>2. CASE x # m
    BY <1>3, <1>9, <1>14, <1>15, <1>16, <2>2 DEF Sound, SoundBut, Same
  <2> QED BY <2>1, <2>2
<1>19. ASSUME exact PROVE Exact(i)
  <2>1. \A x \in Mutexes : i.first[x] = FirstPriority(i, x)
    BY <1>3, <1>15, <1>16, <1>19 DEF Exact
  <2>2. i.owner = j.owner
    BY <1>14 DEF Same
  <2>3. OwnAt(i, t, i.prio[t])
    BY <1>3, <1>7, <1>9, <1>14, <1>15, <1>19, <2>2 DEF OwnAt, LowersExactly
  <2>4. ASSUME NEW v \in Threads, v # t PROVE OwnAt(i, v, i.prio[v])
    <3>1. OwnAt(k, v, k.prio[v]) /\ k.prio[v] = i.prio[v]
      BY <1>3, <1>14, <1>19, <2>4 DEF Exact
    <3>2. \A x \in Mutexes : x # m => (i.owner[x] = k.owner[x] /\ i.first[x] = k.first[x])
      BY <1>3, <1>9, <1>15, <2>2 DEF Same
    <3>3. i.owner[m] = v => k.prio[v] <= i.first[m]
      BY <1>9, <1>13, <1>14, <1>15, <2>2, <3>1
    <3> QED BY <2>4, <3>1, <3>2, <3>3 DEF OwnAt
  <2> QED BY <2>1, <2>3, <2>4 DEF Exact
<1>20. Passes(k, i, t, m)
  <2>1. i.owner[m] = u /\ \A x \in Mutexes : x # m => i.owner[x] = k.owner[x]
    BY <1>3, <1>9, <1>14 DEF Same
  <2>2. i.stat = [k.stat EXCEPT ![u] = "ready"] /\ i.pending = [k.pending EXCEPT ![u] = NoMutex]
    BY <1>3, <1>8, <1>14 DEF Same
  <2> QED BY <1>6, <1>7, <2>1, <2>2 DEF Passes
<1>21. GivesOne(k, i, t, m)
  <2>1. i.hold[m] = 1 /\ \A x \in Mutexes : x # m => i.hold[x] = k.hold[x]
    <3>1. i.hold = [l.hold EXCEPT ![m] = 1] /\ l.hold = k.hold
      BY <1>3, <1>8, <1>14 DEF Same
    <3> QED BY <1>3, <3>1, KernelParts
  <2>2. /\ i.owner[m] = u /\ i.waiters[m] = Tail(l.waiters[m])
        /\ \A x \in Mutexes : x # m => i.owner[x] = k.owner[x] /\ i.waiters[x] = k.waiters[x]
    BY <1>3, <1>9, <1>14 DEF Same
  <2>3. \A v \in Threads : v # t => i.prio[v] = k.prio[v]
    BY <1>3, <1>14
  <2>4. \A v \in ToSet(k.waiters[m]) : v \in Threads /\ v # t /\ k.prio[u] <= k.prio[v]
    <3>1. t \notin ToSet(k.waiters[m])
      BY DEF KernelInv, Shape
    <3> QED BY <1>3, <1>6, <1>7, <1>10, <3>1
  <2>5. Gives(k, i, m)
    BY <1>3, <1>6, <2>1, <2>2, <2>4 DEF Gives
  <2>6. \A x \in Mutexes : x # m => Keeps(k, i, x)
    BY <2>1, <2>2 DEF Keeps
  <2> QED BY <2>3, <2>5, <2>6 DEF GivesOne
<1> QED BY <1>17, <1>18, <1>19, <1>20, <1>21 DEF KernelInv

HeldLess(k, m) == [k EXCEPT !.hold[m] = @ - 1]

LEMMA ReleasedKeeps ==
  ASSUME NEW k, KernelInv(k), NEW m \in Mutexes, NEW t \in Threads, k.owner[m] = t,
         k.stat[t] # "suspended", NEW exact \in BOOLEAN, exact => Exact(k),
         NEW j, j = Released(k, m)
  PROVE  KernelInv(j) /\ (exact => Exact(j)) /\ Passes(k, j, t, m) /\ GivesOne(k, j, t, m)
<1>1. k \in Kernels /\ k.hold[m] \in 0 .. MaxHold
  BY KernelParts DEF KernelInv, Shape
<1>2. CASE k.hold[m] > 1
  <2>1. j = HeldLess(k, m)
    BY <1>2, Zenon DEF Released, HeldLess
  <2>2. k.hold[m] - 1 \in 0 .. MaxHold
    BY <1>1, <1>2, MutexAssumption
  <2>3. /\ j \in Kernels /\ j.owner = k.owner /\ j.first = k.first /\ j.waiters = k.waiters
        /\ j.prio = k.prio /\ j.stat = k.stat /\ j.pending = k.pending
    BY <1>1, <2>1, <2>2 DEF HeldLess, Kernels
  <2>4. \A x \in Threads : \A y \in Mutexes : Waiting(j, x, y) <=> Waiting(k, x, y)
    BY <2>3 DEF Waiting
  <2>5. KernelInv(j) /\ (Exact(k) => Exact(j))
    BY <2>3, <2>4, Alike
  <2>6. GivesOne(k, j, t, m)
    <3>1. j.hold = [k.hold EXCEPT ![m] = k.hold[m] - 1]
      BY <1>1, <2>1 DEF HeldLess, Kernels
    <3>2. j.hold[m] = k.hold[m] - 1 /\ \A x \in Mutexes : x # m => j.hold[x] = k.hold[x]
      BY <1>1, <3>1, KernelParts
    <3> QED BY <1>2, <2>3, <3>2 DEF GivesOne, Gives, Keeps
  <2> QED BY <2>3, <2>5, <2>6 DEF Passes
<1>3. CASE ~(k.hold[m] > 1)
  <2>1. PICK l : l = LowerPriority(k, t, m)
    OBVIOUS
  <2>2. Lowered(k, l, t, m) /\ (exact => LowersExactly(l, t, m))
    BY <2>1, LowerKeeps
  <2>3. j = HandOver(l, m)
    BY <1>3, <2>1, Zenon DEF Released
  <2>4. l.waiters = k.waiters
    BY <2>2 DEF Lowered
  <2>5. CASE k.waiters[m] = <<>>
    <3>1. j = Freed(l, m)
      BY <2>3, <2>4, <2>5, Zenon DEF HandOver, Freed
    <3> QED BY <1>3, <2>2, <2>5, <3>1, FreedKeeps
  <2>6. CASE k.waiters[m] # <<>>
    BY <1>3, <2>2, <2>3, <2>6, PassedKeeps
  <2> QED BY <2>5, <2>6
<1> QED BY <1>2, <1>3

-----------------------------------------------------------------------------
(* What an owner that releases one mutex after the other leaves.           *)

\* Some of the mutexes of u have been passed on, each to one that waited.
Served(k, j, v, u) ==
  \E m \in Mutexes : /\ Waiting(k, v, m) /\ k.owner[m] = u /\ j.owner[m] = v
                     /\ j.stat[v] = "ready" /\ j.pending[v] = NoMutex
Handed(k, j, u) ==
  /\ \A v \in Threads : (j.stat[v] = k.stat[v] /\ j.pending[v] = k.pending[v]) \/ Served(k, j, v, u)
  /\ \A m \in Mutexes : \/ j.owner[m] = k.owner[m]
                        \/ k.owner[m] = u /\ j.owner[m] = NoThread
                        \/ k.owner[m] = u /\ j.owner[m] \in Threads /\ Waiting(k, j.owner[m], m)

LEMMA HandedOn ==
  ASSUME NEW k \in Kernels, NEW j \in Kernels, NEW u \in Threads, k.stat[u] # "suspended",
         Handed(k, j, u), NEW x \in Mutexes, j.owner[x] = u, NEW i, Passes(j, i, u, x)
  PROVE  Handed(k, i, u)
<1>1. \A y \in Mutexes : y # x => i.owner[y] = j.owner[y]
  BY DEF Passes
<1>2. k.owner[x] = u
  <2>1. ~Waiting(k, u, x) /\ u # NoThread
    BY MutexAssumption DEF Waiting
  <2> QED BY <2>1 DEF Handed
<1>3. ASSUME NEW v \in Threads, Served(k, j, v, u), i.stat[v] = j.stat[v], i.pending[v] = j.pending[v]
      PROVE  Served(k, i, v, u)
  <2>1. PICK m \in Mutexes : /\ Waiting(k, v, m) /\ k.owner[m] = u /\ j.owner[m] = v
                             /\ j.stat[v] = "ready" /\ j.pending[v] = NoMutex
    BY <1>3 DEF Served
  <2>2. m # x
    BY <2>1 DEF Waiting
  <2> QED BY <1>1, <1>3, <2>1, <2>2 DEF Served
<1>4. CASE i.owner[x] \in {u, NoThread} /\ i.stat = j.stat /\ i.pending = j.pending
  <2>1. \A v \in Threads : (i.stat[v] = k.stat[v] /\ i.pending[v] = k.pending[v]) \/ Served(k, i, v, u)
    BY <1>3, <1>4 DEF Handed
  <2>2. ASSUME NEW m \in Mutexes
        PROVE  \/ i.owner[m] = k.owner[m]
               \/ k.owner[m] = u /\ i.owner[m] = NoThread
               \/ k.owner[m] = u /\ i.owner[m] \in Threads /\ Waiting(k, i.owner[m], m)
    <3>1. CASE m = x
      BY <1>2, <1>4, <3>1
    <3>2. CASE m # x
      BY <1>1, <3>2 DEF Handed
    <3> QED BY <3>1, <3>2
  <2> QED BY <2>1, <2>2 DEF Handed
<1>5. ASSUME NEW w \in Threads, i.owner[x] = w, Waiting(j, w, x),
             i.stat = [j.stat EXCEPT ![w] = "ready"], i.pending = [j.pending EXCEPT ![w] = NoMutex]
      PROVE  Handed(k, i, u)
  <2>1. /\ i.stat[w] = "ready" /\ i.pending[w] = NoMutex
        /\ \A v \in Threads : v # w => i.stat[v] = j.stat[v] /\ i.pending[v] = j.pending[v]
    BY <1>5, KernelParts
  <2>2. Waiting(k, w, x)
    <3>1. ~Served(k, j, w, u)
      BY <1>5 DEF Served, Waiting
    <3> QED BY <1>5, <3>1 DEF Handed, Waiting
  <2>3. Served(k, i, w, u)
    BY <1>2, <1>5, <2>1, <2>2 DEF Served
  <2>4. ASSUME NEW v \in Threads
        PROVE  (i.stat[v] = k.stat[v] /\ i.pending[v] = k.pending[v]) \/ Served(k, i, v, u)
    <3>1. CASE v = w
      BY <2>3, <3>1
    <3>2. CASE v # w
      BY <1>3, <2>1, <3>2 DEF Handed
    <3> QED BY <3>1, <3>2
  <2>5. ASSUME NEW m \in Mutexes
        PROVE  \/ i.owner[m] = k.owner[m]
               \/ k.owner[m] = u /\ i.owner[m] = NoThread
               \/ k.owner[m] = u /\ i.owner[m] \in Threads /\ Waiting(k, i.owner[m], m)
    <3>1. CASE m = x
      BY <1>2, <1>5, <2>2, <3>1
    <3>2. CASE m # x
      BY <1>1, <3>2 DEF Handed
    <3> QED BY <3>1, <3>2
  <2> QED BY <2>4, <2>5 DEF Handed
<1> QED BY <1>4, <1>5 DEF Passes

LEMMA NothingHanded == ASSUME NEW k, NEW u PROVE Handed(k, k, u)
BY DEF Handed

-----------------------------------------------------------------------------
GivesAll(k, j, u, s) ==
  /\ \A x \in s : Gives(k, j, x)
  /\ \A x \in Mutexes \ s : Keeps(k, j, x)
  /\ \A v \in Threads : v # u => j.prio[v] = k.prio[v]

LEMMA GivesOneMore ==
  ASSUME NEW k, NEW u \in Threads, NEW s \in SUBSET Mutexes, NEW x \in s,
         NEW j, Shape(j), j.stat[u] # "suspended", GivesAll(k, j, u, s \ {x}),
         NEW i, GivesOne(j, i, u, x)
  PROVE  GivesAll(k, i, u, s)
<1>1. x \in Mutexes \ (s \ {x})
  OBVIOUS
<1>2. Keeps(k, j, x) /\ Gives(j, i, x)
  BY <1>1 DEF GivesAll, GivesOne
<1>3. \A v \in ToSet(k.waiters[x]) : j.prio[v] = k.prio[v]
  <2>1. u \notin ToSet(j.waiters[x]) /\ \A v \in ToSet(j.waiters[x]) : v \in Threads
    <3>1. j.waiters[x] \in Seq(Threads)
      BY <1>1, KernelParts DEF Shape
    <3>2. \A v \in ToSet(j.waiters[x]) : v \in Threads
      BY <3>1 DEF ToSet
    <3> QED BY <1>1, <3>2 DEF Shape, Waiting
  <2> QED BY <1>2, <2>1 DEF GivesAll, Keeps
<1>4. Gives(k, i, x)
  BY <1>2, <1>3 DEF Gives, Keeps
<1>5. ASSUME NEW y \in s, y # x PROVE Gives(k, i, y)
  <2>1. Gives(k, j, y) /\ Keeps(j, i, y)
    BY <1>5 DEF GivesAll, GivesOne
  <2> QED BY <2>1 DEF Gives, Keeps
<1>6. ASSUME NEW y \in Mutexes \ s PROVE Keeps(k, i, y)
  BY <1>6 DEF GivesAll, GivesOne, Keeps
<1>7. \A v \in Threads : v # u => i.prio[v] = k.prio[v]
  BY DEF GivesAll, GivesOne
<1> QED BY <1>4, <1>5, <1>6, <1>7 DEF GivesAll

\* The mutexes of s released, in whatever order
Done(k, j, u, s, exact) ==
  /\ KernelInv(j) /\ (exact => Exact(j)) /\ Handed(k, j, u) /\ GivesAll(k, j, u, s)

LEMMA OneMoreDone ==
  ASSUME NEW k \in Kernels, NEW u \in Threads, k.stat[u] # "suspended", NEW exact \in BOOLEAN,
         NEW s \in SUBSET Taken(k, u), NEW x \in s, NEW j, Done(k, j, u, s \ {x}, exact)
  PROVE  /\ j.owner[x] = u /\ j.stat[u] # "suspended" /\ KernelInv(j)
         /\ Done(k, Released(j, x), u, s, exact)
<1>1. x \in Mutexes /\ Taken(k, u) \in SUBSET Mutexes
  BY DEF Taken
<1>2. /\ KernelInv(j) /\ (exact => Exact(j)) /\ Handed(k, j, u) /\ GivesAll(k, j, u, s \ {x})
      /\ j.owner[x] = u
  <2>1. k.owner[x] = u /\ x \in Mutexes \ (s \ {x})
    BY <1>1 DEF Taken
  <2> QED BY <2>1 DEF Done, GivesAll, Keeps
<1>3. j.stat[u] # "suspended"
  BY <1>2 DEF Handed, Served, Waiting
<1>4. PICK i : i = Released(j, x)
  OBVIOUS
<1>5. KernelInv(i) /\ (exact => Exact(i)) /\ Passes(j, i, u, x) /\ GivesOne(j, i, u, x)
  BY <1>1, <1>2, <1>3, <1>4, ReleasedKeeps
<1>6. Handed(k, i, u)
  BY <1>1, <1>2, <1>5, HandedOn DEF KernelInv, Shape
<1>7. GivesAll(k, i, u, s)
  BY <1>1, <1>2, <1>3, <1>5, GivesOneMore DEF KernelInv
<1> QED BY <1>2, <1>3, <1>4, <1>5, <1>6, <1>7 DEF Done

\* The fold as the function of sets it stands for
ReleaseRun(it, k, T) ==
  it = [s \in SUBSET T |->
          IF s = {} THEN k
          ELSE Released(it[s \ {CHOOSE x \in s : TRUE}], CHOOSE x \in s : TRUE)]

LEMMA ReleaseIsRun ==
  ASSUME NEW k, NEW u, \E it : ReleaseRun(it, k, Taken(k, u))
  PROVE  \E it : ReleaseRun(it, k, Taken(k, u)) /\ ReleaseTaken(k, u, u) = it[Taken(k, u)]
BY Zenon DEF ReleaseTaken, FoldSet, MapThenFoldSet, ReleaseRun

\* Whatever releases the mutexes while their owner can, releases them all.
LEMMA RunReleases ==
  ASSUME NEW k, KernelInv(k), NEW u \in Threads, k.stat[u] # "suspended",
         NEW exact \in BOOLEAN, exact => Exact(k),
         NEW it, it[{}] = k, NEW ch, Chooses(ch, Taken(k, u)),
         \A s \in SUBSET Taken(k, u) : s # {} /\ Done(k, it[s \ {ch[s]}], u, s \ {ch[s]}, exact)
            => it[s] = Released(it[s \ {ch[s]}], ch[s])
  PROVE  \A s \in SUBSET Taken(k, u) : Done(k, it[s], u, s, exact)
<1> DEFINE T == Taken(k, u)
           G == {s \in SUBSET T : Done(k, it[s], u, s, exact)}
<1>1. T \in SUBSET Mutexes /\ IsFiniteSet(T) /\ k \in Kernels
  <2>1. T \in SUBSET Mutexes
    BY DEF Taken
  <2> QED BY <2>1, MutexAssumption, FS_Subset DEF KernelInv, Shape
<1>2. {} \in G
  <2>1. Done(k, k, u, {}, exact)
    BY NothingHanded DEF Done, GivesAll, Keeps
  <2> QED BY <2>1
<1>3. ASSUME NEW s \in SUBSET T, s # {}, \A x \in s : s \ {x} \in G PROVE s \in G
  <2>1. PICK x \in s : x = ch[s]
    BY <1>3 DEF Chooses
  <2>2. Done(k, it[s \ {x}], u, s \ {x}, exact)
    BY <1>3, <2>1
  <2>3. it[s] = Released(it[s \ {x}], x)
    BY <1>3, <2>1, <2>2
  <2>4. PICK j : j = it[s \ {x}]
    OBVIOUS
  <2>5. Done(k, Released(j, x), u, s, exact)
    BY <1>1, <2>2, <2>4, OneMoreDone
  <2> QED BY <2>3, <2>4, <2>5
<1>4. G \in SUBSET (SUBSET T)
  OBVIOUS
<1> HIDE DEF G
<1>5. G = SUBSET T
  BY <1>1, <1>2, <1>3, <1>4, SetInduction
<1> QED BY <1>5 DEF G

LEMMA ReleaseRunExists ==
  ASSUME NEW k, KernelInv(k), NEW u \in Threads, k.stat[u] # "suspended",
         NEW exact \in BOOLEAN, exact => Exact(k)
  PROVE  \E it : ReleaseRun(it, k, Taken(k, u))
<1> DEFINE T == Taken(k, u)
           K == {j \in Kernels : KernelInv(j)}
           Can(j, x) == j.owner[x] = u /\ j.stat[u] # "suspended"
           G(x) == [j \in K |-> IF Can(j, x) THEN Released(j, x) ELSE j]
           F == [x \in T |-> G(x)]
           ch == [s \in SUBSET T |-> CHOOSE x \in s : TRUE]
<1>1. T \in SUBSET Mutexes /\ IsFiniteSet(T) /\ k \in K
  <2>1. T \in SUBSET Mutexes
    BY DEF Taken
  <2> QED BY <2>1, MutexAssumption, FS_Subset DEF KernelInv, Shape
<1>2. ASSUME NEW x \in T, NEW j \in K PROVE (IF Can(j, x) THEN Released(j, x) ELSE j) \in K
  <2>1. CASE Can(j, x)
    <3>1. PICK i : i = Released(j, x)
      OBVIOUS
    <3>2. x \in Mutexes /\ KernelInv(j) /\ j.owner[x] = u /\ j.stat[u] # "suspended"
      BY <1>1, <2>1
    <3>3. PICK no \in BOOLEAN : ~no
      OBVIOUS
    <3>4. KernelInv(i)
      BY <3>1, <3>2, <3>3, ReleasedKeeps
    <3> QED BY <2>1, <3>1, <3>4 DEF KernelInv, Shape
  <2>2. CASE ~Can(j, x)
    BY <2>2
  <2> QED BY <2>1, <2>2
<1>3. F \in [T -> [K -> K]]
  BY <1>2
<1>4. \A x \in T : \A j \in K : F[x][j] = IF Can(j, x) THEN Released(j, x) ELSE j
  OBVIOUS
<1>5. Chooses(ch, T)
  BY DEF Chooses
<1>6. \A s \in SUBSET T : ch[s] = CHOOSE x \in s : TRUE
  OBVIOUS
<1> HIDE DEF T, K, F, ch, Can
<1>7. PICK it \in [SUBSET T -> K] : Folding(it, T, k, F, ch)
  <2>1. \E it \in [SUBSET T -> K] : Folding(it, T, k, F, ch)
    BY <1>1, <1>3, <1>5, FoldingExists, ZenonT(40)
  <2> QED BY <2>1
<1>8. /\ it[{}] = k
      /\ \A s \in SUBSET T : s # {} => it[s] = F[ch[s]][it[s \ {ch[s]}]]
      /\ it = [s \in SUBSET T |-> it[s]]
  BY <1>7 DEF Folding
<1>9. \A s \in SUBSET T : s # {} => ch[s] \in s /\ it[s \ {ch[s]}] \in K
  BY <1>5, <1>7 DEF Chooses
<1>10. ASSUME NEW s \in SUBSET T, s # {}, Done(k, it[s \ {ch[s]}], u, s \ {ch[s]}, exact)
       PROVE  it[s] = Released(it[s \ {ch[s]}], ch[s])
  <2>1. PICK x \in s : x = ch[s]
    BY <1>9, <1>10
  <2>2. PICK j \in K : j = it[s \ {x}]
    BY <1>9, <1>10, <2>1
  <2>3. Can(j, x)
    <3>1. k \in Kernels /\ s \in SUBSET Taken(k, u)
      BY <1>1 DEF K, T
    <3>2. Done(k, j, u, s \ {x}, exact)
      BY <1>10, <2>1, <2>2
    <3>3. /\ j.owner[x] = u /\ j.stat[u] # "suspended" /\ KernelInv(j)
          /\ Done(k, Released(j, x), u, s, exact)
      BY <3>1, <3>2, OneMoreDone
    <3> QED BY <3>3 DEF Can
  <2>4. it[s] = F[x][j]
    BY <1>8, <1>10, <2>1, <2>2
  <2> QED BY <1>4, <2>1, <2>2, <2>3, <2>4
<1>11. \A s \in SUBSET T : Done(k, it[s], u, s, exact)
  <2>1. Chooses(ch, Taken(k, u)) /\ it[{}] = k
    BY <1>5, <1>8 DEF T
  <2>2. \A s \in SUBSET Taken(k, u) : s # {} /\ Done(k, it[s \ {ch[s]}], u, s \ {ch[s]}, exact)
            => it[s] = Released(it[s \ {ch[s]}], ch[s])
    BY <1>10 DEF T
  <2>3. \A s \in SUBSET Taken(k, u) : Done(k, it[s], u, s, exact)
    BY <2>1, <2>2, RunReleases
  <2> QED BY <2>3 DEF T
<1>12. \A s \in SUBSET T : s # {} => it[s] = Released(it[s \ {ch[s]}], ch[s])
  BY <1>9, <1>10, <1>11
<1>13. it = [s \in SUBSET T |->
               IF s = {} THEN k
               ELSE Released(it[s \ {CHOOSE x \in s : TRUE}], CHOOSE x \in s : TRUE)]
  <2> DEFINE R(s) == IF s = {} THEN k
                     ELSE Released(it[s \ {CHOOSE x \in s : TRUE}], CHOOSE x \in s : TRUE)
  <2>1. ASSUME NEW s \in SUBSET T, s # {} PROVE it[s] = R(s)
    <3>1. ch[s] = CHOOSE x \in s : TRUE
      BY <1>6
    <3>2. it[s] = Released(it[s \ {ch[s]}], ch[s])
      BY <1>12, <2>1
    <3> QED BY <2>1, <3>1, <3>2, Zenon
  <2>2. it[{}] = R({})
    BY <1>8
  <2>3. it = [s \in SUBSET T |-> it[s]]
    BY <1>8
  <2> HIDE DEF R
  <2>4. \A s \in SUBSET T : it[s] = R(s)
    BY <2>1, <2>2
  <2>5. it = [s \in SUBSET T |-> R(s)]
    BY <2>3, <2>4, Zenon
  <2> QED BY <2>5, Zenon DEF R
<1> QED BY <1>13, Zenon DEF ReleaseRun, T

LEMMA ReleaseTakenKeeps ==
  ASSUME NEW k, KernelInv(k), NEW u \in Threads, k.stat[u] # "suspended",
         NEW exact \in BOOLEAN, exact => Exact(k)
  PROVE  /\ KernelInv(ReleaseTaken(k, u, u)) /\ (exact => Exact(ReleaseTaken(k, u, u)))
         /\ Handed(k, ReleaseTaken(k, u, u), u) /\ GivesAll(k, ReleaseTaken(k, u, u), u, Taken(k, u))
<1> DEFINE T == Taken(k, u)
           ch == [s \in SUBSET T |-> CHOOSE x \in s : TRUE]
<1>1. PICK it : ReleaseRun(it, k, T) /\ ReleaseTaken(k, u, u) = it[T]
  <2>1. \E it : ReleaseRun(it, k, T)
    BY ReleaseRunExists
  <2> QED BY <2>1, ReleaseIsRun
<1>2. Chooses(ch, T) /\ \A s \in SUBSET T : ch[s] = CHOOSE x \in s : TRUE
  BY DEF Chooses
<1> HIDE DEF ch
<1>3. it[{}] = k /\ \A s \in SUBSET T : s # {} => it[s] = Released(it[s \ {ch[s]}], ch[s])
  BY <1>1, <1>2 DEF ReleaseRun
<1> HIDE DEF T
<1>4. \A s \in SUBSET T : Done(k, it[s], u, s, exact)
  <2>1. Chooses(ch, Taken(k, u)) /\ it[{}] = k
    BY <1>2, <1>3 DEF T
  <2>2. \A s \in SUBSET Taken(k, u) : s # {} /\ Done(k, it[s \ {ch[s]}], u, s \ {ch[s]}, exact)
            => it[s] = Released(it[s \ {ch[s]}], ch[s])
    BY <1>3 DEF T
  <2>3. \A s \in SUBSET Taken(k, u) : Done(k, it[s], u, s, exact)
    BY <2>1, <2>2, RunReleases
  <2> QED BY <2>3 DEF T
<1>5. Done(k, it[T], u, T, exact)
  BY <1>4
<1> QED BY <1>1, <1>5 DEF Done, T

-----------------------------------------------------------------------------
(* The whole state: besides the kernel's lists, which mutex each thread is *)
(* in a take of (tk), the last error of each (er), who waits for a limited *)
(* time (tim), and whether a wait has timed out before (past).             *)

TakerOK(k, tk, er, tim, t) ==
  /\ tk[t] = NoMutex => k.pending[t] = NoMutex
  /\ k.stat[t] = "suspended" => tk[t] = k.pending[t] /\ (tk[t] # NoMutex => er[t] = "ok")
  /\ k.stat[t] = "closed" => tk[t] = NoMutex
  /\ k.stat[t] = "ready" /\ tk[t] # NoMutex =>
       IF er[t] = "ok" THEN k.owner[tk[t]] = t /\ k.pending[t] = NoMutex
       ELSE k.owner[tk[t]] # t /\ k.pending[t] = tk[t]
  /\ t \in tim => k.stat[t] = "suspended" /\ tk[t] # NoMutex

StateOK(k, tk, er, tim, past) ==
  /\ KernelInv(k)
  /\ tk \in [Threads -> Mutexes \cup {NoMutex}] /\ er \in [Threads -> {"ok", "timeout"}]
  /\ tim \in SUBSET Threads /\ past \in BOOLEAN
  /\ \A t \in Threads : TakerOK(k, tk, er, tim, t)
  /\ ~past => Exact(k) /\ \A t \in Threads : er[t] = "ok"

MutexInv == StateOK(Kernel, taking, error, timer, timed_out)

\* Nothing has changed that v's own take looks at.
Undisturbed(k, j, tk, v) ==
  /\ j.stat[v] = k.stat[v] /\ j.pending[v] = k.pending[v]
  /\ \A m \in Mutexes : m = tk[v] => (j.owner[m] = v <=> k.owner[m] = v)

LEMMA StillOK ==
  ASSUME NEW k, NEW j, NEW v \in Threads, NEW tk \in [Threads -> Mutexes \cup {NoMutex}], NEW er, NEW tim,
         NEW td, NEW ed, NEW timd, TakerOK(k, tk, er, tim, v), Undisturbed(k, j, tk, v),
         td[v] = tk[v], ed[v] = er[v], v \in timd => v \in tim
  PROVE  TakerOK(j, td, ed, timd, v)
<1>1. tk[v] \in Mutexes \cup {NoMutex}
  OBVIOUS
<1>2. /\ j.stat[v] = k.stat[v] /\ j.pending[v] = k.pending[v]
      /\ tk[v] # NoMutex => (j.owner[tk[v]] = v <=> k.owner[tk[v]] = v)
  BY <1>1 DEF Undisturbed
<1> QED BY <1>2 DEF TakerOK

\* t calls, and takes the free mutex m.
Grabbed(k, t, m) == [k EXCEPT !.owner[m] = t, !.hold[m] = 1, !.first[m] = NoPriority]

LEMMA GrabKeeps ==
  ASSUME NEW k, KernelInv(k), NEW t \in Threads, NEW m \in Mutexes, k.owner[m] = NoThread,
         NEW j, j = Grabbed(k, t, m)
  PROVE  /\ KernelInv(j) /\ (Exact(k) => Exact(j))
         /\ j.owner = [k.owner EXCEPT ![m] = t] /\ j.stat = k.stat /\ j.pending = k.pending
<1>1. k \in Kernels /\ Shape(k) /\ \A x \in Mutexes : Sound(k, x)
  BY DEF KernelInv, Shape
<1>2. /\ j \in Kernels /\ j.waiters = k.waiters /\ j.stat = k.stat /\ j.prio = k.prio
      /\ j.pending = k.pending
      /\ j.owner = [k.owner EXCEPT ![m] = t] /\ j.first = [k.first EXCEPT ![m] = NoPriority]
  <2>1. 1 \in 0 .. MaxHold /\ NoPriority \in 0 .. NoPriority
    BY MutexAssumption DEF NoPriority
  <2> QED BY <1>1, <2>1 DEF Kernels, Grabbed
<1>3. /\ j.owner[m] = t /\ j.first[m] = NoPriority
      /\ \A x \in Mutexes : x # m => j.owner[x] = k.owner[x] /\ j.first[x] = k.first[x]
  BY <1>1, <1>2, KernelParts
<1>4. k.waiters[m] = <<>> /\ \A x \in Mutexes : FirstPriority(j, x) = FirstPriority(k, x)
  BY <1>1, <1>2 DEF FirstPriority, Shape
<1>5. FirstPriority(j, m) = NoPriority /\ NoPriority \in Int
  BY <1>2, <1>4 DEF FirstPriority, NoPriority
<1>6. Shape(j)
  <2>1. \A x \in Mutexes : j.owner[x] \notin ToSet(j.waiters[x])
    BY <1>1, <1>2, <1>3, <1>4, OnNothing DEF Shape
  <2>2. \A x \in Mutexes : j.owner[x] = NoThread => j.waiters[x] = <<>>
    BY <1>1, <1>2, <1>3, <1>4 DEF Shape
  <2> QED BY <1>1, <1>2, <2>1, <2>2 DEF Shape, Waiting
<1>7. \A v \in Threads : k.prio[v] \in Int /\ k.prio[v] <= NoPriority
  BY <1>1, <1>5, Numbers
<1>8. ASSUME NEW x \in Mutexes PROVE Sound(j, x)
  <2>1. CASE x = m
    <3>1. j.first[m] <= FirstPriority(j, m)
      BY <1>3, <1>5
    <3>2. j.prio[j.owner[m]] <= j.first[m]
      BY <1>2, <1>3, <1>7
    <3> QED BY <1>1, <1>2, <2>1, <3>1, <3>2 DEF Sound
  <2>2. CASE x # m
    BY <1>1, <1>2, <1>3, <1>4, <2>2 DEF Sound
  <2> QED BY <2>1, <2>2
<1>9. ASSUME Exact(k) PROVE Exact(j)
  <2>1. \A x \in Mutexes : j.first[x] = FirstPriority(j, x)
    BY <1>3, <1>4, <1>5, <1>9 DEF Exact
  <2>2. ASSUME NEW v \in Threads PROVE OwnAt(j, v, j.prio[v])
    <3>1. OwnAt(k, v, k.prio[v]) /\ NoThread # v
      BY <1>9, MutexAssumption DEF Exact
    <3>2. \A x \in Mutexes : j.owner[x] = v => k.prio[v] <= j.first[x]
      BY <1>3, <1>7, <3>1 DEF OwnAt
    <3>3. \A x \in Mutexes : k.owner[x] = v => j.owner[x] = v /\ j.first[x] = k.first[x]
      BY <1>3, <3>1
    <3> QED BY <1>2, <3>1, <3>2, <3>3 DEF OwnAt
  <2> QED BY <2>1, <2>2 DEF Exact
<1> QED BY <1>2, <1>6, <1>8, <1>9 DEF KernelInv

-----------------------------------------------------------------------------
(* One lemma for each kind of step.                                        *)

LEMMA CountOK ==
  ASSUME NEW k, NEW tk, NEW er, NEW tim, NEW past, StateOK(k, tk, er, tim, past),
         NEW t \in Threads, tk[t] = NoMutex, NEW j \in Kernels,
         j.owner = k.owner, j.first = k.first, j.waiters = k.waiters, j.prio = k.prio,
         j.stat = k.stat, j.pending = k.pending
  PROVE  StateOK(j, tk, [er EXCEPT ![t] = "ok"], tim, past)
<1>1. PICK ed : ed = [er EXCEPT ![t] = "ok"]
  OBVIOUS
<1>2. /\ ed \in [Threads -> {"ok", "timeout"}] /\ ed[t] = "ok"
      /\ \A v \in Threads : v # t => ed[v] = er[v]
  BY <1>1 DEF StateOK
<1>3. KernelInv(j) /\ (Exact(k) => Exact(j))
  <2>1. KernelInv(k) /\ \A x \in Threads : \A y \in Mutexes : Waiting(j, x, y) <=> Waiting(k, x, y)
    BY DEF StateOK, Waiting
  <2> QED BY <2>1, Alike
<1>4. ASSUME NEW v \in Threads PROVE TakerOK(j, tk, ed, tim, v)
  <2>1. CASE v = t
    BY <1>2, <2>1 DEF StateOK, TakerOK
  <2>2. CASE v # t
    BY <1>2, <2>2 DEF StateOK, TakerOK
  <2> QED BY <2>1, <2>2
<1>5. ~past => Exact(j) /\ \A v \in Threads : ed[v] = "ok"
  BY <1>2, <1>3 DEF StateOK
<1> QED BY <1>1, <1>2, <1>3, <1>4, <1>5 DEF StateOK

LEMMA GrabOK ==
  ASSUME NEW k, NEW tk, NEW er, NEW tim, NEW past, StateOK(k, tk, er, tim, past),
         NEW t \in Threads, tk[t] = NoMutex, NEW m \in Mutexes, k.owner[m] = NoThread
  PROVE  StateOK(Grabbed(k, t, m), tk, [er EXCEPT ![t] = "ok"], tim, past)
<1>1. PICK ed : ed = [er EXCEPT ![t] = "ok"]
  OBVIOUS
<1>2. /\ ed \in [Threads -> {"ok", "timeout"}] /\ ed[t] = "ok"
      /\ \A v \in Threads : v # t => ed[v] = er[v]
  BY <1>1 DEF StateOK
<1>3. PICK j : j = Grabbed(k, t, m)
  OBVIOUS
<1>4. KernelInv(k) /\ k \in Kernels
  BY DEF StateOK, KernelInv, Shape
<1>5. /\ KernelInv(j) /\ (Exact(k) => Exact(j))
      /\ j.owner = [k.owner EXCEPT ![m] = t] /\ j.stat = k.stat /\ j.pending = k.pending
  BY <1>3, <1>4, GrabKeeps
<1>6. j.owner[m] = t /\ \A x \in Mutexes : x # m => j.owner[x] = k.owner[x]
  BY <1>4, <1>5, KernelParts
<1>7. ASSUME NEW v \in Threads PROVE TakerOK(j, tk, ed, tim, v)
  <2>1. CASE v = t
    BY <1>2, <1>5, <2>1 DEF StateOK, TakerOK
  <2>2. CASE v # t
    <3>1. Undisturbed(k, j, tk, v)
      BY <1>5, <1>6, <2>2, MutexAssumption DEF Undisturbed
    <3>2. TakerOK(k, tk, er, tim, v) /\ tk \in [Threads -> Mutexes \cup {NoMutex}] /\ ed[v] = er[v]
      BY <1>2, <2>2 DEF StateOK
    <3> QED BY <3>1, <3>2, StillOK
  <2> QED BY <2>1, <2>2
<1>8. ~past => Exact(j) /\ \A v \in Threads : ed[v] = "ok"
  BY <1>2, <1>5 DEF StateOK
<1> QED BY <1>1, <1>2, <1>3, <1>5, <1>7, <1>8 DEF StateOK

\* A thread outside a take goes to sleep, wakes up or ends.
LEMMA MoveOK ==
  ASSUME NEW k, NEW tk, NEW er, NEW tim, NEW past, StateOK(k, tk, er, tim, past),
         NEW t \in Threads, tk[t] = NoMutex, NEW s \in Stats
  PROVE  StateOK(WithStat(k, t, s), tk, er, tim, past)
<1>1. PICK j : j = WithStat(k, t, s)
  OBVIOUS
<1>2. KernelInv(k) /\ k \in Kernels
  BY DEF StateOK, KernelInv, Shape
<1>3. /\ j \in Kernels /\ j.stat = [k.stat EXCEPT ![t] = s]
      /\ j.owner = k.owner /\ j.hold = k.hold /\ j.first = k.first /\ j.waiters = k.waiters
      /\ j.prio = k.prio /\ j.pending = k.pending
  BY <1>1, <1>2, WithStatValue
<1>4. j.stat[t] = s /\ \A v \in Threads : v # t => j.stat[v] = k.stat[v]
  BY <1>2, <1>3, KernelParts
<1>5. k.pending[t] = NoMutex /\ t \notin tim
  BY DEF StateOK, TakerOK
<1>6. \A x \in Threads : \A y \in Mutexes : Waiting(j, x, y) <=> Waiting(k, x, y)
  <2>1. ASSUME NEW x \in Threads, NEW y \in Mutexes PROVE Waiting(j, x, y) <=> Waiting(k, x, y)
    <3>1. CASE x = t
      <4>1. NoMutex # y
        BY MutexAssumption
      <4> QED BY <1>3, <1>5, <3>1, <4>1 DEF Waiting
    <3>2. CASE x # t
      BY <1>3, <1>4, <3>2 DEF Waiting
    <3> QED BY <3>1, <3>2
  <2> QED BY <2>1
<1>7. KernelInv(j) /\ (Exact(k) => Exact(j))
  BY <1>2, <1>3, <1>6, Alike
<1>8. ASSUME NEW v \in Threads PROVE TakerOK(j, tk, er, tim, v)
  <2>1. CASE v = t
    BY <1>3, <1>5, <2>1 DEF TakerOK
  <2>2. CASE v # t
    BY <1>3, <1>4, <2>2 DEF StateOK, TakerOK
  <2> QED BY <2>1, <2>2
<1> QED BY <1>1, <1>7, <1>8 DEF StateOK

LEMMA WaitOK ==
  ASSUME NEW k, NEW tk, NEW er, NEW tim, NEW past, StateOK(k, tk, er, tim, past),
         NEW t \in Threads, tk[t] = NoMutex, k.stat[t] = "ready",
         NEW m \in Mutexes, k.owner[m] \notin {t, NoThread},
         NEW timd \in SUBSET Threads, timd \in SUBSET (tim \cup {t})
  PROVE  StateOK(Inherit(Enqueue(AsWaiter(k, t, m), m, t), t, m),
                 [tk EXCEPT ![t] = m], [er EXCEPT ![t] = "ok"], timd, past)
<1>1. PICK ed, td : ed = [er EXCEPT ![t] = "ok"] /\ td = [tk EXCEPT ![t] = m]
  OBVIOUS
<1>2. /\ ed \in [Threads -> {"ok", "timeout"}] /\ ed[t] = "ok"
      /\ td \in [Threads -> Mutexes \cup {NoMutex}] /\ td[t] = m
      /\ \A v \in Threads : v # t => ed[v] = er[v] /\ td[v] = tk[v]
  BY <1>1 DEF StateOK
<1>3. PICK e : e = Enqueue(AsWaiter(k, t, m), m, t)
  OBVIOUS
<1>4. KernelInv(k) /\ k \in Kernels
  BY DEF StateOK, KernelInv, Shape
<1>5. Joins(k, e, t, m)
  BY <1>3, <1>4, EnqueueJoins
<1>6. PICK j : j = Inherit(e, t, m)
  OBVIOUS
<1>7. PICK exact \in BOOLEAN : exact <=> Exact(k)
  OBVIOUS
<1>8. KernelInv(j) /\ Same(e, j) /\ (exact => Exact(j))
  BY <1>4, <1>5, <1>6, <1>7, InheritKeeps
<1>9. /\ j.owner = k.owner /\ j.stat = [k.stat EXCEPT ![t] = "suspended"]
      /\ j.pending = [k.pending EXCEPT ![t] = m]
  BY <1>5, <1>8 DEF Joins, Same
<1>10. /\ j.stat[t] = "suspended" /\ j.pending[t] = m
       /\ \A v \in Threads : v # t => j.stat[v] = k.stat[v] /\ j.pending[v] = k.pending[v]
  BY <1>4, <1>9, KernelParts
<1>11. ASSUME NEW v \in Threads PROVE TakerOK(j, td, ed, timd, v)
  <2>1. CASE v = t
    BY <1>2, <1>10, <2>1, MutexAssumption DEF TakerOK
  <2>2. CASE v # t
    <3>1. Undisturbed(k, j, tk, v)
      BY <1>9, <1>10, <2>2 DEF Undisturbed
    <3>2. /\ TakerOK(k, tk, er, tim, v) /\ tk \in [Threads -> Mutexes \cup {NoMutex}]
          /\ ed[v] = er[v] /\ td[v] = tk[v] /\ (v \in timd => v \in tim)
      BY <1>2, <2>2 DEF StateOK
    <3> QED BY <3>1, <3>2, StillOK
  <2> QED BY <2>1, <2>2
<1>12. ~past => Exact(j) /\ \A v \in Threads : ed[v] = "ok"
  BY <1>2, <1>7, <1>8 DEF StateOK
<1> QED BY <1>1, <1>2, <1>3, <1>6, <1>8, <1>11, <1>12 DEF StateOK

LEMMA ReturnOK ==
  ASSUME NEW k, NEW tk, NEW er, NEW tim, NEW past, StateOK(k, tk, er, tim, past),
         NEW t \in Threads, tk[t] # NoMutex, k.stat[t] = "ready",
         NEW j, j = IF er[t] = "ok" THEN k ELSE Forgets(k, t, tk[t])
  PROVE  StateOK(j, [tk EXCEPT ![t] = NoMutex], er, tim, past)
<1>1. PICK td : td = [tk EXCEPT ![t] = NoMutex]
  OBVIOUS
<1>2. /\ td \in [Threads -> Mutexes \cup {NoMutex}] /\ td[t] = NoMutex
      /\ \A v \in Threads : v # t => td[v] = tk[v]
  BY <1>1 DEF StateOK
<1>3. /\ KernelInv(k) /\ k \in Kernels /\ tk[t] \in Mutexes
      /\ tk \in [Threads -> Mutexes \cup {NoMutex}]
  BY DEF StateOK, KernelInv, Shape
<1>4. /\ KernelInv(j) /\ (~past => Exact(j))
      /\ j.owner = k.owner /\ j.stat = k.stat
      /\ j.pending[t] = NoMutex /\ \A v \in Threads : v # t => j.pending[v] = k.pending[v]
  <2>1. CASE er[t] = "ok"
    <3>1. j = k
      BY <2>1
    <3>2. k.pending[t] = NoMutex
      BY <2>1 DEF StateOK, TakerOK
    <3> QED BY <1>3, <3>1, <3>2 DEF StateOK
  <2>2. CASE er[t] # "ok"
    <3>1. past
      BY <2>2 DEF StateOK
    <3>2. j = Forgets(k, t, tk[t])
      BY <2>2
    <3>3. PICK no \in BOOLEAN : ~no
      OBVIOUS
    <3>4. PICK m \in Mutexes : m = tk[t]
      BY <1>3
    <3>5. /\ KernelInv(j) /\ j.owner = k.owner /\ j.stat = k.stat
          /\ j.pending = [k.pending EXCEPT ![t] = NoMutex]
      BY <1>3, <3>2, <3>3, <3>4, ForgetKeeps
    <3> QED BY <1>3, <3>1, <3>5, KernelParts
  <2> QED BY <2>1, <2>2
<1>5. ASSUME NEW v \in Threads PROVE TakerOK(j, td, er, tim, v)
  <2>1. CASE v = t
    BY <1>2, <1>4, <2>1 DEF StateOK, TakerOK
  <2>2. CASE v # t
    <3>1. Undisturbed(k, j, tk, v)
      BY <1>4, <2>2 DEF Undisturbed
    <3>2. TakerOK(k, tk, er, tim, v) /\ td[v] = tk[v]
      BY <1>2, <2>2 DEF StateOK
    <3> QED BY <1>3, <3>1, <3>2, StillOK
  <2> QED BY <2>1, <2>2
<1> QED BY <1>1, <1>2, <1>4, <1>5 DEF StateOK

LEMMA TimeoutOK ==
  ASSUME NEW k, NEW tk, NEW er, NEW tim, NEW past, StateOK(k, tk, er, tim, past), NEW t \in tim
  PROVE  StateOK(Leaves(k, t, "ready"), tk, [er EXCEPT ![t] = "timeout"], tim \ {t}, TRUE)
<1>1. PICK ed : ed = [er EXCEPT ![t] = "timeout"]
  OBVIOUS
<1>2. t \in Threads /\ k.stat[t] = "suspended" /\ tk[t] # NoMutex /\ k.pending[t] = tk[t]
  BY DEF StateOK, TakerOK
<1>3. /\ ed \in [Threads -> {"ok", "timeout"}] /\ ed[t] = "timeout"
      /\ \A v \in Threads : v # t => ed[v] = er[v]
  BY <1>1, <1>2 DEF StateOK
<1>4. /\ KernelInv(k) /\ k \in Kernels /\ tk[t] \in Mutexes
      /\ tk \in [Threads -> Mutexes \cup {NoMutex}]
  BY <1>2 DEF StateOK, KernelInv, Shape
<1>5. PICK j : j = Leaves(k, t, "ready")
  OBVIOUS
<1>6. "ready" \in Awake
  BY DEF Awake
<1>7. /\ KernelInv(j) /\ j.stat = [k.stat EXCEPT ![t] = "ready"]
      /\ j.owner = k.owner /\ j.pending = k.pending
  BY <1>2, <1>4, <1>5, <1>6, LeaveKeeps
<1>8. j.stat[t] = "ready" /\ \A v \in Threads : v # t => j.stat[v] = k.stat[v]
  BY <1>2, <1>4, <1>7, KernelParts
<1>9. k.owner[tk[t]] # t
  <2>1. t \in ToSet(k.waiters[tk[t]])
    BY <1>2, <1>4 DEF KernelInv, Shape, Waiting
  <2> QED BY <1>4, <2>1 DEF KernelInv, Shape
<1>10. ASSUME NEW v \in Threads PROVE TakerOK(j, tk, ed, tim \ {t}, v)
  <2>1. CASE v = t
    BY <1>2, <1>3, <1>7, <1>8, <1>9, <2>1 DEF TakerOK
  <2>2. CASE v # t
    <3>1. Undisturbed(k, j, tk, v)
      BY <1>7, <1>8, <2>2 DEF Undisturbed
    <3>2. TakerOK(k, tk, er, tim, v) /\ ed[v] = er[v] /\ (v \in tim \ {t} => v \in tim)
      BY <1>3, <2>2 DEF StateOK
    <3> QED BY <1>4, <3>1, <3>2, StillOK
  <2> QED BY <2>1, <2>2
<1> QED BY <1>1, <1>3, <1>5, <1>7, <1>10 DEF StateOK

LEMMA HandedOK ==
  ASSUME NEW k, KernelInv(k), NEW u \in Threads, NEW tk \in [Threads -> Mutexes \cup {NoMutex}],
         NEW er, NEW tim, NEW j, tk[u] = NoMutex, Handed(k, j, u),
         NEW v \in Threads, TakerOK(k, tk, er, tim, v)
  PROVE  TakerOK(j, tk, er, tim \ Woken(j), v)
<1>1. CASE Served(k, j, v, u)
  <2>1. PICK m \in Mutexes : /\ Waiting(k, v, m) /\ j.owner[m] = v
                             /\ j.stat[v] = "ready" /\ j.pending[v] = NoMutex
    BY <1>1 DEF Served
  <2>2. tk[v] = m /\ er[v] = "ok"
    BY <2>1, MutexAssumption DEF TakerOK, Waiting
  <2>3. v \notin tim \ Woken(j)
    BY <2>1 DEF Woken
  <2> QED BY <2>1, <2>2, <2>3, MutexAssumption DEF TakerOK
<1>2. CASE ~Served(k, j, v, u)
  <2>1. j.stat[v] = k.stat[v] /\ j.pending[v] = k.pending[v]
    BY <1>2 DEF Handed
  <2>2. ASSUME k.stat[v] = "ready", tk[v] # NoMutex
        PROVE  j.owner[tk[v]] = v <=> k.owner[tk[v]] = v
    <3>1. PICK m \in Mutexes : m = tk[v]
      BY <2>2
    <3>2. v # u /\ v # NoThread /\ ~Waiting(k, v, m)
      BY <2>2, MutexAssumption DEF Waiting
    <3> QED BY <3>1, <3>2 DEF Handed
  <2> QED BY <2>1, <2>2 DEF TakerOK
<1> QED BY <1>1, <1>2

LEMMA ReleaseOK ==
  ASSUME NEW k, NEW tk, NEW er, NEW tim, NEW past, StateOK(k, tk, er, tim, past),
         NEW t \in Threads, tk[t] = NoMutex, k.stat[t] = "ready", NEW m \in Mutexes, k.owner[m] = t,
         NEW j, j = Released(k, m)
  PROVE  StateOK(j, tk, er, tim \ Woken(j), past)
<1>1. KernelInv(k) /\ k \in Kernels /\ tk \in [Threads -> Mutexes \cup {NoMutex}]
  BY DEF StateOK, KernelInv, Shape
<1>2. PICK exact \in BOOLEAN : exact <=> Exact(k)
  OBVIOUS
<1>3. k.stat[t] # "suspended"
  OBVIOUS
<1>4. KernelInv(j) /\ (exact => Exact(j)) /\ Passes(k, j, t, m)
  BY <1>1, <1>2, <1>3, ReleasedKeeps
<1>5. Handed(k, j, t)
  BY <1>1, <1>3, <1>4, NothingHanded, HandedOn
<1>6. \A v \in Threads : TakerOK(j, tk, er, tim \ Woken(j), v)
  BY <1>1, <1>5, HandedOK DEF StateOK
<1> QED BY <1>2, <1>4, <1>6 DEF StateOK

LEMMA DeleteOK ==
  ASSUME NEW k, NEW tk, NEW er, NEW tim, NEW past, StateOK(k, tk, er, tim, past),
         NEW t \in Threads, NEW u \in Threads, NEW j, j = ReleaseTaken(Drop(Close(k, u), u), t, u)
  PROVE  StateOK(j, [tk EXCEPT ![u] = NoMutex], er, tim \ (Woken(j) \cup {u}), past)
<1>1. PICK td : td = [tk EXCEPT ![u] = NoMutex]
  OBVIOUS
<1>2. /\ td \in [Threads -> Mutexes \cup {NoMutex}] /\ td[u] = NoMutex
      /\ \A v \in Threads : v # u => td[v] = tk[v]
  BY <1>1 DEF StateOK
<1>3. KernelInv(k) /\ k \in Kernels /\ tk \in [Threads -> Mutexes \cup {NoMutex}]
  BY DEF StateOK, KernelInv, Shape
<1>4. PICK exact \in BOOLEAN : exact <=> ~past
  BY DEF StateOK
<1>5. PICK c : c = Drop(Close(k, u), u)
  OBVIOUS
<1>6. /\ exact => Exact(k)
      /\ exact => k.pending[u] = NoMutex \/ Waiting(k, u, k.pending[u])
  <2>1. k.stat[u] \in {"ready", "suspended", "closed"}
    BY <1>3, KernelParts
  <2> QED BY <1>4, <2>1 DEF StateOK, TakerOK, Waiting
<1>7. /\ KernelInv(c) /\ (exact => Exact(c)) /\ c.owner = k.owner
      /\ c.stat = [k.stat EXCEPT ![u] = "closed"] /\ c.pending = [k.pending EXCEPT ![u] = NoMutex]
  BY <1>3, <1>5, <1>6, CloseKeeps
<1>8. /\ c.stat[u] = "closed" /\ c.pending[u] = NoMutex
      /\ \A v \in Threads : v # u => c.stat[v] = k.stat[v] /\ c.pending[v] = k.pending[v]
  BY <1>3, <1>7, KernelParts
<1>9. ASSUME NEW v \in Threads PROVE TakerOK(c, td, er, tim \ {u}, v)
  <2>1. CASE v = u
    BY <1>2, <1>8, <2>1 DEF TakerOK
  <2>2. CASE v # u
    <3>1. Undisturbed(k, c, tk, v)
      BY <1>7, <1>8, <2>2 DEF Undisturbed
    <3>2. TakerOK(k, tk, er, tim, v) /\ td[v] = tk[v] /\ (v \in tim \ {u} => v \in tim)
      BY <1>2, <2>2 DEF StateOK
    <3> QED BY <1>3, <3>1, <3>2, StillOK
  <2> QED BY <2>1, <2>2
<1>10. KernelInv(j) /\ (exact => Exact(j)) /\ Handed(c, j, u)
  <2>1. CASE t = u
    <3>1. j = ReleaseTaken(c, u, u) /\ c.stat[u] # "suspended"
      BY <1>5, <1>8, <2>1
    <3>2. /\ KernelInv(ReleaseTaken(c, u, u)) /\ (exact => Exact(ReleaseTaken(c, u, u)))
          /\ Handed(c, ReleaseTaken(c, u, u), u)
      BY <1>7, <3>1, ReleaseTakenKeeps
    <3> QED BY <3>1, <3>2
  <2>2. CASE t # u
    <3>1. j = c
      BY <1>5, <2>2 DEF ReleaseTaken
    <3> QED BY <1>7, <3>1, NothingHanded
  <2> QED BY <2>1, <2>2
<1>11. \A v \in Threads : TakerOK(j, td, er, (tim \ {u}) \ Woken(j), v)
  BY <1>2, <1>7, <1>9, <1>10, HandedOK
<1>12. PICK timd : timd = tim \ (Woken(j) \cup {u}) /\ timd = (tim \ {u}) \ Woken(j)
  OBVIOUS
<1>13. StateOK(j, td, er, timd, past)
  BY <1>2, <1>4, <1>10, <1>11, <1>12 DEF StateOK
<1> QED BY <1>1, <1>12, <1>13

-----------------------------------------------------------------------------
(* Every step of the specification is of one of these kinds.               *)

LEMMA BecomesKernel ==
  ASSUME NEW k \in Kernels, Becomes(k)
  PROVE  Kernel' = k
BY DEF Becomes, Kernel, Kernels

LEMMA InvParts ==
  ASSUME MutexInv
  PROVE  /\ Kernel \in Kernels
         /\ Kernel.owner = owner /\ Kernel.hold = hold /\ Kernel.first = priority
         /\ Kernel.waiters = suspend_thread /\ Kernel.stat = stat
         /\ Kernel.prio = current_priority /\ Kernel.pending = pending_object
         /\ StateOK(Kernel, taking, error, timer, timed_out)
<1>1. Kernel \in Kernels
  BY DEF MutexInv, StateOK, KernelInv, Shape
<1> QED BY <1>1 DEF MutexInv, Kernel

LEMMA InitInv == Init => MutexInv
<1> SUFFICES ASSUME Init PROVE MutexInv
  OBVIOUS
<1>1. PICK k : k = Kernel
  OBVIOUS
<1>2. /\ k.owner = [m \in Mutexes |-> NoThread] /\ k.hold = [m \in Mutexes |-> 0]
      /\ k.first = [m \in Mutexes |-> NoPriority] /\ k.waiters = [m \in Mutexes |-> <<>>]
      /\ k.stat = [t \in Threads |-> "ready"] /\ k.prio = InitPriority
      /\ k.pending = [t \in Threads |-> NoMutex]
  BY <1>1 DEF Init, Kernel
<1>3. k \in Kernels
  <2>1. 0 \in 0 .. MaxHold /\ NoPriority \in 0 .. NoPriority
    BY MutexAssumption DEF NoPriority
  <2> QED BY <1>1, <2>1, MutexAssumption DEF Init, Kernel, Kernels, Lists
<1>4. \A m \in Mutexes : /\ k.owner[m] = NoThread /\ k.waiters[m] = <<>>
                         /\ k.first[m] = NoPriority /\ FirstPriority(k, m) = NoPriority
  BY <1>2 DEF FirstPriority
<1>5. \A t \in Threads : k.prio[t] = InitPriority[t] /\ InitPriority[t] \in Int
  <2>1. \A t \in Threads : InitPriority[t] \in 0 .. NoPriority - 1
    BY MutexAssumption
  <2>2. \A t \in Threads : InitPriority[t] \in Int
    BY <2>1 DEF NoPriority
  <2> QED BY <1>2, <2>2
<1>6. Shape(k)
  BY <1>2, <1>3, <1>4, OnNothing DEF Shape, Waiting
<1>7. \A m \in Mutexes : Sound(k, m)
  <2>1. Ordered(<<>>, k.prio)
    BY DEF Ordered
  <2> QED BY <1>4, <2>1 DEF Sound, NoPriority
<1>8. Exact(k)
  BY <1>4, <1>5, MutexAssumption DEF Exact, OwnAt
<1>9. ASSUME NEW t \in Threads PROVE TakerOK(k, taking, error, timer, t)
  BY <1>2 DEF Init, TakerOK
<1>10. /\ taking \in [Threads -> Mutexes \cup {NoMutex}] /\ error \in [Threads -> {"ok", "timeout"}]
       /\ timer \in SUBSET Threads /\ timed_out \in BOOLEAN /\ \A t \in Threads : error[t] = "ok"
  BY DEF Init
<1>11. StateOK(k, taking, error, timer, timed_out)
  BY <1>6, <1>7, <1>8, <1>9, <1>10 DEF StateOK, KernelInv
<1> QED BY <1>1, <1>11 DEF MutexInv

LEMMA TakeAgainInv ==
  ASSUME MutexInv, NEW t \in Threads, NEW m \in Mutexes, TakeAgain(t, m)
  PROVE  MutexInv'
<1>1. PICK k : k = Kernel
  OBVIOUS
<1>2. PICK j : j = Kernel'
  OBVIOUS
<1>3. /\ k \in Kernels /\ k.hold = hold /\ StateOK(k, taking, error, timer, timed_out)
  BY <1>1, InvParts
<1>4. /\ j.owner = k.owner /\ j.first = k.first /\ j.waiters = k.waiters /\ j.prio = k.prio
      /\ j.stat = k.stat /\ j.pending = k.pending
  BY <1>1, <1>2 DEF TakeAgain, Kernel
<1>5. j \in Kernels
  <2>1. hold[m] \in 0 .. MaxHold
    BY <1>3, KernelParts
  <2>2. hold[m] + 1 \in 0 .. MaxHold
    BY <2>1, MutexAssumption DEF TakeAgain
  <2>3. hold' \in [Mutexes -> 0 .. MaxHold]
    BY <1>3, <2>2, KernelParts DEF TakeAgain
  <2>4. j = [k EXCEPT !.hold = hold']
    BY <1>1, <1>2 DEF TakeAgain, Kernel
  <2> QED BY <1>3, <2>3, <2>4 DEF Kernels
<1>6. StateOK(j, taking, [error EXCEPT ![t] = "ok"], timer, timed_out)
  BY <1>3, <1>4, <1>5, CountOK DEF TakeAgain, InCode
<1> QED BY <1>2, <1>6 DEF MutexInv, TakeAgain

LEMMA TakeFreeInv ==
  ASSUME MutexInv, NEW t \in Threads, NEW m \in Mutexes, TakeFree(t, m)
  PROVE  MutexInv'
<1>1. PICK k : k = Kernel
  OBVIOUS
<1>2. k \in Kernels /\ k.owner = owner /\ StateOK(k, taking, error, timer, timed_out)
  BY <1>1, InvParts
<1>3. StateOK(Grabbed(k, t, m), taking, [error EXCEPT ![t] = "ok"], timer, timed_out)
  BY <1>2, GrabOK DEF TakeFree, InCode
<1>4. Kernel' = Grabbed(k, t, m)
  <2>1. Becomes(Grabbed(k, t, m))
    BY <1>1 DEF TakeFree, Kernel, Grabbed, Becomes
  <2>2. Grabbed(k, t, m) \in Kernels
    BY <1>3 DEF StateOK, KernelInv, Shape
  <2> QED BY <2>1, <2>2, BecomesKernel
<1> QED BY <1>4, <1>3 DEF MutexInv, TakeFree

LEMMA TakeWaitInv ==
  ASSUME MutexInv, NEW t \in Threads, NEW m \in Mutexes, NEW limited \in BOOLEAN,
         TakeWait(t, m, limited)
  PROVE  MutexInv'
<1>1. PICK k : k = Kernel
  OBVIOUS
<1>2. /\ k \in Kernels /\ k.owner = owner /\ k.stat = stat
      /\ StateOK(k, taking, error, timer, timed_out)
  BY <1>1, InvParts
<1>3. PICK j : j = Inherit(Enqueue(AsWaiter(k, t, m), m, t), t, m)
  OBVIOUS
<1>4. Becomes(j)
  BY <1>1, <1>3, Zenon DEF TakeWait, AsWaiter
<1>5. timer' \in SUBSET Threads /\ timer' \in SUBSET (timer \cup {t})
  BY <1>2 DEF TakeWait, StateOK
<1>6. PICK timd : timd = timer'
  OBVIOUS
<1>7. StateOK(j, [taking EXCEPT ![t] = m], [error EXCEPT ![t] = "ok"], timd, timed_out)
  <2>1. /\ taking[t] = NoMutex /\ k.stat[t] = "ready" /\ k.owner[m] \notin {t, NoThread}
        /\ timd \in SUBSET Threads /\ timd \in SUBSET (timer \cup {t})
    BY <1>2, <1>5, <1>6 DEF TakeWait, InCode, Running
  <2> QED BY <1>2, <1>3, <2>1, WaitOK
<1>8. Kernel' = j
  <2>1. j \in Kernels
    BY <1>7 DEF StateOK, KernelInv, Shape
  <2> QED BY <1>4, <2>1, BecomesKernel
<1> QED BY <1>6, <1>7, <1>8 DEF MutexInv, TakeWait

LEMMA TakeReturnsInv ==
  ASSUME MutexInv, NEW t \in Threads, TakeReturns(t)
  PROVE  MutexInv'
<1>1. PICK k : k = Kernel
  OBVIOUS
<1>2. k \in Kernels /\ k.stat = stat /\ StateOK(k, taking, error, timer, timed_out)
  BY <1>1, InvParts
<1>3. PICK j : j = IF error[t] = "ok" THEN k ELSE Forgets(k, t, taking[t])
  OBVIOUS
<1>4. Becomes(j)
  BY <1>1, <1>3, Zenon DEF TakeReturns, Forgets
<1>5. StateOK(j, [taking EXCEPT ![t] = NoMutex], error, timer, timed_out)
  BY <1>2, <1>3, ReturnOK DEF TakeReturns, Running
<1>6. Kernel' = j
  <2>1. j \in Kernels
    BY <1>5 DEF StateOK, KernelInv, Shape
  <2> QED BY <1>4, <2>1, BecomesKernel
<1> QED BY <1>5, <1>6 DEF MutexInv, TakeReturns

LEMMA MoveInv ==
  ASSUME MutexInv, NEW t \in Threads, Sleep(t) \/ Wake(t) \/ Exit(t)
  PROVE  MutexInv'
<1>1. PICK k : k = Kernel
  OBVIOUS
<1>2. k \in Kernels /\ StateOK(k, taking, error, timer, timed_out)
  BY <1>1, InvParts
<1>3. PICK s \in Stats : stat' = [stat EXCEPT ![t] = s]
  BY DEF Sleep, Wake, Exit, Stats
<1>4. Kernel' = WithStat(k, t, s)
  BY <1>1, <1>3 DEF Sleep, Wake, Exit, Kernel, WithStat
<1>5. StateOK(WithStat(k, t, s), taking, error, timer, timed_out)
  BY <1>2, MoveOK DEF Sleep, Wake, Exit, InCode
<1> QED BY <1>4, <1>5 DEF MutexInv, Sleep, Wake, Exit

LEMMA TimeoutInv ==
  ASSUME MutexInv, NEW t \in Threads, Timeout(t)
  PROVE  MutexInv'
<1>1. PICK k : k = Kernel
  OBVIOUS
<1>2. k \in Kernels /\ StateOK(k, taking, error, timer, timed_out)
  BY <1>1, InvParts
<1>3. PICK j : j = Leaves(k, t, "ready")
  OBVIOUS
<1>4. Becomes(j)
  BY <1>1, <1>3, Zenon DEF Timeout, Leaves
<1>5. StateOK(j, taking, [error EXCEPT ![t] = "timeout"], timer \ {t}, TRUE)
  BY <1>2, <1>3, TimeoutOK DEF Timeout
<1>6. Kernel' = j
  <2>1. j \in Kernels
    BY <1>5 DEF StateOK, KernelInv, Shape
  <2> QED BY <1>4, <2>1, BecomesKernel
<1> QED BY <1>5, <1>6 DEF MutexInv, Timeout

LEMMA ReleaseInv ==
  ASSUME MutexInv, NEW t \in Threads, NEW m \in Mutexes, Release(t, m)
  PROVE  MutexInv'
<1>1. PICK k : k = Kernel
  OBVIOUS
<1>2. /\ k \in Kernels /\ k.stat = stat /\ k.owner = owner
      /\ StateOK(k, taking, error, timer, timed_out)
  BY <1>1, InvParts
<1>3. PICK j : j = Released(k, m)
  OBVIOUS
<1>4. Becomes(j) /\ timer' = timer \ Woken(j)
  BY <1>1, <1>3, Zenon DEF Release
<1>5. StateOK(j, taking, error, timer \ Woken(j), timed_out)
  BY <1>2, <1>3, ReleaseOK DEF Release, InCode, Running
<1>6. Kernel' = j
  <2>1. j \in Kernels
    BY <1>5 DEF StateOK, KernelInv, Shape
  <2> QED BY <1>4, <2>1, BecomesKernel
<1> QED BY <1>4, <1>5, <1>6 DEF MutexInv, Release

LEMMA DeleteInv ==
  ASSUME MutexInv, NEW t \in Threads, NEW u \in Threads, Delete(t, u)
  PROVE  MutexInv'
<1>1. PICK k : k = Kernel
  OBVIOUS
<1>2. k \in Kernels /\ StateOK(k, taking, error, timer, timed_out)
  BY <1>1, InvParts
<1>3. PICK j : j = ReleaseTaken(Drop(Close(k, u), u), t, u)
  OBVIOUS
<1>4. Becomes(j) /\ timer' = timer \ (Woken(j) \cup {u})
  BY <1>1, <1>3, Zenon DEF Delete
<1>5. StateOK(j, [taking EXCEPT ![u] = NoMutex], error, timer \ (Woken(j) \cup {u}), timed_out)
  BY <1>2, <1>3, DeleteOK
<1>6. Kernel' = j
  <2>1. j \in Kernels
    BY <1>5 DEF StateOK, KernelInv, Shape
  <2> QED BY <1>4, <2>1, BecomesKernel
<1> QED BY <1>4, <1>5, <1>6 DEF MutexInv, Delete

LEMMA NextInv == MutexInv /\ [Next]_vars => MutexInv'
<1> SUFFICES ASSUME MutexInv, [Next]_vars PROVE MutexInv'
  OBVIOUS
<1>1. CASE UNCHANGED vars
  BY <1>1 DEF vars, MutexInv, Kernel
<1>2. ASSUME NEW t \in Threads, TakeReturns(t) \/ Sleep(t) \/ Wake(t) \/ Timeout(t) \/ Exit(t)
      PROVE  MutexInv'
  BY <1>2, TakeReturnsInv, MoveInv, TimeoutInv
<1>3. ASSUME NEW t \in Threads, NEW u \in Threads, Delete(t, u) PROVE MutexInv'
  BY <1>3, DeleteInv
<1>4. ASSUME NEW t \in Threads, NEW m \in Mutexes, TakeAgain(t, m) \/ TakeFree(t, m) \/ Release(t, m)
      PROVE  MutexInv'
  BY <1>4, TakeAgainInv, TakeFreeInv, ReleaseInv
<1>5. ASSUME NEW t \in Threads, NEW m \in Mutexes, NEW limited \in BOOLEAN, TakeWait(t, m, limited)
      PROVE  MutexInv'
  BY <1>5, TakeWaitInv
<1> QED BY <1>1, <1>2, <1>3, <1>4, <1>5 DEF Next

-----------------------------------------------------------------------------
LEMMA AlwaysInv == Spec => []MutexInv
BY InitInv, NextInv, PTL DEF Spec

\* Every field of the mutexes and threads keeps its type, every list of
\* waiters names threads and names none twice, and no mutex is held more often
\* than rt_mutex_take allows (ipc.c:1346, 1357, 1370).
THEOREM TypeCorrect == Spec => []TypeOK
<1>1. MutexInv => TypeOK
  <2> SUFFICES ASSUME MutexInv PROVE TypeOK
    OBVIOUS
  <2>1. /\ owner \in [Mutexes -> Threads \cup {NoThread}] /\ hold \in [Mutexes -> 0 .. MaxHold]
        /\ priority \in [Mutexes -> 0 .. NoPriority] /\ suspend_thread \in [Mutexes -> Seq(Threads)]
        /\ stat \in [Threads -> {"ready", "suspended", "closed"}]
        /\ current_priority \in [Threads -> 0 .. NoPriority - 1]
        /\ pending_object \in [Threads -> Mutexes \cup {NoMutex}]
    <3>1. PICK k \in Kernels : k = Kernel
      BY InvParts
    <3> QED BY <3>1, KernelParts, InvParts
  <2>2. \A m \in Mutexes : IsInjective(suspend_thread[m])
    BY InvParts DEF StateOK, KernelInv, Shape
  <2> QED BY <2>1, <2>2 DEF TypeOK, MutexInv, StateOK
<1> QED BY <1>1, AlwaysInv, PTL

\* A wake-up is never lost: nobody waits for a mutex that nobody has, and a
\* thread is on the list of a mutex just while it is suspended in a take of it,
\* whatever is released, timed out and deleted in between (ipc.c:1629-1697,
\* thread.c:128-131, 147-154).
THEOREM NobodyIsForgotten == Spec => []NobodyForgotten
<1>1. MutexInv => NobodyForgotten
  <2> SUFFICES ASSUME MutexInv PROVE NobodyForgotten
    OBVIOUS
  <2>1. /\ StateOK(Kernel, taking, error, timer, timed_out) /\ Shape(Kernel)
        /\ Kernel.owner = owner /\ Kernel.waiters = suspend_thread /\ Kernel.stat = stat
        /\ Kernel.pending = pending_object
    BY InvParts DEF StateOK, KernelInv
  <2>2. \A m \in Mutexes : owner[m] = NoThread => suspend_thread[m] = <<>>
    BY <2>1 DEF Shape
  <2>3. ASSUME NEW t \in Threads, NEW m \in Mutexes
        PROVE  Waits(m, t) <=> stat[t] = "suspended" /\ taking[t] = m
    <3>1. Waits(m, t) <=> stat[t] = "suspended" /\ pending_object[t] = m
      BY <2>1 DEF Shape, Waits, Waiting
    <3>2. stat[t] = "suspended" => taking[t] = pending_object[t]
      BY <2>1 DEF StateOK, TakerOK
    <3> QED BY <3>1, <3>2
  <2> QED BY <2>2, <2>3 DEF NobodyForgotten
<1> QED BY <1>1, AlwaysInv, PTL

\* Although a time-out and a hand-over of the mutex may meet in either order,
\* rt_mutex_take answers RT_EOK just when its caller owns the mutex (the
\* assertions at ipc.c:1457 and 1464).
THEOREM TakesTellTheTruth == Spec => []TakeTellsTheTruth
<1>1. MutexInv => TakeTellsTheTruth
  <2> SUFFICES ASSUME MutexInv, NEW t \in Threads, taking[t] # NoMutex, stat[t] = "ready"
               PROVE  error[t] = "ok" <=> owner[taking[t]] = t
    BY DEF TakeTellsTheTruth
  <2>1. TakerOK(Kernel, taking, error, timer, t) /\ Kernel.owner = owner /\ Kernel.stat = stat
    BY InvParts DEF StateOK
  <2> QED BY <2>1 DEF TakerOK
<1> QED BY <1>1, AlwaysInv, PTL

\* The waiters of a mutex stay in the order of their priorities while these
\* change: it is handed to the most urgent one (ipc.c:1635).
THEOREM MostUrgentFirst == Spec => []UrgentFirst
<1>1. MutexInv => UrgentFirst
  <2> SUFFICES ASSUME MutexInv, NEW m \in Mutexes PROVE
        \A i, j \in DOMAIN suspend_thread[m] :
           i < j => current_priority[suspend_thread[m][i]] <= current_priority[suspend_thread[m][j]]
    BY DEF UrgentFirst
  <2>1. Ordered(suspend_thread[m], current_priority)
    BY InvParts DEF StateOK, KernelInv, Sound
  <2>2. suspend_thread[m] \in Seq(Threads)
    BY InvParts, KernelParts
  <2> QED BY <2>1, <2>2 DEF Ordered
<1> QED BY <1>1, AlwaysInv, PTL

\* What OwnerInherits says of one waiter
LEMMA InvInherits ==
  ASSUME MutexInv, NEW m \in Mutexes, NEW w \in ToSet(suspend_thread[m])
  PROVE  /\ w \in Threads /\ owner[m] \in Threads /\ current_priority[w] \in Nat
         /\ current_priority[owner[m]] <= current_priority[w]
<1>1. PICK k : k = Kernel
  OBVIOUS
<1>2. /\ k \in Kernels /\ Shape(k) /\ Sound(k, m) /\ k.owner = owner /\ k.waiters = suspend_thread
      /\ k.prio = current_priority
  BY <1>1, InvParts DEF StateOK, KernelInv
<1>3. w \in Threads /\ FirstPriority(k, m) \in 0 .. NoPriority /\ FirstPriority(k, m) <= k.prio[w]
  BY <1>2, FirstPriorityIs DEF Sound
<1>4. k.waiters[m] # <<>>
  BY <1>2, OnNothing
<1>5. k.owner[m] \in Threads /\ k.owner[m] # NoThread
  BY <1>2, <1>4, KernelParts DEF Shape
<1>6. k.prio[k.owner[m]] \in Int /\ k.first[m] \in Int /\ k.prio[w] \in Nat
  BY <1>2, <1>3, <1>5, Numbers
<1>7. k.prio[k.owner[m]] <= k.first[m] /\ k.first[m] <= FirstPriority(k, m)
  BY <1>2, <1>5 DEF Sound
<1>8. FirstPriority(k, m) \in Int
  BY <1>3 DEF NoPriority
<1>9. k.prio[k.owner[m]] <= k.prio[w]
  BY <1>3, <1>6, <1>7, <1>8
<1> QED BY <1>2, <1>3, <1>5, <1>6, <1>9

\* Priority inheritance: whoever has a mutex runs at least as urgently as every
\* thread that waits for it, however long the chain of owners that wait
\* themselves, and through every release, time-out and deletion (ipc.c:868-920,
\* 1420-1427).
THEOREM OwnersInherit == Spec => []OwnerInherits
<1>1. MutexInv => OwnerInherits
  BY InvInherits DEF OwnerInherits
<1> QED BY <1>1, AlwaysInv, PTL

\* Until a wait times out, every thread runs at its own priority or at that of
\* the most urgent thread that waits for a mutex it has, whichever is the more
\* urgent: what is inherited is given back (ipc.c:922-943, 1478-1506).
THEOREM PrioritiesGivenBack == Spec => []PriorityGivenBack
<1>1. MutexInv => PriorityGivenBack
  <2> SUFFICES ASSUME MutexInv, ~timed_out, NEW t \in Threads PROVE current_priority[t] = DueTo(t)
    BY DEF PriorityGivenBack, PriorityExact
  <2> DEFINE W == {u \in Threads : \E m \in Mutexes : owner[m] = t /\ Waits(m, u)}
             S == {InitPriority[t]} \cup {current_priority[w] : w \in W}
             p == current_priority[t]
  <2>1. PICK k : k = Kernel
    OBVIOUS
  <2>2. /\ k \in Kernels /\ Exact(k) /\ (\A m \in Mutexes : Sound(k, m))
        /\ k.owner = owner /\ k.waiters = suspend_thread /\ k.prio = current_priority
    BY <2>1, InvParts DEF StateOK, KernelInv
  <2>3. OwnAt(k, t, p) /\ p \in Nat /\ p < NoPriority /\ NoPriority \in Nat
    BY <2>2, Numbers DEF Exact
  <2>4. \A w \in W : current_priority[w] \in Nat /\ p <= current_priority[w]
    BY InvInherits DEF Waits
  <2>5. InitPriority[t] \in Nat /\ p <= InitPriority[t]
    <3>1. InitPriority[t] \in 0 .. NoPriority - 1
      BY MutexAssumption
    <3> QED BY <2>3, <3>1 DEF OwnAt, NoPriority
  <2>6. p \in S
    <3>1. CASE p = InitPriority[t]
      BY <3>1
    <3>2. ASSUME NEW m \in Mutexes, k.owner[m] = t, p = k.first[m] PROVE p \in S
      <4>1. p = FirstPriority(k, m) /\ p # NoPriority
        BY <2>2, <2>3, <3>2 DEF Exact
      <4>2. k.waiters[m] # <<>>
        BY <4>1 DEF FirstPriority
      <4>3. PICK w : w = Head(k.waiters[m])
        OBVIOUS
      <4>4. /\ w \in ToSet(k.waiters[m]) /\ p = k.prio[w] /\ w \in Threads
        BY <2>2, <4>1, <4>2, <4>3, FirstPriorityIs DEF Sound
      <4>5. w \in W
        BY <2>2, <3>2, <4>4 DEF Waits
      <4> QED BY <2>2, <4>4, <4>5
    <3> QED BY <2>3, <3>1, <3>2 DEF OwnAt
  <2>7. S \in SUBSET Nat /\ S # {} /\ \A x \in S : p <= x
    BY <2>4, <2>5
  <2>8. DueTo(t) = Min(S)
    BY Zenon DEF DueTo
  <2> HIDE DEF S, W, p
  <2>9. Min(S) \in S /\ \A x \in S : Min(S) <= x
    BY <2>7, LeastNatural
  <2>10. Min(S) = p
    <3>1. PICK n \in Nat : n = Min(S)
      BY <2>7, <2>9
    <3>2. n <= p /\ p <= n
      BY <2>6, <2>7, <2>9, <3>1
    <3>3. n = p
      BY <2>3, <3>2
    <3> QED BY <3>1, <3>3
  <2> QED BY <2>8, <2>10 DEF p
<1> QED BY <1>1, AlwaysInv, PTL

-----------------------------------------------------------------------------
(* Every step of the kernel is one of PriorityLock's, or changes nothing it *)
(* speaks of.                                                               *)

HoldInv == \A m \in Mutexes : owner[m] # NoThread => hold[m] # 0
Heeds == current_priority \in [Threads -> Nat] /\ Lock!Heeded

LEMMA QueueIs ==
  ASSUME NEW k, Shape(k), NEW m \in Mutexes
  PROVE  ToSet(k.waiters[m]) = {t \in Threads : Waiting(k, t, m)}
<1>1. k.waiters[m] \in Seq(Threads)
  BY KernelParts DEF Shape
<1>2. \A t \in ToSet(k.waiters[m]) : t \in Threads
  BY <1>1 DEF ToSet
<1> QED BY <1>2 DEF Shape

LEMMA SameQueue ==
  ASSUME NEW k, NEW j, Shape(k), Shape(j), j.owner = k.owner, j.hold = k.hold, NEW m \in Mutexes,
         \A t \in Threads : Waiting(j, t, m) <=> Waiting(k, t, m)
  PROVE  Keeps(k, j, m)
<1>1. ToSet(j.waiters[m]) = ToSet(k.waiters[m])
  BY QueueIs
<1> QED BY <1>1 DEF Keeps

\* The invariant, of the values before and after a step
LEMMA BothParts ==
  ASSUME MutexInv, MutexInv'
  PROVE  \E k, j \in Kernels :
           /\ k = Kernel /\ j = Kernel' /\ KernelInv(k) /\ KernelInv(j)
           /\ k.owner = owner /\ k.hold = hold /\ k.waiters = suspend_thread /\ k.stat = stat
           /\ k.prio = current_priority /\ k.pending = pending_object
           /\ j.owner = owner' /\ j.hold = hold' /\ j.waiters = suspend_thread'
           /\ j.prio = current_priority'
<1>1. PICK k, j : k = Kernel /\ j = Kernel'
  OBVIOUS
<1>2. KernelInv(k) /\ KernelInv(j)
  BY <1>1 DEF MutexInv, StateOK
<1>3. k \in Kernels /\ j \in Kernels
  BY <1>2 DEF KernelInv, Shape
<1>4. /\ k.owner = owner /\ k.hold = hold /\ k.waiters = suspend_thread /\ k.stat = stat
      /\ k.prio = current_priority /\ k.pending = pending_object
  BY <1>1 DEF Kernel
<1>5. /\ j.owner = owner' /\ j.hold = hold' /\ j.waiters = suspend_thread'
      /\ j.prio = current_priority'
  BY <1>1 DEF Kernel
<1> QED BY <1>1, <1>2, <1>3, <1>4, <1>5

LEMMA KeptLocks ==
  ASSUME MutexInv, MutexInv', \A m \in Mutexes : Keeps(Kernel, Kernel', m)
  PROVE  UNCHANGED Lock!lock
<1>1. PICK k, j \in Kernels :
           /\ k = Kernel /\ j = Kernel' /\ KernelInv(k) /\ KernelInv(j)
           /\ k.owner = owner /\ k.hold = hold /\ k.waiters = suspend_thread
           /\ j.owner = owner' /\ j.hold = hold' /\ j.waiters = suspend_thread'
  BY BothParts
<1>2. \A m \in Mutexes : /\ owner'[m] = owner[m] /\ hold'[m] = hold[m]
                         /\ ToSet(suspend_thread'[m]) = ToSet(suspend_thread[m])
  BY <1>1 DEF Keeps
<1>3. owner' = owner /\ hold' = hold
  <2>1. /\ owner \in [Mutexes -> Threads \cup {NoThread}] /\ hold \in [Mutexes -> 0 .. MaxHold]
        /\ owner' \in [Mutexes -> Threads \cup {NoThread}] /\ hold' \in [Mutexes -> 0 .. MaxHold]
    BY <1>1, KernelParts
  <2> QED BY <1>2, <2>1
<1>4. [m \in Mutexes |-> ToSet(suspend_thread[m])]' = [m \in Mutexes |-> ToSet(suspend_thread[m])]
  BY <1>2
<1> QED BY <1>3, <1>4 DEF Lock!lock

LEMMA GivenLocks ==
  ASSUME MutexInv, MutexInv', HoldInv, NEW t \in Threads, NEW M \in SUBSET Mutexes,
         \A m \in M : owner[m] = t /\ Gives(Kernel, Kernel', m),
         \A m \in Mutexes \ M : Keeps(Kernel, Kernel', m)
  PROVE  Lock!Release(t, M)
<1>1. PICK k, j \in Kernels :
           /\ k = Kernel /\ j = Kernel' /\ KernelInv(k) /\ KernelInv(j)
           /\ k.owner = owner /\ k.hold = hold /\ k.waiters = suspend_thread
           /\ k.prio = current_priority
           /\ j.owner = owner' /\ j.hold = hold' /\ j.waiters = suspend_thread'
  BY BothParts
<1> DEFINE before == [m \in Mutexes |-> ToSet(suspend_thread[m])]
           after == [m \in Mutexes |-> ToSet(suspend_thread'[m])]
<1>2. /\ owner' \in [Mutexes -> Threads \cup {NoThread}] /\ hold' \in [Mutexes -> 0 .. MaxHold]
      /\ hold \in [Mutexes -> 0 .. MaxHold]
  BY <1>1, KernelParts
<1>3. after \in [Mutexes -> SUBSET Threads]
  BY <1>1, QueueIs DEF KernelInv
<1>4. ASSUME NEW m \in M
      PROVE  \/ /\ hold[m] > 1 /\ hold'[m] = hold[m] - 1
                /\ owner'[m] = owner[m] /\ after[m] = before[m]
             \/ /\ hold[m] = 1 /\ before[m] = {}
                /\ owner'[m] = NoThread /\ hold'[m] = 0 /\ after[m] = {}
             \/ /\ hold[m] = 1 /\ owner'[m] \in before[m] /\ hold'[m] = 1
                /\ \A v \in before[m] : current_priority[owner'[m]] <= current_priority[v]
                /\ after[m] = before[m] \ {owner'[m]}
  <2>1. hold[m] \in 0 .. MaxHold /\ hold[m] # 0 /\ m \in Mutexes
    BY <1>2, MutexAssumption DEF HoldInv
  <2>2. ~(hold[m] > 1) => hold[m] = 1
    BY <2>1, MutexAssumption
  <2>3. Gives(k, j, m)
    BY <1>1
  <2>4. before[m] = ToSet(k.waiters[m]) /\ after[m] = ToSet(j.waiters[m])
    BY <1>1, <2>1
  <2> HIDE DEF before, after
  <2> QED BY <1>1, <2>2, <2>3, <2>4 DEF Gives
<1>5. ASSUME NEW m \in Mutexes \ M
      PROVE  owner'[m] = owner[m] /\ hold'[m] = hold[m] /\ after[m] = before[m]
  BY <1>1, <1>5 DEF Keeps
<1>6. ASSUME NEW m \in M PROVE owner[m] = t /\ (Lock!Counted(m) \/ Lock!Freed(m) \/ Lock!Passed(m))
  BY <1>4 DEF Lock!Counted, Lock!Freed, Lock!Passed, Lock!MostUrgent
<1>7. ASSUME NEW m \in Mutexes \ M PROVE Lock!Kept(m)
  BY <1>5 DEF Lock!Kept
<1> QED BY <1>2, <1>3, <1>6, <1>7 DEF Lock!Release

-----------------------------------------------------------------------------
(* The same, action by action. *)

LEMMA TakeStep ==
  ASSUME NEW t \in Threads, NEW m \in Mutexes, TakeAgain(t, m) \/ TakeFree(t, m)
  PROVE  Lock!Grab(t, m) \/ Lock!GrabAgain(t, m)
<1>1. [x \in Mutexes |-> ToSet(suspend_thread[x])]' = [x \in Mutexes |-> ToSet(suspend_thread[x])]
  BY DEF TakeAgain, TakeFree
<1> QED BY <1>1 DEF TakeAgain, TakeFree, Lock!Grab, Lock!GrabAgain

LEMMA WaitStep ==
  ASSUME MutexInv, MutexInv', NEW t \in Threads, NEW m \in Mutexes, NEW limited \in BOOLEAN,
         TakeWait(t, m, limited)
  PROVE  Lock!Await(t, m)
<1>1. PICK k, j \in Kernels :
           /\ k = Kernel /\ j = Kernel' /\ KernelInv(k) /\ KernelInv(j)
           /\ k.owner = owner /\ k.hold = hold /\ k.waiters = suspend_thread /\ k.stat = stat
           /\ j.owner = owner' /\ j.hold = hold' /\ j.waiters = suspend_thread'
  BY BothParts
<1>2. k.stat[t] = "ready" /\ k.owner[m] \notin {t, NoThread} /\ owner[m] \notin {t, NoThread}
  BY <1>1 DEF TakeWait, InCode, Running
<1>3. PICK e : e = Enqueue(AsWaiter(k, t, m), m, t)
  OBVIOUS
<1>4. PICK i : i = Inherit(e, t, m)
  OBVIOUS
<1>5. Joins(k, e, t, m)
  BY <1>1, <1>2, <1>3, EnqueueJoins
<1>6. KernelInv(i) /\ Same(e, i)
  <2>1. PICK no \in BOOLEAN : ~no
    OBVIOUS
  <2> QED BY <1>1, <1>2, <1>4, <1>5, <2>1, InheritKeeps
<1>7. j = i
  <2>1. Becomes(i)
    BY <1>1, <1>3, <1>4, Zenon DEF TakeWait, AsWaiter
  <2>2. i \in Kernels
    BY <1>6 DEF KernelInv, Shape
  <2> QED BY <1>1, <2>1, <2>2, BecomesKernel
<1>8. /\ j.owner = k.owner /\ j.hold = k.hold /\ j.stat = [k.stat EXCEPT ![t] = "suspended"]
      /\ j.pending = [k.pending EXCEPT ![t] = m]
  BY <1>5, <1>6, <1>7 DEF Joins, Same
<1>9. /\ j.stat[t] = "suspended" /\ j.pending[t] = m
      /\ \A v \in Threads : v # t => j.stat[v] = k.stat[v] /\ j.pending[v] = k.pending[v]
  BY <1>1, <1>8, KernelParts
<1>10. ASSUME NEW x \in Mutexes
       PROVE  /\ t \notin ToSet(suspend_thread[x])
              /\ x # m => ToSet(suspend_thread'[x]) = ToSet(suspend_thread[x])
              /\ x = m => ToSet(suspend_thread'[x]) = ToSet(suspend_thread[x]) \cup {t}
  <2>1. /\ ToSet(suspend_thread[x]) = {v \in Threads : Waiting(k, v, x)}
        /\ ToSet(suspend_thread'[x]) = {v \in Threads : Waiting(j, v, x)}
    BY <1>1, QueueIs DEF KernelInv
  <2>2. ~Waiting(k, t, x) /\ (Waiting(j, t, x) <=> x = m)
    BY <1>2, <1>9 DEF Waiting
  <2>3. \A v \in Threads : v # t => (Waiting(j, v, x) <=> Waiting(k, v, x))
    BY <1>9 DEF Waiting
  <2> QED BY <2>1, <2>2, <2>3
<1> DEFINE before == [x \in Mutexes |-> ToSet(suspend_thread[x])]
           after == [x \in Mutexes |-> ToSet(suspend_thread'[x])]
<1>11. after = [before EXCEPT ![m] = before[m] \cup {t}] /\ \A x \in Mutexes : t \notin before[x]
  BY <1>10
<1> QED BY <1>1, <1>2, <1>8, <1>11 DEF Lock!Await

\* t waits for m, or for nothing, and after the step it does not wait.
LEMMA LeaveStep ==
  ASSUME MutexInv, MutexInv', NEW t \in Threads, owner' = owner, hold' = hold,
         stat'[t] # "suspended",
         \A v \in Threads : v # t => stat'[v] = stat[v] /\ pending_object'[v] = pending_object[v]
  PROVE  UNCHANGED Lock!lock \/ \E m \in Mutexes : Lock!GiveUp(t, m)
<1>1. PICK k, j \in Kernels :
           /\ k = Kernel /\ j = Kernel' /\ KernelInv(k) /\ KernelInv(j)
           /\ k.owner = owner /\ k.hold = hold /\ k.waiters = suspend_thread /\ k.stat = stat
           /\ k.pending = pending_object
           /\ j.owner = owner' /\ j.hold = hold' /\ j.waiters = suspend_thread'
  BY BothParts
<1>2. j.stat = stat' /\ j.pending = pending_object'
  BY <1>1 DEF Kernel
<1>3. ASSUME NEW x \in Mutexes
      PROVE  /\ ToSet(suspend_thread[x]) = {v \in Threads : Waiting(k, v, x)}
             /\ ToSet(suspend_thread'[x]) = {v \in Threads : Waiting(j, v, x)}
  BY <1>1, QueueIs DEF KernelInv
<1>4. \A x \in Mutexes : /\ ~Waiting(j, t, x)
                         /\ \A v \in Threads : v # t => (Waiting(j, v, x) <=> Waiting(k, v, x))
  BY <1>1, <1>2 DEF Waiting
<1>5. CASE \A x \in Mutexes : ~Waiting(k, t, x)
  <2>1. \A x \in Mutexes : \A v \in Threads : Waiting(j, v, x) <=> Waiting(k, v, x)
    BY <1>4, <1>5
  <2>2. \A x \in Mutexes : Keeps(k, j, x)
    BY <1>1, <2>1, SameQueue DEF KernelInv
  <2> QED BY <1>1, <2>2, KeptLocks
<1>6. ASSUME NEW m \in Mutexes, Waiting(k, t, m) PROVE Lock!GiveUp(t, m)
  <2>1. \A x \in Mutexes : x # m => ~Waiting(k, t, x)
    BY <1>6 DEF Waiting
  <2>2. ASSUME NEW x \in Mutexes
        PROVE  /\ x # m => ToSet(suspend_thread'[x]) = ToSet(suspend_thread[x])
               /\ x = m => /\ ToSet(suspend_thread'[x]) = ToSet(suspend_thread[x]) \ {t}
                           /\ t \in ToSet(suspend_thread[x])
    BY <1>3, <1>4, <1>6, <2>1
  <2> DEFINE before == [x \in Mutexes |-> ToSet(suspend_thread[x])]
             after == [x \in Mutexes |-> ToSet(suspend_thread'[x])]
  <2>3. after = [before EXCEPT ![m] = before[m] \ {t}] /\ t \in before[m]
    BY <2>2
  <2> QED BY <2>3 DEF Lock!GiveUp
<1> QED BY <1>5, <1>6

LEMMA ReturnStep ==
  ASSUME MutexInv, MutexInv', NEW t \in Threads, TakeReturns(t)
  PROVE  UNCHANGED Lock!lock \/ \E m \in Mutexes : Lock!GiveUp(t, m)
<1>1. PICK k : k = Kernel
  OBVIOUS
<1>2. /\ k \in Kernels /\ KernelInv(k) /\ StateOK(k, taking, error, timer, timed_out)
      /\ k.owner = owner /\ k.hold = hold /\ k.stat = stat /\ k.pending = pending_object
  BY <1>1, InvParts DEF StateOK
<1>3. stat[t] = "ready" /\ taking[t] \in Mutexes
  BY <1>2 DEF TakeReturns, Running, StateOK
<1>4. CASE error[t] = "ok"
  <2>1. Becomes(k)
    BY <1>1, <1>4 DEF TakeReturns
  <2> QED BY <1>2, <1>3, <2>1, LeaveStep DEF Becomes
<1>5. CASE error[t] # "ok"
  <2>1. PICK m \in Mutexes : m = taking[t]
    BY <1>3
  <2>2. PICK j : j = Forgets(k, t, m)
    OBVIOUS
  <2>3. Becomes(j)
    BY <1>1, <1>5, <2>1, <2>2, Zenon DEF TakeReturns, Forgets
  <2>4. /\ j.owner = k.owner /\ j.hold = k.hold /\ j.stat = k.stat
        /\ j.pending = [k.pending EXCEPT ![t] = NoMutex]
    <3>1. PICK no \in BOOLEAN : ~no
      OBVIOUS
    <3>2. k.stat[t] # "suspended"
      BY <1>2, <1>3
    <3> QED BY <1>2, <2>2, <3>1, <3>2, ForgetKeeps
  <2>5. \A v \in Threads : v # t => j.pending[v] = k.pending[v]
    BY <1>2, <2>4, KernelParts
  <2> QED BY <1>2, <1>3, <2>3, <2>4, <2>5, LeaveStep DEF Becomes
<1> QED BY <1>4, <1>5

\* Asleep or not, t waits for no mutex before and after.
LEMMA MoveStep ==
  ASSUME MutexInv, MutexInv', NEW t \in Threads, Sleep(t) \/ Wake(t) \/ Exit(t)
  PROVE  UNCHANGED Lock!lock
BY DEF Sleep, Wake, Exit, Lock!lock

LEMMA TimeoutStep ==
  ASSUME MutexInv, MutexInv', NEW t \in Threads, Timeout(t)
  PROVE  UNCHANGED Lock!lock \/ \E m \in Mutexes : Lock!GiveUp(t, m)
<1>1. PICK k : k = Kernel
  OBVIOUS
<1>2. /\ k \in Kernels /\ KernelInv(k) /\ k.owner = owner /\ k.hold = hold /\ k.stat = stat
      /\ k.pending = pending_object
  BY <1>1, InvParts DEF StateOK
<1>3. PICK j : j = Leaves(k, t, "ready")
  OBVIOUS
<1>4. Becomes(j)
  BY <1>1, <1>3, Zenon DEF Timeout, Leaves
<1>5. /\ j.stat = [k.stat EXCEPT ![t] = "ready"] /\ j.owner = k.owner /\ j.hold = k.hold
      /\ j.pending = k.pending
  <2>1. "ready" \in Awake
    BY DEF Awake
  <2> QED BY <1>2, <1>3, <2>1, LeaveKeeps
<1>6. j.stat[t] = "ready" /\ \A v \in Threads : v # t => j.stat[v] = k.stat[v]
  BY <1>2, <1>5, KernelParts
<1> QED BY <1>2, <1>4, <1>5, <1>6, LeaveStep DEF Becomes

LEMMA ReleaseStep ==
  ASSUME MutexInv, MutexInv', HoldInv, NEW t \in Threads, NEW m \in Mutexes, Release(t, m)
  PROVE  Lock!Release(t, {m})
<1>1. PICK k, j \in Kernels :
           /\ k = Kernel /\ j = Kernel' /\ KernelInv(k) /\ KernelInv(j)
           /\ k.owner = owner /\ k.stat = stat
  BY BothParts
<1>2. k.owner[m] = t /\ owner[m] = t /\ k.stat[t] # "suspended"
  BY <1>1 DEF Release, InCode, Running
<1>3. PICK i : i = Released(k, m)
  OBVIOUS
<1>4. KernelInv(i) /\ GivesOne(k, i, t, m)
  <2>1. PICK no \in BOOLEAN : ~no
    OBVIOUS
  <2> QED BY <1>1, <1>2, <1>3, <2>1, ReleasedKeeps
<1>5. j = i
  <2>1. Becomes(i) /\ i \in Kernels
    BY <1>1, <1>3, <1>4, Zenon DEF Release, KernelInv, Shape
  <2> QED BY <1>1, <2>1, BecomesKernel
<1>6. Gives(Kernel, Kernel', m) /\ \A x \in Mutexes \ {m} : Keeps(Kernel, Kernel', x)
  BY <1>1, <1>4, <1>5 DEF GivesOne
<1> QED BY <1>2, <1>6, GivenLocks

LEMMA DeleteStep ==
  ASSUME MutexInv, MutexInv', HoldInv, NEW t \in Threads, NEW u \in Threads, Delete(t, u)
  PROVE  \/ UNCHANGED Lock!lock
         \/ \E m \in Mutexes : Lock!GiveUp(u, m)
         \/ Lock!Release(u, {m \in Mutexes : owner[m] = u})
<1>1. PICK k, j \in Kernels :
           /\ k = Kernel /\ j = Kernel' /\ KernelInv(k) /\ KernelInv(j)
           /\ k.owner = owner /\ k.hold = hold /\ k.stat = stat /\ k.pending = pending_object
           /\ k.prio = current_priority
           /\ j.owner = owner' /\ j.hold = hold'
  BY BothParts
<1>2. PICK c : c = Drop(Close(k, u), u)
  OBVIOUS
<1>3. PICK no \in BOOLEAN : ~no
  OBVIOUS
<1>4. /\ KernelInv(c) /\ c.owner = k.owner /\ c.hold = k.hold
      /\ c.stat = [k.stat EXCEPT ![u] = "closed"] /\ c.pending = [k.pending EXCEPT ![u] = NoMutex]
      /\ k.pending[u] = NoMutex => c.prio = k.prio
  <2>1. KernelInv(k)
    BY <1>1
  <2> QED BY <1>2, <1>3, <2>1, CloseKeeps
<1>5. /\ c.stat[u] = "closed"
      /\ \A v \in Threads : v # u => c.stat[v] = k.stat[v] /\ c.pending[v] = k.pending[v]
  BY <1>1, <1>4, KernelParts
<1>6. Becomes(ReleaseTaken(c, t, u))
  BY <1>1, <1>2, Zenon DEF Delete
<1>7. CASE t # u
  <2>1. Becomes(c)
    BY <1>6, <1>7 DEF ReleaseTaken
  <2> QED BY <1>1, <1>4, <1>5, <2>1, LeaveStep DEF Becomes
<1>8. CASE t = u
  <2> DEFINE T == {m \in Mutexes : owner[m] = u}
  <2>1. k.stat[u] = "ready" /\ k.pending[u] = NoMutex
    <3>1. stat[u] = "ready" /\ taking[u] = NoMutex
      BY <1>8 DEF Delete, InCode, Running
    <3>2. TakerOK(k, taking, error, timer, u)
      BY <1>1 DEF MutexInv, StateOK
    <3> QED BY <1>1, <3>1, <3>2 DEF TakerOK
  <2>3. c.prio = k.prio
    BY <1>4, <2>1
  <2>4. \A m \in Mutexes : Keeps(k, c, m)
    <3>1. \A m \in Mutexes : \A v \in Threads : Waiting(c, v, m) <=> Waiting(k, v, m)
      BY <1>5, <2>1 DEF Waiting
    <3> QED BY <1>1, <1>4, <3>1, SameQueue DEF KernelInv
  <2>5. PICK i : i = ReleaseTaken(c, u, u)
    OBVIOUS
  <2>6. KernelInv(i) /\ GivesAll(c, i, u, T)
    <3>1. c.stat[u] # "suspended"
      BY <1>5
    <3>2. KernelInv(i) /\ GivesAll(c, i, u, Taken(c, u))
      BY <1>3, <1>4, <2>5, <3>1, ReleaseTakenKeeps
    <3>3. Taken(c, u) = T
      BY <1>1, <1>4 DEF Taken
    <3> QED BY <3>2, <3>3
  <2>7. j = i
    <3>1. Becomes(i) /\ i \in Kernels
      BY <1>6, <1>8, <2>5, <2>6 DEF KernelInv, Shape
    <3> QED BY <1>1, <3>1, BecomesKernel
  <2>8. ASSUME NEW m \in T PROVE owner[m] = u /\ Gives(k, j, m)
    <3>1. m \in Mutexes /\ owner[m] = u
      OBVIOUS
    <3>2. Gives(c, j, m) /\ Keeps(k, c, m)
      BY <2>4, <2>6, <2>7, <3>1 DEF GivesAll
    <3> QED BY <2>3, <3>1, <3>2 DEF Gives, Keeps
  <2>9. ASSUME NEW m \in Mutexes \ T PROVE Keeps(k, j, m)
    BY <2>4, <2>6, <2>7, <2>9 DEF GivesAll, Keeps
  <2>10. T \in SUBSET Mutexes
    OBVIOUS
  <2> HIDE DEF T
  <2>11. Lock!Release(u, T)
    BY <1>1, <2>8, <2>9, <2>10, GivenLocks
  <2> QED BY <2>11 DEF T
<1> QED BY <1>7, <1>8

LEMMA NextStep ==
  ASSUME MutexInv, MutexInv', HoldInv, [Next]_vars
  PROVE  Lock!Step
<1>1. CASE UNCHANGED vars
  BY <1>1 DEF vars, Lock!Step, Lock!lock
<1>2. ASSUME NEW t \in Threads, TakeReturns(t) \/ Sleep(t) \/ Wake(t) \/ Timeout(t) \/ Exit(t)
      PROVE  Lock!Step
  BY <1>2, ReturnStep, MoveStep, TimeoutStep DEF Lock!Step
<1>3. ASSUME NEW t \in Threads, NEW u \in Threads, Delete(t, u) PROVE Lock!Step
  BY <1>3, DeleteStep DEF Lock!Step
<1>4. ASSUME NEW t \in Threads, NEW m \in Mutexes, TakeAgain(t, m) \/ TakeFree(t, m)
      PROVE  Lock!Step
  BY <1>4, TakeStep DEF Lock!Step
<1>5. ASSUME NEW t \in Threads, NEW m \in Mutexes, Release(t, m) PROVE Lock!Step
  BY <1>5, ReleaseStep DEF Lock!Step
<1>6. ASSUME NEW t \in Threads, NEW m \in Mutexes, NEW limited \in BOOLEAN, TakeWait(t, m, limited)
      PROVE  Lock!Step
  BY <1>6, WaitStep DEF Lock!Step
<1> QED BY <1>1, <1>2, <1>3, <1>4, <1>5, <1>6 DEF Next

LEMMA InvHeeds == MutexInv => Heeds
<1> SUFFICES ASSUME MutexInv PROVE Heeds
  OBVIOUS
<1>1. current_priority \in [Threads -> Nat]
  <2>1. PICK k \in Kernels : k.prio = current_priority
    BY InvParts
  <2>2. current_priority \in [Threads -> 0 .. NoPriority - 1] /\ \A t \in Threads : current_priority[t] \in Nat
    BY <2>1, KernelParts, Numbers
  <2> QED BY <2>2
<1>2. \A m \in Mutexes : \A w \in ToSet(suspend_thread[m]) :
        current_priority[owner[m]] <= current_priority[w]
  BY InvInherits
<1> QED BY <1>1, <1>2 DEF Heeds, Lock!Heeded

\* What is owned has been taken at least once.
LEMMA HoldKept ==
  ASSUME MutexInv, MutexInv', HoldInv, Lock!Step
  PROVE  HoldInv'
<1>1. PICK k, j \in Kernels : /\ k.owner = owner /\ k.hold = hold
                              /\ j.owner = owner' /\ j.hold = hold'
  BY BothParts
<1>2. /\ owner \in [Mutexes -> Threads \cup {NoThread}] /\ hold \in [Mutexes -> 0 .. MaxHold]
      /\ \A m \in Mutexes : hold[m] \in Nat
  <2>1. /\ owner \in [Mutexes -> Threads \cup {NoThread}] /\ hold \in [Mutexes -> 0 .. MaxHold]
    BY <1>1, KernelParts
  <2> QED BY <2>1, MutexAssumption
<1> SUFFICES ASSUME NEW m \in Mutexes, owner'[m] # NoThread PROVE hold'[m] # 0
  BY DEF HoldInv
<1>3. CASE UNCHANGED Lock!lock
  BY <1>3 DEF Lock!lock, HoldInv
<1>4. ASSUME NEW t \in Threads, NEW n \in Mutexes, Lock!Grab(t, n) \/ Lock!GrabAgain(t, n)
      PROVE  hold'[m] # 0
  BY <1>2, <1>4 DEF Lock!Grab, Lock!GrabAgain, HoldInv
<1>5. ASSUME NEW t \in Threads, NEW n \in Mutexes, Lock!Await(t, n) \/ Lock!GiveUp(t, n)
      PROVE  hold'[m] # 0
  BY <1>5 DEF Lock!Await, Lock!GiveUp, HoldInv
<1>6. ASSUME NEW t \in Threads, NEW M \in SUBSET Mutexes, Lock!Release(t, M) PROVE hold'[m] # 0
  <2>1. CASE m \in M
    <3>1. Lock!Counted(m) \/ Lock!Freed(m) \/ Lock!Passed(m)
      BY <1>6, <2>1 DEF Lock!Release
    <3> QED BY <1>2, <3>1 DEF Lock!Counted, Lock!Freed, Lock!Passed
  <2>2. CASE m \notin M
    <3>1. Lock!Kept(m)
      BY <1>6, <2>2 DEF Lock!Release
    <3> QED BY <3>1 DEF Lock!Kept, HoldInv
  <2> QED BY <2>1, <2>2
<1>7. ASSUME NEW t \in Threads,
             NEW M \in {{n} : n \in Mutexes} \cup {{n \in Mutexes : owner[n] = t}}, Lock!Release(t, M)
      PROVE  hold'[m] # 0
  <2>1. M \in SUBSET Mutexes
    OBVIOUS
  <2> QED BY <1>6, <1>7, <2>1
<1> QED BY <1>3, <1>4, <1>5, <1>7 DEF Lock!Step

\* The kernel's mutexes are the locks of PriorityLock: whatever is taken, timed
\* out, released and deleted, a mutex leaves its owner only when released as
\* often as taken, goes to the most urgent of its waiters, and no owner is less
\* urgent than one that waits for it (ipc.c:1333-1707, thread.c:106-154).
THEOREM LockIsKept == Spec => LockKept
<1>1. Init => Lock!Init /\ HoldInv
  <2> SUFFICES ASSUME Init PROVE Lock!Init /\ HoldInv
    OBVIOUS
  <2>1. current_priority \in [Threads -> Nat]
    <3>1. current_priority \in [Threads -> 0 .. NoPriority - 1]
      BY MutexAssumption DEF Init
    <3>2. \A t \in Threads : current_priority[t] \in Nat
      BY <3>1 DEF NoPriority
    <3> QED BY <3>1, <3>2
  <2>2. [m \in Mutexes |-> ToSet(suspend_thread[m])] = [m \in Mutexes |-> {}]
    BY OnNothing DEF Init
  <2> QED BY <2>1, <2>2 DEF Init, Lock!Init, HoldInv
<1>2. MutexInv /\ MutexInv' /\ HoldInv /\ [Next]_vars => HoldInv'
  BY NextStep, HoldKept
<1>3. MutexInv /\ MutexInv' /\ HoldInv /\ Heeds' /\ [Next]_vars => [Lock!Next]_(Lock!vars)
  <2> SUFFICES ASSUME MutexInv, MutexInv', HoldInv, Heeds', [Next]_vars PROVE Lock!Next
    OBVIOUS
  <2>1. Lock!Step
    BY NextStep
  <2> QED BY <2>1 DEF Lock!Next, Heeds
<1>4. Lock!Init /\ [][Lock!Next]_(Lock!vars) => LockKept
  BY DEF LockKept, Lock!Spec
<1> QED BY <1>1, <1>2, <1>3, <1>4, AlwaysInv, InvHeeds, PTL DEF Spec
=============================================================================
