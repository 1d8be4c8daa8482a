--------------------------- MODULE KernelTimerProofs ---------------------------
(***************************************************************************)
(* The timers, for any number of them, every width of the tick counter and *)
(* any number of calls: the lists stay in the order in which timers are    *)
(* due, across the wrap of the counter and behind a timer thread that lags,*)
(* and hence no timer is early, late, out of turn or slept over.           *)
(***************************************************************************)
EXTENDS KernelTimer, DataLemmas, TLAPS

-----------------------------------------------------------------------------
(* Ticks: what the unsigned differences mean.                               *)

Half == RT_TICK_MAX \div 2

LEMMA HalfValue ==
  /\ Half \in Nat /\ TICKS \in Nat /\ 2 * Half + 1 <= TICKS
  /\ MaxLate \in Nat /\ MaxLate < Half
  /\ \A time \in Times : time \in Nat /\ time < Half /\ time + MaxLate <= TICKS - Half
BY TimerAssumption DEF Half, RT_TICK_MAX

\* A tick near the present, as the counter shows it
Shown(n) == IF n < 0 THEN n + TICKS ELSE IF n < TICKS THEN n ELSE n - TICKS

LEMMA ShownValue ==
  /\ \A n \in -TICKS .. 2 * TICKS - 1 : n % TICKS = Shown(n)
  /\ \A n \in -TICKS .. 2 * TICKS - 1 : Shown(n) \in 0 .. RT_TICK_MAX
<1>1. TICKS \in Nat /\ TICKS # 0
  BY TimerAssumption
<1>2. \A n \in 0 .. TICKS - 1 : n % TICKS = n
  BY <1>1
<1>3. \A n \in TICKS .. 2 * TICKS - 1 : n % TICKS = n - TICKS
  BY <1>1
<1>4. \A n \in -TICKS .. -1 : n % TICKS = n + TICKS
  BY <1>1
<1> QED BY <1>1, <1>2, <1>3, <1>4 DEF Shown, RT_TICK_MAX

\* The timer is due within the range of the comparisons, and its timeout shows when.
InTime(t) ==
  /\ due[t] \in -MaxLate .. Half - 1
  /\ timeout_tick[t] = Shown(rt_tick + due[t])

LEMMA StartShows ==
  ASSUME rt_tick \in 0 .. RT_TICK_MAX, NEW time \in Times
  PROVE  (rt_tick + time) % TICKS = Shown(rt_tick + time) /\ Shown(rt_tick + time) \in 0 .. RT_TICK_MAX
<1>1. rt_tick + time \in -TICKS .. 2 * TICKS - 1
  BY HalfValue DEF RT_TICK_MAX
<1> QED BY <1>1, ShownValue

LEMMA DueLaterMeans ==
  ASSUME rt_tick \in 0 .. RT_TICK_MAX, NEW u \in Timers, InTime(u), NEW time \in Times
  PROVE  DueLater(u, Shown(rt_tick + time)) <=> due[u] > time
<1> DEFINE x == Shown(rt_tick + due[u])
           y == Shown(rt_tick + time)
<1>1. /\ due[u] \in -MaxLate .. Half - 1 /\ timeout_tick[u] = x
      /\ time \in Nat /\ time < Half /\ time + MaxLate <= TICKS - Half
      /\ TICKS \in Nat /\ Half \in Nat /\ 2 * Half + 1 <= TICKS /\ MaxLate < Half /\ MaxLate \in Nat
      /\ rt_tick \in 0 .. TICKS - 1
  BY HalfValue DEF InTime, RT_TICK_MAX
<1>2. x \in 0 .. TICKS - 1 /\ y \in 0 .. TICKS - 1
  BY <1>1 DEF Shown
<1>3. (x - y) % TICKS = Shown(x - y)
  <2> HIDE DEF x, y
  <2>1. x - y \in -TICKS .. 2 * TICKS - 1
    BY <1>1, <1>2
  <2> QED BY <2>1, ShownValue
<1>4. Shown(x - y) = IF due[u] >= time THEN due[u] - time ELSE due[u] - time + TICKS
  BY <1>1 DEF Shown
<1>5. DueLater(u, y) <=> Shown(x - y) # 0 /\ Shown(x - y) < Half
  BY <1>1, <1>3 DEF DueLater, Since, Half
<1> HIDE DEF x, y
<1>6. (Shown(x - y) # 0 /\ Shown(x - y) < Half) <=> due[u] > time
  BY <1>1, <1>4
<1> QED BY <1>5, <1>6 DEF y

LEMMA ExpiredMeans ==
  ASSUME rt_tick \in 0 .. RT_TICK_MAX, NEW t \in Timers, InTime(t)
  PROVE  Expired(t) <=> due[t] <= 0
<1> DEFINE x == Shown(rt_tick + due[t])
<1>1. /\ due[t] \in -MaxLate .. Half - 1 /\ timeout_tick[t] = x
      /\ TICKS \in Nat /\ Half \in Nat /\ 2 * Half + 1 <= TICKS /\ MaxLate < Half /\ MaxLate \in Nat
      /\ rt_tick \in 0 .. TICKS - 1
  BY HalfValue DEF InTime, RT_TICK_MAX
<1>2. x \in 0 .. TICKS - 1
  BY <1>1 DEF Shown
<1>3. (rt_tick - x) % TICKS = Shown(rt_tick - x)
  <2> HIDE DEF x
  <2>1. rt_tick - x \in -TICKS .. 2 * TICKS - 1
    BY <1>1, <1>2
  <2> QED BY <2>1, ShownValue
<1>4. Shown(rt_tick - x) = IF due[t] <= 0 THEN -due[t] ELSE TICKS - due[t]
  BY <1>1 DEF Shown
<1>5. Expired(t) <=> Shown(rt_tick - x) < Half
  BY <1>1, <1>3 DEF Expired, Since, Half
<1> HIDE DEF x
<1> QED BY <1>1, <1>4, <1>5

-----------------------------------------------------------------------------
(* Lists: putting a timer in its place. *)

\* A timer that is put in goes behind those due no later and before the others.
LEMMA OnInsert ==
  ASSUME NEW S, NEW q \in Seq(S), IsInjective(q), NEW t \in S, t \notin ToSet(q), NEW timeout
  PROVE  LET u == Insert(q, t, timeout) IN
         /\ u \in Seq(S) /\ IsInjective(u) /\ ToSet(u) = ToSet(q) \cup {t}
         /\ \E p : /\ Lengthened(q, p, t, u)
                   /\ \A i \in 1 .. Len(q) : i < p => ~DueLater(q[i], timeout)
                   /\ p \in 1 .. Len(q) => DueLater(q[p], timeout)
<1> DEFINE later == {i \in DOMAIN q : DueLater(q[i], timeout)}
           p == IF later = {} THEN Len(q) + 1 ELSE Min(later)
           u == InsertAt(q, p, t)
<1>1. Len(q) \in Nat /\ DOMAIN q = 1 .. Len(q)
  OBVIOUS
<1>2. /\ p \in 1 .. Len(q) + 1
      /\ \A i \in 1 .. Len(q) : i < p => ~DueLater(q[i], timeout)
      /\ p \in 1 .. Len(q) => DueLater(q[p], timeout)
  <2>1. CASE later = {}
    BY <1>1, <2>1
  <2>2. CASE later # {}
    <3>1. later \in SUBSET Nat
      BY <1>1
    <3>2. Min(later) \in later /\ \A x \in later : Min(later) <= x
      BY <2>2, <3>1, LeastNatural
    <3>3. p = Min(later)
      BY <2>2
    <3> HIDE DEF p
    <3>4. p \in 1 .. Len(q) /\ DueLater(q[p], timeout) /\ \A i \in later : p <= i
      BY <1>1, <3>2, <3>3
    <3>5. ASSUME NEW i \in 1 .. Len(q), i < p PROVE ~DueLater(q[i], timeout)
      BY <1>1, <3>4, <3>5
    <3> QED BY <1>1, <3>4, <3>5
  <2> QED BY <2>1, <2>2
<1>3. Insert(q, t, timeout) = u
  BY DEF Insert
<1> HIDE DEF p
<1>4. u \in Seq(S) /\ Lengthened(q, p, t, u)
  BY <1>2, InsertAtLengthens
<1> HIDE DEF u
<1>5. IsInjective(u) /\ ToSet(u) = ToSet(q) \cup {t}
  BY <1>4, OnLengthened
<1> QED BY <1>2, <1>3, <1>4, <1>5

-----------------------------------------------------------------------------
(* The lists and what is on them.                                           *)

Of(k) == {t \in Timers : KindOf(t) = k}

Lists == /\ DOMAIN timer_list = Kind
         /\ \A k \in Kind : timer_list[k] \in Seq(Of(k)) /\ IsInjective(timer_list[k])

Clocks == /\ rt_tick \in 0 .. RT_TICK_MAX /\ timeout_tick \in [Timers -> 0 .. RT_TICK_MAX]
          /\ init_tick \in [Timers -> Times] /\ due \in [Timers -> Int]

InOrder == \A k \in Kind : Ordered(timer_list[k], due)

\* The timers are listed in order, with a timeout in reach and the flag set.
ListInv == Lists /\ Clocks /\ InOrder /\ \A t \in Timers : Listed(t) => InTime(t) /\ t \in activated

LEMMA KindsOf ==
  /\ \A t \in Timers : KindOf(t) \in Kind /\ t \in Of(KindOf(t))
  /\ \A t \in HardTimers : t \in Timers /\ KindOf(t) = "hard"
  /\ \A t \in SoftTimers : t \in Timers /\ KindOf(t) = "soft"
BY TimerAssumption DEF KindOf, Kind, Of, Timers

LEMMA OnList ==
  ASSUME Lists, NEW k \in Kind
  PROVE  \A i \in 1 .. Len(timer_list[k]) :
           LET t == timer_list[k][i] IN t \in Timers /\ KindOf(t) = k /\ Listed(t)
<1> SUFFICES ASSUME NEW i \in 1 .. Len(timer_list[k])
             PROVE  LET t == timer_list[k][i] IN t \in Timers /\ KindOf(t) = k /\ Listed(t)
  OBVIOUS
<1> DEFINE q == timer_list[k]
           t == q[i]
<1>1. q \in Seq(Of(k)) /\ i \in 1 .. Len(q)
  BY DEF Lists
<1> HIDE DEF q
<1>2. t \in Of(k) /\ t \in ToSet(q)
  BY <1>1 DEF ToSet
<1>3. t \in Timers /\ KindOf(t) = k
  BY <1>2 DEF Of
<1>4. Listed(t)
  BY <1>2, <1>3 DEF Listed, q
<1> QED BY <1>3, <1>4 DEF q

\* One timer at most leaves the lists, and the others stay as they are.
Drops(t) ==
  /\ Lists' /\ ~Listed(t)'
  /\ \A k \in Kind : \/ timer_list'[k] = timer_list[k]
                     \/ \E i : Shortened(timer_list[k], i, timer_list'[k])
  /\ due' = [due EXCEPT ![t] = 0] /\ activated \ {t} \subseteq activated'
  /\ UNCHANGED <<rt_tick, timeout_tick>>

Quiet == UNCHANGED <<rt_tick, timer_list, timeout_tick, due, activated>>

LEMMA UnlinkDrops ==
  ASSUME Lists, NEW t \in Timers, Unlink(t), activated' = activated \ {t},
         UNCHANGED <<rt_tick, timeout_tick>>
  PROVE  Drops(t)
<1> DEFINE k == KindOf(t)
           q == RemoveFirst(timer_list[k], t)
<1>1. k \in Kind /\ timer_list[k] \in Seq(Of(k)) /\ IsInjective(timer_list[k])
  BY KindsOf DEF Lists
<1> HIDE DEF k
<1>2. /\ q \in Seq(Of(k)) /\ IsInjective(q) /\ t \notin ToSet(q)
      /\ q = timer_list[k] \/ \E i : Shortened(timer_list[k], i, q)
  BY <1>1, OnRemoveFirst
<1>3. timer_list' = [timer_list EXCEPT ![k] = q]
  BY DEF Unlink, k
<1> HIDE DEF q
<1>4. DOMAIN timer_list' = Kind /\ timer_list'[k] = q /\ \A l \in Kind : l # k => timer_list'[l] = timer_list[l]
  BY <1>1, <1>3 DEF Lists
<1>5. Lists'
  BY <1>2, <1>4 DEF Lists
<1>6. ~Listed(t)'
  BY <1>2, <1>4 DEF Listed, k
<1>7. \A l \in Kind : timer_list'[l] = timer_list[l] \/ \E i : Shortened(timer_list[l], i, timer_list'[l])
  BY <1>2, <1>4
<1> QED BY <1>5, <1>6, <1>7 DEF Drops, Unlink

LEMMA FireDrops ==
  ASSUME Lists, NEW k \in Kind, Fire(k), UNCHANGED <<rt_tick, timeout_tick>>
  PROVE  \E t \in Of(k) : t = Head(timer_list[k]) /\ Listed(t) /\ Drops(t)
<1> DEFINE q == Tail(timer_list[k])
<1>1. timer_list[k] \in Seq(Of(k)) /\ IsInjective(timer_list[k]) /\ timer_list[k] # <<>>
  BY DEF Lists, Fire, HeadExpired
<1>2. PICK t \in Of(k) : t = Head(timer_list[k])
  BY <1>1, OnTail
<1>3. /\ q \in Seq(Of(k)) /\ IsInjective(q) /\ t \in ToSet(timer_list[k])
      /\ ToSet(q) = ToSet(timer_list[k]) \ {t} /\ Shortened(timer_list[k], 1, q)
  BY <1>1, <1>2, OnTail
<1>4. /\ timer_list' = [timer_list EXCEPT ![k] = q] /\ due' = [due EXCEPT ![t] = 0]
      /\ activated \ {t} \subseteq activated'
  BY <1>2 DEF Fire
<1> HIDE DEF q
<1>5. DOMAIN timer_list' = Kind /\ timer_list'[k] = q /\ \A l \in Kind : l # k => timer_list'[l] = timer_list[l]
  BY <1>4 DEF Lists
<1>6. Lists'
  BY <1>3, <1>5 DEF Lists
<1>7. ~Listed(t)' /\ Listed(t)
  <2>1. KindOf(t) = k
    BY DEF Of
  <2>2. t \notin ToSet(timer_list'[k]) /\ t \in ToSet(timer_list[k])
    BY <1>3, <1>5
  <2> QED BY <2>1, <2>2 DEF Listed
<1>8. \A l \in Kind : timer_list'[l] = timer_list[l] \/ \E i : Shortened(timer_list[l], i, timer_list'[l])
  BY <1>3, <1>5
<1> QED BY <1>2, <1>4, <1>6, <1>7, <1>8 DEF Drops

LEMMA DropsOnly ==
  ASSUME Lists, NEW t \in Timers, Drops(t)
  PROVE  \A u \in Timers : Listed(u)' => u # t /\ Listed(u)
<1> SUFFICES ASSUME NEW u \in Timers, Listed(u)' PROVE u # t /\ Listed(u)
  OBVIOUS
<1> DEFINE k == KindOf(u)
<1>1. /\ k \in Kind /\ timer_list[k] \in Seq(Of(k)) /\ IsInjective(timer_list[k])
      /\ timer_list'[k] \in Seq(Of(k)) /\ u \in ToSet(timer_list'[k])
  BY KindsOf DEF Lists, Drops, Listed
<1>2. u \in ToSet(timer_list[k])
  <2>1. CASE timer_list'[k] = timer_list[k]
    BY <1>1, <2>1
  <2>2. ASSUME NEW i, Shortened(timer_list[k], i, timer_list'[k]) PROVE u \in ToSet(timer_list[k])
    <3>1. ToSet(timer_list'[k]) = ToSet(timer_list[k]) \ {timer_list[k][i]}
      BY <1>1, <2>2, OnShortened
    <3> QED BY <1>1, <3>1
  <2> QED BY <1>1, <2>1, <2>2 DEF Drops
<1> QED BY <1>2 DEF Listed, Drops

LEMMA DropsKeeps ==
  ASSUME ListInv, NEW t \in Timers, Drops(t), init_tick' \in [Timers -> Times]
  PROVE  ListInv'
<1>1. Lists' /\ Clocks'
  <2>1. Lists' /\ rt_tick' = rt_tick /\ timeout_tick' = timeout_tick /\ due' = [due EXCEPT ![t] = 0]
    BY DEF Drops
  <2> QED BY <2>1 DEF ListInv, Clocks
<1>2. ASSUME NEW u \in Timers, Listed(u)' PROVE InTime(u)' /\ u \in activated'
  <2>1. u # t /\ Listed(u)
    BY <1>2, DropsOnly DEF ListInv
  <2>2. due'[u] = due[u] /\ u \in activated'
    BY <2>1 DEF Drops, ListInv, Clocks
  <2> QED BY <2>1, <2>2 DEF ListInv, InTime, Drops
<1>3. ASSUME NEW k \in Kind, NEW a \in 1 .. Len(timer_list'[k]), NEW b \in 1 .. Len(timer_list'[k]), a < b
      PROVE  due'[timer_list'[k][a]] <= due'[timer_list'[k][b]]
  <2> DEFINE s == timer_list[k]
             r == timer_list'[k]
  <2>1. s \in Seq(Of(k)) /\ r \in Seq(Of(k)) /\ Ordered(s, due)
    BY <1>1 DEF ListInv, Lists, InOrder
  <2>2. PICK x \in Of(k), y \in Of(k) : x = r[a] /\ y = r[b] /\ x \in ToSet(r) /\ y \in ToSet(r)
    <3>1. a \in 1 .. Len(r) /\ b \in 1 .. Len(r)
      OBVIOUS
    <3> HIDE DEF r
    <3> QED BY <2>1, <3>1 DEF ToSet
  <2>3. x \in Timers /\ y \in Timers /\ Listed(x)' /\ Listed(y)'
    BY <2>2 DEF Of, Listed
  <2>4. due'[x] = due[x] /\ due'[y] = due[y]
    BY <2>3, DropsOnly DEF ListInv, Drops, Clocks
  <2>5. r = s \/ \E i : Shortened(s, i, r)
    BY DEF Drops
  <2>6. a \in 1 .. Len(r) /\ b \in 1 .. Len(r)
    OBVIOUS
  <2> HIDE DEF s, r
  <2>7. PICK m, n \in 1 .. Len(s) : m < n /\ r[a] = s[m] /\ r[b] = s[n]
    BY <1>3, <2>1, <2>5, <2>6, ShortenedOrder
  <2>8. due[x] <= due[y]
    BY <2>1, <2>2, <2>7 DEF Ordered
  <2> QED BY <2>2, <2>4, <2>8 DEF r
<1> QED BY <1>1, <1>2, <1>3 DEF ListInv, InOrder, Ordered

\* The others on its list are due no later than a timer that is started if
\* they come before it, and later if they come after it.
LEMMA StartKeeps ==
  ASSUME ListInv, NEW t \in Timers, Start(t), UNCHANGED <<rt_tick, init_tick>>
  PROVE  /\ ListInv' /\ Listed(t)'
         /\ \A u \in Timers : u # t => (Listed(u)' <=> Listed(u)) /\ due'[u] = due[u]
         /\ \A k \in Kind, i, j \in Nat : /\ i \in 1 .. Len(timer_list'[k])
                                          /\ j \in 1 .. Len(timer_list'[k])
                                          /\ i < j /\ timer_list'[k][i] = t
              => due'[t] < due'[timer_list'[k][j]]
<1> DEFINE k == KindOf(t)
           s == timer_list[k]
           q == RemoveFirst(s, t)
           time == init_tick[t]
           timeout == Shown(rt_tick + time)
           u == Insert(q, t, timeout)
<1>1. /\ k \in Kind /\ t \in Of(k) /\ s \in Seq(Of(k)) /\ IsInjective(s) /\ Ordered(s, due)
      /\ DOMAIN timer_list = Kind
  BY KindsOf DEF ListInv, Lists, InOrder
<1>2. /\ time \in Times /\ time \in Nat /\ time < Half /\ rt_tick \in 0 .. RT_TICK_MAX
      /\ due \in [Timers -> Int]
  BY HalfValue DEF ListInv, Clocks
<1>3. /\ (rt_tick + time) % TICKS = timeout /\ timeout \in 0 .. RT_TICK_MAX
  BY <1>2, StartShows
<1>4. /\ timer_list' = [timer_list EXCEPT ![k] = u]
      /\ timeout_tick' = [timeout_tick EXCEPT ![t] = timeout]
      /\ due' = [due EXCEPT ![t] = time] /\ activated' = activated \cup {t}
  BY <1>3 DEF Start
<1>5. \A x \in Timers : Listed(x) => InTime(x) /\ x \in activated
  BY DEF ListInv
<1>6. /\ q \in Seq(Of(k)) /\ IsInjective(q) /\ ToSet(q) = ToSet(s) \ {t}
      /\ Ordered(q, due)
  <2> HIDE DEF s
  <2> QED BY <1>1, OnRemoveFirst, RemoveFirstOrdered
<1>7. \A i \in 1 .. Len(q) : /\ q[i] \in Timers /\ q[i] # t /\ q[i] \in Of(k)
                             /\ DueLater(q[i], timeout) <=> due[q[i]] > time
  <2> SUFFICES ASSUME NEW i \in 1 .. Len(q)
               PROVE  /\ q[i] \in Timers /\ q[i] # t /\ q[i] \in Of(k)
                      /\ DueLater(q[i], timeout) <=> due[q[i]] > time
    OBVIOUS
  <2>1. PICK x \in Of(k) : x = q[i] /\ x \in ToSet(s) /\ x # t
    <3> HIDE DEF q, s
    <3>1. q[i] \in Of(k) /\ q[i] \in ToSet(q)
      BY <1>6 DEF ToSet
    <3> QED BY <1>6, <3>1
  <2>2. x \in Timers /\ Listed(x)
    BY <2>1 DEF Of, Listed
  <2>3. DueLater(x, timeout) <=> due[x] > time
    BY <1>2, <1>5, <2>2, DueLaterMeans
  <2> QED BY <2>1, <2>2, <2>3
<1> HIDE DEF timeout
<1>8. /\ u \in Seq(Of(k)) /\ IsInjective(u) /\ ToSet(u) = ToSet(q) \cup {t}
      /\ \E p : /\ Lengthened(q, p, t, u)
                /\ \A i \in 1 .. Len(q) : i < p => ~DueLater(q[i], timeout)
                /\ p \in 1 .. Len(q) => DueLater(q[p], timeout)
  <2> HIDE DEF q
  <2>1. t \notin ToSet(q)
    BY <1>6
  <2> QED BY <1>1, <1>6, <2>1, OnInsert
<1>9. PICK p : /\ Lengthened(q, p, t, u)
               /\ \A i \in 1 .. Len(q) : i < p => ~DueLater(q[i], timeout)
               /\ p \in 1 .. Len(q) => DueLater(q[p], timeout)
  BY <1>8
<1> HIDE DEF u, q, s, time
<1>10. Ordered(q, due') /\ due'[t] = time /\ \A x \in Timers : x # t => due'[x] = due[x]
  BY <1>2, <1>4, <1>6, <1>7 DEF Ordered
<1>11. /\ \A i \in 1 .. Len(q) : i < p => due'[q[i]] <= due'[t]
       /\ p \in 1 .. Len(q) => due'[t] < due'[q[p]]
  BY <1>2, <1>7, <1>9, <1>10
<1>12. due' \in [Timers -> Int] /\ \A x \in Of(k) : due'[x] \in Int
  BY <1>2, <1>4 DEF Of
<1>13. /\ Ordered(u, due')
       /\ \A j \in 1 .. Len(u) : p < j => due'[t] < due'[u[j]]
  BY <1>1, <1>6, <1>8, <1>9, <1>10, <1>11, <1>12, LengthenedOrdered
<1>14. DOMAIN timer_list' = Kind /\ timer_list'[k] = u /\ \A l \in Kind : l # k => timer_list'[l] = timer_list[l]
  BY <1>1, <1>4
<1>15. Lists' /\ Clocks'
  <2>1. Lists'
    BY <1>8, <1>14 DEF ListInv, Lists
  <2>2. Clocks'
    BY <1>3, <1>4, <1>12 DEF ListInv, Clocks
  <2> QED BY <2>1, <2>2
<1>16. Listed(t)' /\ \A x \in Timers : x # t => (Listed(x)' <=> Listed(x))
  <2>1. Listed(t)'
    BY <1>8, <1>14 DEF Listed, k
  <2>2. ASSUME NEW x \in Timers, x # t PROVE Listed(x)' <=> Listed(x)
    <3>1. CASE KindOf(x) = k
      <4>1. x \in ToSet(u) <=> x \in ToSet(s)
        BY <1>6, <1>8, <2>2
      <4> QED BY <1>14, <3>1, <4>1 DEF Listed, s
    <3>2. CASE KindOf(x) # k
      <4>1. KindOf(x) \in Kind
        BY KindsOf
      <4>2. timer_list'[KindOf(x)] = timer_list[KindOf(x)]
        BY <1>14, <3>2, <4>1
      <4> QED BY <4>2 DEF Listed
    <3> QED BY <3>1, <3>2
  <2> QED BY <2>1, <2>2
<1>17. ASSUME NEW x \in Timers, Listed(x)' PROVE InTime(x)' /\ x \in activated'
  <2>1. CASE x = t
    <3>1. timeout_tick'[t] = Shown(rt_tick' + due'[t])
      BY <1>4, <1>10 DEF ListInv, Clocks, timeout
    <3>2. due'[t] \in -MaxLate .. Half - 1
      BY <1>2, <1>10, HalfValue
    <3> QED BY <1>4, <2>1, <3>1, <3>2 DEF InTime
  <2>2. CASE x # t
    <3>1. Listed(x) /\ due'[x] = due[x] /\ timeout_tick'[x] = timeout_tick[x] /\ x \in activated'
      BY <1>4, <1>5, <1>10, <1>16, <1>17, <2>2 DEF ListInv, Clocks
    <3> QED BY <1>5, <3>1 DEF InTime
  <2> QED BY <2>1, <2>2
<1>18. InOrder'
  <2>1. ASSUME NEW l \in Kind, l # k PROVE Ordered(timer_list'[l], due')
    <3>1. timer_list'[l] = timer_list[l] /\ Ordered(timer_list[l], due)
      BY <1>14, <2>1 DEF ListInv, InOrder
    <3>2. \A i \in 1 .. Len(timer_list[l]) : timer_list[l][i] \in Timers /\ KindOf(timer_list[l][i]) = l
      BY OnList DEF ListInv
    <3>3. \A i \in 1 .. Len(timer_list[l]) : due'[timer_list[l][i]] = due[timer_list[l][i]]
      BY <1>10, <2>1, <3>2 DEF k
    <3> QED BY <3>1, <3>3 DEF Ordered
  <2> QED BY <1>13, <1>14, <2>1 DEF InOrder
<1>19. ASSUME NEW l \in Kind, NEW i \in 1 .. Len(timer_list'[l]), NEW j \in 1 .. Len(timer_list'[l]),
              i < j, timer_list'[l][i] = t
       PROVE  due'[t] < due'[timer_list'[l][j]]
  <2>1. timer_list'[l] \in Seq(Of(l))
    BY <1>15 DEF Lists
  <2>2. timer_list'[l][i] \in Of(l)
    BY <2>1
  <2>3. l = k
    BY <1>19, <2>2 DEF Of, k
  <2>4. u[p] = t /\ p \in DOMAIN u /\ i \in DOMAIN u /\ u[i] = t
    BY <1>8, <1>9, <1>14, <1>19, <2>3 DEF Lengthened
  <2>5. i = p
    BY <1>8, <2>4 DEF IsInjective
  <2> QED BY <1>13, <1>14, <1>19, <2>3, <2>5
<1> QED BY <1>10, <1>15, <1>16, <1>17, <1>18, <1>19 DEF ListInv

LEMMA TickKeeps == ListInv /\ Tick => ListInv'
<1> SUFFICES ASSUME ListInv, Tick PROVE ListInv'
  OBVIOUS
<1>1. /\ rt_tick' = (rt_tick + 1) % TICKS /\ \A t \in Timers : due[t] > -MaxLate
      /\ due' = [t \in Timers |-> IF Listed(t) THEN due[t] - 1 ELSE 0]
      /\ UNCHANGED <<timer_list, timeout_tick, init_tick, activated>>
  BY DEF Tick
<1>2. rt_tick \in 0 .. TICKS - 1 /\ due \in [Timers -> Int] /\ TICKS \in Nat /\ TICKS # 0
  BY TimerAssumption DEF ListInv, Clocks, RT_TICK_MAX
<1>3. rt_tick' = Shown(rt_tick + 1) /\ rt_tick' \in 0 .. RT_TICK_MAX
  BY <1>1, <1>2, ShownValue
<1>4. Lists' /\ Clocks'
  <2>1. Lists'
    BY <1>1 DEF ListInv, Lists
  <2>2. due' \in [Timers -> Int]
    BY <1>1, <1>2
  <2> QED BY <1>1, <1>3, <2>1, <2>2 DEF ListInv, Clocks
<1>5. \A t \in Timers : Listed(t)' <=> Listed(t)
  BY <1>1 DEF Listed
<1>6. ASSUME NEW t \in Timers, Listed(t) PROVE InTime(t)' /\ t \in activated'
  <2>1. InTime(t) /\ t \in activated /\ due'[t] = due[t] - 1 /\ due[t] \in Int /\ due[t] > -MaxLate
    BY <1>1, <1>2, <1>6 DEF ListInv
  <2>2. due'[t] \in -MaxLate .. Half - 1
    BY <2>1, HalfValue DEF InTime
  <2>3. Shown(rt_tick' + due'[t]) = Shown(rt_tick + due[t])
    BY <1>2, <1>3, <2>1, <2>2, HalfValue DEF Shown, InTime
  <2> QED BY <1>1, <2>1, <2>2, <2>3 DEF InTime
<1>7. InOrder'
  <2>1. ASSUME NEW k \in Kind, NEW i \in 1 .. Len(timer_list[k]), NEW j \in 1 .. Len(timer_list[k]), i < j
        PROVE  due'[timer_list[k][i]] <= due'[timer_list[k][j]]
    <3>1. PICK x \in Timers, y \in Timers : /\ x = timer_list[k][i] /\ y = timer_list[k][j]
                                            /\ Listed(x) /\ Listed(y)
      BY OnList DEF ListInv
    <3>2. due[x] <= due[y]
      BY <2>1, <3>1 DEF ListInv, InOrder, Ordered
    <3>3. due'[x] = due[x] - 1 /\ due'[y] = due[y] - 1 /\ due[x] \in Int /\ due[y] \in Int
      BY <1>1, <1>2, <3>1
    <3> QED BY <3>1, <3>2, <3>3
  <2> QED BY <1>1, <2>1 DEF InOrder, Ordered
<1> QED BY <1>4, <1>5, <1>6, <1>7 DEF ListInv

-----------------------------------------------------------------------------
(* The rest of the state, and what each step does to the lists.             *)

\* What a check of a list has under way
Checks == /\ DOMAIN running = Kind /\ DOMAIN list = Kind
          /\ \A k \in Kind : running[k] \in Of(k) \cup {NoTimer} /\ list[k] \in {running[k], NoTimer}

Settings == /\ activated \subseteq Timers /\ periodic \subseteq Timers /\ gone \subseteq Timers
            /\ interrupt \in {"none", "soft", "hard", "function"}
            /\ thread \in {"check", "function", "take", "asleep"}
            /\ soft_timer_sem \in 0 .. 1 /\ calls \in 0 .. MaxCalls

TimerInv == ListInv /\ Checks /\ Settings

LEMMA InitTimerInv == Init => TimerInv
<1> SUFFICES ASSUME Init PROVE TimerInv
  OBVIOUS
<1>1. /\ rt_tick = 0 /\ timer_list = [k \in Kind |-> <<>>]
      /\ timeout_tick = [t \in Timers |-> 0] /\ init_tick \in [Timers -> Times]
      /\ due = [t \in Timers |-> 0]
  BY DEF Init
<1>2. \A k \in Kind : timer_list[k] = <<>>
  BY <1>1
<1>3. Lists
  BY <1>1, OnNothing DEF Lists
<1>4. Clocks
  BY <1>1, TimerAssumption DEF Clocks, RT_TICK_MAX
<1>5. InOrder
  BY <1>2 DEF InOrder, Ordered
<1>6. \A t \in Timers : ~Listed(t)
  BY <1>2, KindsOf, OnNothing DEF Listed
<1>7. Checks
  BY DEF Init, Checks
<1>8. Settings
  BY TimerAssumption DEF Init, Settings
<1> QED BY <1>3, <1>4, <1>5, <1>6, <1>7, <1>8 DEF TimerInv, ListInv

\* Taking a timer off the temporary list keeps Checks.
LEMMA ChecksKept ==
  ASSUME Checks, NEW t, NEW k \in Kind,
         list' = [list EXCEPT ![k] = IF @ = t THEN NoTimer ELSE @],
         running' = running
  PROVE  Checks'
BY DEF Checks

LEMMA DeactivateDrops ==
  ASSUME TimerInv, NEW t \in Timers, Deactivate(t), UNCHANGED rt_tick
  PROVE  Drops(t)
BY UnlinkDrops DEF TimerInv, ListInv, Deactivate

\* What a step may do to the lists.
StartStep == \E t \in Timers : Start(t) /\ UNCHANGED <<rt_tick, init_tick>>
DropStep == \E t \in Timers : Drops(t)

LEMMA CallKinds ==
  ASSUME TimerInv, NEW t \in Timers, Call(t)
  PROVE  /\ rt_timer_start(t) \/ Drops(t) \/ Quiet
         /\ init_tick' \in [Timers -> Times] /\ Checks' /\ Settings'
         /\ UNCHANGED kernel_vars
         /\ \A u \in Timers \ {t} : init_tick'[u] = init_tick[u]
         /\ rt_timer_start(t) \/ init_tick' = init_tick \/ ~Listed(t)'
<1>1. KindOf(t) \in Kind
  BY KindsOf
<1>2. init_tick \in [Timers -> Times] /\ calls \in 0 .. MaxCalls /\ MaxCalls \in Nat
  BY TimerAssumption DEF TimerInv, ListInv, Clocks, Settings
<1>3. CASE rt_timer_start(t)
  <2>1. Checks'
    BY <1>1, <1>3, ChecksKept DEF rt_timer_start, Start, kernel_vars, TimerInv
  <2>2. Settings'
    BY <1>2, <1>3 DEF rt_timer_start, Start, Called, kernel_vars, TimerInv, Settings
  <2> QED BY <1>2, <1>3, <2>1, <2>2 DEF rt_timer_start
<1>4. CASE rt_timer_stop(t) \/ rt_timer_detach(t) \/ (SetTime(t) /\ t \in activated /\ Deactivate(t))
  <2>1. Drops(t)
    BY <1>4, DeactivateDrops DEF rt_timer_stop, rt_timer_detach, SetTime, kernel_vars
  <2>2. Checks'
    BY <1>1, <1>4, ChecksKept
      DEF rt_timer_stop, rt_timer_detach, SetTime, Deactivate, Unlink, kernel_vars, TimerInv
  <2>3. Settings'
    BY <1>2, <1>4
      DEF rt_timer_stop, rt_timer_detach, SetTime, Deactivate, Called, kernel_vars, TimerInv, Settings
  <2>4. init_tick' = init_tick \/ \E time \in Times : init_tick' = [init_tick EXCEPT ![t] = time]
    BY <1>4 DEF rt_timer_stop, rt_timer_detach, SetTime
  <2>5. UNCHANGED kernel_vars
    BY <1>4 DEF rt_timer_stop, rt_timer_detach, SetTime
  <2> QED BY <1>2, <2>1, <2>2, <2>3, <2>4, <2>5 DEF Drops
<1>5. CASE SetKind(t) \/ (SetTime(t) /\ t \notin activated
                            /\ UNCHANGED <<timer_list, list, due, activated, timeout_tick>>)
  <2>1. Quiet /\ UNCHANGED kernel_vars /\ UNCHANGED list
    BY <1>5 DEF SetKind, SetTime, Quiet, kernel_vars
  <2>2. Checks'
    BY <2>1 DEF Checks, kernel_vars, TimerInv
  <2>3. Settings'
    BY <1>2, <1>5 DEF SetKind, SetTime, Called, kernel_vars, TimerInv, Settings
  <2>4. init_tick' = init_tick \/ \E time \in Times : init_tick' = [init_tick EXCEPT ![t] = time]
    BY <1>5 DEF SetKind, SetTime
  <2>5. init_tick' = init_tick \/ ~Listed(t)'
    <3>1. ~Listed(t) \/ t \in activated
      BY DEF TimerInv, ListInv
    <3>2. Listed(t)' <=> Listed(t)
      BY <2>1 DEF Quiet, Listed
    <3> QED BY <1>5, <3>1, <3>2 DEF SetKind
  <2> QED BY <1>2, <2>1, <2>2, <2>3, <2>4, <2>5
<1> QED BY <1>3, <1>4, <1>5 DEF Call, SetTime

LEMMA FireKinds ==
  ASSUME TimerInv, NEW k \in Kind, Fire(k), UNCHANGED <<rt_tick, timeout_tick>>
  PROVE  /\ \E t \in Of(k) : /\ t = Head(timer_list[k]) /\ Drops(t) /\ due[t] <= 0
                             /\ running'[k] = t
         /\ \A l \in Kind : l # k => running'[l] = running[l]
         /\ Checks' /\ activated' \subseteq Timers
<1>1. PICK t \in Of(k) : t = Head(timer_list[k]) /\ Listed(t) /\ Drops(t)
  BY FireDrops DEF TimerInv, ListInv
<1>2. t \in Timers /\ InTime(t) /\ rt_tick \in 0 .. RT_TICK_MAX /\ Expired(t)
  BY <1>1 DEF Of, TimerInv, ListInv, Clocks, Fire, HeadExpired
<1>3. due[t] <= 0
  BY <1>2, ExpiredMeans
<1>4. /\ list' = [list EXCEPT ![k] = t] /\ running' = [running EXCEPT ![k] = t]
      /\ activated' \subseteq activated
  BY <1>1 DEF Fire
<1>5. Checks' /\ running'[k] = t /\ \A l \in Kind : l # k => running'[l] = running[l]
  BY <1>4 DEF TimerInv, Checks
<1> QED BY <1>1, <1>3, <1>4, <1>5 DEF TimerInv, Settings

LEMMA ReturnKinds ==
  ASSUME TimerInv, NEW k \in Kind, Return(k), UNCHANGED <<rt_tick, init_tick>>
  PROVE  /\ (\E t \in Of(k) : Start(t)) \/ Quiet
         /\ \A l \in Kind : running'[l] \in {running[l], NoTimer}
         /\ Checks' /\ activated' \subseteq Timers
<1>1. /\ running[k] \in Of(k) /\ list[k] \in {running[k], NoTimer} /\ NoTimer \notin Timers
      /\ running' = [running EXCEPT ![k] = NoTimer]
  BY TimerAssumption DEF TimerInv, Checks, Return
<1>2. \A l \in Kind : running'[l] \in {running[l], NoTimer}
  BY <1>1 DEF TimerInv, Checks
<1>3. CASE list[k] # NoTimer /\ Start(list[k])
  <2>1. PICK t \in Of(k) : t = list[k] /\ Start(t)
    BY <1>1, <1>3
  <2>2. KindOf(t) = k /\ t \in Timers
    BY DEF Of
  <2>3. list' = [list EXCEPT ![k] = NoTimer] /\ activated' = activated \cup {t}
    BY <2>1, <2>2 DEF Start
  <2>4. Checks'
    BY <1>1, <2>3 DEF TimerInv, Checks
  <2> QED BY <1>2, <2>1, <2>2, <2>3, <2>4 DEF TimerInv, Settings
<1>4. CASE /\ list' = [list EXCEPT ![k] = NoTimer]
           /\ UNCHANGED <<timer_list, timeout_tick, activated, due>>
  <2>1. Quiet
    BY <1>4 DEF Quiet
  <2>2. Checks'
    BY <1>1, <1>4 DEF TimerInv, Checks
  <2> QED BY <1>2, <1>4, <2>1, <2>2 DEF TimerInv, Settings
<1> QED BY <1>3, <1>4 DEF Return

LEMMA NextKinds ==
  ASSUME TimerInv, Next
  PROVE  /\ Tick \/ StartStep \/ DropStep \/ Quiet
         /\ Checks' /\ Settings' /\ init_tick' \in [Timers -> Times]
<1>1. /\ init_tick \in [Timers -> Times] /\ Checks /\ Settings
      /\ "soft" \in Kind /\ "hard" \in Kind /\ \A k \in Kind : Of(k) \subseteq Timers
  BY DEF TimerInv, ListInv, Clocks, Kind, Of
<1>2. CASE Tick
  BY <1>1, <1>2 DEF Tick, Checks, Settings
<1>3. CASE CheckSoft
  BY <1>1, <1>3 DEF CheckSoft, Release, Quiet, Checks, Settings
<1>4. CASE CheckHard /\ Fire("hard")
  <2>1. UNCHANGED <<rt_tick, timeout_tick, init_tick, periodic, gone, thread, soft_timer_sem, calls>>
    BY <1>4 DEF CheckHard
  <2>2. DropStep /\ Checks' /\ activated' \subseteq Timers
    BY <1>1, <1>4, <2>1, FireKinds DEF DropStep
  <2> QED BY <1>1, <1>4, <2>1, <2>2 DEF CheckHard, Settings
<1>5. CASE CheckHard /\ ~HeadExpired("hard")
  <2>1. ~Fire("hard")
    BY <1>5 DEF Fire
  <2> QED BY <1>1, <1>5, <2>1 DEF CheckHard, Quiet, Checks, Settings
<1>6. CASE HardReturn
  <2>1. Return("hard") /\ interrupt' = "hard"
        /\ UNCHANGED <<rt_tick, init_tick, periodic, gone, thread, soft_timer_sem, calls>>
    BY <1>6 DEF HardReturn
  <2>2. (StartStep \/ Quiet) /\ Checks' /\ activated' \subseteq Timers
    BY <1>1, <2>1, ReturnKinds DEF StartStep
  <2> QED BY <1>1, <2>1, <2>2 DEF Settings
<1>7. CASE ThreadCheck /\ Fire("soft")
  <2>1. UNCHANGED <<rt_tick, timeout_tick, init_tick, periodic, gone, interrupt, soft_timer_sem, calls>>
    BY <1>7 DEF ThreadCheck
  <2>2. DropStep /\ Checks' /\ activated' \subseteq Timers
    BY <1>1, <1>7, <2>1, FireKinds DEF DropStep
  <2> QED BY <1>1, <1>7, <2>1, <2>2 DEF ThreadCheck, Settings
<1>8. CASE ThreadCheck /\ ~HeadExpired("soft")
  <2>1. ~Fire("soft")
    BY <1>8 DEF Fire
  <2> QED BY <1>1, <1>8, <2>1 DEF ThreadCheck, Quiet, Checks, Settings
<1>9. CASE ThreadReturn
  <2>1. Return("soft") /\ thread' = "check"
        /\ UNCHANGED <<rt_tick, init_tick, periodic, gone, interrupt, soft_timer_sem, calls>>
    BY <1>9 DEF ThreadReturn
  <2>2. (StartStep \/ Quiet) /\ Checks' /\ activated' \subseteq Timers
    BY <1>1, <2>1, ReturnKinds DEF StartStep
  <2> QED BY <1>1, <2>1, <2>2 DEF Settings
<1>10. CASE ThreadTake
  BY <1>1, <1>10 DEF ThreadTake, Quiet, Checks, Settings
<1>11. ASSUME NEW t \in Timers, Call(t)
       PROVE  /\ StartStep \/ DropStep \/ Quiet
              /\ Checks' /\ Settings' /\ init_tick' \in [Timers -> Times]
  <2>1. /\ rt_timer_start(t) \/ Drops(t) \/ Quiet
        /\ init_tick' \in [Timers -> Times] /\ Checks' /\ Settings'
    BY <1>11, CallKinds
  <2>2. rt_timer_start(t) => StartStep
    BY DEF rt_timer_start, kernel_vars, StartStep
  <2> QED BY <2>1, <2>2 DEF DropStep
<1>12. CheckHard => Fire("hard") \/ ~HeadExpired("hard")
  BY DEF CheckHard
<1>13. ThreadCheck => Fire("soft") \/ ~HeadExpired("soft")
  BY DEF ThreadCheck
<1> QED BY <1>2, <1>3, <1>4, <1>5, <1>6, <1>7, <1>8, <1>9, <1>10, <1>11, <1>12, <1>13
       DEF Next, Interrupt, Thread

LEMMA TimerInvKept == TimerInv /\ [Next]_vars => TimerInv'
<1>1. ASSUME TimerInv, Next PROVE TimerInv'
  <2>1. /\ Tick \/ StartStep \/ DropStep \/ Quiet
        /\ Checks' /\ Settings' /\ init_tick' \in [Timers -> Times]
    BY <1>1, NextKinds
  <2>2. CASE Tick
    BY <1>1, <2>1, <2>2, TickKeeps DEF TimerInv
  <2>3. CASE StartStep
    BY <1>1, <2>1, <2>3, StartKeeps DEF TimerInv, StartStep
  <2>4. CASE DropStep
    BY <1>1, <2>1, <2>4, DropsKeeps DEF TimerInv, DropStep
  <2>5. CASE Quiet
    <3>1. /\ \A t \in Timers : (Listed(t)' <=> Listed(t)) /\ (InTime(t)' <=> InTime(t))
          /\ Lists' /\ InOrder' /\ Clocks' /\ activated' = activated
      BY <1>1, <2>1, <2>5 DEF Quiet, TimerInv, ListInv, Listed, InTime, Lists, InOrder, Ordered, Clocks
    <3> QED BY <1>1, <2>1, <3>1 DEF TimerInv, ListInv
  <2> QED BY <2>1, <2>2, <2>3, <2>4, <2>5
<1>2. ASSUME TimerInv, UNCHANGED vars PROVE TimerInv'
  BY <1>2 DEF vars, TimerInv, ListInv, Listed, InTime, Lists, InOrder, Ordered, Clocks, Checks, Settings
<1> QED BY <1>1, <1>2

LEMMA TimerInvariant == Spec => []TimerInv
BY InitTimerInv, TimerInvKept, PTL DEF Spec

-----------------------------------------------------------------------------
(* What the runs check.                                                     *)

\* The state stays within its types.
THEOREM TypeCorrect == Spec => []TypeOK
<1>1. TimerInv => TypeOK
  BY DEF TimerInv, ListInv, Lists, Clocks, Checks, Settings, Of, TypeOK
<1> QED BY <1>1, TimerInvariant, PTL

\* Both lists stay in the order in which their timers are due, whatever the
\* width of the tick counter (timer.c:424-456).
THEOREM ListsStayInOrder == Spec => []ListsInOrder
<1>1. TimerInv => ListsInOrder
  BY DEF TimerInv, ListInv, InOrder, Ordered, ListsInOrder
<1> QED BY <1>1, TimerInvariant, PTL

\* rt_timer_stop may trust the flag (timer.c:639).
THEOREM ListedAreActivated == Spec => []ListedIsActivated
<1>1. TimerInv => ListedIsActivated
  BY DEF TimerInv, ListInv, ListedIsActivated
<1> QED BY <1>1, TimerInvariant, PTL

\* A function is called by the check of a list only, of the head, when due.
LEMMA CallsWhenDue ==
  ASSUME TimerInv, Next, NEW k \in Kind, running'[k] \notin {running[k], NoTimer}
  PROVE  due[running'[k]] <= 0
<1>1. "soft" \in Kind /\ "hard" \in Kind
  BY DEF Kind
<1>2. running' # running
  OBVIOUS
<1>3. ~Tick /\ ~CheckSoft /\ ~ThreadTake
  BY <1>2 DEF Tick, CheckSoft, ThreadTake
<1>4. ~HardReturn /\ ~ThreadReturn
  BY <1>1, ReturnKinds DEF HardReturn, ThreadReturn
<1>5. \A t \in Timers : ~Call(t)
  BY <1>2, CallKinds DEF kernel_vars
<1>6. CASE CheckHard
  <2>1. Fire("hard") /\ UNCHANGED <<rt_tick, timeout_tick>>
    BY <1>2, <1>6 DEF CheckHard
  <2> QED BY <1>1, <2>1, FireKinds
<1>7. CASE ThreadCheck
  <2>1. Fire("soft") /\ UNCHANGED <<rt_tick, timeout_tick>>
    BY <1>2, <1>7 DEF ThreadCheck
  <2> QED BY <1>1, <2>1, FireKinds
<1> QED BY <1>3, <1>4, <1>5, <1>6, <1>7 DEF Next, Interrupt, Thread

\* No timer's function is called before its time, however the counter wraps
\* (timer.c:513).
THEOREM TimersAreNeverEarly == Spec => NeverEarly
<1>1. TimerInv /\ [Next]_vars
        => [\A k \in Kind : running'[k] \notin {running[k], NoTimer} => due[running'[k]] <= 0]_vars
  BY CallsWhenDue
<1> QED BY <1>1, TimerInvariant, PTL DEF Spec, NeverEarly

LEMMA EqualsKeepTheirOrder ==
  ASSUME TimerInv, TimerInv', Next, NEW k \in Kind,
         NEW i \in 1 .. Len(timer_list'[k]), NEW j \in 1 .. Len(timer_list'[k]), i < j,
         NEW t \in Timers, t = timer_list'[k][i], NEW u \in Timers, u = timer_list'[k][j],
         due'[t] = due'[u], Listed(u)
  PROVE  Listed(t)
<1>1. Listed(t)'
  <2> DEFINE s == timer_list'[k]
  <2>1. s \in Seq(Of(k)) /\ i \in 1 .. Len(s)
    BY DEF TimerInv, ListInv, Lists
  <2> HIDE DEF s
  <2>2. s[i] \in Of(k) /\ s[i] \in ToSet(s)
    BY <2>1 DEF ToSet
  <2>3. t \in ToSet(timer_list'[k]) /\ KindOf(t) = k
    BY <2>2 DEF s, Of
  <2> QED BY <2>3 DEF Listed
<1>2. Tick \/ StartStep \/ DropStep \/ Quiet
  BY NextKinds
<1>3. CASE Tick
  BY <1>1, <1>3 DEF Tick, Listed
<1>4. CASE Quiet
  BY <1>1, <1>4 DEF Quiet, Listed
<1>5. ASSUME NEW x \in Timers, Drops(x) PROVE Listed(t)
  BY <1>1, <1>5, DropsOnly DEF TimerInv, ListInv
<1>6. ASSUME NEW x \in Timers, Start(x), UNCHANGED <<rt_tick, init_tick>> PROVE Listed(t)
  <2>1. CASE x # t
    BY <1>1, <1>6, <2>1, StartKeeps DEF TimerInv
  <2>2. CASE x = t
    <3>1. due'[t] < due'[u]
      BY <1>6, <2>2, StartKeeps DEF TimerInv
    <3>2. due'[t] \in Int /\ due'[u] \in Int
      BY DEF TimerInv, ListInv, Clocks
    <3> QED BY <3>1, <3>2
  <2> QED BY <2>1, <2>2
<1> QED BY <1>2, <1>3, <1>4, <1>5, <1>6 DEF StartStep, DropStep

\* Of two timers due at the same tick the one started first is called first
\* (timer.c:440-444).
THEOREM EqualsInTurn == Spec => FirstStartedFirst
<1> DEFINE InTurn == \A k \in Kind : \A i, j \in 1 .. Len(timer_list'[k]) :
                       LET t == timer_list'[k][i]
                           u == timer_list'[k][j]
                       IN  i < j /\ due'[t] = due'[u] /\ Listed(u) => Listed(t)
<1>1. ASSUME TimerInv, TimerInv', Next PROVE InTurn
  <2> SUFFICES ASSUME NEW k \in Kind,
                      NEW i \in 1 .. Len(timer_list'[k]), NEW j \in 1 .. Len(timer_list'[k]),
                      i < j, due'[timer_list'[k][i]] = due'[timer_list'[k][j]],
                      Listed(timer_list'[k][j])
               PROVE  Listed(timer_list'[k][i])
    OBVIOUS
  <2>1. timer_list'[k] \in Seq(Of(k)) /\ Of(k) \subseteq Timers
    BY <1>1 DEF TimerInv, ListInv, Lists, Of
  <2>2. PICK t \in Timers, u \in Timers : t = timer_list'[k][i] /\ u = timer_list'[k][j]
    BY <2>1
  <2>3. Listed(u)
    BY <2>2
  <2>4. Listed(t)
    BY <1>1, <2>2, <2>3, EqualsKeepTheirOrder
  <2> QED BY <2>2, <2>4
<1>2. TimerInv /\ TimerInv' /\ [Next]_vars => [InTurn]_vars
  BY <1>1
<1> QED BY <1>2, TimerInvariant, PTL DEF Spec, FirstStartedFirst

-----------------------------------------------------------------------------
(* Nobody is late.                                                          *)

\* If the head of a list is not due yet, nothing on it is.
LEMMA HeadIsFirst ==
  ASSUME TimerInv, NEW k \in Kind,
         timer_list[k] # <<>> => due[Head(timer_list[k])] > 0
  PROVE  \A t \in Of(k) : Listed(t) => due[t] > 0
<1> SUFFICES ASSUME NEW t \in Of(k), Listed(t) PROVE due[t] > 0
  OBVIOUS
<1> DEFINE s == timer_list[k]
<1>1. s \in Seq(Of(k)) /\ t \in ToSet(s) /\ Ordered(s, due) /\ \A x \in Of(k) : due[x] \in Int
  BY DEF TimerInv, ListInv, Lists, InOrder, Clocks, Of, Listed
<1> HIDE DEF s
<1>2. PICK i \in 1 .. Len(s) : s[i] = t
  BY <1>1 DEF ToSet
<1>3. s # <<>> /\ Head(s) = s[1] /\ s[1] \in Of(k) /\ 1 \in 1 .. Len(s)
  BY <1>1, <1>2
<1>4. due[s[1]] <= due[t]
  <2>1. CASE i = 1
    BY <1>1, <1>2, <2>1
  <2>2. CASE 1 < i
    BY <1>2, <1>3, <2>2 DEF Ordered, s, TimerInv, ListInv, InOrder
  <2> QED BY <1>2, <2>1, <2>2
<1> QED BY <1>1, <1>3, <1>4 DEF s

LEMMA NotExpired ==
  ASSUME TimerInv, NEW k \in Kind, ~HeadExpired(k)
  PROVE  \A t \in Of(k) : Listed(t) => due[t] > 0
<1>1. ASSUME timer_list[k] # <<>> PROVE due[Head(timer_list[k])] > 0
  <2>1. PICK t \in Of(k) : t = Head(timer_list[k]) /\ t \in ToSet(timer_list[k])
    BY <1>1, OnTail DEF TimerInv, ListInv, Lists
  <2>2. t \in Timers /\ Listed(t) /\ ~Expired(t)
    BY <1>1, <2>1 DEF HeadExpired, Of, Listed
  <2>3. due[t] \in Int /\ ~(due[t] <= 0)
    BY <2>2, ExpiredMeans DEF TimerInv, ListInv, Clocks
  <2> QED BY <2>1, <2>3
<1> QED BY <1>1, HeadIsFirst

\* Leaving the lists alone, taking a timer out or putting another one in
\* changes nothing for a timer that is still listed.
LEMMA OthersStay ==
  ASSUME TimerInv, NEW t \in Timers, Listed(t)',
         \/ Quiet
         \/ DropStep
         \/ \E x \in Timers \ {t} : Start(x) /\ UNCHANGED <<rt_tick, init_tick>>
  PROVE  Listed(t) /\ due'[t] = due[t]
<1>1. CASE Quiet
  BY <1>1 DEF Quiet, Listed
<1>2. ASSUME NEW x \in Timers, Drops(x) PROVE Listed(t) /\ due'[t] = due[t]
  <2>1. t # x /\ Listed(t)
    BY <1>2, DropsOnly DEF TimerInv, ListInv
  <2> QED BY <1>2, <2>1 DEF Drops, TimerInv, ListInv, Clocks
<1>3. ASSUME NEW x \in Timers \ {t}, Start(x), UNCHANGED <<rt_tick, init_tick>>
      PROVE  Listed(t) /\ due'[t] = due[t]
  BY <1>3, StartKeeps DEF TimerInv
<1> QED BY <1>1, <1>2, <1>3 DEF DropStep

LEMMA StartSets ==
  ASSUME TimerInv, NEW t \in Timers, Start(t)
  PROVE  due'[t] = init_tick[t] /\ init_tick[t] \in Times /\ init_tick[t] \in Nat
BY HalfValue DEF Start, TimerInv, ListInv, Clocks

LEMMA HardStaysInTime ==
  ASSUME TimerInv, TimerInv', HardTimersInTime, Next
  PROVE  HardTimersInTime'
<1> SUFFICES ASSUME interrupt' = "none", NEW t \in HardTimers, Listed(t)'
             PROVE  due'[t] > 0 \/ init_tick'[t] = 0
  BY DEF HardTimersInTime
<1>0. /\ t \in Timers /\ KindOf(t) = "hard" /\ t \in Of("hard") /\ t \notin Of("soft")
      /\ "hard" \in Kind /\ "soft" \in Kind /\ \A k \in Kind : Of(k) \subseteq Timers
  BY KindsOf DEF Of, Kind
<1>1. ~Tick /\ ~CheckSoft /\ ~HardReturn
  BY DEF Tick, CheckSoft, HardReturn
<1>2. CASE CheckHard
  <2>1. ~HeadExpired("hard") /\ UNCHANGED <<timer_list, due>>
    BY <1>2 DEF CheckHard
  <2>2. Listed(t)
    BY <2>1 DEF Listed
  <2> QED BY <1>0, <2>1, <2>2, NotExpired
<1>3. CASE Thread
  <2>1. interrupt = "none" /\ init_tick' = init_tick /\ UNCHANGED rt_tick
    BY <1>3 DEF Thread, ThreadCheck, ThreadReturn, ThreadTake
  <2>2. \/ Quiet
        \/ DropStep
        \/ \E x \in Timers \ {t} : Start(x) /\ UNCHANGED <<rt_tick, init_tick>>
    <3>1. CASE ThreadCheck /\ Fire("soft")
      BY <1>0, <3>1, FireKinds DEF ThreadCheck, DropStep
    <3>2. CASE ThreadCheck /\ ~Fire("soft")
      BY <3>2 DEF ThreadCheck, Quiet
    <3>3. CASE ThreadReturn
      <4>1. Return("soft") /\ UNCHANGED <<rt_tick, init_tick>>
        BY <3>3 DEF ThreadReturn
      <4> QED BY <1>0, <4>1, ReturnKinds
    <3>4. CASE ThreadTake
      BY <3>4 DEF ThreadTake, Quiet
    <3> QED BY <1>3, <3>1, <3>2, <3>3, <3>4 DEF Thread
  <2>3. Listed(t) /\ due'[t] = due[t]
    BY <1>0, <2>2, OthersStay
  <2> QED BY <2>1, <2>3 DEF HardTimersInTime
<1>4. ASSUME NEW x \in Timers, Call(x) PROVE due'[t] > 0 \/ init_tick'[t] = 0
  <2>0. /\ rt_timer_start(x) \/ Drops(x) \/ Quiet
        /\ interrupt = "none"
        /\ x # t => init_tick'[t] = init_tick[t]
        /\ rt_timer_start(x) \/ init_tick' = init_tick \/ ~Listed(x)'
        /\ rt_timer_start(x) => Start(x) /\ UNCHANGED <<rt_tick, init_tick>>
    BY <1>0, <1>4, CallKinds DEF kernel_vars, rt_timer_start
  <2>1. init_tick'[t] = init_tick[t]
    BY <2>0
  <2>2. CASE rt_timer_start(x) /\ x = t
    <3>1. due'[t] = init_tick[t] /\ init_tick[t] \in Nat
      BY <2>0, <2>2, StartSets
    <3> QED BY <2>1, <3>1
  <2>3. CASE ~(rt_timer_start(x) /\ x = t)
    <3>1. Listed(t) /\ due'[t] = due[t]
      BY <1>0, <2>0, <2>3, OthersStay DEF DropStep
    <3> QED BY <2>0, <2>1, <3>1 DEF HardTimersInTime
  <2> QED BY <2>2, <2>3
<1> QED BY <1>1, <1>2, <1>3, <1>4 DEF Next, Interrupt

\* The tick interrupt calls every hard timer that it makes due (timer.c:488-553).
THEOREM HardTimersAreInTime == Spec => []HardTimersInTime
<1>1. Init => HardTimersInTime
  <2>1. Init => \A t \in Timers : ~Listed(t)
    BY KindsOf, OnNothing DEF Init, Listed
  <2> QED BY <2>1, KindsOf DEF HardTimersInTime
<1>2. TimerInv /\ TimerInv' /\ HardTimersInTime /\ [Next]_vars => HardTimersInTime'
  <2>1. ASSUME HardTimersInTime, UNCHANGED vars PROVE HardTimersInTime'
    BY <2>1 DEF vars, HardTimersInTime, Listed
  <2> QED BY <2>1, HardStaysInTime
<1> QED BY <1>1, <1>2, TimerInvariant, PTL DEF Spec

-----------------------------------------------------------------------------
\* The timer thread sleeps, or is about to with no wake-up stored.
Sleepy == thread = "asleep" \/ (thread = "take" /\ soft_timer_sem = 0)

\* Such a thread misses nothing: a timer that is due was found by the tick
\* interrupt at the tick it became due, when the test without the wrap is right.
NothingMissed ==
  Sleepy => \A t \in SoftTimers : Listed(t) =>
    IF interrupt = "soft" THEN due[t] >= 0 ELSE due[t] > 0

LEMMA NothingStaysMissed ==
  ASSUME 0 \notin Times, TimerInv, TimerInv', NothingMissed, Next
  PROVE  NothingMissed'
<1> SUFFICES ASSUME Sleepy', NEW t \in SoftTimers, Listed(t)'
             PROVE  IF interrupt' = "soft" THEN due'[t] >= 0 ELSE due'[t] > 0
  BY DEF NothingMissed
<1>0. /\ t \in Timers /\ KindOf(t) = "soft" /\ t \in Of("soft") /\ t \notin Of("hard")
      /\ "hard" \in Kind /\ "soft" \in Kind /\ \A k \in Kind : Of(k) \subseteq Timers
      /\ due[t] \in Int
  BY KindsOf DEF Of, Kind, TimerInv, ListInv, Clocks
<1>1. CASE Tick
  <2>1. /\ interrupt = "none" /\ interrupt' = "soft" /\ Sleepy /\ Listed(t)
        /\ due' = [u \in Timers |-> IF Listed(u) THEN due[u] - 1 ELSE 0]
    BY <1>1 DEF Tick, Sleepy, Listed
  <2>2. due[t] > 0 /\ due'[t] = due[t] - 1
    BY <1>0, <2>1 DEF NothingMissed
  <2> QED BY <1>0, <2>1, <2>2
<1>2. CASE CheckSoft
  <2>1. ~SoftPending /\ Sleepy /\ interrupt = "soft" /\ interrupt' = "hard"
        /\ UNCHANGED <<rt_tick, timer_list, due>>
    <3>1. SoftPending => Release
      BY <1>2 DEF CheckSoft
    <3>2. ~Release
      <4>1. soft_timer_sem \in 0 .. 1
        BY DEF TimerInv, Settings
      <4> QED BY <4>1 DEF Release, Sleepy
    <3> QED BY <1>2, <3>1, <3>2 DEF CheckSoft, Sleepy
  <2>2. Listed(t)
    BY <2>1 DEF Listed
  <2>3. ASSUME timer_list["soft"] # <<>> PROVE due[Head(timer_list["soft"])] > 0
    <3>1. PICK u \in Of("soft") : u = Head(timer_list["soft"]) /\ u \in ToSet(timer_list["soft"])
      BY <1>0, <2>3, OnTail DEF TimerInv, ListInv, Lists
    <3>2. u \in Timers /\ u \in SoftTimers /\ Listed(u)
      BY <1>0, <3>1 DEF Of, Listed, KindOf
    <3>3. due[u] \in Int /\ due[u] >= 0 /\ timeout_tick[u] = Shown(rt_tick + due[u])
          /\ rt_tick \in 0 .. TICKS - 1 /\ TICKS \in Nat
      BY <2>1, <3>2, HalfValue DEF NothingMissed, TimerInv, ListInv, InTime, Clocks, RT_TICK_MAX
    <3>4. ~(timeout_tick[u] <= rt_tick)
      BY <2>1, <2>3, <3>1 DEF SoftPending
    <3>5. due[u] # 0
      BY <3>3, <3>4 DEF Shown
    <3> QED BY <3>1, <3>3, <3>5
  <2>4. due[t] > 0
    BY <1>0, <2>2, <2>3, HeadIsFirst
  <2> QED BY <2>1, <2>4
<1>3. CASE CheckHard \/ HardReturn
  <2>1. /\ interrupt \in {"hard", "function"} /\ interrupt' \in {"none", "hard", "function"}
        /\ Sleepy
    BY <1>3 DEF CheckHard, HardReturn, Sleepy
  <2>2. \/ Quiet
        \/ DropStep
        \/ \E x \in Timers \ {t} : Start(x) /\ UNCHANGED <<rt_tick, init_tick>>
    <3>1. CASE CheckHard /\ Fire("hard")
      BY <1>0, <3>1, FireKinds DEF CheckHard, DropStep
    <3>2. CASE CheckHard /\ ~Fire("hard")
      BY <3>2 DEF CheckHard, Quiet
    <3>3. CASE HardReturn
      <4>1. Return("hard") /\ UNCHANGED <<rt_tick, init_tick>>
        BY <3>3 DEF HardReturn
      <4> QED BY <1>0, <4>1, ReturnKinds
    <3> QED BY <1>3, <3>1, <3>2, <3>3
  <2>3. Listed(t) /\ due'[t] = due[t]
    BY <1>0, <2>2, OthersStay
  <2> QED BY <2>1, <2>3 DEF NothingMissed
<1>4. CASE ThreadCheck
  <2>1. ~HeadExpired("soft") /\ interrupt' = "none" /\ UNCHANGED <<timer_list, due>>
    BY <1>4 DEF ThreadCheck, Sleepy
  <2>2. Listed(t)
    BY <2>1 DEF Listed
  <2> QED BY <1>0, <2>1, <2>2, NotExpired
<1>5. CASE ThreadReturn
  BY <1>5 DEF ThreadReturn, Sleepy
<1>6. CASE ThreadTake
  <2>1. Sleepy /\ UNCHANGED <<interrupt, timer_list, due>>
    BY <1>6 DEF ThreadTake, Sleepy
  <2> QED BY <2>1 DEF NothingMissed, Listed
<1>7. ASSUME NEW x \in Timers, Call(x)
      PROVE  IF interrupt' = "soft" THEN due'[t] >= 0 ELSE due'[t] > 0
  <2>1. /\ rt_timer_start(x) \/ Drops(x) \/ Quiet
        /\ interrupt' = interrupt /\ Sleepy
        /\ rt_timer_start(x) => Start(x) /\ UNCHANGED <<rt_tick, init_tick>>
    BY <1>7, CallKinds DEF kernel_vars, rt_timer_start, Sleepy
  <2>2. CASE rt_timer_start(x) /\ x = t
    <3>1. due'[t] = init_tick[t] /\ init_tick[t] \in Nat /\ init_tick[t] # 0
      BY <2>1, <2>2, StartSets
    <3> QED BY <3>1
  <2>3. CASE ~(rt_timer_start(x) /\ x = t)
    <3>1. Listed(t) /\ due'[t] = due[t]
      BY <1>0, <2>1, <2>3, OthersStay DEF DropStep
    <3> QED BY <2>1, <3>1 DEF NothingMissed
  <2> QED BY <2>2, <2>3
<1> QED BY <1>1, <1>2, <1>3, <1>4, <1>5, <1>6, <1>7 DEF Next, Interrupt, Thread

\* No wake-up of the timer thread is lost, if no timer is given zero ticks
\* (timer.c:764-767).
THEOREM ThreadIsWoken == (0 \notin Times) => (Spec => []ThreadWakesInTime)
<1> SUFFICES ASSUME 0 \notin Times PROVE Spec => []ThreadWakesInTime
  OBVIOUS
<1>1. Init => NothingMissed
  <2>1. Init => \A t \in Timers : ~Listed(t)
    BY KindsOf, OnNothing DEF Init, Listed
  <2> QED BY <2>1, KindsOf DEF NothingMissed
<1>2. TimerInv /\ TimerInv' /\ NothingMissed /\ [Next]_vars => NothingMissed'
  <2>1. ASSUME NothingMissed, UNCHANGED vars PROVE NothingMissed'
    BY <2>1 DEF vars, NothingMissed, Sleepy, Listed
  <2> QED BY <2>1, NothingStaysMissed
<1>3. NothingMissed => ThreadWakesInTime
  BY DEF NothingMissed, Sleepy, ThreadWakesInTime
<1> QED BY <1>1, <1>2, <1>3, TimerInvariant, PTL DEF Spec

=============================================================================
