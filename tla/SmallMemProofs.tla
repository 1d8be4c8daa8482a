--------------------------- MODULE SmallMemProofs ---------------------------
(***************************************************************************)
(* The heap's chain of headers, for every size of the heap, every set of   *)
(* requests and every sequence of calls.                                   *)
(***************************************************************************)
EXTENDS SmallMem, DataLemmas, TLAPS

Item == [used : BOOLEAN, next : 0 .. HeapEnd, prev : 0 .. HeapEnd]

\* What the three operations on headers keep: a chain of blocks of at least a
\* header from 0 to HeapEnd, with nothing between a block and its next.
Chain(it) ==
  /\ DOMAIN it \subseteq 0 .. HeapEnd /\ it \in [DOMAIN it -> Item]
  /\ 0 \in DOMAIN it /\ HeapEnd \in DOMAIN it
  /\ it[HeapEnd].used /\ it[HeapEnd].next = HeapEnd /\ it[0].prev = 0
  /\ \A p \in DOMAIN it : p # HeapEnd =>
       /\ it[p].next \in DOMAIN it /\ p + Header <= it[p].next
       /\ \A q \in DOMAIN it : ~(p < q /\ q < it[p].next)
  /\ \A p \in DOMAIN it : p # 0 /\ p # HeapEnd =>
       it[p].prev \in DOMAIN it /\ it[p].prev # HeapEnd /\ it[it[p].prev].next = p

\* No two free neighbours, but perhaps p and one beside it.
PluggedBut(it, p) ==
  \A q \in DOMAIN it : q # HeapEnd /\ Free(it, q) /\ q # p /\ it[q].next # p => it[it[q].next].used
\* No two, but perhaps p and the one before it.
PluggedFrom(it, p) ==
  \A q \in DOMAIN it : q # HeapEnd /\ Free(it, q) /\ it[q].next # p => it[it[q].next].used
Plugged(it) == \A q \in DOMAIN it : q # HeapEnd /\ Free(it, q) => it[it[q].next].used

Lowest(it, l) ==
  /\ l \in DOMAIN it /\ (l # HeapEnd => Free(it, l))
  /\ \A q \in DOMAIN it : q < l => it[q].used

LEMMA HeaderValue == /\ Header = 16 /\ HeapEnd = MemSize + 16 /\ HeapEnd \in Nat
                     /\ MIN_SIZE_ALIGNED = 16
BY HeapAssumption, Z3 DEF Header, HeapEnd, Align, RT_ALIGN_SIZE, MIN_SIZE, MIN_SIZE_ALIGNED

LEMMA AlignValue == \A n \in Nat : Align(n) \in Nat /\ Align(n) >= n
BY Z3 DEF Align, RT_ALIGN_SIZE

LEMMA SizeValue == \A n \in Nat : Size(n) \in Nat /\ Size(n) >= n /\ Size(n) >= 16
<1> TAKE n \in Nat
<1>1. Align(n) \in Nat /\ Align(n) >= n
  BY AlignValue
<1>2. \E m \in {Align(n), 16} : \A k \in {Align(n), 16} : m >= k
  BY <1>1
<1> QED BY <1>1, <1>2, HeaderValue DEF Size, Max

LEMMA LowestFreeIs ==
  ASSUME NEW it, Chain(it), NEW from \in DOMAIN it,
         \A q \in DOMAIN it : q < from => it[q].used
  PROVE  Lowest(it, LowestFree(it, from))
<1> DEFINE S == {p \in DOMAIN it : p >= from /\ Free(it, p)} \cup {HeapEnd}
<1>1. S \in SUBSET Nat /\ S # {}
  BY HeaderValue DEF Chain
<1>2. Min(S) \in S /\ \A x \in S : Min(S) <= x
  BY <1>1, LeastNatural
<1>3. \A q \in DOMAIN it : q \in Nat /\ it[q].used \in BOOLEAN
  BY HeaderValue DEF Chain, Item
<1> DEFINE m == Min(S)
<1>6. m \in Nat
  BY <1>1, <1>2
<1> HIDE DEF m
<1>4. \A q \in DOMAIN it : q < m => it[q].used
  <2> TAKE q \in DOMAIN it
  <2>1. CASE q < from
    BY <2>1
  <2>2. CASE q >= from /\ Free(it, q)
    <3>1. q \in S
      BY <2>2
    <3>2. m <= q
      BY <1>2, <3>1 DEF m
    <3> QED BY <3>2, <1>6, <1>3
  <2>3. CASE ~Free(it, q)
    BY <2>3, <1>3 DEF Free
  <2> QED BY <2>1, <2>2, <2>3, <1>3
<1>5. m \in DOMAIN it /\ (m # HeapEnd => Free(it, m))
  BY <1>2 DEF Chain, m
<1> QED BY <1>4, <1>5 DEF Lowest, LowestFree, m

\* Where the chain is a chain, it is tiled as HeapTiled says, and a free block
\* lower than all others is what LowestFree finds.
LEMMA ChainIsTiled == Chain(item) => HeapTiled
<1> SUFFICES ASSUME Chain(item) PROVE HeapTiled
  OBVIOUS
<1>1. ASSUME NEW p \in DOMAIN item \ {HeapEnd}, item[p].next # HeapEnd
      PROVE  item[item[p].next].prev = p
  <2>1. PICK n \in DOMAIN item : n = item[p].next
    BY DEF Chain
  <2>2. n # 0 /\ n # HeapEnd /\ p \in Nat
    BY <1>1, <2>1, HeaderValue DEF Chain
  <2>3. PICK b \in DOMAIN item : b = item[n].prev /\ b # HeapEnd /\ item[b].next = n
    BY <2>2 DEF Chain
  <2>4. ~(b < p /\ p < n) /\ ~(p < b /\ b < n)
    BY <2>1, <2>3 DEF Chain
  <2>5. b < n /\ p < n /\ b \in Nat
    BY <2>1, <2>3, HeaderValue DEF Chain
  <2> QED BY <2>1, <2>2, <2>3, <2>4, <2>5
<1> QED BY <1>1 DEF Chain, HeapTiled

LEMMA LowestIsKnown == Chain(item) /\ Lowest(item, lfree) => LowestFreeKnown
<1> SUFFICES ASSUME Chain(item), Lowest(item, lfree) PROVE LowestFreeKnown
  OBVIOUS
<1>1. Lowest(item, LowestFree(item, 0))
  BY LowestFreeIs, HeaderValue DEF Chain
<1> DEFINE l == LowestFree(item, 0)
<1>2. l \in Nat /\ lfree \in Nat /\ l <= HeapEnd /\ lfree <= HeapEnd
  BY <1>1, HeaderValue DEF Chain, Lowest
<1> HIDE DEF l
<1>3. ~(l < lfree) /\ ~(lfree < l)
  BY <1>1, <1>2, HeaderValue DEF Lowest, Free, l
<1> QED BY <1>2, <1>3 DEF LowestFreeKnown, l

-----------------------------------------------------------------------------
(* Joining a block with the one behind it, and cutting one off. *)

Joined(it, a) ==
  LET n == it[a].next IN
    [Without(it, n) EXCEPT ![a].next = it[n].next, ![it[n].next].prev = a]

LEMMA JoinedValue ==
  ASSUME NEW it, Chain(it), NEW a \in DOMAIN it, NEW n \in DOMAIN it,
         a # HeapEnd, n = it[a].next, n # HeapEnd
  PROVE  /\ DOMAIN Joined(it, a) = DOMAIN it \ {n}
         /\ Joined(it, a) \in [DOMAIN it \ {n} -> Item]
         /\ \A x \in DOMAIN it \ {n} :
              /\ Joined(it, a)[x].used = it[x].used
              /\ Joined(it, a)[x].next = IF x = a THEN it[n].next ELSE it[x].next
              /\ Joined(it, a)[x].prev = IF x = it[n].next THEN a ELSE it[x].prev
<1> DEFINE w == Without(it, n)
           v == [w EXCEPT ![a].next = it[n].next]
<1>1. DOMAIN w = DOMAIN it \ {n} /\ \A x \in DOMAIN it \ {n} : w[x] = it[x]
  BY DEF Without
<1>2. \A x \in DOMAIN it : it[x] \in Item
  BY DEF Chain
<1>3. /\ a # n /\ it[n].next # n /\ it[n].next \in DOMAIN it /\ it[n].next # a
      /\ a \in 0 .. HeapEnd /\ it[n].next \in 0 .. HeapEnd
  BY HeaderValue DEF Chain, Item
<1>4. Joined(it, a) = [v EXCEPT ![it[n].next].prev = a]
  BY DEF Joined
<1> HIDE DEF w
<1>5. v \in [DOMAIN it \ {n} -> Item]
  <2>1. w \in [DOMAIN it \ {n} -> Item]
    BY <1>1, <1>2 DEF Without, w
  <2>2. [w[a] EXCEPT !.next = it[n].next] \in Item
    BY <1>1, <1>2, <1>3 DEF Item
  <2> QED BY <2>1, <2>2
<1>6. \A x \in DOMAIN it \ {n} : /\ v[x].used = it[x].used /\ v[x].prev = it[x].prev
                              /\ v[x].next = IF x = a THEN it[n].next ELSE it[x].next
  <2> TAKE x \in DOMAIN it \ {n}
  <2>1. CASE x = a
    <3>1. v[x] = [it[a] EXCEPT !.next = it[n].next]
      BY <2>1, <1>1, <1>3
    <3> HIDE DEF v
    <3> QED BY <2>1, <3>1, <1>2 DEF Item
  <2>2. CASE x # a
    BY <2>2, <1>1, <1>3
  <2> QED BY <2>1, <2>2
<1> HIDE DEF v
<1> DEFINE j == Joined(it, a)
           b == it[n].next
<1>7. [v[b] EXCEPT !.prev = a] \in Item
  BY <1>3, <1>5 DEF Item
<1>8. j \in [DOMAIN it \ {n} -> Item]
  BY <1>4, <1>5, <1>7
<1>9. \A x \in DOMAIN it \ {n} : /\ j[x].used = v[x].used /\ j[x].next = v[x].next
                              /\ j[x].prev = IF x = b THEN a ELSE v[x].prev
  <2> TAKE x \in DOMAIN it \ {n}
  <2>1. CASE x = b
    <3>1. j[x] = [v[b] EXCEPT !.prev = a]
      BY <2>1, <1>3, <1>4, <1>5
    <3> HIDE DEF j
    <3>2. v[b] \in Item
      BY <1>3, <1>5
    <3> QED BY <2>1, <3>1, <3>2 DEF Item
  <2>2. CASE x # b
    BY <2>2, <1>3, <1>4, <1>5
  <2> QED BY <2>1, <2>2
<1> HIDE DEF j
<1>10. DOMAIN j = DOMAIN it \ {n}
  BY <1>8
<1> QED BY <1>6, <1>8, <1>9, <1>10 DEF j

LEMMA JoinedChain ==
  ASSUME NEW it, Chain(it), NEW a \in DOMAIN it, NEW n \in DOMAIN it,
         a # HeapEnd, n = it[a].next, n # HeapEnd
  PROVE  Chain(Joined(it, a))
<1> DEFINE j == Joined(it, a)
<1>1. /\ DOMAIN j = DOMAIN it \ {n} /\ j \in [DOMAIN it \ {n} -> Item]
      /\ \A x \in DOMAIN it \ {n} :
              /\ j[x].used = it[x].used
              /\ j[x].next = IF x = a THEN it[n].next ELSE it[x].next
              /\ j[x].prev = IF x = it[n].next THEN a ELSE it[x].prev
  BY JoinedValue
<1> HIDE DEF j
<1>2. \A x \in DOMAIN it : x \in 0 .. HeapEnd /\ x \in Int
  BY HeaderValue DEF Chain
<1>3. \A x \in DOMAIN it : x # HeapEnd =>
          /\ it[x].next \in DOMAIN it /\ x + 16 <= it[x].next /\ x < it[x].next
          /\ \A q \in DOMAIN it : ~(x < q /\ q < it[x].next)
  BY <1>2, HeaderValue DEF Chain
<1>4. \A x \in DOMAIN it : x # 0 /\ x # HeapEnd =>
          it[x].prev \in DOMAIN it /\ it[x].prev # HeapEnd /\ it[it[x].prev].next = x
  BY DEF Chain
<1>5. n # 0 /\ a < n /\ it[n].next # a /\ a # n /\ it[n].next # 0 /\ it[n].next \in DOMAIN it \ {n}
      /\ a \in Int /\ n \in Int /\ it[n].next \in Int
  BY <1>2, <1>3, HeaderValue
<1>6. \A x \in DOMAIN it : x # HeapEnd /\ x # a => it[x].next # n
  <2> TAKE x \in DOMAIN it
  <2> SUFFICES ASSUME x # HeapEnd, x # a, it[x].next = n PROVE FALSE
    OBVIOUS
  <2>1. x < a \/ a < x
    BY <1>2
  <2>2. x < n
    BY <1>3
  <2> QED BY <2>1, <2>2, <1>3, <1>5
<1>7. ASSUME NEW p \in DOMAIN it \ {n}, p # HeapEnd
      PROVE  /\ j[p].next \in DOMAIN j /\ p + Header <= j[p].next
             /\ \A q \in DOMAIN j : ~(p < q /\ q < j[p].next)
  <2>1. CASE p = a
    <3>1. j[p].next = it[n].next
      BY <1>1, <2>1
    <3>2. a + 16 <= it[n].next
      BY <1>3, <1>5
    <3>3. ASSUME NEW q \in DOMAIN it, q # n, a < q, q < it[n].next PROVE FALSE
      <4>1. q < n \/ n < q
        BY <1>2, <3>3
      <4> QED BY <4>1, <1>3, <3>3
    <3> QED BY <2>1, <3>1, <3>2, <3>3, <1>1, <1>5, HeaderValue
  <2>2. CASE p # a
    <3>1. j[p].next = it[p].next /\ it[p].next # n
      BY <1>1, <1>6, <1>7, <2>2
    <3> QED BY <3>1, <1>1, <1>3, <1>7, HeaderValue
  <2> QED BY <2>1, <2>2
<1>8. ASSUME NEW p \in DOMAIN it \ {n}, p # 0, p # HeapEnd
      PROVE  j[p].prev \in DOMAIN j /\ j[p].prev # HeapEnd /\ j[j[p].prev].next = p
  <2>1. CASE p = it[n].next
    <3>1. j[p].prev = a /\ a \in DOMAIN it \ {n}
      BY <2>1, <1>1, <1>5
    <3>2. j[a].next = p
      BY <3>1, <2>1, <1>1
    <3> QED BY <3>1, <3>2, <1>1
  <2>2. CASE p # it[n].next
    <3>1. it[p].prev # n /\ it[p].prev \in DOMAIN it /\ it[p].prev # HeapEnd /\ it[it[p].prev].next = p
      BY <2>2, <1>4, <1>8
    <3>2. it[p].prev # a
      BY <3>1, <1>8
    <3>3. j[p].prev = it[p].prev
      BY <2>2, <1>1
    <3> QED BY <3>1, <3>2, <3>3, <1>1
  <2> QED BY <2>1, <2>2
<1>9. /\ 0 \in DOMAIN j /\ HeapEnd \in DOMAIN j /\ DOMAIN j \subseteq 0 .. HeapEnd
      /\ j \in [DOMAIN j -> Item]
  BY <1>1, <1>2, <1>5 DEF Chain
<1>10. j[HeapEnd].used /\ j[HeapEnd].next = HeapEnd /\ j[0].prev = 0
  <2>1. it[HeapEnd].used /\ it[HeapEnd].next = HeapEnd /\ it[0].prev = 0
        /\ 0 \in DOMAIN it \ {n} /\ HeapEnd \in DOMAIN it \ {n}
    BY <1>5 DEF Chain
  <2> QED BY <2>1, <1>1, <1>5
<1> QED BY <1>1, <1>7, <1>8, <1>9, <1>10 DEF Chain, j

\* jt is it with the block at p cut at q.
IsCut(it, jt, p, q) ==
  /\ DOMAIN jt = DOMAIN it \cup {q} /\ q \notin DOMAIN it /\ q \in 0 .. HeapEnd
  /\ jt \in [DOMAIN jt -> Item]
  /\ ~jt[q].used /\ jt[q].next = it[p].next /\ jt[q].prev = p /\ jt[p].next = q
  /\ \A x \in DOMAIN it :
       /\ jt[x].used = it[x].used
       /\ x # p => jt[x].next = it[x].next
       /\ x = it[p].next /\ x # HeapEnd => jt[x].prev = q
       /\ x # it[p].next \/ x = HeapEnd => jt[x].prev = it[x].prev

LEMMA SplitValue ==
  ASSUME NEW it, Chain(it), NEW p \in DOMAIN it, p # HeapEnd, NEW size \in Nat,
         NEW q, q = p + Header + size, q + Header <= it[p].next
  PROVE  IsCut(it, Split(it, p, size), p, q)
<1> DEFINE r == [used |-> FALSE, next |-> it[p].next, prev |-> p]
           w == With(it, q, r)
           cut == [w EXCEPT ![p].next = q]
<1>1. /\ p \in Int /\ it[p].next \in DOMAIN it /\ it[p].next \in 0 .. HeapEnd /\ p \in 0 .. HeapEnd
      /\ \A y \in DOMAIN it : ~(p < y /\ y < it[p].next)
  BY HeaderValue DEF Chain
<1>2. q \notin DOMAIN it /\ q \in 0 .. HeapEnd /\ p + Header <= q /\ q # p /\ it[p].next # p
      /\ q # it[p].next
  BY <1>1, HeaderValue
<1>3. \A x \in DOMAIN it : it[x] = [used |-> it[x].used, next |-> it[x].next, prev |-> it[x].prev]
  BY DEF Chain, Item
<1>4. Split(it, p, size) = IF it[p].next = HeapEnd THEN cut ELSE [cut EXCEPT ![it[p].next].prev = q]
  BY DEF Split
<1>5. DOMAIN w = DOMAIN it \cup {q} /\ w[q] = r /\ \A x \in DOMAIN it : w[x] = it[x]
  BY <1>2 DEF With
<1> HIDE DEF w, r
<1>6. DOMAIN cut = DOMAIN it \cup {q} /\ cut[q] = r
      /\ \A x \in DOMAIN it : cut[x] = [used |-> it[x].used,
                        next |-> IF x = p THEN q ELSE it[x].next, prev |-> it[x].prev]
  BY <1>5, <1>2, <1>3
<1> HIDE DEF cut
<1> DEFINE s == Split(it, p, size)
<1>7. /\ DOMAIN s = DOMAIN it \cup {q} /\ s[q] = r
      /\ \A x \in DOMAIN it : s[x] = [used |-> it[x].used,
                                  next |-> IF x = p THEN q ELSE it[x].next,
                                  prev |-> IF x = it[p].next /\ x # HeapEnd THEN q ELSE it[x].prev]
  <2> HIDE DEF s
  <2>1. CASE it[p].next = HeapEnd
    BY <2>1, <1>4, <1>6, <1>2 DEF s
  <2>2. CASE it[p].next # HeapEnd
    <3>1. s = [cut EXCEPT ![it[p].next].prev = q]
      BY <1>4, <2>2 DEF s
    <3> QED BY <3>1, <1>6, <1>2, <2>2
  <2> QED BY <2>1, <2>2
<1> HIDE DEF s
<1>8. \A x \in DOMAIN it :
         /\ s[x].used = it[x].used
         /\ x # p => s[x].next = it[x].next
         /\ x = it[p].next /\ x # HeapEnd => s[x].prev = q
         /\ x # it[p].next \/ x = HeapEnd => s[x].prev = it[x].prev
  BY <1>7
<1>9. s[p].next = q
  BY <1>7
<1>10. s = [x \in DOMAIN s |-> s[x]]
  BY DEF s, Split, With
<1>11. \A x \in DOMAIN it : s[x] \in Item
  <2> TAKE x \in DOMAIN it
  <2>1. it[x].used \in BOOLEAN /\ it[x].next \in 0 .. HeapEnd /\ it[x].prev \in 0 .. HeapEnd
    BY DEF Chain, Item
  <2> QED BY <2>1, <1>2, <1>7 DEF Item
<1>12. s[q] \in Item
  BY <1>1, <1>7 DEF r, Item
<1>13. s \in [DOMAIN s -> Item]
  BY <1>7, <1>10, <1>11, <1>12
<1>14. ~s[q].used /\ s[q].next = it[p].next /\ s[q].prev = p
  BY <1>7 DEF r
<1> QED BY <1>2, <1>7, <1>8, <1>9, <1>13, <1>14 DEF s, IsCut

LEMMA SplitChain ==
  ASSUME NEW it, Chain(it), NEW p \in DOMAIN it, p # HeapEnd, NEW s, NEW q \in Int,
         IsCut(it, s, p, q), p + Header <= q, q + Header <= it[p].next
  PROVE  Chain(s)
<1> DEFINE n == it[p].next
<1>1. DOMAIN s = DOMAIN it \cup {q} /\ q \notin DOMAIN it /\ q \in 0 .. HeapEnd /\ s[p].next = q
  BY DEF IsCut
<1>3. \A x \in DOMAIN it : x \in 0 .. HeapEnd /\ x \in Int /\ it[x] \in Item
  BY HeaderValue DEF Chain
<1>4. p + 16 <= q /\ q + 16 <= n /\ n \in DOMAIN it /\ n \in Int /\ q \in Int /\ p \in Int /\ p < q /\ p # n
  BY <1>3, HeaderValue DEF Chain
<1>5. \A x \in DOMAIN it : /\ s[x].used = it[x].used
                           /\ x # p => s[x].next = it[x].next
                           /\ x = n /\ x # HeapEnd => s[x].prev = q
                           /\ x # n \/ x = HeapEnd => s[x].prev = it[x].prev
  BY DEF IsCut
<1>6. ~s[q].used /\ s[q].next = n /\ s[q].prev = p /\ q # 0 /\ q # HeapEnd
  BY <1>1, <1>3, <1>4 DEF Chain, IsCut
<1>8. ASSUME NEW x \in DOMAIN s, x # HeapEnd
      PROVE  /\ s[x].next \in DOMAIN s /\ x + Header <= s[x].next
             /\ \A y \in DOMAIN s : ~(x < y /\ y < s[x].next)
  <2>1. \A y \in DOMAIN it : ~(p < y /\ y < n)
    BY DEF Chain
  <2>2. CASE x = q
    BY <2>1, <2>2, <1>1, <1>3, <1>4, <1>6, HeaderValue
  <2>3. CASE x = p
    <3>1. s[x].next = q
      BY <2>3, <1>1
    <3>2. \A y \in DOMAIN it : ~(p < y /\ y < q)
      BY <2>1, <1>3, <1>4
    <3> QED BY <2>3, <3>1, <3>2, <1>1, <1>4, HeaderValue
  <2>4. CASE x # p /\ x \in DOMAIN it
    <3>1. /\ s[x].next = it[x].next /\ it[x].next \in DOMAIN it /\ x + Header <= it[x].next
          /\ \A y \in DOMAIN it : ~(x < y /\ y < it[x].next)
      BY <2>4, <1>5, <1>8 DEF Chain
    <3>2. ~(x < q /\ q < it[x].next)
      <4> SUFFICES ASSUME x < q, q < it[x].next PROVE FALSE
        OBVIOUS
      <4>1. x < p \/ p < x
        BY <2>4, <1>3
      <4>2. it[x].next \in Int /\ x \in Int
        BY <2>4, <3>1, <1>3
      <4> QED BY <4>1, <4>2, <2>1, <2>4, <3>1, <1>4
    <3> QED BY <3>1, <3>2, <1>1
  <2> QED BY <2>2, <2>3, <2>4, <1>1
<1>9. ASSUME NEW x \in DOMAIN s, x # 0, x # HeapEnd
      PROVE  s[x].prev \in DOMAIN s /\ s[x].prev # HeapEnd /\ s[s[x].prev].next = x
  <2>1. CASE x = q
    BY <2>1, <1>1, <1>5, <1>6
  <2>2. CASE x = n
    BY <2>2, <1>1, <1>4, <1>5, <1>6, <1>9
  <2>3. CASE x # n /\ x \in DOMAIN it
    <3>1. it[x].prev \in DOMAIN it /\ it[x].prev # HeapEnd /\ it[it[x].prev].next = x
      BY <2>3, <1>9 DEF Chain
    <3>2. it[x].prev # p /\ s[x].prev = it[x].prev
      BY <2>3, <3>1, <1>5
    <3> QED BY <3>1, <3>2, <1>1, <1>5
  <2> QED BY <2>1, <2>2, <2>3, <1>1
<1>10. s[HeapEnd].used /\ s[HeapEnd].next = HeapEnd /\ s[0].prev = 0
  <2>1. /\ it[HeapEnd].used /\ it[HeapEnd].next = HeapEnd /\ it[0].prev = 0
        /\ 0 \in DOMAIN it /\ HeapEnd \in DOMAIN it /\ n # 0
    BY <1>3, <1>4 DEF Chain
  <2> QED BY <2>1, <1>5
<1>11. 0 \in DOMAIN s /\ HeapEnd \in DOMAIN s /\ DOMAIN s \subseteq 0 .. HeapEnd
  BY <1>1 DEF Chain
<1>12. s \in [DOMAIN s -> Item]
  BY DEF IsCut
<1> QED BY <1>8, <1>9, <1>10, <1>11, <1>12 DEF Chain

LEMMA MarkedChain ==
  ASSUME NEW it, Chain(it), NEW p \in DOMAIN it, p # HeapEnd, NEW u \in BOOLEAN
  PROVE  LET m == [it EXCEPT ![p].used = u] IN
         /\ Chain(m) /\ DOMAIN m = DOMAIN it /\ m[p].used = u
         /\ \A x \in DOMAIN it : /\ m[x].next = it[x].next /\ m[x].prev = it[x].prev
                                 /\ x # p => m[x].used = it[x].used
<1> DEFINE m == [it EXCEPT ![p].used = u]
<1>1. \A x \in DOMAIN it : it[x] \in Item
  BY DEF Chain
<1>2. m \in [DOMAIN it -> Item] /\ DOMAIN m = DOMAIN it
  <2>1. [it[p] EXCEPT !.used = u] \in Item
    BY <1>1 DEF Item
  <2> QED BY <2>1 DEF Chain
<1>3. m[p] = [it[p] EXCEPT !.used = u] /\ \A x \in DOMAIN it : x # p => m[x] = it[x]
  OBVIOUS
<1> HIDE DEF m
<1>4. m[p].used = u /\ m[p].next = it[p].next /\ m[p].prev = it[p].prev
  BY <1>1, <1>3 DEF Item
<1>5. \A x \in DOMAIN it : /\ m[x].next = it[x].next /\ m[x].prev = it[x].prev
                           /\ x # p => m[x].used = it[x].used
  BY <1>3, <1>4
<1>6. Chain(m)
  <2>1. ASSUME NEW x \in DOMAIN it, x # HeapEnd
        PROVE  /\ m[x].next \in DOMAIN it /\ x + Header <= m[x].next
               /\ \A q \in DOMAIN it : ~(x < q /\ q < m[x].next)
    <3>1. m[x].next = it[x].next
      BY <1>5
    <3> QED BY <2>1, <3>1 DEF Chain
  <2>2. ASSUME NEW x \in DOMAIN it, x # 0, x # HeapEnd
        PROVE  m[x].prev \in DOMAIN it /\ m[x].prev # HeapEnd /\ m[m[x].prev].next = x
    <3>1. it[x].prev \in DOMAIN it /\ it[x].prev # HeapEnd /\ it[it[x].prev].next = x
      BY <2>2 DEF Chain
    <3> QED BY <3>1, <1>5
  <2>3. m[HeapEnd].used /\ m[HeapEnd].next = HeapEnd /\ m[0].prev = 0
    <3>1. /\ it[HeapEnd].used /\ it[HeapEnd].next = HeapEnd /\ it[0].prev = 0
          /\ HeapEnd \in DOMAIN it /\ 0 \in DOMAIN it /\ HeapEnd # p
      BY DEF Chain
    <3> QED BY <3>1, <1>5
  <2>4. /\ DOMAIN m \subseteq 0 .. HeapEnd /\ m \in [DOMAIN m -> Item]
        /\ 0 \in DOMAIN m /\ HeapEnd \in DOMAIN m
    BY <1>2 DEF Chain
  <2> QED BY <1>2, <2>1, <2>2, <2>3, <2>4 DEF Chain
<1> QED BY <1>2, <1>4, <1>5, <1>6 DEF m

-----------------------------------------------------------------------------
(* plug_holes *)

\* The blocks in use are the same in both, and as long.
SameUsed(it, jt) ==
  /\ {x \in DOMAIN jt : jt[x].used} = {x \in DOMAIN it : it[x].used}
  /\ \A x \in DOMAIN it : it[x].used => jt[x].next = it[x].next

LEMMA OnePredecessor ==
  ASSUME NEW it, Chain(it), NEW a \in DOMAIN it, NEW b \in DOMAIN it,
         a # HeapEnd, b # HeapEnd, it[a].next = it[b].next
  PROVE  a = b
<1>1. a \in Int /\ b \in Int
  BY HeaderValue DEF Chain
<1>2. a < it[a].next /\ b < it[b].next
  BY <1>1, HeaderValue DEF Chain, Item
<1>3. ~(a < b) /\ ~(b < a)
  BY <1>2 DEF Chain
<1> QED BY <1>1, <1>3

LEMMA JoinNextKeeps ==
  ASSUME NEW it, NEW l, Chain(it), Lowest(it, l), NEW p \in DOMAIN it, p # HeapEnd,
         Free(it, p), PluggedBut(it, p)
  PROVE  \E jt : /\ JoinNext([item |-> it, lfree |-> l], p) = [item |-> jt, lfree |-> l]
                 /\ Chain(jt) /\ Lowest(jt, l) /\ p \in DOMAIN jt /\ Free(jt, p) /\ SameUsed(it, jt)
                 /\ PluggedFrom(jt, p)
<1> DEFINE n == it[p].next
           jt == IF n = HeapEnd \/ ~Free(it, n) THEN it ELSE Joined(it, p)
<1>1. n # p /\ n \in DOMAIN it /\ p < n /\ p \in Int /\ n \in Int /\ it[HeapEnd].used
  BY HeaderValue DEF Chain
<1>2. l # n \/ n = HeapEnd \/ ~Free(it, n)
  BY <1>1 DEF Lowest, Free
<1>3. JoinNext([item |-> it, lfree |-> l], p) = [item |-> jt, lfree |-> l]
  BY <1>1, <1>2 DEF JoinNext, Joined
<1>4. CASE n = HeapEnd \/ ~Free(it, n)
  <2>1. it[n].used
    BY <1>4, <1>1 DEF Free
  <2>2. PluggedFrom(it, p)
    BY <2>1 DEF PluggedBut, PluggedFrom
  <2> QED BY <1>3, <1>4, <2>2 DEF SameUsed
<1>5. CASE n # HeapEnd /\ Free(it, n)
  <2> DEFINE j == Joined(it, p)
  <2>1. Chain(j)
    BY <1>1, <1>5, JoinedChain
  <2>2. /\ DOMAIN j = DOMAIN it \ {n}
        /\ \A x \in DOMAIN it \ {n} :
             /\ j[x].used = it[x].used
             /\ j[x].next = IF x = p THEN it[n].next ELSE it[x].next
    BY <1>1, <1>5, JoinedValue
  <2> HIDE DEF j
  <2>3. p \in DOMAIN j /\ Free(j, p)
    BY <2>2, <1>1 DEF Free
  <2>4. Lowest(j, l)
    BY <2>2, <1>2, <1>5 DEF Lowest, Free
  <2>5. SameUsed(it, j)
    BY <2>2, <1>5 DEF SameUsed, Free
  <2>6. ASSUME NEW q \in DOMAIN j, q # HeapEnd, Free(j, q), j[q].next # p
        PROVE  j[j[q].next].used
    <3>1. CASE q = p
      <4>1. it[n].next # p /\ it[n].next # n /\ it[n].next \in DOMAIN it
        BY <1>1, <1>5, HeaderValue DEF Chain
      <4>2. it[it[n].next].used
        BY <4>1, <1>1, <1>5 DEF PluggedBut
      <4> QED BY <3>1, <4>1, <4>2, <2>2
    <3>2. CASE q # p
      <4>1. j[q].next = it[q].next /\ Free(it, q) /\ q \in DOMAIN it
        BY <3>2, <2>2, <2>6 DEF Free
      <4>2. it[it[q].next].used /\ it[q].next \in DOMAIN it
        BY <4>1, <3>2, <2>6 DEF PluggedBut, Chain
      <4>3. it[q].next # n
        BY <4>2, <1>5 DEF Free
      <4> QED BY <4>1, <4>2, <4>3, <2>2
    <3> QED BY <3>1, <3>2
  <2> QED BY <1>3, <1>5, <2>1, <2>3, <2>4, <2>5, <2>6 DEF j, PluggedFrom
<1> QED BY <1>4, <1>5

LEMMA JoinedBack ==
  ASSUME NEW it, NEW l, Chain(it), Lowest(it, l), NEW p \in DOMAIN it, p # HeapEnd, Free(it, p),
         PluggedFrom(it, p),
         NEW b \in DOMAIN it, b # HeapEnd, p = it[b].next, Free(it, b), l # p
  PROVE  LET j == Joined(it, b) IN Chain(j) /\ Lowest(j, l) /\ SameUsed(it, j) /\ Plugged(j)
<1> DEFINE j == Joined(it, b)
<1>1. Chain(j)
  BY JoinedChain
<1>2. /\ DOMAIN j = DOMAIN it \ {p}
      /\ \A x \in DOMAIN it \ {p} :
           /\ j[x].used = it[x].used
           /\ j[x].next = IF x = b THEN it[p].next ELSE it[x].next
  BY JoinedValue
<1> HIDE DEF j
<1>3. Lowest(j, l)
  BY <1>2 DEF Lowest, Free
<1>4. SameUsed(it, j)
  BY <1>2 DEF SameUsed, Free
<1>5. ASSUME NEW q \in DOMAIN j, q # HeapEnd, Free(j, q)
      PROVE  j[j[q].next].used
  <2>1. CASE q = b
    <3>1. it[p].next # p /\ it[p].next \in DOMAIN it
      BY HeaderValue DEF Chain
    <3>2. it[it[p].next].used
      BY <3>1 DEF PluggedFrom
    <3> QED BY <2>1, <3>1, <3>2, <1>2
  <2>2. CASE q # b
    <3>1. j[q].next = it[q].next /\ Free(it, q) /\ q \in DOMAIN it
      BY <2>2, <1>2, <1>5 DEF Free
    <3>2. it[q].next # p
      BY <3>1, <2>2, <1>5, OnePredecessor
    <3>3. it[it[q].next].used /\ it[q].next \in DOMAIN it
      BY <3>1, <3>2, <1>5 DEF Chain, PluggedFrom
    <3> QED BY <3>1, <3>2, <3>3, <1>2
  <2> QED BY <2>1, <2>2
<1> QED BY <1>1, <1>3, <1>4, <1>5 DEF j, Plugged

LEMMA JoinPrevKeeps ==
  ASSUME NEW it, NEW l, Chain(it), Lowest(it, l), NEW p \in DOMAIN it, p # HeapEnd, Free(it, p),
         PluggedFrom(it, p)
  PROVE  \E jt : /\ JoinPrev([item |-> it, lfree |-> l], p) = [item |-> jt, lfree |-> l]
                 /\ Chain(jt) /\ Lowest(jt, l) /\ SameUsed(it, jt) /\ Plugged(jt)
<1> DEFINE b == it[p].prev
           jt == IF b = p \/ ~Free(it, b) THEN it ELSE Joined(it, b)
<1>1. /\ p # 0 => b \in DOMAIN it /\ b # HeapEnd /\ it[b].next = p
      /\ p = 0 => b = 0
  BY DEF Chain
<1>2. \A x \in DOMAIN it : x \in Int /\ x >= 0 /\ (x # HeapEnd => x < it[x].next)
  BY HeaderValue DEF Chain, Item
<1>3. b = p \/ ~Free(it, b) \/ l # p
  BY <1>1, <1>2 DEF Lowest, Free
<1>4. JoinPrev([item |-> it, lfree |-> l], p) = [item |-> jt, lfree |-> l]
  <2> DEFINE h == [item |-> it, lfree |-> l]
  <2>0. h.item = it /\ h.lfree = l
    OBVIOUS
  <2>1. CASE b = p \/ ~Free(it, b)
    <3>1. JoinPrev(h, p) = h
      <4> HIDE DEF h
      <4> QED BY <2>0, <2>1, Zenon DEF JoinPrev
    <3> QED BY <2>1, <3>1
  <2>2. CASE b # p /\ Free(it, b)
    BY <2>2, <1>1, <1>3, Zenon DEF JoinPrev, Joined
  <2> QED BY <2>1, <2>2
<1>5. CASE b = p \/ ~Free(it, b)
  <2>1. Plugged(it)
    <3> SUFFICES ASSUME NEW q \in DOMAIN it, q # HeapEnd, Free(it, q), it[q].next = p PROVE FALSE
      BY DEF Plugged, PluggedFrom
    <3>1. p # 0
      BY <1>2
    <3>2. q = b
      BY <3>1, <1>1, OnePredecessor
    <3> QED BY <3>2, <1>2, <1>5
  <2> QED BY <1>4, <1>5, <2>1 DEF SameUsed
<1>6. CASE b # p /\ Free(it, b)
  <2>1. b \in DOMAIN it /\ b # HeapEnd /\ p = it[b].next /\ l # p
    BY <1>1, <1>3, <1>6
  <2> HIDE DEF b
  <2>2. LET j == Joined(it, b) IN Chain(j) /\ Lowest(j, l) /\ SameUsed(it, j) /\ Plugged(j)
    BY <2>1, <1>6, JoinedBack
  <2> QED BY <1>4, <1>6, <2>2
<1> QED BY <1>5, <1>6

LEMMA PlugKeeps ==
  ASSUME NEW it, NEW l, Chain(it), Lowest(it, l), NEW p \in DOMAIN it, p # HeapEnd,
         Free(it, p), PluggedBut(it, p)
  PROVE  \E jt : /\ PlugHoles([item |-> it, lfree |-> l], p) = [item |-> jt, lfree |-> l]
                 /\ Chain(jt) /\ Lowest(jt, l) /\ Plugged(jt) /\ SameUsed(it, jt)
<1>1. PICK mt : /\ JoinNext([item |-> it, lfree |-> l], p) = [item |-> mt, lfree |-> l]
                /\ Chain(mt) /\ Lowest(mt, l) /\ p \in DOMAIN mt /\ Free(mt, p) /\ SameUsed(it, mt)
                /\ PluggedFrom(mt, p)
  BY JoinNextKeeps
<1>2. PICK jt : /\ JoinPrev([item |-> mt, lfree |-> l], p) = [item |-> jt, lfree |-> l]
                /\ Chain(jt) /\ Lowest(jt, l) /\ SameUsed(mt, jt) /\ Plugged(jt)
  BY <1>1, JoinPrevKeeps
<1>3. SameUsed(it, jt)
  BY <1>1, <1>2 DEF SameUsed
<1> QED BY <1>1, <1>2, <1>3 DEF PlugHoles

-----------------------------------------------------------------------------
(* What each call does to the headers. *)

\* jt and jl are it and l after the block at p was freed.
WithoutBlock(it, l, p, jt, jl) ==
  /\ Freed([item |-> it, lfree |-> l], p) = [item |-> jt, lfree |-> jl]
  /\ Chain(jt) /\ Lowest(jt, jl) /\ Plugged(jt)
  /\ {x \in DOMAIN jt : jt[x].used} = {x \in DOMAIN it : it[x].used} \ {p}
  /\ \A x \in DOMAIN it : it[x].used /\ x # p => jt[x].next = it[x].next

\* rt_smem_free of a block in use
LEMMA FreedKeeps ==
  ASSUME NEW it, NEW l, Chain(it), Lowest(it, l), Plugged(it),
         NEW p \in DOMAIN it, p # HeapEnd, it[p].used
  PROVE  \E jt, jl : WithoutBlock(it, l, p, jt, jl)
<1> DEFINE m == [it EXCEPT ![p].used = FALSE]
           k == IF p < l THEN p ELSE l
<1>1. /\ Chain(m) /\ DOMAIN m = DOMAIN it /\ ~m[p].used
      /\ \A x \in DOMAIN it : m[x].next = it[x].next /\ (x # p => m[x].used = it[x].used)
  <2>1. FALSE \in BOOLEAN
    OBVIOUS
  <2> QED BY <2>1, MarkedChain
<1>2. Freed([item |-> it, lfree |-> l], p) = PlugHoles([item |-> m, lfree |-> k], p)
  BY DEF Freed
<1> HIDE DEF m
<1>3. Lowest(m, k)
  <2>1. p # l /\ p \in Int /\ \A x \in DOMAIN it : x \in Int
    BY HeaderValue DEF Lowest, Free, Chain
  <2>2. l \in DOMAIN it /\ l \in Int
    BY <2>1 DEF Lowest
  <2>3. CASE p < l
    BY <2>1, <2>2, <2>3, <1>1 DEF Lowest, Free
  <2>4. CASE ~(p < l)
    BY <2>1, <2>2, <2>4, <1>1 DEF Lowest, Free
  <2> QED BY <2>3, <2>4
<1>4. PluggedBut(m, p)
  BY <1>1 DEF PluggedBut, Plugged, Free, Chain
<1> HIDE DEF k
<1>5. PICK jt : /\ PlugHoles([item |-> m, lfree |-> k], p) = [item |-> jt, lfree |-> k]
                /\ Chain(jt) /\ Lowest(jt, k) /\ Plugged(jt) /\ SameUsed(m, jt)
  BY <1>1, <1>3, <1>4, PlugKeeps DEF Free
<1>6. {x \in DOMAIN jt : jt[x].used} = {x \in DOMAIN it : it[x].used} \ {p}
  BY <1>1, <1>5 DEF SameUsed
<1>7. \A x \in DOMAIN it : it[x].used /\ x # p => jt[x].next = it[x].next
  BY <1>1, <1>5 DEF SameUsed
<1> QED BY <1>2, <1>5, <1>6, <1>7 DEF WithoutBlock

\* The fit of rt_smem_alloc, split or not
LEMMA TakenKeeps ==
  ASSUME Chain(item), Lowest(item, lfree), Plugged(item),
         NEW p \in DOMAIN item, NEW size \in Nat, FirstFit(p, size)
  PROVE  \E jt, jl :
            /\ Taken(p, size) = [item |-> jt, lfree |-> jl]
            /\ Chain(jt) /\ Lowest(jt, jl) /\ Plugged(jt)
            /\ p # HeapEnd /\ ~item[p].used
            /\ p \in DOMAIN jt /\ p + Header + size <= jt[p].next /\ jt[p].next <= item[p].next
            /\ {x \in DOMAIN jt : jt[x].used} = {x \in DOMAIN item : item[x].used} \cup {p}
            /\ \A x \in DOMAIN item : item[x].used => jt[x].next = item[x].next
<1> DEFINE q == p + Header + size
           st == IF Splits(p, size) THEN Split(item, p, size) ELSE item
           jt == [st EXCEPT ![p].used = TRUE]
           jl == IF p = lfree THEN LowestFree(jt, lfree) ELSE lfree
<1>1. p # HeapEnd /\ ~item[p].used /\ q <= item[p].next /\ p >= lfree
  BY HeaderValue DEF FirstFit, Holds, Free, Data, Chain, Item
<1>2. Taken(p, size) = [item |-> jt, lfree |-> jl]
  BY DEF Taken
<1>3. /\ Chain(st) /\ p \in DOMAIN st /\ ~st[p].used
      /\ \A x \in DOMAIN item : x \in DOMAIN st /\ st[x].used = item[x].used
                                 /\ (x # p => st[x].next = item[x].next)
      /\ \A x \in DOMAIN st : x \in DOMAIN item \/ (x > p /\ ~st[x].used /\ st[x].next = item[p].next)
      /\ q <= st[p].next /\ st[p].next <= item[p].next
  <2>1. CASE Splits(p, size)
    <3>1. q + Header <= item[p].next /\ q \in Int /\ p < q /\ p + Header <= q
      BY <2>1, HeaderValue DEF Splits, Data, Chain, Item
    <3> DEFINE s == Split(item, p, size)
    <3>2. IsCut(item, s, p, q)
      BY <1>1, <3>1, SplitValue
    <3> HIDE DEF s, q
    <3>7. Chain(s)
      BY <1>1, <3>1, <3>2, SplitChain
    <3>3. DOMAIN s = DOMAIN item \cup {q} /\ ~s[q].used /\ s[q].next = item[p].next /\ s[p].next = q
      BY <3>2 DEF IsCut
    <3>6. \A x \in DOMAIN item : /\ s[x].used = item[x].used
                                 /\ x # p => s[x].next = item[x].next
      BY <3>2 DEF IsCut
    <3>4. st = s
      BY <2>1 DEF s
    <3>5. item[p].next \in Int
      BY HeaderValue DEF Chain, Item
    <3> HIDE DEF st, q
    <3> QED BY <3>1, <3>3, <3>4, <3>5, <3>6, <3>7, <1>1, HeaderValue
  <2>2. CASE ~Splits(p, size)
    <3>1. st = item /\ item[p].next \in Int
      BY <2>2, HeaderValue DEF Chain, Item
    <3> HIDE DEF st
    <3> QED BY <3>1, <1>1
  <2> QED BY <2>1, <2>2
<1> HIDE DEF st
<1>4. /\ Chain(jt) /\ DOMAIN jt = DOMAIN st /\ jt[p].used
      /\ \A x \in DOMAIN st : jt[x].next = st[x].next /\ (x # p => jt[x].used = st[x].used)
  <2>1. TRUE \in BOOLEAN
    OBVIOUS
  <2> QED BY <2>1, <1>1, <1>3, MarkedChain
<1> HIDE DEF jt
<1>5. \A x \in DOMAIN jt : x < lfree => jt[x].used
  <2> TAKE x \in DOMAIN jt
  <2>1. x \in Int /\ p \in Int /\ lfree \in Int
    BY HeaderValue, <1>4 DEF Chain, Lowest
  <2> QED BY <2>1, <1>1, <1>3, <1>4 DEF Lowest
<1>6. Lowest(jt, jl)
  <2>1. CASE p = lfree
    <3>1. Lowest(jt, LowestFree(jt, lfree))
      BY <2>1, <1>3, <1>4, <1>5, LowestFreeIs
    <3> QED BY <2>1, <3>1
  <2>2. CASE p # lfree
    BY <2>2, <1>3, <1>4, <1>5 DEF Lowest, Free
  <2> QED BY <2>1, <2>2
<1> HIDE DEF jl
<1>7. Plugged(jt)
  <2> SUFFICES ASSUME NEW x \in DOMAIN jt, x # HeapEnd, Free(jt, x)
               PROVE  jt[jt[x].next].used
    BY DEF Plugged
  <2>1. x # p /\ ~st[x].used /\ jt[x].next = st[x].next
    BY <1>4 DEF Free
  <2>2. CASE x \in DOMAIN item
    <3>1. ~item[x].used /\ st[x].next = item[x].next /\ item[x].next \in DOMAIN item
      BY <2>1, <2>2, <1>3 DEF Chain
    <3>2. item[item[x].next].used
      BY <2>2, <3>1 DEF Plugged, Free
    <3> QED BY <2>1, <3>1, <3>2, <1>1, <1>3, <1>4
  <2>3. CASE x \notin DOMAIN item
    <3>1. st[x].next = item[p].next /\ item[p].next \in DOMAIN item /\ item[item[p].next].used
      BY <2>3, <1>1, <1>3, <1>4 DEF Plugged, Free, Chain
    <3> QED BY <2>1, <3>1, <1>1, <1>3, <1>4
  <2> QED BY <2>2, <2>3
<1>8. {x \in DOMAIN jt : jt[x].used} = {x \in DOMAIN item : item[x].used} \cup {p}
  BY <1>3, <1>4
<1>9. \A x \in DOMAIN item : item[x].used => jt[x].next = item[x].next
  BY <1>1, <1>3, <1>4
<1> QED BY <1>1, <1>2, <1>3, <1>4, <1>6, <1>7, <1>8, <1>9

\* The block at p is cut at q, and the rest is joined with a free block behind.
ShrunkTo(it, l, p, q, size, jt, jl) ==
  /\ PlugHoles([item |-> Split(it, p, size), lfree |-> IF q < l THEN q ELSE l], q)
       = [item |-> jt, lfree |-> jl]
  /\ Chain(jt) /\ Lowest(jt, jl) /\ Plugged(jt)
  /\ {x \in DOMAIN jt : jt[x].used} = {x \in DOMAIN it : it[x].used}
  /\ jt[p].next = q
  /\ \A x \in DOMAIN it : it[x].used /\ x # p => jt[x].next = it[x].next

\* The shrinking of a block in place by rt_smem_realloc
LEMMA ShrunkKeeps ==
  ASSUME NEW it, NEW l, Chain(it), Lowest(it, l), Plugged(it),
         NEW p \in DOMAIN it, p # HeapEnd, it[p].used,
         NEW size \in Nat, NEW q, q = p + Header + size, q + Header <= it[p].next
  PROVE  \E jt, jl : ShrunkTo(it, l, p, q, size, jt, jl)
<1> DEFINE s == Split(it, p, size)
           k == IF q < l THEN q ELSE l
<1>0. IsCut(it, s, p, q)
  BY SplitValue
<1> HIDE DEF s
<1>1. Chain(s) /\ q \in Int
  <2>1. q \in Int /\ p + Header <= q
    BY HeaderValue DEF Chain
  <2> QED BY <2>1, <1>0, SplitChain
<1>2. DOMAIN s = DOMAIN it \cup {q} /\ q \notin DOMAIN it
  BY <1>0 DEF IsCut
<1>3. s[p].next = q /\ \A x \in DOMAIN it : /\ s[x].used = it[x].used
                                            /\ x # p => s[x].next = it[x].next
  BY <1>0 DEF IsCut
<1>4. ~s[q].used /\ s[q].next = it[p].next /\ q # HeapEnd
  BY <1>0 DEF Chain, IsCut
<1>5. Lowest(s, k)
  <2>1. l \in DOMAIN it /\ \A x \in DOMAIN s : x \in Int
    BY <1>1, HeaderValue DEF Lowest, Chain
  <2>2. l \in Int /\ q \in Int /\ l # q
    BY <2>1, <1>2
  <2> QED BY <2>1, <2>2, <1>2, <1>3, <1>4 DEF Lowest, Free
<1>6. PluggedBut(s, q)
  BY <1>2, <1>3 DEF PluggedBut, Plugged, Free, Chain
<1> HIDE DEF k
<1>7. PICK jt : /\ PlugHoles([item |-> s, lfree |-> k], q) = [item |-> jt, lfree |-> k]
                /\ Chain(jt) /\ Lowest(jt, k) /\ Plugged(jt) /\ SameUsed(s, jt)
  BY <1>1, <1>2, <1>4, <1>5, <1>6, PlugKeeps DEF Free
<1>8. {x \in DOMAIN jt : jt[x].used} = {x \in DOMAIN it : it[x].used}
  BY <1>2, <1>3, <1>4, <1>7 DEF SameUsed
<1>9. jt[p].next = q /\ \A x \in DOMAIN it : it[x].used /\ x # p => jt[x].next = it[x].next
  BY <1>2, <1>3, <1>7 DEF SameUsed
<1> QED BY <1>7, <1>8, <1>9 DEF s, k, ShrunkTo

-----------------------------------------------------------------------------
(* The invariant. *)

\* The blocks in use are those that callers have, and long enough for them.
Asked ==
  /\ DOMAIN asked = Live
  /\ \A p \in Live : asked[p] \in Nat /\ p + Header + asked[p] <= item[p].next

\* The statistics are numbers, and the use is what the blocks occupy.
Counted == UsedIsSum /\ used \in Int /\ max \in Int

HeapInv == Chain(item) /\ Lowest(item, lfree) /\ Plugged(item) /\ Asked /\ Counted

\* What the blocks at S occupy.
Space(it, S) == [p \in S |-> it[p].next - p]

\* The block at x counts for its length.
AddsOne(it, S, x) ==
  /\ SumFunction(Space(it, S \ {x})) \in Int
  /\ it[x].next - x \in Int
  /\ SumFunction(Space(it, S)) = it[x].next - x + SumFunction(Space(it, S \ {x}))

LEMMA SpaceOfOne ==
  ASSUME NEW it, Chain(it), NEW S \in SUBSET (DOMAIN it), NEW x \in S
  PROVE  AddsOne(it, S, x)
<1>1. IsFiniteSet(S)
  <2>1. IsFiniteSet(0 .. HeapEnd)
    BY FS_Interval, HeaderValue
  <2>2. S \in SUBSET (0 .. HeapEnd)
    BY DEF Chain
  <2> QED BY <2>1, <2>2, FS_Subset
<1>2. Space(it, S) \in [S -> Int] /\ it[x].next - x \in Int
  BY HeaderValue DEF Space, Chain, Item
<1>3. [p \in S \ {x} |-> Space(it, S)[p]] = Space(it, S \ {x}) /\ Space(it, S)[x] = it[x].next - x
  BY DEF Space
<1> DEFINE f == Space(it, S)
           r == SumFunction(Space(it, S \ {x}))
<1>4. SumFunction(f) \in Int /\ SumFunction(f) = f[x] + r
  <2>1. f \in [S -> Int] /\ [p \in S \ {x} |-> f[p]] = Space(it, S \ {x})
    BY <1>2, <1>3
  <2> HIDE DEF f
  <2> QED BY <1>1, <2>1, SumWithout
<1>5. r \in Int
  <2>1. CASE S \ {x} = {}
    <3>1. Space(it, S \ {x}) \in [{} -> Int]
      BY <2>1 DEF Space
    <3>2. r = 0
      BY <3>1, SumOfNothing
    <3> QED BY <3>2
  <2>2. CASE S \ {x} # {}
    <3>1. PICK y \in S \ {x} : TRUE
      BY <2>2
    <3>2. IsFiniteSet(S \ {x}) /\ Space(it, S \ {x}) \in [S \ {x} -> Int]
      BY <1>1, FS_RemoveElement, HeaderValue DEF Space, Chain, Item
    <3> QED BY <3>1, <3>2, SumWithout
  <2> QED BY <2>1, <2>2
<1> QED BY <1>2, <1>3, <1>4, <1>5 DEF AddsOne

LEMMA SpaceAgrees ==
  ASSUME NEW it, NEW jt, NEW S, \A x \in S : it[x].next = jt[x].next
  PROVE  SumFunction(Space(it, S)) = SumFunction(Space(jt, S))
<1>1. Space(it, S) = Space(jt, S)
  BY DEF Space
<1> QED BY <1>1

\* n bytes fit at p, clear of the regions of the blocks in S.
Room(p, n, S) ==
  /\ p \in 0 .. HeapEnd /\ p + Header + n <= HeapEnd
  /\ \A x \in S : x + Header + asked[x] <= p \/ p + Header + n <= x

LEMMA ChainHasRoom ==
  ASSUME NEW it, Chain(it), NEW p \in DOMAIN it, p # HeapEnd, NEW n \in Nat,
         p + Header + n <= it[p].next,
         NEW S \in SUBSET (DOMAIN it \ {p, HeapEnd}),
         \A x \in S : asked[x] \in Nat /\ x + Header + asked[x] <= it[x].next
  PROVE  Room(p, n, S)
<1>1. \A x \in DOMAIN it : x \in 0 .. HeapEnd /\ x \in Int /\ it[x].next \in Int /\ it[x].next <= HeapEnd
  BY HeaderValue DEF Chain, Item
<1>2. p + Header + n <= HeapEnd
  BY <1>1, HeaderValue
<1>3. ASSUME NEW x \in S
      PROVE  x + Header + asked[x] <= p \/ p + Header + n <= x
  <2>1. x \in Int /\ p \in Int /\ x # p
    BY <1>1
  <2>2. ~(x < p /\ p < it[x].next) /\ ~(p < x /\ x < it[p].next)
    BY DEF Chain
  <2> QED BY <2>1, <2>2, <1>1, HeaderValue
<1> QED BY <1>1, <1>2, <1>3 DEF Room

LEMMA UsedIsLive ==
  ASSUME NEW jt, Chain(jt), item' = jt
  PROVE  Live' = {x \in DOMAIN jt : jt[x].used} \ {HeapEnd}
BY DEF Live

\* A block more, and a block less
LEMMA GainCounted ==
  ASSUME HeapInv, Chain(item'), NEW p, p \notin Live, Live' = Live \cup {p}, used' = used + Cost(item', p),
         max' = Highest(used'), \A x \in Live : item'[x].next = item[x].next
  PROVE  Counted'
<1>1. used = SumFunction(Space(item, Live)) /\ used \in Int /\ max \in Int
  BY DEF HeapInv, Counted, UsedIsSum, Space
<1>2. PICK it, S : it = item' /\ S = Live'
  OBVIOUS
<1>3. S \in SUBSET (DOMAIN it) /\ p \in S /\ S \ {p} = Live
  BY <1>2 DEF Live
<1>4. SumFunction(Space(it, S)) = it[p].next - p + SumFunction(Space(it, Live)) /\ it[p].next - p \in Int
  <2>1. AddsOne(it, S, p)
    BY <1>2, <1>3, SpaceOfOne, Zenon
  <2> QED BY <1>3, <2>1 DEF AddsOne
<1>5. SumFunction(Space(it, Live)) = SumFunction(Space(item, Live))
  BY <1>2, SpaceAgrees
<1>6. used' = SumFunction(Space(it, S)) /\ used' \in Int
  BY <1>1, <1>2, <1>4, <1>5 DEF Cost
<1>7. max' \in Int /\ used' <= max'
  BY <1>1, <1>6 DEF Highest
<1> QED BY <1>2, <1>6, <1>7 DEF Counted, UsedIsSum, Space

LEMMA LossCounted ==
  ASSUME HeapInv, NEW p \in Live, Live' = Live \ {p}, used' = used - Cost(item, p), max' = max,
         \A x \in Live \ {p} : item'[x].next = item[x].next
  PROVE  Counted'
<1>1. used = SumFunction(Space(item, Live)) /\ used \in Int /\ max \in Int /\ used <= max
  BY DEF HeapInv, Counted, UsedIsSum, Space
<1>2. PICK it, S : it = item' /\ S = Live'
  OBVIOUS
<1>3. Live \in SUBSET (DOMAIN item) /\ S = Live \ {p}
  BY <1>2 DEF Live
<1>4. /\ SumFunction(Space(item, Live)) = item[p].next - p + SumFunction(Space(item, Live \ {p}))
      /\ SumFunction(Space(item, Live \ {p})) \in Int /\ item[p].next - p \in Int
  <2>1. Chain(item) /\ Live \in SUBSET (DOMAIN item)
    BY <1>3 DEF HeapInv
  <2>2. AddsOne(item, Live, p)
    BY <2>1, SpaceOfOne, Zenon
  <2> QED BY <2>2 DEF AddsOne
<1>5. SumFunction(Space(it, S)) = SumFunction(Space(item, S))
  BY <1>2, <1>3, SpaceAgrees
<1>6. used' = SumFunction(Space(it, S)) /\ used' \in Int
  BY <1>1, <1>3, <1>4, <1>5 DEF Cost
<1>7. item[p].next - p >= 0
  BY HeaderValue DEF HeapInv, Chain, Live, Item
<1>8. max' \in Int /\ used' <= max'
  BY <1>1, <1>4, <1>7 DEF Cost
<1> QED BY <1>2, <1>6, <1>8 DEF Counted, UsedIsSum, Space

\* A block of another length, and a block in place of another
LEMMA ResizeCounted ==
  ASSUME HeapInv, Chain(item'), NEW p \in Live, Live' = Live,
         used' = used - Cost(item, p) + Cost(item', p), max' = max,
         item'[p].next <= item[p].next, \A x \in Live : x # p => item'[x].next = item[x].next
  PROVE  Counted'
<1>1. used = SumFunction(Space(item, Live)) /\ used \in Int /\ max \in Int /\ used <= max
  BY DEF HeapInv, Counted, UsedIsSum, Space
<1>2. PICK it : it = item'
  OBVIOUS
<1>3. Live \in SUBSET (DOMAIN item) /\ Live \in SUBSET (DOMAIN it)
  BY <1>2 DEF Live
<1>4. /\ SumFunction(Space(item, Live)) = item[p].next - p + SumFunction(Space(item, Live \ {p}))
      /\ SumFunction(Space(item, Live \ {p})) \in Int /\ item[p].next - p \in Int
  <2>1. Chain(item) /\ Live \in SUBSET (DOMAIN item)
    BY <1>3 DEF HeapInv
  <2>2. AddsOne(item, Live, p)
    BY <2>1, SpaceOfOne, Zenon
  <2> QED BY <2>2 DEF AddsOne
<1>5. /\ SumFunction(Space(it, Live)) = it[p].next - p + SumFunction(Space(it, Live \ {p}))
      /\ it[p].next - p \in Int
  <2>1. Chain(it)
    BY <1>2
  <2>2. Live \in SUBSET (DOMAIN it)
    BY <1>3
  <2>3. AddsOne(it, Live, p)
    BY <2>1, <2>2, SpaceOfOne, Zenon
  <2> QED BY <2>3 DEF AddsOne
<1>6. SumFunction(Space(it, Live \ {p})) = SumFunction(Space(item, Live \ {p}))
  BY <1>2, <1>3, SpaceAgrees
<1>7. used' = SumFunction(Space(it, Live)) /\ used' \in Int
  BY <1>1, <1>2, <1>4, <1>5, <1>6 DEF Cost
<1>8. item[p].next \in Int /\ it[p].next \in Int /\ p \in Int
  BY <1>2, <1>3, HeaderValue DEF HeapInv, Chain, Item
<1>9. used' <= max'
  BY <1>1, <1>2, <1>8 DEF Cost
<1> QED BY <1>1, <1>2, <1>7, <1>9 DEF Counted, UsedIsSum, Space

LEMMA MoveCounted ==
  ASSUME HeapInv, Chain(item'), NEW p \in Live, NEW q, q \notin Live, Live' = (Live \ {p}) \cup {q},
         used' = used + Cost(item', q) - Cost(item, p), max' = Highest(used + Cost(item', q)),
         \A x \in Live \ {p} : item'[x].next = item[x].next
  PROVE  Counted'
<1>1. used = SumFunction(Space(item, Live)) /\ used \in Int /\ max \in Int
  BY DEF HeapInv, Counted, UsedIsSum, Space
<1>2. PICK it, S : it = item' /\ S = Live'
  OBVIOUS
<1>3. /\ Live \in SUBSET (DOMAIN item) /\ S \in SUBSET (DOMAIN it) /\ q \in S
      /\ S \ {q} = Live \ {p}
  BY <1>2 DEF Live
<1>4. /\ SumFunction(Space(item, Live)) = item[p].next - p + SumFunction(Space(item, Live \ {p}))
      /\ SumFunction(Space(item, Live \ {p})) \in Int /\ item[p].next - p \in Int
  <2>1. Chain(item) /\ Live \in SUBSET (DOMAIN item)
    BY <1>3 DEF HeapInv
  <2>2. AddsOne(item, Live, p)
    BY <2>1, SpaceOfOne, Zenon
  <2> QED BY <2>2 DEF AddsOne
<1>5. /\ SumFunction(Space(it, S)) = it[q].next - q + SumFunction(Space(it, Live \ {p}))
      /\ it[q].next - q \in Int
  <2>1. Chain(it) /\ S \in SUBSET (DOMAIN it) /\ q \in S
    BY <1>2, <1>3
  <2>2. /\ SumFunction(Space(it, S)) = it[q].next - q + SumFunction(Space(it, S \ {q}))
        /\ it[q].next - q \in Int
    <3>1. AddsOne(it, S, q)
      BY <2>1, SpaceOfOne, Zenon
    <3> QED BY <3>1 DEF AddsOne
  <2> QED BY <1>3, <2>2, Zenon
<1>6. SumFunction(Space(it, Live \ {p})) = SumFunction(Space(item, Live \ {p}))
  BY <1>2, SpaceAgrees
<1>7. used' = SumFunction(Space(it, S)) /\ used' \in Int
  BY <1>1, <1>2, <1>4, <1>5, <1>6 DEF Cost
<1>8. item[p].next - p >= 0
  BY HeaderValue DEF HeapInv, Chain, Live, Item
<1>9. max' \in Int /\ used' <= max'
  BY <1>1, <1>2, <1>4, <1>5, <1>8 DEF Cost, Highest
<1> QED BY <1>2, <1>7, <1>9 DEF Counted, UsedIsSum, Space

LEMMA AllocEffect ==
  ASSUME HeapInv, NEW n \in Nat, Alloc(n)
  PROVE  \E p : /\ p \notin Live /\ Live' = Live \cup {p} /\ asked' = With(asked, p, n)
                /\ Room(p, n, Live) /\ HeapInv'
<1>1. PICK p \in DOMAIN item : /\ FirstFit(p, Size(n)) /\ Becomes(Taken(p, Size(n)))
                              /\ asked' = With(asked, p, n)
                              /\ used' = used + Cost(Taken(p, Size(n)).item, p)
                              /\ max' = Highest(used')
  BY DEF Alloc
<1>2. Size(n) \in Nat /\ Size(n) >= n
  BY SizeValue
<1>3. PICK jt, jl :
            /\ Taken(p, Size(n)) = [item |-> jt, lfree |-> jl]
            /\ Chain(jt) /\ Lowest(jt, jl) /\ Plugged(jt)
            /\ p # HeapEnd /\ ~item[p].used
            /\ p \in DOMAIN jt /\ p + Header + Size(n) <= jt[p].next /\ jt[p].next <= item[p].next
            /\ {x \in DOMAIN jt : jt[x].used} = {x \in DOMAIN item : item[x].used} \cup {p}
            /\ \A x \in DOMAIN item : item[x].used => jt[x].next = item[x].next
  BY <1>1, <1>2, TakenKeeps DEF HeapInv
<1>4. item' = jt /\ lfree' = jl
  BY <1>1, <1>3 DEF Becomes
<1>5. p \notin Live /\ Live' = Live \cup {p}
  BY <1>3, <1>4 DEF Live
<1>6. p + Header + n <= jt[p].next
  BY <1>2, <1>3, HeaderValue DEF Chain, Item
<1>7. \A x \in Live : asked[x] \in Nat /\ x + Header + asked[x] <= jt[x].next /\ x \in DOMAIN jt
  BY <1>3 DEF HeapInv, Asked, Live
<1>8. Room(p, n, Live)
  BY <1>3, <1>5, <1>6, <1>7, ChainHasRoom DEF Live
<1>9. Asked'
  <2>1. DOMAIN asked' = Live'
    BY <1>1, <1>5 DEF With, HeapInv, Asked
  <2>2. \A x \in Live' : asked'[x] = IF x = p THEN n ELSE asked[x]
    BY <1>1, <1>5 DEF With, HeapInv, Asked
  <2> QED BY <2>1, <2>2, <1>4, <1>5, <1>6, <1>7 DEF Asked
<1>10. Counted'
  <2>1. used' = used + Cost(item', p) /\ max' = Highest(used')
    BY <1>1, <1>3, <1>4
  <2>2. \A x \in Live : item'[x].next = item[x].next
    BY <1>3, <1>4 DEF Live
  <2> QED BY <1>3, <1>4, <1>5, <2>1, <2>2, GainCounted
<1> QED BY <1>1, <1>3, <1>4, <1>5, <1>8, <1>9, <1>10 DEF HeapInv

LEMMA FreeEffect ==
  ASSUME HeapInv, NEW p \in Live, FreeBlock(p)
  PROVE  Live' = Live \ {p} /\ asked' = Without(asked, p) /\ HeapInv'
<1>1. p \in DOMAIN item /\ p # HeapEnd /\ item[p].used
  BY DEF Live
<1>2. PICK jt, jl :
            /\ Freed([item |-> item, lfree |-> lfree], p) = [item |-> jt, lfree |-> jl]
            /\ Chain(jt) /\ Lowest(jt, jl) /\ Plugged(jt)
            /\ {x \in DOMAIN jt : jt[x].used} = {x \in DOMAIN item : item[x].used} \ {p}
            /\ \A x \in DOMAIN item : item[x].used /\ x # p => jt[x].next = item[x].next
  <2>1. Chain(item) /\ Lowest(item, lfree) /\ Plugged(item)
    BY DEF HeapInv
  <2>2. PICK jt, jl : WithoutBlock(item, lfree, p, jt, jl)
    BY <1>1, <2>1, FreedKeeps
  <2> QED BY <2>2 DEF WithoutBlock
<1>3. item' = jt /\ lfree' = jl /\ asked' = Without(asked, p)
  BY <1>2 DEF FreeBlock, Becomes
<1>4. Live' = Live \ {p}
  BY <1>2, <1>3 DEF Live
<1>5. Asked'
  BY <1>2, <1>3, <1>4 DEF HeapInv, Asked, Without, Live
<1>6. Counted'
  <2>1. used' = used - Cost(item, p) /\ max' = max
    BY DEF FreeBlock
  <2>2. \A x \in Live \ {p} : item'[x].next = item[x].next
    BY <1>2, <1>3 DEF Live
  <2> QED BY <1>4, <2>1, <2>2, LossCounted
<1> QED BY <1>2, <1>3, <1>4, <1>5, <1>6 DEF HeapInv

\* A block that stays where it is and gets another length
LEMMA ResizedAsked ==
  ASSUME HeapInv, NEW p \in Live, NEW n \in Nat, Chain(item'), Live' = Live,
         asked' = With(asked, p, n), p + Header + n <= item'[p].next,
         \A x \in Live : x # p => item'[x].next = item[x].next
  PROVE  Asked' /\ Room(p, n, Live \ {p})
<1>1. \A x \in Live : asked[x] \in Nat /\ (x # p => x + Header + asked[x] <= item'[x].next)
  BY DEF HeapInv, Asked
<1>2. Live \ {p} \in SUBSET (DOMAIN item' \ {p, HeapEnd}) /\ p \in DOMAIN item' /\ p # HeapEnd
  BY DEF Live
<1>3. Room(p, n, Live \ {p})
  BY <1>1, <1>2, ChainHasRoom
<1>4. DOMAIN asked' = Live' /\ \A x \in Live' : asked'[x] = IF x = p THEN n ELSE asked[x]
  BY DEF With, HeapInv, Asked
<1> QED BY <1>1, <1>3, <1>4 DEF Asked

LEMMA KeepEffect ==
  ASSUME HeapInv, NEW p \in Live, NEW n \in Nat, Keep(p, n)
  PROVE  Live' = Live /\ asked' = With(asked, p, n) /\ Room(p, n, Live \ {p}) /\ HeapInv'
<1>1. item' = item /\ lfree' = lfree /\ asked' = With(asked, p, n) /\ Align(n) = Data(item, p)
  BY DEF Keep
<1>2. Live' = Live
  BY <1>1 DEF Live
<1>3. p + Header + n <= item[p].next
  BY <1>1, AlignValue, HeaderValue DEF Data, Live, HeapInv, Chain, Item
<1>4. Chain(item') /\ \A x \in Live : x # p => item'[x].next = item[x].next
  BY <1>1 DEF HeapInv
<1>5. Asked' /\ Room(p, n, Live \ {p})
  BY <1>1, <1>2, <1>3, <1>4, ResizedAsked
<1>6. Counted'
  BY <1>1, <1>2 DEF Keep, HeapInv, Counted, UsedIsSum
<1> QED BY <1>1, <1>2, <1>5, <1>6 DEF HeapInv

LEMMA ShrinkEffect ==
  ASSUME HeapInv, NEW p \in Live, NEW n \in Nat, Shrink(p, n)
  PROVE  Live' = Live /\ asked' = With(asked, p, n) /\ Room(p, n, Live \ {p}) /\ HeapInv'
<1> DEFINE q == p + Header + Align(n)
<1>1. p \in DOMAIN item /\ p # HeapEnd /\ item[p].used /\ p \in Int /\ item[p].next \in Int
  BY HeaderValue DEF Live, HeapInv, Chain, Item
<1>2. Align(n) \in Nat /\ Align(n) >= n
  BY AlignValue
<1>3. q + Header <= item[p].next
  BY <1>1, <1>2, HeaderValue DEF Shrink, Worth, Data, MIN_SIZE
<1>4. Becomes(PlugHoles([item |-> Split(item, p, Align(n)), lfree |-> IF q < lfree THEN q ELSE lfree], q))
      /\ asked' = With(asked, p, n)
  BY DEF Shrink
<1>5. p + Header + n <= q
  BY <1>1, <1>2, HeaderValue
<1>6. q = p + Header + Align(n)
  OBVIOUS
<1> HIDE DEF q
<1>7. PICK jt, jl : ShrunkTo(item, lfree, p, q, Align(n), jt, jl)
  <2>1. Chain(item) /\ Lowest(item, lfree) /\ Plugged(item)
    BY DEF HeapInv
  <2> QED BY <1>1, <1>2, <1>3, <1>6, <2>1, ShrunkKeeps, Zenon
<1>8. /\ Chain(jt) /\ Lowest(jt, jl) /\ Plugged(jt) /\ jt[p].next = q
      /\ {x \in DOMAIN jt : jt[x].used} = {x \in DOMAIN item : item[x].used}
      /\ \A x \in DOMAIN item : item[x].used /\ x # p => jt[x].next = item[x].next
  BY <1>7 DEF ShrunkTo
<1>9. item' = jt /\ lfree' = jl
  BY <1>4, <1>7 DEF Becomes, ShrunkTo
<1>10. Live' = Live
  BY <1>8, <1>9 DEF Live
<1>11. Asked' /\ Room(p, n, Live \ {p})
  <2>1. Chain(item') /\ p + Header + n <= item'[p].next
    BY <1>5, <1>8, <1>9
  <2>2. \A x \in Live : x # p => item'[x].next = item[x].next
    BY <1>8, <1>9 DEF Live
  <2> QED BY <2>1, <2>2, <1>4, <1>10, ResizedAsked
<1>12. Counted'
  <2>1. Chain(item') /\ item'[p].next = q /\ q <= item[p].next /\ q \in Int
    BY <1>1, <1>2, <1>3, <1>6, <1>8, <1>9, HeaderValue
  <2>2. used' = used - (Data(item, p) - Align(n)) /\ max' = max
    BY DEF Shrink
  <2>3. used' = used - Cost(item, p) + Cost(item', p)
    <3>1. used \in Int
      BY DEF HeapInv, Counted
    <3> QED BY <1>1, <1>2, <1>6, <2>1, <2>2, <3>1, HeaderValue DEF Cost, Data
  <2>4. \A x \in Live : x # p => item'[x].next = item[x].next
    BY <1>8, <1>9 DEF Live
  <2> QED BY <1>10, <2>1, <2>2, <2>3, <2>4, ResizeCounted
<1> QED BY <1>4, <1>8, <1>9, <1>10, <1>11, <1>12 DEF HeapInv

LEMMA MoveEffect ==
  ASSUME HeapInv, NEW p \in Live, NEW n \in Nat, Move(p, n)
  PROVE  \E q : /\ q \notin Live /\ Live' = (Live \ {p}) \cup {q}
                /\ asked' = With(Without(asked, p), q, n)
                /\ Room(q, n, Live) /\ HeapInv'
<1>1. PICK q \in DOMAIN item : /\ FirstFit(q, Size(n)) /\ Becomes(Freed(Taken(q, Size(n)), p))
                              /\ asked' = With(Without(asked, p), q, n)
                              /\ used' = used + Cost(Taken(q, Size(n)).item, q) - Cost(Taken(q, Size(n)).item, p)
                              /\ max' = Highest(used + Cost(Taken(q, Size(n)).item, q))
  BY DEF Move
<1>2. Size(n) \in Nat /\ Size(n) >= n
  BY SizeValue
<1>3. PICK jt, jl :
            /\ Taken(q, Size(n)) = [item |-> jt, lfree |-> jl]
            /\ Chain(jt) /\ Lowest(jt, jl) /\ Plugged(jt)
            /\ q # HeapEnd /\ ~item[q].used
            /\ q \in DOMAIN jt /\ q + Header + Size(n) <= jt[q].next /\ jt[q].next <= item[q].next
            /\ {x \in DOMAIN jt : jt[x].used} = {x \in DOMAIN item : item[x].used} \cup {q}
            /\ \A x \in DOMAIN item : item[x].used => jt[x].next = item[x].next
  BY <1>1, <1>2, TakenKeeps DEF HeapInv
<1>4. p \in DOMAIN jt /\ p # HeapEnd /\ jt[p].used /\ p # q
  BY <1>3 DEF Live
<1>5. PICK kt, kl :
            /\ Freed([item |-> jt, lfree |-> jl], p) = [item |-> kt, lfree |-> kl]
            /\ Chain(kt) /\ Lowest(kt, kl) /\ Plugged(kt)
            /\ {x \in DOMAIN kt : kt[x].used} = {x \in DOMAIN jt : jt[x].used} \ {p}
            /\ \A x \in DOMAIN jt : jt[x].used /\ x # p => kt[x].next = jt[x].next
  <2>1. Chain(jt) /\ Lowest(jt, jl) /\ Plugged(jt)
    BY <1>3
  <2>2. PICK kt, kl : WithoutBlock(jt, jl, p, kt, kl)
    BY <2>1, <1>4, FreedKeeps
  <2> QED BY <2>2 DEF WithoutBlock
<1>6. item' = kt /\ lfree' = kl
  BY <1>1, <1>3, <1>5 DEF Becomes
<1>7. q \notin Live /\ Live' = (Live \ {p}) \cup {q}
  BY <1>3, <1>4, <1>5, <1>6 DEF Live
<1>8. q + Header + n <= jt[q].next
  BY <1>2, <1>3, HeaderValue DEF Chain, Item
<1>9. \A x \in Live : /\ asked[x] \in Nat /\ x + Header + asked[x] <= jt[x].next
                      /\ x \in DOMAIN jt /\ jt[x].used /\ x # q
  BY <1>3 DEF HeapInv, Asked, Live
<1>10. Room(q, n, Live)
  BY <1>3, <1>7, <1>8, <1>9, ChainHasRoom DEF Live
<1>11. Asked'
  <2>1. DOMAIN asked' = Live' /\ \A x \in Live' : asked'[x] = IF x = q THEN n ELSE asked[x]
    BY <1>1, <1>7 DEF With, Without, HeapInv, Asked
  <2>2. ASSUME NEW x \in Live' PROVE asked'[x] \in Nat /\ x + Header + asked'[x] <= item'[x].next
    <3>1. CASE x = q
      <4>1. kt[q].next = jt[q].next
        BY <1>3, <1>4, <1>5
      <4> QED BY <3>1, <4>1, <2>1, <1>6, <1>8
    <3>2. CASE x # q
      <4>1. x \in Live /\ x # p
        BY <3>2, <1>7
      <4>2. kt[x].next = jt[x].next
        BY <4>1, <1>5, <1>9
      <4> QED BY <3>2, <4>1, <4>2, <2>1, <1>6, <1>9
    <3> QED BY <3>1, <3>2
  <2> QED BY <2>1, <2>2 DEF Asked
<1>12. Counted'
  <2>1. jt[p].next = item[p].next /\ kt[q].next = jt[q].next
    BY <1>3, <1>4, <1>5 DEF Live
  <2>2. used' = used + Cost(item', q) - Cost(item, p) /\ max' = Highest(used + Cost(item', q))
    BY <1>1, <1>3, <1>6, <2>1 DEF Cost
  <2>3. \A x \in Live \ {p} : item'[x].next = item[x].next
    BY <1>3, <1>5, <1>6 DEF Live
  <2> QED BY <1>5, <1>6, <1>7, <2>2, <2>3, MoveCounted
<1> QED BY <1>1, <1>5, <1>6, <1>7, <1>10, <1>11, <1>12 DEF HeapInv

-----------------------------------------------------------------------------
LEMMA InitKeeps == Init => HeapInv
<1> SUFFICES ASSUME Init PROVE HeapInv
  OBVIOUS
<1>1. DOMAIN item = {0, HeapEnd} /\ HeapEnd > 0
  BY HeaderValue, HeapAssumption DEF Init
<1>2. \A x \in {0, HeapEnd} : item[x] = [used |-> x = HeapEnd, next |-> HeapEnd, prev |-> x]
  BY DEF Init
<1>7. \A x \in {0, HeapEnd} : /\ item[x].next = HeapEnd /\ item[x].prev = x
                              /\ item[x].used <=> x = HeapEnd
  <2> TAKE x \in {0, HeapEnd}
  <2> DEFINE last == x = HeapEnd
  <2>1. item[x] = [used |-> last, next |-> HeapEnd, prev |-> x]
    BY <1>2
  <2>2. last <=> x = HeapEnd
    OBVIOUS
  <2> HIDE DEF last
  <2>3. item[x].next = HeapEnd /\ item[x].prev = x
    BY <2>1
  <2>4. item[x].used = last
    BY <2>1
  <2> QED BY <2>2, <2>3, <2>4
<1>3. item \in [DOMAIN item -> Item]
  <2>1. item = [x \in DOMAIN item |-> item[x]]
    BY DEF Init
  <2>2. ASSUME NEW x \in DOMAIN item PROVE item[x] \in Item
    <3>1. (x = HeapEnd) \in BOOLEAN /\ x \in 0 .. HeapEnd /\ HeapEnd \in 0 .. HeapEnd
      BY <1>1, HeaderValue
    <3>2. [used |-> x = HeapEnd, next |-> HeapEnd, prev |-> x] \in Item
      BY <3>1, Zenon DEF Item
    <3> QED BY <3>2, <1>1, <1>2
  <2> QED BY <2>1, <2>2
<1>4. Chain(item)
  BY <1>1, <1>3, <1>7, HeaderValue, HeapAssumption DEF Chain
<1>5. Lowest(item, lfree) /\ Plugged(item)
  BY <1>1, <1>7, HeaderValue DEF Lowest, Plugged, Free, Init
<1>6. Live = {} /\ DOMAIN asked = {}
  BY <1>1, <1>7 DEF Live, Init
<1>8. Counted
  <2>1. [p \in Live |-> item[p].next - p] \in [{} -> Int]
    BY <1>6
  <2>2. SumFunction([p \in Live |-> item[p].next - p]) = 0
    BY <2>1, SumOfNothing
  <2> QED BY <2>2 DEF Counted, UsedIsSum, Init
<1> QED BY <1>4, <1>5, <1>6, <1>8 DEF HeapInv, Asked

\* A call that finds no room leaves everything as it is.
LEMMA FailureChangesNothing ==
  /\ \A n \in Requests : AllocFails(n) => UNCHANGED vars
  /\ \A p \in Live, n \in Requests : ReallocFails(p, n) => UNCHANGED vars
BY DEF AllocFails, ReallocFails, LeavesTheOld, vars

LEMMA NextKeeps == HeapInv /\ [Next]_vars => HeapInv'
<1> SUFFICES ASSUME HeapInv, [Next]_vars PROVE HeapInv'
  OBVIOUS
<1>1. ASSUME NEW n \in Requests, Alloc(n) PROVE HeapInv'
  BY <1>1, AllocEffect, HeapAssumption
<1>2. ASSUME NEW p \in Live, FreeBlock(p) PROVE HeapInv'
  BY <1>2, FreeEffect
<1>3. ASSUME NEW p \in Live, NEW n \in Requests, Realloc(p, n) PROVE HeapInv'
  <2>1. n \in Nat
    BY HeapAssumption
  <2>2. CASE Keep(p, n)
    BY <2>1, <2>2, KeepEffect
  <2>3. CASE Shrink(p, n)
    BY <2>1, <2>3, ShrinkEffect
  <2>4. CASE Move(p, n)
    BY <2>1, <2>4, MoveEffect
  <2> QED BY <1>3, <2>2, <2>3, <2>4 DEF Realloc
<1>4. CASE UNCHANGED vars
  BY <1>4 DEF vars, HeapInv, Asked, Live, Counted, UsedIsSum
<1> QED BY <1>1, <1>2, <1>3, <1>4, FailureChangesNothing DEF Next

LEMMA HeapInvAlways == Spec => []HeapInv
<1> QED BY InitKeeps, NextKeeps, PTL DEF Spec

\* After any calls the headers tile the heap: the pointers that rt_smem_alloc,
\* rt_smem_realloc and plug_holes follow lead to headers, forward and back.
THEOREM HeapIsTiled == Spec => []HeapTiled
<1>1. HeapInv => HeapTiled
  BY ChainIsTiled DEF HeapInv
<1> QED BY <1>1, HeapInvAlways, PTL

\* plug_holes is called wherever free neighbours could come to be.
THEOREM HolesStayPlugged == Spec => []HolesPlugged
<1>1. HeapInv => HolesPlugged
  BY DEF HeapInv, Plugged, HolesPlugged
<1> QED BY <1>1, HeapInvAlways, PTL

\* lfree is never above a free block, nor on one in use.
THEOREM LowestFreeIsKnown == Spec => []LowestFreeKnown
<1>1. HeapInv => LowestFreeKnown
  BY LowestIsKnown DEF HeapInv
<1> QED BY <1>1, HeapInvAlways, PTL

\* The counts of rt_smem_alloc, rt_smem_realloc and rt_smem_free never drift
\* from what the blocks occupy, however long the heap is used.
THEOREM UseIsCounted == Spec => []UsedIsSum
<1>1. HeapInv => UsedIsSum
  BY DEF HeapInv, Counted
<1> QED BY <1>1, HeapInvAlways, PTL

\* A search that starts at lfree and ends short of mem_size_aligned - size still
\* finds every run of free bytes that is long enough: it is one block.
LEMMA RoomIsFound == HeapInv => FailsOnlyWhenFull
<1> SUFFICES ASSUME HeapInv, NEW n \in Requests \ {0}, NEW a \in DOMAIN item, NEW b \in DOMAIN item,
                    FreeRun(a, b), b - a >= Header + Size(n)
             PROVE  \E p \in DOMAIN item : FirstFit(p, Size(n))
  BY DEF FailsOnlyWhenFull
<1>1. PICK size \in Nat : size = Size(n)
  BY SizeValue, HeapAssumption
<1>2. \A x \in DOMAIN item : /\ x \in Nat /\ item[x].next \in DOMAIN item /\ item[x].next \in Nat
                             /\ item[x].next <= HeapEnd
  BY HeaderValue DEF HeapInv, Chain, Item
<1>3. ~item[a].used /\ a # HeapEnd /\ a < item[a].next
  BY <1>2, HeaderValue DEF FreeRun, Free, HeapInv, Chain
<1>4. item[a].next >= b
  <2>1. item[item[a].next].used
    BY <1>3 DEF HeapInv, Plugged, Free
  <2>2. item[a].next < b => ~item[item[a].next].used
    BY <1>2, <1>3 DEF FreeRun, Free
  <2> QED BY <1>2, <2>1, <2>2
<1>5. Holds(item, a, size)
  BY <1>1, <1>2, <1>3, <1>4, HeaderValue DEF Holds, Free, Data
<1> DEFINE S == {p \in DOMAIN item : Holds(item, p, size)}
<1>6. S \in SUBSET Nat /\ S # {}
  BY <1>2, <1>5
<1>7. PICK p \in S : \A q \in S : p <= q
  BY <1>6, LeastNatural
<1>8. p >= lfree
  BY <1>2, <1>7 DEF HeapInv, Lowest, Holds, Free
<1>9. p <= MemSize - size
  BY <1>2, HeaderValue, HeapAssumption DEF Holds, Data
<1>10. \A q \in DOMAIN item : lfree <= q /\ q < p => ~Holds(item, q, size)
  BY <1>2, <1>7
<1> QED BY <1>1, <1>8, <1>9, <1>10 DEF FirstFit

\* rt_malloc answers RT_NULL only when no run of free bytes is long enough.
THEOREM FailsWhenFull == Spec => []FailsOnlyWhenFull
BY RoomIsFound, HeapInvAlways, PTL

-----------------------------------------------------------------------------
(* What callers see. *)

Held(p, n) == [at |-> p, length |-> Header + n]
AllHeld(S) == {Held(p, asked[p]) : p \in S}

LEMMA RoomFits ==
  ASSUME HeapInv, NEW S \in SUBSET Live, NEW p, NEW n \in Nat, Room(p, n, S)
  PROVE  Regions!Fits(Held(p, n), AllHeld(S))
<1>1. Held(p, n) \in Regions!Region
  BY HeaderValue DEF Room, Held, Regions!Region
<1>2. p \in Int /\ p + (Header + n) <= HeapEnd
  BY HeaderValue DEF Room
<1>3. ASSUME NEW r \in AllHeld(S) PROVE Regions!Apart(Held(p, n), r)
  <2>1. PICK x \in S : r = Held(x, asked[x])
    BY DEF AllHeld
  <2>2. x \in Int /\ asked[x] \in Nat
    BY HeaderValue DEF HeapInv, Asked, Live, Chain
  <2>3. x + (Header + asked[x]) <= p \/ p + (Header + n) <= x
    BY <1>2, <2>2, HeaderValue DEF Room
  <2> QED BY <2>1, <2>3 DEF Regions!Apart, Held
<1> QED BY <1>1, <1>2, <1>3 DEF Regions!Fits, Held

LEMMA HeldAtOnce ==
  ASSUME NEW p \in Live, HeapInv
  PROVE  AllHeld(Live \ {p}) = AllHeld(Live) \ {Held(p, asked[p])}
BY DEF AllHeld, Held

\* A block at p of n bytes, and those of S as they were
LEMMA HeldAfter ==
  ASSUME NEW p, NEW n, NEW S \in SUBSET Live, Live' = S \cup {p}, p \notin S,
         asked'[p] = n, \A x \in S : asked'[x] = asked[x]
  PROVE  AllHeld(Live)' = AllHeld(S) \cup {Held(p, n)}
<1>1. AllHeld(Live)' = {Held(x, asked'[x]) : x \in Live'}
  BY DEF AllHeld, Held
<1> QED BY <1>1 DEF AllHeld

LEMMA ResizedHeld ==
  ASSUME HeapInv, NEW p \in Live, NEW n \in Nat, Live' = Live, asked' = With(asked, p, n),
         Room(p, n, Live \ {p})
  PROVE  \E r \in AllHeld(Live), s \in AllHeld(Live)' :
            /\ Regions!Fits(s, IF s.at = r.at THEN AllHeld(Live) \ {r} ELSE AllHeld(Live))
            /\ AllHeld(Live)' = (AllHeld(Live) \ {r}) \cup {s}
<1> DEFINE r == Held(p, asked[p])
           s == Held(p, n)
<1>1. AllHeld(Live)' = AllHeld(Live \ {p}) \cup {s}
  <2>1. DOMAIN asked = Live
    BY DEF HeapInv, Asked
  <2>2. /\ Live' = (Live \ {p}) \cup {p} /\ asked'[p] = n
        /\ \A x \in Live \ {p} : asked'[x] = asked[x]
    BY <2>1 DEF With
  <2> QED BY <2>2, HeldAfter
<1>2. AllHeld(Live \ {p}) = AllHeld(Live) \ {r} /\ r \in AllHeld(Live)
  BY HeldAtOnce DEF AllHeld
<1>3. Regions!Fits(s, AllHeld(Live \ {p}))
  BY RoomFits
<1>4. s.at = r.at
  BY DEF Held
<1> HIDE DEF r, s
<1> QED BY <1>1, <1>2, <1>3, <1>4

\* What callers hold, as they know it.
Callers == {[at |-> p, length |-> Header + asked[p]] : p \in DOMAIN asked}

LEMMA CallersHold == HeapInv => Callers = AllHeld(Live)
BY DEF AllHeld, Held, HeapInv, Asked, Callers

LEMMA StepIsRegions == HeapInv /\ HeapInv' /\ [Next]_vars => [Regions!Next]_Callers
<1> SUFFICES ASSUME HeapInv, HeapInv', [Next]_vars PROVE [Regions!Next]_Callers
  OBVIOUS
<1>c. Callers = AllHeld(Live) /\ Callers' = AllHeld(Live)'
  BY CallersHold DEF AllHeld, Held, HeapInv, Asked, Callers
<1>0. AllHeld(Live) = {[at |-> p, length |-> Header + asked[p]] : p \in Live} /\ DOMAIN asked = Live
  BY DEF AllHeld, Held, HeapInv, Asked
<1>1. ASSUME NEW n \in Requests, Alloc(n) PROVE Regions!Grant
  <2>1. n \in Nat
    BY HeapAssumption
  <2>2. PICK p : /\ p \notin Live /\ Live' = Live \cup {p} /\ asked' = With(asked, p, n)
                 /\ Room(p, n, Live)
    BY <1>1, <2>1, AllocEffect
  <2>3. AllHeld(Live)' = AllHeld(Live) \cup {Held(p, n)}
    <3>1. asked'[p] = n /\ \A x \in Live : asked'[x] = asked[x]
      BY <1>0, <2>2 DEF With
    <3> QED BY <2>2, <3>1, HeldAfter
  <2>4. Held(p, n) \notin AllHeld(Live)
    BY <2>2 DEF AllHeld, Held
  <2>5. Regions!Fits(Held(p, n), AllHeld(Live))
    BY <2>1, <2>2, RoomFits
  <2>6. Callers' = Callers \cup {Held(p, n)} /\ Held(p, n) \notin Callers
        /\ Regions!Fits(Held(p, n), Callers)
    BY <1>c, <2>3, <2>4, <2>5
  <2> QED BY <2>6 DEF Regions!Grant, Callers
<1>2. ASSUME NEW p \in Live, FreeBlock(p) PROVE Regions!GiveBack
  <2>1. Live' = Live \ {p} /\ asked' = Without(asked, p)
    BY <1>2, FreeEffect
  <2>2. AllHeld(Live)' = AllHeld(Live \ {p})
    BY <2>1, <1>0 DEF AllHeld, Without
  <2>3. AllHeld(Live)' = AllHeld(Live) \ {Held(p, asked[p])} /\ Held(p, asked[p]) \in AllHeld(Live)
    BY <2>2, HeldAtOnce DEF AllHeld
  <2>4. Callers' = Callers \ {Held(p, asked[p])} /\ Held(p, asked[p]) \in Callers
    BY <1>c, <2>3
  <2> QED BY <2>4 DEF Regions!GiveBack, Callers
<1>3. ASSUME NEW p \in Live, NEW n \in Requests, Realloc(p, n) PROVE Regions!Resize
  <2>0. n \in Nat
    BY HeapAssumption
  <2>1. ASSUME Keep(p, n) \/ Shrink(p, n) PROVE Regions!Resize
    <3>1. Live' = Live /\ asked' = With(asked, p, n) /\ Room(p, n, Live \ {p})
      BY <2>0, <2>1, KeepEffect, ShrinkEffect
    <3>2. \E r \in AllHeld(Live), s \in AllHeld(Live)' :
            /\ Regions!Fits(s, IF s.at = r.at THEN AllHeld(Live) \ {r} ELSE AllHeld(Live))
            /\ AllHeld(Live)' = (AllHeld(Live) \ {r}) \cup {s}
      BY <2>0, <3>1, ResizedHeld
    <3>3. \E r \in Callers, s \in Callers' :
            /\ Regions!Fits(s, IF s.at = r.at THEN Callers \ {r} ELSE Callers)
            /\ Callers' = (Callers \ {r}) \cup {s}
      BY <1>c, <3>2
    <3> QED BY <3>3 DEF Regions!Resize, Callers
  <2>2. ASSUME Move(p, n) PROVE Regions!Resize
    <3>1. PICK q : /\ q \notin Live /\ Live' = (Live \ {p}) \cup {q}
                   /\ asked' = With(Without(asked, p), q, n) /\ Room(q, n, Live)
      BY <2>0, <2>2, MoveEffect
    <3> DEFINE r == Held(p, asked[p])
               s == Held(q, n)
    <3>2. AllHeld(Live)' = AllHeld(Live \ {p}) \cup {s}
      <4>1. asked'[q] = n /\ \A x \in Live \ {p} : asked'[x] = asked[x]
        BY <1>0, <3>1 DEF With, Without
      <4> QED BY <3>1, <4>1, HeldAfter
    <3>3. AllHeld(Live \ {p}) = AllHeld(Live) \ {r} /\ r \in AllHeld(Live)
      BY HeldAtOnce DEF AllHeld
    <3>4. Regions!Fits(s, AllHeld(Live))
      BY <2>0, <3>1, RoomFits
    <3>5. s.at # r.at
      BY <3>1 DEF Held
    <3> HIDE DEF r, s
    <3>6. \E a \in AllHeld(Live), b \in AllHeld(Live)' :
            /\ Regions!Fits(b, IF b.at = a.at THEN AllHeld(Live) \ {a} ELSE AllHeld(Live))
            /\ AllHeld(Live)' = (AllHeld(Live) \ {a}) \cup {b}
      BY <3>2, <3>3, <3>4, <3>5
    <3>7. \E a \in Callers, b \in Callers' :
            /\ Regions!Fits(b, IF b.at = a.at THEN Callers \ {a} ELSE Callers)
            /\ Callers' = (Callers \ {a}) \cup {b}
      BY <1>c, <3>6
    <3> QED BY <3>7 DEF Regions!Resize, Callers
  <2> QED BY <1>3, <2>1, <2>2 DEF Realloc
<1>4. CASE UNCHANGED vars
  BY <1>4 DEF vars, Callers
<1> QED BY <1>1, <1>2, <1>3, <1>4, FailureChangesNothing DEF Next, Regions!Next

\* rt_malloc, rt_free and rt_realloc, headers and all, do what HeapRegions
\* promises: regions that share no byte and that no other caller's call moves.
THEOREM RegionsAreKept == Spec => RegionsKept
<1>1. Init => Regions!Init
  BY DEF Regions!Init, Init
<1>2. HeapInv /\ HeapInv' /\ [Next]_vars => [Regions!Next]_Callers
  BY StepIsRegions
<1> QED BY <1>1, <1>2, HeapInvAlways, PTL DEF Spec, RegionsKept, Regions!Spec, Callers
=============================================================================
