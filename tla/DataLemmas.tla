------------------------------ MODULE DataLemmas ------------------------------
(***************************************************************************)
(* What the kernel's proofs share: the lists of the kernel, as sequences   *)
(* without repetition that an element joins or leaves; induction, and what *)
(* follows from it for loops, folds and sums.  Nothing is a parameter but  *)
(* sets and functions, so that each fact can be cited as it stands.        *)
(***************************************************************************)
EXTENDS Integers, Sequences, SequencesExt, FiniteSetsExt,
        Folds, Functions,
        SequenceTheorems, FiniteSetTheorems, WellFoundedInduction, TLAPS

\* Every set of natural numbers that is not empty has a least element.
LEMMA LeastNatural ==
  ASSUME NEW S \in SUBSET Nat, S # {}
  PROVE  Min(S) \in S /\ \A x \in S : Min(S) <= x
<1>1. PICK m \in S : \A y \in S : ~(<<y, m>> \in OpToRel(<, Nat))
  BY NatLessThanWellFounded, WFMin, Zenon
<1>2. \A y \in S : m <= y
  <2> TAKE y \in S
  <2>1. y \in Nat /\ m \in Nat
    OBVIOUS
  <2>2. ~(y < m)
    BY <1>1, <2>1 DEF OpToRel
  <2> QED BY <2>1, <2>2
<1> QED BY <1>2 DEF Min

-----------------------------------------------------------------------------
LEMMA OnNothing == ToSet(<<>>) = {} /\ IsInjective(<<>>)
BY DEF ToSet, IsInjective

LEMMA OnAppend ==
  ASSUME NEW S, NEW s \in Seq(S), NEW x \in S, IsInjective(s), x \notin ToSet(s)
  PROVE  /\ Append(s, x) \in Seq(S) /\ IsInjective(Append(s, x))
         /\ ToSet(Append(s, x)) = ToSet(s) \cup {x}
BY AppendProperties DEF ToSet, IsInjective

\* u is s without its i-th element
Shortened(s, i, u) ==
  /\ i \in 1 .. Len(s) /\ Len(u) = Len(s) - 1
  /\ \A j \in 1 .. Len(s) - 1 : (j < i => u[j] = s[j]) /\ (j >= i => u[j] = s[j + 1])

LEMMA OnShortened ==
  ASSUME NEW S, NEW s \in Seq(S), NEW u \in Seq(S), IsInjective(s), NEW i, Shortened(s, i, u)
  PROVE  IsInjective(u) /\ ToSet(u) = ToSet(s) \ {s[i]}
<1>1. DOMAIN u = 1 .. Len(s) - 1 /\ DOMAIN s = 1 .. Len(s) /\ Len(s) \in Nat
  BY DEF Shortened
<1>2. ASSUME NEW j \in 1 .. Len(s) - 1
      PROVE  \E k \in 1 .. Len(s) : u[j] = s[k] /\ k # i /\ (j < i => k = j) /\ (j >= i => k = j + 1)
  <2>1. CASE j < i
    BY <2>1 DEF Shortened
  <2>2. CASE j >= i
    BY <2>2 DEF Shortened
  <2> QED BY <2>1, <2>2 DEF Shortened
<1>3. \A a, b \in DOMAIN s : s[a] = s[b] => a = b
  BY DEF IsInjective
<1>4. ASSUME NEW a \in DOMAIN u, NEW b \in DOMAIN u, u[a] = u[b] PROVE a = b
  <2>1. PICK k \in 1 .. Len(s) : u[a] = s[k] /\ (a < i => k = a) /\ (a >= i => k = a + 1)
    BY <1>1, <1>2
  <2>2. PICK m \in 1 .. Len(s) : u[b] = s[m] /\ (b < i => m = b) /\ (b >= i => m = b + 1)
    BY <1>1, <1>2
  <2>3. k = m
    BY <1>1, <1>3, <1>4, <2>1, <2>2
  <2> QED BY <1>1, <2>1, <2>2, <2>3 DEF Shortened
<1>5. ASSUME NEW x \in ToSet(s), x # s[i] PROVE x \in ToSet(u)
  <2>1. PICK k \in 1 .. Len(s) : s[k] = x
    BY <1>1 DEF ToSet
  <2>2. CASE k < i
    <3>1. k \in 1 .. Len(s) - 1 /\ u[k] = x
      BY <1>1, <2>1, <2>2 DEF Shortened
    <3> QED BY <3>1, <1>1 DEF ToSet
  <2>3. CASE k > i
    <3>1. k - 1 \in 1 .. Len(s) - 1 /\ u[k - 1] = x
      BY <1>1, <2>1, <2>3 DEF Shortened
    <3> QED BY <3>1, <1>1 DEF ToSet
  <2> QED BY <1>1, <1>5, <2>1, <2>2, <2>3 DEF Shortened
<1>6. ASSUME NEW x \in ToSet(u) PROVE x \in ToSet(s) /\ x # s[i]
  <2>1. PICK j \in 1 .. Len(s) - 1 : u[j] = x
    BY <1>1 DEF ToSet
  <2>2. PICK k \in 1 .. Len(s) : u[j] = s[k] /\ k # i
    BY <1>2
  <2>3. i \in 1 .. Len(s)
    BY DEF Shortened
  <2>4. x \in ToSet(s)
    BY <1>1, <2>1, <2>2 DEF ToSet
  <2>5. x # s[i]
    BY <1>1, <1>3, <2>1, <2>2, <2>3
  <2> QED BY <2>4, <2>5
<1> QED BY <1>4, <1>5, <1>6 DEF IsInjective

LEMMA OnTail ==
  ASSUME NEW S, NEW s \in Seq(S), IsInjective(s), s # <<>>
  PROVE  /\ Tail(s) \in Seq(S) /\ IsInjective(Tail(s))
         /\ Head(s) \in S /\ Head(s) \in ToSet(s)
         /\ ToSet(Tail(s)) = ToSet(s) \ {Head(s)}
         /\ Shortened(s, 1, Tail(s))
<1>1. /\ Tail(s) \in Seq(S) /\ Head(s) = s[1] /\ Len(s) \in Nat \ {0}
      /\ DOMAIN s = 1 .. Len(s)
  OBVIOUS
<1>2. Shortened(s, 1, Tail(s))
  BY <1>1, HeadTailProperties DEF Shortened
<1>3. IsInjective(Tail(s)) /\ ToSet(Tail(s)) = ToSet(s) \ {s[1]}
  <2> DEFINE u == Tail(s)
  <2>1. u \in Seq(S) /\ Shortened(s, 1, u)
    BY <1>1, <1>2
  <2> HIDE DEF u
  <2>2. IsInjective(u) /\ ToSet(u) = ToSet(s) \ {s[1]}
    BY <2>1, OnShortened
  <2> QED BY <2>2 DEF u
<1>4. s[1] \in ToSet(s) /\ s[1] \in S
  BY <1>1 DEF ToSet
<1> QED BY <1>1, <1>2, <1>3, <1>4

LEMMA OnRemoveAt ==
  ASSUME NEW S, NEW s \in Seq(S), IsInjective(s), NEW i \in DOMAIN s
  PROVE  /\ RemoveAt(s, i) \in Seq(S) /\ IsInjective(RemoveAt(s, i))
         /\ ToSet(RemoveAt(s, i)) = ToSet(s) \ {s[i]}
         /\ Shortened(s, i, RemoveAt(s, i))
<1> DEFINE a == SubSeq(s, 1, i - 1)
           b == SubSeq(s, i + 1, Len(s))
<1>1. i \in 1 .. Len(s) /\ Len(s) \in Nat
  OBVIOUS
<1>2. a \in Seq(S) /\ Len(a) = i - 1 /\ \A j \in 1 .. i - 1 : a[j] = s[j]
  BY <1>1, SubSeqProperties
<1>3. b \in Seq(S) /\ Len(b) = Len(s) - i /\ \A j \in 1 .. Len(s) - i : b[j] = s[i + j]
  BY <1>1, SubSeqProperties
<1>4. /\ a \o b \in Seq(S) /\ Len(a \o b) = Len(s) - 1
      /\ \A j \in 1 .. Len(s) - 1 : (j < i => (a \o b)[j] = s[j]) /\ (j >= i => (a \o b)[j] = s[j + 1])
  <2> HIDE DEF a, b
  <2>1. a \o b \in Seq(S) /\ Len(a \o b) = Len(s) - 1
    BY <1>1, <1>2, <1>3
  <2>2. ASSUME NEW j \in 1 .. Len(s) - 1, j < i PROVE (a \o b)[j] = s[j]
    <3>1. j \in 1 .. Len(a) /\ j \in 1 .. i - 1
      BY <1>1, <1>2, <2>2
    <3>2. (a \o b)[j] = a[j]
      BY <1>2, <1>3, <3>1, ConcatProperties
    <3> QED BY <1>2, <3>1, <3>2
  <2>3. ASSUME NEW j \in 1 .. Len(s) - 1, j >= i PROVE (a \o b)[j] = s[j + 1]
    <3>1. (a \o b)[j] = b[j - (i - 1)]
      <4>1. j \in 1 .. Len(a) + Len(b) /\ ~(j <= Len(a)) /\ Len(a) = i - 1
        BY <1>1, <1>2, <1>3, <2>3
      <4>2. (a \o b)[j] = b[j - Len(a)]
        BY <1>2, <1>3, <4>1, ConcatProperties
      <4> QED BY <4>1, <4>2
    <3>2. j - (i - 1) \in 1 .. Len(s) - i /\ i + (j - (i - 1)) = j + 1
      BY <1>1, <2>3
    <3> QED BY <1>3, <3>1, <3>2
  <2> QED BY <2>1, <2>2, <2>3
<1>5. Shortened(s, i, RemoveAt(s, i)) /\ RemoveAt(s, i) \in Seq(S)
  BY <1>1, <1>4 DEF RemoveAt, Shortened
<1> QED BY <1>5, OnShortened

\* What is left keeps its order.
LEMMA ShortenedOrder ==
  ASSUME NEW S, NEW s \in Seq(S), NEW u \in Seq(S), NEW i, Shortened(s, i, u),
         NEW a \in 1 .. Len(u), NEW b \in 1 .. Len(u), a < b
  PROVE  \E j, k \in 1 .. Len(s) : j < k /\ u[a] = s[j] /\ u[b] = s[k]
<1>1. Len(s) \in Nat /\ Len(u) = Len(s) - 1 /\ i \in 1 .. Len(s)
  BY DEF Shortened
<1>2. CASE a < i /\ b < i
  <2>1. u[a] = s[a] /\ u[b] = s[b] /\ a \in 1 .. Len(s) /\ b \in 1 .. Len(s)
    BY <1>1, <1>2 DEF Shortened
  <2> QED BY <2>1
<1>3. CASE a < i /\ b >= i
  <2>1. u[a] = s[a] /\ u[b] = s[b + 1] /\ a < b + 1 /\ a \in 1 .. Len(s) /\ b + 1 \in 1 .. Len(s)
    BY <1>1, <1>3 DEF Shortened
  <2> QED BY <2>1
<1>4. CASE a >= i
  <2>1. /\ u[a] = s[a + 1] /\ u[b] = s[b + 1] /\ a + 1 < b + 1
        /\ a + 1 \in 1 .. Len(s) /\ b + 1 \in 1 .. Len(s)
    BY <1>1, <1>4 DEF Shortened
  <2> QED BY <2>1
<1> QED BY <1>1, <1>2, <1>3, <1>4

\* u is s with x put in at place p
Lengthened(s, p, x, u) ==
  /\ p \in 1 .. Len(s) + 1 /\ Len(u) = Len(s) + 1 /\ u[p] = x
  /\ \A j \in 1 .. Len(s) + 1 : (j < p => u[j] = s[j]) /\ (j > p => u[j] = s[j - 1])

LEMMA InsertAtLengthens ==
  ASSUME NEW S, NEW s \in Seq(S), NEW x \in S, NEW p \in 1 .. Len(s) + 1
  PROVE  InsertAt(s, p, x) \in Seq(S) /\ Lengthened(s, p, x, InsertAt(s, p, x))
<1> DEFINE a == SubSeq(s, 1, p - 1)
           b == SubSeq(s, p, Len(s))
           m == a \o <<x>>
<1>1. Len(s) \in Nat /\ p \in Nat
  OBVIOUS
<1>2. a \in Seq(S) /\ Len(a) = p - 1 /\ \A j \in 1 .. p - 1 : a[j] = s[j]
  BY <1>1, SubSeqProperties
<1>3. b \in Seq(S) /\ Len(b) = Len(s) - p + 1 /\ \A j \in 1 .. Len(s) - p + 1 : b[j] = s[p + j - 1]
  BY <1>1, SubSeqProperties
<1> HIDE DEF a, b
<1>4. /\ m \in Seq(S) /\ Len(m) = p /\ m[p] = x
      /\ \A j \in 1 .. p - 1 : m[j] = s[j]
  BY <1>1, <1>2
<1> HIDE DEF m
<1>5. m \o b \in Seq(S) /\ Len(m \o b) = Len(s) + 1
  <2>1. m \o b \in Seq(S) /\ Len(m \o b) = Len(m) + Len(b)
    BY <1>3, <1>4, ConcatProperties
  <2> QED BY <1>1, <1>3, <1>4, <2>1
<1>6. ASSUME NEW j \in 1 .. Len(s) + 1, j <= p PROVE (m \o b)[j] = m[j]
  BY <1>1, <1>3, <1>4, <1>6
<1>7. ASSUME NEW j \in 1 .. Len(s) + 1, j > p PROVE (m \o b)[j] = s[j - 1]
  <2>1. (m \o b)[j] = b[j - p]
    BY <1>1, <1>3, <1>4, <1>7
  <2>2. j - p \in 1 .. Len(s) - p + 1 /\ p + (j - p) - 1 = j - 1
    BY <1>1, <1>7
  <2> QED BY <1>3, <2>1, <2>2
<1>8. InsertAt(s, p, x) = m \o b
  BY DEF InsertAt, m, a, b
<1> QED BY <1>1, <1>4, <1>5, <1>6, <1>7, <1>8 DEF Lengthened

LEMMA OnLengthened ==
  ASSUME NEW S, NEW s \in Seq(S), NEW u \in Seq(S), NEW x, NEW p, IsInjective(s),
         x \notin ToSet(s), Lengthened(s, p, x, u)
  PROVE  IsInjective(u) /\ ToSet(u) = ToSet(s) \cup {x}
<1>1. /\ DOMAIN u = 1 .. Len(s) + 1 /\ DOMAIN s = 1 .. Len(s) /\ Len(s) \in Nat
      /\ p \in 1 .. Len(s) + 1 /\ u[p] = x
  BY DEF Lengthened
<1>2. ASSUME NEW j \in 1 .. Len(s) + 1, j # p
      PROVE  \E k \in 1 .. Len(s) : u[j] = s[k] /\ (j < p => k = j) /\ (j > p => k = j - 1)
  <2>1. CASE j < p
    BY <1>1, <2>1 DEF Lengthened
  <2>2. CASE j > p
    BY <1>1, <2>2 DEF Lengthened
  <2> QED BY <1>1, <1>2, <2>1, <2>2
<1>3. /\ \A a, b \in DOMAIN s : s[a] = s[b] => a = b
      /\ \A k \in 1 .. Len(s) : s[k] # x
  BY <1>1 DEF IsInjective, ToSet
<1>4. ASSUME NEW a \in DOMAIN u, NEW b \in DOMAIN u, u[a] = u[b] PROVE a = b
  <2>1. CASE a = p \/ b = p
    BY <1>1, <1>2, <1>3, <1>4, <2>1
  <2>2. CASE a # p /\ b # p
    <3>1. PICK k \in 1 .. Len(s) : u[a] = s[k] /\ (a < p => k = a) /\ (a > p => k = a - 1)
      BY <1>1, <1>2, <2>2
    <3>2. PICK m \in 1 .. Len(s) : u[b] = s[m] /\ (b < p => m = b) /\ (b > p => m = b - 1)
      BY <1>1, <1>2, <2>2
    <3>3. k = m
      BY <1>1, <1>3, <1>4, <3>1, <3>2
    <3> QED BY <1>1, <2>2, <3>1, <3>2, <3>3
  <2> QED BY <2>1, <2>2
<1>5. ASSUME NEW y \in ToSet(s) PROVE y \in ToSet(u)
  <2>1. PICK k \in 1 .. Len(s) : s[k] = y
    BY <1>1 DEF ToSet
  <2>2. CASE k < p
    <3>1. k \in 1 .. Len(s) + 1
      BY <1>1
    <3>2. u[k] = s[k]
      BY <2>2, <3>1 DEF Lengthened
    <3> QED BY <1>1, <2>1, <3>1, <3>2 DEF ToSet
  <2>3. CASE k >= p
    <3>1. k + 1 \in 1 .. Len(s) + 1 /\ u[k + 1] = y
      BY <1>1, <2>1, <2>3 DEF Lengthened
    <3> QED BY <3>1, <1>1 DEF ToSet
  <2> QED BY <1>1, <2>1, <2>2, <2>3
<1>6. ASSUME NEW y \in ToSet(u) PROVE y \in ToSet(s) \cup {x}
  <2>1. PICK j \in 1 .. Len(s) + 1 : u[j] = y
    BY <1>1 DEF ToSet
  <2> QED BY <1>1, <1>2, <2>1 DEF ToSet
<1>7. x \in ToSet(u)
  BY <1>1 DEF ToSet
<1> QED BY <1>4, <1>5, <1>6, <1>7 DEF IsInjective

LEMMA OnRemoveFirst ==
  ASSUME NEW S, NEW s \in Seq(S), IsInjective(s), NEW t
  PROVE  /\ RemoveFirst(s, t) \in Seq(S) /\ IsInjective(RemoveFirst(s, t))
         /\ ToSet(RemoveFirst(s, t)) = ToSet(s) \ {t}
         /\ RemoveFirst(s, t) = s \/ \E i : Shortened(s, i, RemoveFirst(s, t))
<1> DEFINE I == {j \in 1 .. Len(s) : s[j] = t}
<1>1. /\ I # {} => RemoveFirst(s, t) = RemoveAt(s, Min(I))
      /\ I = {} => RemoveFirst(s, t) = s
  BY Zenon DEF RemoveFirst, SelectInSeq
<1>2. CASE I # {}
  <2>1. I \in SUBSET Nat
    OBVIOUS
  <2>2. Min(I) \in I
    BY <1>2, <2>1, LeastNatural
  <2>3. PICK i \in I : RemoveFirst(s, t) = RemoveAt(s, i)
    <3> HIDE DEF I
    <3> QED BY <1>1, <1>2, <2>2
  <2>4. i \in DOMAIN s /\ s[i] = t
    OBVIOUS
  <2>5. /\ RemoveAt(s, i) \in Seq(S) /\ IsInjective(RemoveAt(s, i))
        /\ ToSet(RemoveAt(s, i)) = ToSet(s) \ {t} /\ Shortened(s, i, RemoveAt(s, i))
    BY <2>4, OnRemoveAt
  <2> HIDE DEF I
  <2> QED BY <2>3, <2>5
<1>3. CASE I = {}
  <2>1. t \notin ToSet(s)
    BY <1>3 DEF ToSet
  <2> QED BY <1>1, <1>3, <2>1
<1> QED BY <1>2, <1>3

\* q, read in the order of the numbers d
Ordered(q, d) == \A i, j \in 1 .. Len(q) : i < j => d[q[i]] <= d[q[j]]

LEMMA RemoveFirstOrdered ==
  ASSUME NEW S, NEW s \in Seq(S), IsInjective(s), NEW t, NEW d, Ordered(s, d)
  PROVE  Ordered(RemoveFirst(s, t), d)
<1> DEFINE u == RemoveFirst(s, t)
<1>1. u \in Seq(S) /\ (u = s \/ \E i : Shortened(s, i, u))
  BY OnRemoveFirst
<1> HIDE DEF u
<1>2. ASSUME NEW i, Shortened(s, i, u), NEW a \in 1 .. Len(u), NEW b \in 1 .. Len(u), a < b
      PROVE  d[u[a]] <= d[u[b]]
  <2>1. PICK j, k \in 1 .. Len(s) : j < k /\ u[a] = s[j] /\ u[b] = s[k]
    BY <1>1, <1>2, ShortenedOrder
  <2> QED BY <2>1 DEF Ordered
<1>3. Ordered(u, d)
  BY <1>1, <1>2 DEF Ordered
<1> QED BY <1>3 DEF u

LEMMA LengthenedOrdered ==
  ASSUME NEW S, NEW q \in Seq(S), NEW t \in S, NEW p, NEW u \in Seq(S), Lengthened(q, p, t, u),
         NEW d, \A x \in S : d[x] \in Int, Ordered(q, d),
         \A i \in 1 .. Len(q) : i < p => d[q[i]] <= d[t],
         p \in 1 .. Len(q) => d[t] < d[q[p]]
  PROVE  /\ Ordered(u, d)
         /\ \A j \in 1 .. Len(u) : p < j => d[t] < d[u[j]]
<1>1. /\ Len(q) \in Nat /\ Len(u) = Len(q) + 1 /\ p \in 1 .. Len(q) + 1 /\ u[p] = t
      /\ \A j \in 1 .. Len(u) : (j < p => u[j] = q[j]) /\ (j > p => u[j] = q[j - 1])
      /\ \A i \in 1 .. Len(q) : q[i] \in S
  BY DEF Lengthened
<1>2. ASSUME NEW j \in 1 .. Len(u), p < j PROVE d[t] < d[u[j]]
  <2>1. p \in 1 .. Len(q) /\ j - 1 \in 1 .. Len(q) /\ u[j] = q[j - 1] /\ p <= j - 1
    BY <1>1, <1>2
  <2>2. d[q[p]] <= d[q[j - 1]]
    <3>1. CASE p = j - 1
      BY <1>1, <2>1, <3>1
    <3>2. CASE p < j - 1
      BY <2>1, <3>2 DEF Ordered
    <3> QED BY <2>1, <3>1, <3>2
  <2>3. d[t] \in Int /\ d[q[p]] \in Int /\ d[q[j - 1]] \in Int
    BY <1>1, <2>1
  <2> QED BY <2>1, <2>2, <2>3
<1>3. ASSUME NEW i \in 1 .. Len(u), NEW j \in 1 .. Len(u), i < j PROVE d[u[i]] <= d[u[j]]
  <2>1. CASE j < p
    <3>1. i < p /\ i \in 1 .. Len(q) /\ j \in 1 .. Len(q)
      BY <1>1, <1>3, <2>1
    <3>2. u[i] = q[i] /\ u[j] = q[j]
      BY <1>1, <2>1, <3>1
    <3> QED BY <1>3, <3>1, <3>2 DEF Ordered
  <2>2. CASE j = p
    <3>1. i \in 1 .. Len(q) /\ i < p /\ u[i] = q[i]
      BY <1>1, <1>3, <2>2
    <3> QED BY <1>1, <2>2, <3>1
  <2>3. CASE i = p
    BY <1>1, <1>2, <1>3, <2>3
  <2>4. CASE i < p /\ j > p
    <3>1. d[t] < d[u[j]]
      BY <1>2, <2>4
    <3>2. i \in 1 .. Len(q) /\ u[i] = q[i] /\ j - 1 \in 1 .. Len(q) /\ u[j] = q[j - 1]
      BY <1>1, <2>4
    <3>3. d[q[i]] <= d[t] /\ d[q[i]] \in Int /\ d[t] \in Int /\ d[u[j]] \in Int
      BY <1>1, <2>4, <3>2
    <3> QED BY <3>1, <3>2, <3>3
  <2>5. CASE i > p
    <3>1. i - 1 \in 1 .. Len(q) /\ j - 1 \in 1 .. Len(q) /\ i - 1 < j - 1
          /\ u[i] = q[i - 1] /\ u[j] = q[j - 1]
      BY <1>1, <1>3, <2>5
    <3> QED BY <3>1 DEF Ordered
  <2> QED BY <1>1, <1>3, <2>1, <2>2, <2>3, <2>4, <2>5
<1> QED BY <1>2, <1>3 DEF Ordered

-----------------------------------------------------------------------------
\* Induction, for a property given as the set of the numbers that have it.
LEMMA NumberInduction ==
  ASSUME NEW G \in SUBSET Nat, 0 \in G, \A n \in G : n + 1 \in G
  PROVE  G = Nat
<1> SUFFICES ASSUME Nat \ G # {} PROVE FALSE
  OBVIOUS
<1> DEFINE n == Min(Nat \ G)
<1>1. n \in Nat \ G /\ \A x \in Nat \ G : n <= x
  BY LeastNatural
<1> HIDE DEF n
<1>2. n - 1 \in Nat /\ n - 1 \in G
  BY <1>1
<1>3. (n - 1) + 1 = n
  BY <1>1
<1> QED BY <1>1, <1>2, <1>3

\* A set is reached from smaller ones: induction over the subsets of a finite set.
LEMMA SetInduction ==
  ASSUME NEW T, IsFiniteSet(T), NEW G \in SUBSET (SUBSET T), {} \in G,
         \A s \in SUBSET T : s # {} /\ (\A x \in s : s \ {x} \in G) => s \in G
  PROVE  G = SUBSET T
<1> DEFINE N == {n \in Nat : \A s \in SUBSET T : Cardinality(s) = n => s \in G}
<1>1. 0 \in N
  <2>1. \A s \in SUBSET T : Cardinality(s) = 0 => s = {}
    BY FS_Subset, FS_EmptySet
  <2> QED BY <2>1
<1>2. ASSUME NEW n \in N PROVE n + 1 \in N
  <2>1. ASSUME NEW s \in SUBSET T, Cardinality(s) = n + 1 PROVE s \in G
    <3>1. IsFiniteSet(s) /\ s # {}
      BY <2>1, FS_Subset, FS_EmptySet
    <3>2. ASSUME NEW x \in s PROVE s \ {x} \in G
      <4>1. Cardinality(s \ {x}) = Cardinality(s) - 1
        BY <3>1, FS_RemoveElement
      <4>2. Cardinality(s \ {x}) = n
        BY <4>1, <2>1
      <4> QED BY <4>2
    <3> QED BY <3>1, <3>2
  <2> QED BY <2>1
<1>3. N = Nat
  <2>1. N \in SUBSET Nat
    OBVIOUS
  <2> HIDE DEF N
  <2> QED BY <1>1, <1>2, <2>1, NumberInduction
<1>4. ASSUME NEW s \in SUBSET T PROVE s \in G
  <2>1. Cardinality(s) \in N
    BY <1>3, FS_Subset, FS_CardinalityType
  <2> QED BY <2>1
<1> QED BY <1>4

-----------------------------------------------------------------------------
(* Repetition: a step taken again and again. *)

RepeatsTo(h, n, a, F) == h[0] = a /\ \A i \in 0 .. n - 1 : h[i + 1] = F[h[i]]

LEMMA RepetitionsExist ==
  ASSUME NEW S, NEW a \in S, NEW F \in [S -> S], NEW n \in Nat
  PROVE  \E h \in [0 .. n -> S] : RepeatsTo(h, n, a, F)
<1> DEFINE G == {m \in Nat : \E h \in [0 .. m -> S] : RepeatsTo(h, m, a, F)}
<1>1. 0 \in G
  <2>1. [i \in 0 .. 0 |-> a] \in [0 .. 0 -> S] /\ RepeatsTo([i \in 0 .. 0 |-> a], 0, a, F)
    BY DEF RepeatsTo
  <2> QED BY <2>1
<1>2. ASSUME NEW m \in G PROVE m + 1 \in G
  <2>1. PICK h \in [0 .. m -> S] : RepeatsTo(h, m, a, F)
    OBVIOUS
  <2> DEFINE k == [i \in 0 .. m + 1 |-> IF i <= m THEN h[i] ELSE F[h[m]]]
  <2>2. k \in [0 .. m + 1 -> S]
    OBVIOUS
  <2>3. RepeatsTo(k, m + 1, a, F)
    BY <2>1 DEF RepeatsTo
  <2> QED BY <2>2, <2>3
<1>3. G = Nat
  <2>1. G \in SUBSET Nat
    OBVIOUS
  <2> HIDE DEF G
  <2> QED BY <1>1, <1>2, <2>1, NumberInduction
<1> QED BY <1>3

LEMMA RepetitionsAgree ==
  ASSUME NEW F, NEW a, NEW m \in Nat, NEW n \in Nat, m <= n, NEW h, NEW k,
         RepeatsTo(h, m, a, F), RepeatsTo(k, n, a, F)
  PROVE  h[m] = k[m]
<1> DEFINE G == {i \in Nat : i <= m => h[i] = k[i]}
<1>1. 0 \in G
  BY DEF RepeatsTo
<1>2. ASSUME NEW i \in G PROVE i + 1 \in G
  BY DEF RepeatsTo
<1>3. G = Nat
  <2>1. G \in SUBSET Nat
    OBVIOUS
  <2> HIDE DEF G
  <2> QED BY <1>1, <1>2, <2>1, NumberInduction
<1> QED BY <1>3

Repeats(g, a, F) == g[0] = a /\ \A n \in Nat : g[n + 1] = F[g[n]]

LEMMA Repetition ==
  ASSUME NEW S, NEW a \in S, NEW F \in [S -> S]
  PROVE  \E g \in [Nat -> S] : Repeats(g, a, F)
<1> DEFINE run(n) == CHOOSE h \in [0 .. n -> S] : RepeatsTo(h, n, a, F)
           g == [n \in Nat |-> run(n)[n]]
<1>1. ASSUME NEW n \in Nat PROVE run(n) \in [0 .. n -> S] /\ RepeatsTo(run(n), n, a, F)
  BY RepetitionsExist, Zenon
<1> HIDE DEF run
<1>2. g \in [Nat -> S]
  BY <1>1
<1>3. g[0] = a
  BY <1>1 DEF RepeatsTo
<1>4. ASSUME NEW n \in Nat PROVE g[n + 1] = F[g[n]]
  <2>1. run(n + 1)[n + 1] = F[run(n + 1)[n]]
    BY <1>1 DEF RepeatsTo
  <2>2. run(n)[n] = run(n + 1)[n]
    <3>1. RepeatsTo(run(n), n, a, F) /\ RepeatsTo(run(n + 1), n + 1, a, F) /\ n <= n + 1 /\ n + 1 \in Nat
      BY <1>1
    <3> QED BY <3>1, RepetitionsAgree
  <2> QED BY <2>1, <2>2
<1> QED BY <1>2, <1>3, <1>4 DEF Repeats

-----------------------------------------------------------------------------
(* Folds over finite sets. *)

\* it is what a fold of T does, as a function of the subset: nothing gives base, and the
\* element that ch names is combined by F with what the others give.
Folding(it, T, base, F, ch) ==
  it = [s \in SUBSET T |-> IF s = {} THEN base ELSE F[ch[s]][it[s \ {ch[s]}]]]

Chooses(ch, T) == \A s \in SUBSET T : s # {} => ch[s] \in s

LEMMA FoldingExists ==
  ASSUME NEW T, IsFiniteSet(T), NEW K, NEW base \in K, NEW F \in [T -> [K -> K]],
         NEW ch, Chooses(ch, T)
  PROVE  \E it \in [SUBSET T -> K] : Folding(it, T, base, F, ch)
<1> DEFINE R == [SUBSET T -> K]
           \* what is known of the fold, known of one element more
           next(it) == [s \in SUBSET T |-> IF s = {} THEN base ELSE F[ch[s]][it[s \ {ch[s]}]]]
           Next == [it \in R |-> next(it)]
           first == [s \in SUBSET T |-> base]
<1>1. first \in R /\ \A it \in R : next(it) \in R
  BY DEF Chooses
<1>2. Next \in [R -> R]
  BY <1>1
<1>3. \A it \in R : Next[it] = next(it)
  OBVIOUS
<1>4. \E g \in [Nat -> R] : Repeats(g, first, Next)
  <2>1. first \in R
    BY <1>1
  <2> HIDE DEF R, Next, next, first
  <2> QED BY <1>2, <2>1, Repetition
<1>5. PICK g \in [Nat -> R] : \A n \in Nat : g[n + 1] = Next[g[n]]
  BY <1>4 DEF Repeats
<1>6. ASSUME NEW n \in Nat
      PROVE  /\ g[n] \in [SUBSET T -> K]
             /\ \A s \in SUBSET T :
                   g[n + 1][s] = IF s = {} THEN base ELSE F[ch[s]][g[n][s \ {ch[s]}]]
  <2>1. g[n] \in R
    OBVIOUS
  <2>2. g[n + 1] = next(g[n])
    BY <1>3, <1>5, <2>1
  <2> QED BY <2>1, <2>2
<1> HIDE DEF R, Next, next, first
\* after n steps it is known of the sets of fewer than n elements
<1> DEFINE N == {n \in Nat : \A s \in SUBSET T : Cardinality(s) < n => g[n + 1][s] = g[n][s]}
<1>7. 0 \in N
  BY FS_Subset, FS_CardinalityType
<1>8. ASSUME NEW n \in N PROVE n + 1 \in N
  <2>1. PICK p \in Nat : p = n + 1
    OBVIOUS
  <2>2. ASSUME NEW s \in SUBSET T, Cardinality(s) < p PROVE g[p + 1][s] = g[p][s]
    <3>1. CASE s = {}
      BY <1>6, <2>1, <3>1
    <3>2. CASE s # {}
      <4>1. ch[s] \in s /\ IsFiniteSet(s) /\ s \ {ch[s]} \in SUBSET T
        BY <3>2, FS_Subset DEF Chooses
      <4>2. Cardinality(s \ {ch[s]}) = Cardinality(s) - 1 /\ Cardinality(s) \in Nat
        <5>1. ch[s] \in s /\ IsFiniteSet(s)
          BY <4>1
        <5>2. Cardinality(s) \in Nat
          BY <5>1, FS_CardinalityType, Zenon
        <5>3. Cardinality(s \ {ch[s]}) = Cardinality(s) - 1
          BY <5>1, FS_RemoveElement, ZenonT(40)
        <5> QED BY <5>2, <5>3
      <4>3. g[p][s \ {ch[s]}] = g[n][s \ {ch[s]}]
        BY <2>1, <2>2, <4>1, <4>2
      <4>4. g[p + 1][s] = F[ch[s]][g[p][s \ {ch[s]}]]
        BY <1>6, <3>2
      <4>5. g[n + 1][s] = F[ch[s]][g[n][s \ {ch[s]}]]
        <5>1. n \in Nat
          OBVIOUS
        <5> QED BY <1>6, <3>2, <5>1
      <4> QED BY <2>1, <4>3, <4>4, <4>5
    <3> QED BY <3>1, <3>2
  <2> QED BY <2>1, <2>2
<1>9. N = Nat
  <2>1. N \in SUBSET Nat
    OBVIOUS
  <2> HIDE DEF N
  <2> QED BY <1>7, <1>8, <2>1, NumberInduction
<1>10. PICK m \in Nat : m = Cardinality(T) + 1
  BY FS_CardinalityType
<1>11. ASSUME NEW s \in SUBSET T PROVE g[m + 1][s] = g[m][s]
  <2>1. Cardinality(s) <= Cardinality(T) /\ Cardinality(s) \in Nat /\ Cardinality(T) \in Nat
    BY FS_Subset, FS_CardinalityType
  <2>2. Cardinality(s) < m
    BY <1>10, <2>1
  <2> QED BY <1>9, <2>2
<1> HIDE DEF N
<1>12. g[m] \in [SUBSET T -> K]
  BY <1>6
<1>13. \A s \in SUBSET T : g[m][s] = IF s = {} THEN base ELSE F[ch[s]][g[m][s \ {ch[s]}]]
  BY <1>6, <1>11
<1>14. Folding(g[m], T, base, F, ch)
  BY <1>12, <1>13 DEF Folding
<1> QED BY <1>12, <1>14

-----------------------------------------------------------------------------
(* Sums.  it gives the sum of f over each subset of its domain. *)

Sums(it, f) ==
  it = [s \in SUBSET (DOMAIN f) |->
          IF s = {} THEN 0 ELSE f[CHOOSE x \in s : TRUE] + it[s \ {CHOOSE x \in s : TRUE}]]

LEMMA SumsExist ==
  ASSUME NEW S, IsFiniteSet(S), NEW f \in [S -> Int]
  PROVE  \E it : Sums(it, f)
<1> DEFINE F == [x \in S |-> [n \in Int |-> f[x] + n]]
           ch == [s \in SUBSET S |-> CHOOSE x \in s : TRUE]
<1>1. F \in [S -> [Int -> Int]] /\ Chooses(ch, S)
  BY DEF Chooses
<1>2. \E it \in [SUBSET S -> Int] : Folding(it, S, 0, F, ch)
  <2> HIDE DEF F, ch
  <2>1. 0 \in Int
    OBVIOUS
  <2> QED BY <1>1, <2>1, FoldingExists, Zenon
<1>3. ASSUME NEW it \in [SUBSET S -> Int], Folding(it, S, 0, F, ch) PROVE Sums(it, f)
  <2>1. DOMAIN f = S
    OBVIOUS
  <2>2. ASSUME NEW s \in SUBSET S, s # {}
        PROVE  it[s] = f[CHOOSE x \in s : TRUE] + it[s \ {CHOOSE x \in s : TRUE}]
    <3>1. PICK c \in s : c = (CHOOSE x \in s : TRUE) /\ c = ch[s]
      BY <2>2
    <3>2. it[s] = F[c][it[s \ {c}]]
      BY <1>3, <2>2, <3>1, Zenon DEF Folding
    <3>3. it[s \ {c}] \in Int
      OBVIOUS
    <3> QED BY <3>1, <3>2, <3>3
  <2>3. it[{}] = 0
    BY <1>3 DEF Folding
  <2> QED BY <2>1, <2>2, <2>3 DEF Sums
<1> QED BY <1>2, <1>3

LEMMA SumIsFold ==
  ASSUME NEW f, \E it : Sums(it, f)
  PROVE  \E it : Sums(it, f) /\ SumFunction(f) = it[DOMAIN f]
BY Zenon DEF SumFunction, SumFunctionOnSet, FoldFunctionOnSet, MapThenFoldSet, Sums

\* The order does not matter: any element may be the last to be added.
AddsAny(it, f, S) ==
  \A s \in SUBSET S : /\ it[s] \in Int
                      /\ s = {} => it[s] = 0
                      /\ \A x \in s : it[s] = f[x] + it[s \ {x}]

LEMMA SumsAddAny ==
  ASSUME NEW S, IsFiniteSet(S), NEW f \in [S -> Int], NEW it, Sums(it, f)
  PROVE  AddsAny(it, f, S)
<1> DEFINE ch(s) == CHOOSE x \in s : TRUE
           I == {s \in SUBSET S : it[s] \in Int}
           G == {s \in SUBSET S : \A x \in s : it[s] = f[x] + it[s \ {x}]}
<1>1. \A s \in SUBSET S : s # {} => ch(s) \in s
  OBVIOUS
<1>2. /\ it[{}] = 0
      /\ \A s \in SUBSET S : s # {} => it[s] = f[ch(s)] + it[s \ {ch(s)}]
  BY DEF Sums
<1> HIDE DEF ch
<1>3. I = SUBSET S
  <2>1. {} \in I
    BY <1>2
  <2>2. ASSUME NEW s \in SUBSET S, s # {}, \A x \in s : s \ {x} \in I PROVE s \in I
    <3>1. PICK c \in s : c = ch(s)
      BY <1>1, <2>2
    <3>2. it[s] = f[c] + it[s \ {c}] /\ it[s \ {c}] \in Int /\ f[c] \in Int
      BY <1>2, <2>2, <3>1
    <3> QED BY <3>2
  <2>3. I \in SUBSET (SUBSET S)
    OBVIOUS
  <2> HIDE DEF I
  <2> QED BY <2>1, <2>2, <2>3, SetInduction
<1>4. ASSUME NEW s \in SUBSET S, s # {}, \A x \in s : s \ {x} \in G PROVE s \in G
  <2>1. PICK c \in s : c = ch(s)
    BY <1>1, <1>4
  <2>2. it[s] = f[c] + it[s \ {c}]
    BY <1>2, <1>4, <2>1
  <2>3. ASSUME NEW x \in s, x # c PROVE it[s] = f[x] + it[s \ {x}]
    <3>1. PICK r \in SUBSET S : r = (s \ {x}) \ {c} /\ r = (s \ {c}) \ {x}
      OBVIOUS
    <3>2. it[s \ {c}] = f[x] + it[r]
      BY <1>4, <2>3, <3>1
    <3>3. it[s \ {x}] = f[c] + it[r]
      BY <1>4, <2>3, <3>1
    <3>4. it[r] \in Int /\ f[c] \in Int /\ f[x] \in Int
      BY <1>3
    <3> QED BY <2>2, <3>2, <3>3, <3>4
  <2> QED BY <2>2, <2>3
<1>5. G = SUBSET S
  <2>1. G \in SUBSET (SUBSET S) /\ {} \in G
    OBVIOUS
  <2> HIDE DEF G
  <2> QED BY <1>4, <2>1, SetInduction
<1>6. ASSUME NEW s \in SUBSET S
      PROVE  it[s] \in Int /\ (s = {} => it[s] = 0) /\ \A x \in s : it[s] = f[x] + it[s \ {x}]
  <2>1. s \in I /\ s \in G
    BY <1>3, <1>5
  <2> QED BY <1>2, <2>1
<1> QED BY <1>6 DEF AddsAny

\* The same numbers have the same sum.
LEMMA SumsAgree ==
  ASSUME NEW S, IsFiniteSet(S), NEW f \in [S -> Int], NEW it, Sums(it, f),
         NEW T, IsFiniteSet(T), NEW g \in [T -> Int], NEW jt, Sums(jt, g),
         NEW U \in SUBSET (S \cap T), \A x \in U : f[x] = g[x]
  PROVE  it[U] = jt[U]
<1> DEFINE G == {s \in SUBSET U : it[s] = jt[s]}
<1>1. \A s \in SUBSET U : s \in SUBSET S /\ s \in SUBSET T
  OBVIOUS
<1>2. /\ \A s \in SUBSET U : s = {} => it[s] = 0 /\ jt[s] = 0
      /\ \A s \in SUBSET U : \A x \in s : /\ it[s] = f[x] + it[s \ {x}]
                                          /\ jt[s] = f[x] + jt[s \ {x}]
  <2>1. \A s \in SUBSET U : (s = {} => it[s] = 0) /\ \A x \in s : it[s] = f[x] + it[s \ {x}]
    <3>1. AddsAny(it, f, S)
      BY SumsAddAny
    <3> QED BY <1>1, <3>1 DEF AddsAny
  <2>2. \A s \in SUBSET U : (s = {} => jt[s] = 0) /\ \A x \in s : jt[s] = g[x] + jt[s \ {x}]
    <3>1. AddsAny(jt, g, T)
      BY SumsAddAny
    <3> QED BY <1>1, <3>1 DEF AddsAny
  <2> QED BY <2>1, <2>2
<1>3. {} \in G /\ G \in SUBSET (SUBSET U)
  BY <1>2
<1>4. ASSUME NEW s \in SUBSET U, s # {}, \A x \in s : s \ {x} \in G PROVE s \in G
  <2>1. PICK x \in s : TRUE
    BY <1>4
  <2>2. it[s] = f[x] + it[s \ {x}] /\ jt[s] = f[x] + jt[s \ {x}]
    BY <1>2
  <2>3. it[s \ {x}] = jt[s \ {x}]
    BY <1>4
  <2> QED BY <2>2, <2>3
<1>5. IsFiniteSet(U)
  BY FS_Subset
<1>6. G = SUBSET U
  <2> HIDE DEF G
  <2> QED BY <1>3, <1>4, <1>5, SetInduction
<1>7. U \in G
  BY <1>6
<1> QED BY <1>7

-----------------------------------------------------------------------------
(* The sum of a finite function's values. *)

LEMMA SumOfNothing ==
  ASSUME NEW f \in [{} -> Int]
  PROVE  SumFunction(f) = 0
<1>1. DOMAIN f = {} /\ IsFiniteSet({})
  BY FS_EmptySet
<1>2. PICK it : Sums(it, f) /\ SumFunction(f) = it[{}]
  BY <1>1, SumsExist, SumIsFold
<1>3. it[{}] = 0
  BY <1>1, <1>2 DEF Sums
<1> QED BY <1>2, <1>3

LEMMA SumWithout ==
  ASSUME NEW S, IsFiniteSet(S), NEW f \in [S -> Int], NEW x \in S
  PROVE  /\ SumFunction(f) \in Int
         /\ SumFunction(f) = f[x] + SumFunction([y \in S \ {x} |-> f[y]])
<1> DEFINE g == [y \in S \ {x} |-> f[y]]
<1>1. g \in [S \ {x} -> Int] /\ IsFiniteSet(S \ {x}) /\ DOMAIN g = S \ {x} /\ DOMAIN f = S
      /\ \A y \in S \ {x} : f[y] = g[y]
  BY FS_RemoveElement
<1> HIDE DEF g
<1>2. PICK it : Sums(it, f) /\ SumFunction(f) = it[S]
  BY <1>1, SumsExist, SumIsFold
<1>3. PICK jt : Sums(jt, g) /\ SumFunction(g) = jt[S \ {x}]
  BY <1>1, SumsExist, SumIsFold
<1>4. it[S \ {x}] = jt[S \ {x}]
  <2>1. S \ {x} \in SUBSET (S \cap (S \ {x}))
    OBVIOUS
  <2> QED BY <1>1, <1>2, <1>3, <2>1, SumsAgree
<1>5. it[S] \in Int /\ it[S] = f[x] + it[S \ {x}]
  BY <1>2, SumsAddAny DEF AddsAny
<1> QED BY <1>2, <1>3, <1>4, <1>5 DEF g

=============================================================================
