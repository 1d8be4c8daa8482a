------------------------------ MODULE SmallMem ------------------------------
(***************************************************************************)
(* The small memory allocator (rt-thread/src/mem.c), which is the system   *)
(* heap: cJSON, the MQTT client, the network stack and every thread that   *)
(* is created live in it.  A call runs with the heap's mutex taken         *)
(* (kservice.c:663) and is one step.                                       *)
(*                                                                         *)
(* A block is a header and the data behind it, up to the next header.      *)
(* Addresses are offsets from heap_ptr, in bytes.                          *)
(***************************************************************************)
EXTENDS Integers, FiniteSetsExt, Functions

CONSTANTS MemSize,    \* mem_size_aligned
          Requests    \* the sizes callers ask for

RT_ALIGN_SIZE == 8
Align(n) == ((n + RT_ALIGN_SIZE - 1) \div RT_ALIGN_SIZE) * RT_ALIGN_SIZE
MIN_SIZE == 12        \* three words of 32 bits
MIN_SIZE_ALIGNED == Align(MIN_SIZE)
Header == Align(MIN_SIZE)                 \* SIZEOF_STRUCT_MEM
HeapEnd == MemSize + Header               \* heap_end

ASSUME HeapAssumption == /\ MemSize \in Nat /\ MemSize % RT_ALIGN_SIZE = 0
                         /\ Requests \subseteq Nat

VARIABLES
  item,        \* the headers: a function on the offsets where there is one
  lfree,       \* the lowest free header, or heap_end
  used, max,   \* statistics: bytes in use, and their maximum
  asked        \* history: the size the owner of each live block asked for
vars == <<item, lfree, used, max, asked>>

Free(it, p) == ~it[p].used
Data(it, p) == it[p].next - (p + Header)          \* MEM_SIZE

Init ==
  /\ item = [p \in {0, HeapEnd} |-> [used |-> p = HeapEnd, next |-> HeapEnd,
                                     prev |-> p]]
  /\ lfree = 0 /\ used = 0 /\ max = 0 /\ asked = [p \in {} |-> 0]

-----------------------------------------------------------------------------
\* A header is written at p, or goes.
With(it, p, r) == [q \in DOMAIN it \cup {p} |-> IF q = p THEN r ELSE it[q]]
Without(it, p) == [q \in DOMAIN it \ {p} |-> it[q]]

\* plug_holes: p is joined with a free block behind it, then with one before.
JoinNext(h, p) ==
  LET n == h.item[p].next IN
  IF n = p \/ n = HeapEnd \/ ~Free(h.item, n) THEN h
  ELSE [item  |-> [Without(h.item, n) EXCEPT ![p].next = h.item[n].next,
                                             ![h.item[n].next].prev = p],
        lfree |-> IF h.lfree = n THEN p ELSE h.lfree]
JoinPrev(h, p) ==
  LET b == h.item[p].prev IN
  IF b = p \/ ~Free(h.item, b) THEN h
  ELSE [item  |-> [Without(h.item, p) EXCEPT ![b].next = h.item[p].next,
                                             ![h.item[p].next].prev = b],
        lfree |-> IF h.lfree = p THEN b ELSE h.lfree]
PlugsForward(h, p) == JoinNext(h, p)                                   \* a slip
PlugHoles(h, p) == JoinPrev(JoinNext(h, p), p)

\* The block at p keeps size bytes; a free block takes the rest.
LeavesPrev(it, p, size) ==                                             \* a slip
  LET q == p + Header + size
  IN  [With(it, q, [used |-> FALSE, next |-> it[p].next, prev |-> p]) EXCEPT ![p].next = q]
Split(it, p, size) ==
  LET q    == p + Header + size
      last == it[p].next = HeapEnd
      cut  == [With(it, q, [used |-> FALSE, next |-> it[p].next, prev |-> p]) EXCEPT ![p].next = q]
  IN  IF last THEN cut ELSE [cut EXCEPT ![it[p].next].prev = q]

-----------------------------------------------------------------------------
Size(n) == Max({Align(n), MIN_SIZE_ALIGNED})
Holds(it, p, size) == Free(it, p) /\ Data(it, p) >= size

\* First fit, from lfree along the chain of next.
StopsEarly(p, size) ==                                                 \* a slip
  /\ p >= lfree /\ p < MemSize - size /\ Holds(item, p, size)
  /\ \A q \in DOMAIN item : lfree <= q /\ q < p => ~Holds(item, q, size)
FirstFit(p, size) ==
  /\ p >= lfree /\ p <= MemSize - size /\ Holds(item, p, size)
  /\ \A q \in DOMAIN item : lfree <= q /\ q < p => ~Holds(item, q, size)

Splits(p, size) == Data(item, p) >= size + Header + MIN_SIZE_ALIGNED

LowestFree(it, from) == Min({p \in DOMAIN it : p >= from /\ Free(it, p)} \cup {HeapEnd})

\* The heap after size bytes were taken at p.
Taken(p, size) ==
  LET it == [(IF Splits(p, size) THEN Split(item, p, size) ELSE item) EXCEPT ![p].used = TRUE]
  IN  [item |-> it, lfree |-> IF p = lfree THEN LowestFree(it, lfree) ELSE lfree]

\* The heap after the block at p was freed.
LeavesLfree(h, p) == PlugHoles([h EXCEPT !.item[p].used = FALSE], p)      \* a slip
Freed(h, p) ==
  PlugHoles([item  |-> [h.item EXCEPT ![p].used = FALSE],
             lfree |-> IF p < h.lfree THEN p ELSE h.lfree], p)

Becomes(h) == item' = h.item /\ lfree' = h.lfree

DataOnly(it, p) == Data(it, p)                                         \* a slip
Cost(it, p) == it[p].next - p
Highest(n) == IF max < n THEN n ELSE max

Live == {p \in DOMAIN item : item[p].used /\ p # HeapEnd}

Alloc(n) ==
  \E p \in DOMAIN item :
    LET h == Taken(p, Size(n)) IN
      /\ n # 0 /\ Size(n) <= MemSize /\ FirstFit(p, Size(n))
      /\ Becomes(h)
      /\ used' = used + Cost(h.item, p) /\ max' = Highest(used')
      /\ asked' = With(asked, p, n)

FreeBlock(p) ==
  /\ Becomes(Freed([item |-> item, lfree |-> lfree], p))
  /\ used' = used - Cost(item, p)
  /\ asked' = Without(asked, p)
  /\ UNCHANGED max

(* rt_smem_realloc of a live block, to another length: *)

\* it is the length it has;
Keep(p, n) == /\ Align(n) = Data(item, p)
              /\ asked' = With(asked, p, n) /\ UNCHANGED <<item, lfree, used, max>>

\* the rest of the block is worth splitting off;
Worth(p, n) == Align(n) + Header + MIN_SIZE < Data(item, p)
Shrink(p, n) ==
  LET q == p + Header + Align(n) IN
    /\ Worth(p, n)
    /\ Becomes(PlugHoles([item  |-> Split(item, p, Align(n)),
                          lfree |-> IF q < lfree THEN q ELSE lfree], q))
    /\ used' = used - (Data(item, p) - Align(n))
    /\ asked' = With(asked, p, n)
    /\ UNCHANGED max

\* otherwise, a new block, there to be copied to before the old one goes.
Move(p, n) ==
  \E q \in DOMAIN item :
    LET a == Taken(q, Size(n)) IN
      /\ Align(n) # Data(item, p) /\ ~Worth(p, n)
      /\ Size(n) <= MemSize /\ FirstFit(q, Size(n))
      /\ Becomes(Freed(a, p))
      /\ used' = used + Cost(a.item, q) - Cost(a.item, p)
      /\ max' = Highest(used + Cost(a.item, q))
      /\ asked' = With(Without(asked, p), q, n)

Realloc(p, n) == n # 0 /\ Align(n) <= MemSize /\ (Keep(p, n) \/ Shrink(p, n) \/ Move(p, n))

\* A call that finds no room answers RT_NULL.  It changes nothing: the owner of
\* a block that was to be moved still has it.
NoRoom(n) == Size(n) > MemSize \/ \A p \in DOMAIN item : ~FirstFit(p, Size(n))

DropsTheOld(p) == Becomes(Freed([item |-> item, lfree |-> lfree], p)) /\   \* a slip
                  used' = used - Cost(item, p) /\ UNCHANGED max
LeavesTheOld(p) == UNCHANGED <<item, lfree, used, max>>

AllocFails(n) == (n = 0 \/ NoRoom(n)) /\ UNCHANGED vars
ReallocFails(p, n) ==
  /\ n # 0
  /\ Align(n) > MemSize \/ (Align(n) # Data(item, p) /\ ~Worth(p, n) /\ NoRoom(n))
  /\ LeavesTheOld(p) /\ UNCHANGED asked

Next == \/ \E n \in Requests : Alloc(n) \/ AllocFails(n)
        \/ \E p \in Live : FreeBlock(p)
        \/ \E p \in Live, n \in Requests : Realloc(p, n) \/ ReallocFails(p, n)

Spec == Init /\ [][Next]_vars

-----------------------------------------------------------------------------
\* Headers lie within the heap, lfree names one, and the statistics never show
\* more than there is or a maximum below the present use.
TypeOK ==
  /\ DOMAIN item \subseteq 0 .. HeapEnd
  /\ item \in [DOMAIN item -> [used : BOOLEAN, next : 0 .. HeapEnd, prev : 0 .. HeapEnd]]
  /\ lfree \in DOMAIN item /\ asked \in [Live -> Requests] /\ used \in 0 .. HeapEnd /\ max \in used .. HeapEnd

\* After any sequence of calls the headers tile the heap: the chain of next
\* visits every one of them, prev leads back, and no block is lost or runs
\* into the next (mem.c:323-340, 454-466, 128-156).  Every pointer the next
\* call follows is one of these.
HeapTiled ==
  /\ {0, HeapEnd} \subseteq DOMAIN item
  /\ \A p \in DOMAIN item \ {HeapEnd} :
       LET n == item[p].next IN
         /\ n \in DOMAIN item /\ p + Header <= n
         /\ \A q \in DOMAIN item : ~(p < q /\ q < n)
         /\ n # HeapEnd => item[n].prev = p

\* No two free blocks are neighbours: whatever is freed, cut off or taken, the
\* free memory does not fall to pieces (plug_holes, which alloc relies on at
\* mem.c:347-349).
HolesPlugged == \A p \in DOMAIN item \ {HeapEnd} : Free(item, p) => item[item[p].next].used

\* The shortcut lfree is never stale: it is the lowest free block, or heap_end
\* (mem.c:135, 149, 370, 468, 529), so the search misses no block.
LowestFreeKnown == lfree = LowestFree(item, 0)

\* The heap's use, which is counted up and down by four statements with
\* different formulas (mem.c:341, 354, 452, 535), is what the live blocks occupy, and the
\* maximum is never below it.
UsedIsSum == used = SumFunction([p \in Live |-> item[p].next - p]) /\ used <= max

\* A run of free bytes from header a to header b, however it is cut up.
FreeRun(a, b) == a < b /\ \A p \in DOMAIN item : a <= p /\ p < b => Free(item, p)
\* rt_smem_alloc returns RT_NULL only when no run of free bytes could hold the
\* block, though its search ends at mem_size_aligned - size (mem.c:300).
FailsOnlyWhenFull ==
  \A n \in Requests \ {0} :
    (\E a, b \in DOMAIN item : FreeRun(a, b) /\ b - a >= Header + Size(n))
      => \E p \in DOMAIN item : FirstFit(p, Size(n))

Regions == INSTANCE HeapRegions WITH
             Space <- HeapEnd,
             live  <- {[at |-> p, length |-> Header + asked[p]] : p \in DOMAIN asked}

\* Callers get what HeapRegions promises: the regions they were given and have not
\* freed, as long as they asked for, share no byte, and no call made for another
\* caller, nor one of their own that fails, moves, cuts or frees them.
RegionsKept == Regions!Spec
=============================================================================
