----------------------------- MODULE KernelMutex -----------------------------
(***************************************************************************)
(* Mutexes with priority inheritance (rt-thread/src/ipc.c:827-1707), the   *)
(* timeout of a waiting thread and the end of a thread (thread.c).  They   *)
(* guard the heap (kservice.c:663), the network stack and the device buses *)
(* that the display, sensor and upload threads share.                      *)
(*                                                                         *)
(* One processor, priorities enforced: the thread that runs is one of the  *)
(* ready threads of the smallest priority number.  Inside a call the       *)
(* scheduler is locked, and the interrupts that still come in can only     *)
(* time out other waiters, which commutes with the call's own sections     *)
(* under rt_sched_lock: a call is one step up to rt_schedule(), and what   *)
(* follows it in a take that had to wait is a step of its own.             *)
(***************************************************************************)
EXTENDS Integers, Sequences, SequencesExt, FiniteSetsExt

CONSTANTS Threads, Mutexes,
          NoThread, NoMutex,   \* RT_NULL
          InitPriority,        \* the threads' own priorities
          MaxHold              \* RT_MUTEX_HOLD_MAX, 255 in the build

NoPriority == 255              \* 0xff: nobody waits

ASSUME MutexAssumption ==
  /\ IsFiniteSet(Threads) /\ IsFiniteSet(Mutexes)
  /\ NoThread \notin Threads /\ NoMutex \notin Mutexes
  /\ InitPriority \in [Threads -> 0 .. NoPriority - 1]
  /\ MaxHold \in Nat \ {0}

VARIABLES
  owner, hold,       \* per mutex
  priority,          \* per mutex: its first waiter's, when last looked at
  suspend_thread,    \* per mutex: the waiters, the most urgent first
  stat,              \* per thread: "ready", "suspended" or "closed"
  current_priority,  \* per thread
  pending_object,    \* per thread: the mutex it waits or last waited for
  error,             \* per thread: "ok" or "timeout"
  taking,            \* per thread: the mutex whose take has not returned yet
  timer,             \* the threads whose wait is limited
  timed_out          \* history: whether a wait has timed out yet

vars == <<owner, hold, priority, suspend_thread, stat, current_priority,
          pending_object, error, taking, timer, timed_out>>

TypeOK ==
  /\ owner \in [Mutexes -> Threads \cup {NoThread}]
  /\ hold \in [Mutexes -> 0 .. MaxHold]
  /\ priority \in [Mutexes -> 0 .. NoPriority]
  /\ \A m \in Mutexes : /\ suspend_thread[m] \in Seq(Threads)
                        /\ IsInjective(suspend_thread[m])
  /\ stat \in [Threads -> {"ready", "suspended", "closed"}]
  /\ current_priority \in [Threads -> 0 .. NoPriority - 1]
  /\ pending_object \in [Threads -> Mutexes \cup {NoMutex}]
  /\ taking \in [Threads -> Mutexes \cup {NoMutex}]
  /\ error \in [Threads -> {"ok", "timeout"}]
  /\ timer \subseteq Threads /\ timed_out \in BOOLEAN

Init ==
  /\ owner = [m \in Mutexes |-> NoThread] /\ hold = [m \in Mutexes |-> 0]
  /\ priority = [m \in Mutexes |-> NoPriority]
  /\ suspend_thread = [m \in Mutexes |-> <<>>]
  /\ stat = [t \in Threads |-> "ready"] /\ current_priority = InitPriority
  /\ pending_object = [t \in Threads |-> NoMutex]
  /\ taking = [t \in Threads |-> NoMutex] /\ error = [t \in Threads |-> "ok"]
  /\ timer = {} /\ timed_out = FALSE

-----------------------------------------------------------------------------
(* The calls change the kernel's lists and priorities one after the other: *)
(* k stands for their values between two such changes.                     *)

Kernel == [owner |-> owner, hold |-> hold, first |-> priority, waiters |-> suspend_thread,
           stat |-> stat, prio |-> current_priority, pending |-> pending_object]

Becomes(k) ==
  /\ owner' = k.owner /\ hold' = k.hold /\ priority' = k.first
  /\ suspend_thread' = k.waiters /\ stat' = k.stat
  /\ current_priority' = k.prio /\ pending_object' = k.pending

Taken(k, t) == {m \in Mutexes : k.owner[m] = t}

FirstPriority(k, m) ==
  IF k.waiters[m] = <<>> THEN NoPriority ELSE k.prio[Head(k.waiters[m])]

OwnPriority(k, t, taken) == Min({InitPriority[t]} \cup {k.first[m] : m \in taken})

\* A slip a maintainer could make: whoever comes last waits last.
QueueAtTheEnd(k, m, t) == [k EXCEPT !.waiters[m] = Append(@, t)]
Enqueue(k, m, t) ==
  LET behind == {i \in DOMAIN k.waiters[m] : k.prio[t] < k.prio[k.waiters[m][i]]}
      place  == IF behind = {} THEN Len(k.waiters[m]) + 1 ELSE Min(behind)
  IN  [k EXCEPT !.waiters[m] = InsertAt(@, place, t)]

Dequeue(k, t) == [k EXCEPT !.waiters = [m \in Mutexes |-> RemoveFirst(k.waiters[m], t)]]

\* Where a changed priority goes on to: the owner of the mutex u waits for,
\* if that owner's priority has to follow.
Requeue(k, u) ==
  LET m == k.pending[u]
      j == Enqueue(Dequeue(k, u), m, u)
  IN  [j EXCEPT !.first[m] = FirstPriority(j, m)]
FollowOwner(k, u) ==
  LET o == k.owner[k.pending[u]]
      p == OwnPriority(k, o, Taken(k, o))
  IN  IF p = k.prio[o] THEN [k |-> k, next |-> NoThread]
      ELSE [k |-> [k EXCEPT !.prio[o] = p], next |-> o]
WaitsForMutex(k, u) == u # NoThread /\ k.stat[u] = "suspended" /\ k.pending[u] # NoMutex

\* A slip: the owner's own wait for another mutex is not looked at.
UpdatesOwnerOnly(k, t, p) == [k EXCEPT !.prio[t] = p]
UpdateStep(c) ==
  IF WaitsForMutex(c.k, c.next) THEN FollowOwner(Requeue(c.k, c.next), c.next)
  ELSE [c EXCEPT !.next = NoThread]
MaxUpdates == NoPriority * Cardinality(Threads)   \* the loop ends before that
UpdatePriority(k, t, p) ==
  LET step[n \in Nat] == IF n = 0 THEN [k |-> [k EXCEPT !.prio[t] = p], next |-> t]
                         ELSE UpdateStep(step[n - 1])
      last == CHOOSE n \in 0 .. MaxUpdates : step[n].next = NoThread
  IN  step[last].k

\* t no longer waits for m: m's priority, and its owner's if t gave it.
Recompute(k, m, t) ==
  LET o == k.owner[m]
      j == [k EXCEPT !.first[m] = FirstPriority(k, m)]
      p == OwnPriority(j, o, Taken(j, o))
  IN  IF o # NoThread /\ k.prio[o] = k.prio[t] /\ p # k.prio[o] THEN UpdatePriority(j, o, p) ELSE j

-----------------------------------------------------------------------------
Running(t) ==
  /\ stat[t] = "ready"
  /\ \A u \in Threads : stat[u] = "ready" => current_priority[t] <= current_priority[u]
InCode(t) == Running(t) /\ taking[t] = NoMutex

\* Taking again a mutex one has; beyond MaxHold the call is refused.
TakeAgain(t, m) ==
  /\ InCode(t) /\ owner[m] = t /\ hold[m] < MaxHold
  /\ hold' = [hold EXCEPT ![m] = @ + 1] /\ error' = [error EXCEPT ![t] = "ok"]
  /\ UNCHANGED <<owner, priority, suspend_thread, stat, current_priority, pending_object,
                 taking, timer, timed_out>>

TakeFree(t, m) ==
  /\ InCode(t) /\ owner[m] = NoThread
  /\ owner' = [owner EXCEPT ![m] = t] /\ hold' = [hold EXCEPT ![m] = 1]
  /\ priority' = [priority EXCEPT ![m] = NoPriority]
  /\ error' = [error EXCEPT ![t] = "ok"]
  /\ UNCHANGED <<suspend_thread, stat, current_priority, pending_object, taking,
                 timer, timed_out>>

\* Somebody else has it; a take that would not wait returns at once.
Inherit(k, t, m) ==
  LET j == [k EXCEPT !.first[m] = k.prio[t]]
  IN  IF k.prio[t] >= k.first[m] THEN k
      ELSE IF k.prio[t] < k.prio[k.owner[m]] THEN UpdatePriority(j, k.owner[m], k.prio[t]) ELSE j
TakeWait(t, m, limited) ==
  /\ InCode(t) /\ owner[m] \notin {t, NoThread}
  /\ LET k == Enqueue([Kernel EXCEPT !.stat[t] = "suspended", !.pending[t] = m], m, t)
     IN  Becomes(Inherit(k, t, m))
  /\ taking' = [taking EXCEPT ![t] = m] /\ error' = [error EXCEPT ![t] = "ok"]
  /\ timer' = IF limited THEN timer \cup {t} ELSE timer
  /\ UNCHANGED timed_out

\* rt_schedule() has returned: the mutex was handed over, or time was up.
TakeReturns(t) ==
  /\ Running(t) /\ taking[t] # NoMutex
  /\ Becomes(IF error[t] = "ok" THEN Kernel
             ELSE [Recompute(Kernel, taking[t], t) EXCEPT !.pending[t] = NoMutex])
  /\ taking' = [taking EXCEPT ![t] = NoMutex]
  /\ UNCHANGED <<error, timer, timed_out>>

-----------------------------------------------------------------------------
(* Release: down to its own priority, then the first waiter is the owner. *)

KeepsPriority(k, t, m) == k                          \* a slip
LowerPriority(k, t, m) ==
  IF k.prio[t] # k.first[m] THEN k
  ELSE [k EXCEPT !.prio[t] = OwnPriority(k, t, Taken(k, t) \ {m})]

JustFrees(k, m) == [k EXCEPT !.owner[m] = NoThread, !.hold[m] = 0]   \* a slip
HandOver(k, m) ==
  IF k.waiters[m] = <<>> THEN [k EXCEPT !.owner[m] = NoThread, !.hold[m] = 0, !.first[m] = NoPriority]
  ELSE LET u == Head(k.waiters[m])
           j == [k EXCEPT !.waiters[m] = Tail(@), !.stat[u] = "ready", !.pending[u] = NoMutex,
                          !.owner[m] = u, !.hold[m] = 1]
       IN  [j EXCEPT !.first[m] = FirstPriority(j, m)]

\* A slip: handed over although taken more than once
ReleasesAtOnce(k, m) == HandOver(LowerPriority(k, k.owner[m], m), m)
Released(k, m) ==
  IF k.hold[m] > 1 THEN [k EXCEPT !.hold[m] = @ - 1]
  ELSE HandOver(LowerPriority(k, k.owner[m], m), m)

\* The timer of a thread that is made ready is stopped.
LeavesTimersOn(k) == {}                              \* a slip
Woken(k) == {t \in Threads : k.stat[t] = "ready"}

Release(t, m) ==
  /\ InCode(t) /\ owner[m] = t
  /\ LET k == Released(Kernel, m) IN Becomes(k) /\ timer' = timer \ Woken(k)
  /\ UNCHANGED <<error, taking, timed_out>>

-----------------------------------------------------------------------------
(* Time and the end of threads. *)

Sleep(t) ==
  /\ InCode(t) /\ stat' = [stat EXCEPT ![t] = "suspended"]
  /\ UNCHANGED <<owner, hold, priority, suspend_thread, current_priority, pending_object,
                 error, taking, timer, timed_out>>

Wake(t) ==
  /\ stat[t] = "suspended" /\ taking[t] = NoMutex
  /\ stat' = [stat EXCEPT ![t] = "ready"]
  /\ UNCHANGED <<owner, hold, priority, suspend_thread, current_priority, pending_object,
                 error, taking, timer, timed_out>>

Timeout(t) ==
  /\ t \in timer
  /\ Becomes([Dequeue(Kernel, t) EXCEPT !.stat[t] = "ready"])
  /\ error' = [error EXCEPT ![t] = "timeout"] /\ timer' = timer \ {t}
  /\ timed_out' = TRUE
  /\ UNCHANGED taking

Close(k, u) == [Dequeue(k, u) EXCEPT !.stat[u] = "closed"]
Drop(k, u) ==
  IF k.pending[u] = NoMutex THEN k
  ELSE [Recompute(k, k.pending[u], u) EXCEPT !.pending[u] = NoMutex]
\* rt_mutex_release refuses a mutex that its caller does not own.
ReleaseTaken(k, t, u) ==
  IF t # u THEN k ELSE FoldSet(LAMBDA m, j : Released(j, m), k, Taken(k, u))

Delete(t, u) ==
  /\ InCode(t) /\ stat[u] # "closed"
  /\ LET k == ReleaseTaken(Drop(Close(Kernel, u), u), t, u)
     IN  Becomes(k) /\ timer' = timer \ (Woken(k) \cup {u})
  /\ taking' = [taking EXCEPT ![u] = NoMutex]
  /\ UNCHANGED <<error, timed_out>>

\* A thread's function returns: nothing looks at its mutexes.
Exit(t) ==
  /\ InCode(t) /\ stat' = [stat EXCEPT ![t] = "closed"]
  /\ UNCHANGED <<owner, hold, priority, suspend_thread, current_priority, pending_object,
                 error, taking, timer, timed_out>>

Next ==
  \E t \in Threads :
     \/ TakeReturns(t) \/ Sleep(t) \/ Wake(t) \/ Timeout(t) \/ Exit(t)
     \/ \E u \in Threads : Delete(t, u)
     \/ \E m \in Mutexes : \/ TakeAgain(t, m) \/ TakeFree(t, m) \/ Release(t, m)
                           \/ \E limited \in BOOLEAN : TakeWait(t, m, limited)

Spec == Init /\ [][Next]_vars

-----------------------------------------------------------------------------
Waits(m, t) == t \in ToSet(suspend_thread[m])
TimedOut(t) == taking[t] # NoMutex /\ stat[t] = "ready" /\ error[t] = "timeout"

\* Priority inheritance through chains of owners that wait themselves, over
\* takes, time-outs, deletions and releases in any order: whoever has a mutex
\* runs at least as urgently as everybody waiting for it (ipc.c:868-920,
\* 1420-1427), so no thread of a priority in between can hold the waiter up.
OwnerInherits ==
  \A m \in Mutexes : \A w \in ToSet(suspend_thread[m]) :
     current_priority[owner[m]] <= current_priority[w]

\* A waiter's priority changes while it waits; its mutex still finds the most
\* urgent waiter at the head of the list when it is handed over (ipc.c:1635).
UrgentFirst ==
  \A m \in Mutexes : \A i, j \in DOMAIN suspend_thread[m] :
     i < j => current_priority[suspend_thread[m][i]] <= current_priority[suspend_thread[m][j]]

\* No wake-up is lost between release, time-out and deletion: nobody waits for
\* a mutex nobody has, and a suspended taker is on its mutex's list and on no
\* other (ipc.c:1629-1697, thread.c:128-131, 147-154).
NobodyForgotten ==
  /\ \A m \in Mutexes : owner[m] = NoThread => suspend_thread[m] = <<>>
  /\ \A t \in Threads : \A m \in Mutexes :
       Waits(m, t) <=> stat[t] = "suspended" /\ taking[t] = m

\* A time-out races with the hand-over of the mutex; rt_mutex_take answers
\* RT_EOK just when its caller owns the mutex (RT_ASSERTs at ipc.c:1457, 1464).
TakeTellsTheTruth ==
  \A t \in Threads : taking[t] # NoMutex /\ stat[t] = "ready" =>
     (error[t] = "ok" <=> owner[taking[t]] = t)

\* An inherited priority is given back: a thread runs at its own priority or at
\* that of the most urgent thread waiting for a mutex it has, as soon as no
\* waiter that timed out is still to run (ipc.c:1478-1506, 922-943).
DueTo(t) ==
  Min({InitPriority[t]} \cup
      {current_priority[w] : w \in {u \in Threads : \E m \in Mutexes : owner[m] = t /\ Waits(m, u)}})
PriorityExact ==
  (\A t \in Threads : ~TimedOut(t)) =>
     \A t \in Threads : stat[t] # "closed" => current_priority[t] = DueTo(t)

\* It is so as long as no wait has timed out, whatever is taken, released and
\* deleted.
PriorityGivenBack == ~timed_out => PriorityExact

Lock == INSTANCE PriorityLock WITH waiting <- [m \in Mutexes |-> ToSet(suspend_thread[m])],
                                   urgency <- current_priority

\* The lists, the counts and the priorities together are locks as their callers
\* are told: a mutex changes hands only when its owner has released it as often
\* as it took it or has deleted itself, then goes to the most urgent waiter of
\* that moment, and inheritance holds after every step (ipc.c:1333-1707).
LockKept == Lock!Spec
=============================================================================
