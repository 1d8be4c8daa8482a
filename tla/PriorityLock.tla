----------------------------- MODULE PriorityLock -----------------------------
(* What the mutexes promise: nobody has a mutex but the thread that was      *)
(* given it, until it gives it up as often as it took it; who waits for it   *)
(* gets it in the order of urgency, gives up, or is not there any more; and  *)
(* no owner is less urgent than somebody who waits for it.                   *)
EXTENDS Naturals

CONSTANTS Threads, Mutexes, NoThread, MaxHold

VARIABLES owner, hold, waiting,
          urgency       \* the smaller the number, the more urgent
lock == <<owner, hold, waiting>>
vars == <<owner, hold, waiting, urgency>>

MostUrgent(u, m) == u \in waiting[m] /\ \A v \in waiting[m] : urgency[u] <= urgency[v]
Heeded == \A m \in Mutexes : \A w \in waiting[m] : urgency[owner[m]] <= urgency[w]

Init ==
  /\ owner = [m \in Mutexes |-> NoThread] /\ hold = [m \in Mutexes |-> 0]
  /\ waiting = [m \in Mutexes |-> {}] /\ urgency \in [Threads -> Nat]

Grab(t, m) ==
  /\ owner[m] = NoThread
  /\ owner' = [owner EXCEPT ![m] = t] /\ hold' = [hold EXCEPT ![m] = 1]
  /\ UNCHANGED waiting

GrabAgain(t, m) ==
  /\ owner[m] = t /\ hold[m] < MaxHold
  /\ hold' = [hold EXCEPT ![m] = @ + 1]
  /\ UNCHANGED <<owner, waiting>>

\* One waits for one mutex at a time, and not for one's own.
Await(t, m) ==
  /\ owner[m] \notin {t, NoThread} /\ \A n \in Mutexes : t \notin waiting[n]
  /\ waiting' = [waiting EXCEPT ![m] = @ \cup {t}]
  /\ UNCHANGED <<owner, hold>>

GiveUp(t, m) ==
  /\ t \in waiting[m] /\ waiting' = [waiting EXCEPT ![m] = @ \ {t}]
  /\ UNCHANGED <<owner, hold>>

\* An owner gives up once what it has taken, of one mutex or of all it has.
Counted(m) == /\ hold[m] > 1 /\ hold'[m] = hold[m] - 1
              /\ owner'[m] = owner[m] /\ waiting'[m] = waiting[m]
Freed(m)   == /\ hold[m] = 1 /\ waiting[m] = {}
              /\ owner'[m] = NoThread /\ hold'[m] = 0 /\ waiting'[m] = {}
Passed(m)  == /\ hold[m] = 1 /\ MostUrgent(owner'[m], m)
              /\ hold'[m] = 1 /\ waiting'[m] = waiting[m] \ {owner'[m]}
Kept(m)    == owner'[m] = owner[m] /\ hold'[m] = hold[m] /\ waiting'[m] = waiting[m]
Release(t, M) ==
  /\ \A m \in M : owner[m] = t /\ (Counted(m) \/ Freed(m) \/ Passed(m))
  /\ \A m \in Mutexes \ M : Kept(m)
  /\ owner' \in [Mutexes -> Threads \cup {NoThread}] /\ hold' \in [Mutexes -> 0 .. MaxHold]
  /\ waiting' \in [Mutexes -> SUBSET Threads]

Step ==
  \/ UNCHANGED lock
  \/ \E t \in Threads :
       \/ \E m \in Mutexes : Grab(t, m) \/ GrabAgain(t, m) \/ Await(t, m) \/ GiveUp(t, m)
       \/ \E M \in {{m} : m \in Mutexes} \cup {{m \in Mutexes : owner[m] = t}} : Release(t, M)

\* Urgencies may change with every step, but so that owners keep up.
Next == Step /\ urgency' \in [Threads -> Nat] /\ Heeded'

Spec == Init /\ [][Next]_vars
=============================================================================
