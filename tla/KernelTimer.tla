----------------------------- MODULE KernelTimer -----------------------------
(***************************************************************************)
(* The kernel's timers (rt-thread/src/timer.c): the list of hard timers,   *)
(* checked by the tick interrupt (clock.c), and the list of soft timers,   *)
(* checked by the timer thread that the tick interrupt wakes through a     *)
(* semaphore.  Sleeping threads, the waits of the IPC objects and the      *)
(* packages' timeouts all end here.                                        *)
(*                                                                         *)
(* Code under rt_spin_lock_irqsave is one step; between two such steps any *)
(* thread, callback or interrupt may call the timer interface.  The build  *)
(* has one list level (RT_TIMER_SKIP_LIST_LEVEL, rtdef.h:602).             *)
(***************************************************************************)
EXTENDS Integers, Sequences, SequencesExt, FiniteSetsExt

CONSTANTS HardTimers, SoftTimers,
          NoTimer,     \* RT_NULL
          TICKS,       \* the tick counter wraps here: 2^32 in the build
          Times,       \* the durations timers are given
          MaxLate,     \* ticks the timer thread may lag behind a timeout
          MaxCalls     \* bound on the calls of the interface

Timers == HardTimers \cup SoftTimers
RT_TICK_MAX == TICKS - 1

ASSUME TimerAssumption ==
  /\ HardTimers \cap SoftTimers = {} /\ NoTimer \notin Timers
  /\ TICKS \in Nat \ {0} /\ MaxLate \in Nat /\ MaxLate < RT_TICK_MAX \div 2 /\ MaxCalls \in Nat
  /\ Times \subseteq Nat
  /\ \A time \in Times : /\ time < RT_TICK_MAX \div 2      \* timer.c:315, 684
                         /\ time + MaxLate <= TICKS \div 2 + 1

Kind == {"hard", "soft"}
KindOf(t) == IF t \in SoftTimers THEN "soft" ELSE "hard"

VARIABLES
  rt_tick,        \* the tick counter
  timer_list,     \* per kind: _timer_list, _soft_timer_list
  timeout_tick, init_tick,   \* per timer
  activated, periodic,       \* the timers with these flags set
  gone,           \* timers detached or deleted
  running,        \* per kind: the timer whose function is being called
  list,           \* per kind: what the temporary list of _timer_check holds
  interrupt,      \* the tick interrupt: "none", "soft", "hard", "function"
  thread,         \* the timer thread: "check", "function", "take", "asleep"
  soft_timer_sem, \* value of _soft_timer_sem, whose limit is 1
  due,            \* history: ticks until a listed timer is to fire; 0 if not listed
  calls           \* calls made so far

vars == <<rt_tick, timer_list, timeout_tick, init_tick, activated, periodic, gone,
          running, list, interrupt, thread, soft_timer_sem, due, calls>>
kernel_vars == <<rt_tick, running, interrupt, thread, soft_timer_sem>>

Listed(t) == t \in ToSet(timer_list[KindOf(t)])

TypeOK ==
  /\ rt_tick \in 0 .. RT_TICK_MAX
  /\ \A k \in Kind : /\ timer_list[k] \in Seq({t \in Timers : KindOf(t) = k})
                     /\ IsInjective(timer_list[k])
                     /\ running[k] \in {t \in Timers : KindOf(t) = k} \cup {NoTimer}
                     /\ list[k] \in {running[k], NoTimer}
  /\ timeout_tick \in [Timers -> 0 .. RT_TICK_MAX] /\ init_tick \in [Timers -> Times]
  /\ activated \subseteq Timers /\ periodic \subseteq Timers /\ gone \subseteq Timers
  /\ interrupt \in {"none", "soft", "hard", "function"}
  /\ thread \in {"check", "function", "take", "asleep"}
  /\ soft_timer_sem \in 0 .. 1 /\ calls \in 0 .. MaxCalls

-----------------------------------------------------------------------------
\* Unsigned difference of two ticks.
Since(a, b) == (a - b) % TICKS

(* Slips a maintainer could make, one per definition below. *)
FiresBeforeTheWrap(t) == timeout_tick[t] <= rt_tick
ComparesWithoutWrap(t, timeout) == timeout_tick[t] > timeout
LastComeFirstServed(t, timeout) == Since(timeout_tick[t], timeout) < RT_TICK_MAX \div 2
OnlyWakesASleeper == /\ thread' = IF thread = "asleep" THEN "check" ELSE thread
                     /\ UNCHANGED soft_timer_sem
HasNoLimit == soft_timer_sem' = soft_timer_sem + 1 /\ UNCHANGED thread
WaitsOneMore(t) == Since(rt_tick, timeout_tick[t]) \in 1 .. (RT_TICK_MAX \div 2) - 1
LeavesItOnTheList(t) == /\ list' = [list EXCEPT ![KindOf(t)] = IF @ = t THEN NoTimer ELSE @]
                        /\ UNCHANGED <<timer_list, due>>
RestartsOneShots(t) == t \in activated /\ t \notin periodic
-----------------------------------------------------------------------------

Init ==
  /\ rt_tick = 0
  /\ timer_list = [k \in Kind |-> <<>>]
  /\ timeout_tick = [t \in Timers |-> 0] /\ init_tick \in [Timers -> Times]
  /\ activated = {} /\ periodic \in SUBSET Timers /\ gone = {}
  /\ running = [k \in Kind |-> NoTimer] /\ list = [k \in Kind |-> NoTimer]
  /\ interrupt = "none" /\ thread = "check" /\ soft_timer_sem = 0
  /\ due = [t \in Timers |-> 0] /\ calls = 0

\* Where _timer_start stops walking: at the first timer that is due later.
DueLater(t, timeout) ==
  Since(timeout_tick[t], timeout) # 0 /\ Since(timeout_tick[t], timeout) < RT_TICK_MAX \div 2

Insert(queue, t, timeout) ==
  LET later == {i \in DOMAIN queue : DueLater(queue[i], timeout)}
  IN  InsertAt(queue, IF later = {} THEN Len(queue) + 1 ELSE Min(later), t)

\* _timer_remove takes the timer out of whatever list it is on.
Unlink(t) ==
  /\ timer_list' = [timer_list EXCEPT ![KindOf(t)] = RemoveFirst(@, t)]
  /\ list' = [list EXCEPT ![KindOf(t)] = IF @ = t THEN NoTimer ELSE @]
  /\ due' = [due EXCEPT ![t] = 0]

\* _timer_start
Start(t) ==
  LET timeout == (rt_tick + init_tick[t]) % TICKS
  IN  /\ timeout_tick' = [timeout_tick EXCEPT ![t] = timeout]
      /\ timer_list' = [timer_list EXCEPT ![KindOf(t)] = Insert(RemoveFirst(@, t), t, timeout)]
      /\ list' = [list EXCEPT ![KindOf(t)] = IF @ = t THEN NoTimer ELSE @]
      /\ due' = [due EXCEPT ![t] = init_tick[t]]
      /\ activated' = activated \cup {t}

Deactivate(t) == /\ Unlink(t) /\ activated' = activated \ {t}
                 /\ UNCHANGED timeout_tick
-----------------------------------------------------------------------------
(* Calls of the interface by threads, callbacks and other interrupts. *)

Called(t) == t \notin gone /\ calls < MaxCalls /\ calls' = calls + 1

rt_timer_start(t) ==
  /\ Called(t)
  /\ Start(t)
  /\ UNCHANGED <<init_tick, periodic, gone, kernel_vars>>

\* A timer whose flag is clear is left alone: -RT_ERROR.
rt_timer_stop(t) ==
  /\ Called(t) /\ t \in activated
  /\ Deactivate(t)
  /\ UNCHANGED <<init_tick, periodic, gone, kernel_vars>>

\* rt_timer_delete too.
rt_timer_detach(t) ==
  /\ Called(t) /\ gone' = gone \cup {t}
  /\ Deactivate(t)
  /\ UNCHANGED <<init_tick, periodic, kernel_vars>>

\* RT_TIMER_CTRL_SET_TIME stops a timer that is running.
SetTime(t) ==
  /\ Called(t)
  /\ \E time \in Times : init_tick' = [init_tick EXCEPT ![t] = time]
  /\ \/ t \in activated /\ Deactivate(t)
     \/ t \notin activated /\ UNCHANGED <<timer_list, list, due, activated, timeout_tick>>
  /\ UNCHANGED <<periodic, gone, kernel_vars>>

\* RT_TIMER_CTRL_SET_ONESHOT and RT_TIMER_CTRL_SET_PERIODIC
SetKind(t) ==
  /\ Called(t)
  /\ periodic' \in {periodic \ {t}, periodic \cup {t}}
  /\ UNCHANGED <<timer_list, timeout_tick, init_tick, activated, gone, list, due, kernel_vars>>

Call(t) == rt_timer_start(t) \/ rt_timer_stop(t) \/ rt_timer_detach(t) \/ SetTime(t) \/ SetKind(t)
-----------------------------------------------------------------------------
(* _timer_check, for either list. *)

Expired(t) == Since(rt_tick, timeout_tick[t]) < RT_TICK_MAX \div 2

HeadExpired(k) == timer_list[k] # <<>> /\ Expired(Head(timer_list[k]))

\* The head leaves the list for the temporary one and its function is called.
Fire(k) ==
  /\ HeadExpired(k)
  /\ LET t == Head(timer_list[k])
     IN  /\ timer_list' = [timer_list EXCEPT ![k] = Tail(@)]
         /\ activated' = IF t \in periodic THEN activated ELSE activated \ {t}
         /\ list' = [list EXCEPT ![k] = t] /\ running' = [running EXCEPT ![k] = t]
         /\ due' = [due EXCEPT ![t] = 0]

Restarts(t) == t \in periodic /\ t \in activated

\* Nothing is done for a timer that its function, or anyone since, has
\* stopped, detached or started again: it is not on the temporary list.
Return(k) ==
  /\ running[k] # NoTimer /\ running' = [running EXCEPT ![k] = NoTimer]
  /\ \/ list[k] # NoTimer /\ Restarts(list[k]) /\ Start(list[k])
     \/ /\ list[k] = NoTimer \/ ~Restarts(list[k])
        /\ list' = [list EXCEPT ![k] = NoTimer]
        /\ UNCHANGED <<timer_list, timeout_tick, activated, due>>
-----------------------------------------------------------------------------
(* The tick interrupt. *)

\* rt_tick_increase.  The bound stands for the timer thread's being scheduled
\* in time: it has a higher priority than any thread of the application.
Tick ==
  /\ interrupt = "none" /\ interrupt' = "soft"
  /\ \A t \in Timers : due[t] > -MaxLate
  /\ rt_tick' = (rt_tick + 1) % TICKS
  /\ due' = [t \in Timers |-> IF Listed(t) THEN due[t] - 1 ELSE 0]
  /\ UNCHANGED <<timer_list, timeout_tick, init_tick, activated, periodic, gone,
                 running, list, thread, soft_timer_sem, calls>>

\* rt_sem_release: a waiting thread is resumed, otherwise the value is raised
\* up to its limit.
Release ==
  \/ thread = "asleep" /\ thread' = "check" /\ UNCHANGED soft_timer_sem
  \/ thread # "asleep" /\ soft_timer_sem' = 1 /\ UNCHANGED thread

\* The test of rt_timer_check does not allow for the wrap.
SoftPending == timer_list["soft"] # <<>> /\ timeout_tick[Head(timer_list["soft"])] <= rt_tick

CheckSoft ==
  /\ interrupt = "soft" /\ interrupt' = "hard"
  /\ \/ SoftPending /\ Release
     \/ ~SoftPending /\ UNCHANGED <<thread, soft_timer_sem>>
  /\ UNCHANGED <<rt_tick, timer_list, timeout_tick, init_tick, activated, periodic,
                 gone, running, list, due, calls>>

CheckHard ==
  /\ interrupt = "hard"
  /\ \/ interrupt' = "function" /\ Fire("hard")
     \/ interrupt' = "none" /\ ~HeadExpired("hard")
                     /\ UNCHANGED <<timer_list, activated, list, running, due>>
  /\ UNCHANGED <<rt_tick, timeout_tick, init_tick, periodic, gone, thread, soft_timer_sem, calls>>

HardReturn ==
  /\ interrupt = "function" /\ interrupt' = "hard"
  /\ Return("hard")
  /\ UNCHANGED <<rt_tick, init_tick, periodic, gone, thread, soft_timer_sem, calls>>

Interrupt == CheckSoft \/ CheckHard \/ HardReturn
-----------------------------------------------------------------------------
(* The timer thread, which runs when no interrupt does. *)

ThreadCheck ==
  /\ interrupt = "none" /\ thread = "check"
  /\ \/ Fire("soft") /\ thread' = "function"
     \/ ~HeadExpired("soft") /\ thread' = "take"
        /\ UNCHANGED <<timer_list, activated, list, running, due>>
  /\ UNCHANGED <<rt_tick, timeout_tick, init_tick, periodic, gone, interrupt, soft_timer_sem, calls>>

ThreadReturn ==
  /\ interrupt = "none" /\ thread = "function" /\ thread' = "check"
  /\ Return("soft")
  /\ UNCHANGED <<rt_tick, init_tick, periodic, gone, interrupt, soft_timer_sem, calls>>

ThreadTake ==
  /\ interrupt = "none" /\ thread = "take"
  /\ \/ soft_timer_sem = 1 /\ soft_timer_sem' = 0 /\ thread' = "check"
     \/ soft_timer_sem = 0 /\ thread' = "asleep" /\ UNCHANGED soft_timer_sem
  /\ UNCHANGED <<rt_tick, timer_list, timeout_tick, init_tick, activated, periodic,
                 gone, running, list, interrupt, due, calls>>

Thread == ThreadCheck \/ ThreadReturn \/ ThreadTake

Next == Tick \/ Interrupt \/ Thread \/ \E t \in Timers : Call(t)

Spec == Init /\ [][Next]_vars

\* The tick keeps coming, its handler ends, and the timer thread runs between
\* two ticks again and again.
FairSpec == Spec /\ WF_vars(Tick) /\ WF_vars(Interrupt) /\ SF_vars(Thread)
-----------------------------------------------------------------------------
(* Properties. *)

\* Both lists stay in the order in which their timers are due, across the
\* wrap of the tick counter and while the timer thread lags behind.
ListsInOrder ==
  \A k \in Kind : \A i, j \in 1 .. Len(timer_list[k]) :
    i < j => due[timer_list[k][i]] <= due[timer_list[k][j]]

\* No timer's function is called before its time, whatever the tick counter
\* has done in between.
NeverEarly ==
  [][\A k \in Kind : running'[k] \notin {running[k], NoTimer} => due[running'[k]] <= 0]_vars

\* The tick interrupt that makes a hard timer due also calls it, except one
\* started with no ticks at all, which waits for the next.
HardTimersInTime ==
  interrupt = "none" => \A t \in HardTimers : Listed(t) => due[t] > 0 \/ init_tick[t] = 0

\* The timer thread does not sleep over a timeout, however the tick interrupt
\* falls between its check and its taking the semaphore.
ThreadWakesInTime ==
  interrupt = "none" /\ thread = "asleep" => \A t \in SoftTimers : Listed(t) => due[t] > 0

\* A timer on a list has its flag set, so that rt_timer_stop, which trusts the
\* flag, takes it out.
ListedIsActivated == \A t \in Timers : Listed(t) => t \in activated

\* timer.c:440-444: of two timers due at the same tick, the one started
\* first is called first.
FirstStartedFirst ==
  [][\A k \in Kind : \A i, j \in 1 .. Len(timer_list'[k]) :
       LET t == timer_list'[k][i]
           u == timer_list'[k][j]
       IN  i < j /\ due'[t] = due'[u] /\ Listed(u) => Listed(t)]_vars

\* A periodic timer that is waiting when the last call of the interface has
\* been made is called again and again: every restart succeeds, and no
\* wake-up of the timer thread is lost.
KeepsFiring ==
  \A t \in Timers :
    <>(calls = MaxCalls /\ Listed(t) /\ t \in periodic) => []<>(running[KindOf(t)] = t)
=============================================================================
