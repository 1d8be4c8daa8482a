---------------------------- MODULE MCKernelTimer ----------------------------
(* KernelTimer with interchangeable timers.  The timeout of a timer that is  *)
(* on no list is not read before it is set again: states that differ in it   *)
(* only are explored once.                                                   *)
EXTENDS KernelTimer

Symmetric == Permutations(HardTimers) \cup Permutations(SoftTimers)
LiveTimeouts == [t \in Timers |-> IF Listed(t) THEN timeout_tick[t] ELSE 0]
View == <<rt_tick, timer_list, LiveTimeouts, init_tick, activated, periodic, gone,
          running, list, interrupt, thread, soft_timer_sem, due, calls>>
=============================================================================
