---------------------------- MODULE MCKernelMutex ----------------------------
(* Four threads of three priorities and two mutexes: a chain of two owners   *)
(* that wait, with a waiter of the same priority beside it.                  *)
EXTENDS KernelMutex

CONSTANTS low, mid, also, high
MCPriority == (high :> 1) @@ (mid :> 2) @@ (also :> 2) @@ (low :> 3)

\* An error outside a take is written before it is read.
View == <<owner, hold, priority, suspend_thread, stat, current_priority, pending_object,
          [t \in Threads |-> IF taking[t] = NoMutex THEN "ok" ELSE error[t]],
          taking, timer, timed_out>>
Symmetric == Permutations(Mutexes) \cup Permutations({mid, also})
=============================================================================
