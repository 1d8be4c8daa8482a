----------------------------- MODULE MCKernelIpc -----------------------------
(* Three threads that wait and are woken, and a mailbox of two mails.        *)
EXTENDS KernelIpc, TLC

CONSTANT MaxCredit     \* bounds the history of the semaphore

CreditBound == credit <= MaxCredit
Symmetry == Permutations(Threads) \cup Permutations(Mails)

\* What a later step can tell apart: an error outside a call, a flag of a thread
\* that is not suspended and a cell of the ring with no mail in it are written
\* before they are read; got is never read.
View == <<sem, list, call, timer, firing, in_offset, out_offset,
          [i \in 1 .. entry |-> msg_pool[(out_offset + i - 1) % Size]],
          {t \in ttmr_set : Suspended(t)},
          [t \in Threads |-> IF inside[t] = "none" \/ Suspended(t) THEN "" ELSE error[t]]>>
=============================================================================
