----------------------------- MODULE KernelIpc -----------------------------
(***************************************************************************)
(* A semaphore and a mailbox (rt-thread/src/ipc.c), the threads suspended  *)
(* on them, and the timeouts of their waits (thread.c, timer.c).  The      *)
(* serial drivers wake their readers with the one; the network stack, which*)
(* the upload runs on, passes its packets and requests through the other.  *)
(*                                                                         *)
(* Threads of one priority that the tick slices, and interrupts that only  *)
(* make calls that do not wait.  A call is one step up to where it         *)
(* suspends its thread; what follows rt_schedule() is a step of its own.   *)
(*                                                                         *)
(* The tick interrupt has the lowest priority (drv_common.c:50), and       *)
(* _timer_check enables interrupts between taking a timer off its list     *)
(* (timer.c:518) and calling _thread_timeout (530).  In between only other *)
(* interrupts run, and `firing` is the thread whose wait is about to end.  *)
(***************************************************************************)
EXTENDS Integers, Sequences, SequencesExt, FiniteSets

CONSTANTS Threads, NoThread,
          Mails, NoMail,
          Size,               \* size of the mailbox
          Limit               \* RT_SEM_VALUE_MAX, 65535 in the build

ASSUME IpcAssumption == /\ NoThread \notin Threads /\ NoMail \notin Mails
                        /\ Size \in Nat \ {0} /\ Limit \in Nat \ {0}
                        /\ IsFiniteSet(Threads)

Lists == {"sem", "recv", "send"}   \* sem.suspend_thread, mb.suspend_thread and
                                   \* mb.suspend_sender_thread

VARIABLES
  value, max_value,                       \* the semaphore
  msg_pool, in_offset, out_offset, entry, \* the mailbox
  list,      \* per list: the suspended threads, the first to be resumed first
  inside,    \* per thread: the list its call waits on, or "none"
  error,     \* per thread
  limited,   \* the threads whose call in progress has a timeout left
  mail,      \* per thread: the mail it wants to send
  timer,     \* the threads whose timer runs
  ttmr_set,  \* sched_flag_ttmr_set
  firing,
  got,       \* history: what the last call took out of the mailbox
  credit     \* history: tokens released and not yet taken by a call that returned

sem  == <<value, max_value, credit>>
mb   == <<msg_pool, in_offset, out_offset, entry, got>>
wait == <<list, error, timer, ttmr_set>>
call == <<inside, limited, mail>>
vars == <<sem, mb, wait, call, firing>>

Init ==
  /\ value \in {0, 1} /\ max_value = Limit /\ credit = value
  /\ msg_pool = [i \in 0 .. Size - 1 |-> NoMail]
  /\ in_offset = 0 /\ out_offset = 0 /\ entry = 0 /\ got = NoMail
  /\ list = [l \in Lists |-> <<>>] /\ error = [t \in Threads |-> "EOK"]
  /\ timer = {} /\ ttmr_set = {}
  /\ inside = [t \in Threads |-> "none"] /\ limited = {}
  /\ mail = [t \in Threads |-> NoMail] /\ firing = NoThread

Suspended(t) == \E l \in Lists : t \in ToSet(list[l])
Runs(t) == firing = NoThread /\ ~Suspended(t)
Idle(t) == Runs(t) /\ inside[t] = "none"

-----------------------------------------------------------------------------
(* rt_susp_list_dequeue, on the variables it works on as a record.          *)
Waits == [list |-> list, error |-> error, timer |-> timer, ttmr_set |-> ttmr_set]

Stuck(w, l) == LET t == Head(w.list[l]) IN t \in w.ttmr_set /\ t \notin w.timer

LeavesTheTimer(w, l, e) ==                                             \* a slip
  IF w.list[l] = <<>> THEN w
  ELSE LET t == Head(w.list[l]) IN
       [w EXCEPT !.list[l] = IF Stuck(w, l) THEN @ ELSE Tail(@),
                 !.error[t] = IF Stuck(w, l) THEN @ ELSE e, !.ttmr_set = @ \ {t}]
KeepsTheError(w, l, e) ==                                              \* a slip
  IF w.list[l] = <<>> THEN w
  ELSE LET t == Head(w.list[l]) IN
       [w EXCEPT !.list[l] = IF Stuck(w, l) THEN @ ELSE Tail(@),
                 !.timer = @ \ {t}, !.ttmr_set = @ \ {t}]
\* A thread whose timer has gone off already is left to _thread_timeout, but
\* the flag that says so is cleared by the attempt.
Dequeue(w, l, e) ==
  IF w.list[l] = <<>> THEN w
  ELSE LET t == Head(w.list[l]) IN
       IF Stuck(w, l)
       THEN [w EXCEPT !.ttmr_set = @ \ {t}]
       ELSE [w EXCEPT !.list[l] = Tail(@), !.error[t] = e,
                      !.ttmr_set = @ \ {t}, !.timer = @ \ {t}]

\* rt_susp_list_resume_all, from a thread: no timer is about to fire then.
ResumeAll(w, l, e) ==
  LET ts == ToSet(w.list[l]) IN
    [w EXCEPT !.list[l] = <<>>, !.error = [t \in Threads |-> IF t \in ts THEN e ELSE @[t]],
              !.ttmr_set = @ \ ts, !.timer = @ \ ts]

Become(w) == /\ list' = w.list /\ error' = w.error
             /\ timer' = w.timer /\ ttmr_set' = w.ttmr_set

\* rt_thread_suspend_to_list, and the start of the thread's timer.
Suspend(t, l, e) ==
  /\ list' = [list EXCEPT ![l] = Append(@, t)]
  /\ error' = [error EXCEPT ![t] = e]
  /\ timer' = IF t \in limited' THEN timer \cup {t} ELSE timer \ {t}
  /\ ttmr_set' = IF t \in limited' THEN ttmr_set \cup {t} ELSE ttmr_set \ {t}
  /\ inside' = [inside EXCEPT ![t] = l]

Leave(t) == /\ inside' = [inside EXCEPT ![t] = "none"]
            /\ limited' = limited \ {t}
            /\ mail' = [mail EXCEPT ![t] = NoMail]

\* The timeout given with a call: a number of ticks, or RT_WAITING_FOREVER.
Timeout(t) == limited' = limited \/ limited' = limited \cup {t}

-----------------------------------------------------------------------------
(* The semaphore *)

\* rt_sem_take; rt_sem_trytake does nothing where this suspends.
Take(t) ==
  /\ Idle(t)
  /\ IF value > 0
     THEN /\ value' = value - 1 /\ credit' = credit - 1
          /\ UNCHANGED <<max_value, wait, call>>
     ELSE /\ Timeout(t) /\ Suspend(t, "sem", "EINTR")
          /\ UNCHANGED <<sem, mail>>
  /\ UNCHANGED <<mb, firing>>

TakeReturns(t) ==
  /\ Runs(t) /\ inside[t] = "sem"
  /\ credit' = IF error[t] = "EOK" THEN credit - 1 ELSE credit
  /\ Leave(t)
  /\ UNCHANGED <<value, max_value, mb, wait, firing>>

\* rt_sem_release, by a thread or an interrupt; it fails when value is at its
\* limit and nobody waits.
CountsToo ==                                                           \* a slip
  /\ \/ list["sem"] # <<>> /\ value' = value + 1
     \/ list["sem"] = <<>> /\ value < max_value /\ value' = value + 1
  /\ Become(Dequeue(Waits, "sem", "EOK"))
  /\ credit' = credit + 1
  /\ UNCHANGED <<max_value, mb, call, firing>>
Release ==
  /\ \/ list["sem"] # <<>> /\ value' = value
     \/ list["sem"] = <<>> /\ value < max_value /\ value' = value + 1
  /\ Become(Dequeue(Waits, "sem", "EOK"))
  /\ credit' = credit + 1
  /\ UNCHANGED <<max_value, mb, call, firing>>

Granted == {t \in Threads : inside[t] = "sem" /\ ~Suspended(t) /\ error[t] = "EOK"}

\* rt_sem_control by a thread: RT_IPC_CMD_RESET and RT_IPC_CMD_SET_VLIMIT.
SetsOnly(v) ==                                                         \* a slip
  /\ firing = NoThread /\ value' = v /\ credit' = v + Cardinality(Granted)
  /\ UNCHANGED <<max_value, wait, mb, call, firing>>
SemReset(v) ==
  /\ firing = NoThread
  /\ Become(ResumeAll(Waits, "sem", "ERROR"))
  /\ value' = v /\ credit' = v + Cardinality(Granted)
  /\ UNCHANGED <<max_value, mb, call, firing>>
SetLimit(n) ==
  /\ firing = NoThread
  /\ Become(IF n < value THEN ResumeAll(Waits, "sem", "ERROR") ELSE Waits)
  /\ max_value' = n
  /\ UNCHANGED <<value, credit, mb, call, firing>>

-----------------------------------------------------------------------------
(* The mailbox *)
Following(i) == IF i + 1 >= Size THEN 0 ELSE i + 1

WakesForTheFirst(m) ==                                                 \* a slip
  /\ msg_pool' = [msg_pool EXCEPT ![in_offset] = m]
  /\ in_offset' = Following(in_offset) /\ entry' = entry + 1
  /\ Become(IF entry = 0 THEN Dequeue(Waits, "recv", "EOK") ELSE Waits)
  /\ got' = NoMail /\ UNCHANGED out_offset
Put(m) == /\ msg_pool' = [msg_pool EXCEPT ![in_offset] = m]
          /\ in_offset' = Following(in_offset) /\ entry' = entry + 1
          /\ Become(Dequeue(Waits, "recv", "EOK"))
          /\ got' = NoMail /\ UNCHANGED out_offset

Get == /\ got' = msg_pool[out_offset]
       /\ out_offset' = Following(out_offset) /\ entry' = entry - 1
       /\ Become(Dequeue(Waits, "send", "EOK"))
       /\ UNCHANGED <<msg_pool, in_offset>>

\* rt_mb_send, which does not wait, by a thread or an interrupt
Post(m) == /\ entry < Size /\ Put(m)
           /\ UNCHANGED <<sem, call, firing>>

\* rt_mb_urgent
Urgent(m) ==
  /\ entry < Size
  /\ out_offset' = IF out_offset > 0 THEN out_offset - 1 ELSE Size - 1
  /\ msg_pool' = [msg_pool EXCEPT ![out_offset'] = m] /\ entry' = entry + 1
  /\ Become(Dequeue(Waits, "recv", "EOK"))
  /\ got' = NoMail /\ UNCHANGED <<in_offset, sem, call, firing>>

\* _rt_mb_send_wait and _rt_mb_recv, from their first line
Send(t, m) ==
  /\ Idle(t)
  /\ IF entry < Size
     THEN Put(m) /\ UNCHANGED call
     ELSE /\ Timeout(t) /\ Suspend(t, "send", "EINTR")
          /\ mail' = [mail EXCEPT ![t] = m] /\ UNCHANGED mb
  /\ UNCHANGED <<sem, firing>>

Receive(t) ==
  /\ Idle(t)
  /\ IF entry > 0
     THEN Get /\ UNCHANGED call
     ELSE Timeout(t) /\ Suspend(t, "recv", "EINTR") /\ UNCHANGED <<mail, mb>>
  /\ UNCHANGED <<sem, firing>>

\* What follows rt_schedule(): an error ends the call, and so does a timeout of
\* which nothing is left; otherwise the loop tests again.
IgnoresTheTest(t, l) == error[t] = "EOK"                               \* a slip
Ready(t, l) == error[t] = "EOK" /\ (IF l = "send" THEN entry < Size ELSE entry > 0)

GoesOn(t, l) ==
  /\ Runs(t) /\ inside[t] = l
  /\ \/ /\ Ready(t, l) /\ (IF l = "send" THEN Put(mail[t]) ELSE Get)
        /\ Leave(t)
     \/ /\ ~Ready(t, l)
        /\ error[t] # "EOK" \/ t \in limited
        /\ Leave(t) /\ UNCHANGED <<mb, wait>>
     \/ /\ ~Ready(t, l) /\ error[t] = "EOK"
        /\ UNCHANGED <<limited, mail, mb>> /\ Suspend(t, l, "EINTR")
  /\ UNCHANGED <<sem, firing>>

\* rt_mb_control by a thread: RT_IPC_CMD_RESET
MailReset ==
  /\ firing = NoThread
  /\ Become(ResumeAll(ResumeAll(Waits, "recv", "ERROR"), "send", "ERROR"))
  /\ entry' = 0 /\ in_offset' = 0 /\ out_offset' = 0
  /\ got' = "all" /\ UNCHANGED <<msg_pool, sem, call, firing>>

-----------------------------------------------------------------------------
(* The end of a wait *)

\* _timer_check takes the timer off its list and enables interrupts;
TimerFires(t) ==
  /\ firing = NoThread /\ t \in timer
  /\ firing' = t /\ timer' = timer \ {t}
  /\ UNCHANGED <<sem, mb, call, list, error, ttmr_set>>

\* _thread_timeout then resumes the thread, which must still be suspended: when
\* it is not, RT_ASSERT (thread.c:123) never returns and only interrupts go on.
TimedOut ==
  /\ firing # NoThread
  /\ \E l \in Lists : \E i \in DOMAIN list[l] :
       list[l][i] = firing /\ list' = [list EXCEPT ![l] = RemoveAt(@, i)]
  /\ error' = [error EXCEPT ![firing] = "ETIMEOUT"]
  /\ firing' = NoThread
  /\ UNCHANGED <<sem, mb, call, timer, ttmr_set>>

Next ==
  \/ \E t \in Threads : \/ Take(t) \/ TakeReturns(t) \/ Receive(t)
                        \/ \E m \in Mails : Send(t, m)
                        \/ \E l \in {"recv", "send"} : GoesOn(t, l)
                        \/ TimerFires(t)
  \/ Release \/ \E m \in Mails : Post(m) \/ Urgent(m)
  \/ SemReset(0) \/ SemReset(1) \/ \E n \in 1 .. Limit : SetLimit(n)
  \/ MailReset
  \/ TimedOut

Spec == Init /\ [][Next]_vars

-----------------------------------------------------------------------------
\* The value stays within RT_SEM_VALUE_MAX and the ring's offsets within the
\* ring, and a thread is on no list but that of the call it is in.
TypeOK ==
  /\ value \in 0 .. Limit /\ max_value \in 1 .. Limit /\ credit \in Nat
  /\ msg_pool \in [0 .. Size - 1 -> Mails \cup {NoMail}]
  /\ in_offset \in 0 .. Size - 1 /\ out_offset \in 0 .. Size - 1
  /\ entry \in 0 .. Size /\ got \in Mails \cup {NoMail, "all"}
  /\ inside \in [Threads -> Lists \cup {"none"}]
  /\ list \in [Lists -> Seq(Threads)]
  /\ \A l \in Lists : /\ IsInjective(list[l])
                      /\ \A t \in ToSet(list[l]) : inside[t] = l
  /\ error \in [Threads -> {"EOK", "EINTR", "ETIMEOUT", "ERROR"}]
  /\ mail \in [Threads -> Mails \cup {NoMail}]
  /\ timer \subseteq limited /\ limited \subseteq Threads
  /\ ttmr_set \subseteq Threads /\ firing \in Threads \cup {NoThread}

\* No more tokens come out than went in, over releases, resets, hand-overs and
\* time-outs (ipc.c:715-735): rt_sem_take answers RT_EOK at most once for each.
NoTokenInvented == value + Cardinality(Granted) <= credit

\* A token is lost only when a release meets a wait that is just timing out: a
\* release that finds the list not empty counts on rt_susp_list_dequeue, which
\* may resume nobody (ipc.c:715-720, scheduler_comm.c:114-130).
Lost == credit - value - Cardinality(Granted)
LostOnlyInTheGap == [][Lost' > Lost => firing # NoThread]_vars

\* Nobody waits for a token that is there, after resets and changes of the
\* limit too (ipc.c:715-735, 776, 802).
NoTokenUnused == value > 0 => list["sem"] = <<>>

\* Mails that are there with nobody on the way to fetch them while a receiver
\* sleeps, and room with nobody on the way to use it while a sender sleeps,
\* come only of a wake-up for a thread whose wait was just timing out.  A send
\* wakes one receiver, which may find its mail gone, sleep again, or time out
\* (ipc.c:2670-2680, 2914-2930).
Woken(l) == Cardinality({t \in Threads : inside[t] = l /\ ~Suspended(t) /\ error[t] = "EOK"})
Unnoticed(l, n) == IF list[l] = <<>> \/ Woken(l) >= n THEN 0 ELSE n - Woken(l)
MailNoticed == [][Unnoticed("recv", entry)' > Unnoticed("recv", entry) => firing # NoThread]_vars
RoomNoticed == [][Unnoticed("send", Size - entry)' > Unnoticed("send", Size - entry)
                    => firing # NoThread]_vars
WakeUpsNoticed == MailNoticed /\ RoomNoticed

\* What a wait leaves behind does not disturb the next: a timer that runs is
\* that of a suspended thread (RT_ASSERT at thread.c:123 relies on it), and the
\* flag by which a wake-up stops it is set.
TimersBelong ==
  \A t \in Threads : t \in timer => Suspended(t) /\ t \in ttmr_set

\* The ring with its two offsets and its count is a queue: mails come out once,
\* in order, urgent ones first, and only a reset drops any (ipc.c:2652-2662,
\* 2778-2792, 2932-2944, 3098-3113).
Queue == INSTANCE MailQueue WITH
  queue <- [i \in 1 .. entry |-> msg_pool[(out_offset + i - 1) % Size]]
QueueKept == Queue!Spec

\* thread.c:119-123: "resume of the thread and stop of the thread timer should
\* be an atomic operation. So we don't expected that thread had resumed."
TimeoutFindsItSuspended == firing # NoThread => Suspended(firing)
=============================================================================
