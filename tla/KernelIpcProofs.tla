--------------------------- MODULE KernelIpcProofs ---------------------------
(***************************************************************************)
(* For any number of threads, any size of the mailbox and any limit of the *)
(* semaphore: the waiting lists and timers belong to the calls in progress,*)
(* no token is invented, none is left while a thread waits, one is lost    *)
(* only while a timer is going off, and the ring of mails is a queue.      *)
(***************************************************************************)
EXTENDS KernelIpc, DataLemmas, FiniteSetTheorems, SequenceTheorems, TLAPS

-----------------------------------------------------------------------------
(* What a step does to the waits.                                           *)

Errors == {"EOK", "EINTR", "ETIMEOUT", "ERROR"}

\* t is taken off list l
Gone(l, t) ==
  /\ list' \in [Lists -> Seq(Threads)] /\ \A k \in Lists \ {l} : list'[k] = list[k]
  /\ IsInjective(list'[l]) /\ ToSet(list'[l]) = ToSet(list[l]) \ {t}

\* A wake-up meets a wait that is just timing out, or resumes the first thread.
Skips(l) == \E t \in ToSet(list[l]) :
  /\ t \in ttmr_set /\ t \notin timer
  /\ UNCHANGED <<list, error, timer>> /\ ttmr_set' = ttmr_set \ {t}
Resumes(l, e) == \E t \in ToSet(list[l]) :
  /\ t \in ttmr_set => t \in timer
  /\ Gone(l, t) /\ error' = [error EXCEPT ![t] = e]
  /\ timer' = timer \ {t} /\ ttmr_set' = ttmr_set \ {t}
Wakes(l) == UNCHANGED wait \/ Skips(l) \/ Resumes(l, "EOK")

\* A call goes on unless it is the one of a thread that runs and returns.
CallEnds == UNCHANGED call \/ \E t \in Threads : Runs(t) /\ Leave(t)
Sleeps(t, l) ==
  /\ Runs(t) /\ inside[t] \in {"none", l} /\ Suspend(t, l, "EINTR")
  /\ limited' = limited \/ limited' = limited \cup {t}
  /\ mail' \in [Threads -> Mails \cup {NoMail}]
  /\ l = "send" => mail'[t] \in Mails
  /\ \A u \in Threads \ {t} : mail'[u] = mail[u]
\* Everybody on the lists K is resumed.
Empties(K) ==
  /\ firing = NoThread /\ UNCHANGED call
  /\ list' = [l \in Lists |-> IF l \in K THEN <<>> ELSE list[l]]
  /\ error' \in [Threads -> Errors]
  /\ \A t \in Threads : IF \E l \in K : t \in ToSet(list[l])
                        THEN error'[t] = "ERROR" /\ t \notin timer' /\ t \notin ttmr_set'
                        ELSE /\ error'[t] = error[t] /\ (t \in timer' <=> t \in timer)
                             /\ (t \in ttmr_set' <=> t \in ttmr_set)
  /\ timer' \subseteq timer /\ ttmr_set' \subseteq ttmr_set
Fires(t) ==
  /\ firing = NoThread /\ t \in timer /\ firing' = t /\ timer' = timer \ {t}
  /\ UNCHANGED <<call, list, error, ttmr_set>>
TimesOut(l) ==
  /\ firing \in ToSet(list[l]) /\ Gone(l, firing)
  /\ error' = [error EXCEPT ![firing] = "ETIMEOUT"]
  /\ firing' = NoThread /\ UNCHANGED <<call, timer, ttmr_set>>

WaitStep ==
  \/ (\E l \in Lists : Wakes(l)) /\ CallEnds /\ UNCHANGED firing
  \/ (\E t \in Threads, l \in Lists : Sleeps(t, l)) /\ UNCHANGED firing
  \/ (\E K \in SUBSET Lists : Empties(K)) /\ UNCHANGED firing
  \/ \E t \in Threads : Fires(t)
  \/ \E l \in Lists : TimesOut(l)

\* The inductive invariant of the waits: the conjuncts of TypeOK about them,
\* TimersBelong, and what the gap of _timer_check leaves.
Listed ==
  /\ list \in [Lists -> Seq(Threads)]
  /\ \A l \in Lists : IsInjective(list[l]) /\ \A t \in ToSet(list[l]) : inside[t] = l
CallsOK ==
  /\ inside \in [Threads -> Lists \cup {"none"}] /\ error \in [Threads -> Errors]
  /\ mail \in [Threads -> Mails \cup {NoMail}]
  /\ \A t \in Threads : inside[t] = "send" => mail[t] \in Mails
  /\ timer \subseteq limited /\ limited \subseteq Threads /\ ttmr_set \subseteq Threads
  /\ firing \in Threads \cup {NoThread}
InTheGap ==
  /\ firing \notin timer
  /\ \A t \in Threads : Suspended(t) /\ t \in ttmr_set /\ t \notin timer => t = firing
WaitInv == Listed /\ CallsOK /\ TimersBelong /\ InTheGap

\* rt_susp_list_dequeue, in those terms.
LEMMA DequeueWakes ==
  ASSUME Listed, CallsOK, NEW l \in Lists, Become(Dequeue(Waits, l, "EOK"))
  PROVE  /\ Wakes(l)
         /\ list[l] = <<>> => UNCHANGED wait
         /\ list[l] # <<>> => Skips(l) \/ Resumes(l, "EOK")
<1> DEFINE t == Head(list[l])
<1>1. CASE list[l] = <<>>
  <2>1. UNCHANGED wait
    BY <1>1 DEF Become, Dequeue, Waits, wait
  <2> QED BY <1>1, <2>1 DEF Wakes
<1>2. CASE list[l] # <<>>
  <2>1. /\ list[l] \in Seq(Threads) /\ IsInjective(list[l])
        /\ t \in Threads /\ t \in ToSet(list[l])
        /\ Tail(list[l]) \in Seq(Threads) /\ IsInjective(Tail(list[l]))
        /\ ToSet(Tail(list[l])) = ToSet(list[l]) \ {t}
    BY <1>2, OnTail DEF Listed
  <2>2. CASE t \in ttmr_set /\ t \notin timer
    <3>1. UNCHANGED <<list, error, timer>> /\ ttmr_set' = ttmr_set \ {t}
      BY <1>2, <2>2 DEF Become, Dequeue, Stuck, Waits
    <3>2. Skips(l)
      BY <2>1, <2>2, <3>1 DEF Skips
    <3> QED BY <1>2, <3>2 DEF Wakes
  <2>3. CASE ~(t \in ttmr_set /\ t \notin timer)
    <3>1. /\ list' = [list EXCEPT ![l] = Tail(list[l])]
          /\ error' = [error EXCEPT ![t] = "EOK"]
          /\ timer' = timer \ {t} /\ ttmr_set' = ttmr_set \ {t}
      BY <1>2, <2>3 DEF Become, Dequeue, Stuck, Waits
    <3>2. list'[l] = Tail(list[l]) /\ list' \in [Lists -> Seq(Threads)]
          /\ \A k \in Lists \ {l} : list'[k] = list[k]
      BY <2>1, <3>1 DEF Listed
    <3>3. Gone(l, t)
      BY <2>1, <3>2 DEF Gone
    <3>4. Resumes(l, "EOK")
      BY <2>1, <2>3, <3>1, <3>3 DEF Resumes
    <3> QED BY <1>2, <3>4 DEF Wakes
  <2> QED BY <2>2, <2>3
<1> QED BY <1>1, <1>2

\* rt_susp_list_resume_all, once or over both lists of the mailbox.
LEMMA ResumeAllEmpties ==
  ASSUME Listed, CallsOK, firing = NoThread, UNCHANGED call, NEW l \in Lists,
         Become(ResumeAll(Waits, l, "ERROR"))
  PROVE  Empties({l})
<1>1. /\ list' = [list EXCEPT ![l] = <<>>]
      /\ error' = [t \in Threads |-> IF t \in ToSet(list[l]) THEN "ERROR" ELSE error[t]]
      /\ timer' = timer \ ToSet(list[l]) /\ ttmr_set' = ttmr_set \ ToSet(list[l])
  BY DEF Become, ResumeAll, Waits
<1>2. list' = [k \in Lists |-> IF k \in {l} THEN <<>> ELSE list[k]]
  BY <1>1 DEF Listed
<1>3. error' \in [Threads -> Errors]
  BY <1>1 DEF CallsOK, Errors
<1> QED BY <1>1, <1>2, <1>3 DEF Empties

LEMMA ResetEmpties ==
  ASSUME Listed, CallsOK, firing = NoThread, UNCHANGED call,
         Become(ResumeAll(ResumeAll(Waits, "recv", "ERROR"), "send", "ERROR"))
  PROVE  Empties({"recv", "send"})
<1> DEFINE r == ToSet(list["recv"])
           s == ToSet(list["send"])
<1>1. /\ list' = [[list EXCEPT !["recv"] = <<>>] EXCEPT !["send"] = <<>>]
      /\ error' = [t \in Threads |-> IF t \in s THEN "ERROR"
                                     ELSE IF t \in r THEN "ERROR" ELSE error[t]]
      /\ timer' = (timer \ r) \ s /\ ttmr_set' = (ttmr_set \ r) \ s
  BY DEF Become, ResumeAll, Waits, Listed, Lists
<1>2. list' = [k \in Lists |-> IF k \in {"recv", "send"} THEN <<>> ELSE list[k]]
  BY <1>1 DEF Listed, Lists
<1>3. error' \in [Threads -> Errors]
  BY <1>1 DEF CallsOK, Errors
<1>4. \A t : (\E l \in {"recv", "send"} : t \in ToSet(list[l])) <=> t \in r \/ t \in s
  OBVIOUS
<1> QED BY <1>1, <1>2, <1>3, <1>4 DEF Empties

\* _thread_timeout.
LEMMA TimedOutTimesOut ==
  ASSUME Listed, CallsOK, TimedOut
  PROVE  \E l \in Lists : TimesOut(l)
<1>1. PICK l \in Lists : \E i \in DOMAIN list[l] :
        list[l][i] = firing /\ list' = [list EXCEPT ![l] = RemoveAt(list[l], i)]
  BY DEF TimedOut
<1>2. PICK i \in DOMAIN list[l] :
        list[l][i] = firing /\ list' = [list EXCEPT ![l] = RemoveAt(list[l], i)]
  BY <1>1
<1>3. list[l] \in Seq(Threads) /\ IsInjective(list[l])
  BY DEF Listed
<1>4. /\ RemoveAt(list[l], i) \in Seq(Threads) /\ IsInjective(RemoveAt(list[l], i))
      /\ ToSet(RemoveAt(list[l], i)) = ToSet(list[l]) \ {firing}
  BY <1>2, <1>3, OnRemoveAt
<1>5. list'[l] = RemoveAt(list[l], i) /\ list' \in [Lists -> Seq(Threads)]
      /\ \A k \in Lists \ {l} : list'[k] = list[k]
  BY <1>2, <1>4 DEF Listed
<1>6. firing \in ToSet(list[l])
  BY <1>2 DEF ToSet
<1>7. Gone(l, firing)
  BY <1>4, <1>5 DEF Gone
<1> QED BY <1>6, <1>7 DEF TimedOut, TimesOut

\* Every step is one of these.
LEMMA NextIsWaitStep ==
  ASSUME WaitInv, Next
  PROVE  WaitStep
<1> USE DEF Lists
<1>0. Listed /\ CallsOK
  BY DEF WaitInv
<1>1. ASSUME NEW t \in Threads, Take(t) PROVE WaitStep
  <2>1. CASE value > 0
    BY <1>1, <2>1 DEF Take, WaitStep, Wakes, CallEnds
  <2>2. CASE ~(value > 0)
    <3>1. Sleeps(t, "sem") /\ UNCHANGED firing
      BY <1>0, <1>1, <2>2 DEF Take, Idle, Timeout, Sleeps, CallsOK
    <3> QED BY <3>1 DEF WaitStep
  <2> QED BY <2>1, <2>2
<1>2. ASSUME NEW t \in Threads, TakeReturns(t) PROVE WaitStep
  BY <1>2 DEF TakeReturns, WaitStep, Wakes, CallEnds
<1>3. ASSUME Release PROVE WaitStep
  <2>1. Wakes("sem")
    BY <1>0, <1>3, DequeueWakes DEF Release
  <2> QED BY <1>3, <2>1 DEF Release, WaitStep, CallEnds
<1>4. ASSUME NEW m, Put(m) PROVE Wakes("recv")
  BY <1>0, <1>4, DequeueWakes DEF Put
<1>5. ASSUME Get PROVE Wakes("send")
  BY <1>0, <1>5, DequeueWakes DEF Get
<1>6. ASSUME NEW m \in Mails, Post(m) PROVE WaitStep
  BY <1>4, <1>6 DEF Post, WaitStep, CallEnds
<1>7. ASSUME NEW m \in Mails, Urgent(m) PROVE WaitStep
  <2>1. Wakes("recv")
    BY <1>0, <1>7, DequeueWakes DEF Urgent
  <2> QED BY <1>7, <2>1 DEF Urgent, WaitStep, CallEnds
<1>8. ASSUME NEW t \in Threads, NEW m \in Mails, Send(t, m) PROVE WaitStep
  <2>1. CASE entry < Size
    BY <1>4, <1>8, <2>1 DEF Send, WaitStep, CallEnds
  <2>2. CASE ~(entry < Size)
    <3>1. Sleeps(t, "send") /\ UNCHANGED firing
      BY <1>0, <1>8, <2>2 DEF Send, Idle, Timeout, Sleeps, CallsOK
    <3> QED BY <3>1 DEF WaitStep
  <2> QED BY <2>1, <2>2
<1>9. ASSUME NEW t \in Threads, Receive(t) PROVE WaitStep
  <2>1. CASE entry > 0
    BY <1>5, <1>9, <2>1 DEF Receive, WaitStep, CallEnds
  <2>2. CASE ~(entry > 0)
    <3>1. Sleeps(t, "recv") /\ UNCHANGED firing
      BY <1>0, <1>9, <2>2 DEF Receive, Idle, Timeout, Sleeps, CallsOK
    <3> QED BY <3>1 DEF WaitStep
  <2> QED BY <2>1, <2>2
<1>10. ASSUME NEW t \in Threads, NEW l \in {"recv", "send"}, GoesOn(t, l) PROVE WaitStep
  <2>1. CASE Leave(t) /\ IF l = "send" THEN Put(mail[t]) ELSE Get
    <3>1. \E k \in Lists : Wakes(k)
      BY <1>4, <1>5, <2>1
    <3> QED BY <1>10, <2>1, <3>1 DEF GoesOn, WaitStep, CallEnds
  <2>2. CASE Leave(t) /\ UNCHANGED <<mb, wait>>
    BY <1>10, <2>2 DEF GoesOn, WaitStep, CallEnds, Wakes
  <2>3. CASE UNCHANGED <<limited, mail, mb>> /\ Suspend(t, l, "EINTR")
    BY <1>0, <1>10, <2>3 DEF GoesOn, WaitStep, Sleeps, CallsOK
  <2> QED BY <1>10, <2>1, <2>2, <2>3 DEF GoesOn
<1>11. ASSUME NEW v, SemReset(v) PROVE WaitStep
  <2>1. Empties({"sem"})
    BY <1>0, <1>11, ResumeAllEmpties DEF SemReset
  <2> QED BY <1>11, <2>1 DEF SemReset, WaitStep
<1>12. ASSUME NEW n, SetLimit(n) PROVE WaitStep
  <2>1. CASE n < value
    <3>1. Empties({"sem"})
      BY <1>0, <1>12, <2>1, ResumeAllEmpties DEF SetLimit
    <3> QED BY <1>12, <3>1 DEF SetLimit, WaitStep
  <2>2. CASE ~(n < value)
    BY <1>12, <2>2 DEF SetLimit, Become, Waits, wait, WaitStep, Wakes, CallEnds
  <2> QED BY <2>1, <2>2
<1>13. ASSUME MailReset PROVE WaitStep
  <2>1. Empties({"recv", "send"})
    BY <1>0, <1>13, ResetEmpties DEF MailReset
  <2> QED BY <1>13, <2>1 DEF MailReset, WaitStep
<1>14. ASSUME NEW t \in Threads, TimerFires(t) PROVE WaitStep
  BY <1>14 DEF TimerFires, Fires, WaitStep
<1>15. ASSUME TimedOut PROVE WaitStep
  BY <1>0, <1>15, TimedOutTimesOut DEF WaitStep
<1> QED BY <1>1, <1>2, <1>3, <1>6, <1>7, <1>8, <1>9, <1>10, <1>11, <1>12, <1>13, <1>14, <1>15
        DEF Next

\* Listed, in the next state.
LEMMA GoneKeepsListed ==
  ASSUME Listed, NEW l \in Lists, NEW t, Gone(l, t), UNCHANGED inside
  PROVE  Listed'
BY DEF Listed, Gone

\* Which threads are suspended afterwards.
LEMMA GoneSuspended ==
  ASSUME Listed, NEW l \in Lists, NEW t \in ToSet(list[l]), Gone(l, t)
  PROVE  \A u : Suspended(u)' <=> Suspended(u) /\ u # t
<1>1. ASSUME NEW k \in Lists PROVE ToSet(list'[k]) = ToSet(list[k]) \ {t}
  <2>1. CASE k = l
    BY <2>1 DEF Gone
  <2>2. CASE k # l
    <3>1. list'[k] = list[k]
      BY <2>2 DEF Gone
    <3>2. \A x \in ToSet(list[k]) : inside[x] = k
      BY DEF Listed
    <3>3. inside[t] = l
      BY DEF Listed
    <3>4. t \notin ToSet(list[k])
      BY <2>2, <3>2, <3>3
    <3> QED BY <3>1, <3>4
  <2> QED BY <2>1, <2>2
<1>2. ASSUME NEW u, Suspended(u)' PROVE Suspended(u) /\ u # t
  <2>1. PICK k \in Lists : u \in ToSet(list'[k])
    BY <1>2, Zenon DEF Suspended
  <2>2. u \in ToSet(list[k]) /\ u # t
    BY <1>1, <2>1
  <2> QED BY <2>2, Zenon DEF Suspended
<1>3. ASSUME NEW u, Suspended(u), u # t PROVE Suspended(u)'
  <2>1. PICK k \in Lists : u \in ToSet(list[k])
    BY <1>3, Zenon DEF Suspended
  <2>2. u \in ToSet(list'[k])
    BY <1>1, <1>3, <2>1
  <2> QED BY <2>2, Zenon DEF Suspended
<1> QED BY <1>2, <1>3

LEMMA SleepsSuspended ==
  ASSUME Listed, NEW l \in Lists, NEW t \in Threads, Sleeps(t, l)
  PROVE  /\ list' \in [Lists -> Seq(Threads)]
         /\ \A k \in Lists : IsInjective(list'[k])
         /\ \A k \in Lists \ {l} : list'[k] = list[k]
         /\ ToSet(list'[l]) = ToSet(list[l]) \cup {t}
         /\ \A u : Suspended(u)' <=> Suspended(u) \/ u = t
<1>1. list' = [list EXCEPT ![l] = Append(list[l], t)] /\ t \notin ToSet(list[l])
  BY DEF Sleeps, Suspend, Runs, Suspended
<1>2. /\ Append(list[l], t) \in Seq(Threads) /\ IsInjective(Append(list[l], t))
      /\ ToSet(Append(list[l], t)) = ToSet(list[l]) \cup {t}
  BY <1>1, OnAppend DEF Listed
<1>3. list'[l] = Append(list[l], t) /\ \A k \in Lists \ {l} : list'[k] = list[k]
  BY <1>1 DEF Listed
<1>4. \A u : Suspended(u)' <=> Suspended(u) \/ u = t
  BY <1>2, <1>3 DEF Suspended
<1> QED BY <1>1, <1>2, <1>3, <1>4 DEF Listed

LEMMA EmptiesSuspended ==
  ASSUME Listed, NEW K \in SUBSET Lists, Empties(K)
  PROVE  /\ Listed'
         /\ \A u \in Threads : Suspended(u)' <=> Suspended(u) /\ ~(\E l \in K : u \in ToSet(list[l]))
<1>1. \A l \in Lists : ToSet(list'[l]) = IF l \in K THEN {} ELSE ToSet(list[l])
  BY OnNothing DEF Empties
<1>2. list' \in [Lists -> Seq(Threads)] /\ \A l \in Lists : IsInjective(list'[l])
  BY OnNothing DEF Empties, Listed
<1>3. Listed'
  BY <1>1, <1>2 DEF Listed, Empties, call
<1>4. ASSUME NEW u \in Threads
      PROVE  Suspended(u)' <=> Suspended(u) /\ ~(\E l \in K : u \in ToSet(list[l]))
  <2>1. \A l, k \in Lists : u \in ToSet(list[l]) /\ u \in ToSet(list[k]) => l = k
    BY DEF Listed
  <2> QED BY <1>1, <2>1 DEF Suspended
<1> QED BY <1>3, <1>4

\* A call that ends is that of a thread on no list and without a timer.
LEMMA EndsHarmless ==
  ASSUME WaitInv, CallEnds
  PROVE  /\ inside' \in [Threads -> Lists \cup {"none"}]
         /\ mail' \in [Threads -> Mails \cup {NoMail}]
         /\ \A t \in Threads : inside'[t] = "send" => mail'[t] \in Mails
         /\ timer \subseteq limited' /\ limited' \subseteq Threads
         /\ \A t \in Threads : Suspended(t) => inside'[t] = inside[t]
<1>1. CASE UNCHANGED call
  BY <1>1 DEF call, WaitInv, CallsOK
<1>2. ASSUME NEW t \in Threads, Runs(t), Leave(t)
      PROVE  /\ inside' \in [Threads -> Lists \cup {"none"}]
             /\ mail' \in [Threads -> Mails \cup {NoMail}]
             /\ \A u \in Threads : inside'[u] = "send" => mail'[u] \in Mails
             /\ timer \subseteq limited' /\ limited' \subseteq Threads
             /\ \A u \in Threads : Suspended(u) => inside'[u] = inside[u]
  <2>1. t \notin timer /\ ~Suspended(t)
    BY <1>2 DEF Runs, WaitInv, TimersBelong
  <2> QED BY <1>2, <2>1 DEF Leave, WaitInv, CallsOK
<1> QED BY <1>1, <1>2 DEF CallEnds

LEMMA WakesKeeps ==
  ASSUME WaitInv, NEW l \in Lists, Wakes(l), CallEnds, UNCHANGED firing
  PROVE  WaitInv'
<1>0. Listed /\ CallsOK /\ TimersBelong /\ InTheGap
  BY DEF WaitInv
<1>1. CASE UNCHANGED wait
  <2>1. \A u : Suspended(u)' <=> Suspended(u)
    BY <1>1 DEF wait, Suspended
  <2>2. \A k \in Lists : \A u \in ToSet(list[k]) : u \in Threads /\ Suspended(u)
    BY <1>0 DEF Listed, ToSet, Suspended
  <2>3. Listed'
    BY <1>0, <1>1, <2>2, EndsHarmless DEF wait, Listed
  <2>4. CallsOK'
    BY <1>0, <1>1, EndsHarmless DEF wait, CallsOK
  <2>5. TimersBelong' /\ InTheGap'
    BY <1>0, <1>1, <2>1 DEF wait, TimersBelong, InTheGap
  <2> QED BY <2>3, <2>4, <2>5 DEF WaitInv
<1>2. CASE Skips(l)
  <2>0. PICK t \in ToSet(list[l]) :
          /\ t \in ttmr_set /\ t \notin timer
          /\ UNCHANGED <<list, error, timer>> /\ ttmr_set' = ttmr_set \ {t}
    BY <1>2 DEF Skips
  <2>1. \A u : Suspended(u)' <=> Suspended(u)
    BY <2>0 DEF Suspended
  <2>2. \A k \in Lists : \A u \in ToSet(list[k]) : u \in Threads /\ Suspended(u)
    BY <1>0 DEF Listed, ToSet, Suspended
  <2>3. Listed'
    BY <1>0, <2>0, <2>2, EndsHarmless DEF Listed
  <2>4. CallsOK'
    BY <1>0, <2>0, EndsHarmless DEF CallsOK
  <2>5. TimersBelong' /\ InTheGap'
    BY <1>0, <2>0, <2>1 DEF TimersBelong, InTheGap
  <2> QED BY <2>3, <2>4, <2>5 DEF WaitInv
<1>3. CASE Resumes(l, "EOK")
  <2>0. PICK t \in ToSet(list[l]) :
          /\ Gone(l, t) /\ error' = [error EXCEPT ![t] = "EOK"]
          /\ timer' = timer \ {t} /\ ttmr_set' = ttmr_set \ {t}
    BY <1>3 DEF Resumes
  <2>1. \A u : Suspended(u)' <=> Suspended(u) /\ u # t
    BY <1>0, <2>0, GoneSuspended
  <2>2. \A k \in Lists : \A u \in ToSet(list[k]) : u \in Threads /\ Suspended(u)
    BY <1>0 DEF Listed, ToSet, Suspended
  <2>3. /\ list' \in [Lists -> Seq(Threads)] /\ \A k \in Lists : IsInjective(list'[k])
        /\ \A k \in Lists : ToSet(list'[k]) \subseteq ToSet(list[k])
    BY <1>0, <2>0 DEF Gone, Listed
  <2>4. Listed'
    BY <1>0, <2>2, <2>3, EndsHarmless DEF Listed
  <2>5. error' \in [Threads -> Errors] /\ timer' \subseteq timer /\ ttmr_set' \subseteq ttmr_set
    BY <1>0, <2>0 DEF CallsOK, Errors
  <2>6. CallsOK'
    BY <1>0, <2>5, EndsHarmless DEF CallsOK
  <2>7. TimersBelong' /\ InTheGap'
    BY <1>0, <2>0, <2>1 DEF TimersBelong, InTheGap
  <2> QED BY <2>4, <2>6, <2>7 DEF WaitInv
<1> QED BY <1>1, <1>2, <1>3 DEF Wakes

LEMMA SleepsKeeps ==
  ASSUME WaitInv, NEW l \in Lists, NEW t \in Threads, Sleeps(t, l), UNCHANGED firing
  PROVE  WaitInv'
<1>0. Listed /\ CallsOK /\ TimersBelong /\ InTheGap
  BY DEF WaitInv
<1>1. /\ list' \in [Lists -> Seq(Threads)]
      /\ \A k \in Lists : IsInjective(list'[k])
      /\ \A k \in Lists \ {l} : list'[k] = list[k]
      /\ ToSet(list'[l]) = ToSet(list[l]) \cup {t}
      /\ \A u : Suspended(u)' <=> Suspended(u) \/ u = t
  BY <1>0, SleepsSuspended
<1>2. /\ ~Suspended(t) /\ firing = NoThread /\ inside' = [inside EXCEPT ![t] = l]
      /\ error' = [error EXCEPT ![t] = "EINTR"]
      /\ \/ t \in limited' /\ timer' = timer \cup {t} /\ ttmr_set' = ttmr_set \cup {t}
         \/ t \notin limited' /\ timer' = timer \ {t} /\ ttmr_set' = ttmr_set \ {t}
      /\ limited' = limited \/ limited' = limited \cup {t}
  BY DEF Sleeps, Suspend, Runs
<1>3. \A k \in Lists : t \notin ToSet(list[k])
  BY <1>2 DEF Suspended
<1>4. inside' \in [Threads -> Lists \cup {"none"}] /\ inside'[t] = l
      /\ \A u \in Threads \ {t} : inside'[u] = inside[u]
  BY <1>0, <1>2 DEF CallsOK
<1>5. Listed'
  <2>1. ASSUME NEW k \in Lists, NEW u \in ToSet(list'[k]) PROVE inside'[u] = k
    <3>1. CASE u = t
      BY <1>1, <1>3, <1>4, <2>1, <3>1
    <3>2. CASE u # t
      <4>1. u \in ToSet(list[k])
        BY <1>1, <2>1, <3>2
      <4>2. list[k] \in Seq(Threads)
        BY <1>0 DEF Listed
      <4>3. u \in Threads
        BY <4>1, <4>2 DEF ToSet
      <4> QED BY <1>0, <1>4, <3>2, <4>1, <4>3 DEF Listed
    <3> QED BY <3>1, <3>2
  <2> QED BY <1>1, <2>1 DEF Listed
<1>6. CallsOK'
  <2>1. error' \in [Threads -> Errors]
    BY <1>0, <1>2 DEF CallsOK, Errors
  <2>2. /\ mail' \in [Threads -> Mails \cup {NoMail}]
        /\ \A u \in Threads : inside'[u] = "send" => mail'[u] \in Mails
    BY <1>0, <1>4 DEF Sleeps, CallsOK
  <2>3. timer' \subseteq limited' /\ limited' \subseteq Threads /\ ttmr_set' \subseteq Threads
    <3>1. CASE t \in limited'
      BY <1>0, <1>2, <3>1 DEF CallsOK
    <3>2. CASE t \notin limited'
      BY <1>0, <1>2, <3>2 DEF CallsOK
    <3> QED BY <3>1, <3>2
  <2> QED BY <1>0, <1>4, <2>1, <2>2, <2>3 DEF CallsOK
<1>7. TimersBelong' /\ InTheGap'
  <2>1. ASSUME NEW u \in Threads
        PROVE  /\ u \in timer' => Suspended(u)' /\ u \in ttmr_set'
               /\ Suspended(u)' /\ u \in ttmr_set' /\ u \notin timer' => u = firing
    <3>1. CASE u = t
      BY <1>1, <1>2, <3>1
    <3>2. CASE u # t
      BY <1>0, <1>1, <1>2, <3>2 DEF TimersBelong, InTheGap
    <3> QED BY <3>1, <3>2
  <2>2. firing' \notin timer'
    BY <1>0, <1>2, IpcAssumption DEF InTheGap
  <2> QED BY <2>1, <2>2 DEF TimersBelong, InTheGap
<1> QED BY <1>5, <1>6, <1>7 DEF WaitInv

LEMMA EmptiesKeeps ==
  ASSUME WaitInv, NEW K \in SUBSET Lists, Empties(K), UNCHANGED firing
  PROVE  WaitInv'
<1>0. Listed /\ CallsOK /\ TimersBelong /\ InTheGap
  BY DEF WaitInv
<1>1. /\ Listed'
      /\ \A u \in Threads : Suspended(u)' <=> Suspended(u) /\ ~(\E l \in K : u \in ToSet(list[l]))
  BY <1>0, EmptiesSuspended
<1>2. CallsOK'
  BY <1>0 DEF CallsOK, Empties, call
<1>3. ASSUME NEW u \in Threads
      PROVE  /\ u \in timer' => Suspended(u)' /\ u \in ttmr_set'
             /\ Suspended(u)' /\ u \in ttmr_set' /\ u \notin timer' => u = firing
  <2>1. CASE \E l \in K : u \in ToSet(list[l])
    BY <1>1, <2>1 DEF Empties
  <2>2. CASE ~(\E l \in K : u \in ToSet(list[l]))
    BY <1>0, <1>1, <2>2 DEF Empties, TimersBelong, InTheGap
  <2> QED BY <2>1, <2>2
<1>4. firing' \notin timer'
  BY <1>0 DEF Empties, InTheGap
<1> QED BY <1>1, <1>2, <1>3, <1>4 DEF WaitInv, TimersBelong, InTheGap

LEMMA FiresKeeps ==
  ASSUME WaitInv, NEW t \in Threads, Fires(t)
  PROVE  WaitInv'
<1>0. Listed /\ CallsOK /\ TimersBelong /\ InTheGap
  BY DEF WaitInv
<1>1. \A u : Suspended(u)' <=> Suspended(u)
  BY DEF Fires, Suspended
<1>2. Listed' /\ CallsOK'
  BY <1>0 DEF Fires, Listed, CallsOK, call
<1>3. firing = NoThread /\ NoThread \notin Threads
  BY IpcAssumption DEF Fires
<1>4. TimersBelong' /\ InTheGap'
  BY <1>0, <1>1, <1>3 DEF Fires, TimersBelong, InTheGap
<1> QED BY <1>2, <1>4 DEF WaitInv

LEMMA TimesOutKeeps ==
  ASSUME WaitInv, NEW l \in Lists, TimesOut(l)
  PROVE  WaitInv'
<1>0. Listed /\ CallsOK /\ TimersBelong /\ InTheGap
  BY DEF WaitInv
<1>1. \A u : Suspended(u)' <=> Suspended(u) /\ u # firing
  BY <1>0, GoneSuspended DEF TimesOut
<1>2. Listed'
  BY <1>0, GoneKeepsListed DEF TimesOut, call
<1>3. error' \in [Threads -> Errors]
  BY <1>0 DEF TimesOut, CallsOK, Errors
<1>4. CallsOK'
  BY <1>0, <1>3 DEF TimesOut, CallsOK, call
<1>5. NoThread \notin timer
  BY <1>0, IpcAssumption DEF CallsOK
<1>6. TimersBelong' /\ InTheGap'
  BY <1>0, <1>1, <1>5 DEF TimesOut, TimersBelong, InTheGap
<1> QED BY <1>2, <1>4, <1>6 DEF WaitInv

LEMMA InitWaits == Init => WaitInv
<1> SUFFICES ASSUME Init PROVE WaitInv
  OBVIOUS
<1>1. \A l \in Lists : list[l] = <<>>
  BY DEF Init
<1>2. Listed
  BY <1>1, OnNothing DEF Init, Listed
<1>3. error \in [Threads -> Errors]
  BY DEF Init, Errors
<1>4. CallsOK /\ TimersBelong
  BY <1>3 DEF Init, CallsOK, TimersBelong
<1>5. InTheGap
  BY DEF Init, InTheGap
<1> QED BY <1>2, <1>4, <1>5 DEF WaitInv

LEMMA WaitInvariant == Spec => []WaitInv
<1>1. WaitInv /\ [Next]_vars => WaitInv'
  <2> SUFFICES ASSUME WaitInv, [Next]_vars PROVE WaitInv'
    OBVIOUS
  <2>1. CASE Next
    <3>1. WaitStep
      BY <2>1, NextIsWaitStep
    <3> QED BY <3>1, WakesKeeps, SleepsKeeps, EmptiesKeeps, FiresKeeps, TimesOutKeeps DEF WaitStep
  <2>2. CASE UNCHANGED vars
    <3>1. \A u : Suspended(u)' <=> Suspended(u)
      BY <2>2 DEF vars, wait, Suspended
    <3> QED BY <2>2, <3>1 DEF vars, wait, call, WaitInv, Listed, CallsOK, TimersBelong, InTheGap
  <2> QED BY <2>1, <2>2
<1> QED BY <1>1, InitWaits, PTL DEF Spec

\* A running timer is that of a thread that is suspended, with its flag set, for
\* any number of threads (thread.c:119-123, scheduler_comm.c:103-145).
THEOREM TimersAreOwn == Spec => []TimersBelong
<1>1. WaitInv => TimersBelong
  BY DEF WaitInv
<1> QED BY <1>1, WaitInvariant, PTL

-----------------------------------------------------------------------------
(* The threads that were woken and have not run yet.                        *)

\* On their way out of a wait on list k, with no error.  For the semaphore these
\* are the threads a token is granted to.
Awake(k) == {t \in Threads : inside[t] = k /\ ~Suspended(t) /\ error[t] = "EOK"}
Stay(k) == \A u \in Threads : inside'[u] = k <=> inside[u] = k

LEMMA AwakeFinite ==
  ASSUME NEW k \in Lists
  PROVE  /\ IsFiniteSet(Awake(k)) /\ Cardinality(Awake(k)) \in Nat
         /\ IsFiniteSet(Awake(k)') /\ Cardinality(Awake(k)') \in Nat
<1>1. Awake(k) \subseteq Threads /\ Awake(k)' \subseteq Threads
  BY DEF Awake
<1> QED BY <1>1, FS_Subset, FS_CardinalityType, IpcAssumption

LEMMA QuietAwake ==
  ASSUME NEW k \in Lists, UNCHANGED <<list, error>>, Stay(k)
  PROVE  Awake(k)' = Awake(k)
<1>1. \A u : Suspended(u)' <=> Suspended(u)
  BY DEF Suspended
<1> QED BY <1>1 DEF Awake, Stay

LEMMA WakesAwake ==
  ASSUME WaitInv, NEW k \in Lists, NEW l \in Lists, l # k, Wakes(l), Stay(k)
  PROVE  Awake(k)' = Awake(k) /\ list'[k] = list[k]
<1>0. Listed /\ CallsOK
  BY DEF WaitInv
<1>1. CASE UNCHANGED wait \/ Skips(l)
  BY <1>1, QuietAwake DEF wait, Skips
<1>2. CASE Resumes(l, "EOK")
  <2>1. PICK t \in ToSet(list[l]) : Gone(l, t) /\ error' = [error EXCEPT ![t] = "EOK"]
    BY <1>2 DEF Resumes
  <2>2. \A u : Suspended(u)' <=> Suspended(u) /\ u # t
    BY <1>0, <2>1, GoneSuspended
  <2>3. inside[t] # k
    BY <1>0, <2>1 DEF Listed
  <2>4. \A u \in Threads : u # t => error'[u] = error[u]
    BY <1>0, <2>1 DEF CallsOK
  <2>5. Awake(k)' = Awake(k)
    BY <2>2, <2>3, <2>4 DEF Awake, Stay
  <2> QED BY <2>1, <2>5 DEF Gone
<1> QED BY <1>1, <1>2 DEF Wakes

LEMMA SleepsAwake ==
  ASSUME WaitInv, NEW k \in Lists, NEW l \in Lists, NEW t \in Threads, Sleeps(t, l), inside[t] # k
  PROVE  Awake(k)' = Awake(k) /\ (l # k => list'[k] = list[k])
<1>0. Listed /\ CallsOK
  BY DEF WaitInv
<1>1. /\ \A u : Suspended(u)' <=> Suspended(u) \/ u = t
      /\ \A j \in Lists \ {l} : list'[j] = list[j]
  BY <1>0, SleepsSuspended
<1>2. \A u \in Threads \ {t} : error'[u] = error[u] /\ inside'[u] = inside[u]
  BY <1>0 DEF Sleeps, Suspend, CallsOK
<1>3. Awake(k)' = Awake(k)
  BY <1>1, <1>2 DEF Awake
<1> QED BY <1>1, <1>3

LEMMA EmptiesAwake ==
  ASSUME WaitInv, NEW k \in Lists, NEW K \in SUBSET Lists, Empties(K)
  PROVE  Awake(k)' = Awake(k)
<1>1. \A u \in Threads : Suspended(u)' <=> Suspended(u) /\ ~(\E l \in K : u \in ToSet(list[l]))
  BY EmptiesSuspended DEF WaitInv
<1>2. inside' = inside
  BY DEF Empties, call
<1>3. ASSUME NEW u \in Threads PROVE u \in Awake(k)' <=> u \in Awake(k)
  <2>1. CASE \E l \in K : u \in ToSet(list[l])
    <3>1. error'[u] = "ERROR" /\ Suspended(u)
      BY <2>1 DEF Empties, Suspended
    <3> QED BY <3>1 DEF Awake
  <2>2. CASE ~(\E l \in K : u \in ToSet(list[l]))
    <3>1. error'[u] = error[u] /\ (Suspended(u)' <=> Suspended(u))
      BY <1>1, <2>2 DEF Empties
    <3> QED BY <1>2, <3>1 DEF Awake
  <2> QED BY <2>1, <2>2
<1> QED BY <1>3 DEF Awake

LEMMA TimesOutAwake ==
  ASSUME WaitInv, NEW k \in Lists, NEW l \in Lists, TimesOut(l)
  PROVE  Awake(k)' = Awake(k)
<1>0. Listed /\ CallsOK
  BY DEF WaitInv
<1>1. \A u : Suspended(u)' <=> Suspended(u) /\ u # firing
  BY <1>0, GoneSuspended DEF TimesOut
<1>2. Suspended(firing) /\ firing \in Threads
  <2>1. list[l] \in Seq(Threads) /\ firing \in ToSet(list[l])
    BY <1>0 DEF Listed, TimesOut
  <2> QED BY <2>1 DEF Suspended, ToSet
<1>3. error'[firing] = "ETIMEOUT" /\ \A u \in Threads \ {firing} : error'[u] = error[u]
  BY <1>0, <1>2 DEF TimesOut, CallsOK
<1> QED BY <1>1, <1>2, <1>3 DEF Awake, TimesOut, call

\* A wake-up of a list that is not empty wakes one of its threads, unless a timer
\* is going off.
LEMMA OneIsWoken ==
  ASSUME WaitInv, NEW k \in Lists, Skips(k) \/ Resumes(k, "EOK"), Stay(k)
  PROVE  \/ Awake(k)' = Awake(k) /\ firing # NoThread
         \/ \E t \in Threads : t \notin Awake(k) /\ Awake(k)' = Awake(k) \cup {t}
<1>0. Listed /\ CallsOK /\ InTheGap
  BY DEF WaitInv
<1>1. \A t \in ToSet(list[k]) : t \in Threads /\ Suspended(t) /\ inside[t] = k
  <2>1. list[k] \in Seq(Threads)
    BY <1>0 DEF Listed
  <2> QED BY <1>0, <2>1 DEF ToSet, Suspended, Listed
<1>2. CASE Skips(k)
  <2>1. Awake(k)' = Awake(k)
    BY <1>2, QuietAwake DEF Skips
  <2>2. PICK t \in ToSet(list[k]) : t \in ttmr_set /\ t \notin timer
    BY <1>2 DEF Skips
  <2>3. firing = t /\ t \in Threads
    BY <1>0, <1>1, <2>2 DEF InTheGap
  <2> QED BY <2>1, <2>3, IpcAssumption
<1>3. CASE Resumes(k, "EOK")
  <2>1. PICK t \in ToSet(list[k]) : Gone(k, t) /\ error' = [error EXCEPT ![t] = "EOK"]
    BY <1>3 DEF Resumes
  <2>2. \A u : Suspended(u)' <=> Suspended(u) /\ u # t
    BY <1>0, <2>1, GoneSuspended
  <2>3. error'[t] = "EOK" /\ \A u \in Threads \ {t} : error'[u] = error[u]
    BY <1>0, <1>1, <2>1 DEF CallsOK
  <2>4. t \notin Awake(k) /\ Awake(k)' = Awake(k) \cup {t}
    BY <1>1, <2>2, <2>3 DEF Awake, Stay
  <2> QED BY <1>1, <2>4
<1> QED BY <1>2, <1>3

-----------------------------------------------------------------------------
(* The tokens.                                                              *)

LEMMA GrantedAwake == Granted = Awake("sem") /\ Granted' = Awake("sem")'
BY DEF Granted, Awake

LEMMA GrantedFinite ==
  /\ IsFiniteSet(Granted) /\ Cardinality(Granted) \in Nat
  /\ IsFiniteSet(Granted') /\ Cardinality(Granted') \in Nat
BY AwakeFinite, GrantedAwake DEF Lists

\* What a step does to the tokens.
Same == UNCHANGED <<value, credit>> /\ Granted' = Granted
Taken == value > 0 /\ value' = value - 1 /\ credit' = credit - 1 /\ Granted' = Granted
Returned == /\ UNCHANGED value /\ credit' = credit - 1
            /\ \E t \in Granted : Granted' = Granted \ {t}
Counted == value' = value + 1 /\ credit' = credit + 1 /\ Granted' = Granted
Given == /\ UNCHANGED value /\ credit' = credit + 1
         /\ \E t \in Threads \ Granted : Granted' = Granted \cup {t}
Dropped == /\ UNCHANGED value /\ credit' = credit + 1 /\ Granted' = Granted
           /\ firing # NoThread
Reset == value' \in {0, 1} /\ credit' = value' + Cardinality(Granted) /\ Granted' = Granted

TokenStep == Same \/ Taken \/ Returned \/ Counted \/ Given \/ Dropped \/ Reset

LEMMA NextIsTokenStep ==
  ASSUME WaitInv, Next
  PROVE  TokenStep
<1>0. Listed /\ CallsOK
  BY DEF WaitInv
<1> USE DEF Lists
<1>1. ASSUME NEW t \in Threads, Take(t) PROVE TokenStep
  <2>1. CASE value > 0
    <3>1. Granted' = Granted
      BY <1>1, <2>1, QuietAwake, GrantedAwake DEF Take, wait, call, Stay
    <3> QED BY <1>1, <2>1, <3>1 DEF Take, TokenStep, Taken
  <2>2. CASE ~(value > 0)
    <3>1. Sleeps(t, "sem") /\ inside[t] # "sem"
      BY <1>0, <1>1, <2>2 DEF Take, Idle, Timeout, Sleeps, CallsOK
    <3>2. Granted' = Granted
      BY <3>1, SleepsAwake, GrantedAwake
    <3> QED BY <1>1, <2>2, <3>2 DEF Take, sem, TokenStep, Same
  <2> QED BY <2>1, <2>2
<1>2. ASSUME NEW t \in Threads, TakeReturns(t) PROVE TokenStep
  <2>1. /\ UNCHANGED <<list, error, value>> /\ ~Suspended(t) /\ inside[t] = "sem"
        /\ inside' = [inside EXCEPT ![t] = "none"]
        /\ credit' = IF error[t] = "EOK" THEN credit - 1 ELSE credit
    BY <1>2 DEF TakeReturns, Runs, Leave, wait
  <2>2. \A u : Suspended(u)' <=> Suspended(u)
    BY <2>1 DEF Suspended
  <2>3. inside'[t] = "none" /\ \A u \in Threads \ {t} : inside'[u] = inside[u]
    BY <1>0, <2>1 DEF CallsOK
  <2>4. Granted' = Granted \ {t}
    BY <2>1, <2>2, <2>3 DEF Granted
  <2>5. CASE error[t] = "EOK"
    <3>1. t \in Granted
      BY <2>1, <2>5 DEF Granted
    <3> QED BY <2>1, <2>4, <2>5, <3>1 DEF TokenStep, Returned
  <2>6. CASE error[t] # "EOK"
    <3>1. t \notin Granted
      BY <2>6 DEF Granted
    <3> QED BY <2>1, <2>4, <2>6, <3>1 DEF TokenStep, Same
  <2> QED BY <2>5, <2>6
<1>3. ASSUME Release PROVE TokenStep
  <2>0. /\ list["sem"] = <<>> => UNCHANGED wait
        /\ list["sem"] # <<>> => Skips("sem") \/ Resumes("sem", "EOK")
    BY <1>0, <1>3, DequeueWakes DEF Release
  <2>1. CASE list["sem"] = <<>>
    <3>1. Granted' = Granted
      BY <1>3, <2>0, <2>1, QuietAwake, GrantedAwake DEF Release, wait, call, Stay
    <3> QED BY <1>3, <2>1, <3>1 DEF Release, TokenStep, Counted
  <2>2. CASE list["sem"] # <<>>
    <3>1. \/ Granted' = Granted /\ firing # NoThread
          \/ \E t \in Threads : t \notin Granted /\ Granted' = Granted \cup {t}
      <4>1. Skips("sem") \/ Resumes("sem", "EOK")
        BY <2>0, <2>2
      <4>2. Stay("sem") /\ "sem" \in Lists
        BY <1>3 DEF Release, call, Stay
      <4>3. \/ Awake("sem")' = Awake("sem") /\ firing # NoThread
            \/ \E t \in Threads : t \notin Awake("sem") /\ Awake("sem")' = Awake("sem") \cup {t}
        BY <4>1, <4>2, OneIsWoken
      <4> QED BY <4>3, GrantedAwake
    <3> QED BY <1>3, <2>2, <3>1 DEF Release, TokenStep, Given, Dropped
  <2> QED BY <2>1, <2>2
<1>4. ASSUME NEW l \in {"recv", "send"}, Wakes(l), UNCHANGED sem,
             UNCHANGED call \/ \E t \in Threads : inside[t] # "sem" /\ Leave(t)
      PROVE  TokenStep
  <2>1. Stay("sem")
    BY <1>0, <1>4 DEF call, Leave, CallsOK, Stay
  <2>2. Granted' = Granted
    BY <1>4, <2>1, WakesAwake, GrantedAwake
  <2> QED BY <1>4, <2>2 DEF sem, TokenStep, Same
<1>5. ASSUME NEW t \in Threads, NEW l \in {"recv", "send"}, Sleeps(t, l), UNCHANGED sem
      PROVE  TokenStep
  <2>1. Granted' = Granted
    BY <1>5, SleepsAwake, GrantedAwake DEF Sleeps
  <2> QED BY <1>5, <2>1 DEF sem, TokenStep, Same
<1>6. ASSUME NEW m \in Mails, Post(m) \/ Urgent(m) PROVE TokenStep
  <2>1. Wakes("recv")
    BY <1>0, <1>6, DequeueWakes DEF Post, Put, Urgent
  <2> QED BY <1>4, <1>6, <2>1 DEF Post, Urgent
<1>7. ASSUME NEW t \in Threads, NEW m \in Mails, Send(t, m) PROVE TokenStep
  <2>1. CASE entry < Size
    <3>1. Wakes("recv")
      BY <1>0, <1>7, <2>1, DequeueWakes DEF Send, Put
    <3> QED BY <1>4, <1>7, <2>1, <3>1 DEF Send
  <2>2. CASE ~(entry < Size)
    <3>1. Sleeps(t, "send")
      BY <1>0, <1>7, <2>2 DEF Send, Idle, Timeout, Sleeps, CallsOK
    <3> QED BY <1>5, <1>7, <3>1 DEF Send
  <2> QED BY <2>1, <2>2
<1>8. ASSUME NEW t \in Threads, Receive(t) PROVE TokenStep
  <2>1. CASE entry > 0
    <3>1. Wakes("send")
      BY <1>0, <1>8, <2>1, DequeueWakes DEF Receive, Get
    <3> QED BY <1>4, <1>8, <2>1, <3>1 DEF Receive
  <2>2. CASE ~(entry > 0)
    <3>1. Sleeps(t, "recv")
      BY <1>0, <1>8, <2>2 DEF Receive, Idle, Timeout, Sleeps, CallsOK
    <3> QED BY <1>5, <1>8, <3>1 DEF Receive
  <2> QED BY <2>1, <2>2
<1>9. ASSUME NEW t \in Threads, NEW l \in {"recv", "send"}, GoesOn(t, l) PROVE TokenStep
  <2>0. inside[t] # "sem" /\ UNCHANGED sem
    BY <1>9 DEF GoesOn
  <2>1. CASE Leave(t) /\ IF l = "send" THEN Put(mail[t]) ELSE Get
    <3>1. Wakes("recv") \/ Wakes("send")
      BY <1>0, <2>1, DequeueWakes DEF Put, Get
    <3> QED BY <1>4, <2>0, <2>1, <3>1
  <2>2. CASE Leave(t) /\ UNCHANGED <<mb, wait>>
    BY <1>4, <2>0, <2>2 DEF Wakes
  <2>3. CASE UNCHANGED <<limited, mail, mb>> /\ Suspend(t, l, "EINTR")
    <3>1. Sleeps(t, l)
      BY <1>0, <1>9, <2>3 DEF GoesOn, Sleeps, CallsOK
    <3> QED BY <1>5, <2>0, <3>1
  <2> QED BY <1>9, <2>1, <2>2, <2>3 DEF GoesOn
<1>10. ASSUME NEW v \in {0, 1}, SemReset(v) PROVE TokenStep
  <2>1. Empties({"sem"})
    BY <1>0, <1>10, ResumeAllEmpties DEF SemReset
  <2>2. Granted' = Granted
    BY <2>1, EmptiesAwake, GrantedAwake
  <2> QED BY <1>10, <2>2 DEF SemReset, TokenStep, Reset
<1>11. ASSUME NEW n, SetLimit(n) PROVE TokenStep
  <2>1. CASE n < value
    <3>1. Empties({"sem"})
      BY <1>0, <1>11, <2>1, ResumeAllEmpties DEF SetLimit
    <3>2. Granted' = Granted
      BY <3>1, EmptiesAwake, GrantedAwake
    <3> QED BY <1>11, <3>2 DEF SetLimit, TokenStep, Same
  <2>2. CASE ~(n < value)
    <3>1. Granted' = Granted
      BY <1>11, <2>2, QuietAwake, GrantedAwake DEF SetLimit, Become, Waits, call, Stay
    <3> QED BY <1>11, <3>1 DEF SetLimit, TokenStep, Same
  <2> QED BY <2>1, <2>2
<1>12. ASSUME MailReset PROVE TokenStep
  <2>1. Empties({"recv", "send"})
    BY <1>0, <1>12, ResetEmpties DEF MailReset
  <2>2. Granted' = Granted
    BY <2>1, EmptiesAwake, GrantedAwake
  <2> QED BY <1>12, <2>2 DEF MailReset, sem, TokenStep, Same
<1>13. ASSUME NEW t \in Threads, TimerFires(t) PROVE TokenStep
  <2>1. Granted' = Granted
    BY <1>13, QuietAwake, GrantedAwake DEF TimerFires, call, Stay
  <2> QED BY <1>13, <2>1 DEF TimerFires, sem, TokenStep, Same
<1>14. ASSUME TimedOut PROVE TokenStep
  <2>1. \E l \in Lists : TimesOut(l)
    BY <1>0, <1>14, TimedOutTimesOut
  <2>2. Granted' = Granted
    BY <2>1, TimesOutAwake, GrantedAwake
  <2> QED BY <1>14, <2>2 DEF TimedOut, sem, TokenStep, Same
<1> QED BY <1>1, <1>2, <1>3, <1>6, <1>7, <1>8, <1>9, <1>10, <1>11, <1>12, <1>13, <1>14 DEF Next

\* The semaphore's value and its list: what Release, Take and SetLimit see.
ValueInv ==
  /\ value \in 0 .. Limit /\ max_value \in 1 .. Limit
  /\ value > 0 => list["sem"] = <<>>

LEMMA ValueKept ==
  ASSUME WaitInv, ValueInv, Next
  PROVE  ValueInv'
<1> USE IpcAssumption DEF Lists
<1>0. Listed /\ CallsOK
  BY DEF WaitInv
<1>1. ASSUME NEW t \in Threads, Take(t) PROVE ValueInv'
  <2>1. CASE value > 0
    BY <1>1, <2>1 DEF Take, ValueInv, wait
  <2>2. CASE ~(value > 0)
    BY <1>1, <2>2 DEF Take, ValueInv, sem
  <2> QED BY <2>1, <2>2
<1>2. ASSUME Release PROVE ValueInv'
  <2>0. list["sem"] = <<>> => UNCHANGED wait
    BY <1>0, <1>2, DequeueWakes DEF Release
  <2>1. CASE list["sem"] = <<>>
    BY <1>2, <2>0, <2>1 DEF Release, wait, ValueInv
  <2>2. CASE list["sem"] # <<>>
    BY <1>2, <2>2 DEF Release, ValueInv
  <2> QED BY <2>1, <2>2
<1>3. ASSUME NEW v \in {0, 1}, SemReset(v) PROVE ValueInv'
  <2>1. Empties({"sem"})
    BY <1>0, <1>3, ResumeAllEmpties DEF SemReset
  <2> QED BY <1>3, <2>1 DEF SemReset, Empties, ValueInv
<1>4. ASSUME NEW n \in 1 .. Limit, SetLimit(n) PROVE ValueInv'
  <2>1. CASE n < value
    <3>1. Empties({"sem"})
      BY <1>0, <1>4, <2>1, ResumeAllEmpties DEF SetLimit
    <3> QED BY <1>4, <3>1 DEF SetLimit, Empties, ValueInv
  <2>2. CASE ~(n < value)
    BY <1>4, <2>2 DEF SetLimit, Become, Waits, ValueInv
  <2> QED BY <2>1, <2>2
<1>5. ASSUME UNCHANGED sem, list'["sem"] = list["sem"] PROVE ValueInv'
  BY <1>5 DEF sem, ValueInv
<1>6. ASSUME NEW l \in {"recv", "send"}, Wakes(l) PROVE list'["sem"] = list["sem"]
  BY <1>6 DEF Wakes, wait, Skips, Resumes, Gone
<1>7. ASSUME NEW t, NEW l \in {"recv", "send"}, Suspend(t, l, "EINTR") PROVE list'["sem"] = list["sem"]
  BY <1>0, <1>7 DEF Suspend, Listed
<1>8. ASSUME NEW t \in Threads, TakeReturns(t) PROVE ValueInv'
  BY <1>8 DEF TakeReturns, wait, ValueInv
<1>9. ASSUME NEW m \in Mails, Post(m) \/ Urgent(m) PROVE ValueInv'
  <2>1. Wakes("recv")
    BY <1>0, <1>9, DequeueWakes DEF Post, Put, Urgent
  <2> QED BY <1>5, <1>6, <1>9, <2>1 DEF Post, Urgent
<1>10. ASSUME NEW t \in Threads, NEW m \in Mails, Send(t, m) PROVE ValueInv'
  <2>1. CASE entry < Size
    <3>1. Wakes("recv")
      BY <1>0, <1>10, <2>1, DequeueWakes DEF Send, Put
    <3> QED BY <1>5, <1>6, <1>10, <3>1 DEF Send
  <2>2. CASE ~(entry < Size)
    BY <1>5, <1>7, <1>10, <2>2 DEF Send
  <2> QED BY <2>1, <2>2
<1>11. ASSUME NEW t \in Threads, Receive(t) PROVE ValueInv'
  <2>1. CASE entry > 0
    <3>1. Wakes("send")
      BY <1>0, <1>11, <2>1, DequeueWakes DEF Receive, Get
    <3> QED BY <1>5, <1>6, <1>11, <3>1 DEF Receive
  <2>2. CASE ~(entry > 0)
    BY <1>5, <1>7, <1>11, <2>2 DEF Receive
  <2> QED BY <2>1, <2>2
<1>12. ASSUME NEW t \in Threads, NEW l \in {"recv", "send"}, GoesOn(t, l) PROVE ValueInv'
  <2>1. CASE IF l = "send" THEN Put(mail[t]) ELSE Get
    <3>1. Wakes("recv") \/ Wakes("send")
      BY <1>0, <2>1, DequeueWakes DEF Put, Get
    <3> QED BY <1>5, <1>6, <1>12, <3>1 DEF GoesOn
  <2>2. CASE UNCHANGED <<mb, wait>>
    BY <1>5, <1>12, <2>2 DEF GoesOn, wait
  <2>3. CASE Suspend(t, l, "EINTR")
    BY <1>5, <1>7, <1>12, <2>3 DEF GoesOn
  <2> QED BY <1>12, <2>1, <2>2, <2>3 DEF GoesOn
<1>13. ASSUME MailReset PROVE ValueInv'
  <2>1. Empties({"recv", "send"})
    BY <1>0, <1>13, ResetEmpties DEF MailReset
  <2> QED BY <1>5, <1>13, <2>1 DEF MailReset, Empties
<1>14. ASSUME NEW t \in Threads, TimerFires(t) PROVE ValueInv'
  BY <1>5, <1>14 DEF TimerFires
<1>15. ASSUME TimedOut PROVE ValueInv'
  <2>1. PICK l \in Lists : TimesOut(l)
    BY <1>0, <1>15, TimedOutTimesOut
  <2>2. list["sem"] = <<>> => l # "sem"
    BY <2>1, OnNothing DEF TimesOut
  <2>3. list["sem"] = <<>> => list'["sem"] = <<>>
    BY <2>1, <2>2 DEF TimesOut, Gone
  <2> QED BY <1>15, <2>3 DEF TimedOut, sem, ValueInv
<1> QED BY <1>1, <1>2, <1>3, <1>4, <1>8, <1>9, <1>10, <1>11, <1>12, <1>13, <1>14, <1>15 DEF Next

\* The tokens: what NoTokenInvented needs to be inductive is only that credit is
\* a number; NextIsTokenStep does the rest.
TokenInv == credit \in Nat /\ NoTokenInvented

LEMMA TokensKept ==
  ASSUME WaitInv, ValueInv, TokenInv, TokenStep
  PROVE  TokenInv' /\ (Lost' > Lost => firing # NoThread)
<1> DEFINE g == Cardinality(Granted)
           h == Cardinality(Granted')
<1>1. g \in Nat /\ h \in Nat /\ IsFiniteSet(Granted) /\ value \in Nat /\ credit \in Nat /\ value + g <= credit
  BY GrantedFinite, IpcAssumption DEF TokenInv, NoTokenInvented, ValueInv
<1>2. /\ TokenInv' <=> credit' \in Nat /\ value' + h <= credit'
      /\ Lost = credit - value - g /\ Lost' = credit' - value' - h
  BY DEF TokenInv, NoTokenInvented, Lost
<1>3. CASE Granted' = Granted
  <2>1. h = g
    BY <1>3
  <2>2. ~Given /\ ~Returned
    BY <1>3 DEF Given, Returned
  <2> HIDE DEF g, h
  <2> QED BY <1>1, <1>2, <2>1, <2>2 DEF TokenStep, Same, Taken, Counted, Dropped, Reset, g
<1>4. CASE Given
  <2>1. h = g + 1
    BY <1>1, <1>4, FS_AddElement DEF Given
  <2> HIDE DEF g, h
  <2> QED BY <1>1, <1>2, <1>4, <2>1 DEF Given
<1>5. CASE Returned
  <2>1. h = g - 1
    BY <1>1, <1>5, FS_RemoveElement DEF Returned
  <2> HIDE DEF g, h
  <2> QED BY <1>1, <1>2, <1>5, <2>1 DEF Returned
<1> QED BY <1>3, <1>4, <1>5 DEF TokenStep, Same, Taken, Counted, Dropped, Reset

LEMMA TokenInvariant == Spec => [](WaitInv /\ ValueInv /\ TokenInv)
<1>1. Init => ValueInv /\ TokenInv
  <2> SUFFICES ASSUME Init PROVE ValueInv /\ TokenInv
    OBVIOUS
  <2>1. Granted = {}
    BY DEF Init, Granted
  <2>2. Cardinality(Granted) = 0
    BY <2>1, FS_EmptySet
  <2> QED BY <2>2, IpcAssumption DEF Init, ValueInv, TokenInv, NoTokenInvented, Lists
<1>2. WaitInv /\ ValueInv /\ TokenInv /\ [Next]_vars => ValueInv' /\ TokenInv'
  <2> SUFFICES ASSUME WaitInv, ValueInv, TokenInv, [Next]_vars PROVE ValueInv' /\ TokenInv'
    OBVIOUS
  <2>1. CASE Next
    BY <2>1, ValueKept, NextIsTokenStep, TokensKept
  <2>2. CASE UNCHANGED vars
    <3>1. Granted' = Granted
      BY <2>2, QuietAwake, GrantedAwake DEF vars, wait, call, Stay, Lists
    <3> QED BY <2>2, <3>1 DEF vars, sem, wait, ValueInv, TokenInv, NoTokenInvented
  <2> QED BY <2>1, <2>2
<1> QED BY <1>1, <1>2, WaitInvariant, PTL DEF Spec

\* rt_sem_take answers RT_EOK at most once for each token released, for any number
\* of threads and any limit (ipc.c:715-735).
THEOREM NoneInvented == Spec => []NoTokenInvented
<1>1. TokenInv => NoTokenInvented
  BY DEF TokenInv
<1> QED BY <1>1, TokenInvariant, PTL

\* While the value is above zero nobody waits (ipc.c:715-735, 776, 802): the branch
\* of rt_sem_control that resumes the waiters when the limit falls is never needed.
THEOREM NoneUnused == Spec => []NoTokenUnused
<1>1. ValueInv => NoTokenUnused
  BY DEF ValueInv, NoTokenUnused
<1> QED BY <1>1, TokenInvariant, PTL

\* A token is lost only in the gap of _timer_check (timer.c:518-530).
THEOREM LossesAreInTheGap == Spec => LostOnlyInTheGap
<1>1. WaitInv /\ ValueInv /\ TokenInv /\ [Next]_vars => [Lost' > Lost => firing # NoThread]_vars
  BY NextIsTokenStep, TokensKept
<1> QED BY <1>1, TokenInvariant, PTL DEF Spec, LostOnlyInTheGap

-----------------------------------------------------------------------------
(* The ring of mails.                                                       *)

Cells == 0 .. Size - 1
\* The cell of the i-th mail of a ring whose first is in cell t
CellOf(t, i) == IF t + i - 1 < Size THEN t + i - 1 ELSE t + i - 1 - Size

LEMMA CellValue ==
  \A a \in 0 .. 2 * Size - 1 : a % Size = IF a < Size THEN a ELSE a - Size
BY IpcAssumption, Z3

\* What a queue read from the ring is: the n mails from cell t on
IsQueue(q, pool, t, n) ==
  /\ q \in Seq(Mails \cup {NoMail}) /\ Len(q) = n
  /\ \A i \in 1 .. n : q[i] = pool[CellOf(t, i)]
QueueOf(pool, t, n) == [i \in 1 .. n |-> pool[(t + i - 1) % Size]]

LEMMA QueueIsRead ==
  ASSUME NEW pool \in [Cells -> Mails \cup {NoMail}], NEW t \in Cells, NEW n \in 0 .. Size
  PROVE  IsQueue(QueueOf(pool, t, n), pool, t, n)
<1>1. \A i \in 1 .. n : (t + i - 1) % Size = CellOf(t, i) /\ CellOf(t, i) \in Cells
  <2> TAKE i \in 1 .. n
  <2> DEFINE a == t + i - 1
  <2>1. a \in 0 .. 2 * Size - 1
    BY IpcAssumption DEF Cells
  <2>2. CellOf(t, i) = IF a < Size THEN a ELSE a - Size
    BY IpcAssumption DEF CellOf, Cells
  <2> HIDE DEF a
  <2>3. a % Size = CellOf(t, i)
    BY <2>1, <2>2, CellValue
  <2>4. CellOf(t, i) \in Cells
    BY <2>1, <2>2, IpcAssumption DEF Cells
  <2> QED BY <2>3, <2>4 DEF a
<1> DEFINE e(i) == pool[(t + i - 1) % Size]
<1>2. \A i \in 1 .. n : e(i) \in Mails \cup {NoMail} /\ e(i) = pool[CellOf(t, i)]
  BY <1>1
<1>3. QueueOf(pool, t, n) = [i \in 1 .. n |-> e(i)]
  BY DEF QueueOf
<1> HIDE DEF e
<1>4. n \in Nat
  BY IpcAssumption
<1>5. QueueOf(pool, t, n) \in Seq(Mails \cup {NoMail}) /\ Len(QueueOf(pool, t, n)) = n
  BY <1>2, <1>3, <1>4
<1> QED BY <1>2, <1>3, <1>5 DEF IsQueue

LEMMA SameQueue ==
  ASSUME NEW S, NEW p \in Seq(S), NEW q \in Seq(S), Len(p) = Len(q), \A i \in 1 .. Len(p) : p[i] = q[i]
  PROVE  p = q
BY SeqEqual

\* The three ways the ring changes, on the queues read before and after.
LEMMA PutAppends ==
  ASSUME NEW pool \in [Cells -> Mails \cup {NoMail}], NEW t \in Cells, NEW n \in 0 .. Size - 1,
         NEW m \in Mails, NEW q, NEW r,
         IsQueue(q, pool, t, n), IsQueue(r, [pool EXCEPT ![CellOf(t, n + 1)] = m], t, n + 1)
  PROVE  r = Append(q, m)
<1>1. \A i \in 1 .. n + 1 : CellOf(t, i) \in Cells /\ (i # n + 1 => CellOf(t, i) # CellOf(t, n + 1))
  BY IpcAssumption DEF CellOf, Cells
<1>2. /\ q \in Seq(Mails \cup {NoMail}) /\ r \in Seq(Mails \cup {NoMail})
      /\ Len(q) = n /\ Len(r) = n + 1 /\ n \in Nat
  BY IpcAssumption DEF IsQueue
<1>3. \A i \in 1 .. n : r[i] = q[i]
  BY <1>1 DEF IsQueue
<1>4. r[n + 1] = m
  BY <1>1, <1>2 DEF IsQueue
<1>5. /\ Append(q, m) \in Seq(Mails \cup {NoMail}) /\ Len(Append(q, m)) = n + 1
      /\ Append(q, m)[n + 1] = m /\ \A i \in 1 .. n : Append(q, m)[i] = q[i]
  BY <1>2
<1>6. \A i \in 1 .. n + 1 : r[i] = Append(q, m)[i]
  BY <1>2, <1>3, <1>4, <1>5
<1> QED BY <1>2, <1>5, <1>6, SameQueue

LEMMA UrgentPrepends ==
  ASSUME NEW pool \in [Cells -> Mails \cup {NoMail}], NEW t \in Cells, NEW u \in Cells,
         t = CellOf(u, 2), NEW n \in 0 .. Size - 1, NEW m \in Mails, NEW q, NEW r,
         IsQueue(q, pool, t, n), IsQueue(r, [pool EXCEPT ![u] = m], u, n + 1)
  PROVE  r = <<m>> \o q
<1>1. CellOf(u, 1) = u /\ \A i \in 2 .. n + 1 : /\ CellOf(u, i) \in Cells /\ CellOf(u, i) # u
                                                /\ CellOf(u, i) = CellOf(t, i - 1)
  BY IpcAssumption DEF CellOf, Cells
<1>2. /\ q \in Seq(Mails \cup {NoMail}) /\ r \in Seq(Mails \cup {NoMail})
      /\ Len(q) = n /\ Len(r) = n + 1 /\ n \in Nat
  BY IpcAssumption DEF IsQueue
<1>3. \A i \in 2 .. n + 1 : r[i] = q[i - 1]
  <2> TAKE i \in 2 .. n + 1
  <2>1. i - 1 \in 1 .. n /\ i \in 1 .. n + 1
    BY <1>2
  <2> QED BY <1>1, <2>1 DEF IsQueue
<1>4. r[1] = m
  BY <1>1, <1>2 DEF IsQueue
<1>5. /\ <<m>> \o q \in Seq(Mails \cup {NoMail}) /\ Len(<<m>> \o q) = n + 1
      /\ (<<m>> \o q)[1] = m /\ \A i \in 2 .. n + 1 : (<<m>> \o q)[i] = q[i - 1]
  BY <1>2
<1>6. \A i \in 1 .. n + 1 : r[i] = (<<m>> \o q)[i]
  BY <1>2, <1>3, <1>4, <1>5
<1> QED BY <1>2, <1>5, <1>6, SameQueue

LEMMA GetDropsTheFirst ==
  ASSUME NEW pool \in [Cells -> Mails \cup {NoMail}], NEW t \in Cells, NEW n \in 1 .. Size,
         NEW q, NEW r, IsQueue(q, pool, t, n), IsQueue(r, pool, Following(t), n - 1)
  PROVE  q # <<>> /\ Head(q) = pool[t] /\ r = Tail(q)
<1>1. CellOf(t, 1) = t /\ \A i \in 1 .. n - 1 : CellOf(Following(t), i) = CellOf(t, i + 1)
  BY IpcAssumption DEF CellOf, Cells, Following
<1>2. /\ q \in Seq(Mails \cup {NoMail}) /\ r \in Seq(Mails \cup {NoMail})
      /\ Len(q) = n /\ Len(r) = n - 1 /\ n \in Nat \ {0}
  BY IpcAssumption DEF IsQueue
<1>3. q # <<>> /\ Head(q) = pool[t]
  BY <1>1, <1>2 DEF IsQueue
<1>4. /\ Tail(q) \in Seq(Mails \cup {NoMail}) /\ Len(Tail(q)) = n - 1
      /\ \A i \in 1 .. n - 1 : Tail(q)[i] = q[i + 1]
  BY <1>2, <1>3, HeadTailProperties
<1>5. \A i \in 1 .. n - 1 : r[i] = Tail(q)[i]
  <2> TAKE i \in 1 .. n - 1
  <2>1. i + 1 \in 1 .. n
    BY <1>2
  <2> QED BY <1>1, <1>4, <2>1 DEF IsQueue
<1> QED BY <1>2, <1>3, <1>4, <1>5, SameQueue

\* The state of the ring, and what a step does to it.
RingInv ==
  /\ msg_pool \in [Cells -> Mails \cup {NoMail}]
  /\ in_offset \in Cells /\ out_offset \in Cells /\ entry \in 0 .. Size
  /\ in_offset = CellOf(out_offset, entry + 1)
  /\ got \in Mails \cup {NoMail, "all"}

Puts(m) ==
  /\ entry < Size /\ msg_pool' = [msg_pool EXCEPT ![in_offset] = m]
  /\ in_offset' = Following(in_offset) /\ entry' = entry + 1
  /\ got' = NoMail /\ UNCHANGED out_offset
PutsFirst(m) ==
  /\ entry < Size
  /\ out_offset' = IF out_offset > 0 THEN out_offset - 1 ELSE Size - 1
  /\ msg_pool' = [msg_pool EXCEPT ![out_offset'] = m] /\ entry' = entry + 1
  /\ got' = NoMail /\ UNCHANGED in_offset
Gets ==
  /\ entry > 0 /\ got' = msg_pool[out_offset]
  /\ out_offset' = Following(out_offset) /\ entry' = entry - 1
  /\ UNCHANGED <<msg_pool, in_offset>>
Clears == /\ entry' = 0 /\ in_offset' = 0 /\ out_offset' = 0
          /\ got' = "all" /\ UNCHANGED msg_pool
RingStep == UNCHANGED mb \/ (\E m \in Mails : Puts(m) \/ PutsFirst(m)) \/ Gets \/ Clears

LEMMA NextIsRingStep ==
  ASSUME WaitInv, Next
  PROVE  RingStep
<1>1. ASSUME NEW t \in Threads, Take(t) \/ TakeReturns(t) \/ TimerFires(t) PROVE RingStep
  BY <1>1 DEF Take, TakeReturns, TimerFires, RingStep
<1>2. ASSUME NEW t \in Threads, Receive(t) PROVE RingStep
  BY <1>2 DEF Receive, Get, Gets, RingStep
<1>3. ASSUME NEW t \in Threads, NEW m \in Mails, Send(t, m) PROVE RingStep
  BY <1>3 DEF Send, Put, Puts, RingStep
<1>4. ASSUME NEW t \in Threads, NEW l \in {"recv", "send"}, GoesOn(t, l) PROVE RingStep
  <2>1. CASE Ready(t, l) /\ IF l = "send" THEN Put(mail[t]) ELSE Get
    <3>1. l = "send" => mail[t] \in Mails
      BY <1>4 DEF GoesOn, WaitInv, CallsOK
    <3>2. CASE l = "send"
      BY <2>1, <3>1, <3>2 DEF Ready, Put, Puts, RingStep
    <3>3. CASE l = "recv"
      BY <2>1, <3>3 DEF Ready, Get, Gets, RingStep
    <3> QED BY <3>2, <3>3
  <2>2. CASE UNCHANGED mb
    BY <2>2 DEF RingStep
  <2> QED BY <1>4, <2>1, <2>2 DEF GoesOn, mb
<1>5. ASSUME NEW m \in Mails, Post(m) \/ Urgent(m) PROVE RingStep
  BY <1>5 DEF Post, Put, Urgent, Puts, PutsFirst, RingStep
<1>6. ASSUME Release \/ TimedOut \/ \E v : SemReset(v) \/ SetLimit(v) PROVE RingStep
  BY <1>6 DEF Release, TimedOut, SemReset, SetLimit, RingStep
<1>7. ASSUME MailReset PROVE RingStep
  BY <1>7 DEF MailReset, Clears, RingStep
<1> QED BY <1>1, <1>2, <1>3, <1>4, <1>5, <1>6, <1>7 DEF Next

LEMMA RingKept ==
  ASSUME RingInv, RingStep
  PROVE  RingInv'
<1> USE IpcAssumption DEF Cells
<1>1. CASE UNCHANGED mb
  BY <1>1 DEF mb, RingInv
<1>2. ASSUME NEW m \in Mails, Puts(m) PROVE RingInv'
  BY <1>2 DEF Puts, RingInv, Following, CellOf
<1>3. ASSUME NEW m \in Mails, PutsFirst(m) PROVE RingInv'
  BY <1>3 DEF PutsFirst, RingInv, CellOf
<1>4. CASE Gets
  BY <1>4 DEF Gets, RingInv, Following, CellOf
<1>5. CASE Clears
  BY <1>5 DEF Clears, RingInv, CellOf
<1> QED BY <1>1, <1>2, <1>3, <1>4, <1>5 DEF RingStep

LEMMA RingInvariant == Spec => []RingInv
<1>1. Init => RingInv
  BY IpcAssumption DEF Init, RingInv, Cells, CellOf
<1>2. WaitInv /\ RingInv /\ [Next]_vars => RingInv'
  <2> SUFFICES ASSUME WaitInv, RingInv, [Next]_vars PROVE RingInv'
    OBVIOUS
  <2>1. CASE UNCHANGED vars
    BY <2>1, RingKept DEF vars, RingStep
  <2> QED BY <2>1, NextIsRingStep, RingKept
<1> QED BY <1>1, <1>2, WaitInvariant, PTL DEF Spec

\* The invariants together are the model's type invariant: the counters stay in their
\* ranges, the ring in its pool, and a thread is on the list of its own call only.
THEOREM TypeCorrect == Spec => []TypeOK
<1>1. WaitInv /\ ValueInv /\ TokenInv /\ RingInv => TypeOK
  BY DEF WaitInv, Listed, CallsOK, ValueInv, TokenInv, RingInv, TypeOK, Cells, Errors
<1> QED BY <1>1, TokenInvariant, RingInvariant, PTL

\* Each change of the ring is one of the queue.
LEMMA RingStepIsQueueStep ==
  ASSUME RingInv, RingInv', RingStep
  PROVE  Queue!Next \/ UNCHANGED Queue!vars
<1> DEFINE q == QueueOf(msg_pool, out_offset, entry)
           r == QueueOf(msg_pool', out_offset', entry')
<1>1. /\ IsQueue(q, msg_pool, out_offset, entry) /\ IsQueue(r, msg_pool', out_offset', entry')
      /\ Len(q) = entry
  BY QueueIsRead DEF RingInv, IsQueue
<1> HIDE DEF q, r
<1>2. ASSUME NEW m \in Mails, Puts(m) PROVE r = Append(q, m) /\ got' = NoMail
  <2>1. /\ msg_pool' = [msg_pool EXCEPT ![CellOf(out_offset, entry + 1)] = m]
        /\ out_offset' = out_offset /\ entry' = entry + 1 /\ entry \in 0 .. Size - 1
    BY <1>2, IpcAssumption DEF Puts, RingInv
  <2>2. IsQueue(r, [msg_pool EXCEPT ![CellOf(out_offset, entry + 1)] = m], out_offset, entry + 1)
    BY <1>1, <2>1
  <2> QED BY <1>1, <1>2, <2>1, <2>2, PutAppends DEF RingInv, Puts
<1>3. ASSUME NEW m \in Mails, PutsFirst(m) PROVE r = <<m>> \o q /\ got' = NoMail
  <2>1. /\ msg_pool' = [msg_pool EXCEPT ![out_offset'] = m]
        /\ out_offset' \in Cells /\ entry' = entry + 1 /\ entry \in 0 .. Size - 1
        /\ out_offset = CellOf(out_offset', 2)
    BY <1>3, IpcAssumption DEF PutsFirst, RingInv, CellOf, Cells
  <2>2. IsQueue(r, [msg_pool EXCEPT ![out_offset'] = m], out_offset', entry + 1)
    BY <1>1, <2>1
  <2> QED BY <1>1, <1>3, <2>1, <2>2, UrgentPrepends DEF RingInv, PutsFirst
<1>4. CASE Gets
  <2>1. q # <<>> /\ Head(q) = msg_pool[out_offset] /\ r = Tail(q)
    <3>1. entry \in 1 .. Size /\ IsQueue(r, msg_pool, Following(out_offset), entry - 1)
      BY <1>1, <1>4, IpcAssumption DEF Gets, RingInv
    <3>2. msg_pool \in [Cells -> Mails \cup {NoMail}] /\ out_offset \in Cells
      BY DEF RingInv
    <3>3. IsQueue(q, msg_pool, out_offset, entry)
      BY <1>1
    <3> QED BY <3>1, <3>2, <3>3, GetDropsTheFirst, ZenonT(30)
  <2>2. Queue!Receive
    BY <1>4, <2>1 DEF Gets, Queue!Receive, q, r, QueueOf
  <2> QED BY <2>2 DEF Queue!Next
<1>5. CASE Clears
  <2>1. r = <<>> /\ got' = "all"
    BY <1>1, <1>5, IpcAssumption DEF Clears, IsQueue
  <2>2. Queue!Discard
    BY <2>1 DEF Queue!Discard, r, QueueOf
  <2> QED BY <2>2 DEF Queue!Next
<1>6. CASE UNCHANGED mb
  BY <1>6 DEF mb, Queue!vars
<1>7. ASSUME NEW m \in Mails, Puts(m) \/ PutsFirst(m) PROVE Queue!Next
  <2>1. Len(q) < Size /\ r \in {Append(q, m), <<m>> \o q} /\ got' = NoMail
    BY <1>1, <1>2, <1>3, <1>7 DEF Puts, PutsFirst
  <2>2. Queue!Accept
    BY <2>1 DEF Queue!Accept, q, r, QueueOf
  <2> QED BY <2>2 DEF Queue!Next
<1> QED BY <1>4, <1>5, <1>6, <1>7 DEF RingStep

\* For any size of the mailbox its ring is a queue: every mail accepted is received
\* once, in order but for the urgent ones (ipc.c:2652-2662, 2778-2792, 2932-2944).
THEOREM RingIsQueue == Spec => QueueKept
<1>1. Init => Queue!Init
  <2> SUFFICES ASSUME Init PROVE Queue!Init
    OBVIOUS
  <2>1. RingInv /\ entry = 0
    BY IpcAssumption DEF Init, RingInv, Cells, CellOf
  <2>2. IsQueue(QueueOf(msg_pool, out_offset, entry), msg_pool, out_offset, entry)
    BY <2>1, QueueIsRead DEF RingInv
  <2>3. QueueOf(msg_pool, out_offset, entry) = <<>>
    BY <2>1, <2>2 DEF IsQueue
  <2> QED BY <2>3, IpcAssumption DEF Queue!Init, QueueOf, Init
<1>2. WaitInv /\ RingInv /\ RingInv' /\ [Next]_vars => [Queue!Next]_(Queue!vars)
  <2> SUFFICES ASSUME WaitInv, RingInv, RingInv', [Next]_vars
               PROVE  [Queue!Next]_(Queue!vars)
    OBVIOUS
  <2>1. RingStep
    BY NextIsRingStep DEF RingStep, vars
  <2> QED BY <2>1, RingStepIsQueueStep
<1> QED BY <1>1, <1>2, WaitInvariant, RingInvariant, PTL DEF Spec, QueueKept, Queue!Spec

-----------------------------------------------------------------------------
(* No wake-up of the mailbox is lost.                                       *)

\* What the threads waiting on a list wait for: mails, or room.
There(l) == IF l = "recv" THEN entry ELSE Size - entry
Other(l) == IF l = "recv" THEN "send" ELSE "recv"

\* A step by which nothing of it goes unnoticed that did not before.
Kept(l) ==
  \/ list'[l] = <<>>
  \/ There(l)' = 0
  \/ /\ list[l] # <<>>
     /\ There(l)' - Cardinality(Awake(l)') <= There(l) - Cardinality(Awake(l))

LEMMA KeptNoticed ==
  ASSUME RingInv, RingInv', NEW l \in {"recv", "send"}, Kept(l)
  PROVE  ~(Unnoticed(l, There(l))' > Unnoticed(l, There(l)))
<1> DEFINE w == Cardinality(Awake(l))
           v == Cardinality(Awake(l)')
           n == There(l)
           m == There(l)'
<1>1. w \in Nat /\ v \in Nat
  BY AwakeFinite DEF Lists
<1>2. n \in 0 .. Size /\ m \in 0 .. Size
  <2>1. entry \in 0 .. Size /\ entry' \in 0 .. Size /\ Size \in Nat
    BY IpcAssumption DEF RingInv
  <2>2. CASE l = "recv"
    BY <2>1, <2>2 DEF There
  <2>3. CASE l = "send"
    <3>1. n = Size - entry /\ m = Size - entry'
      BY <2>3 DEF There
    <3>2. \A a \in 0 .. Size : Size - a \in 0 .. Size
      BY IpcAssumption
    <3>3. Size - entry \in 0 .. Size /\ Size - entry' \in 0 .. Size
      BY <2>1, <3>2
    <3> HIDE DEF n, m
    <3> QED BY <3>1, <3>3, Zenon
  <2> QED BY <2>2, <2>3
<1>3. Woken(l) = w /\ Woken(l)' = v
  BY DEF Woken, Awake
<1>4. /\ Unnoticed(l, There(l)) = IF list[l] = <<>> \/ w >= n THEN 0 ELSE n - w
      /\ Unnoticed(l, There(l))' = IF list'[l] = <<>> \/ v >= m THEN 0 ELSE m - v
  BY <1>3 DEF Unnoticed
<1>5. list'[l] = <<>> \/ m = 0 \/ (list[l] # <<>> /\ m - v <= n - w)
  BY DEF Kept
<1> HIDE DEF w, v, n, m
<1> QED BY <1>1, <1>2, <1>4, <1>5, IpcAssumption

LEMMA SameKept ==
  ASSUME NEW l \in {"recv", "send"}, list'[l] = list[l], UNCHANGED entry, Awake(l)' = Awake(l), RingInv
  PROVE  Kept(l)
<1>1. There(l)' = There(l) /\ There(l) \in Int
  BY IpcAssumption DEF There, RingInv
<1> QED BY <1>1, AwakeFinite DEF Kept, Lists

\* One more is there and one more thread is woken for it.
LEMMA MoreKept ==
  ASSUME WaitInv, RingInv, firing = NoThread, NEW l \in {"recv", "send"},
         There(l)' = There(l) + 1, Stay(l), list[l] = <<>> => UNCHANGED wait,
         list[l] # <<>> => Skips(l) \/ Resumes(l, "EOK")
  PROVE  Kept(l)
<1>0. l \in Lists /\ There(l) \in Int
  BY IpcAssumption DEF Lists, RingInv, There
<1>1. CASE list[l] = <<>>
  BY <1>1 DEF wait, Kept
<1>2. CASE list[l] # <<>>
  <2>1. PICK t \in Threads : t \notin Awake(l) /\ Awake(l)' = Awake(l) \cup {t}
    BY <1>0, <1>2, OneIsWoken
  <2>2. Cardinality(Awake(l)') = Cardinality(Awake(l)) + 1 /\ Cardinality(Awake(l)) \in Nat
    BY <1>0, <2>1, AwakeFinite, FS_AddElement
  <2> QED BY <1>0, <1>2, <2>2 DEF Kept
<1> QED BY <1>1, <1>2

\* One is used, by a thread that was not waiting or by one that was woken.
LEMMA LessKept ==
  ASSUME WaitInv, RingInv, NEW l \in {"recv", "send"}, NEW k \in Lists, k # l, Wakes(k),
         There(l)' = There(l) - 1,
         \/ UNCHANGED call
         \/ \E t \in Threads : Runs(t) /\ inside[t] = l /\ error[t] = "EOK" /\ Leave(t)
  PROVE  Kept(l)
<1>0. l \in Lists /\ There(l) \in Int /\ Listed /\ CallsOK
  BY IpcAssumption DEF Lists, RingInv, There, WaitInv
<1>1. CASE UNCHANGED call
  <2>1. Awake(l)' = Awake(l) /\ list'[l] = list[l]
    BY <1>0, <1>1, WakesAwake DEF Stay, call
  <2>2. There(l)' - Cardinality(Awake(l)') <= There(l) - Cardinality(Awake(l))
    BY <1>0, <2>1, AwakeFinite
  <2> QED BY <2>1, <2>2 DEF Kept
<1>2. ASSUME NEW t \in Threads, Runs(t), inside[t] = l, error[t] = "EOK", Leave(t)
      PROVE  Kept(l)
  <2>1. t \in Awake(l) /\ ~Suspended(t)
    BY <1>2 DEF Awake, Runs
  <2>2. \A u \in Threads : inside'[u] = l <=> inside[u] = l /\ u # t
    BY <1>0, <1>2 DEF Leave, CallsOK
  <2>3. Awake(l)' = Awake(l) \ {t} /\ list'[l] = list[l]
    <3>1. CASE UNCHANGED wait \/ Skips(k)
      <4>1. UNCHANGED <<list, error>>
        BY <3>1 DEF wait, Skips
      <4>2. \A u : Suspended(u)' <=> Suspended(u)
        BY <4>1 DEF Suspended
      <4> QED BY <2>2, <4>1, <4>2 DEF Awake
    <3>2. CASE Resumes(k, "EOK")
      <4>1. PICK s \in ToSet(list[k]) : Gone(k, s) /\ error' = [error EXCEPT ![s] = "EOK"]
        BY <3>2 DEF Resumes
      <4>2. \A u : Suspended(u)' <=> Suspended(u) /\ u # s
        BY <1>0, <4>1, GoneSuspended
      <4>3. inside[s] # l
        BY <1>0, <4>1 DEF Listed
      <4>4. \A u \in Threads : u # s => error'[u] = error[u]
        BY <1>0, <4>1 DEF CallsOK
      <4>5. Awake(l)' = Awake(l) \ {t}
        BY <2>2, <4>2, <4>3, <4>4 DEF Awake
      <4> QED BY <1>0, <4>1, <4>5 DEF Gone
    <3> QED BY <3>1, <3>2 DEF Wakes
  <2>4. Cardinality(Awake(l)') = Cardinality(Awake(l)) - 1 /\ Cardinality(Awake(l)) \in Nat
    BY <1>0, <2>1, <2>3, AwakeFinite, FS_RemoveElement
  <2>5. CASE list[l] # <<>>
    BY <1>0, <2>4, <2>5 DEF Kept
  <2>6. CASE list[l] = <<>>
    BY <2>3, <2>6 DEF Kept
  <2> QED BY <2>5, <2>6
<1> QED BY <1>1, <1>2

LEMMA NextKeeps ==
  ASSUME WaitInv, RingInv, Next, firing = NoThread, NEW l \in {"recv", "send"}
  PROVE  Kept(l)
<1> USE IpcAssumption
<1>0. Listed /\ CallsOK /\ l \in Lists /\ "sem" \in Lists /\ "recv" \in Lists /\ "send" \in Lists
      /\ entry \in 0 .. Size
  BY DEF WaitInv, Lists, RingInv
\* The semaphore and the timers
<1>1. ASSUME UNCHANGED entry, Wakes("sem"), Stay(l) PROVE Kept(l)
  <2>1. Awake(l)' = Awake(l) /\ list'[l] = list[l]
    BY <1>0, <1>1, WakesAwake
  <2> QED BY <1>1, <2>1, SameKept
<1>2. ASSUME UNCHANGED entry, UNCHANGED <<list, error>>, Stay(l) PROVE Kept(l)
  <2>1. Awake(l)' = Awake(l)
    BY <1>0, <1>2, QuietAwake
  <2> QED BY <1>2, <2>1, SameKept
<1>3. ASSUME UNCHANGED entry, NEW t \in Threads, NEW k \in Lists, k # l, inside[t] # l, Sleeps(t, k)
      PROVE  Kept(l)
  <2>1. Awake(l)' = Awake(l) /\ list'[l] = list[l]
    BY <1>0, <1>3, SleepsAwake
  <2> QED BY <1>3, <2>1, SameKept
<1>4. ASSUME UNCHANGED entry, NEW K \in SUBSET Lists, Empties(K) PROVE Kept(l)
  <2>1. Awake(l)' = Awake(l) /\ (list'[l] = <<>> \/ list'[l] = list[l])
    BY <1>0, <1>4, EmptiesAwake DEF Empties
  <2> QED BY <1>4, <2>1, SameKept DEF Kept
<1>5. ASSUME NEW t \in Threads, Take(t) PROVE Kept(l)
  <2>1. CASE value > 0
    BY <1>2, <1>5, <2>1 DEF Take, wait, call, mb, Stay
  <2>2. CASE ~(value > 0)
    <3>1. Sleeps(t, "sem") /\ inside[t] = "none" /\ UNCHANGED entry
      BY <1>0, <1>5, <2>2 DEF Take, Idle, Timeout, Sleeps, CallsOK, mb
    <3> QED BY <1>0, <1>3, <3>1
  <2> QED BY <2>1, <2>2
<1>6. ASSUME NEW t \in Threads, TakeReturns(t) PROVE Kept(l)
  <2>1. Stay(l)
    BY <1>0, <1>6 DEF TakeReturns, Leave, Stay, CallsOK
  <2> QED BY <1>2, <1>6, <2>1 DEF TakeReturns, wait, mb
<1>7. ASSUME Release PROVE Kept(l)
  <2>1. Wakes("sem")
    BY <1>0, <1>7, DequeueWakes DEF Release
  <2> QED BY <1>1, <1>7, <2>1 DEF Release, mb, call, Stay
<1>8. ASSUME NEW v, SemReset(v) PROVE Kept(l)
  <2>1. Empties({"sem"}) /\ UNCHANGED entry
    BY <1>0, <1>8, ResumeAllEmpties DEF SemReset, mb
  <2> QED BY <1>0, <1>4, <2>1
<1>9. ASSUME NEW v, SetLimit(v) PROVE Kept(l)
  <2>1. CASE v < value
    <3>1. Empties({"sem"}) /\ UNCHANGED entry
      BY <1>0, <1>9, <2>1, ResumeAllEmpties DEF SetLimit, mb
    <3> QED BY <1>0, <1>4, <3>1
  <2>2. CASE ~(v < value)
    BY <1>2, <1>9, <2>2 DEF SetLimit, Become, Waits, call, mb, Stay
  <2> QED BY <2>1, <2>2
<1>10. ASSUME NEW t \in Threads, TimerFires(t) PROVE Kept(l)
  BY <1>2, <1>10 DEF TimerFires, call, mb, Stay
\* The mailbox: a mail comes, and a mail goes
<1>11. ASSUME entry' = entry + 1, Become(Dequeue(Waits, "recv", "EOK")),
              \/ UNCHANGED call
              \/ \E t \in Threads : Runs(t) /\ inside[t] = "send" /\ error[t] = "EOK" /\ Leave(t)
       PROVE  Kept(l)
  <2>1. /\ Wakes("recv") /\ (list["recv"] = <<>> => UNCHANGED wait)
        /\ list["recv"] # <<>> => Skips("recv") \/ Resumes("recv", "EOK")
    BY <1>0, <1>11, DequeueWakes
  <2>2. CASE l = "recv"
    <3>1. There(l)' = There(l) + 1
      BY <1>11, <2>2 DEF There
    <3>2. Stay(l)
      BY <1>0, <1>11, <2>2 DEF Stay, call, Leave, CallsOK
    <3> QED BY <2>1, <2>2, <3>1, <3>2, MoreKept
  <2>3. CASE l = "send"
    <3>1. There(l)' = There(l) - 1
      BY <1>0, <1>11, <2>3 DEF There
    <3> QED BY <1>0, <1>11, <2>1, <2>3, <3>1, LessKept
  <2> QED BY <2>2, <2>3
<1>12. ASSUME entry' = entry - 1, Become(Dequeue(Waits, "send", "EOK")),
              \/ UNCHANGED call
              \/ \E t \in Threads : Runs(t) /\ inside[t] = "recv" /\ error[t] = "EOK" /\ Leave(t)
       PROVE  Kept(l)
  <2>1. /\ Wakes("send") /\ (list["send"] = <<>> => UNCHANGED wait)
        /\ list["send"] # <<>> => Skips("send") \/ Resumes("send", "EOK")
    BY <1>0, <1>12, DequeueWakes
  <2>2. CASE l = "send"
    <3>1. There(l)' = There(l) + 1
      BY <1>0, <1>12, <2>2 DEF There
    <3>2. Stay(l)
      BY <1>0, <1>12, <2>2 DEF Stay, call, Leave, CallsOK
    <3> QED BY <2>1, <2>2, <3>1, <3>2, MoreKept
  <2>3. CASE l = "recv"
    <3>1. There(l)' = There(l) - 1
      BY <1>12, <2>3 DEF There
    <3> QED BY <1>0, <1>12, <2>1, <2>3, <3>1, LessKept
  <2> QED BY <2>2, <2>3
<1>13. ASSUME NEW m \in Mails, Post(m) \/ Urgent(m) PROVE Kept(l)
  BY <1>11, <1>13 DEF Post, Put, Urgent
\* A thread sleeps only where there is nothing for it
<1>14. ASSUME NEW t \in Threads, NEW k \in {"recv", "send"}, There(k) = 0, UNCHANGED entry,
              Sleeps(t, k)
       PROVE  Kept(l)
  <2>1. CASE k = l
    BY <1>14, <2>1 DEF Kept, There
  <2>2. CASE k # l
    <3>1. inside[t] # l /\ k \in Lists
      BY <1>14, <2>2 DEF Sleeps, Lists
    <3> QED BY <1>3, <1>14, <2>2, <3>1
  <2> QED BY <2>1, <2>2
<1>15. ASSUME NEW t \in Threads, NEW m \in Mails, Send(t, m) PROVE Kept(l)
  <2>1. CASE entry < Size
    BY <1>11, <1>15, <2>1 DEF Send, Put
  <2>2. CASE ~(entry < Size)
    <3>1. Sleeps(t, "send") /\ UNCHANGED entry /\ There("send") = 0
      BY <1>0, <1>15, <2>2 DEF Send, Idle, Timeout, Sleeps, CallsOK, mb, There
    <3> QED BY <1>14, <3>1
  <2> QED BY <2>1, <2>2
<1>16. ASSUME NEW t \in Threads, Receive(t) PROVE Kept(l)
  <2>1. CASE entry > 0
    BY <1>12, <1>16, <2>1 DEF Receive, Get
  <2>2. CASE ~(entry > 0)
    <3>1. Sleeps(t, "recv") /\ UNCHANGED entry /\ There("recv") = 0
      BY <1>0, <1>16, <2>2 DEF Receive, Idle, Timeout, Sleeps, CallsOK, mb, There
    <3> QED BY <1>14, <3>1
  <2> QED BY <2>1, <2>2
<1>17. ASSUME NEW t \in Threads, NEW k \in {"recv", "send"}, GoesOn(t, k) PROVE Kept(l)
  <2>0. Runs(t) /\ inside[t] = k
    BY <1>17 DEF GoesOn
  <2>1. CASE Ready(t, k) /\ Leave(t) /\ IF k = "send" THEN Put(mail[t]) ELSE Get
    <3>1. CASE k = "send"
      BY <1>11, <2>0, <2>1, <3>1 DEF Put, Ready
    <3>2. CASE k = "recv"
      BY <1>12, <2>0, <2>1, <3>2 DEF Get, Ready
    <3> QED BY <3>1, <3>2
  <2>2. CASE ~Ready(t, k) /\ Leave(t) /\ UNCHANGED <<mb, wait>>
    <3>0. UNCHANGED <<entry, list, error>>
      BY <2>2 DEF mb, wait
    <3>1. CASE error[t] = "EOK" /\ k = l
      <4>1. There(l) = 0
        BY <1>0, <2>2, <3>1 DEF Ready, There
      <4> QED BY <3>0, <4>1 DEF Kept, There
    <3>2. CASE k # l
      <4>1. Stay(l)
        BY <1>0, <2>0, <2>2, <3>2 DEF Stay, Leave, CallsOK
      <4> QED BY <1>2, <3>0, <4>1
    <3>3. CASE error[t] # "EOK"
      <4>1. \A u : Suspended(u)' <=> Suspended(u)
        BY <3>0 DEF Suspended
      <4>2. \A u \in Threads \ {t} : inside'[u] = inside[u]
        BY <1>0, <2>2 DEF Leave, CallsOK
      <4>3. Awake(l)' = Awake(l)
        BY <1>0, <3>0, <3>3, <4>1, <4>2 DEF Awake
      <4> QED BY <3>0, <4>3, SameKept
    <3> QED BY <3>1, <3>2, <3>3
  <2>3. CASE ~Ready(t, k) /\ error[t] = "EOK" /\ UNCHANGED <<limited, mail, mb>>
             /\ Suspend(t, k, "EINTR")
    <3>1. Sleeps(t, k)
      BY <1>0, <2>0, <2>3 DEF Sleeps, CallsOK
    <3>2. There(k) = 0 /\ UNCHANGED entry
      BY <1>0, <2>3 DEF Ready, There, mb
    <3> QED BY <1>14, <3>1, <3>2
  <2> QED BY <1>17, <2>1, <2>2, <2>3 DEF GoesOn
<1>18. ASSUME MailReset PROVE Kept(l)
  <2>1. Empties({"recv", "send"})
    BY <1>0, <1>18, ResetEmpties DEF MailReset
  <2> QED BY <1>0, <2>1 DEF Empties, Kept
<1>19. ~TimedOut
  BY DEF TimedOut
<1> QED BY <1>5, <1>6, <1>7, <1>8, <1>9, <1>10, <1>13, <1>15, <1>16, <1>17, <1>18, <1>19 DEF Next

\* However many threads share the mailbox, a mail stays unnoticed by a receiver that
\* sleeps only when its wake-up met a timer that was going off (ipc.c:2670-2680).
THEOREM MailsAreNoticed == Spec => MailNoticed
<1>1. WaitInv /\ RingInv /\ RingInv' /\ [Next]_vars
        => [Unnoticed("recv", entry)' > Unnoticed("recv", entry) => firing # NoThread]_vars
  <2> SUFFICES ASSUME WaitInv, RingInv, RingInv', Next, firing = NoThread
               PROVE  ~(Unnoticed("recv", entry)' > Unnoticed("recv", entry))
    OBVIOUS
  <2>1. ~(Unnoticed("recv", There("recv"))' > Unnoticed("recv", There("recv")))
    BY NextKeeps, KeptNoticed
  <2> QED BY <2>1 DEF There
<1> QED BY <1>1, WaitInvariant, RingInvariant, PTL DEF Spec, MailNoticed

\* The same of the room a receiver makes (ipc.c:2914-2930, 2950-2960).
THEOREM RoomIsNoticed == Spec => RoomNoticed
<1>1. WaitInv /\ RingInv /\ RingInv' /\ [Next]_vars
        => [Unnoticed("send", Size - entry)' > Unnoticed("send", Size - entry)
              => firing # NoThread]_vars
  <2> SUFFICES ASSUME WaitInv, RingInv, RingInv', Next, firing = NoThread
               PROVE  ~(Unnoticed("send", Size - entry)' > Unnoticed("send", Size - entry))
    OBVIOUS
  <2>1. ~(Unnoticed("send", There("send"))' > Unnoticed("send", There("send")))
    BY NextKeeps, KeptNoticed
  <2> QED BY <2>1 DEF There
<1> QED BY <1>1, WaitInvariant, RingInvariant, PTL DEF Spec, RoomNoticed

\* Both together, as the run checks them.
THEOREM WakeUpsAreNoticed == Spec => WakeUpsNoticed
BY MailsAreNoticed, RoomIsNoticed DEF WakeUpsNoticed

=============================================================================
