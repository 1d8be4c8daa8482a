------------------------------ MODULE PageFlags ------------------------------
(***************************************************************************)
(* The three flags that say which page has the screen, and the threads     *)
(* that use them: the snake thread draws page 1 (my_pro/mysnake.c:60-138), *)
(* the display thread the others in turn (tmp_payload of                   *)
(* my_pro/myproject.c), the thread of the remote control turns the page    *)
(* and freezes it (my_pro/myinfrared.c:47-79), and a hand over the         *)
(* proximity sensor makes the display thread turn it too.  The flags have  *)
(* no lock: a step is one access to a flag.  What is drawn between the     *)
(* accesses is left to the modules that extend this one, Pages and         *)
(* SnakeGame.                                                              *)
(***************************************************************************)
EXTENDS Integers

CONSTANTS PAGE_MAX,    \* 4
          MaxInputs    \* bound on key presses and waves together

ASSUME PagesAssumption == PAGE_MAX \in Nat /\ PAGE_MAX >= 2 /\ MaxInputs \in Nat

VARIABLES
  page_chosen,   \* the page on show
  page_first,    \* 1: it was just switched to and wants its background
  page_stop,     \* 1: frozen
  pc, at,        \* per thread: position, and the page a drawer is at
  turn,          \* per thread: the page number computed but not stored yet, or 1
  inputs         \* key presses and waves so far

flags == <<page_chosen, page_first, page_stop>>
threads == <<pc, at, turn>>

Drawer == {"snake", "display"}
Turner == {"display", "remote"}
Thread == Drawer \cup Turner
Page == 1 .. PAGE_MAX

\* The positions are those of the extending module.
FlagsOK ==
  /\ page_chosen \in Page /\ page_first \in {0, 1} /\ page_stop \in {0, 1}
  /\ at \in [Drawer -> Page] /\ turn \in [Turner -> Page]
  /\ inputs \in 0 .. MaxInputs

-----------------------------------------------------------------------------
(* Slips a maintainer could make, one per definition below. *)
IgnoresTheFreeze(t) == TRUE
GatesOnLaterPages(t) == page_chosen >= at[t]
-----------------------------------------------------------------------------

FlagsInit ==
  /\ page_chosen = 1 /\ page_first = 1 /\ page_stop = 0
  /\ pc = [t \in Thread |-> IF t = "remote" THEN "idle" ELSE "gate"]
  /\ at = [t \in Drawer |-> IF t = "snake" THEN 1 ELSE 2]
  /\ turn = [t \in Turner |-> 1]
  /\ inputs = 0

Goto(t, from, to) == pc[t] = from /\ pc' = [pc EXCEPT ![t] = to]

-----------------------------------------------------------------------------
(* A drawer at its page: two gates, then the redisplay and the content. *)

\* The snake loop has one page; the display loop takes the others in order,
\* then looks at the proximity sensor.
Leave(t, from) ==
  IF t = "display" /\ at[t] < PAGE_MAX
    THEN Goto(t, from, "gate") /\ at' = [at EXCEPT ![t] = @ + 1]
    ELSE /\ Goto(t, from, IF t = "snake" THEN "gate" ELSE "wave")
         /\ at' = [at EXCEPT ![t] = IF t = "snake" THEN 1 ELSE 2]

OnPage(t) == page_chosen = at[t]
Gate(t) ==
  /\ \/ OnPage(t) /\ Goto(t, "gate", "stop") /\ UNCHANGED at
     \/ ~OnPage(t) /\ Leave(t, "gate")
  /\ UNCHANGED <<flags, turn, inputs>>

Running(t) == page_stop = 0
StopGate(t) ==
  /\ \/ Running(t) /\ Goto(t, "stop", "first") /\ UNCHANGED at
     \/ ~Running(t) /\ Leave(t, "stop")
  /\ UNCHANGED <<flags, turn, inputs>>

\* The snake clears page_first before it paints, the display thread after.
First(t) ==
  /\ Goto(t, "first", CASE page_first = 0 -> "content"
                        [] page_first = 1 /\ t = "snake" -> "clear"
                        [] page_first = 1 /\ t = "display" -> "paint")
  /\ UNCHANGED <<flags, at, turn, inputs>>

Cleared(t) == 0
Clear(t) ==
  /\ Goto(t, "clear", IF t = "snake" THEN "paint" ELSE "content")
  /\ page_first' = Cleared(t)
  /\ UNCHANGED <<page_chosen, page_stop, at, turn, inputs>>

\* From gate to gate without a drawing.
PassGates(t) == Gate(t) \/ StopGate(t) \/ First(t) \/ Clear(t)

\* The background is painted, and the thread goes on to `next`.
Painted(t, next) == Goto(t, "paint", next) /\ UNCHANGED <<flags, at, turn, inputs>>

\* The content is drawn: the page's turn in the loop ends.
Drawn(t) == pc[t] = "content" /\ Leave(t, "content") /\ UNCHANGED <<flags, turn, inputs>>

-----------------------------------------------------------------------------
(* Turning the page takes a read, a store and a second store. *)

NextPage(p) == (p % PAGE_MAX) + 1

ReadPage(t, from) ==
  /\ inputs < MaxInputs /\ inputs' = inputs + 1
  /\ Goto(t, from, "turn")
  /\ turn' = [turn EXCEPT ![t] = NextPage(page_chosen)]
  /\ UNCHANGED <<flags, at>>

StorePage(t) ==
  /\ Goto(t, "turn", "flag")
  /\ page_chosen' = turn[t]
  /\ turn' = [turn EXCEPT ![t] = 1]
  /\ UNCHANGED <<page_first, page_stop, at, inputs>>

AskRedisplay(t) ==
  /\ Goto(t, "flag", IF t = "remote" THEN "idle" ELSE "gate")
  /\ page_first' = 1
  /\ UNCHANGED <<page_chosen, page_stop, at, turn, inputs>>

TurnPage(t) == StorePage(t) \/ AskRedisplay(t)

\* ps_data > 1022, or not: no hand, and the loop starts again.
Wave == ReadPage("display", "wave")
NoWave == Goto("display", "wave", "gate") /\ UNCHANGED <<flags, at, turn, inputs>>

MenuKey == ReadPage("remote", "idle")

\* The OK key freezes and thaws, except that on page 4 a running page keeps
\* running (there it switches MQTT).
ToggleStop(next) ==
  /\ page_stop = 1 \/ page_chosen # 4
  /\ inputs < MaxInputs /\ inputs' = inputs + 1
  /\ Goto("remote", "idle", next)
  /\ page_stop' = 1 - page_stop
  /\ UNCHANGED <<page_chosen, page_first, at, turn>>
=============================================================================
