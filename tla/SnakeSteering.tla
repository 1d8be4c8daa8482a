---------------------------- MODULE SnakeSteering ----------------------------
(***************************************************************************)
(* Who steers the snake.  now_direction and snake_pressed are shared, with *)
(* no lock, by the snake thread (my_pro/mysnake.c), by the interrupt       *)
(* handlers of the four keys (my_pro/pin_irq_example.c), and by the thread *)
(* of the infrared remote control (my_pro/myinfrared.c).  The threads have *)
(* one priority and a time slice, so every access to a shared variable is  *)
(* a step of its own; an interrupt handler runs as one step.               *)
(*                                                                         *)
(* Of the pages, only what the snake loop tests is kept: whether page 1 is *)
(* chosen, and whether it is frozen.  Pages models who turns and freezes.  *)
(***************************************************************************)
EXTENDS Integers

CONSTANTS Snakes,      \* snake threads: one, or more when `snake` is typed again
          snake_max,   \* 3 * SNAKE_MAX in the code
          MaxKeys,     \* bound on the key events, of both kinds together
          Depth        \* bound: how far below zero snake_pressed is followed

ASSUME SteeringAssumption == /\ snake_max \in Nat /\ snake_max >= 1
                             /\ MaxKeys \in Nat
                             /\ Depth \in Nat \ {0}

VARIABLES
  on_page, frozen,          \* page_chosen == 1; page_stop
  now_direction, snake_pressed,
  pc, turned, aimed,        \* per snake: position, computed turn, x direction read
  ir_pc, ir_key,            \* the remote control's thread and the key it handles
  tmp_is_key,               \* the shared buffer tmp still holds that key's code
  keys,                     \* key events so far
  moved,                    \* history: the last move, as the pair of reads
  steered,                  \* history: a key has stored a direction since then
  asked                     \* history: what a key settled while the snakes slept

page == <<on_page, frozen>>
shared == <<now_direction, snake_pressed>>
snake == <<pc, turned, aimed, moved>>
remote == <<ir_pc, ir_key, tmp_is_key>>
vars == <<page, shared, snake, remote, keys, steered, asked>>

Direction == 0 .. 3        \* up, left, down, right
NoDirection == 4
Opposite(d) == (d + 2) % 4

TypeOK ==
  /\ on_page \in BOOLEAN /\ frozen \in BOOLEAN
  /\ now_direction \in Direction
  /\ snake_pressed \in -Depth .. snake_max + 1
  /\ pc \in [Snakes -> {"gate", "stop", "check", "chance", "turn", "count", "aimx", "aimy"}]
  /\ turned \in [Snakes -> Direction] /\ aimed \in [Snakes -> Direction]
  /\ ir_pc \in {"idle", "press", "compare", "steer"} /\ ir_key \in Direction
  /\ tmp_is_key \in BOOLEAN
  /\ keys \in 0 .. MaxKeys
  /\ moved \in Direction \X Direction
  /\ steered \in BOOLEAN
  /\ asked \in Direction \cup {NoDirection}

-----------------------------------------------------------------------------
(* Slips a maintainer could make, one per definition below. *)
TurnsAnyWay(k) == (now_direction + 2 + k) % 4
CountsOneTooMany(n) == IF n - 2 < -Depth THEN -Depth ELSE n - 2
ForgetsTheTimer == snake_pressed' = snake_pressed
NeverCounts(n) == n
-----------------------------------------------------------------------------

Init ==
  /\ on_page = TRUE /\ frozen = FALSE
  /\ now_direction = 3 /\ snake_pressed = 0
  /\ pc = [s \in Snakes |-> "gate"]
  /\ turned = [s \in Snakes |-> 3] /\ aimed = [s \in Snakes |-> 3]
  /\ ir_pc = "idle" /\ ir_key = 3 /\ tmp_is_key = FALSE
  /\ keys = 0
  /\ moved = <<3, 3>> /\ steered = FALSE /\ asked = NoDirection

-----------------------------------------------------------------------------
(* A snake thread, one iteration of its loop. *)

Goto(s, from, to) == pc[s] = from /\ pc' = [pc EXCEPT ![s] = to]

\* An iteration that does not find page 1 chosen only sleeps: no step.
Gate(s) ==
  /\ on_page
  /\ Goto(s, "gate", "stop")
  /\ UNCHANGED <<page, shared, turned, aimed, moved, remote, keys, steered, asked>>

StopGate(s) ==
  /\ Goto(s, "stop", IF frozen THEN "gate" ELSE "check")
  /\ UNCHANGED <<page, shared, turned, aimed, moved, remote, keys, steered, asked>>

\* From here on the page may be turned or frozen: this move is still made.
Check(s) ==
  /\ Goto(s, "check", IF snake_pressed = 0 THEN "chance" ELSE "count")
  /\ UNCHANGED <<page, shared, turned, aimed, moved, remote, keys, steered, asked>>

\* The random turn: the last one, the next one, or none.
RandomTurn(k) == (now_direction + 3 + k) % 4

\* Half the time the direction is kept; otherwise it is read and turned.
Chance(s) ==
  /\ \/ Goto(s, "chance", "aimx") /\ UNCHANGED turned
     \/ /\ Goto(s, "chance", "turn")
        /\ \E k \in 0 .. 2 : turned' = [turned EXCEPT ![s] = RandomTurn(k)]
  /\ UNCHANGED <<page, shared, aimed, moved, remote, keys, steered, asked>>

StoreTurn(s) ==
  /\ Goto(s, "turn", "aimx")
  /\ now_direction' = turned[s]
  /\ UNCHANGED <<page, snake_pressed, turned, aimed, moved, remote, keys, steered, asked>>

CountedDown(n) == IF n - 1 < -Depth THEN -Depth ELSE n - 1

\* rt_atomic_add is atomic, but the test that led here was made earlier.
Count(s) ==
  /\ Goto(s, "count", "aimx")
  /\ snake_pressed' = CountedDown(snake_pressed)
  /\ UNCHANGED <<page, now_direction, turned, aimed, moved, remote, keys, steered, asked>>

\* The two coordinates of the new head read now_direction one after the other.
AimX(s) ==
  /\ Goto(s, "aimx", "aimy")
  /\ aimed' = [aimed EXCEPT ![s] = now_direction]
  /\ UNCHANGED <<page, shared, turned, moved, remote, keys, steered, asked>>

AimY(s) ==
  /\ Goto(s, "aimy", "gate")
  /\ moved' = <<aimed[s], now_direction>>
  /\ steered' = FALSE /\ asked' = NoDirection
  /\ UNCHANGED <<page, shared, turned, aimed, remote, keys>>

-----------------------------------------------------------------------------
(* The keys. *)

\* No snake has tested the countdown for its next move yet.
BeforeTest == \A s \in Snakes : pc[s] \in {"gate", "stop", "check"}

\* Any key restarts the countdown to random steering.
RestartTimer == snake_pressed' = snake_max + 1

\* A key steers unless it asks for the opposite of the current direction.
Accepted(d) == now_direction # Opposite(d)

\* key_up_callback and its three siblings.
KeyIsr(d) ==
  /\ keys < MaxKeys /\ keys' = keys + 1
  /\ RestartTimer
  /\ now_direction' = IF Accepted(d) THEN d ELSE now_direction
  /\ steered' = TRUE
  /\ asked' = IF BeforeTest /\ ir_pc = "idle" THEN now_direction' ELSE NoDirection
  /\ UNCHANGED <<page, snake, remote>>

\* The remote control: the code of the key is formatted into the shared tmp,
IrReceive(d) ==
  /\ ir_pc = "idle" /\ ir_pc' = "press"
  /\ keys < MaxKeys /\ keys' = keys + 1
  /\ ir_key' = d /\ tmp_is_key' = TRUE
  /\ asked' = NoDirection
  /\ UNCHANGED <<page, shared, snake, steered>>

IrPress ==
  /\ ir_pc = "press" /\ ir_pc' = "compare"
  /\ RestartTimer
  /\ UNCHANGED <<page, now_direction, snake, ir_key, tmp_is_key, keys, steered, asked>>

\* tmp is compared with the codes, and the direction with the opposite one,
IrCompare ==
  /\ ir_pc = "compare"
  /\ ir_pc' = IF tmp_is_key /\ Accepted(ir_key) THEN "steer" ELSE "idle"
  /\ asked' = IF BeforeTest /\ snake_pressed > 0 /\ ir_pc' = "idle" THEN now_direction ELSE NoDirection
  /\ UNCHANGED <<page, shared, snake, ir_key, tmp_is_key, keys, steered>>

\* and the direction stored, whatever it has become since it was compared.
IrSteer ==
  /\ ir_pc = "steer" /\ ir_pc' = "idle"
  /\ now_direction' = ir_key
  /\ steered' = TRUE
  /\ asked' = IF BeforeTest /\ snake_pressed > 0 THEN ir_key ELSE NoDirection
  /\ UNCHANGED <<page, snake_pressed, snake, ir_key, tmp_is_key, keys>>

\* The display thread formats its payload, or the date, into the same tmp.
OverwriteTmp ==
  /\ tmp_is_key /\ tmp_is_key' = FALSE
  /\ UNCHANGED <<page, shared, snake, ir_pc, ir_key, keys, steered, asked>>

-----------------------------------------------------------------------------
(* The page is turned away or back, frozen or thawed. *)

ComeOrGo ==
  /\ \/ on_page' = ~on_page /\ UNCHANGED frozen
     \/ frozen' = ~frozen /\ UNCHANGED on_page
  /\ UNCHANGED <<shared, snake, remote, keys, steered, asked>>

-----------------------------------------------------------------------------
SnakeStep(s) == \/ Gate(s) \/ StopGate(s) \/ Check(s) \/ Chance(s) \/ StoreTurn(s)
                \/ Count(s) \/ AimX(s) \/ AimY(s)
Remote == \/ \E d \in Direction : IrReceive(d)
          \/ IrPress \/ IrCompare \/ IrSteer

Next == \/ \E s \in Snakes : SnakeStep(s)
        \/ \E d \in Direction : KeyIsr(d)
        \/ Remote \/ OverwriteTmp \/ ComeOrGo

Spec == Init /\ [][Next]_vars
\* Equal priorities and time slices: every snake thread keeps running.  Nobody
\* has to show page 1, and a snake may miss every moment at which it is shown.
FairSpec == Spec /\ \A s \in Snakes : WF_vars(SnakeStep(s))
-----------------------------------------------------------------------------
(* Properties. *)

MoveEnds == \E s \in Snakes : pc[s] = "aimy" /\ pc'[s] = "gate"

\* Left alone, the snake never turns back on itself: after a straight move and
\* without a key since, the random turn is at most a quarter turn
\* (mysnake.c:84-85) and both coordinates follow it (94-95).
NoReversalByChance ==
  [][MoveEnds /\ ~steered /\ moved[1] = moved[2]
       => moved'[1] = moved'[2] /\ moved'[1] # Opposite(moved[1])]_vars

\* A key whose handling ended before the snake tested the countdown for its next
\* move, the countdown running, decides that move, whenever the page is left and
\* shown again in between: the countdown keeps the random turn off
\* (mysnake.c:62, 79, pin_irq_example.c:19-20, myinfrared.c:30-46).
SettledKeyDecides ==
  [][MoveEnds /\ asked # NoDirection => moved' = <<asked, asked>>]_vars

\* The countdown is never overrun: with one snake thread it stays at or above
\* zero although it is tested and decremented in two steps (mysnake.c:79, 90).
CountdownInRange == snake_pressed \in 0 .. snake_max + 1

\* When page 1 stays on show and runs, and the keys rest, random steering comes
\* back and stays: the countdown is at zero for good (mysnake.c:62, 78-90).  On
\* another page, or a frozen one, it does not count down.
ChanceReturns == <>[](on_page /\ ~frozen) => <>[](snake_pressed = 0)
=============================================================================
