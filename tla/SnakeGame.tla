------------------------------ MODULE SnakeGame ------------------------------
(***************************************************************************)
(* The snake thread, snake_entry of my_pro/mysnake.c: the body kept in a   *)
(* ring of SNAKE_MAX slots of snake_list, the fruit, the length that is    *)
(* counted apart from the ring, and the cells painted incrementally on a   *)
(* screen that other pages share.                                          *)
(*                                                                         *)
(* The page flags and the threads that use them are those of PageFlags,    *)
(* one access to a flag a step; this module adds what the snake thread     *)
(* does between them and what its drawings leave of the screen.  The       *)
(* direction of a move is an input here (a pair of reads from Steers):     *)
(* SnakeSteering models where it comes from.  The texts drawn over the     *)
(* board (direction, coordinates, length, "Stop") are left out.            *)
(***************************************************************************)
EXTENDS SnakeBoard, PageFlags, Sequences

CONSTANTS Steers,      \* pairs of directions, as read for x and for y
          FoodCells,   \* the outcomes of the two rand() % SNAKE_MAX
          MaxLen       \* bound on snake_len, an int the code never stops counting

ASSUME GameAssumption == /\ Steers \subseteq Direction \X Direction
                         /\ FoodCells \subseteq Cell
                         /\ MaxLen \in Nat

VARIABLES
  snake_list,   \* the ring: a cell per slot
  snake_head, snake_tail,   \* the slots of the two ends
  snake_now,    \* the slot the redraw loop painted last
  snake_food,   \* the fruit's cell
  snake_len,    \* the length shown to the player and uploaded
  screen,       \* the colour of every cell
  alone         \* history: since it last cleared the screen, only the snake drew

pages == <<flags, threads, inputs>>
ring == <<snake_list, snake_head, snake_tail>>
game == <<ring, snake_now, snake_food, snake_len>>
picture == <<screen, alone>>
vars == <<pages, game, picture>>

Slot == 0 .. SNAKE_MAX - 1
Positions == {"gate", "stop", "first", "clear", "paint", "fruit", "redraw", "content",
              "wave", "idle", "turn", "flag"}
Colour == {"WHITE", "BLACK", "GREEN", "OTHER"}   \* OTHER: pixels of another page

TypeOK ==
  /\ FlagsOK
  /\ pc \in [Thread -> Positions]
  /\ snake_list \in [Slot -> Cell]
  /\ snake_head \in Slot /\ snake_tail \in Slot
  /\ snake_now \in -1 .. SNAKE_MAX - 1
  /\ snake_food \in Cell
  /\ snake_len \in Nat
  /\ screen \in [Cell -> Colour]
  /\ alone \in BOOLEAN

-----------------------------------------------------------------------------
(* Slips a maintainer could make, one per definition below; each breaks    *)
(* the property that PROJECT.json names with it.                           *)
GrowsToWholeRing(len) == len > SNAKE_MAX
StopsPastTheHead(i) == i = snake_head + 1
LeavesTailPainted(scr) == scr
StoresBeforeAdvancing(new) ==
  /\ snake_list' = [snake_list EXCEPT ![snake_head] = new]
  /\ snake_head' = (snake_head + 1) % SNAKE_MAX
-----------------------------------------------------------------------------

NextSlot(i) == (i + 1) % SNAKE_MAX

\* The slots in use, counted from tail to head.
RingLength == IF snake_head >= snake_tail THEN snake_head - snake_tail + 1
                                          ELSE snake_head - snake_tail + 1 + SNAKE_MAX
LiveSlots == IF snake_head >= snake_tail THEN snake_tail .. snake_head
                                         ELSE Slot \ (snake_head + 1 .. snake_tail - 1)
BodyCells == {snake_list[i] : i \in LiveSlots}

Init ==
  /\ FlagsInit
  /\ snake_list = [i \in Slot |-> IF i <= 2 THEN StartBody[i + 1] ELSE <<0, 0>>]
  /\ snake_head = 2 /\ snake_tail = 0 /\ snake_now = 0
  /\ snake_food \in FoodCells
  /\ snake_len = 3
  /\ screen = [c \in Cell |-> "OTHER"] /\ alone = FALSE

-----------------------------------------------------------------------------
(* The snake thread.  A page just switched to is cleared, the fruit is     *)
(* painted and the body redrawn from tail to head.                         *)

Fill ==
  /\ Painted("snake", "fruit")
  /\ screen' = [c \in Cell |-> "WHITE"] /\ alone' = TRUE
  /\ UNCHANGED game

PaintFruit ==
  /\ Goto("snake", "fruit", "redraw")
  /\ screen' = [screen EXCEPT ![snake_food] = "GREEN"]
  /\ snake_now' = snake_tail - 1
  /\ UNCHANGED <<flags, at, turn, inputs, ring, snake_food, snake_len, alone>>

RedrawDone(i) == i = snake_head

\* One turn of the do-while loop that repaints the body.
Redraw ==
  /\ snake_now' = NextSlot(snake_now)
  /\ Goto("snake", "redraw", IF RedrawDone(snake_now') THEN "content" ELSE "redraw")
  /\ screen' = [screen EXCEPT ![snake_list[snake_now']] = "BLACK"]
  /\ UNCHANGED <<flags, at, turn, inputs, ring, snake_food, snake_len, alone>>

TailMovesOnEating(len) == len >= SNAKE_MAX

\* The tail cell is whitened, whatever else is on it, when a full snake eats.
EatErases(scr, len) ==
  IF TailMovesOnEating(len) THEN [scr EXCEPT ![snake_list[snake_tail]] = "WHITE"] ELSE scr

\* A snake that just moves leaves its tail cell white, but spares a fruit there.
CreepErases(scr) ==
  IF snake_list[snake_tail] = snake_food THEN scr
  ELSE [scr EXCEPT ![snake_list[snake_tail]] = "WHITE"]

Eat(new) ==
  /\ new = snake_food
  /\ snake_len < MaxLen
  /\ snake_len' = snake_len + 1
  /\ snake_food' \in FoodCells
  /\ screen' = EatErases([screen EXCEPT ![new] = "BLACK", ![snake_food'] = "GREEN"],
                         snake_len')
  /\ snake_tail' = IF TailMovesOnEating(snake_len') THEN NextSlot(snake_tail)
                                                    ELSE snake_tail

Creep(new) ==
  /\ new # snake_food
  /\ screen' = CreepErases([screen EXCEPT ![new] = "BLACK"])
  /\ snake_tail' = NextSlot(snake_tail)
  /\ UNCHANGED <<snake_food, snake_len>>

PushHead(new) ==
  /\ snake_head' = NextSlot(snake_head)
  /\ snake_list' = [snake_list EXCEPT ![snake_head'] = new]

\* One step: no other thread uses the ring, and what another thread draws
\* between two paintings of a move ends `alone` all the same.
Move(s) ==
  LET new == NewHead(snake_list[snake_head], s[1], s[2])
  IN  /\ Drawn("snake")
      /\ Eat(new) \/ Creep(new)
      /\ PushHead(new)
      /\ UNCHANGED <<snake_now, alone>>

-----------------------------------------------------------------------------
(* The other threads.  Whatever page the display thread was at when it     *)
(* passed its gates, its drawing covers cells of the board.                *)

DrawOther ==
  /\ Painted("display", "clear") \/ Drawn("display")
  /\ screen' = [c \in Cell |-> "OTHER"] /\ alone' = FALSE
  /\ UNCHANGED game

DisplayQuiet == PassGates("display") \/ TurnPage("display") \/ Wave \/ NoWave
RemoteControl == MenuKey \/ TurnPage("remote") \/ ToggleStop("idle")

Snake == \/ PassGates("snake") /\ UNCHANGED <<game, picture>>
         \/ Fill \/ PaintFruit \/ Redraw
         \/ \E s \in Steers : Move(s)
Others == \/ DrawOther
          \/ (DisplayQuiet \/ RemoteControl) /\ UNCHANGED <<game, picture>>
Next == Snake \/ Others

Spec == Init /\ [][Next]_vars
FairSpec == Spec /\ WF_vars(Snake)
-----------------------------------------------------------------------------
(* Properties. *)

\* The ring's two indices and the length counted apart from them agree: the
\* ring holds snake_len cells until it is full but for one slot, and never
\* catches its own tail (mysnake.c:112-117).
RingHoldsTheSnake ==
  RingLength = IF snake_len < SNAKE_MAX THEN snake_len ELSE SNAKE_MAX - 1

\* Consecutive live slots are neighbouring cells of the torus, across every
\* wrap of the ring and of the board (mysnake.c:94-95, 116, 130, 133).
BodyIsConnected ==
  \A i \in LiveSlots \ {snake_head} :
    \E d \in Direction : snake_list[NextSlot(i)] = NewHead(snake_list[i], d, d)

\* The incremental painting leaves nothing behind: as long as only the snake
\* has drawn since it cleared the screen, a cell that is not white is under the
\* body or holds the fruit, in the middle of a redisplay too (mysnake.c:69-76,
\* 100-131).  Of the page on show in general the code does not promise it: the
\* display thread may still draw another page, or clear page_first for one,
\* after the page was turned (PageOnItsBackground of Pages).
NoGhostCells ==
  alone => \A c \in Cell : screen[c] # "WHITE" => c \in BodyCells \cup {snake_food}

\* A redisplay that was begun ends in a move, whatever the remote control
\* does meanwhile: the do-while loop reaches the head from any tail
\* (mysnake.c:72-76, where snake_now starts at snake_tail - 1).
RedrawEnds == pc["snake"] = "redraw" ~> pc["snake"] = "content"

\* The ring implements the queue of SnakeRules: its live slots read from tail
\* to head.
Body == [i \in 1 .. RingLength |-> snake_list[(snake_tail + i - 1) % SNAKE_MAX]]
Rules == INSTANCE SnakeRules WITH body <- Body, food <- snake_food
QueueRefinement == Rules!Spec
=============================================================================
