----------------------------- MODULE SnakeRules -----------------------------
(***************************************************************************)
(* What the snake game promises, without the ring buffer, the screen and   *)
(* the pages: the snake is a queue of cells, tail first.  A step puts one  *)
(* cell in front of the head; the tail stays only when a fruit is eaten by *)
(* a snake still shorter than SNAKE_MAX - 1 cells.                         *)
(***************************************************************************)
EXTENDS SnakeBoard, Sequences

CONSTANTS Steers,      \* the (x read, y read) direction pairs a step may use
          FoodCells    \* where fruit may appear

VARIABLES body, food

HeadCell == body[Len(body)]

Init == body = StartBody /\ food \in FoodCells

Creep(c) == /\ c # food
            /\ body' = Append(Tail(body), c)
            /\ UNCHANGED food

Grow(c) == /\ c = food
           /\ body' = IF Len(body) < SNAKE_MAX - 1 THEN Append(body, c)
                                                   ELSE Append(Tail(body), c)
           /\ food' \in FoodCells

Step == \E s \in Steers : LET c == NewHead(HeadCell, s[1], s[2]) IN Creep(c) \/ Grow(c)

Spec == Init /\ [][Step]_<<body, food>>
=============================================================================
