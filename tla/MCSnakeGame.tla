---------------------------- MODULE MCSnakeGame ----------------------------
(* A board for TLC.  The snake starts with its head in column 3; up and     *)
(* down lead it round that column and, since nothing keeps two keys from    *)
(* reversing it, back over itself.  The fruit is in that column, so that    *)
(* it eats, and eats with a full ring, early.                               *)
EXTENDS SnakeGame, FiniteSets

MCUpDown == {<<0, 0>>, <<2, 2>>}
MCFood == {<<3, 1>>}

\* A bound: the snake reverses only when it has grown, and once at a time.
FoldsOnce == Cardinality(BodyCells) >= 3

\* What a later step or a property can tell apart: slots that are not live, the
\* slot painted last outside a redisplay, and the screen once another thread has
\* drawn are written before they are read, and of a colour only WHITE matters.
\* TLC puts a state away as it was evaluated, which Evaluated makes it do.
Evaluated == screen = screen /\ snake_list = snake_list
View == <<pages, snake_head, snake_tail, Body, snake_food, snake_len, alone,
          IF pc["snake"] = "redraw" THEN snake_now ELSE 0,
          {c \in Cell : alone /\ screen[c] # "WHITE"}, Evaluated>>
=============================================================================
