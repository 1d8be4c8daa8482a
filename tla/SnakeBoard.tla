----------------------------- MODULE SnakeBoard -----------------------------
(***************************************************************************)
(* The torus the snake of my_pro/mysnake.c lives on: SNAKE_MAX by          *)
(* SNAKE_MAX cells, the four directions and the cell a head moves to.      *)
(***************************************************************************)
EXTENDS Integers

CONSTANT SNAKE_MAX   \* LCD_MAX / SNAKE_SIZE: 6 on the board

\* Three cells in a row fit, and a snake of three is below the length limit.
ASSUME BoardAssumption == SNAKE_MAX \in Nat /\ SNAKE_MAX >= 4

Coord == 0 .. SNAKE_MAX - 1
Cell == Coord \X Coord

Direction == 0 .. 3        \* up, left, down, right
SnakeDirection == [d \in Direction |->
                     CASE d = 0 -> <<0, -1>> [] d = 1 -> <<-1, 0>>
                       [] d = 2 -> <<0, 1>>  [] d = 3 -> <<1, 0>>]
Opposite(d) == (d + 2) % 4

Wrap(c) == (c + SNAKE_MAX) % SNAKE_MAX

(* The next head cell.  The code reads the direction once for the x and    *)
(* once for the y coordinate, so the two reads are two arguments.          *)
NewHead(cell, dx, dy) ==
  <<Wrap(cell[1] + SnakeDirection[dx][1]), Wrap(cell[2] + SnakeDirection[dy][2])>>

\* The three cells the game starts with, tail first.
StartBody == LET m == SNAKE_MAX \div 2
             IN  <<<<m - 1, m>>, <<m, m>>, <<m + 1, m>>>>
=============================================================================
