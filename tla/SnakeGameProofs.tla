--------------------------- MODULE SnakeGameProofs ---------------------------
(***************************************************************************)
(* Proofs about SnakeGame for every board of at least four cells a side,   *)
(* every set of steers and fruit cells and every bound on the length.      *)
(***************************************************************************)
EXTENDS SnakeGame, SequenceTheorems, TLAPS

\* The ring's successor without the modulus (mysnake.c:74, 116, 130, 133).
LEMMA NextSlotValue ==
  \A i \in -1 .. SNAKE_MAX - 1 :
    NextSlot(i) = IF i = SNAKE_MAX - 1 THEN 0 ELSE i + 1
BY BoardAssumption, Z3 DEF NextSlot

\* A coordinate that is one off the board comes back on it (mysnake.c:94-95).
LEMMA WrapOnBoard == \A c \in Int : Wrap(c) \in Coord
BY BoardAssumption, Z3 DEF Wrap, Coord

LEMMA DeltaType ==
  \A d \in Direction : SnakeDirection[d][1] \in Int /\ SnakeDirection[d][2] \in Int
<1> TAKE d \in Direction
<1>1. d = 0 \/ d = 1 \/ d = 2 \/ d = 3
  BY DEF Direction
<1>2. SnakeDirection[d] = (CASE d = 0 -> <<0, -1>> [] d = 1 -> <<-1, 0>>
                             [] d = 2 -> <<0, 1>>  [] d = 3 -> <<1, 0>>)
  BY DEF SnakeDirection
<1>3. CASE d = 0  BY <1>2, <1>3
<1>4. CASE d = 1  BY <1>2, <1>4
<1>5. CASE d = 2  BY <1>2, <1>5
<1>6. CASE d = 3  BY <1>2, <1>6
<1> QED BY <1>1, <1>3, <1>4, <1>5, <1>6

\* The next head cell is on the board, even from a torn pair of directions.
LEMMA NewHeadType ==
  \A c \in Cell, s \in Direction \X Direction : NewHead(c, s[1], s[2]) \in Cell
<1> TAKE c \in Cell, s \in Direction \X Direction
<1>1. c[1] \in Int /\ c[2] \in Int
  BY BoardAssumption DEF Cell, Coord
<1>2. /\ c[1] + SnakeDirection[s[1]][1] \in Int
      /\ c[2] + SnakeDirection[s[2]][2] \in Int
  BY <1>1, DeltaType
<1> QED BY <1>2, WrapOnBoard DEF NewHead, Cell

LEMMA StartBodyType == \A i \in 1 .. 3 : StartBody[i] \in Cell
<1> DEFINE m == SNAKE_MAX \div 2
<1>1. m \in Coord /\ m - 1 \in Coord /\ m + 1 \in Coord
  BY BoardAssumption, Z3 DEF Coord
<1> HIDE DEF m
<1>2. StartBody = <<<<m - 1, m>>, <<m, m>>, <<m + 1, m>>>>
  BY DEF StartBody, m
<1> QED BY <1>1, <1>2 DEF Cell

-----------------------------------------------------------------------------
(* Every action keeps the types. *)

LEMMA NextPageType == \A p \in Page : NextPage(p) \in Page
BY PagesAssumption, Z3 DEF NextPage, Page

DrawerPositions == {"gate", "wave", "stop", "first", "clear", "paint", "content"}

\* A drawer stays among the pages there are.
LEMMA LeaveType ==
  ASSUME NEW t \in Drawer, NEW from, Leave(t, from), at \in [Drawer -> Page]
  PROVE  at' \in [Drawer -> Page]
<1> USE PagesAssumption
<1>1. at[t] \in Nat /\ at[t] >= 1 /\ 1 \in Page /\ 2 \in Page
  BY DEF Page
<1>2. CASE t = "display" /\ at[t] < PAGE_MAX
  <2>1. at[t] + 1 \in Page /\ at' = [at EXCEPT ![t] = at[t] + 1]
    BY <1>1, <1>2 DEF Leave, Page
  <2> QED BY <2>1
<1>3. CASE ~(t = "display" /\ at[t] < PAGE_MAX)
  <2>1. at' = [at EXCEPT ![t] = 1] \/ at' = [at EXCEPT ![t] = 2]
    BY <1>3 DEF Leave
  <2> QED BY <1>1, <2>1
<1> QED BY <1>2, <1>3

\* A drawer on its way from gate to gate moves nothing but itself.
LEMMA PassKeepsFlags ==
  ASSUME FlagsOK, NEW t \in Drawer, PassGates(t)
  PROVE  FlagsOK' /\ \E to \in DrawerPositions : pc' = [pc EXCEPT ![t] = to]
<1> USE PagesAssumption
<1>1. UNCHANGED <<page_chosen, page_stop, turn, inputs>> /\ page_first' \in {0, 1}
  BY DEF PassGates, Gate, StopGate, First, Clear, Cleared, flags, FlagsOK
<1>2. \E to \in DrawerPositions : pc' = [pc EXCEPT ![t] = to]
  <2>1. CASE First(t)
    <3>1. (page_first = 0 \/ page_first = 1) /\ (t = "snake" \/ t = "display")
      BY DEF FlagsOK, Drawer
    <3>2. CASE page_first = 0
      BY <2>1, <3>2 DEF First, Goto, DrawerPositions
    <3>3. CASE page_first = 1 /\ t = "snake"
      BY <2>1, <3>3 DEF First, Goto, DrawerPositions
    <3>4. CASE page_first = 1 /\ t = "display"
      BY <2>1, <3>4 DEF First, Goto, DrawerPositions
    <3> QED BY <3>1, <3>2, <3>3, <3>4
  <2>2. CASE Gate(t) \/ StopGate(t) \/ Clear(t)
    BY <2>2 DEF Gate, StopGate, Clear, Goto, Leave, DrawerPositions
  <2> QED BY <2>1, <2>2 DEF PassGates
<1>3. at' = at \/ \E from : Leave(t, from)
  BY DEF PassGates, Gate, StopGate, First, Clear
<1>4. at' \in [Drawer -> Page]
  BY <1>3, LeaveType DEF FlagsOK
<1> QED BY <1>1, <1>2, <1>4 DEF FlagsOK

\* Turning the page moves only the thread that turns it.
LEMMA TurnKeepsFlags ==
  ASSUME FlagsOK, NEW t \in Turner, NEW from, TurnPage(t) \/ ReadPage(t, from)
  PROVE  FlagsOK' /\ \E to \in {"turn", "flag", "idle", "gate"} : pc' = [pc EXCEPT ![t] = to]
<1> USE PagesAssumption
<1>1. \E to \in {"turn", "flag", "idle", "gate"} : pc' = [pc EXCEPT ![t] = to]
  BY DEF TurnPage, StorePage, AskRedisplay, ReadPage, Goto
<1>2. NextPage(page_chosen) \in Page /\ turn[t] \in Page /\ 1 \in Page
  BY NextPageType DEF FlagsOK, Page
<1>3. FlagsOK'
  BY <1>2 DEF TurnPage, StorePage, AskRedisplay, ReadPage, FlagsOK, flags
<1> QED BY <1>1, <1>3

\* What the threads other than the snake's do: they leave the game alone, and
\* the picture unless the display thread draws on it.
LEMMA OthersStep ==
  ASSUME TypeOK, Others
  PROVE  /\ FlagsOK' /\ UNCHANGED game
         /\ pc' \in [Thread -> Positions] /\ pc'["snake"] = pc["snake"]
         /\ UNCHANGED picture \/ (alone' = FALSE /\ screen' = [c \in Cell |-> "OTHER"])
<1> USE PagesAssumption
<1>1. "display" \in Drawer /\ "display" \in Turner /\ "remote" \in Turner
  BY DEF Drawer, Turner
<1>2. FlagsOK' /\ \E t \in {"display", "remote"}, to \in Positions : pc' = [pc EXCEPT ![t] = to]
  <2>1. CASE DrawOther
    <3>1. CASE Painted("display", "clear")
      BY <2>1, <3>1 DEF DrawOther, Painted, Goto, flags, TypeOK, FlagsOK, Positions
    <3>2. CASE Drawn("display")
      <4>1. at' \in [Drawer -> Page]
        BY <1>1, <3>2, LeaveType DEF Drawn, TypeOK, FlagsOK
      <4>2. \E to \in {"gate", "wave"} : pc' = [pc EXCEPT !["display"] = to]
        BY <3>2 DEF Drawn, Leave, Goto
      <4> QED BY <3>2, <4>1, <4>2 DEF Drawn, flags, TypeOK, FlagsOK, Positions
    <3> QED BY <2>1, <3>1, <3>2 DEF DrawOther
  <2>2. CASE PassGates("display")
    BY <1>1, <2>2, PassKeepsFlags DEF TypeOK, DrawerPositions, Positions
  <2>3. ASSUME NEW t \in Turner, NEW from, TurnPage(t) \/ ReadPage(t, from)
        PROVE  FlagsOK' /\ \E to \in Positions : pc' = [pc EXCEPT ![t] = to]
    BY <2>3, TurnKeepsFlags DEF TypeOK, Positions
  <2>4. CASE NoWave
    BY <2>4 DEF NoWave, Goto, flags, TypeOK, FlagsOK, Positions
  <2>5. CASE ToggleStop("idle")
    BY <2>5 DEF ToggleStop, Goto, TypeOK, FlagsOK, Positions
  <2> QED BY <1>1, <2>1, <2>2, <2>3, <2>4, <2>5
          DEF Others, DisplayQuiet, RemoteControl, Wave, MenuKey, Turner
<1>3. pc \in [Thread -> Positions] /\ "snake" \in Thread
  BY DEF TypeOK, Thread, Drawer
<1>4. pc' \in [Thread -> Positions] /\ pc'["snake"] = pc["snake"]
  BY <1>2, <1>3
<1>5. UNCHANGED game /\ (UNCHANGED picture \/ (alone' = FALSE /\ screen' = [c \in Cell |-> "OTHER"]))
  BY DEF Others, DrawOther
<1> QED BY <1>2, <1>4, <1>5

\* Every reachable state of the snake thread is well typed: in particular no
\* slot beyond the ring and no cell off the board is ever used.
THEOREM TypeCorrect == Spec => []TypeOK
<1> USE PagesAssumption
<1>1. Init => TypeOK
  <2> SUFFICES ASSUME Init PROVE TypeOK
    OBVIOUS
  <2>1. snake_list \in [Slot -> Cell]
    <3>1. \A i \in Slot : (IF i <= 2 THEN StartBody[i + 1] ELSE <<0, 0>>) \in Cell
      BY StartBodyType, BoardAssumption DEF Slot, Cell, Coord
    <3> QED BY <3>1 DEF Init
  <2>2. snake_head \in Slot /\ snake_tail \in Slot /\ snake_now \in -1 .. SNAKE_MAX - 1
    BY BoardAssumption DEF Init, Slot
  <2>3. FlagsOK
    <3>1. 1 \in Page /\ 2 \in Page
      BY DEF Page
    <3> QED BY <3>1 DEF Init, FlagsInit, FlagsOK
  <2>4. pc \in [Thread -> Positions]
    BY DEF Init, FlagsInit, Positions
  <2>5. alone \in BOOLEAN
    BY DEF Init
  <2> QED BY <2>1, <2>2, <2>3, <2>4, <2>5, GameAssumption DEF Init, TypeOK, Colour
<1>2. TypeOK /\ [Next]_vars => TypeOK'
  <2> SUFFICES ASSUME TypeOK, [Next]_vars PROVE TypeOK'
    OBVIOUS
  <2>0. /\ "snake" \in Drawer /\ "snake" \in Thread /\ pc \in [Thread -> Positions]
        /\ FlagsOK /\ alone \in BOOLEAN
    BY DEF Drawer, Thread, TypeOK
  <2>1. CASE PassGates("snake") /\ UNCHANGED <<game, picture>>
    <3>1. FlagsOK' /\ \E to \in DrawerPositions : pc' = [pc EXCEPT !["snake"] = to]
      BY <2>0, <2>1, PassKeepsFlags
    <3>2. pc' \in [Thread -> Positions]
      BY <2>0, <3>1 DEF DrawerPositions, Positions
    <3> QED BY <2>1, <3>1, <3>2 DEF TypeOK, game, ring, picture
  <2>2. CASE Fill
    <3>1. alone' \in BOOLEAN
      BY <2>2 DEF Fill
    <3>2. UNCHANGED <<flags, at, turn, inputs>> /\ pc' = [pc EXCEPT !["snake"] = "fruit"]
      BY <2>2 DEF Fill, Painted, Goto
    <3>3. FlagsOK' /\ pc' \in [Thread -> Positions]
      BY <2>0, <3>2 DEF FlagsOK, flags, Positions
    <3> QED BY <2>2, <3>1, <3>3 DEF Fill, game, ring, TypeOK, Colour
  <2>3. CASE PaintFruit
    <3>1. FlagsOK' /\ pc' \in [Thread -> Positions] /\ alone' \in BOOLEAN
      <4>1. alone' \in BOOLEAN
        BY <2>0, <2>3 DEF PaintFruit
      <4> QED BY <2>0, <2>3, <4>1 DEF PaintFruit, Goto, FlagsOK, flags, Positions
    <3>2. snake_tail - 1 \in -1 .. SNAKE_MAX - 1
      BY BoardAssumption DEF TypeOK, Slot
    <3> QED BY <2>3, <3>1, <3>2 DEF PaintFruit, TypeOK, ring, Colour
  <2>4. CASE Redraw
    <3>1. FlagsOK' /\ pc' \in [Thread -> Positions] /\ alone' \in BOOLEAN
      <4>1. alone' \in BOOLEAN
        BY <2>0, <2>4 DEF Redraw
      <4> QED BY <2>0, <2>4, <4>1 DEF Redraw, Goto, FlagsOK, flags, Positions
    <3>2. snake_now' \in Slot
      BY <2>4, NextSlotValue, BoardAssumption DEF Redraw, TypeOK, Slot
    <3>3. snake_now' \in -1 .. SNAKE_MAX - 1
      BY <3>2, BoardAssumption DEF Slot
    <3>4. screen' \in [Cell -> Colour]
      BY <2>4, <3>2 DEF Redraw, TypeOK, Colour
    <3> QED BY <2>4, <3>1, <3>3, <3>4 DEF Redraw, TypeOK, ring
  <2>5. ASSUME NEW s \in Steers, Move(s) PROVE TypeOK'
    <3> DEFINE new == NewHead(snake_list[snake_head], s[1], s[2])
    <3>1. new \in Cell
      BY NewHeadType, GameAssumption DEF TypeOK
    <3>2. /\ Drawn("snake") /\ (Eat(new) \/ Creep(new)) /\ PushHead(new)
          /\ snake_now' = snake_now /\ alone' = alone
      BY <2>5 DEF Move
    <3> HIDE DEF new
    <3>3. NextSlot(snake_head) \in Slot /\ NextSlot(snake_tail) \in Slot
      BY NextSlotValue, BoardAssumption DEF TypeOK, Slot
    <3>4. snake_head' \in Slot /\ snake_list' \in [Slot -> Cell]
      BY <3>1, <3>2, <3>3 DEF PushHead, TypeOK
    <3>5. /\ snake_tail' \in Slot /\ snake_len' \in Nat
          /\ snake_food' \in Cell /\ screen' \in [Cell -> Colour]
      <4>1. CASE Eat(new)
        BY <4>1, <3>3, GameAssumption
           DEF Eat, EatErases, TailMovesOnEating, TypeOK, Colour
      <4>2. CASE Creep(new)
        BY <4>2, <3>3 DEF Creep, CreepErases, TypeOK, Colour
      <4> QED BY <3>2, <4>1, <4>2
    <3>6. FlagsOK' /\ pc' \in [Thread -> Positions]
      <4>1. at' \in [Drawer -> Page]
        BY <2>0, <3>2, LeaveType DEF Drawn, FlagsOK
      <4>2. pc' = [pc EXCEPT !["snake"] = "gate"]
        BY <3>2 DEF Drawn, Leave, Goto
      <4> QED BY <2>0, <3>2, <4>1, <4>2 DEF Drawn, flags, FlagsOK, Positions
    <3>7. alone' \in BOOLEAN
      BY <2>0, <3>2
    <3> QED BY <3>2, <3>4, <3>5, <3>6, <3>7 DEF TypeOK
  <2>6. CASE Others
    <3>1. /\ FlagsOK' /\ UNCHANGED game /\ pc' \in [Thread -> Positions]
          /\ UNCHANGED picture \/ (alone' = FALSE /\ screen' = [c \in Cell |-> "OTHER"])
      BY <2>6, OthersStep
    <3>2. alone' \in BOOLEAN
      BY <2>0, <3>1 DEF picture
    <3>3. screen' \in [Cell -> Colour]
      BY <3>1 DEF TypeOK, Colour, picture
    <3> QED BY <3>1, <3>2, <3>3 DEF TypeOK, game, ring
  <2>7. CASE UNCHANGED vars
    BY <2>7 DEF vars, game, ring, pages, flags, threads, picture, TypeOK, FlagsOK
  <2> QED BY <2>1, <2>2, <2>3, <2>4, <2>5, <2>6, <2>7 DEF Next, Snake
<1> QED BY <1>1, <1>2, PTL DEF Spec
-----------------------------------------------------------------------------
(* The ring and the length counted beside it. *)

\* The inductive form: a snake never gets shorter than the one it starts as,
\* without which the tail could pass the head.
RingInv == snake_len >= 3 /\ RingHoldsTheSnake

\* One move: the head advances one slot, and the tail does unless the snake grows.
LEMMA MoveKeepsRing ==
  ASSUME TypeOK, RingInv, NEW s \in Steers, Move(s)
  PROVE  RingInv'
<1> DEFINE new == NewHead(snake_list[snake_head], s[1], s[2])
<1>1. (Eat(new) \/ Creep(new)) /\ snake_head' = NextSlot(snake_head)
  BY DEF Move, PushHead
<1> HIDE DEF new
<1>2. /\ NextSlot(snake_head) = IF snake_head = SNAKE_MAX - 1 THEN 0 ELSE snake_head + 1
      /\ NextSlot(snake_tail) = IF snake_tail = SNAKE_MAX - 1 THEN 0 ELSE snake_tail + 1
      /\ snake_head \in 0 .. SNAKE_MAX - 1 /\ snake_tail \in 0 .. SNAKE_MAX - 1
      /\ snake_len \in Nat
  BY NextSlotValue, BoardAssumption DEF TypeOK, Slot
<1>3. CASE Eat(new)
  <2>1. snake_len' = snake_len + 1
    BY <1>3 DEF Eat
  <2>2. snake_tail' = IF snake_len + 1 >= SNAKE_MAX THEN NextSlot(snake_tail) ELSE snake_tail
    BY <1>3, <2>1 DEF Eat, TailMovesOnEating
  <2> QED BY <1>1, <1>2, <2>1, <2>2, BoardAssumption
          DEF RingInv, RingHoldsTheSnake, RingLength
<1>4. CASE Creep(new)
  <2>1. snake_len' = snake_len /\ snake_tail' = NextSlot(snake_tail)
    BY <1>4 DEF Creep
  <2> QED BY <1>1, <1>2, <2>1, BoardAssumption DEF RingInv, RingHoldsTheSnake, RingLength
<1> QED BY <1>1, <1>3, <1>4

\* Only a move touches the ring, the length or the fruit.
LEMMA OnlyMoveTouchesRing ==
  ASSUME [Next]_vars
  PROVE  (\E s \in Steers : Move(s)) \/ UNCHANGED <<ring, snake_len, snake_food>>
BY DEF Next, Snake, Others, vars, game, Fill, PaintFruit, Redraw, DrawOther

LEMMA RingInvariant == Spec => []RingInv
<1>1. Init => RingInv
  BY BoardAssumption DEF Init, RingInv, RingHoldsTheSnake, RingLength
<1>2. TypeOK /\ RingInv /\ [Next]_vars => RingInv'
  <2> SUFFICES ASSUME TypeOK, RingInv, [Next]_vars PROVE RingInv'
    OBVIOUS
  <2>1. CASE \E s \in Steers : Move(s)
    BY <2>1, MoveKeepsRing
  <2>2. CASE UNCHANGED <<ring, snake_len, snake_food>>
    BY <2>2 DEF ring, RingInv, RingHoldsTheSnake, RingLength
  <2> QED BY <2>1, <2>2, OnlyMoveTouchesRing
<1> QED BY <1>1, <1>2, TypeCorrect, PTL DEF Spec

\* The ring holds exactly the cells that snake_len counts until it is full
\* but for one slot, so its head never catches its tail.
THEOREM RingCorrect == Spec => []RingHoldsTheSnake
<1>1. RingInv => RingHoldsTheSnake
  BY DEF RingInv
<1> QED BY <1>1, RingInvariant, PTL

-----------------------------------------------------------------------------
(* The body on the board. *)

Straight == \A s \in Steers : s[1] = s[2]

\* A move puts the head in a slot that was free, and every other slot of the
\* new body was in the old one.
LEMMA MoveReusesFreeSlot ==
  ASSUME TypeOK, RingInv, NEW s \in Steers, Move(s)
  PROVE  /\ snake_head' \notin LiveSlots
         /\ LiveSlots' \subseteq LiveSlots \cup {snake_head'}
<1> DEFINE new == NewHead(snake_list[snake_head], s[1], s[2])
<1>1. (Eat(new) \/ Creep(new)) /\ snake_head' = NextSlot(snake_head)
  BY DEF Move, PushHead
<1> HIDE DEF new
<1>2. snake_tail' = NextSlot(snake_tail) \/ snake_tail' = snake_tail
  BY <1>1 DEF Eat, Creep
<1>3. /\ NextSlot(snake_head) = IF snake_head = SNAKE_MAX - 1 THEN 0 ELSE snake_head + 1
      /\ NextSlot(snake_tail) = IF snake_tail = SNAKE_MAX - 1 THEN 0 ELSE snake_tail + 1
      /\ snake_head \in 0 .. SNAKE_MAX - 1 /\ snake_tail \in 0 .. SNAKE_MAX - 1
      /\ snake_len \in Nat
  BY NextSlotValue, BoardAssumption DEF TypeOK, Slot
<1>4. RingLength >= 3 /\ RingLength <= SNAKE_MAX - 1
  BY <1>3, BoardAssumption DEF RingInv, RingHoldsTheSnake
<1>5. snake_head' \notin LiveSlots
  BY <1>1, <1>3, <1>4, BoardAssumption DEF LiveSlots, RingLength, Slot
<1>6. LiveSlots' \subseteq LiveSlots \cup {snake_head'}
  BY <1>1, <1>2, <1>3, <1>4, BoardAssumption DEF LiveSlots, RingLength, Slot
<1> QED BY <1>5, <1>6

\* With both coordinates steered by the same read of now_direction, every two
\* consecutive segments are neighbours on the torus, across both wraps.
THEOREM BodyConnected ==
  ASSUME Straight
  PROVE  Spec => []BodyIsConnected
<1>1. Init => BodyIsConnected
  <2> SUFFICES ASSUME Init PROVE BodyIsConnected
    OBVIOUS
  <2> DEFINE m == SNAKE_MAX \div 2
  <2>1. m \in Int /\ m - 1 >= 0 /\ m + 1 < SNAKE_MAX
    BY BoardAssumption, Z3
  <2>2. Wrap(m) = m /\ Wrap(m + 1) = m + 1
    BY <2>1, BoardAssumption, Z3 DEF Wrap
  <2>3. StartBody = <<<<m - 1, m>>, <<m, m>>, <<m + 1, m>>>>
    BY DEF StartBody
  <2> HIDE DEF m
  <2>4. 3 \in Direction /\ SnakeDirection[3] = <<1, 0>>
    BY DEF Direction, SnakeDirection
  <2>5. /\ StartBody[2] = NewHead(StartBody[1], 3, 3)
        /\ StartBody[3] = NewHead(StartBody[2], 3, 3)
    BY <2>1, <2>2, <2>3, <2>4 DEF NewHead
  <2>6. snake_list[0] = StartBody[1] /\ snake_list[1] = StartBody[2] /\ snake_list[2] = StartBody[3]
    BY BoardAssumption DEF Init, Slot
  <2>7. LiveSlots \ {snake_head} = {0, 1} /\ NextSlot(0) = 1 /\ NextSlot(1) = 2
    BY BoardAssumption, NextSlotValue DEF Init, LiveSlots
  <2> QED BY <2>4, <2>5, <2>6, <2>7 DEF BodyIsConnected
<1>2. TypeOK /\ RingInv /\ BodyIsConnected /\ [Next]_vars => BodyIsConnected'
  <2> SUFFICES ASSUME TypeOK, RingInv, BodyIsConnected, [Next]_vars PROVE BodyIsConnected'
    OBVIOUS
  <2>1. ASSUME NEW s \in Steers, Move(s) PROVE BodyIsConnected'
    <3> SUFFICES ASSUME NEW i \in LiveSlots' \ {snake_head'}
                 PROVE  \E d \in Direction : snake_list'[NextSlot(i)] = NewHead(snake_list'[i], d, d)
      BY DEF BodyIsConnected, NextSlot
    <3>1. i \in LiveSlots /\ i # snake_head'
      BY <2>1, MoveReusesFreeSlot
    <3>2. /\ snake_head' = NextSlot(snake_head)
          /\ snake_list' = [snake_list EXCEPT ![snake_head'] =
                              NewHead(snake_list[snake_head], s[1], s[2])]
      BY <2>1 DEF Move, PushHead
    <3>3. i \in Slot /\ snake_head \in Slot
      BY <3>1, BoardAssumption DEF LiveSlots, TypeOK, Slot
    <3>4. NextSlot(i) \in Slot /\ NextSlot(snake_head) \in Slot
      BY <3>3, NextSlotValue, BoardAssumption DEF Slot
    <3>5. snake_list'[i] = snake_list[i]
      BY <3>1, <3>2, <3>3 DEF TypeOK
    <3>6. CASE i = snake_head
      <4>1. s[1] \in Direction /\ s[2] = s[1]
        BY GameAssumption DEF Straight
      <4>2. snake_list'[NextSlot(i)] = NewHead(snake_list[i], s[1], s[1])
        BY <3>2, <3>4, <3>6, <4>1 DEF TypeOK
      <4> QED BY <3>5, <4>1, <4>2
    <3>7. CASE i # snake_head
      <4>1. NextSlot(i) # NextSlot(snake_head)
        BY <3>3, <3>7, NextSlotValue, BoardAssumption DEF Slot
      <4>2. snake_list'[NextSlot(i)] = snake_list[NextSlot(i)]
        BY <3>2, <3>4, <4>1 DEF TypeOK
      <4> QED BY <3>1, <3>5, <3>7, <4>2 DEF BodyIsConnected
    <3> QED BY <3>6, <3>7
  <2>2. CASE UNCHANGED <<ring, snake_len, snake_food>>
    BY <2>2 DEF ring, BodyIsConnected, LiveSlots, NextSlot
  <2> QED BY <2>1, <2>2, OnlyMoveTouchesRing
<1> QED BY <1>1, <1>2, RingInvariant, TypeCorrect, PTL DEF Spec

-----------------------------------------------------------------------------
(* The picture. *)

\* The slots of the body after a move: the new head's, and all but the tail's.
LEMMA MoveKeepsSlots ==
  ASSUME TypeOK, RingInv, NEW s \in Steers, Move(s)
  PROVE  /\ snake_head' \in LiveSlots'
         /\ LiveSlots \ {snake_tail} \subseteq LiveSlots'
         /\ snake_tail' = snake_tail => LiveSlots \subseteq LiveSlots'
<1> DEFINE new == NewHead(snake_list[snake_head], s[1], s[2])
<1>1. (Eat(new) \/ Creep(new)) /\ snake_head' = NextSlot(snake_head)
  BY DEF Move, PushHead
<1> HIDE DEF new
<1>2. snake_tail' = NextSlot(snake_tail) \/ snake_tail' = snake_tail
  BY <1>1 DEF Eat, Creep
<1>3. /\ NextSlot(snake_head) = IF snake_head = SNAKE_MAX - 1 THEN 0 ELSE snake_head + 1
      /\ NextSlot(snake_tail) = IF snake_tail = SNAKE_MAX - 1 THEN 0 ELSE snake_tail + 1
      /\ snake_head \in 0 .. SNAKE_MAX - 1 /\ snake_tail \in 0 .. SNAKE_MAX - 1
      /\ snake_len \in Nat
  BY NextSlotValue, BoardAssumption DEF TypeOK, Slot
<1>4. RingLength >= 3 /\ RingLength <= SNAKE_MAX - 1
  BY <1>3, BoardAssumption DEF RingInv, RingHoldsTheSnake
<1> QED BY <1>1, <1>2, <1>3, <1>4, BoardAssumption DEF LiveSlots, RingLength, Slot

\* As long as only the snake has drawn, nothing but the body and the fruit is on
\* the board, in the middle of a redisplay too.
Clean(scr, body) == \A c \in Cell : scr[c] # "WHITE" => c \in body \cup {snake_food}
ScreenInv ==
  /\ alone => Clean(screen, BodyCells)
  /\ pc["snake"] = "redraw" => NextSlot(snake_now) \in LiveSlots

\* The two steps before the redraw: the screen is white, then only the fruit
\* is on it, and the loop will start at the tail.
LEMMA ClearKeepsScreen ==
  ASSUME TypeOK, ScreenInv, Fill \/ PaintFruit
  PROVE  ScreenInv'
<1>1. UNCHANGED <<snake_list, snake_head, snake_tail, snake_food>>
  BY DEF Fill, PaintFruit, game, ring
<1>2. BodyCells' = BodyCells /\ LiveSlots' = LiveSlots
  BY <1>1 DEF BodyCells, LiveSlots
<1>3. CASE Fill
  <2>1. pc'["snake"] = "fruit"
    BY <1>3 DEF Fill, Painted, Goto, TypeOK, Thread, Drawer
  <2> QED BY <1>1, <1>2, <1>3, <2>1 DEF Fill, ScreenInv, Clean
<1>4. CASE PaintFruit
  <2>1. Clean(screen, BodyCells) => Clean(screen, BodyCells)'
    BY <1>1, <1>2, <1>4 DEF PaintFruit, Clean, TypeOK
  <2>2. NextSlot(snake_tail - 1) = snake_tail
    BY NextSlotValue, BoardAssumption DEF TypeOK, Slot
  <2>3. snake_tail \in LiveSlots
    BY BoardAssumption DEF TypeOK, Slot, LiveSlots
  <2> QED BY <1>2, <1>4, <2>1, <2>2, <2>3 DEF PaintFruit, ScreenInv, NextSlot
<1> QED BY <1>3, <1>4

LEMMA RedrawKeepsScreen ==
  ASSUME TypeOK, RingInv, ScreenInv, Redraw
  PROVE  ScreenInv'
<1>1. UNCHANGED <<snake_list, snake_head, snake_tail, snake_food, alone>>
      /\ pc["snake"] = "redraw"
  BY DEF Redraw, Goto, ring
<1>2. BodyCells' = BodyCells /\ LiveSlots' = LiveSlots
  BY <1>1 DEF BodyCells, LiveSlots
<1> DEFINE i == snake_now'
<1>3. i \in LiveSlots /\ i \in Slot
  BY <1>1, BoardAssumption DEF Redraw, ScreenInv, LiveSlots, TypeOK, Slot
<1>4. screen' = [screen EXCEPT ![snake_list[i]] = "BLACK"] /\ snake_list[i] \in BodyCells
  BY <1>3 DEF Redraw, BodyCells
<1>5. Clean(screen, BodyCells) => Clean(screen, BodyCells)'
  BY <1>1, <1>2, <1>4 DEF Clean, TypeOK
<1>6. pc'["snake"] = "redraw" => NextSlot(i) \in LiveSlots
  <2>1. pc'["snake"] = "redraw" => i # snake_head
    BY DEF Redraw, Goto, RedrawDone, TypeOK, Thread, Drawer
  <2>2. NextSlot(i) = IF i = SNAKE_MAX - 1 THEN 0 ELSE i + 1
    BY <1>3, NextSlotValue, BoardAssumption DEF Slot
  <2>3. i # snake_head => NextSlot(i) \in LiveSlots
    BY <1>3, <2>2, BoardAssumption DEF LiveSlots, Slot, TypeOK
  <2> QED BY <2>1, <2>3
<1> QED BY <1>1, <1>2, <1>5, <1>6 DEF ScreenInv, NextSlot

\* The cell the tail leaves is whitened, or holds the fruit; the cell where a
\* fruit was eaten is the new head's.
LEMMA MoveKeepsScreen ==
  ASSUME TypeOK, RingInv, ScreenInv, NEW s \in Steers, Move(s)
  PROVE  ScreenInv'
<1> DEFINE new == NewHead(snake_list[snake_head], s[1], s[2])
           t == snake_list[snake_tail]
<1>1. (Eat(new) \/ Creep(new)) /\ PushHead(new) /\ alone' = alone /\ pc'["snake"] = "gate"
  BY DEF Move, Drawn, Leave, Goto, TypeOK, Thread, Drawer
<1>2. new \in Cell
  BY NewHeadType, GameAssumption DEF TypeOK
<1> HIDE DEF new
<1>3. snake_head' \in Slot /\ snake_tail \in Slot /\ t \in Cell
  BY <1>1, NextSlotValue, BoardAssumption DEF PushHead, TypeOK, Slot
<1>4. snake_list'[snake_head'] = new /\ \A i \in LiveSlots : snake_list'[i] = snake_list[i]
  <2>1. snake_head' \notin LiveSlots /\ \A i \in LiveSlots : i \in Slot
    BY MoveReusesFreeSlot, BoardAssumption DEF LiveSlots, TypeOK, Slot
  <2> QED BY <1>1, <1>3, <2>1 DEF PushHead, TypeOK
<1>5. BodyCells' = {snake_list'[i] : i \in LiveSlots'}
  BY DEF BodyCells
<1>6. new \in BodyCells' /\ BodyCells \ {t} \subseteq BodyCells'
  BY <1>4, <1>5, MoveKeepsSlots DEF BodyCells
<1>7. snake_tail' = snake_tail => BodyCells \subseteq BodyCells'
  BY <1>4, <1>5, MoveKeepsSlots DEF BodyCells
<1> DEFINE B == BodyCells'
<1> HIDE DEF B, t
<1>8. Clean(screen, BodyCells) => \A c \in Cell : screen'[c] # "WHITE" => c \in B \cup {snake_food'}
  <2> SUFFICES ASSUME Clean(screen, BodyCells), NEW c \in Cell, screen'[c] # "WHITE"
               PROVE  c \in B \cup {snake_food'}
    OBVIOUS
  <2>0. /\ screen[c] # "WHITE" => c \in BodyCells \/ c = snake_food
        /\ new \in B /\ BodyCells \ {t} \subseteq B /\ (snake_tail' = snake_tail => BodyCells \subseteq B)
        /\ screen \in [Cell -> Colour] /\ t = snake_list[snake_tail]
    BY <1>6, <1>7 DEF Clean, TypeOK, B, t
  <2>1. CASE Eat(new)
    <3>1. new = snake_food /\ snake_food' \in Cell
      BY <2>1, GameAssumption DEF Eat
    <3>2. CASE TailMovesOnEating(snake_len')
      BY <1>2, <1>3, <2>0, <2>1, <3>1, <3>2 DEF Eat, EatErases
    <3>3. CASE ~TailMovesOnEating(snake_len')
      BY <1>2, <2>0, <2>1, <3>1, <3>3 DEF Eat, EatErases
    <3> QED BY <3>2, <3>3
  <2>2. CASE Creep(new)
    BY <1>2, <1>3, <2>0, <2>2 DEF Creep, CreepErases
  <2> QED BY <1>1, <2>1, <2>2
<1> QED BY <1>1, <1>8 DEF ScreenInv, Clean, B

LEMMA ScreenInvariant == Spec => []ScreenInv
<1>1. Init => ScreenInv
  BY DEF Init, FlagsInit, ScreenInv, Thread, Drawer
<1>2. TypeOK /\ RingInv /\ ScreenInv /\ [Next]_vars => ScreenInv'
  <2> SUFFICES ASSUME TypeOK, RingInv, ScreenInv, [Next]_vars PROVE ScreenInv'
    OBVIOUS
  <2>1. ASSUME UNCHANGED game, pc'["snake"] = "redraw" => pc["snake"] = "redraw",
               alone' => alone /\ screen' = screen
        PROVE  ScreenInv'
    <3>1. BodyCells' = BodyCells /\ LiveSlots' = LiveSlots
      BY <2>1 DEF game, ring, BodyCells, LiveSlots
    <3> QED BY <2>1, <3>1 DEF game, ScreenInv, Clean, NextSlot
  <2>2. CASE PassGates("snake") /\ UNCHANGED <<game, picture>>
    <3>1. \E to \in DrawerPositions : pc' = [pc EXCEPT !["snake"] = to]
      BY <2>2, PassKeepsFlags DEF TypeOK, Drawer
    <3>2. pc'["snake"] # "redraw"
      BY <3>1 DEF DrawerPositions, TypeOK, Thread, Drawer
    <3> QED BY <2>1, <2>2, <3>2 DEF picture
  <2>3. CASE Others
    BY <2>1, <2>3, OthersStep DEF picture
  <2>4. CASE UNCHANGED vars
    BY <2>1, <2>4 DEF vars, pages, threads, picture
  <2> QED BY <2>2, <2>3, <2>4, ClearKeepsScreen, RedrawKeepsScreen, MoveKeepsScreen DEF Next, Snake
<1> QED BY <1>1, <1>2, TypeCorrect, RingInvariant, PTL DEF Spec

\* As long as only the snake has drawn since it cleared the screen, the
\* incremental painting leaves nothing behind, on any board and even when the
\* direction is read torn.
THEOREM NoGhosts == Spec => []NoGhostCells
<1>1. ScreenInv => NoGhostCells
  BY DEF ScreenInv, NoGhostCells, Clean
<1> QED BY <1>1, ScreenInvariant, PTL

-----------------------------------------------------------------------------
(* The ring is a queue. *)

\* The slot of the i-th cell of a body whose tail is in slot t
SlotOf(t, i) == IF t + i - 1 < SNAKE_MAX THEN t + i - 1 ELSE t + i - 1 - SNAKE_MAX

LEMMA SlotValue ==
  \A a \in 0 .. 2 * SNAKE_MAX - 1 : a % SNAKE_MAX = IF a < SNAKE_MAX THEN a ELSE a - SNAKE_MAX
BY BoardAssumption, Z3

\* What a body read from the ring is: a sequence of n cells from the slot t on
IsBody(b, t, n, list) ==
  /\ b \in Seq(Cell) /\ Len(b) = n /\ n \in 3 .. SNAKE_MAX - 1
  /\ \A i \in 1 .. n : b[i] = list[SlotOf(t, i)]

RingOf(h, t) == IF h >= t THEN h - t + 1 ELSE h - t + 1 + SNAKE_MAX
BodyOf(list, h, t) == [i \in 1 .. RingOf(h, t) |-> list[(t + i - 1) % SNAKE_MAX]]

LEMMA BodyOfRing ==
  ASSUME NEW list \in [Slot -> Cell], NEW h \in Slot, NEW t \in Slot,
         RingOf(h, t) \in 3 .. SNAKE_MAX - 1
  PROVE  IsBody(BodyOf(list, h, t), t, RingOf(h, t), list) /\ SlotOf(t, RingOf(h, t)) = h
<1> DEFINE n == RingOf(h, t)
<1>1. h \in 0 .. SNAKE_MAX - 1 /\ t \in 0 .. SNAKE_MAX - 1
  BY DEF Slot
<1>2. SlotOf(t, n) = h
  BY <1>1, BoardAssumption DEF RingOf, SlotOf
<1> HIDE DEF n
<1>3. \A i \in 1 .. n : (t + i - 1) % SNAKE_MAX = SlotOf(t, i) /\ SlotOf(t, i) \in Slot
  <2> TAKE i \in 1 .. n
  <2> DEFINE a == t + i - 1
  <2>1. a \in 0 .. 2 * SNAKE_MAX - 1
    BY <1>1, BoardAssumption DEF n
  <2>2. SlotOf(t, i) = IF a < SNAKE_MAX THEN a ELSE a - SNAKE_MAX
    BY <1>1, BoardAssumption DEF SlotOf, n
  <2> HIDE DEF a
  <2>3. a % SNAKE_MAX = SlotOf(t, i)
    BY <2>1, <2>2, SlotValue
  <2>4. SlotOf(t, i) \in Slot
    BY <2>1, <2>2, BoardAssumption DEF Slot
  <2> QED BY <2>3, <2>4 DEF a
<1> DEFINE e(i) == list[(t + i - 1) % SNAKE_MAX]
<1>4. \A i \in 1 .. n : e(i) \in Cell /\ e(i) = list[SlotOf(t, i)]
  BY <1>3
<1>5. BodyOf(list, h, t) = [i \in 1 .. n |-> e(i)]
  BY DEF BodyOf, n
<1> HIDE DEF e
<1>6. n \in Nat /\ n \in 3 .. SNAKE_MAX - 1
  BY BoardAssumption DEF n
<1>7. BodyOf(list, h, t) \in Seq(Cell) /\ Len(BodyOf(list, h, t)) = n
  BY <1>4, <1>5, <1>6
<1> QED BY <1>2, <1>4, <1>5, <1>6, <1>7 DEF IsBody, n

\* Only what the length says is in the ring
InRing == RingLength \in 3 .. SNAKE_MAX - 1
LEMMA LengthInRing == TypeOK /\ RingInv => InRing
BY BoardAssumption DEF TypeOK, Slot, RingInv, RingHoldsTheSnake, InRing

LEMMA BodyIs ==
  ASSUME TypeOK, RingInv
  PROVE  /\ IsBody(Body, snake_tail, RingLength, snake_list)
         /\ SlotOf(snake_tail, RingLength) = snake_head
         /\ \A i \in 1 .. RingLength : SlotOf(snake_tail, i) \in LiveSlots
<1>1. snake_head \in Slot /\ snake_tail \in Slot /\ snake_list \in [Slot -> Cell]
  BY DEF TypeOK
<1>2. RingLength = RingOf(snake_head, snake_tail) /\ Body = BodyOf(snake_list, snake_head, snake_tail)
  BY DEF RingLength, RingOf, Body, BodyOf
<1>3. RingLength \in 3 .. SNAKE_MAX - 1
  BY LengthInRing DEF InRing
<1>4. \A i \in 1 .. RingLength : SlotOf(snake_tail, i) \in LiveSlots
  BY <1>1, <1>3, BoardAssumption DEF RingLength, SlotOf, LiveSlots, Slot
<1> QED BY <1>1, <1>2, <1>3, <1>4, BodyOfRing

LEMMA Appended ==
  ASSUME NEW b \in Seq(Cell), NEW c \in Cell
  PROVE  /\ Append(b, c) \in Seq(Cell) /\ Len(Append(b, c)) = Len(b) + 1
         /\ \A i \in 1 .. Len(b) : Append(b, c)[i] = b[i]
         /\ Append(b, c)[Len(b) + 1] = c
OBVIOUS

\* SnakeRules has the board of this module.
LEMMA SameBoard ==
  /\ Rules!StartBody = StartBody
  /\ \A c, x, y : Rules!NewHead(c, x, y) = NewHead(c, x, y)
BY DEF Rules!StartBody, StartBody, Rules!NewHead, NewHead, Rules!Wrap, Wrap,
       Rules!SnakeDirection, SnakeDirection, Rules!Direction, Direction

\* The body after a move, in the terms of SnakeRules
LEMMA MoveIsQueueStep ==
  ASSUME TypeOK, RingInv, TypeOK', InRing', NEW s \in Steers, Move(s),
         NEW new, new = NewHead(snake_list[snake_head], s[1], s[2])
  PROVE  /\ snake_tail' = snake_tail => Body' = Append(Body, new)
         /\ snake_tail' = NextSlot(snake_tail) => Body' = Append(Tail(Body), new)
<1>1. (Eat(new) \/ Creep(new)) /\ snake_head' = NextSlot(snake_head)
      /\ snake_list' = [snake_list EXCEPT ![snake_head'] = new]
  BY DEF Move, PushHead
<1>2. new \in Cell
  BY NewHeadType, GameAssumption DEF TypeOK
<1> DEFINE n == RingLength
           m == RingLength'
           b == Body
           d == Body'
<1>3. /\ IsBody(b, snake_tail, n, snake_list) /\ SlotOf(snake_tail, n) = snake_head
      /\ \A i \in 1 .. n : SlotOf(snake_tail, i) \in LiveSlots
  BY BodyIs
<1>4. /\ IsBody(d, snake_tail', m, snake_list') /\ SlotOf(snake_tail', m) = snake_head'
  <2>1. snake_head' \in Slot /\ snake_tail' \in Slot /\ snake_list' \in [Slot -> Cell]
    BY DEF TypeOK
  <2>2. m = RingOf(snake_head', snake_tail') /\ d = BodyOf(snake_list', snake_head', snake_tail')
    BY DEF RingLength, RingOf, Body, BodyOf
  <2>3. m \in 3 .. SNAKE_MAX - 1
    BY DEF InRing
  <2> HIDE DEF m, d
  <2> QED BY <2>1, <2>2, <2>3, BodyOfRing
<1>5. /\ NextSlot(snake_head) = IF snake_head = SNAKE_MAX - 1 THEN 0 ELSE snake_head + 1
      /\ NextSlot(snake_tail) = IF snake_tail = SNAKE_MAX - 1 THEN 0 ELSE snake_tail + 1
      /\ snake_head \in 0 .. SNAKE_MAX - 1 /\ snake_tail \in 0 .. SNAKE_MAX - 1
  BY NextSlotValue, BoardAssumption DEF TypeOK, Slot
<1>6. snake_list'[snake_head'] = new /\ \A i \in LiveSlots : snake_list'[i] = snake_list[i]
  <2>1. snake_head' \notin LiveSlots
    BY MoveReusesFreeSlot
  <2>2. snake_head' \in Slot
    BY DEF TypeOK
  <2>3. \A i \in LiveSlots : i \in Slot
    BY <1>5, BoardAssumption DEF LiveSlots, Slot
  <2> QED BY <1>1, <2>1, <2>2, <2>3 DEF TypeOK
<1>7. n \in 3 .. SNAKE_MAX - 1 /\ m \in 3 .. SNAKE_MAX - 1
  BY <1>3, <1>4 DEF IsBody
<1>8. /\ snake_tail' = snake_tail => m = n + 1
      /\ snake_tail' = NextSlot(snake_tail) => m = n
  <2>1. n = (IF snake_head >= snake_tail THEN snake_head - snake_tail + 1
                                         ELSE snake_head - snake_tail + 1 + SNAKE_MAX)
        /\ m = (IF snake_head' >= snake_tail' THEN snake_head' - snake_tail' + 1
                                         ELSE snake_head' - snake_tail' + 1 + SNAKE_MAX)
    BY DEF RingLength
  <2> HIDE DEF n, m
  <2> QED BY <1>1, <1>5, <1>7, <2>1, BoardAssumption
<1> HIDE DEF n, m, b, d
<1>9. d[m] = new
  BY <1>4, <1>6, <1>7 DEF IsBody
<1>10. ASSUME snake_tail' = snake_tail PROVE d = Append(b, new)
  <2>1. \A i \in 1 .. n : d[i] = b[i]
    BY <1>3, <1>4, <1>6, <1>7, <1>8, <1>10 DEF IsBody
  <2>2. b \in Seq(Cell) /\ d \in Seq(Cell) /\ Len(b) = n /\ Len(d) = n + 1
    BY <1>3, <1>4, <1>8, <1>10 DEF IsBody
  <2> DEFINE a == Append(b, new)
  <2>3. a \in Seq(Cell) /\ Len(a) = n + 1 /\ a[n + 1] = new /\ \A i \in 1 .. n : a[i] = b[i]
    BY <1>2, <2>2, Appended
  <2> HIDE DEF a
  <2>4. \A i \in 1 .. Len(d) : d[i] = a[i]
    BY <1>7, <1>8, <1>9, <1>10, <2>1, <2>2, <2>3
  <2>5. d = a
    BY <2>2, <2>3, <2>4, SeqEqual
  <2> QED BY <2>5 DEF a
<1>11. ASSUME snake_tail' = NextSlot(snake_tail) PROVE d = Append(Tail(b), new)
  <2>1. \A i \in 1 .. n - 1 : SlotOf(snake_tail', i) = SlotOf(snake_tail, i + 1)
    BY <1>5, <1>7, <1>11, BoardAssumption DEF SlotOf
  <2>2. \A i \in 1 .. n - 1 : d[i] = b[i + 1]
    <3> TAKE i \in 1 .. n - 1
    <3>1. i \in 1 .. m /\ i + 1 \in 1 .. n
      BY <1>7, <1>8, <1>11
    <3>2. d[i] = snake_list'[SlotOf(snake_tail, i + 1)]
      BY <1>4, <2>1, <3>1 DEF IsBody
    <3>3. SlotOf(snake_tail, i + 1) \in LiveSlots /\ b[i + 1] = snake_list[SlotOf(snake_tail, i + 1)]
      BY <1>3, <3>1 DEF IsBody
    <3> QED BY <3>2, <3>3, <1>6
  <2>3. b \in Seq(Cell) /\ d \in Seq(Cell) /\ Len(b) = n /\ Len(d) = n /\ b # << >>
    BY <1>3, <1>4, <1>7, <1>8, <1>11 DEF IsBody
  <2> DEFINE t == Tail(b)
             a == Append(t, new)
  <2>4. t \in Seq(Cell) /\ Len(t) = n - 1 /\ \A i \in 1 .. n - 1 : t[i] = b[i + 1]
    BY <2>3, HeadTailProperties
  <2> HIDE DEF t
  <2>5. /\ a \in Seq(Cell) /\ Len(a) = n - 1 + 1 /\ a[n - 1 + 1] = new
        /\ \A i \in 1 .. n - 1 : a[i] = t[i]
    BY <1>2, <2>4, Appended
  <2> HIDE DEF a
  <2>6. \A i \in 1 .. Len(d) : d[i] = a[i]
    BY <1>7, <1>8, <1>9, <1>11, <2>2, <2>3, <2>4, <2>5
  <2>7. Len(d) = Len(a)
    BY <1>7, <2>3, <2>5
  <2>8. d = a
    BY <2>3, <2>5, <2>6, <2>7, SeqEqual
  <2> QED BY <2>8 DEF a, t
<1> QED BY <1>10, <1>11 DEF b, d

LEMMA MoveIsStep ==
  ASSUME TypeOK, RingInv, TypeOK', InRing', NEW s \in Steers, Move(s)
  PROVE  Rules!Step
<1> DEFINE new == NewHead(snake_list[snake_head], s[1], s[2])
           longer == Append(Body, new)
           moved == Append(Tail(Body), new)
<1>1. Eat(new) \/ Creep(new)
  BY DEF Move
<1>2. /\ IsBody(Body, snake_tail, RingLength, snake_list)
      /\ SlotOf(snake_tail, RingLength) = snake_head
  BY BodyIs
<1>3. Len(Body) = RingLength /\ Body[Len(Body)] = snake_list[snake_head]
  BY <1>2 DEF IsBody
<1>4. /\ snake_tail' = snake_tail => Body' = longer
      /\ snake_tail' = NextSlot(snake_tail) => Body' = moved
  BY MoveIsQueueStep
<1>5. RingLength < SNAKE_MAX - 1 <=> snake_len + 1 < SNAKE_MAX
  BY BoardAssumption DEF RingInv, RingHoldsTheSnake, TypeOK
<1>6. new = Rules!NewHead(Rules!HeadCell, s[1], s[2])
  BY <1>3, SameBoard DEF Rules!HeadCell
<1> HIDE DEF new, longer, moved
<1>7. CASE Eat(new)
  <2>1. snake_food' \in FoodCells /\ new = snake_food
    BY <1>7 DEF Eat
  <2>2. snake_tail' = IF snake_len + 1 >= SNAKE_MAX THEN NextSlot(snake_tail) ELSE snake_tail
    BY <1>7 DEF Eat, TailMovesOnEating
  <2>3. Body' = IF Len(Body) < SNAKE_MAX - 1 THEN longer ELSE moved
    BY <1>3, <1>4, <1>5, <2>2, BoardAssumption DEF TypeOK
  <2>4. Rules!Grow(new)
    BY <2>1, <2>3 DEF Rules!Grow, longer, moved
  <2> QED BY <1>6, <2>4 DEF Rules!Step
<1>8. CASE Creep(new)
  <2>1. new # snake_food /\ snake_food' = snake_food /\ Body' = moved
    BY <1>4, <1>8 DEF Creep
  <2>2. Rules!Creep(new)
    BY <2>1 DEF Rules!Creep, moved
  <2> QED BY <1>6, <2>2 DEF Rules!Step
<1> QED BY <1>1, <1>7, <1>8

\* The game starts with the queue of three cells.
LEMMA StartIsQueue ==
  ASSUME Init, TypeOK, RingInv
  PROVE  Rules!Init
<1>1. IsBody(Body, 0, 3, snake_list)
  <2>1. snake_tail = 0 /\ RingLength = 3
    BY DEF Init, RingLength
  <2> QED BY <2>1, BodyIs
<1>2. StartBody \in Seq(Cell) /\ Len(StartBody) = 3
  <2>1. \E x, y, z : StartBody = <<x, y, z>>
    BY DEF StartBody
  <2> QED BY <2>1, StartBodyType
<1>3. \A i \in 1 .. 3 : Body[i] = StartBody[i]
  <2> TAKE i \in 1 .. 3
  <2>1. SlotOf(0, i) = i - 1
    BY BoardAssumption DEF SlotOf
  <2>2. snake_list[i - 1] = StartBody[(i - 1) + 1]
    BY BoardAssumption DEF Init, Slot
  <2> QED BY <1>1, <2>1, <2>2 DEF IsBody
<1>4. Body = StartBody
  BY <1>1, <1>2, <1>3, SeqEqual DEF IsBody
<1> QED BY <1>4, SameBoard DEF Rules!Init, Init

\* The ring of SNAKE_MAX slots, with its two indices and the length counted
\* apart, behaves as the queue of SnakeRules on every board.
THEOREM RingIsQueue == Spec => QueueRefinement
<1>1. Init /\ TypeOK /\ RingInv => Rules!Init
  BY StartIsQueue
<1>2. TypeOK /\ RingInv /\ TypeOK' /\ InRing' /\ [Next]_vars
        => [Rules!Step]_<<Body, snake_food>>
  <2> SUFFICES ASSUME TypeOK, RingInv, TypeOK', InRing', [Next]_vars
               PROVE  Rules!Step \/ UNCHANGED <<Body, snake_food>>
    OBVIOUS
  <2>1. CASE \E s \in Steers : Move(s)
    BY <2>1, MoveIsStep
  <2>2. CASE UNCHANGED <<ring, snake_len, snake_food>>
    BY <2>2 DEF ring, Body, RingLength
  <2> QED BY <2>1, <2>2, OnlyMoveTouchesRing
<1> QED BY <1>1, <1>2, TypeCorrect, RingInvariant, LengthInRing, PTL DEF Spec, QueueRefinement, Rules!Spec
=============================================================================
