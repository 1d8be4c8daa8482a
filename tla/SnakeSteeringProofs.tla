------------------------- MODULE SnakeSteeringProofs -------------------------
(***************************************************************************)
(* With one snake thread, as the program starts it, and any number of keys *)
(* at any moment: the countdown to random steering stays in its range, and *)
(* the snake left alone never turns back on itself.                        *)
(***************************************************************************)
EXTENDS SnakeSteering, TLAPS

OneSnake == \A s, u \in Snakes : s = u

\* Facts about the arithmetic of directions.
LEMMA Quarter ==
  ASSUME NEW d \in Direction, NEW k \in 0 .. 2
  PROVE  (d + 3 + k) % 4 \in Direction /\ (d + 3 + k) % 4 # Opposite(d)
BY DEF Direction, Opposite

LEMMA OppositeOther ==
  ASSUME NEW d \in Direction
  PROVE  Opposite(d) # d
BY DEF Direction, Opposite

-----------------------------------------------------------------------------
(* The countdown. *)

\* What the countdown depends on: a snake about to count has seen it above zero,
\* and nothing but that snake lowers it.
CountInv ==
  /\ snake_pressed \in 0 .. snake_max + 1
  /\ pc = [s \in Snakes |-> pc[s]]
  /\ \A s \in Snakes : pc[s] = "count" => snake_pressed > 0

LEMMA CountInvariant ==
  ASSUME OneSnake
  PROVE  Spec => []CountInv
<1> USE SteeringAssumption
<1>1. Init => CountInv
  BY DEF Init, CountInv
<1>2. CountInv /\ [Next]_vars => CountInv'
  <2> SUFFICES ASSUME CountInv, [Next]_vars PROVE CountInv'
    OBVIOUS
  <2>1. ASSUME NEW s \in Snakes, SnakeStep(s) PROVE CountInv'
    <3>1. CASE Count(s)
      <4>1. snake_pressed > 0 /\ snake_pressed' = snake_pressed - 1
        BY <3>1 DEF Count, Goto, CountInv, CountedDown
      <4>2. pc' = [pc EXCEPT ![s] = "aimx"]
        BY <3>1 DEF Count, Goto
      <4> QED BY <4>1, <4>2 DEF CountInv, OneSnake
    <3>2. CASE Check(s)
      BY <3>2 DEF Check, Goto, shared, CountInv, OneSnake
    <3>3. CASE Gate(s) \/ StopGate(s) \/ Chance(s) \/ StoreTurn(s) \/ AimX(s) \/ AimY(s)
      <4>1. snake_pressed' = snake_pressed
            /\ \E to \in {"stop", "check", "aimx", "turn", "aimy", "gate"} : pc' = [pc EXCEPT ![s] = to]
        BY <3>3 DEF Gate, StopGate, Chance, StoreTurn, AimX, AimY, Goto, shared
      <4> QED BY <4>1 DEF CountInv, OneSnake
    <3> QED BY <2>1, <3>1, <3>2, <3>3 DEF SnakeStep
  <2>2. CASE RestartTimer /\ UNCHANGED pc
    BY <2>2 DEF RestartTimer, CountInv
  <2>3. CASE UNCHANGED <<snake_pressed, pc>>
    BY <2>3 DEF CountInv
  <2>4. ASSUME ~(\E s \in Snakes : SnakeStep(s))
        PROVE  UNCHANGED pc /\ (RestartTimer \/ UNCHANGED snake_pressed)
    BY <2>4 DEF Next, KeyIsr, Remote, IrReceive, IrPress, IrCompare, IrSteer, OverwriteTmp,
                ComeOrGo, vars, shared, snake
  <2> QED BY <2>1, <2>2, <2>3, <2>4
<1> QED BY <1>1, <1>2, PTL DEF Spec

\* The countdown is tested and decremented in two steps, with keys in between,
\* and still never goes below zero.
THEOREM CountdownStays ==
  ASSUME OneSnake
  PROVE  Spec => []CountdownInRange
<1>1. CountInv => CountdownInRange
  BY DEF CountInv, CountdownInRange
<1> QED BY <1>1, CountInvariant, PTL

-----------------------------------------------------------------------------
(* The random turn. *)

\* The part of TypeOK that the proof needs.
DirectionTypes ==
  /\ now_direction \in Direction /\ ir_key \in Direction
  /\ pc = [s \in Snakes |-> pc[s]]
  /\ turned \in [Snakes -> Direction] /\ aimed \in [Snakes -> Direction]
  /\ moved \in Direction \X Direction

LEMMA DirectionsTyped == Spec => []DirectionTypes
<1>1. Init => DirectionTypes
  BY DEF Init, DirectionTypes, Direction
<1>2. DirectionTypes /\ [Next]_vars => DirectionTypes'
  <2> SUFFICES ASSUME DirectionTypes, [Next]_vars PROVE DirectionTypes'
    OBVIOUS
  <2>1. ASSUME NEW s \in Snakes, SnakeStep(s) PROVE DirectionTypes'
    <3>1. CASE Chance(s)
      <4>1. \A k \in 0 .. 2 : RandomTurn(k) \in Direction
        BY Quarter DEF RandomTurn, DirectionTypes
      <4> QED BY <3>1, <4>1 DEF Chance, Goto, DirectionTypes, shared, remote
    <3>2. CASE Gate(s) \/ StopGate(s) \/ Check(s) \/ StoreTurn(s) \/ Count(s)
      BY <3>2 DEF Gate, StopGate, Check, StoreTurn, Count, Goto, DirectionTypes, shared, remote
    <3>3. CASE AimX(s) \/ AimY(s)
      BY <3>3 DEF AimX, AimY, Goto, DirectionTypes, shared, remote
    <3> QED BY <2>1, <3>1, <3>2, <3>3 DEF SnakeStep
  <2>2. CASE \E d \in Direction : KeyIsr(d) \/ IrReceive(d)
    BY <2>2 DEF KeyIsr, IrReceive, DirectionTypes, shared, snake, remote
  <2>3. CASE IrPress \/ IrCompare \/ IrSteer \/ OverwriteTmp \/ ComeOrGo \/ UNCHANGED vars
    BY <2>3 DEF IrPress, IrCompare, IrSteer, OverwriteTmp, ComeOrGo, DirectionTypes, vars, shared, snake, remote
  <2> QED BY <2>1, <2>2, <2>3 DEF Next, Remote
<1> QED BY <1>1, <1>2, PTL DEF Spec

\* No key has stored a direction since the last move, and that was straight.
LeftAlone == ~steered /\ moved[1] = moved[2]

\* Until it turns by chance, a snake left alone heads where it moved; after that,
\* anywhere but back, and what it has read of the direction still holds.
HeadsOn(s) ==
  /\ pc[s] \in {"gate", "stop", "check", "chance", "count", "turn"} => now_direction = moved[1]
  /\ pc[s] = "turn" => turned[s] # Opposite(moved[1])
  /\ pc[s] = "aimy" => aimed[s] = now_direction
  /\ now_direction # Opposite(moved[1])

HeadingInv == LeftAlone => \A s \in Snakes : HeadsOn(s)

LEMMA SnakeKeepsHeading ==
  ASSUME OneSnake, DirectionTypes, HeadingInv, NEW s \in Snakes, SnakeStep(s)
  PROVE  HeadingInv'
<1> SUFFICES ASSUME LeftAlone' PROVE HeadsOn(s)'
  BY DEF HeadingInv, OneSnake
<1>1. CASE Gate(s) \/ StopGate(s) \/ Check(s) \/ Count(s)
  BY <1>1 DEF Gate, StopGate, Check, Count, Goto, DirectionTypes, HeadingInv, HeadsOn, LeftAlone, shared
<1>2. CASE Chance(s)
  <2>1. HeadsOn(s) /\ now_direction = moved[1]
    BY <1>2 DEF Chance, Goto, HeadingInv, HeadsOn, LeftAlone
  <2>2. \A k \in 0 .. 2 : RandomTurn(k) # Opposite(moved[1])
    BY <2>1, Quarter DEF RandomTurn, DirectionTypes
  <2> QED BY <1>2, <2>1, <2>2 DEF Chance, Goto, DirectionTypes, HeadsOn, shared
<1>3. CASE StoreTurn(s)
  BY <1>3 DEF StoreTurn, Goto, DirectionTypes, HeadingInv, HeadsOn, LeftAlone
<1>4. CASE AimX(s)
  BY <1>4 DEF AimX, Goto, DirectionTypes, HeadingInv, HeadsOn, LeftAlone, shared
<1>5. CASE AimY(s)
  <2>1. pc'[s] = "gate" /\ now_direction' = now_direction /\ moved'[1] = now_direction
    BY <1>5 DEF AimY, Goto, DirectionTypes, LeftAlone, shared
  <2>2. now_direction # Opposite(now_direction)
    BY OppositeOther DEF DirectionTypes
  <2> QED BY <2>1, <2>2 DEF HeadsOn
<1> QED BY <1>1, <1>2, <1>3, <1>4, <1>5 DEF SnakeStep

LEMMA HeadingInvariant ==
  ASSUME OneSnake
  PROVE  Spec => []HeadingInv
<1>1. Init => HeadingInv
  <2> SUFFICES ASSUME Init, NEW s \in Snakes PROVE HeadsOn(s)
    BY DEF HeadingInv
  <2>1. pc[s] = "gate" /\ now_direction = 3 /\ moved[1] = 3
    BY DEF Init
  <2>2. Opposite(3) # 3
    BY OppositeOther DEF Direction
  <2> QED BY <2>1, <2>2 DEF HeadsOn
<1>2. DirectionTypes /\ HeadingInv /\ [Next]_vars => HeadingInv'
  <2> SUFFICES ASSUME DirectionTypes, HeadingInv, [Next]_vars PROVE HeadingInv'
    OBVIOUS
  <2>1. CASE \E s \in Snakes : SnakeStep(s)
    BY <2>1, SnakeKeepsHeading
  <2>2. CASE IrSteer \/ \E d \in Direction : KeyIsr(d)
    BY <2>2 DEF IrSteer, KeyIsr, HeadingInv, LeftAlone
  <2>3. CASE \/ IrPress \/ IrCompare \/ OverwriteTmp \/ ComeOrGo \/ UNCHANGED vars
             \/ \E d \in Direction : IrReceive(d)
    BY <2>3 DEF IrPress, IrCompare, OverwriteTmp, ComeOrGo, IrReceive, vars, shared, snake,
                HeadingInv, HeadsOn, LeftAlone
  <2> QED BY <2>1, <2>2, <2>3 DEF Next, Remote
<1> QED BY <1>1, <1>2, DirectionsTyped, PTL DEF Spec

LEMMA OnlyAimYEnds ==
  ASSUME OneSnake, Next, NEW s \in Snakes, pc[s] = "aimy", pc'[s] = "gate"
  PROVE  AimY(s)
<1>1. pc' # pc
  OBVIOUS
<1>2. PICK u \in Snakes : SnakeStep(u)
  BY <1>1 DEF Next, KeyIsr, Remote, IrReceive, IrPress, IrCompare, IrSteer, OverwriteTmp,
            ComeOrGo, snake
<1>3. u = s
  BY DEF OneSnake
<1> QED BY <1>2, <1>3 DEF SnakeStep, Gate, StopGate, Check, Chance, StoreTurn, Count, AimX, Goto

\* Left alone, the snake never turns back on itself.
THEOREM NoBackwardTurn ==
  ASSUME OneSnake
  PROVE  Spec => NoReversalByChance
<1>1. HeadingInv /\ DirectionTypes /\ [Next]_vars
      => [MoveEnds /\ ~steered /\ moved[1] = moved[2]
            => moved'[1] = moved'[2] /\ moved'[1] # Opposite(moved[1])]_vars
  <2> SUFFICES ASSUME HeadingInv, DirectionTypes, Next, MoveEnds, LeftAlone
               PROVE  moved'[1] = moved'[2] /\ moved'[1] # Opposite(moved[1])
    BY DEF LeftAlone
  <2>1. PICK s \in Snakes : pc[s] = "aimy" /\ pc'[s] = "gate"
    BY DEF MoveEnds
  <2>2. AimY(s)
    BY <2>1, OnlyAimYEnds
  <2>3. HeadsOn(s)
    BY DEF HeadingInv
  <2> QED BY <2>1, <2>2, <2>3 DEF AimY, HeadsOn
<1> QED BY <1>1, HeadingInvariant, DirectionsTyped, PTL DEF Spec, NoReversalByChance

-----------------------------------------------------------------------------
(* The key that was handled. *)

\* While the answer to a key stands, the snake cannot turn by chance, and what
\* it has read of the direction is the key's.
Obeys(s) ==
  /\ pc[s] \in {"gate", "stop", "check", "count", "aimx", "aimy"}
  /\ pc[s] \in {"gate", "stop", "check"} => snake_pressed > 0
  /\ pc[s] = "aimy" => aimed[s] = asked
AskedInv ==
  asked # NoDirection => /\ now_direction = asked /\ ir_pc = "idle"
                         /\ \A s \in Snakes : Obeys(s)

LEMMA SnakeKeepsAsked ==
  ASSUME OneSnake, DirectionTypes, CountInv, AskedInv, NEW s \in Snakes, SnakeStep(s)
  PROVE  AskedInv'
<1> SUFFICES ASSUME asked' # NoDirection
             PROVE  now_direction' = asked' /\ ir_pc' = "idle" /\ Obeys(s)'
  BY DEF AskedInv, OneSnake
<1>1. asked' = asked /\ now_direction = asked /\ ir_pc = "idle" /\ Obeys(s) /\ ir_pc' = ir_pc
  BY DEF SnakeStep, Gate, StopGate, Check, Chance, StoreTurn, Count, AimX, AimY, AskedInv, remote
<1>2. CASE Check(s)
  <2>1. snake_pressed \in Int /\ snake_pressed # 0
    BY <1>1, <1>2 DEF Check, Goto, Obeys, CountInv
  <2> QED BY <1>1, <1>2, <2>1 DEF Check, Goto, Obeys, DirectionTypes, shared
<1>3. CASE Gate(s) \/ StopGate(s) \/ Count(s) \/ AimX(s)
  BY <1>1, <1>3 DEF Gate, StopGate, Count, AimX, Goto, Obeys, DirectionTypes, shared
<1>4. CASE Chance(s) \/ StoreTurn(s)
  BY <1>1, <1>4 DEF Chance, StoreTurn, Goto, Obeys
<1>5. CASE AimY(s)
  BY <1>5 DEF AimY
<1> QED BY <1>2, <1>3, <1>4, <1>5 DEF SnakeStep

LEMMA KeysKeepAsked ==
  ASSUME DirectionTypes, CountInv, AskedInv,
         \/ \E d \in Direction : KeyIsr(d) \/ IrReceive(d)
         \/ IrPress \/ IrCompare \/ IrSteer \/ OverwriteTmp \/ ComeOrGo
  PROVE  AskedInv'
<1> SUFFICES ASSUME asked' # NoDirection
             PROVE  now_direction' = asked' /\ ir_pc' = "idle" /\ \A s \in Snakes : Obeys(s)'
  BY DEF AskedInv
<1>1. UNCHANGED <<pc, aimed>>
  <2>1. UNCHANGED snake
    BY DEF KeyIsr, IrReceive, IrPress, IrCompare, IrSteer, OverwriteTmp, ComeOrGo
  <2> QED BY <2>1 DEF snake
<1>2. CASE \E d \in Direction : KeyIsr(d)
  <2>1. BeforeTest /\ ir_pc' = "idle" /\ asked' = now_direction' /\ snake_pressed' = snake_max + 1
    BY <1>2 DEF KeyIsr, RestartTimer, remote
  <2> QED BY <1>1, <2>1, SteeringAssumption DEF BeforeTest, Obeys
<1>3. CASE IrCompare \/ IrSteer
  <2>1. BeforeTest /\ ir_pc' = "idle" /\ asked' = now_direction' /\ snake_pressed' > 0
    BY <1>3 DEF IrCompare, IrSteer, shared
  <2> QED BY <1>1, <2>1 DEF BeforeTest, Obeys
<1>4. CASE OverwriteTmp \/ ComeOrGo
  BY <1>1, <1>4 DEF OverwriteTmp, ComeOrGo, AskedInv, Obeys, shared, remote
<1>5. CASE IrPress \/ \E d \in Direction : IrReceive(d)
  BY <1>5 DEF IrPress, IrReceive, AskedInv
<1> QED BY <1>2, <1>3, <1>4, <1>5

\* A key that was handled before the snake tested the countdown decides the move,
\* whatever interrupts and threads do until then.
THEOREM HandledKeyDecides ==
  ASSUME OneSnake
  PROVE  Spec => SettledKeyDecides
<1>1. Init => AskedInv
  BY DEF Init, AskedInv
<1>2. DirectionTypes /\ CountInv /\ AskedInv /\ [Next]_vars => AskedInv'
  <2> SUFFICES ASSUME DirectionTypes, CountInv, AskedInv, [Next]_vars PROVE AskedInv'
    OBVIOUS
  <2>1. CASE UNCHANGED vars
    BY <2>1 DEF vars, shared, snake, remote, AskedInv, Obeys
  <2> QED BY <2>1, SnakeKeepsAsked, KeysKeepAsked DEF Next, Remote
<1>3. AskedInv /\ [Next]_vars
      => [MoveEnds /\ asked # NoDirection => moved' = <<asked, asked>>]_vars
  <2> SUFFICES ASSUME AskedInv, Next, MoveEnds, asked # NoDirection
               PROVE  moved' = <<asked, asked>>
    OBVIOUS
  <2>1. PICK s \in Snakes : pc[s] = "aimy" /\ pc'[s] = "gate"
    BY DEF MoveEnds
  <2>2. AimY(s)
    BY <2>1, OnlyAimYEnds
  <2> QED BY <2>1, <2>2 DEF AimY, AskedInv, Obeys
<1> QED BY <1>1, <1>2, <1>3, CountInvariant, DirectionsTyped, PTL DEF Spec, SettledKeyDecides

-----------------------------------------------------------------------------
\* Every reachable state is well typed, for any number of snakes and keys.
THEOREM TypeCorrect == Spec => []TypeOK
<1> USE SteeringAssumption
<1> DEFINE OnPage == on_page \in BOOLEAN /\ frozen \in BOOLEAN
           Rest == /\ snake_pressed \in -Depth .. snake_max + 1
                   /\ pc \in [Snakes -> {"gate", "stop", "check", "chance", "turn", "count", "aimx", "aimy"}]
                   /\ ir_pc \in {"idle", "press", "compare", "steer"}
                   /\ tmp_is_key \in BOOLEAN /\ keys \in 0 .. MaxKeys /\ steered \in BOOLEAN
                   /\ asked \in Direction \cup {NoDirection}
<1>1. Init => Rest
  <2> SUFFICES ASSUME Init PROVE Rest
    OBVIOUS
  <2>1. snake_pressed \in -Depth .. snake_max + 1 /\ keys \in 0 .. MaxKeys
    BY DEF Init
  <2>2. pc \in [Snakes -> {"gate", "stop", "check", "chance", "turn", "count", "aimx", "aimy"}]
    BY DEF Init
  <2>3. ir_pc = "idle" /\ tmp_is_key \in BOOLEAN /\ steered \in BOOLEAN /\ asked = NoDirection
    BY DEF Init
  <2> QED BY <2>1, <2>2, <2>3
<1>2. DirectionTypes /\ Rest /\ [Next]_vars => Rest'
  <2> SUFFICES ASSUME DirectionTypes, Rest, [Next]_vars PROVE Rest'
    OBVIOUS
  <2>1. ASSUME NEW s \in Snakes, SnakeStep(s) PROVE Rest'
    <3>1. UNCHANGED <<ir_pc, tmp_is_key, keys>> /\ (steered' = steered \/ steered' = FALSE)
          /\ (asked' = asked \/ asked' = NoDirection)
      BY <2>1 DEF SnakeStep, Gate, StopGate, Check, Chance, StoreTurn, Count, AimX, AimY, remote
    <3>2. snake_pressed' = snake_pressed \/ snake_pressed' = CountedDown(snake_pressed)
      BY <2>1 DEF SnakeStep, Gate, StopGate, Check, Chance, StoreTurn, Count, AimX, AimY, shared
    <3>3. CountedDown(snake_pressed) \in -Depth .. snake_max + 1
      BY DEF CountedDown
    <3>4. \E to \in {"gate", "stop", "check", "chance", "turn", "count", "aimx", "aimy"} : pc' = [pc EXCEPT ![s] = to]
      BY <2>1 DEF SnakeStep, Gate, StopGate, Check, Chance, StoreTurn, Count, AimX, AimY, Goto
    <3> QED BY <3>1, <3>2, <3>3, <3>4
  <2>2. ASSUME NEW d \in Direction, KeyIsr(d) PROVE Rest'
    <3>1. now_direction' \in Direction
      BY <2>2 DEF KeyIsr, DirectionTypes
    <3> QED BY <2>2, <3>1 DEF KeyIsr, RestartTimer, snake, remote
  <2>3. ASSUME NEW d \in Direction, IrReceive(d) PROVE Rest'
    BY <2>3 DEF IrReceive, shared, snake
  <2>4. CASE IrPress
    BY <2>4 DEF IrPress, RestartTimer, snake
  <2>5. CASE IrCompare \/ IrSteer
    <3>1. UNCHANGED <<snake_pressed, pc, tmp_is_key, keys>> /\ ir_pc' \in {"idle", "steer"}
          /\ (steered' = steered \/ steered' = TRUE) /\ asked' \in Direction \cup {NoDirection}
      BY <2>5 DEF IrCompare, IrSteer, DirectionTypes, shared, snake
    <3> QED BY <3>1
  <2>6. CASE OverwriteTmp \/ ComeOrGo \/ UNCHANGED vars
    BY <2>6 DEF OverwriteTmp, ComeOrGo, vars, shared, snake, remote
  <2> QED BY <2>1, <2>2, <2>3, <2>4, <2>5, <2>6 DEF Next, Remote
<1>3. Init => OnPage
  BY DEF Init
<1>4. OnPage /\ [Next]_vars => OnPage'
  <2> SUFFICES ASSUME OnPage, [Next]_vars PROVE OnPage'
    OBVIOUS
  <2>1. CASE ComeOrGo
    BY <2>1, Zenon DEF ComeOrGo
  <2>2. CASE UNCHANGED page
    BY <2>2, Zenon DEF page
  <2>3. ComeOrGo \/ UNCHANGED page
    BY Zenon DEF Next, SnakeStep, Gate, StopGate, Check, Chance, StoreTurn, Count, AimX, AimY, KeyIsr,
                 Remote, IrReceive, IrPress, IrCompare, IrSteer, OverwriteTmp, vars
  <2> QED BY <2>1, <2>2, <2>3, Zenon
<1>5. DirectionTypes /\ Rest /\ OnPage => TypeOK
  BY Zenon DEF DirectionTypes, TypeOK
<1> QED BY <1>1, <1>2, <1>3, <1>4, <1>5, DirectionsTyped, PTL DEF Spec
=============================================================================
