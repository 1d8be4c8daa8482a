----------------------------- MODULE DisplayProofs -----------------------------
(***************************************************************************)
(* The display thread's two roles.  Pages: for any number of pages and     *)
(* inputs, freezing works, each of the two drawing threads finishes at     *)
(* most the drawing it was in.  MqttSession: for any number of key presses,*)
(* and failures wherever they may fall, the display thread never has two   *)
(* sessions running, and none when it has acted on a switch that is off.   *)
(***************************************************************************)
EXTENDS Pages, MqttSession, SequenceTheorems, TLAPS


\* The part of TypeOK that the proof needs.
PcType == pc = [t \in Thread |-> pc[t]] /\ late \in [Drawer -> Nat]

\* A step moves at most one thread.
OneMoves == pc' = pc \/ \E t \in Thread : \E to : pc' = [pc EXCEPT ![t] = to]

LEMMA PcTyped == Spec => []PcType
<1>1. Init => PcType
  BY DEF Init, FlagsInit, PcType, Thread, Drawer, Turner
<1>2. PcType /\ [Next]_vars => PcType'
  <2> SUFFICES ASSUME PcType, [Next]_vars PROVE PcType'
    OBVIOUS
  <2>1. late' \in [Drawer -> Nat]
    BY DEF PcType, Next, SnakeThread, DisplayThread, FinishKey, Keys, Draw, Undrawn, Paint,
           Content, OkKey, DrawBanner, screen, vars
  <2>2. OneMoves
    <3>1. ASSUME NEW t \in Drawer, Draw(t) PROVE OneMoves
      BY <3>1 DEF Draw, PassGates, Gate, StopGate, First, Clear, Paint, Painted, Content, Drawn,
                  Goto, Leave, OneMoves, Thread
    <3>2. CASE TurnPage("display") \/ Wave \/ NoWave \/ FinishKey \/ Keys
      BY <3>2 DEF TurnPage, Wave, NoWave, FinishKey, Keys, ReadPage, StorePage, AskRedisplay,
                  MenuKey, OkKey, ToggleStop, DrawBanner, Goto, OneMoves, Thread, Turner
    <3>3. CASE UNCHANGED vars
      BY <3>3 DEF vars, threads, OneMoves
    <3> QED BY <3>1, <3>2, <3>3 DEF Next, SnakeThread, DisplayThread, Drawer
  <2> QED BY <2>1, <2>2 DEF PcType, OneMoves
<1> QED BY <1>1, <1>2, PTL DEF Spec

-----------------------------------------------------------------------------
\* A thread inside its drawing, or past its gate.
Inside == {"first", "clear", "paint", "content"}

\* Nothing is counted while the page runs; what was counted since the freeze is
\* one drawing at most, and none by a thread still inside the drawing it was in.
FreezeInv ==
  \A t \in Drawer : /\ late[t] \in {0, 1}
                    /\ page_stop = 0 \/ pc[t] \in Inside => late[t] = 0

LEMMA DrawKeepsFreeze ==
  ASSUME PcType, FreezeInv, NEW t \in Drawer, Draw(t)
  PROVE  FreezeInv'
<1>1. page_stop' = page_stop
  BY DEF Draw, PassGates, Gate, StopGate, First, Clear, Paint, Painted, Content, Drawn, flags
<1>2. t \in Thread
  BY DEF Thread
<1>3. CASE Gate(t) /\ Undrawn
  <2>1. \E to \in {"stop", "gate", "wave"} : pc' = [pc EXCEPT ![t] = to]
    BY <1>3 DEF Gate, Goto, Leave
  <2> QED BY <1>1, <1>2, <1>3, <2>1 DEF Undrawn, FreezeInv, PcType, Inside, screen, Thread
<1>4. CASE StopGate(t) /\ Undrawn
  <2>1. \/ pc' = [pc EXCEPT ![t] = "first"] /\ page_stop = 0
        \/ \E to \in {"gate", "wave"} : pc' = [pc EXCEPT ![t] = to]
    BY <1>4 DEF StopGate, Goto, Leave, Running
  <2> QED BY <1>1, <1>2, <1>4, <2>1 DEF Undrawn, FreezeInv, PcType, Inside, screen, Thread
<1>5. CASE ((First(t) \/ Clear(t)) /\ Undrawn) \/ Paint(t)
  <2>1. pc[t] \in Inside /\ \E to : pc' = [pc EXCEPT ![t] = to]
    BY <1>5 DEF First, Clear, Paint, Painted, Goto, Inside
  <2>2. late' = late
    BY <1>5 DEF Paint, Undrawn, screen
  <2> QED BY <1>1, <1>2, <2>1, <2>2 DEF FreezeInv, PcType, Inside, Thread
<1>6. CASE Content(t)
  <2>1. pc[t] = "content" /\ \E to \in {"gate", "wave"} : pc' = [pc EXCEPT ![t] = to]
    BY <1>6 DEF Content, Drawn, Leave, Goto
  <2>2. late' = IF page_stop = 1 THEN [late EXCEPT ![t] = @ + 1] ELSE late
    BY <1>6 DEF Content
  <2>3. late[t] = 0
    BY <2>1 DEF FreezeInv, Inside
  <2> QED BY <1>1, <1>2, <2>1, <2>2, <2>3 DEF FreezeInv, PcType, Inside, Thread
<1> QED BY <1>3, <1>4, <1>5, <1>6 DEF Draw, PassGates

LEMMA FreezeInvariant == Spec => []FreezeInv
<1>1. Init => FreezeInv
  BY DEF Init, FreezeInv
<1>2. PcType /\ FreezeInv /\ [Next]_vars => FreezeInv'
  <2> SUFFICES ASSUME PcType, FreezeInv, [Next]_vars PROVE FreezeInv'
    OBVIOUS
  <2>1. CASE \E t \in Drawer : Draw(t)
    BY <2>1, DrawKeepsFreeze
  <2>2. CASE OkKey
    BY <2>2 DEF OkKey, FreezeInv
  <2>3. CASE \E t \in Turner, to \in {"turn", "flag", "idle", "gate"} :
               pc' = [pc EXCEPT ![t] = to] /\ UNCHANGED <<late, page_stop>>
    BY <2>3 DEF FreezeInv, PcType, Inside, Thread
  <2>4. CASE UNCHANGED vars
    BY <2>4 DEF vars, flags, threads, screen, FreezeInv
  <2>5. CASE ((TurnPage("display") \/ Wave \/ NoWave \/ MenuKey) /\ Undrawn) \/ FinishKey
    <3>1. UNCHANGED <<late, page_stop>>
      BY <2>5 DEF FinishKey, TurnPage, ReadPage, StorePage, AskRedisplay, Wave, NoWave, MenuKey,
                  DrawBanner, Undrawn, flags, screen
    <3>2. \E t \in Turner, to \in {"turn", "flag", "idle", "gate"} : pc' = [pc EXCEPT ![t] = to]
      BY <2>5 DEF FinishKey, TurnPage, ReadPage, StorePage, AskRedisplay, Wave, NoWave, MenuKey,
                  DrawBanner, Goto, Turner
    <3> QED BY <2>3, <3>1, <3>2
  <2> QED BY <2>1, <2>2, <2>4, <2>5
          DEF Next, SnakeThread, DisplayThread, Keys, Drawer
<1> QED BY <1>1, <1>2, PcTyped, PTL DEF Spec

\* After a freeze a drawing thread finishes at most one drawing.
THEOREM PromptFreeze == Spec => []FreezeIsPrompt
<1>1. FreezeInv => FreezeIsPrompt
  BY DEF FreezeInv, FreezeIsPrompt
<1> QED BY <1>1, FreezeInvariant, PTL

-----------------------------------------------------------------------------
(* Types. *)

LEMMA NextPageType == \A p \in Page : NextPage(p) \in Page
BY PagesAssumption, Z3 DEF NextPage, Page

\* A drawer stays among the pages there are.
LEMMA LeaveType ==
  ASSUME NEW t \in Drawer, NEW from, Leave(t, from), at \in [Drawer -> Page]
  PROVE  at' \in [Drawer -> Page]
<1> USE PagesAssumption
<1>1. at[t] \in Nat /\ at[t] >= 1 /\ 1 \in Page /\ 2 \in Page
  BY DEF Page
<1>2. CASE t = "display" /\ at[t] < PAGE_MAX
  <2>1. at[t] + 1 \in Page /\ at' = [at EXCEPT ![t] = at[t] + 1]
    BY <1>1, <1>2 DEF Leave, Page
  <2> QED BY <2>1
<1>3. CASE ~(t = "display" /\ at[t] < PAGE_MAX)
  <2>1. at' = [at EXCEPT ![t] = 1] \/ at' = [at EXCEPT ![t] = 2]
    BY <1>3 DEF Leave
  <2> QED BY <1>1, <2>1
<1> QED BY <1>2, <1>3

LEMMA DrawKeepsType ==
  ASSUME TypeOK, NEW t \in Drawer, Draw(t)
  PROVE  TypeOK'
<1> USE PagesAssumption
<1> DEFINE Positions == {"gate", "stop", "first", "paint", "clear", "content",
                         "wave", "idle", "turn", "flag", "banner"}
<1>1. UNCHANGED <<page_chosen, page_stop, turn, inputs>> /\ page_first' \in {0, 1}
  BY DEF Draw, PassGates, Gate, StopGate, First, Clear, Paint, Painted, Content, Drawn, Cleared,
         flags, TypeOK, FlagsOK
<1>2. \E to \in Positions : pc' = [pc EXCEPT ![t] = to]
  <2>1. CASE First(t)
    <3>1. page_first = 0 \/ page_first = 1
      BY DEF TypeOK, FlagsOK
    <3>2. t = "snake" \/ t = "display"
      BY DEF Drawer
    <3>3. CASE page_first = 0
      BY <2>1, <3>3 DEF First, Goto
    <3>4. CASE page_first = 1 /\ t = "snake"
      BY <2>1, <3>4 DEF First, Goto
    <3>5. CASE page_first = 1 /\ t = "display"
      BY <2>1, <3>5 DEF First, Goto
    <3> QED BY <3>1, <3>2, <3>3, <3>4, <3>5
  <2>2. CASE Gate(t) \/ StopGate(t) \/ Clear(t) \/ Paint(t) \/ Content(t)
    BY <2>2 DEF Gate, StopGate, Clear, Paint, Painted, Content, Drawn, Goto, Leave
  <2> QED BY <2>1, <2>2 DEF Draw, PassGates
<1>3. pc' \in [Thread -> Positions]
  BY <1>2 DEF TypeOK
<1>4. at' = at \/ \E from : Leave(t, from)
  BY DEF Draw, PassGates, Gate, StopGate, First, Clear, Paint, Painted, Content, Drawn
<1>5. at' \in [Drawer -> Page]
  BY <1>4, LeaveType DEF TypeOK, FlagsOK
<1>6. /\ canvas' \in 0 .. PAGE_MAX /\ shown' \in 0 .. PAGE_MAX
      /\ banner' \in BOOLEAN /\ late' \in [Drawer -> Nat]
  <2>1. at[t] \in 0 .. PAGE_MAX
    BY DEF TypeOK, FlagsOK, Page
  <2>2. (canvas' = canvas \/ canvas' = at[t]) /\ (shown' = shown \/ shown' = at[t])
        /\ (banner' = banner \/ banner' = FALSE)
    BY DEF Draw, Undrawn, Paint, Content, screen
  <2>3. late' = late \/ late' = [late EXCEPT ![t] = late[t] + 1]
    BY DEF Draw, Undrawn, Paint, Content, screen
  <2>4. late[t] + 1 \in Nat /\ late \in [Drawer -> Nat] /\ banner \in BOOLEAN
    BY DEF TypeOK
  <2>5. late' \in [Drawer -> Nat]
    BY <2>3, <2>4
  <2>6. banner' \in BOOLEAN
    BY <2>2, <2>4
  <2> QED BY <2>1, <2>2, <2>5, <2>6 DEF TypeOK
<1> QED BY <1>1, <1>3, <1>5, <1>6 DEF TypeOK, FlagsOK

LEMMA TurnKeepsType ==
  ASSUME TypeOK, NEW t \in Turner, NEW from, TurnPage(t) \/ ReadPage(t, from), Undrawn
  PROVE  TypeOK'
<1> USE PagesAssumption
<1>1. \E to \in {"turn", "flag", "idle", "gate"} : pc' = [pc EXCEPT ![t] = to]
  BY DEF TurnPage, StorePage, AskRedisplay, ReadPage, Goto
<1>2. NextPage(page_chosen) \in Page /\ turn[t] \in Page /\ 1 \in Page
  BY NextPageType DEF TypeOK, FlagsOK, Page
<1>3. /\ page_chosen' \in Page /\ page_first' \in {0, 1} /\ page_stop' = page_stop
      /\ turn' \in [Turner -> Page] /\ inputs' \in 0 .. MaxInputs
      /\ UNCHANGED <<at, canvas, shown, banner, late>>
  BY <1>2 DEF TurnPage, StorePage, AskRedisplay, ReadPage, TypeOK, FlagsOK, flags, Undrawn, screen
<1> QED BY <1>1, <1>3 DEF TypeOK, FlagsOK

\* Every reachable state is well typed, for any number of pages: two threads that
\* turn the page at once never choose one there is not.
THEOREM PagesTypeCorrect == Spec => []TypeOK
<1> USE PagesAssumption
<1>1. Init => TypeOK
  <2> SUFFICES ASSUME Init PROVE TypeOK
    OBVIOUS
  <2>1. 1 \in Page /\ 2 \in Page /\ 0 \in 0 .. PAGE_MAX
    BY DEF Page
  <2>2. /\ \A t \in Thread : pc[t] \in {"idle", "gate"}
        /\ pc = [t \in Thread |-> pc[t]]
    BY DEF Init, FlagsInit
  <2>3. late \in [Drawer -> Nat] /\ inputs \in 0 .. MaxInputs
    BY DEF Init, FlagsInit
  <2>4. banner \in BOOLEAN
    BY DEF Init
  <2>5. FlagsOK
    BY <2>1, <2>3 DEF Init, FlagsInit, FlagsOK
  <2> QED BY <2>1, <2>2, <2>3, <2>4, <2>5 DEF Init, TypeOK
<1>2. TypeOK /\ [Next]_vars => TypeOK'
  <2> SUFFICES ASSUME TypeOK, [Next]_vars PROVE TypeOK'
    OBVIOUS
  <2>1. CASE \E t \in Drawer : Draw(t)
    BY <2>1, DrawKeepsType
  <2>2. CASE (TurnPage("display") \/ TurnPage("remote") \/ Wave \/ MenuKey) /\ Undrawn
    BY <2>2, TurnKeepsType DEF Wave, MenuKey, Turner
  <2>3. CASE NoWave /\ Undrawn
    BY <2>3 DEF NoWave, Goto, TypeOK, FlagsOK, flags, Undrawn, screen
  <2>4. CASE OkKey
    <3>1. late' \in [Drawer -> Nat] /\ page_stop' \in {0, 1} /\ inputs' \in 0 .. MaxInputs
      BY <2>4 DEF OkKey, ToggleStop, TypeOK, FlagsOK
    <3>2. pc' = [pc EXCEPT !["remote"] = "banner"]
      BY <2>4 DEF OkKey, ToggleStop, Goto
    <3>3. UNCHANGED <<page_chosen, page_first, at, turn, canvas, shown, banner>>
      BY <2>4 DEF OkKey, ToggleStop
    <3> QED BY <3>1, <3>2, <3>3 DEF TypeOK, FlagsOK
  <2>5. CASE DrawBanner
    <3>1. (page_stop = 1) \in BOOLEAN
      OBVIOUS
    <3>2. banner' \in BOOLEAN
      BY <2>5, <3>1, Zenon DEF DrawBanner
    <3> QED BY <2>5, <3>2 DEF DrawBanner, Goto, TypeOK, FlagsOK, flags
  <2>6. CASE UNCHANGED vars
    BY <2>6 DEF vars, flags, threads, screen, TypeOK, FlagsOK
  <2> QED BY <2>1, <2>2, <2>3, <2>4, <2>5, <2>6
          DEF Next, SnakeThread, DisplayThread, FinishKey, Keys, Drawer
<1> QED BY <1>1, <1>2, PTL DEF Spec

-----------------------------------------------------------------------------
(* The upload session. *)


LEMMA CloseType ==
  ASSUME NEW t \in Session, defunct \in Seq(Session), Close(t),
         object \in [Session -> {"none", "ready", "closed", "freed"}]
  PROVE  /\ defunct' \in Seq(Session)
         /\ object' \in [Session -> {"none", "ready", "closed", "freed"}]
<1>1. <<t>> \in Seq(Session)
  OBVIOUS
<1>2. defunct' = <<t>> \o defunct
  BY DEF Close
<1>3. defunct' \in Seq(Session)
  BY <1>1, <1>2, ConcatProperties
<1>4. object' = [object EXCEPT ![t] = "closed"]
  BY DEF Close
<1> QED BY <1>3, <1>4

\* Every reachable state is well typed, whoever ends a session and however
\* often.
THEOREM SessionTypeCorrect == SessionSpec => []SessionTypeOK
<1>1. SessionInit => SessionTypeOK
  <2> SUFFICES ASSUME SessionInit PROVE SessionTypeOK
    OBVIOUS
  <2>0. page4 = FALSE /\ defunct = <<>>
    BY DEF SessionInit
  <2>1. defunct \in Seq(Session) /\ page4 \in BOOLEAN
    <3>1. <<>> \in Seq(Session)
      OBVIOUS
    <3> QED BY <2>0, <3>1, Zenon
  <2>2. /\ mqtt_enable \in {0, 1} /\ last_stop \in {0, 1} /\ display = "look"
        /\ MQTT_Thread \in 0 .. MaxKeys /\ client \in 0 .. MaxKeys /\ keys \in 0 .. MaxKeys
    BY SessionAssumption DEF SessionInit
  <2>3. /\ session \in [Session -> {"construct", "subscribe", "upload", "return"}]
        /\ object \in [Session -> {"none", "ready", "closed", "freed"}]
    BY DEF SessionInit
  <2> QED BY <2>1, <2>2, <2>3 DEF SessionTypeOK
<1>2. SessionTypeOK /\ [SessionNext]_session_vars => SessionTypeOK'
  <2> SUFFICES ASSUME SessionTypeOK, [SessionNext]_session_vars PROVE SessionTypeOK'
    OBVIOUS
  <2> USE SessionAssumption
  <2>1. CASE ComeOrGo
    BY <2>1 DEF SessionTypeOK, ComeOrGo
  <2>2. CASE SwitchKey
    BY <2>2 DEF SessionTypeOK, SwitchKey, Switch
  <2>3. CASE Disable
    BY <2>3 DEF SessionTypeOK, Disable
  <2>4. CASE DeleteThread
    <3>1. CASE IsThread(MQTT_Thread)
      <4>1. MQTT_Thread \in Session /\ Close(MQTT_Thread)
        BY <2>4, <3>1 DEF SessionTypeOK, IsThread, Session, DeleteThread
      <4>2. /\ defunct' \in Seq(Session)
            /\ object' \in [Session -> {"none", "ready", "closed", "freed"}]
        BY <4>1, CloseType DEF SessionTypeOK
      <4> QED BY <2>4, <3>1, <4>2 DEF SessionTypeOK, DeleteThread
    <3>2. CASE ~IsThread(MQTT_Thread)
      BY <2>4, <3>2 DEF SessionTypeOK, DeleteThread
    <3> QED BY <3>1, <3>2
  <2>5. CASE Enable
    BY <2>5 DEF SessionTypeOK, Enable
  <2>6. CASE CreateThread
    BY <2>6 DEF SessionTypeOK, CreateThread, Session
  <2>7. CASE Reap
    <3>1. defunct \in Seq(Session) /\ defunct # <<>>
      BY <2>7 DEF SessionTypeOK, Reap
    <3>2. Head(defunct) \in Session /\ Tail(defunct) \in Seq(Session)
      BY <3>1, HeadTailProperties
    <3> QED BY <2>7, <3>2 DEF SessionTypeOK, Reap
  <2>8. ASSUME NEW t \in Session, Construct(t) PROVE SessionTypeOK'
    BY <2>8 DEF SessionTypeOK, Construct, Step, Session
  <2>9. ASSUME NEW t \in Session, Subscribe(t) PROVE SessionTypeOK'
    <3>1. /\ client' \in {client, 0}
          /\ \E to \in {"upload", "return"} : Step(t, "subscribe", to)
      BY <2>9 DEF Subscribe
    <3> QED BY <3>1 DEF SessionTypeOK, Step
  <2>10. ASSUME NEW t \in Session, Exit(t) PROVE SessionTypeOK'
    <3>1. /\ defunct' \in Seq(Session)
          /\ object' \in [Session -> {"none", "ready", "closed", "freed"}]
      BY <2>10, CloseType DEF SessionTypeOK, Exit
    <3> QED BY <2>10, <3>1 DEF SessionTypeOK, Exit
  <2>11. CASE UNCHANGED session_vars
    BY <2>11 DEF SessionTypeOK, session_vars
  <2> QED BY <2>1, <2>2, <2>3, <2>4, <2>5, <2>6, <2>7, <2>8, <2>9, <2>10, <2>11
          DEF SessionNext, Display, Run
<1> QED BY <1>1, <1>2, PTL DEF SessionSpec

-----------------------------------------------------------------------------
(* The invariant: the only thread that may be running is the one the handle *)
(* names, and last_stop is ahead of it only while the display thread is in  *)
(* between the flag and the kernel call.                                    *)

SwitchInv ==
  /\ \A t \in Session : object[t] = "ready" => t = MQTT_Thread
  /\ display = "create" => last_stop = 1 /\ NoneReady
  /\ display = "delete" => last_stop = 0
  /\ display = "look" /\ last_stop = 0 => NoneReady

\* Once created, a thread is never made ready again.
LEMMA OnlyCreationMakesReady ==
  ASSUME SessionTypeOK, [SessionNext]_session_vars, ~CreateThread
  PROVE  \A t \in Session : object'[t] = "ready" => object[t] = "ready"
BY DEF SessionTypeOK, SessionNext, Display, Run, session_vars, ComeOrGo, SwitchKey, Disable, DeleteThread, Close, Enable,
       Reap, Construct, Subscribe, Step, Exit

LEMMA SwitchInvariant == SessionSpec => []SwitchInv
<1>1. SessionInit => SwitchInv
  BY DEF SessionInit, SwitchInv, NoneReady
<1>2. SessionTypeOK /\ SwitchInv /\ [SessionNext]_session_vars => SwitchInv'
  <2> SUFFICES ASSUME SessionTypeOK, SwitchInv, [SessionNext]_session_vars PROVE SwitchInv'
    OBVIOUS
  <2>1. CASE Disable
    BY <2>1 DEF Disable, SwitchInv, NoneReady, WantsStop
  <2>2. CASE Enable
    BY <2>2 DEF Enable, SwitchInv, NoneReady, WantsStart
  <2>3. CASE DeleteThread
    <3>1. UNCHANGED <<MQTT_Thread, last_stop>> /\ last_stop = 0
      BY <2>3 DEF DeleteThread, SwitchInv
    <3>2. \A t \in Session : object'[t] = "ready" => object[t] = "ready"
      BY <2>3, OnlyCreationMakesReady DEF DeleteThread, CreateThread
    <3>3. CASE IsThread(MQTT_Thread)
      <4>1. object' = [object EXCEPT ![MQTT_Thread] = "closed"] /\ display' = "look"
        BY <2>3, <3>3 DEF DeleteThread, Close
      <4>2. NoneReady'
        BY <3>2, <4>1 DEF NoneReady, SwitchInv, SessionTypeOK
      <4> QED BY <3>1, <4>1, <4>2 DEF SwitchInv, NoneReady
    <3>4. CASE ~IsThread(MQTT_Thread)
      BY <2>3, <3>1, <3>4 DEF DeleteThread, SwitchInv
    <3> QED BY <3>3, <3>4
  <2>4. CASE CreateThread
    BY <2>4 DEF CreateThread, SwitchInv, NoneReady, SessionTypeOK
  <2>5. CASE UNCHANGED <<display, last_stop, MQTT_Thread>> /\ ~CreateThread
    BY <2>5, OnlyCreationMakesReady DEF SwitchInv, NoneReady
  <2>6. \/ Disable \/ Enable \/ DeleteThread \/ CreateThread
        \/ UNCHANGED <<display, last_stop, MQTT_Thread>>
    BY DEF SessionNext, Display, Run, session_vars, ComeOrGo, SwitchKey, Reap, Construct, Subscribe, Step, Exit
  <2> QED BY <2>1, <2>2, <2>3, <2>4, <2>5, <2>6
<1> QED BY <1>1, <1>2, SessionTypeCorrect, PTL DEF SessionSpec

\* At most one session thread runs, however many key presses fall between two
\* drawings of page 4 and whatever fails.
THEOREM AtMostOneSession == SessionSpec => []OneSession
<1>1. SwitchInv => OneSession
  BY DEF SwitchInv, OneSession
<1> QED BY <1>1, SwitchInvariant, PTL

\* When the display thread is between two looks at a switch it has turned off,
\* no session thread runs.
THEOREM OffIsOff == SessionSpec => []OffMeansOff
<1>1. SwitchInv => OffMeansOff
  BY DEF SwitchInv, OffMeansOff, NoneReady
<1> QED BY <1>1, SwitchInvariant, PTL
=============================================================================
