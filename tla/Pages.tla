-------------------------------- MODULE Pages --------------------------------
(***************************************************************************)
(* Four pages share one screen (the flags and the threads of PageFlags):   *)
(* what is drawn, and which page it belongs to.  A drawing is one step.    *)
(* What the display thread does for MQTT on page 4 is modelled in          *)
(* MqttSession, what the snake thread draws in SnakeGame.                  *)
(***************************************************************************)
EXTENDS PageFlags

VARIABLES
  canvas,        \* the page whose background was painted last; 0: none
  shown,         \* the page whose content was drawn last; 0: none
  banner,        \* the "Stop" text is on the screen
  late           \* history, per drawer: contents drawn since the freeze

screen == <<canvas, shown, banner, late>>
vars == <<flags, threads, screen, inputs>>

TypeOK ==
  /\ FlagsOK
  /\ pc \in [Thread -> {"gate", "stop", "first", "paint", "clear", "content",
                        "wave", "idle", "turn", "flag", "banner"}]
  /\ canvas \in 0 .. PAGE_MAX /\ shown \in 0 .. PAGE_MAX
  /\ banner \in BOOLEAN
  /\ late \in [Drawer -> Nat]

Init ==
  /\ FlagsInit
  /\ canvas = 0 /\ shown = 0 /\ banner = FALSE
  /\ late = [t \in Drawer |-> 0]

-----------------------------------------------------------------------------
\* The background covers the whole screen, the "Stop" text included.
Paint(t) ==
  /\ Painted(t, IF t = "snake" THEN "content" ELSE "clear")
  /\ canvas' = at[t] /\ banner' = FALSE
  /\ UNCHANGED <<shown, late>>

Content(t) ==
  /\ Drawn(t)
  /\ shown' = at[t]
  /\ late' = IF page_stop = 1 THEN [late EXCEPT ![t] = @ + 1] ELSE late
  /\ UNCHANGED <<canvas, banner>>

OkKey ==
  /\ ToggleStop("banner")
  /\ late' = [t \in Drawer |-> 0]
  /\ UNCHANGED <<canvas, shown, banner>>

\* Only this thread writes page_stop, so the text it draws fits the flag.
DrawBanner ==
  /\ Goto("remote", "banner", "idle")
  /\ banner' = (page_stop = 1)
  /\ UNCHANGED <<flags, at, turn, canvas, shown, inputs, late>>

-----------------------------------------------------------------------------
Undrawn == UNCHANGED screen

Draw(t) == (PassGates(t) /\ Undrawn) \/ Paint(t) \/ Content(t)

SnakeThread == Draw("snake")
DisplayThread == Draw("display") \/ ((TurnPage("display") \/ Wave \/ NoWave) /\ Undrawn)
FinishKey == (TurnPage("remote") /\ Undrawn) \/ DrawBanner
Keys == (MenuKey /\ Undrawn) \/ OkKey

Next == SnakeThread \/ DisplayThread \/ FinishKey \/ Keys

Spec == Init /\ [][Next]_vars
\* Equal priorities and time slices; nobody has to press a key.
FairSpec == Spec /\ WF_vars(SnakeThread) /\ WF_vars(DisplayThread) /\ WF_vars(FinishKey)
-----------------------------------------------------------------------------
(* Properties. *)

\* Whatever order pages are turned in by two threads, once that ends and the
\* page runs, the page on show is the one whose content is drawn, and no request
\* for a redisplay is left over, for good (myproject.c:220-229, 272-275).
ShownFollowsChosen == <>[](page_stop = 1 \/ (shown = page_chosen /\ page_first = 0))

\* After a freeze a thread finishes at most the drawing it was in
\* (mysnake.c:62, myproject.c:220, 231, 242).
FreezeIsPrompt == \A t \in Drawer : late[t] <= 1

\* mysnake.c:64: a page just switched to is redisplayed.  In the end a
\* running page stands on its own background.
PageOnItsBackground == <>[](page_stop = 1 \/ canvas = page_chosen)

=============================================================================
