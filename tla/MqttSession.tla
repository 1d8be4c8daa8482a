----------------------------- MODULE MqttSession -----------------------------
(***************************************************************************)
(* The upload session that the OK key switches on page 4.  The remote      *)
(* control flips mqtt_enable (my_pro/myinfrared.c:62-66); the display      *)
(* thread, when it draws page 4, starts a session thread or destroys the   *)
(* client and deletes the thread (tmp_payload and mqt_init of              *)
(* my_pro/myproject.c); the session thread connects, subscribes and        *)
(* uploads, or returns when it cannot (mqtt_example_main); the kernel's    *)
(* idle thread frees what has ended (rt-thread/src/thread.c, idle.c).      *)
(* Sessions started from the shell are left out.                           *)
(***************************************************************************)
EXTENDS Integers, Sequences

CONSTANTS MaxKeys,    \* bound on the OK presses, hence on the sessions
          MayFail     \* no memory, no connection or a refused subscription

ASSUME SessionAssumption == MaxKeys \in Nat /\ MayFail \in BOOLEAN

VARIABLES
  page4,          \* page 4 is on show and not frozen
  mqtt_enable,    \* what the user wants
  last_stop,      \* what the display thread believes is running
  MQTT_Thread,    \* the handle of the last thread created; 0: RT_NULL
  display,        \* the display thread: "look", "delete", "create", "halted"
  client,         \* pclient, the client's owner; 0: NULL
  session,        \* per session: where its thread is
  object,         \* per session: the thread object's life
  defunct,        \* the kernel's queue of ended threads, last one first
  keys            \* OK presses so far

session_vars == <<page4, mqtt_enable, last_stop, MQTT_Thread, display, client, session,
          object, defunct, keys>>

Session == 1 .. MaxKeys

SessionTypeOK ==
  /\ page4 \in BOOLEAN /\ mqtt_enable \in {0, 1} /\ last_stop \in {0, 1}
  /\ MQTT_Thread \in 0 .. MaxKeys /\ client \in 0 .. MaxKeys
  /\ display \in {"look", "delete", "create", "halted"}
  /\ session \in [Session -> {"construct", "subscribe", "upload", "return"}]
  /\ object \in [Session -> {"none", "ready", "closed", "freed"}]
  /\ defunct \in Seq(Session)
  /\ keys \in 0 .. MaxKeys

-----------------------------------------------------------------------------
(* Slips a maintainer could make, one per definition below. *)
StartsWheneverEnabled == mqtt_enable = 1
NeverStops == FALSE
LeavesItRunning(t) == object' = object /\ defunct' = <<t>> \o defunct
-----------------------------------------------------------------------------

SessionInit ==
  /\ page4 = FALSE /\ mqtt_enable = 0 /\ last_stop = 0
  /\ MQTT_Thread = 0 /\ display = "look" /\ client = 0
  /\ session = [t \in Session |-> "construct"]
  /\ object = [t \in Session |-> "none"]
  /\ defunct = <<>> /\ keys = 0

\* rt_thread_close and rt_thread_defunct_enqueue: a thread that is already
\* closed is queued again all the same.
Close(t) == /\ object' = [object EXCEPT ![t] = "closed"]
            /\ defunct' = <<t>> \o defunct

-----------------------------------------------------------------------------
(* The remote control. *)

ComeOrGo ==
  /\ page4' = ~page4
  /\ UNCHANGED <<mqtt_enable, last_stop, MQTT_Thread, display, client, session,
                 object, defunct, keys>>

Switch == mqtt_enable' = (mqtt_enable + 1) % 2

SwitchKey ==
  /\ page4 /\ keys < MaxKeys /\ keys' = keys + 1
  /\ Switch
  /\ UNCHANGED <<page4, last_stop, MQTT_Thread, display, client, session, object, defunct>>

-----------------------------------------------------------------------------
(* The display thread on page 4. *)

WantsStop == mqtt_enable = 0 /\ last_stop = 1
WantsStart == mqtt_enable = 1 /\ last_stop = 0

\* IOT_MQTT_Destroy(&pclient) leaves NULL in it.
Disable ==
  /\ display = "look" /\ page4 /\ WantsStop
  /\ last_stop' = 0 /\ client' = 0
  /\ display' = "delete"
  /\ UNCHANGED <<page4, mqtt_enable, MQTT_Thread, session, object, defunct, keys>>

\* The object the handle names is still a thread, as rt_thread_delete asserts.
IsThread(t) == t # 0 /\ object[t] # "freed"

DeleteThread ==
  /\ display = "delete"
  /\ IF IsThread(MQTT_Thread)
       THEN Close(MQTT_Thread) /\ display' = "look"
       ELSE display' = "halted" /\ UNCHANGED <<object, defunct>>
  /\ UNCHANGED <<page4, mqtt_enable, last_stop, MQTT_Thread, client, session, keys>>

Enable ==
  /\ display = "look" /\ page4 /\ WantsStart
  /\ last_stop' = 1 /\ display' = "create"
  /\ UNCHANGED <<page4, mqtt_enable, MQTT_Thread, client, session, object, defunct, keys>>

\* mqt_init: last_stop stays set when there is no memory for the thread.
CreateThread ==
  /\ display = "create" /\ display' = "look"
  /\ \/ \E t \in Session :
          /\ object[t] = "none" /\ \A u \in 1 .. t - 1 : object[u] # "none"
          /\ MQTT_Thread' = t
          /\ object' = [object EXCEPT ![t] = "ready"]
     \/ MayFail /\ MQTT_Thread' = 0 /\ UNCHANGED object
  /\ UNCHANGED <<page4, mqtt_enable, last_stop, client, session, defunct, keys>>

-----------------------------------------------------------------------------
(* A session thread. *)

Step(t, from, to) ==
  /\ object[t] = "ready"
  /\ session[t] = from /\ session' = [session EXCEPT ![t] = to]
  /\ UNCHANGED <<page4, mqtt_enable, last_stop, MQTT_Thread, display, object, defunct, keys>>

Construct(t) == \/ Step(t, "construct", "subscribe") /\ client' = t
                \/ MayFail /\ Step(t, "construct", "return") /\ client' = 0

\* The handle is the global one, whoever put it there.
Subscribe(t) == \/ client # 0 /\ Step(t, "subscribe", "upload") /\ UNCHANGED client
                \/ (MayFail \/ client = 0) /\ Step(t, "subscribe", "return") /\ client' = 0

\* Returning from the entry function runs _thread_exit.
Exit(t) ==
  /\ object[t] = "ready" /\ session[t] = "return"
  /\ Close(t)
  /\ UNCHANGED <<page4, mqtt_enable, last_stop, MQTT_Thread, display, client, session, keys>>

\* The idle thread takes the first of the queue and frees it.  A thread
\* queued twice would be freed twice: the model stops there.  A failed
\* assertion spins in the display thread, above the idle thread's priority.
Reap ==
  /\ display # "halted"
  /\ defunct # <<>> /\ object[Head(defunct)] = "closed"
  /\ object' = [object EXCEPT ![Head(defunct)] = "freed"]
  /\ defunct' = Tail(defunct)
  /\ UNCHANGED <<page4, mqtt_enable, last_stop, MQTT_Thread, display, client, session, keys>>

-----------------------------------------------------------------------------
Display == Disable \/ DeleteThread \/ Enable \/ CreateThread
Run(t) == Construct(t) \/ Subscribe(t) \/ Exit(t)

SessionNext == \/ ComeOrGo \/ SwitchKey \/ Display \/ Reap
        \/ \E t \in Session : Run(t)

SessionSpec == SessionInit /\ [][SessionNext]_session_vars
FairSessionSpec == SessionSpec /\ WF_session_vars(Display)
                 /\ \A t \in Session : WF_session_vars(Run(t))
-----------------------------------------------------------------------------
(* Properties. *)

\* last_stop keeps the display thread from starting a session over a running
\* one, also when key presses come faster than page 4 is drawn.
OneSession == \A t, u \in Session : object[t] = "ready" /\ object[u] = "ready" => t = u

NoneReady == \A t \in Session : object[t] # "ready"

\* The session named by the handle runs with a client of its own; or it failed,
\* for want of memory for its thread or by itself.
Uploads == /\ MQTT_Thread # 0 /\ client = MQTT_Thread
           /\ object[MQTT_Thread] = "ready" /\ session[MQTT_Thread] = "upload"
Failed == MayFail /\ (MQTT_Thread = 0 \/ session[MQTT_Thread] = "return")

\* On page 4 the session, not only the display thread's belief in last_stop,
\* ends up as the switch says, whatever was pressed before: uploading when it
\* is on, no thread left when it is off.  The code gives up in two cases: a
\* session that failed is not started again until the switch is turned off and
\* on (myproject.c:265), and an assertion halts the display thread.
SessionFollowsSwitch ==
  <>[]page4 => <>[](\/ display = "halted"
                    \/ mqtt_enable = 0 /\ NoneReady
                    \/ mqtt_enable = 1 /\ (Uploads \/ Failed))

\* When the display thread has acted on a switch that is off, no session
\* thread is left running: the handle still names the one that does.
OffMeansOff == display = "look" /\ last_stop = 0 => NoneReady

\* thread.c:567-568: rt_thread_delete asserts that it is given a thread.
DeleteGetsAThread == display = "delete" => IsThread(MQTT_Thread)
=============================================================================
