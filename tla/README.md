# SumProject in TLA+

SumProject is firmware for a STM32F407 board with RT-Thread: a snake game, a
clock, a page of sensor readings and an upload to a cloud share one 240x240
screen, and are driven by four keys and an infrared remote control. The project's
own program is `my_pro/` and `applications/`; the rest of the repository is the
RT-Thread kernel, its components and vendor libraries.

This directory holds models of that program (TLA+), the configurations that
check them with TLC, and proofs checked by TLAPS. `PROJECT.json` lists the runs,
the source lines of every definition, the mutants that show each property can
fail, the hazards and the findings.

## 1. The system

### Threads, interrupts and what they share

| Actor | Code | Writes | Reads |
| --- | --- | --- | --- |
| snake thread, a move every 900 ms | `my_pro/mysnake.c` | the ring of body cells, fruit, `snake_len`, `now_direction` (random turn), `snake_pressed` (countdown), `page_first`, screen | `page_chosen`, `page_stop` |
| display thread, a round every 100 ms | `my_pro/myproject.c`, `tmp_payload`, `test_lcd` | screen, `page_first`, `page_chosen` (hand over the proximity sensor), `last_stop`, `MQTT_Thread`, `pclient`, `tmp` | `page_*`, `mqtt_enable`, `snake_len` |
| remote-control thread, every 50 ms | `my_pro/myinfrared.c` | `tmp`, `snake_pressed`, `now_direction`, `page_*`, `mqtt_enable`, screen | the same |
| key interrupts | `my_pro/pin_irq_example.c` | `snake_pressed`, `now_direction` | `now_direction` |
| session thread, from switch-on to switch-off | `my_pro/myproject.c`, `mqtt_example_main` | `pclient` | `tmp`, `pclient` |
| idle thread | `rt-thread/src/idle.c` | frees ended threads | the defunct queue |
| tick interrupt and timer thread | `rt-thread/src/clock.c`, `timer.c` | timer lists, `_soft_timer_sem` | tick |

The four application threads have priority 25 and a time slice of 5 ticks, there
is one CPU, and nothing they share is locked: any two statements may have another
thread's between them. The flags are `rt_atomic_t`, but most accesses are plain
reads, and a test followed by a store is two steps in any case.

### Components, the state they keep, and what makes them correct

1. **Snake game.** State: `snake_list` (a ring of `SNAKE_MAX` slots, 6 on the
   board), `snake_head`, `snake_tail`, `snake_food`, `snake_len`. Operations:
   redisplay, move, eat. Hard: the ring's indices and the length are counted
   apart; the picture is kept by painting single cells over page switches.
   Correct when the ring is a queue of `min(snake_len, SNAKE_MAX - 1)` cells, the
   body is connected, and the picture agrees with it.
2. **Steering** (keys, remote control, random turn). State: `now_direction`,
   `snake_pressed`. Hard: four writers, tests and stores in separate steps.
   Correct when the snake does not turn back on itself unasked, a key that has
   been handled decides the next move, and random turns come back.
3. **Pages.** State: `page_chosen`, `page_first`, `page_stop`. Hard: one flag asks
   two threads for a redisplay, two threads turn the page. Correct when the page
   chosen is in the end the one shown and a freeze takes effect at once.
4. **Upload session.** State: `mqtt_enable`, `last_stop`, `MQTT_Thread`,
   `pclient`, the threads' life. Hard: the session can end by itself while its
   handle is kept. Correct when there is at most one session, none when switched
   off, and the session follows the switch.
5. **Kernel timers.** State: tick, two sorted lists, the timers' flags, the
   temporary list of `_timer_check`, the semaphore. Hard: a wrapping counter,
   functions that run with the lists unlocked, an interrupt racing a thread.
   Correct when no timer is early or lost.
6. **Kernel thread life**: only what the session needs (create, return, delete,
   free by the idle thread).
7. **Kernel mutexes.** State: owner, hold count and waiters of each mutex, each
   thread's inherited priority and the mutex it waits for. They guard the heap, the
   network stack and the buses. Hard: a priority that changes travels along a chain of
   owners that wait themselves; a wait can time out at the moment of the hand-over;
   threads end while they wait or own. Correct when an owner is as urgent as its
   waiters, the most urgent waiter comes next, nobody waits for a free mutex, and what
   `rt_mutex_take` answers is true.
8. **Kernel semaphores and mailboxes.** State: value and limit; a ring of mails with
   two offsets and a count; the suspended threads, their timers and the flag that a
   timer is set. Hard: a wake-up meets a time-out that has begun; a woken thread finds
   its mail gone; resets wake everybody. Correct when tokens and mails come out once,
   and nobody sleeps beside something that is there.
9. **Kernel heap.** State: the chain of headers, `lfree`, the statistics. Hard:
   splitting, joining forward and back, and a shortcut that has to stay right. Correct
   when callers' regions share no byte and the free memory does not fall to pieces.
10. Not modelled: start-up, the drawing helpers, the LCD driver, the sample
   programs, other board support, the scheduler's ready table, events, message queues
   and memory pools, RT-Thread's components, ST's HAL, and the online packages (which
   are not in the repository). Section 7 says why.

`tmp` (a text buffer) is used by the remote control to compare a key's code, by
the display thread for numbers and for the report to upload, and by the clock page.
`SnakeSteering` models the first of these against the others. Of the report that is
published no property can be stated: nothing orders the writers of `tmp`, so that any
of their texts may go out (a hazard in `PROJECT.json`).

## 2. Modules

| Module | Models | Used by |
| --- | --- | --- |
| `SnakeBoard` | the torus, the directions, the next head cell | all snake modules |
| `SnakeRules` | abstract: the snake as a queue of cells and a fruit | refined by `SnakeGame` |
| `PageFlags` | the three page flags and every thread's accesses to them | `Pages`, `SnakeGame` |
| `SnakeGame` | the loop of `snake_entry` with ring and screen, among the threads of `PageFlags` | `MCSnakeGame`, proofs |
| `MCSnakeGame` | a small board for TLC | |
| `SnakeGameProofs` | theorems about `SnakeGame` | |
| `SnakeSteering` | random turn, countdown, keys, remote control | |
| `SnakeSteeringProofs` | theorems about `SnakeSteering` | |
| `Pages` | which page's background and content are on the screen, the Stop text | |
| `MqttSession` | switch, session thread, handle, defunct queue | |
| `DisplayProofs` | theorems about `Pages` and `MqttSession` | |
| `KernelTimer`, `MCKernelTimer` | timer lists, tick interrupt, timer thread | |
| `KernelTimerProofs` | theorems about `KernelTimer` | |
| `PriorityLock` | abstract: what a mutex promises | refined by `KernelMutex` |
| `KernelMutex`, `MCKernelMutex` | mutexes, priority inheritance, time-outs, the end of threads | |
| `KernelMutexProofs` | theorems about `KernelMutex` | |
| `MailQueue` | abstract: what a mailbox promises | refined by `KernelIpc` |
| `KernelIpc`, `MCKernelIpc` | semaphore, mailbox, suspended threads and their timers | |
| `KernelIpcProofs` | theorems about `KernelIpc` | |
| `HeapRegions` | abstract: what the heap promises its callers | refined by `SmallMem` |
| `SmallMem` | the chain of blocks: alloc, realloc, free | |
| `SmallMemProofs` | theorems about `SmallMem` | |
| `DataLemmas` | facts about lists, repeated functions, folds and sums | the kernel's proofs |

How state and actions follow the code:

* **PageFlags.** One access to a flag is one step. Per thread a position: `Gate` and
  `StopGate` are the two halves of `page_chosen == p && !page_stop`, `First` is the test
  of `page_first`, `Clear` its store of 0. Each drawer has its own order: the snake
  clears before it paints (`mysnake.c:68-69`), the display thread after it has painted
  (`myproject.c:222-227`). `Painted` and `Drawn` are the places where background and
  content are drawn, for the extending modules to say what that is. Turning the page is
  a read, a store and a second store (`ReadPage`, `StorePage`, `AskRedisplay`), by the
  remote control (`MenuKey`) and by a hand at the sensor (`Wave`).
* **SnakeGame.** The variables have the code's names. After `First` and `Clear` the
  snake thread fills the screen (`Fill`, line 69), paints the fruit (`PaintFruit`, 70) and
  the body, a cell a step (`Redraw`, one turn of the `do`-`while` of 73-76); `Move` is lines
  78-135 with its two branches `Eat` and `Creep` and the recording of the head, `PushHead`.
  A screen is a colour per cell; `OTHER` stands for another page's pixels, with which
  `DrawOther` covers the board whenever the display thread paints or draws, be that
  late, after its page was left. The direction is an input, a *pair* of reads, because
  line 94 and line 95 each read `now_direction`. The other threads' steps fall between
  any two of the snake's.
* **SnakeSteering.** The loop split at every shared access: `Gate` and `StopGate` (62),
  `Check` (79), `Chance` (82-85, read), `StoreTurn` (85, store), `Count` (90), `AimX` (94),
  `AimY` (95). A key's interrupt is one step; the remote control's thread takes up to four
  (`IrReceive`, `IrPress`, `IrCompare`, `IrSteer`), and `OverwriteTmp` is another
  thread formatting into `tmp` between line 29 and the comparisons. `ComeOrGo` turns the
  page away or back, freezes or thaws it, at any moment and as often as it likes: of the
  page flags only the two that line 62 tests matter here.
* **Pages.** `Paint` and `Content` say what the drawings of `PageFlags` leave: `canvas` and
  `shown` are the page whose background and content are on the screen. `OkKey` and
  `DrawBanner` are the OK key and its text.
* **MqttSession.** `Disable`, `DeleteThread`, `Enable`, `CreateThread` are lines
  252-270 and `mqt_init`; the session is `Construct`, `Subscribe` and, when either
  fails, `Exit` (`_thread_exit`); `Reap` is the idle thread. The kernel's assertion
  on the handle halts the display thread (`RT_DEBUGING_ASSERT` is set in
  `rtconfig.h`, and the handler spins, so that the idle thread does not run again).
  The cloud client is not in the repository: construct and subscribe may fail.
  `Uploads` and `Failed` are what has become of the session that the handle names.
* **KernelTimer.** Each section under `rt_spin_lock_irqsave` is one step.
  `rt_timer_start`, `rt_timer_stop`, `rt_timer_detach`, `SetTime` and `SetKind` may
  be called at any point, also from inside a timer's function: threads, functions
  and interrupts all do. `Fire` and `Return` are the two halves of an iteration of
  `_timer_check`, around the unlocked call; they serve both the interrupt
  (`CheckHard`, `HardReturn`) and the thread (`ThreadCheck`, `ThreadReturn`).
  `CheckSoft` is the interrupt's look at the soft list, `ThreadTake` the thread's
  `rt_sem_take`, `Release` `rt_sem_release` with its limit of one.
* **KernelMutex.** The thread that runs is a ready one of the smallest priority
  number. A call changes lists and priorities one after the other; the record `Kernel`
  is handed through these changes, in the order of the code (`Enqueue`, `Inherit`,
  `UpdatePriority`, `HandOver`, `LowerPriority`, `Recompute`). The code's `while` loop along
  the owners is the function `step` of `UpdatePriority`, one `UpdateStep` a turn; it is looked
  at up to `MaxUpdates` turns, and section 5 shows that the loop ends before. `rt_mutex_take` is `TakeFree`, `TakeAgain`, or
  `TakeWait` up to `rt_schedule()` and `TakeReturns` after it. `Timeout` is
  `_thread_timeout`, `Sleep` and `Wake` are `rt_thread_delay`, `Delete` is
  `rt_thread_delete` of oneself or of another thread, `Exit` is `_thread_exit`.
  `PriorityLock` is what remains for a caller: owners, how often each has taken, the
  sets of waiters and how urgent each thread is. It has no lists, no stored priorities and
  no loop along the owners; it says who may get a mutex and that owners keep up with
  their waiters (`Heeded`), not how. `Exit` and the return from a take change nothing there.
* **KernelIpc.** A call is one step up to where it suspends its thread;
  `TakeReturns` and `GoesOn` are what follows `rt_schedule()`. `Release`, `Post` and
  `Urgent` do not wait and may come from interrupts; the resets and `SetLimit` come from
  threads. `TimerFires` and `TimedOut` are the two halves of an expiry: `_timer_check`
  takes the timer off its list (`timer.c:518`), enables interrupts, and calls
  `_thread_timeout` (530). The tick interrupt has the lowest priority of the board
  (`drv_common.c:50`), so that other interrupts do run in between; `firing` names the
  thread whose wait is about to end. This is called *the gap* below.
* **SmallMem.** A call runs with the heap's mutex taken and is one step. `item` is a
  function from the offsets where there is a header to the header; `Taken`, `Split`,
  `Freed` and `PlugHoles` (`JoinNext`, then `JoinPrev`) are the code's changes to it,
  `FirstFit` its search from `lfree`. `rt_smem_realloc` has three outcomes, `Keep`,
  `Shrink` and `Move`; `AllocFails` and `ReallocFails` are the calls that answer
  `RT_NULL`, and leave everything as it is. `asked`, the length each owner asked for, is
  history: what callers believe they hold, against which `HeapRegions` is checked.

## 3. Runs

| Run | Question | Properties |
| --- | --- | --- |
| `snake_game` | is the ring a queue across wraps, growth and page switches, does what the snake paints stay clean, does a redisplay end? | `RingHoldsTheSnake`, `BodyIsConnected`, `NoGhostCells`, `RedrawEnds`, `QueueRefinement` (of `SnakeRules`) |
| `steering` | who decides the next move, and does random steering come back? | `CountdownInRange`, `NoReversalByChance`, `SettledKeyDecides`, `ChanceReturns` |
| `pages` | do turning and freezing take effect? | `FreezeIsPrompt`, `ShownFollowsChosen` |
| `mqtt_session` | does the session, not only the belief in it, follow the switch? | `OneSession`, `OffMeansOff`, `SessionFollowsSwitch` |
| `kernel_timer` | in order, in time, never lost? | `TypeOK`, `ListsInOrder`, `HardTimersInTime`, `ThreadWakesInTime`, `ListedIsActivated`, `NeverEarly`, `FirstStartedFirst` |
| `kernel_timer_fires` | does a periodic timer go on for ever? | `KeepsFiring` |
| `kernel_mutex` | is urgency inherited, and nobody forgotten? | `OwnerInherits`, `UrgentFirst`, `NobodyForgotten`, `TakeTellsTheTruth`, `PriorityGivenBack`, `LockKept` (refinement of `PriorityLock`) |
| `kernel_ipc` | does every token and every mail come out once, and wake somebody? | `NoTokenInvented`, `NoTokenUnused`, `TimersBelong`, `LostOnlyInTheGap`, `WakeUpsNoticed`, `QueueKept` (refinement of `MailQueue`) |
| `small_mem` | does the chain stay whole, and do callers keep what they have? | `HeapTiled`, `HolesPlugged`, `LowestFreeKnown`, `UsedIsSum`, `FailsOnlyWhenFull`, `RegionsKept` (refinement of `HeapRegions`) |

`KernelTimer` has its `TypeOK` in a run as well as in a theorem; the others' are theorems
only (section 5).

Runs that TLC answers with a counterexample, each a disagreement between the code
and what a comment or an assertion of the repository says:

| Run | What happens |
| --- | --- |
| `pages_lost_redraw` | a redisplay asked for while another is being served is cleared with it: the page stays on the wrong background |
| `mqtt_dead_handle` | a session that ended by itself has been freed when the display thread deletes it |
| `kernel_ipc_assert` | an interrupt in the gap clears the flag of a waiter (`scheduler_comm.c:119`), the next one resumes it, and `_thread_timeout` finds it running, which its comment rules out (`thread.c:119-123`) |

Further disagreements met on the way, for which no run is kept. Where a property
holds in spite of one, the property says under what condition:

* A new head that enters the cell the tail leaves is painted and then whitened
  (`mysnake.c:100`, `128`). `NoGhostCells` is about the other direction.
* The display thread may have passed its test of `page_first` on another page when page 1
  is chosen: it paints its page and clears the request (`myproject.c:222-250`), and the
  snake is drawn over that page with no redisplay due. So a snake's page without stray
  pixels is not what the code ensures, and `NoGhostCells` speaks only of what the snake
  itself leaves. The run that shows the lost request is `pages_lost_redraw`.
* A key between the two reads of the direction makes a diagonal move
  (`mysnake.c:94-95`); `BodyIsConnected` is about moves that use one read.
* A random turn computed before a key is stored after it (`mysnake.c:85`), and two keys
  between two moves reverse the snake (`pin_irq_example.c:20`).
* A redisplay under way paints over the word Stop (`myinfrared.c:72`).
* `rt_thread_delete` on a thread that has just returned queues it a second time
  (`thread.c:489`).
* A periodic timer made one-shot while its function runs reports itself as running
  for good, on no list (`timer.c:543-549`, `694`).
* After a time-out a thread can keep an inherited priority (`ipc.c:1478`, `926`): it is
  recomputed only if it equals that of the thread that gives up.
  `PriorityGivenBack` holds until a wait has timed out.
* `rt_thread_delete` of another thread cannot release that thread's mutexes, since
  `rt_mutex_release` refuses a caller that does not own them (`thread.c:156-161`,
  `ipc.c:1607`), and `_thread_exit` does not try. `myproject.c:259` deletes the session
  thread at any point, also while it has the heap's mutex (`kservice.c:664`).
* A release in the gap goes to a thread that will time out all the same: it is lost,
  while `ipc.c:684-687` promises that a waiting thread is resumed.
* `rt_smem_realloc` can leave a block of 8 bytes, below `MIN_SIZE_ALIGNED`; and a block
  shrunk by a little is moved, so that shrinking can fail (`mem.c:438-480`).

### Bounds

* `SNAKE_MAX` is 5 instead of 6: the ring wraps, fills and slides, the body meets both
  edges of the torus, a tail of 0 makes the redisplay start at -1. `MaxLen` is 5: the
  first fruit fills the ring but for one slot, the second slides it. `MCUpDown` steers along
  a column and `MCFood` puts the fruit there; `FoldsOnce` lets the snake reverse once it has
  grown, not again before it is straight. With `PAGE_MAX` and `MaxInputs` 2 a page is left
  and chosen again, with the display thread late or not, or frozen in mid-redisplay and
  thawed. `MCSnakeGame` explores states that differ only in what is written before it is
  read once. The theorems are about every board, every direction and every fruit, any
  number of pages and inputs.
* `snake_max` is 2 (18 on the board): the countdown passes from a key's value
  through one to zero. `MaxKeys` is 3: enough for a key to fall into each of two
  windows and another after. `Depth` bounds how far below zero the counter is
  followed; with one snake thread it never gets there (`CountdownInRange`). Pages are
  turned and frozen without a bound.
* `PAGE_MAX` is 4 as in the code, with four inputs (keys and waves), so that both
  turners can collide twice. Liveness is stated for the time after the inputs end.
* `MaxKeys` is 6 in `MqttSession`: three sessions switched on and off, with
  failures. The theorems hold for any number.
* The tick counter wraps at 8, durations are 1 and 2, and the timer thread may lag
  2 ticks: the largest values for which the ordering is meant to work at that
  width (durations stay below half the range, as the code asserts). The counter
  goes round as often as it likes. Three calls of the interface fall anywhere;
  three timers (one hard, two soft) are enough for equal, out-of-order and
  overdue neighbours. `MCKernelTimer` explores states that differ only in the
  timeout of a timer that is on no list once: that field is written before it is
  read again. `KeepsFiring` is checked with one timer of each kind and two calls.
* Four threads of three priorities and two mutexes are the least for a chain of two
  owners that wait, with a waiter of equal priority beside it; `MaxHold` is 2 (255), so
  that a mutex is taken again and the limit is met. All threads may end or sleep for
  good, so deadlock is not an error of `kernel_mutex`; `NobodyForgotten` is the property
  that matters there.
* `KernelIpc` has three threads (one wakes while two contend, or two sleep on one
  list), two mails, a ring of 2 and a limit of 2, so that full, empty and wrapped all
  occur; `MaxCredit` bounds the history. `MCKernelIpc` explores states that differ only in
  what is written before it is read once. The assertion of `_thread_timeout` halts
  the system, so deadlock is not an error of this run either. The theorems are about any
  number of threads, any size and any limit.
* The heap has 144 bytes, and requests are 8 (below the least block), 17 (rounded up)
  and 50 bytes: up to four blocks, with splits that are worth while and splits that
  are not. The theorems are about every size and every set of requests.

### Fairness

* The snake, display and session threads have one priority and a time slice on one
  CPU, so each is run again and again: weak fairness of each thread's steps. The
  random generator is not assumed fair, and nobody has to press a key.
* Nobody has to show page 1 either, and a snake thread looks at the flags only every
  900 ms, so that it may miss every moment at which its page runs: weak fairness of
  its steps gives it nothing while the page comes and goes. `ChanceReturns` is therefore
  stated for a page 1 that in the end stays chosen and runs. On another or a frozen
  page the countdown stands still, and no random turn is due.
* The remote control's thread finishes a key it has begun (same argument).
* `KernelTimer`: ticks keep coming and the interrupt's handler ends (weak
  fairness). The timer thread has priority 4, above every application thread, and
  runs between ticks; since each tick interrupt disables its steps for a moment,
  its fairness is strong. That it is never more than `MaxLate` ticks late is the
  guard of `Tick` and the meaning of that bound.
* The idle thread needs no fairness: no property relies on memory being freed.

## 4. Properties worth a comment

* `QueueRefinement`: the ring, read from tail to head, behaves as the queue of
  `SnakeRules`. This is the sentence "the indices are right".
* `NoGhostCells`: a statement about all paintings since the snake cleared the screen,
  for which no single statement of the code is responsible. It ends with the first
  drawing of another thread, whatever the flags say then (see the disagreements above).
* `SessionFollowsSwitch` is about the threads and the client, not about `last_stop`. What the
  code does not promise is named in it: a failed session is not started again, and a
  failed assertion halts the display thread.
* `SettledKeyDecides` and `NoReversalByChance` say what the unlocked steering does
  ensure. "Every move is straight" and "a key decides the next move" are not among it.
* `ShownFollowsChosen` (which includes that no redisplay request is left over) is
  stronger than it looks: two threads may compute the next
  page from the same old one, and a drawer may be inside a page that is no longer
  chosen.
* `OffMeansOff` relates what the display thread believes (`last_stop`) to what the
  kernel has.
* `ThreadWakesInTime` is the absence of a lost wake-up between the timer thread's
  last look at its list and its sleep.
* `OwnerInherits` is stated of all mutexes at once and holds after time-outs and
  deletions, in whatever order the changes of priority travel. `PriorityGivenBack` is
  the converse, that nobody is more urgent than somebody waiting for it makes it.
* `LockKept` is about steps: no time-out, deletion or change of priorities moves a mutex
  from its owner, and a thread that deletes itself hands each of its mutexes to the one
  that was most urgent before the first of them was handed over.
* `NoTokenInvented` counts what callers were told, not what the code's variables say:
  a release that both counts up and wakes would be invisible in `value` alone.
* `NoTokenUnused` holds for changes of the limit too. It makes the branch of
  `RT_IPC_CMD_SET_VLIMIT` that resumes all waiters (`ipc.c:797-804`) dead code: it is taken only
  when `value` is above zero, and then nobody waits.
* `LostOnlyInTheGap` and `WakeUpsNoticed` (mails and room) locate exactly where the kernel's wait
  lists lose a wake-up: between `timer.c:518` and 530, and nowhere else. For the mailbox
  the argument is about several threads: a send wakes one receiver, which may find
  its mail taken, and go to sleep again behind others.
* `FailsOnlyWhenFull` compares the search with the best any allocator without moving
  could do on the same heap; it needs `HolesPlugged` and `LowestFreeKnown` at once.
* `RegionsKept` is the callers' view, in which headers, `lfree` and joining do not occur. A
  block freed behind its owner's back, as by a reallocation that fails, breaks it as soon as
  its bytes are given to somebody else.
* `QueueKept` tells a reset from every other call by what it takes out of the mailbox (`got`),
  so that no send or receive may drop mails.

## 5. What is proved

`SnakeGameProofs`, from `BoardAssumption` (`SNAKE_MAX >= 4`: three cells fit and a
snake of three is below the limit) and `GameAssumption` (the inputs are directions
and cells):

* `TypeCorrect`: no slot beyond the ring and no cell off the board, for every board
  and every sequence of torn reads.
* `RingCorrect`: `RingHoldsTheSnake` always. By itself it is not inductive: a length
  below 3 with the ring empty would let the next move pass. The invariant `RingInv`
  adds `snake_len >= 3`; `MoveKeepsRing` does the modular arithmetic of the two
  indices by cases on the wrap, and `OnlyMoveTouchesRing` disposes of the other
  actions.
* `BodyConnected`: with `Straight` (both coordinates follow one read) the body is
  connected. A move writes a slot outside the live ones and frees none but the
  tail's (`MoveReusesFreeSlot`), so old neighbours stay and the new pair is one step
  apart. Without `Straight` it is false.
* `NoGhosts`: `NoGhostCells` always, torn reads included, with the flags, the two drawers
  and the two turners interleaved as in `PageFlags`. `ScreenInv` adds that during a
  redisplay the next slot painted is a live one: without it a step of the loop might paint
  a cell the body has left.
* `RingIsQueue`: the refinement of `SnakeRules`. A queue that reads as a body is one of
  the ring (`IsBody`, `BodyOf`, `SlotOf`); a move appends at the head and drops the tail's slot, by
  cases on the wrap and on whether the ring is full.

`SnakeSteeringProofs`, for one snake thread (`OneSnake`, what `main.c` starts), any
number of keys and any `snake_max`:

* `CountdownStays`: `CountInv` adds that a snake about to decrement has seen the
  countdown above zero; keys can only raise it in between. With a second snake
  thread that is false, and so is `CountdownInRange`.
* `NoBackwardTurn`: `HeadingInv` says, for a snake no key has steered since a
  straight move, where it heads at each point of its loop and that a turn it has
  computed but not stored is not a reversal. `[][...]_vars` follows for the step
  that ends a move, the only one that writes `moved`.
* `HandledKeyDecides`: `AskedInv` says that from the moment a key's direction is settled
  no pending turn of this snake or of the remote control can replace it.
* `TypeCorrect` needs no `OneSnake`.

`DisplayProofs`, of `Pages`, for any number of pages and inputs:

* `PromptFreeze`: `FreezeIsPrompt` alone is not inductive: a thread with one late
  drawing could still be inside another. `FreezeInv` adds that a thread past its
  gates has none, since it passed `StopGate` when the page ran.
* `PagesTypeCorrect`: two threads that turn the page at once never choose a page that does
  not exist, because each stores a value computed from one read.

`DisplayProofs`, of `MqttSession`, for any number of key presses and with failures:

* `SessionTypeCorrect`, and from it `SwitchInv`: only the thread that `MQTT_Thread` names
  can be running; none runs while the display thread is about to create one or has
  settled on off. `OneSession` alone is not inductive: it says nothing about the
  handle, and a start over a thread whose handle was lost would break it.
* `AtMostOneSession` and `OffIsOff` follow from `SwitchInv`.

`KernelIpcProofs`, from `IpcAssumption` (a finite set of threads; a mailbox and a limit of
at least one):

* Every step does to the lists one of five things (`WaitSteps`): it wakes the head of
  one, puts one thread to sleep, empties lists, starts an expiry or ends one.
  `WaitInv` is preserved by these, not by each of the actions anew. It adds to the
  properties that a suspended thread whose flag is set and whose timer does not run is
  the one that is `firing`: this is what makes `Dequeue` fail in the gap only.
* `TimersAreOwn` follows from `WaitInv`, `TypeCorrect` from it and the invariants below.
* `NoneInvented` and `NoneUnused`: `TokenInv` and `ValueInv`, by the change of the number of granted
  threads under each of the five (`Awake`, a set whose cardinality goes up or down by one).
* `LossesAreInTheGap`, `WakeUpsAreNoticed`: action properties, from the same
  sets. `NoTokenInvented` is not inductive without `WaitInv`: a thread on two lists could be
  granted twice.
* `RingIsQueue`: the refinement of `MailQueue` for every size, by the modular arithmetic
  of the two offsets (`RingInv`: `in_offset` is `out_offset + entry` modulo `Size`).

`SmallMemProofs`, from `HeapAssumption` (a heap of whole 8-byte units, requests that are
numbers):

* `HeapIsTiled`, `HolesStayPlugged`, `LowestFreeIsKnown`, `RegionsAreKept`, all from `HeapInv`, which
  is `Chain` (tiling and alignment), `Lowest`, `Plugged` and `Asked` (each block is as long
  as its owner asked). None of the four is inductive alone: `rt_smem_alloc` joins nothing
  and keeps `Plugged` only because what it splits was between two used blocks;
  `JoinPrev` is right only if `prev` is; the regions are apart only because of `Chain`.
  Splitting, joining and taking have a lemma each, on heaps as values, and the
  calls are put together from these.
* `UseIsCounted`: `HeapInv` contains `Counted`, which is `UsedIsSum` and that `used` and `max`
  are numbers. A call changes the sum by the blocks that come, go or change their length
  (`GainCounted`, `LossCounted`, `ResizeCounted`, `MoveCounted`); that a joined or split free block
  changes nothing is `SpaceAgrees`.
* `FailsWhenFull`: a run of free headers is one block (`Plugged`), at or behind `lfree`
  (`Lowest`), and the least block that is long enough is what `FirstFit` asks for.

`KernelTimerProofs`, from `TimerAssumption` (durations below half the counter's range, as
`RT_ASSERT` demands, and a timer thread that lags less than what they leave), for any
number of timers, width of the counter and number of calls:

* `TimerInv`: a listed timer is due within half the range and its timeout shows when
  (`InTime`), the lists are in the order of `due`, the flag is set. The order alone is not
  inductive: the place `_timer_start` finds is right only because an unsigned difference
  of two timeouts in reach tells which is later (`DueLaterMeans`), and `InTime` only
  because of the lag's bound. A step starts a timer, takes one out, leaves the lists alone
  or is a tick (`NextKinds`); `StartKeeps` says where the timer goes.
* `TypeCorrect`, `ListsStayInOrder` and `ListedAreActivated` are parts of it; `EqualsInTurn` is what
  `StartKeeps` says of the timers behind; `TimersAreNeverEarly` and `HardTimersAreInTime` hold since
  `_timer_check` stops at the first timer not due (`ExpiredMeans`, `HeadIsFirst`).
* `ThreadIsWoken`, if no timer is given zero ticks: `NothingMissed` says that while the thread
  sleeps, or is about to with no wake-up stored, nothing is due except, between the tick
  and its look at the list, what became due at this tick. Only then does the test of
  `rt_timer_check`, which ignores the wrap, have to be right, and then it is. A timer given
  zero ticks just before the wrap would be slept over.

`KernelMutexProofs`, from `MutexAssumption` (finitely many threads and mutexes, priorities
below `NoPriority`), for any of these and any order of the calls:

* The calls are sequences of changes to the record `Kernel`, so that nearly all is said of
  such records k. `KernelInv(k)` is `Shape` (a thread is on the list of a mutex just when it
  is suspended with that mutex pending, on no list twice, never on that of its own mutex,
  and on none that nobody has) and, for each mutex, `Sound`: the list is in the order of
  priorities, the number kept with the mutex is at most its first waiter's, and
  its owner's is at most that. `OwnerInherits` alone is not inductive: when the first
  waiter leaves, what is inherited next comes from that number, not from the
  waiters.
* `MutexInv`, the inductive invariant, adds for each thread how its take stands
  (`TakerOK`: `taking`, `pending_object`, `error`, its timer and its state agree) and, until a
  wait times out, `Exact`: the numbers are the waiters', and every priority is what
  `OwnPriority` gives.
* `PropagationEnds` is about the loop of `_thread_update_priority`. While it runs, `LoopInv`
  holds: all is sound but for one thread that is out of its place. The
  lists need not be free of circles (a deadlock is possible), so that the loop may
  come to a thread again; but then at a lower number. `Left` counts the pairs of a thread
  and a priority still open, and goes down with every turn (`StepLess`).
* Each change has a lemma of its own (`RecomputeKeeps`, `LeaveKeeps`, `InheritKeeps`, `LowerKeeps`,
  `PassedKeeps`, ...). A thread that deletes itself releases all it has: `ReleaseTaken` is a fold,
  and `ReleaseRunExists` and `RunReleases` follow it one mutex at a time.
* From `MutexInv`: `TypeCorrect`, `NobodyIsForgotten`, `TakesTellTheTruth`, `MostUrgentFirst`,
  `OwnersInherit` and `PrioritiesGivenBack`.
* `LockIsKept`, the refinement of `PriorityLock`: one lemma for each action (`WaitStep`,
  `LeaveStep`, `ReleaseStep`, `DeleteStep`, ...). The sets of waiters need not be followed
  through the lists, since `Shape` says who is on each (`QueueIs`). What a release gives is
  `GivesOne`; `GivesAll` carries it through the fold of a deletion, where it matters that
  only the owner's priority changes on the way, and that the owner waits for nothing. An
  owned mutex has been taken at least once (`HoldInv`), which follows from the steps of
  `PriorityLock` itself.

`DataLemmas` holds what these share: an element joins or leaves a list; induction over the
natural numbers and over finite sets, stated for a set instead of a predicate; the
function that repeats another (`Repetition`, for loops); that a fold over a finite set exists
and follows its equation (`FoldingExists`); and sums (`SumWithout`).

## 6. What is only model-checked

All liveness (`RedrawEnds`, `ChanceReturns`, `ShownFollowsChosen`,
`SessionFollowsSwitch`, `KeepsFiring`), since proofs of
properties under fairness are beyond the proof system used here. Every safety property
of a run is a theorem as well. What a recursive definition computes is proved where the
definition is a function over a set that is known: induction is then a statement about a
subset (`NumberInduction`, `SetInduction`), not about a predicate.

## 7. What is not modelled

* Most of the repository by size: of its 1.5 million lines nearly all are ST's HAL and
  device headers, RT-Thread's components, other boards' files and tables of audio
  samples. The models cover the project's own concurrent code and the kernel services
  it stands on.
* The texts drawn over the board, the contents of the pages, the sensors' values
  (only "a hand is near"), logging.
* Second threads started from the shell (`snake`, `mqtt`, `inf`, `no_mqtt`). A second
  snake thread breaks `CountdownInRange`: `SnakeSteering` takes the set of snakes as
  a constant.
* Drawings are atomic: the LCD window is set by one call and filled by the next
  without a lock. No property of two drawings at once holds; it is listed as a hazard.
* Register access, Wi-Fi, NTP, the cloud client and the sensor packages. `Construct` and
  `Subscribe` say only that the client may fail.
* In the kernel: the skip list has one level in this build, so a list is a sequence;
  timers' creation, functions and parameters; the scheduler's ready table; SMP, which
  is off.
* Of mutexes: creation, detaching and deletion, the ceiling priority (nothing calls it),
  a change of a thread's own priority, interruptible and killable waits. A take beyond
  `MaxHold` changes nothing and is not a step.
* Of semaphores and mailboxes: creation and deletion, lists in the order of priority
  (`KernelMutex` has such lists), interruptible and killable waits. Events, message
  queues and memory pools, which nothing of the project takes.
* The heap's owners' tags and the shell commands that print it. Memory that a deleted
  thread had allocated is never freed by the code.

## 8. Plan

Done: the snake game and its steering, the pages, the session, the kernel's timers,
mutexes, semaphores, mailboxes and heap, with theorems about all of them, every safety
property of the runs among them. What is left, in this order:

1. An abstract semaphore that `KernelIpc` implements, in the manner of `PriorityLock` and
   `MailQueue`.
2. `ThreadLife`: create, suspend, resume, delete and the idle thread's queue
   (`thread.c`, `scheduler_comm.c`, `idle.c`) as an abstract kernel that `MqttSession` composes
   with, so that double deletion is a state of the queue itself.
3. Deletion of semaphores and mailboxes, message queues and events, on the wait lists
   of `KernelIpc`.
