# A verification of the controlRTT kernel

controlRTT is a machine controller built on a copy of RT-Thread 3, a small
preemptive real-time kernel.  The repository is that kernel (`src/src`,
`src/include`), its components (`src/components`), ports and board packages
(`src/libcpu`, `src/bsp`), and the application in
`src/bsp/stm32f4xx-HAL/applications`.  This directory holds TLA+ models of the
kernel, the TLC configurations that check them and TLAPS proofs about them.
`PROJECT.json` lists the components, the runs, the source lines of every
definition, the hazards and the theorems.

## The system

| part | state | operations | where it is hard |
|---|---|---|---|
| scheduler (`scheduler.c`) | ready queue per priority, bitmap of non-empty queues, current thread, lock nesting | insert, remove, `rt_schedule`, enter/exit critical | the bitmap must match the queues whenever a switch may happen; the tick interrupt schedules too |
| threads (`thread.c`) | per thread: stat, priority and its mask, error, time slice, one list node, one timer | create, startup, suspend, resume, sleep, yield, control, exit, delete, detach, timeout | most operations are several interrupt locks long, and their tests precede the first |
| tick, timers (`clock.c`, `timer.c`) | tick counter, sorted timer list | tick, start, stop, detach, check | the 32 bit tick wraps; timeouts race with everything |
| idle (`idle.c`) | list of dead threads | reap | frees memory that must be in no use |
| objects (`object.c`) | type and list of every object | init, detach, allocate, delete | the type decides who frees |
| semaphore, mutex, event, mailbox, message queue (`ipc.c`) | a count, an owner, bits or a buffer, and a suspend list | take/recv, release/send, control, init, detach | release against timeout, priority inheritance, removal with waiters |
| signals (`signal.c`) | pending set per thread | kill, mask, handlers | a signal resumes a thread wherever it waits |
| memory pool, heap (`mempool.c`, `mem.c`) | free lists, suspended allocators | alloc, free | a counter kept beside a list |
| devices and helpers (`device.c`, `components/drivers/src`) | ring buffers, completions, work queues | read, write, wait, done | interrupt against thread |
| application | frame parser states, parameter record, flash image | parse, operate, save, load | restart between save and load |

Components call each other downwards: IPC and sleep call suspend, resume and
the timers; those call the scheduler; the tick interrupt enters from below
through the timers.  All state is shared memory protected by disabling
interrupts, or by the scheduler lock, which does not keep the tick out.

What makes each part correct:

* scheduler: the queues hold exactly the ready threads, the bitmap exactly the
  non-empty queues, a switch goes to the most urgent thread and never happens
  under the lock;
* threads and timers: one node is in one list, a running timer belongs to a
  suspended thread, timers fire in order across the wrap, every sleep ends;
* idle: a freed thread is in no use, static memory is not freed;
* semaphore: no token is lost or made up, and callers are told the truth;
* mutex: exclusion, the owner is as urgent as its waiters, and a loan of
  priority is paid back;
* event: a bit is taken only for a receiver that is told of it, and nobody waits
  for bits that are there;
* mailbox, message queue: messages are received in order, each once, and nobody
  waits while there is something for him; a deadline holds across wake-ups;
* memory pool: its counts miss no free block and no waiting thread, and no free
  block is left while a thread waits;
* user timers: the flag tells whether the timer is in a list, hard timers are
  punctual across the wrap, the timer thread sleeps past no soft timer;
* parameters: a restart finds those of one save or the defaults, unless an erase was
  cut off or failed.

## Modules

| module | models |
|---|---|
| `RtKernel` | the kernel state as one record and the primitives that run with interrupts disabled, as operators from records to records |
| `RtThread` | threads calling every operation of `thread.c` and `scheduler.c`, idle, the tick interrupt |
| `RtIpc` | what blocking objects share: blocking, the `rt_schedule` behind it, removal of an object, the tick |
| `RtSem` | semaphores |
| `Semaphore` | the abstract counting semaphore `RtSem` implements |
| `RtMutex` | mutexes with priority inheritance |
| `RtMutexSignal` | mutexes while signals are sent |
| `RtRetry` | the loop of the calls that are woken without a promise: test again, wait for the time that is left |
| `RtMailbox`, `RtMsgQueue` | mailboxes and message queues |
| `BoundedQueue` | the abstract bounded queue with urgent messages both of them implement |
| `RtEvent` | events |
| `RtMemPool` | memory pools |
| `RtObjects` | the four objects above under one scheduler |
| `RtTimer` | user timers: hard ones in the tick interrupt, soft ones in the timer thread |
| `FlashParams` | the parameters of the application, their commands, and the flash page that keeps them across a reset |
| `MC...` | instances for TLC, one for each specification |
| `...Proofs` | lemmas and theorems, see Proofs |

**Granularity.**  A step is what runs between disabling and enabling
interrupts.  Between two steps of a call the tick interrupt may run and switch
to another thread; `op[c]` is where thread c is in its call.  `rt_timer_check`
walks its list with interrupts disabled; it is one step per expired timer under
`k.isr`, which stops everything else.  Handlers that call several primitives in
one interrupt lock are compositions of operators, for instance
`Schedule(IpcListResume(k, o))`.  `rt_thread_yield` of a thread is two locks, the move of
the node and `rt_schedule`; the tick interrupt, which calls it too, is one.

**State.**  `k.list` maps every list head a thread node can be linked to (ready
queues, suspend lists, the defunct list) to a sequence, so that `Unlink` is
`rt_list_remove` without knowing the list.  `number_mask` is a set of bits kept
apart from the priority, as in the code.  `timeout_tick` is forgotten when the
timer leaves the list, where the code never reads it again.  In `rt_thread_delete`
the write of `RT_THREAD_CLOSE` stands just in front of the last interrupt lock;
the model joins the two, as nothing reads the stat of an unlinked thread in
between.  `thread->stat` holds no signal bits; `RtMutexSignal` has its own set.
What a finished call leaves behind and the code never reads again (a slot of a
mailbox, `thread->error`, `thread->event_set`) is forgotten by the models, which
keeps states equal that behave alike.  Stacks, names, hooks and debug output are left out.  The bitmap is the one-word
variant and the timer list has one level, as `rtconfig.h` selects.

**Messages.**  `RtMsgQueue` keeps the chains of buffers with their `next` pointers,
because the buffers are filled and copied with interrupts enabled: a sender owns
the buffer between taking it and linking it, and a receiver owns it
between unlinking it and freeing it.  `RtMailbox` keeps the ring with its two offsets and both suspend
lists; `op[c].on` tells on which of them a caller is.  Interrupt handlers send in
one step, since nothing interrupts them but handlers that leave the object alone.

**Timers.**  `RtKernel` has the timers of threads, as the other models need them.
`RtTimer` has the rest of `timer.c`: `rt_timer_start` is three steps of a thread
(leave the list, read the tick, enter the list) and a fourth that wakes the timer
thread; `rt_timer_stop` clears the flag behind its interrupt lock.  The timer
thread is the only other thread of this model, with its own delay timer in the hard
list; the two soft timers of the run let one wait behind another.  `RT_USING_TIMER_SOFT` is not configured by the application; it is a part of
the kernel all the same.  The skip list is its last row: the other rows are
subsequences of it that only shorten the search.

**Flash.**  A step of `FlashParams` is the programming of one word, so that a reset
falls between any two.  `FLASH_Erase_Sector` only starts the erase of the sector
(`sr` is busy); `FLASH_WaitForLastOperation`, at the head of the next `HAL_FLASH_Program`,
waits for its end.  So the erase ends (`EraseDone`), fails (`EraseFails`) or is cut off by
a reset (`Reset` with `sr` busy), each a step of its own.  `page` remembers which:
"whole", "bad", "torn".  A cut off or failed erase leaves every word of the page as it was,
erased or garbled.  `STMFLASH_Write_NoCheck` takes the error flags of the
erase for those of the first word, tries that one again and goes on over what is there.
What the model assumes of the hardware:

* programming a word either works or fails and leaves the word as it was; a word is
  not torn by a reset;
* programming clears bits and sets none: a word that was not erased becomes garbled unless
  nothing changes;
* an erase ends within `FLASH_TIMEOUT_VALUE` (50 s): the code takes `HAL_TIMEOUT` and
  `HAL_BUSY` for success, and would go on;
* `FLASH_CR_SER`, which nobody clears, does at most make words fail;
* `HAL_FLASH_Lock` does not fail.

`OneSaveOrDefault` speaks of pages whose last erase ended, and `SuccessIsKept` of saves whose erase
did not fail.  Nothing is claimed of the others: the byte `initFlash` tests may be there while
the name is garbled, and there is no checksum.

`FLASH_Erase_Sector` is given an address instead of the number of a sector
and keeps five bits of it: `ErasedSector` computes which sector that is.  In the build
for parts with two banks it is the one of the page; in the one for the STM32F407,
which the application selects, it is sector 0, and with it `prog`, the program,
is gone.  The properties speak of a program that is there, which in that build means
everything up to the first erase, the first save with all its failures included.

**What callers must respect.**  The kernel tests the state of a target before
the interrupt lock that acts on it, so some uses are unsafe and the
specifications leave them out by name:

* `RtThread!Exclusive`, `MayOperateOn`: two threads do not operate on one thread
  at a time, and an operation on a thread that could run or time out is made with
  the scheduler locked;
* `rt_thread_delete`: the target has no running timer, and a static one has no
  cleanup function;
* `RtIpc!ObjDetach`: no waiter of a removed object has a timeout, and nobody
  calls a removed object;
* `RtMutex!OneMutex`: a thread holds one mutex at a time; nobody sends signals
  to threads that use mutexes;
* `rt_mutex_detach`, `rt_mutex_delete`: nobody owns the mutex.

Those on deleted threads, on timeouts of the waiters of a removed object, on nested
mutexes and on signals are each shown necessary by a run that drops it (`thread_delete`,
`thread_detach`, `sem_detach`, `mutex_nested`, `mutex_signal`).
Mailboxes, message queues, events, pools and user timers ask for more:

* `RtRetry!Quiet`: when an object is removed, whoever is inside a call on it is in
  its suspend list and waits for ever (a woken caller would go on with it);
  `Fresh` is a bound: one object exists at a time;
* `RtRetry!Punctual`: a woken thread runs before half the tick range has passed;
* `RtTimer`: a timer has one owner, the user thread or the callback of another hard
  timer; soft timers are the user thread's, whose priority is below the one of the
  timer thread; soft callbacks operate no timer and do not block; a period is not
  zero; flags are changed while the timer is stopped; `rt_timer_start` gets from
  reading the tick to the insertion within `MaxLate` ticks; and soft timers that the timer
  thread has suspended itself in front of (see Findings) are overdue by less than `MaxHeld` ticks
  when somebody starts the next one.

Idle makes no blocking call in any model, and a program does not block or exit
with the scheduler locked.

## Runs

| run | expectation | what it shows |
|---|---|---|
| `threads` | pass | main, a dynamic thread that is created, deleted and created again, and idle, all calls in all orders: the inductive invariant, and that lists, bitmap, timers, errors and dead threads stay consistent |
| `static_fair` | pass | the same with static threads, one with a cleanup function, under a fair tick: static memory is not freed, every sleep ends |
| `thread_delete` | violation | deleting a sleeping thread leaves a closed thread in a ready queue |
| `thread_detach` | violation | detaching a static thread with a cleanup function frees static memory |
| `semaphore` | pass | three threads and interrupt handlers: the abstract semaphore is implemented, nobody waits while a token is available, waiters are in priority order |
| `sem_detach` | violation | removing a semaphore whose last waiter times out takes the list head for a thread |
| `mutex` | pass | three priorities, nesting, timeouts: exclusion, inheritance, restoration |
| `mutex_nested` | violation | two mutexes released in the order they were taken leave a thread with a priority that is not its own |
| `mutex_signal` | violation | a signal between suspension and `rt_schedule` makes `rt_mutex_take` succeed for a thread that is not the owner |
| `objects` | pass | three threads and interrupt handlers on a mailbox, a message queue, an event and a pool, each created, reset and removed again: both queues implement `BoundedQueue`, no wake-up is lost, deadlines hold across wake-ups, buffers and bits are accounted for, no block is left while a thread waits, and the count of those who wait for blocks misses nobody and grows too large by timeouts only |
| `timers` | pass | two soft timers and a hard one of the user thread and a hard one of a callback, one-shot and periodic: flag against lists, punctuality across the wrap, every soft timer fires that is not taken for none |
| `flash` | pass | commands, failing words and erases, and resets in both builds: a restart finds one save or the defaults, and a save reported as a success |

**Bounds.**  `TickMod` 6 or 8 instead of 2^32 with delays below half of it: the
tick wraps several times in every behaviour, and two timers of different delays
meet in all orders.  Three priorities give a queue above and below.  `NestMax`
1 for the scheduler lock: deeper nesting changes only a counter.  `ValueMod` 3
instead of 2^16 so that the semaphore wraps.  `HoldMax` 2 for nested takes.
Time slices of one and two ticks make round robin happen.  Priority changes are
to any priority.  No symmetry is used: threads differ in priority or role.

`objects` has two threads of one priority below a third, so that a woken thread can
be overtaken by a more urgent one and by one of its own priority; two slots, two
buffers and two bits, so that things are half full; three blocks, so that two threads
can wait while a third frees.  One thread waits with a timeout of two ticks, long
enough to be woken in vain and block again; `TickMod` is 7.  Its cfg has a `VIEW` that counts all
ticks from now.  That is sound: the specification uses ticks in differences modulo
`TickMod` only, so that shifting all of them by one amount maps behaviours to
behaviours, and the properties are invariant under the shift.

The view also forgets a `tick_delta` that is not read any more, and which block is which: the code
treats blocks alike.  `SuspMax` 4 bounds `suspend_thread_count`, one more than there are
threads that allocate.

`timers` has no view, because the timer thread compares a tick with `RT_TICK_MAX`.  One tick
of lateness (`MaxLate`) and one tick within a step of a thread (`Slack`) let every
order of insertion and expiry happen on both sides of the wrap.  `TickMod` 14 leaves room for soft
timers that are held up: a timer that is overdue by half the range looks like one that is due in
the future, to the code as well, and `MaxHeld` 2 keeps the run below that (the proofs need no such
bound: they allow `MaxHeld > Half`, which restricts nothing).  `flash` has three
words (a name of two and the word with the speed), two names, speeds with the one
taken for an empty page, and one retry instead of ten.

**Fairness.**  In the other models only the tick is fair: SysTick fires for ever and its handler
runs to the end, whatever threads do.  No thread is assumed to make progress,
since a program may spin at high priority; `SleepersWake` therefore speaks about
the timer and not about the thread running again.  `RtTimer` adds that the timer
thread runs when it is ready, which its priority 0 (`RT_TIMER_THREAD_PRIO`)
justifies, and that a call the user thread is in goes on while the timer thread
sleeps; the user thread need not make another one.  `SoftFires` excepts the timers in front of
which the timer thread has suspended itself because the first of them was due at `RT_TICK_MAX`, the
mark of an empty list: that timer and all behind it wait for somebody to start a soft timer.  It
holds again from the moment of such a start, whose wake-up is still to come (`start_wake`).

Deadlock is checked in every run but `objects`; the tick keeps it from
happening, so a stuck thread shows up as a violated property and not as a deadlock.  In
`objects` the program really stops: at the failed assertion of `rt_thread_resume`, with
interrupts disabled (`mp_assert`, see Findings).

## Proofs

All theorems hold for every value of the constants that the named assumptions
(`KernelAssumption`, `ThreadAssumption`, `IpcAssumption`, `SemAssumption`,
`MutexAssumption`, `RetryAssumption`, `MbAssumption`, `MqAssumption`, `EvAssumption`, `MpAssumption`,
`TimerAssumption`, `FlashAssumption`) allow: any set of threads and objects, any number of
priorities, any tick width from 5 on with delays below half of it (the
assertion of `rt_timer_start`; `RT_TICK_MAX` is 0xffffffff), any number of mails, buffers, bits, blocks,
words and retries.  `TickMod >= 5` is needed: with less, a timer that is due at the tick it
was started at would not be found overdue one tick later.  The inductive invariants were checked by TLC on the
instances of the runs before they were proved.

| module | about | states |
|---|---|---|
| `RtKernelProofs` | `RtKernel` | what appending, inserting and removing do to range, injectivity and order of a list; for each primitive its precondition, that it preserves `KInv`, and what it leaves alone; the order of the timer list |
| `RtThreadProofs` | `RtThread` | all invariants and the action property of the run `threads`, `StaticNotFreed` of `static_fair` |
| `RtIpcProofs` | `RtIpc` | the steps that all blocking objects share preserve `IpcInv`, `DetachInv` and `InOrder` |
| `RtSemProofs` | `RtSem` | all properties of the run `semaphore`, the refinement of `Semaphore` included |
| `RtMutexProofs` | `RtMutex` | all properties of the run `mutex`; those of exclusion also for nested mutexes |
| `RtObjectsProofs` | `RtObjects` | all properties of the run `objects`, both refinements of `BoundedQueue` included |
| `RtTimerProofs` | `RtTimer` | both safety properties of the run `timers`; punctuality under `Exact` |
| `FlashParamsProofs` | `FlashParams` | both properties of the run `flash` |

**Threads.**  `Spec => []IInv` and, from it, type correctness,
`NodesLinkedOnce`, `ReadyQueues`, `Bitmap`, `TimeoutFindsSuspended`,
`FreedUnused`, `ClosedNotReady` and the action property `SwitchToHighest`.
None of these is inductive alone.  `KInv` is what every primitive preserves: one
list per node, lists that agree with stat and priority, bits that cover the
queues, idle always ready.  It is not enough between the two locks of a resume
or inside a delete, where a ready thread may be in no queue and a bit may be
stale.  `OpInv` says, for each place in a call, what the target looks like and
that either nothing else can move it or the caller holds the scheduler lock;
`CurInv` says that the running thread is in its queue unless it has just left
it.  The last conjunct of `IInv` ties every stale bit to a resume that holds the
lock, which is why `rt_schedule` never meets one.  There are lemmas for a step that
touches one thread, for a step of an operation on another thread and for a
switch, and one lemma per action; `NextInv` puts them together.

`RestInv` is a second layer on top of `IInv`, for `TimersOrdered`, `StaticNotFreed` and
`NoStaleTimeout`.  `Due` says that every timer in the list is due within half the
range of the tick, counted from the tick at which `rt_timer_check` last returned; two such timers can be compared whatever wraps, and a start puts the
timer at its place because the order of the differences is the order of the distances.
`SleepInv` says that only a thread inside `rt_thread_sleep` has a timer or an
unread timeout.  `StaticInv` says that a dead static thread keeps its type until idle has seen it,
and that no static thread with a cleanup function is on its way to the list of the
dead, which is where the contract of `rt_thread_delete` enters.

**Blocking objects.**  `IpcInv` says for each thread what its place in a call
means (`CallerOK`): who is in the suspend list of an object is blocked on it and no other,
who is suspended and blocked is in the list and has not been told anything, and the
running thread is ready unless it has yet to call `rt_schedule`.  That equivalence makes
`WaitersBlocked` inductive: a timeout, a release and a removal each take the
thread out of the list and write `thread->error` in one lock.  `DetachInv` is what
`ResumeAllFindsWaiter` needs: between the test of the list and the lock that resumes its
head nobody else can take the head away, since the object is out of reach, no
other thread empties it, and its waiters have no timers.  `InOrder` is
`WaitersOrdered` for every list of a `RT_IPC_FLAG_PRIO` object, alive or not.
`RtSemProofs` and `RtMutexProofs` cite one lemma per shared step.

**Semaphores.**  `SemInv` adds the type of `value` and `NoTokenStranded`.  For the
refinement, `avail` is `value` and `call[c]` is computed from place, list and `error` of the
caller; every action is shown to be the abstract step of the same name or a
stutter: a release that finds a waiter grants, a tick that fires a timer of a
waiter is the abstract timeout, and everything the scheduler does is a stutter.

**Mutexes.**  `MutexInv` ties the fields of each mutex to each other (`Shape`) and to
what callers were told (`Belief`): the owner has the count it believes in or
is one that was handed the mutex and has not returned.  It needs nothing from the
order in which mutexes are taken, so exclusion is proved for `SpecNested`, in which
threads nest mutexes as they like (`NestedCovers` carries it over to `Spec`).  Inheritance and
restoration are proved for `Spec`, where a thread owns one mutex at a time; the run
`mutex_nested` shows that they fail without it.  `PrioInv` needs that an owner waits for
nothing (`WaitersOwnNothing`): otherwise its priority would change in a suspend list.

**Mailbox, message queue, event, pool.**  `ObjectsInv` is one invariant for the four.
`Base` is what they share: `IpcInv` and `DetachInv`, that one object exists at a time, and
where a caller may be when its object is gone (`CallOK`).  Each object adds its own part, and
each step is looked at from two sides: the object it belongs to shows its own part and `OwnStep`,
which says what the step does to the threads; the other three keep theirs by `OwnStep` alone
(the lemmas `...Foreign`), or, when the step is one of `RetryNext`, by `Aside` (the lemmas `...Aside`).

* *Wake-ups.*  `MbCount`, `MqCount` and `MpCount` say that while somebody waits, the mails,
  slots, messages or blocks there are have a thread on its way for each.  They are counted over
  the sets `Coming` and `Awaited`: a step that rouses a thread makes the set one larger, the
  thread that takes something leaves it, and a timeout takes a thread out of `Awaited`
  without adding it to `Coming`.  An interrupt handler that preempts between the two locks of a call changes
  nothing here, because count and wake-up happen in one lock.
* *Deadlines.*  `Clock` is the loop invariant of the calls that wait: the ticks left, added to
  the tick in `tick_delta`, end where the call was to end, modulo the tick width.
* *Mailbox.*  `MbRing` places `in_offset` from `out_offset` and the count, so that the mails of
  `MbMails` are what the abstract queue holds.
* *Message queue.*  `MqShape` names the two chains as sequences: the links of the first end at
  `msg_queue_tail`, those of the second at `RT_NULL`, and the buffers in them and in
  the hands of callers (`HandNodes`) are each in one place.  `MqApart` says that two callers
  hold two buffers and `MqHand` what is in them, which is why filling and copying with
  interrupts enabled disturbs nobody.  The two loops, the walk along a chain and the one
  of `rt_mq_control`, are folds.
* *Event.*  `EvWaits` says that a waiting receiver asked for bits that are not there.  The
  loop of `rt_event_send` offers the bits to one waiter after another; as bits
  are only taken away, a waiter that was refused once is still not satisfied when the loop ends.
* *Pool.*  `MpCount` has `suspend_thread_count` as at least the number of waiters, which is
  what `PoolCounts` and `NoBlockStranded` need, and which holds with timeouts.
  `PoolLeaksByTimeouts` looks at each step: a call that joins or leaves the list changes
  count and list together, a wake-up that would not stops at the assertion with both as they
  were, and what remains is a thread that `rt_thread_timeout` takes out.

**User timers.**  `FlagTellsList` is not inductive: it says nothing of a timer in somebody's
hand.  `FlagInv` adds for each place of a call whether its timer is in a list, and
that a timer taken out by the user thread is not the one of the timer thread.  That holds because the user thread moves
only while the timer thread sleeps, and that one sleeps at the top of its loop with no timer in
hand.  The one exception, a soft timer that fires between the test of
`rt_timer_stop` and its removal, is harmless: removal and flag are written anyway.
`Touch` is what each part of an operation does to one timer, and there is one lemma per part.
`DueInv` is for `HardPunctual`.  It counts the ticks until each timer is due from
MaxLate ticks ago (one more inside the interrupt): counted so, the hard list is
sorted and its last timer is due within half the range, so that `(t - u) < RT_TICK_MAX / 2` compares
two timers correctly although either may be overdue and the tick may wrap.  `HardOnTime` has
the hypothesis `Exact`: no soft timers (`RT_USING_TIMER_SOFT` is off in the configuration of
the application), or `MaxLate = 0`.  With both, the timer thread that is held up by any
`Slack` ticks may read a soft timer that is long overdue as one due in almost half the range, and its
delay then leaves no room for a timer that is inserted late.  The run `timers` has soft timers and
`MaxLate = 1` with a small `Slack`, where `HardPunctual` holds.

**Parameters.**  `FlashInv` says that a whole page holds the first m words of the save in
progress and erased words behind, for some m, and what the two buffers hold: the second
one is the image of the save or blank, never the one of an older save.  `EraseOf` ties `sr`
to the place of the save: the erase runs in front of the first word, and a page that was cut off
is written by nobody before the next erase.  Of such a page, and of one
whose erase failed, it says only what type its words have (`ReadPage`).  `initFlash` takes a page
whose last word is erased for an empty one, and the word with the speed is the last that is
written.

Induction over data is not available to the provers.  Where an argument needs one it is made with
sets: the first position with a property is a minimum of a set of naturals.  For the loops
(`ResumeAllRounds`, `EvRounds`, `MqRounds`) it is the first round after which an invariant of the loop fails.

Only model-checked: `HardPunctual` with soft timers and late insertions together, which holds for a
small `Slack` only, and `SleepersWake` and `SoftFires`,
which are liveness under fairness and out of the prover's reach.

## Findings

Five runs show a disagreement of the code with what a comment or an assertion of
it says; `PROJECT.json` quotes the lines.  More came up while modelling and are
listed as hazards:

* `rt_mp_alloc` stays in `suspend_thread_count` when its wait times out (`mempool.c:341`, 361).
  The next `rt_mp_free` with an empty list takes the list head for a thread, and the
  `RT_ASSERT` of `rt_thread_resume` (`thread.c:693`) fails.  The run `objects` reaches that
  state: the program counter `mp_assert`.
* `rt_thread_timer_entry` suspends itself in front of its list when the head is due at
  `RT_TICK_MAX` (`timer.c:637`: "no software timer exist, suspend self").
  `SuspendsWithoutTimers` does not hold in the run `timers`; `SoftFires` excepts what follows.
* The node kept across a soft callback (`timer.c:588`), and a callback that starts its own timer
  (`timer.c:533`); the contract of `RtTimer` keeps them out of the run.
* The sector that the second save of the parameters erases (`flash.c:217`), and the page that was
  cut off in its erase or whose erase failed (`main.c:49`).

## Plan

Next would be the driver helpers: completion, ring buffer, data queue and work queue, each
a module on top of `RtIpc`; and `HardPunctual` with soft timers under a bound on `Slack`.

## Not modelled

* `mem.c`: sequential under one semaphore; what is hard in it is arithmetic on
  addresses.  `memheap.c` and `slab.c` are not configured.
* The frame parsers, bluetooth and motor control of the application: one thread each,
  over bytes and values of peripherals.
* Signal masks, `rt_signal_wait` and the siginfo queue; the names and lists of the
  object registry, which the shell reads.
* File systems, network stacks, shell, C library (third-party or without state of the
  kernel), assembly and vendor drivers (below the level of the models; `FLASH_Erase_Sector`
  is the exception), string and formatting services.
