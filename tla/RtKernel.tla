------------------------------ MODULE RtKernel ------------------------------
(***************************************************************************)
(* The state shared by the whole RT-Thread kernel and the primitives that  *)
(* every other part calls with interrupts disabled: the ready queues and   *)
(* the priority bitmap (scheduler.c), thread suspension and resumption     *)
(* (thread.c), the thread timers and the system tick (timer.c, clock.c)    *)
(* and the suspend lists of the IPC objects (ipc.c).                       *)
(*                                                                         *)
(* The state is one record k.  A primitive is an operator from records to  *)
(* records, so that a handler that calls several of them inside one        *)
(* interrupt lock is their composition, Schedule(Resume(k, t)) say, and    *)
(* is one step of the modules that build on this one.                      *)
(*                                                                         *)
(* A thread owns a single list node (thread->tlist), which is linked into  *)
(* a ready queue, into the suspend list of one IPC object, into the list   *)
(* of defunct threads, or nowhere.  k.list holds all those lists.          *)
(***************************************************************************)
EXTENDS Integers, Sequences, SequencesExt

CONSTANTS
  Thread,      \* the thread control blocks
  idle,        \* the idle thread
  PrioMax,     \* RT_THREAD_PRIORITY_MAX; 0 is the highest priority
  InitPrio,    \* thread->init_priority
  InitTick,    \* thread->init_tick, the time slice
  TickMod,     \* RT_TICK_MAX + 1, the number of values of rt_tick_t
  Obj,         \* the IPC objects that own a suspend list
  NestMax      \* bound on rt_scheduler_lock_nest

Prio == 0 .. PrioMax - 1
Tick == 0 .. TickMod - 1
Half == (TickMod - 1) \div 2

ASSUME KernelAssumption ==
  /\ idle \in Thread
  /\ PrioMax \in Nat \ {0}
  /\ InitPrio \in [Thread -> Prio]
  /\ InitPrio[idle] = PrioMax - 1
  /\ InitTick \in [Thread -> Nat \ {0}]
  /\ TickMod \in Nat /\ TickMod >= 5
  /\ NestMax \in Nat \ {0}

(***************************************************************************)
(* The list heads: rt_thread_priority_table[p], the suspend_thread list of *)
(* an IPC object, and rt_thread_defunct.                                   *)
(***************************************************************************)
Ready(p) == <<"ready", p>>
Wait(o)  == <<"wait", o>>
Defunct  == <<"defunct", 0>>
ListHead == {Ready(p) : p \in Prio} \cup {Wait(o) : o \in Obj} \cup {Defunct}

Stat == {"INIT", "READY", "SUSPEND", "CLOSE"}
Err  == {"EOK", "ETIMEOUT", "ERROR", "EINTR"}

KState ==
  [ stat   : [Thread -> Stat],             \* thread->stat
    prio   : [Thread -> Prio],             \* thread->current_priority
    mask   : [Thread -> SUBSET Prio],      \* thread->number_mask, as a set of bits
    err    : [Thread -> Err],              \* thread->error
    slice  : [Thread -> Nat \ {0}],        \* thread->remaining_tick
    list   : [ListHead -> Seq(Thread)],    \* every list a tlist can be in
    group  : SUBSET Prio,                  \* rt_thread_ready_priority_group
    cur    : Thread,                       \* rt_current_thread
    lock   : Nat,                          \* rt_scheduler_lock_nest
    tick   : Tick,                         \* rt_tick
    tmo    : [Thread -> Tick],             \* thread_timer.timeout_tick
    act    : SUBSET Thread,                \* thread_timer has FLAG_ACTIVATED
    timers : Seq(Thread),                  \* rt_timer_list
    isr    : BOOLEAN ]                     \* inside rt_timer_check of the tick ISR

Linked(k, t, h) == t \in Range(k.list[h])
Unlinked(k, t)  == \A h \in ListHead : ~Linked(k, t, h)
InReady(k, t)   == \E p \in Prio : Linked(k, t, Ready(p))
Timed(k, t)     == t \in Range(k.timers)

\* What every primitive preserves.  A list node is in one place of one list at
\* most; the list it is in agrees with the stat and the priority of its thread;
\* a running timer belongs to a suspended thread; every queue with a thread in
\* it has its bit set; idle is always ready.
OneList(k) ==
  /\ \A h \in ListHead : IsInjective(k.list[h])
  /\ \A g, h \in ListHead : g # h => Range(k.list[g]) \cap Range(k.list[h]) = {}
  /\ IsInjective(k.timers)

ListsAgree(k) ==
  \A t \in Thread :
    /\ \A p \in Prio : Linked(k, t, Ready(p)) => k.stat[t] = "READY" /\ k.prio[t] = p
    /\ \A o \in Obj : Linked(k, t, Wait(o)) => k.stat[t] = "SUSPEND"
    /\ Linked(k, t, Defunct) => k.stat[t] = "CLOSE"
    /\ Timed(k, t) => k.stat[t] = "SUSPEND" /\ t \in k.act
    /\ k.stat[t] \in {"READY", "SUSPEND"} => k.mask[t] = {k.prio[t]}

BitsCover(k) ==
  /\ \A p \in Prio : k.list[Ready(p)] # <<>> => p \in k.group
  /\ Linked(k, idle, Ready(PrioMax - 1))

KInv(k) == k \in KState /\ OneList(k) /\ ListsAgree(k) /\ BitsCover(k)

\* the bits that are set although their queue is empty
StaleBits(k) == {p \in k.group : k.list[Ready(p)] = <<>>}
-----------------------------------------------------------------------------
(* scheduler.c *)

\* rt_list_remove(&thread->tlist), whatever list the node is in
Unlink(k, t) ==
  [k EXCEPT !.list = [h \in ListHead |-> RemoveFirst(k.list[h], t)]]

\* rt_schedule_insert_thread
InsertReady(k, t) ==
  [k EXCEPT !.stat[t] = "READY",
            !.list[Ready(k.prio[t])] = Append(@, t),
            !.group = @ \cup k.mask[t]]

\* mutation: the bit of the emptied queue is left set
RemoveReadyKeepBit(k, t) == Unlink(k, t)

\* rt_schedule_remove_thread
RemoveReady(k, t) ==
  LET u == Unlink(k, t)
  IN  IF u.list[Ready(k.prio[t])] = <<>>
      THEN [u EXCEPT !.group = @ \ k.mask[t]]
      ELSE u

\* mutation: rt_scheduler_lock_nest is not tested
ScheduleUnlocked(k) == [k EXCEPT !.cur = Head(k.list[Ready(Min(k.group))])]

\* rt_schedule: the head of the queue of the lowest bit set in the bitmap
Schedule(k) ==
  IF k.lock = 0
  THEN [k EXCEPT !.cur = Head(k.list[Ready(Min(k.group))])]
  ELSE k

\* rt_enter_critical, and rt_exit_critical up to its call of rt_schedule
EnterCritical(k) == [k EXCEPT !.lock = @ + 1]
ExitCritical(k)  == [k EXCEPT !.lock = IF @ <= 1 THEN 0 ELSE @ - 1]
-----------------------------------------------------------------------------
(* timer.c, for the thread timers (one-shot, on the hard timer list) *)

\* tick subtraction of rt_tick_t
Since(a, b) == (a - b) % TickMod

\* _rt_timer_remove.  timeout_tick is read only while the timer is in the
\* list: the model forgets it (0) when the timer leaves.
TimerRemove(k, t) == [k EXCEPT !.timers = RemoveFirst(@, t), !.tmo[t] = 0]

\* mutation: timeout ticks compared without regard to the wrap
TimerPosNoWrap(k, at) ==
  LET later == {i \in DOMAIN k.timers : k.tmo[k.timers[i]] > at}
  IN  IF later = {} THEN Len(k.timers) + 1 ELSE Min(later)

\* where rt_timer_start inserts: before the first timer that is strictly later
TimerPos(k, at) ==
  LET later == { i \in DOMAIN k.timers :
                   Since(k.tmo[k.timers[i]], at) \in 1 .. Half - 1 }
  IN  IF later = {} THEN Len(k.timers) + 1 ELSE Min(later)

\* RT_TIMER_CTRL_SET_TIME followed by rt_timer_start
TimerStart(k, t, delay) ==
  LET u  == TimerRemove(k, t)
      at == (k.tick + delay) % TickMod
  IN  [u EXCEPT !.tmo[t] = at,
                !.timers = InsertAt(@, TimerPos(u, at), t),
                !.act = @ \cup {t}]

\* rt_timer_stop
TimerStop(k, t) ==
  IF t \in k.act
  THEN [TimerRemove(k, t) EXCEPT !.act = @ \ {t}]
  ELSE k

\* rt_timer_detach leaves FLAG_ACTIVATED as it is
TimerDetach(k, t) == TimerRemove(k, t)
-----------------------------------------------------------------------------
(* thread.c *)

\* _rt_thread_init
ThreadInit(k, t) ==
  [k EXCEPT !.stat[t]  = "INIT",
            !.prio[t]  = InitPrio[t],
            !.mask[t]  = {},
            !.err[t]   = "EOK",
            !.slice[t] = InitTick[t],
            !.act      = @ \ {t}]

SetStat(k, t, x) == [k EXCEPT !.stat[t] = x]

\* mutation: number_mask is not recomputed
SetPrioKeepMask(k, t, p) == [k EXCEPT !.prio[t] = p]

\* current_priority and number_mask are always written together
SetPrio(k, t, p) == [k EXCEPT !.prio[t] = p, !.mask[t] = {p}]

\* mutation: a ready thread is not moved to its new queue
ChangePriorityInPlace(k, t, p) == SetPrio(k, t, p)

\* rt_thread_control, RT_THREAD_CTRL_CHANGE_PRIORITY
ChangePriority(k, t, p) ==
  IF k.stat[t] = "READY"
  THEN InsertReady(SetPrio(RemoveReady(k, t), t, p), t)
  ELSE SetPrio(k, t, p)

\* rt_thread_suspend, behind its test of stat
Suspend(k, t) == TimerStop(RemoveReady(SetStat(k, t, "SUSPEND"), t), t)

\* mutations: the node, or the timer, is not removed
ResumeUnlinkKeepNode(k, t) == TimerStop(k, t)
ResumeUnlinkKeepTimer(k, t) == Unlink(k, t)

\* the interrupt lock of rt_thread_resume; the insertion is a second one
ResumeUnlink(k, t) == TimerStop(Unlink(k, t), t)

\* rt_thread_resume called with interrupts disabled
Resume(k, t) == InsertReady(ResumeUnlink(k, t), t)

\* rt_thread_yield: the test, and what its interrupt lock does when it holds
Shares(k) == k.stat[k.cur] = "READY" /\ Len(k.list[Ready(k.prio[k.cur])]) > 1

Rotate(k) == [k EXCEPT !.list[Ready(k.prio[k.cur])] = Append(RemoveFirst(@, k.cur), k.cur)]

\* rt_thread_yield called in the tick interrupt
Yield(k) == IF Shares(k) THEN Schedule(Rotate(k)) ELSE k
-----------------------------------------------------------------------------
(* The tick interrupt.  rt_timer_check keeps interrupts disabled while it  *)
(* walks the list; each expired timer is one step under k.isr, and nothing *)
(* else moves while k.isr holds.                                           *)

\* rt_tick_increase up to its call of rt_timer_check
TickIncrease(k) ==
  LET t == k.cur
      u == [k EXCEPT !.tick = (@ + 1) % TickMod,
                     !.isr = TRUE,
                     !.slice[t] = IF @ = 1 THEN InitTick[t] ELSE @ - 1]
  IN  IF k.slice[t] = 1 THEN Yield(u) ELSE u

\* the test of rt_timer_check on the first timer of the list
Expired(k) ==
  /\ k.timers # <<>>
  /\ Since(k.tick, k.tmo[Head(k.timers)]) < Half

\* mutation: the expired timer stays in the list
TimerFireKeep(k) ==
  LET t == Head(k.timers)
  IN  Schedule(InsertReady(Unlink([k EXCEPT !.err[t] = "ETIMEOUT"], t), t))

\* mutation: the node of the thread is left in the list it waits in
TimerFireLinked(k) ==
  LET t == Head(k.timers)
      u == [k EXCEPT !.timers = Tail(@), !.tmo[t] = 0, !.act = @ \ {t},
                     !.err[t] = "ETIMEOUT"]
  IN  Schedule(InsertReady(u, t))

\* one round of the loop of rt_timer_check, with rt_thread_timeout
TimerFire(k) ==
  LET t == Head(k.timers)
      u == [k EXCEPT !.timers = Tail(@), !.tmo[t] = 0, !.act = @ \ {t},
                     !.err[t] = "ETIMEOUT"]
  IN  Schedule(InsertReady(Unlink(u, t), t))

TimerCheck(k) == IF Expired(k) THEN TimerFire(k) ELSE [k EXCEPT !.isr = FALSE]
-----------------------------------------------------------------------------
(* ipc.c: the suspend list of an IPC object *)

\* mutation: the priorities are not compared
IpcListSuspendLast(k, o, flag, t) ==
  LET u == Suspend(k, t)
  IN  [u EXCEPT !.list[Wait(o)] = Append(@, t)]

\* rt_ipc_list_suspend: RT_IPC_FLAG_PRIO inserts before the first waiter of
\* strictly lower priority
IpcListSuspend(k, o, flag, t) ==
  LET u      == Suspend(k, t)
      q      == u.list[Wait(o)]
      behind == {i \in DOMAIN q : u.prio[t] < u.prio[q[i]]}
      pos    == IF flag = "FIFO" \/ behind = {} THEN Len(q) + 1 ELSE Min(behind)
  IN  [u EXCEPT !.list[Wait(o)] = InsertAt(q, pos, t)]

\* rt_ipc_list_resume: the first waiter becomes ready
IpcListResume(k, o) == Resume(k, Head(k.list[Wait(o)]))

\* one round of rt_ipc_list_resume_all: the waiter is told of the deletion
IpcListResumeOne(k, o) ==
  LET t == Head(k.list[Wait(o)])
  IN  Resume([k EXCEPT !.err[t] = "ERROR"], t)
-----------------------------------------------------------------------------
(* After rt_system_scheduler_start: only idle and the main thread exist.   *)
KInit(main) ==
  [ stat   |-> [t \in Thread |-> IF t \in {main, idle} THEN "READY" ELSE "CLOSE"],
    prio   |-> InitPrio,
    mask   |-> [t \in Thread |-> IF t \in {main, idle} THEN {InitPrio[t]} ELSE {}],
    err    |-> [t \in Thread |-> "EOK"],
    slice  |-> InitTick,
    list   |-> [h \in ListHead |->
                  IF h = Ready(InitPrio[main])
                  THEN IF InitPrio[main] = InitPrio[idle] THEN <<main, idle>> ELSE <<main>>
                  ELSE IF h = Ready(InitPrio[idle]) THEN <<idle>> ELSE <<>>],
    group  |-> {InitPrio[main], InitPrio[idle]},
    cur    |-> main,
    lock   |-> 0,
    tick   |-> 0,
    tmo    |-> [t \in Thread |-> 0],
    act    |-> {},
    timers |-> <<>>,
    isr    |-> FALSE ]

\* Every thread has been started; q[p] is the ready queue of priority p.
KStarted(q) ==
  [ KInit(idle) EXCEPT
      !.stat  = [t \in Thread |-> "READY"],
      !.mask  = [t \in Thread |-> {InitPrio[t]}],
      !.list  = [h \in ListHead |-> IF h[1] = "ready" THEN q[h[2]] ELSE <<>>],
      !.group = {p \in Prio : q[p] # <<>>},
      !.cur   = Head(q[Min({p \in Prio : q[p] # <<>>})]) ]
=============================================================================
