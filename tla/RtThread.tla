------------------------------ MODULE RtThread ------------------------------
(***************************************************************************)
(* Threads under the RT-Thread scheduler: the operations of thread.c and   *)
(* scheduler.c as an arbitrary program may call them, the tick interrupt   *)
(* of clock.c and timer.c, and the idle thread of idle.c that frees dead   *)
(* threads.                                                                *)
(*                                                                         *)
(* A thread takes a step only while it is rt_current_thread.  What runs    *)
(* between rt_hw_interrupt_disable and rt_hw_interrupt_enable is one step; *)
(* between two such steps of an operation the tick interrupt, and through  *)
(* it another thread, may run.  op[c].pc says where c is in the operation  *)
(* it calls and op[c].on which thread the operation is about.              *)
(***************************************************************************)
EXTENDS RtKernel

CONSTANTS
  main,       \* the thread rtthread_startup creates
  Static,     \* threads made by rt_thread_init; the others by rt_thread_create
  HasCleanup, \* threads whose cleanup function is set
  Delay       \* the arguments of rt_thread_sleep

ASSUME ThreadAssumption ==
  /\ main \in Thread \ {idle}
  /\ InitPrio[main] # InitPrio[idle]
  /\ Static \subseteq Thread
  /\ HasCleanup \subseteq Thread
  /\ Delay \subseteq 0 .. Half - 1    \* the RT_ASSERT of rt_timer_start

VARIABLES
  k,     \* the kernel state of RtKernel
  op,    \* the operation each thread is executing
  type   \* object->type of each thread: 0, or the kind of its object

vars == <<k, op, type>>

live == {t \in Thread : type[t] # "none"}

PC == { "run",                                            \* in the caller's code
        "sched",                                          \* before the last rt_schedule of a call
        "start_unlink", "start_insert",                   \* rt_thread_startup
        "resume_unlink", "resume_insert",                 \* rt_thread_resume
        "suspend",                                        \* rt_thread_suspend of another thread
        "delete_timer", "delete_close",                   \* rt_thread_delete, rt_thread_detach
        "sleep_sched", "sleep_return",                    \* rt_thread_sleep
        "exit_sched", "dead",                             \* rt_thread_exit
        "reap_free" }                                     \* rt_thread_idle_excute

At(c, pc)      == ~k.isr /\ k.cur = c /\ op[c].pc = pc
Goto(c, pc)    == op' = [op EXCEPT ![c].pc = pc]
Call(c, pc, t) == op' = [op EXCEPT ![c] = [pc |-> pc, on |-> t]]
-----------------------------------------------------------------------------
(* What the callers respect.  The kernel does not enforce it: the stat of  *)
(* the target is tested before the interrupt lock that acts on it.         *)

\* no other thread is inside an operation on t
Exclusive(t) == \A c \in Thread \ {t} : op[c].pc = "run" \/ op[c].on # t

\* t cannot be moved by the tick interrupt
Untimed(t) == ~Timed(k, t)

\* an operation on another thread is made with the scheduler locked, unless
\* the target can neither run nor time out
MayOperateOn(c, t) ==
  /\ t \in live \ {c, idle}
  /\ Exclusive(t)
  /\ k.lock > 0 \/ (k.stat[t] \in {"INIT", "SUSPEND"} /\ Untimed(t))
-----------------------------------------------------------------------------
(* Creation and start *)

\* rt_object_init marks the object of a static thread
Kind(t) == IF t \in Static THEN "static" ELSE "dynamic"

\* rt_thread_create of a dynamic thread, rt_thread_init of a static one, whose
\* memory is in no use
rt_thread_create(c, t) ==
  /\ At(c, "run")
  /\ t \notin live
  /\ Unlinked(k, t)
  /\ Exclusive(t)
  /\ k' = ThreadInit(k, t)
  /\ type' = [type EXCEPT ![t] = Kind(t)]
  /\ op' = [op EXCEPT ![t] = [pc |-> "run", on |-> t]]

rt_thread_startup(c, t) ==
  /\ At(c, "run")
  /\ t \in live /\ t # c
  /\ Exclusive(t)
  /\ k.stat[t] = "INIT"
  /\ k' = SetStat(SetPrio(k, t, InitPrio[t]), t, "SUSPEND")
  /\ Call(c, "start_unlink", t)
  /\ UNCHANGED type

\* the two interrupt locks of the rt_thread_resume it calls
StartUnlink(c) ==
  /\ At(c, "start_unlink")
  /\ k' = ResumeUnlink(k, op[c].on)
  /\ Goto(c, "start_insert")
  /\ UNCHANGED type

StartInsert(c) ==
  /\ At(c, "start_insert")
  /\ k' = InsertReady(k, op[c].on)
  /\ Call(c, "sched", c)
  /\ UNCHANGED type
-----------------------------------------------------------------------------
(* Suspension, resumption, priority *)

rt_thread_resume(c, t) ==
  /\ At(c, "run")
  /\ MayOperateOn(c, t)
  /\ k.stat[t] = "SUSPEND"
  /\ Call(c, "resume_unlink", t)
  /\ UNCHANGED <<k, type>>

ResumeUnlinkStep(c) ==
  /\ At(c, "resume_unlink")
  /\ k' = ResumeUnlink(k, op[c].on)
  /\ Goto(c, "resume_insert")
  /\ UNCHANGED type

ResumeInsert(c) ==
  /\ At(c, "resume_insert")
  /\ k' = InsertReady(k, op[c].on)
  /\ Call(c, "run", c)
  /\ UNCHANGED type

rt_thread_suspend(c, t) ==
  /\ At(c, "run")
  /\ MayOperateOn(c, t)
  /\ k.stat[t] = "READY"
  /\ Call(c, "suspend", t)
  /\ UNCHANGED <<k, type>>

SuspendOther(c) ==
  /\ At(c, "suspend")
  /\ k' = Suspend(k, op[c].on)
  /\ Call(c, "run", c)
  /\ UNCHANGED type

\* rt_thread_suspend(rt_thread_self()), to be followed by rt_schedule
SuspendSelf(c) ==
  /\ At(c, "run")
  /\ c # idle
  /\ k.lock = 0
  /\ k' = Suspend(k, c)
  /\ Call(c, "sched", c)
  /\ UNCHANGED type

rt_thread_change_priority(c, t, p) ==
  /\ At(c, "run")
  /\ t \in live \ {idle}
  /\ Exclusive(t)
  /\ k' = ChangePriority(k, t, p)
  /\ UNCHANGED <<op, type>>
-----------------------------------------------------------------------------
(* Giving up the processor *)

rt_thread_yield(c) ==
  /\ At(c, "run")
  /\ IF Shares(k) THEN k' = Rotate(k) /\ Call(c, "sched", c) ELSE UNCHANGED <<k, op>>
  /\ UNCHANGED type

rt_thread_sleep(c, d) ==
  /\ At(c, "run")
  /\ c # idle
  /\ k.lock = 0
  /\ k' = TimerStart(Suspend(k, c), c, d)
  /\ Call(c, "sleep_sched", c)
  /\ UNCHANGED type

SleepSchedule(c) ==
  /\ At(c, "sleep_sched")
  /\ k' = Schedule(k)
  /\ Goto(c, "sleep_return")
  /\ UNCHANGED type

\* mutation: the error is not reset
SleepReturnKeepError(c) ==
  /\ At(c, "sleep_return")
  /\ Goto(c, "run")
  /\ UNCHANGED <<k, type>>

SleepReturn(c) ==
  /\ At(c, "sleep_return")
  /\ k' = [k EXCEPT !.err[c] = IF @ = "ETIMEOUT" THEN "EOK" ELSE @]
  /\ Goto(c, "run")
  /\ UNCHANGED type

rt_enter_critical(c) ==
  /\ At(c, "run")
  /\ k.lock < NestMax
  /\ k' = EnterCritical(k)
  /\ UNCHANGED <<op, type>>

rt_exit_critical(c) ==
  /\ At(c, "run")
  /\ k' = ExitCritical(k)
  /\ IF k'.lock = 0 THEN Call(c, "sched", c) ELSE UNCHANGED op
  /\ UNCHANGED type

rt_schedule(c) ==
  /\ At(c, "sched")
  /\ k' = Schedule(k)
  /\ Goto(c, "run")
  /\ UNCHANGED type
-----------------------------------------------------------------------------
(* The end of a thread *)

\* insertion behind the head of rt_thread_defunct
ToDefunct(s, t) == [s EXCEPT !.list[Defunct] = <<t>> \o @]

rt_thread_exit(c) ==
  LET u == TimerDetach(SetStat(RemoveReady(k, c), c, "CLOSE"), c)
  IN  /\ At(c, "run")
      /\ c # idle
      /\ k.lock = 0
      /\ IF type[c] = "static" /\ c \notin HasCleanup
         THEN k' = u /\ type' = [type EXCEPT ![c] = "none"]
         ELSE k' = ToDefunct(u, c) /\ UNCHANGED type
      /\ Call(c, "exit_sched", c)

ExitSchedule(c) ==
  /\ At(c, "exit_sched")
  /\ k' = Schedule(k)
  /\ Goto(c, "dead")
  /\ UNCHANGED type

\* mutation: the thread is not taken out of its queue
DeleteAnyQueued(c, t) ==
  /\ At(c, "run")
  /\ MayOperateOn(c, t)
  /\ k.stat[t] # "CLOSE"
  /\ Call(c, "delete_timer", t)
  /\ UNCHANGED <<k, type>>

\* rt_thread_delete of a dynamic thread, rt_thread_detach of a static one, up
\* to the call of rt_timer_detach
DeleteAny(c, t) ==
  /\ At(c, "run")
  /\ MayOperateOn(c, t)
  /\ k.stat[t] # "CLOSE"
  /\ k' = IF k.stat[t] = "INIT" THEN k ELSE RemoveReady(k, t)
  /\ Call(c, "delete_timer", t)
  /\ UNCHANGED type

\* called on a thread that no timer is running for and, when it is static,
\* that has no cleanup function
rt_thread_delete(c, t) ==
  /\ Untimed(t)
  /\ t \notin Static \cap HasCleanup
  /\ DeleteAny(c, t)

DeleteTimer(c) ==
  /\ At(c, "delete_timer")
  /\ k' = TimerDetach(k, op[c].on)
  /\ Goto(c, "delete_close")
  /\ UNCHANGED type

DeleteClose(c) ==
  LET t == op[c].on
      u == SetStat(k, t, "CLOSE")
  IN  /\ At(c, "delete_close")
      /\ k' = IF t \in Static \ HasCleanup THEN u ELSE ToDefunct(u, t)
      /\ type' = IF t \in Static THEN [type EXCEPT ![t] = "none"] ELSE type
      /\ Call(c, "run", c)

\* mutations: the node stays in rt_thread_defunct; static threads are freed too
IdleReapKeepNode ==
  LET t == Head(k.list[Defunct])
  IN  /\ At(idle, "run")
      /\ k.lock = 0
      /\ k.list[Defunct] # <<>>
      /\ k' = Schedule(k)
      /\ Call(idle, "reap_free", t)
      /\ UNCHANGED type

IdleReapFreeAll ==
  LET t == Head(k.list[Defunct])
  IN  /\ At(idle, "run")
      /\ k.lock = 0
      /\ k.list[Defunct] # <<>>
      /\ k' = Schedule(Unlink(k, t))
      /\ Call(idle, "reap_free", t)
      /\ UNCHANGED type

\* rt_thread_idle_excute: the lock, the cleanup and the rt_exit_critical that
\* schedules; a static thread is not freed
IdleReap ==
  LET t == Head(k.list[Defunct])
  IN  /\ At(idle, "run")
      /\ k.lock = 0
      /\ k.list[Defunct] # <<>>
      /\ k' = Schedule(Unlink(k, t))
      /\ IF type[t] = "static"
         THEN UNCHANGED <<op, type>>
         ELSE Call(idle, "reap_free", t) /\ UNCHANGED type

\* RT_KERNEL_FREE of the stack and rt_object_delete
IdleFree ==
  /\ At(idle, "reap_free")
  /\ type' = [type EXCEPT ![op[idle].on] = "none"]
  /\ Call(idle, "run", idle)
  /\ UNCHANGED k
-----------------------------------------------------------------------------
(* The tick interrupt *)

rt_tick_increase ==
  /\ ~k.isr
  /\ k' = TickIncrease(k)
  /\ UNCHANGED <<op, type>>

rt_timer_check ==
  /\ k.isr
  /\ k' = TimerCheck(k)
  /\ UNCHANGED <<op, type>>
-----------------------------------------------------------------------------
Init ==
  /\ k = KInit(main)
  /\ op = [t \in Thread |-> [pc |-> "run", on |-> t]]
  /\ type = [t \in Thread |-> IF t \in {main, idle} THEN Kind(t) ELSE "none"]

\* the steps that finish an operation a thread has begun
Continue(c) ==
  \/ StartUnlink(c) \/ StartInsert(c)
  \/ ResumeUnlinkStep(c) \/ ResumeInsert(c)
  \/ SuspendOther(c)
  \/ SleepSchedule(c) \/ SleepReturn(c)
  \/ rt_schedule(c)
  \/ ExitSchedule(c)
  \/ DeleteTimer(c) \/ DeleteClose(c)

\* the calls a program may make; idle makes none
Begin(c) ==
  \/ \E t \in Thread :
       \/ rt_thread_create(c, t)
       \/ rt_thread_startup(c, t)
       \/ rt_thread_resume(c, t)
       \/ rt_thread_suspend(c, t)
       \/ rt_thread_delete(c, t)
       \/ \E p \in Prio : rt_thread_change_priority(c, t, p)
  \/ SuspendSelf(c)
  \/ rt_thread_yield(c)
  \/ \E d \in Delay : rt_thread_sleep(c, d)
  \/ rt_enter_critical(c)
  \/ rt_exit_critical(c)
  \/ rt_thread_exit(c)

Interrupt == rt_tick_increase \/ rt_timer_check

Next ==
  \/ \E c \in Thread \ {idle} : Begin(c) \/ Continue(c)
  \/ IdleReap \/ IdleFree
  \/ Interrupt

Spec == Init /\ [][Next]_vars

\* SysTick fires for ever, and its handler runs to the end
FairSpec == Spec /\ WF_vars(rt_tick_increase) /\ WF_vars(rt_timer_check)

\* rt_thread_delete and rt_thread_detach called on any thread whatever
NextAny == Next \/ \E c, t \in Thread \ {idle} : DeleteAny(c, t)
SpecAny == Init /\ [][NextAny]_vars
-----------------------------------------------------------------------------
(* Properties *)

TypeOK ==
  /\ k \in KState
  /\ op \in [Thread -> [pc : PC, on : Thread]]
  /\ type \in [Thread -> {"none", "static", "dynamic"}]

\* A list node is in one place of one list at most: the interrupt locks of
\* resume, timeout, delete and exit never link a node that is still linked.
NodesLinkedOnce == OneList(k)

\* t is between two steps of an operation of c that has unlinked its node
HalfWay(c, t) ==
  /\ op[c].on = t
  /\ op[c].pc \in {"resume_insert", "delete_timer", "delete_close"}

\* The ready queues hold exactly the ready threads, at their current priority.
\* Only between the two interrupt locks of a resume that raced with the
\* timeout of its target, or inside a delete, is a ready thread in no queue.
ReadyQueues ==
  \A t \in Thread :
    /\ \A p \in Prio : Linked(k, t, Ready(p)) => k.stat[t] = "READY" /\ k.prio[t] = p
    /\ \/ k.stat[t] = "READY" => Linked(k, t, Ready(k.prio[t]))
       \/ \E c \in Thread : HalfWay(c, t)

\* rt_schedule never follows an empty queue: when it may switch, the bits of
\* rt_thread_ready_priority_group are the queues with a thread in them, so
\* that its unchecked rt_list_entry is a thread.
Bitmap == k.lock = 0 => k.group = {p \in Prio : k.list[Ready(p)] # <<>>} /\ k.group # {}

\* RT_ASSERT of rt_thread_timeout: a thread whose timer is running is suspended.
TimeoutFindsSuspended == \A t \in Thread : Timed(k, t) => k.stat[t] = "SUSPEND"

\* The timer list is in the order of expiry across the wrap of rt_tick, and
\* outside the tick interrupt no timer in it is overdue.
TimersOrdered ==
  LET left(i) == Since(k.tmo[k.timers[i]], k.tick)
  IN  ~k.isr => \A i, j \in DOMAIN k.timers :
                  i <= j => left(i) <= left(j) /\ left(j) < Half

\* A thread that idle frees is not running, not queued and has no timer.
FreedUnused ==
  op[idle].pc = "reap_free" =>
    LET t == op[idle].on
    IN  t # k.cur /\ Unlinked(k, t) /\ ~Timed(k, t)

\* rt_object_detach promises that the memory of a static object is not freed.
StaticNotFreed == op[idle].pc = "reap_free" => op[idle].on \notin Static

\* rt_thread_delete removes the thread from its queue: a closed thread is in
\* no ready queue, so that the scheduler never switches to it.
ClosedNotReady == \A t \in Thread : k.stat[t] = "CLOSE" => ~InReady(k, t)

\* The timeout of a sleep is not left in thread->error for the next call.
NoStaleTimeout ==
  \A t \in live : op[t].pc \in {"run", "sched"} => k.err[t] # "ETIMEOUT"

\* A switch goes to a ready thread of the highest priority there is, and
\* never while the scheduler is locked.
SwitchToHighest ==
  [][ k'.cur # k.cur =>
        /\ k'.lock = 0
        /\ k'.stat[k'.cur] = "READY"
        /\ \A t \in Thread : InReady(k', t) => k'.prio[k'.cur] <= k'.prio[t] ]_vars

\* A sleeping thread is woken, by its timer or by a resume.
SleepersWake == \A t \in Thread : Timed(k, t) ~> ~Timed(k, t)
-----------------------------------------------------------------------------
(* The inductive invariant.  An operation on another thread either holds   *)
(* the scheduler lock or has a target that nothing else can move.          *)

Holds(c) == k.cur = c /\ k.lock > 0

OpInv(c) ==
  LET t  == op[c].on
      pc == op[c].pc
  IN  /\ pc \in {"run", "sched", "sleep_sched", "sleep_return", "exit_sched", "dead"}
           => t = c
      /\ t # c => t # idle /\ t # k.cur
      /\ c = idle => pc \in {"run", "reap_free"}
      /\ pc \in {"start_unlink", "start_insert"} =>
           t # c /\ k.stat[t] = "SUSPEND" /\ Unlinked(k, t) /\ ~Timed(k, t)
      /\ pc = "resume_unlink" =>
           /\ t # c
           /\ \/ k.stat[t] = "SUSPEND" /\ ~Timed(k, t)
              \/ k.stat[t] \in {"SUSPEND", "READY"} /\ Holds(c)
      /\ pc = "resume_insert" =>
           /\ t # c /\ Unlinked(k, t) /\ ~Timed(k, t)
           /\ k.stat[t] = "SUSPEND" \/ (k.stat[t] = "READY" /\ Holds(c))
      /\ pc = "suspend" => t # c /\ k.stat[t] = "READY" /\ Holds(c)
      /\ pc \in {"delete_timer", "delete_close"} =>
           /\ t # c /\ Unlinked(k, t) /\ ~Timed(k, t)
           /\ k.stat[t] \in {"INIT", "SUSPEND"} \/ (k.stat[t] = "READY" /\ Holds(c))
      /\ pc = "reap_free" =>
           t # c /\ k.stat[t] = "CLOSE" /\ Unlinked(k, t)
      /\ pc \in {"exit_sched", "dead"} => k.stat[c] = "CLOSE"

\* the running thread is in its queue, unless it has just left it
CurInv ==
  \/ Linked(k, k.cur, Ready(k.prio[k.cur]))
  \/ /\ k.lock = 0
     /\ \/ k.stat[k.cur] = "SUSPEND" /\ op[k.cur].pc \in {"sched", "sleep_sched"}
        \/ k.stat[k.cur] = "CLOSE" /\ op[k.cur].pc = "exit_sched"

IInv ==
  /\ TypeOK
  /\ KInv(k)
  /\ \A c \in Thread : OpInv(c)
  /\ \A c, d \in Thread : c # d /\ op[c].on # c /\ op[d].on # d => op[c].on # op[d].on
  /\ CurInv
  /\ \A t \in Thread : type[t] = "none" => k.stat[t] = "CLOSE"
  /\ \A t \in Thread :
       k.stat[t] = "READY" => Linked(k, t, Ready(k.prio[t])) \/ \E c \in Thread : HalfWay(c, t)
  /\ \A p \in StaleBits(k) : \E c \in Thread :
       op[c].pc = "resume_insert" /\ Holds(c) /\ k.prio[op[c].on] = p
=============================================================================
