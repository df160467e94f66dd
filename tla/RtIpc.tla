------------------------------- MODULE RtIpc -------------------------------
(***************************************************************************)
(* What the blocking objects of ipc.c have in common: threads that call    *)
(* their operations, the suspend list a caller waits in, the timeout that  *)
(* takes it out again, the loop that wakes every waiter of an object that  *)
(* is detached or deleted, and the tick interrupt.                         *)
(*                                                                         *)
(* A thread takes a step only while it is rt_current_thread, and what runs *)
(* with interrupts disabled is one step.  op[c].pc is the place of c in    *)
(* the call it makes and op[c].on the object of the call.                  *)
(***************************************************************************)
EXTENDS RtKernel

CONSTANTS
  Flag,      \* RT_IPC_FLAG_FIFO or RT_IPC_FLAG_PRIO of each object
  Time,      \* the waiting times of the callers; -1 is RT_WAITING_FOREVER
  Queue      \* the ready queue of each priority when the program starts

NoObj == "none"

ASSUME IpcAssumption ==
  /\ NoObj \notin Obj
  /\ Flag \in [Obj -> {"FIFO", "PRIO"}]
  /\ Time \subseteq {-1} \cup 1 .. Half - 1    \* the RT_ASSERT of rt_timer_start
  /\ Queue \in [Prio -> Seq(Thread)]
  /\ \A p \in Prio : IsInjective(Queue[p]) /\ Range(Queue[p]) = {t \in Thread : InitPrio[t] = p}

VARIABLES
  k,      \* the kernel state of RtKernel
  op,     \* the call each thread is executing
  alive   \* the objects between their init and their detach or delete

IpcPC == { "run",                          \* in the caller's code
           "sched",                        \* before the last rt_schedule of a call
           "wait_sched", "wait_return",    \* in a suspend list, or just out of it
           "resume_test", "resume_one",    \* rt_ipc_list_resume_all of a detach
           "sleep_sched", "sleep_return",  \* rt_thread_sleep
           "return",                       \* done, before the return to the caller
           "mq_fill", "mq_link",           \* rt_mq_send
           "mq_ufill", "mq_ulink",         \* rt_mq_urgent
           "mq_copy", "mq_free",           \* rt_mq_recv
           "mp_time",                      \* rt_mp_alloc, woken
           "mp_assert",                    \* stopped by a failed RT_ASSERT in rt_mp_free
           "assert" }                      \* stopped by a failed RT_ASSERT

User == Thread \ {idle}

At(c, pc)      == ~k.isr /\ k.cur = c /\ op[c].pc = pc
Goto(c, pc)    == op' = [op EXCEPT ![c].pc = pc]
Call(c, pc, o) == op' = [op EXCEPT ![c] = [pc |-> pc, on |-> o]]
Return(c)      == Call(c, "run", NoObj)

Waiters(o)   == k.list[Wait(o)]
Blocked(c)   == op[c].pc \in {"wait_sched", "wait_return"}
-----------------------------------------------------------------------------
\* the interrupt lock in which a caller gives up waiting for the object's state
\* to change and blocks, for d ticks or for ever
Block(s, o, c, d) ==
  LET u == IpcListSuspend([s EXCEPT !.err[c] = "EOK"], o, Flag[o], c)
  IN  IF d > 0 THEN TimerStart(u, c, d) ELSE u

\* the rt_schedule that lets the blocked caller go
WaitSchedule(c) ==
  /\ At(c, "wait_sched")
  /\ k' = Schedule(k)
  /\ Goto(c, "wait_return")
  /\ UNCHANGED alive

\* the rt_schedule after a waiter was resumed
SchedReturn(c) ==
  /\ At(c, "sched")
  /\ k' = Schedule(k)
  /\ Return(c)
  /\ UNCHANGED alive

(* rt_thread_sleep, for callers that do something else between two calls *)
rt_thread_sleep(c, d) ==
  /\ At(c, "run")
  /\ k' = TimerStart(Suspend(k, c), c, d)
  /\ Goto(c, "sleep_sched")
  /\ UNCHANGED alive

SleepSchedule(c) ==
  /\ At(c, "sleep_sched")
  /\ k' = Schedule(k)
  /\ Goto(c, "sleep_return")
  /\ UNCHANGED alive

SleepReturn(c) ==
  /\ At(c, "sleep_return")
  /\ k' = [k EXCEPT !.err[c] = IF @ = "ETIMEOUT" THEN "EOK" ELSE @]
  /\ Return(c)
  /\ UNCHANGED alive

Sleep(c) ==
  \/ \E d \in Time \ {-1} : rt_thread_sleep(c, d)
  \/ SleepSchedule(c)
  \/ SleepReturn(c)
-----------------------------------------------------------------------------
(* Creation and removal of an object *)

\* nobody is inside a call on o
Unused(o) == \A c \in Thread : op[c].on # o

\* rt_xxx_init, rt_xxx_create
ObjInit(c, o) ==
  /\ At(c, "run")
  /\ o \notin alive
  /\ Unused(o)
  /\ alive' = alive \cup {o}
  /\ UNCHANGED <<k, op>>

\* rt_xxx_detach, rt_xxx_delete; the users of o know that it is gone
ObjDetachAny(c, o) ==
  /\ At(c, "run")
  /\ o \in alive
  /\ alive' = alive \ {o}
  /\ Call(c, "resume_test", o)
  /\ UNCHANGED k

\* the callers make sure that the tick interrupt moves none of the waiters
ObjDetach(c, o) ==
  /\ \A t \in Range(Waiters(o)) : ~Timed(k, t)
  /\ ObjDetachAny(c, o)

\* the list that a detach goes on with: a mailbox has one for its senders too
After(o) == IF o = "mb" THEN "mb_sender" ELSE NoObj

\* mutation: the loop begins with its body
ResumeTestNot(c) ==
  /\ At(c, "resume_test")
  /\ Goto(c, "resume_one")
  /\ UNCHANGED <<k, alive>>

\* rt_ipc_list_resume_all: the test of the loop is outside the interrupt lock
ResumeTest(c) ==
  /\ At(c, "resume_test")
  /\ IF Waiters(op[c].on) # <<>> THEN Goto(c, "resume_one")
     ELSE IF After(op[c].on) # NoObj THEN Call(c, "resume_test", After(op[c].on))
     ELSE Return(c)
  /\ UNCHANGED <<k, alive>>

\* the body of the loop.  With the list empty, list->next is the list head,
\* which the RT_ASSERT of rt_thread_resume finds not to be a thread.
ResumeOne(c) ==
  /\ At(c, "resume_one")
  /\ IF Waiters(op[c].on) = <<>>
     THEN Goto(c, "assert") /\ UNCHANGED k
     ELSE k' = IpcListResumeOne(k, op[c].on) /\ Goto(c, "resume_test")
  /\ UNCHANGED alive

\* rt_ipc_list_resume_all with interrupts disabled by the caller
ResumeAll(s, o) ==
  FoldLeft(LAMBDA u, t : Resume([u EXCEPT !.err[t] = "ERROR"], t), s, s.list[Wait(o)])
-----------------------------------------------------------------------------
(* The tick interrupt *)

rt_tick_increase ==
  /\ ~k.isr
  /\ k' = TickIncrease(k)
  /\ UNCHANGED <<op, alive>>

rt_timer_check ==
  /\ k.isr
  /\ k' = TimerCheck(k)
  /\ UNCHANGED <<op, alive>>

IpcStart ==
  /\ k = KStarted(Queue)
  /\ op = [t \in Thread |-> [pc |-> "run", on |-> NoObj]]

IpcInit == IpcStart /\ alive = Obj

\* the steps that any blocking object shares
IpcNext ==
  \/ \E c \in User : WaitSchedule(c) \/ SchedReturn(c) \/ ResumeTest(c) \/ ResumeOne(c)
  \/ rt_tick_increase
  \/ rt_timer_check
-----------------------------------------------------------------------------
IpcTypeOK ==
  /\ k \in KState
  /\ op \in [Thread -> [pc : IpcPC, on : Obj \cup {NoObj}]]
  /\ alive \subseteq Obj

\* A thread is in the suspend list of an object only while it is inside a
\* blocking call on it, and a thread that has left the call is in none.
WaitersBlocked ==
  \A c \in Thread : \A o \in Obj :
    Linked(k, c, Wait(o)) => Blocked(c) /\ op[c].on = o

\* RT_ASSERT of rt_thread_resume in the loop of rt_ipc_list_resume_all: there
\* is a waiter to resume when the loop takes the head of the list.
ResumeAllFindsWaiter == \A c \in Thread : op[c].pc # "assert"

\* RT_IPC_FLAG_PRIO: the waiters are in the order of their priorities.
WaitersOrdered ==
  \A o \in Obj : Flag[o] = "PRIO" =>
    \A i, j \in DOMAIN Waiters(o) :
      i < j => k.prio[Waiters(o)[i]] <= k.prio[Waiters(o)[j]]
=============================================================================
