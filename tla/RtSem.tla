------------------------------- MODULE RtSem -------------------------------
(***************************************************************************)
(* The semaphores of ipc.c under the scheduler: threads that take with and *)
(* without a timeout, release, reset and detach them, and interrupt        *)
(* handlers that release them.  Obj is the set of semaphores.              *)
(***************************************************************************)
EXTENDS RtIpc

CONSTANTS
  ValueMod,   \* 2^16: sem->value is a rt_uint16_t
  InitValue   \* the values given to rt_sem_init and to RT_IPC_CMD_RESET

ASSUME SemAssumption ==
  /\ "mb" \notin Obj                      \* the name that After keeps for the mailbox
  /\ ValueMod \in Nat \ {0}
  /\ InitValue \subseteq 0 .. ValueMod - 1

VARIABLE value   \* sem->value

vars == <<k, op, alive, value>>
-----------------------------------------------------------------------------
\* rt_sem_take of an available semaphore.  With time = 0 an unavailable one is
\* refused at once and nothing changes.
rt_sem_take(c, o) ==
  /\ At(c, "run")
  /\ o \in alive
  /\ value[o] > 0
  /\ value' = [value EXCEPT ![o] = @ - 1]
  /\ UNCHANGED <<k, op, alive>>

TakeWait(c, o, d) ==
  /\ At(c, "run")
  /\ o \in alive
  /\ value[o] = 0
  /\ k' = Block(k, o, c, d)
  /\ Call(c, "wait_sched", o)
  /\ UNCHANGED <<alive, value>>

\* the call returns thread->error
TakeReturn(c) ==
  /\ At(c, "wait_return")
  /\ Return(c)
  /\ UNCHANGED <<k, alive, value>>

\* mutation: the value is increased as well when a waiter is resumed
rt_sem_release_twice(c, o) ==
  /\ At(c, "run")
  /\ o \in alive
  /\ value' = [value EXCEPT ![o] = (@ + 1) % ValueMod]
  /\ IF Waiters(o) = <<>>
     THEN UNCHANGED <<k, op>>
     ELSE k' = IpcListResume(k, o) /\ Call(c, "sched", o)
  /\ UNCHANGED alive

rt_sem_release(c, o) ==
  /\ At(c, "run")
  /\ o \in alive
  /\ IF Waiters(o) = <<>>
     THEN value' = [value EXCEPT ![o] = (@ + 1) % ValueMod] /\ UNCHANGED <<k, op>>
     ELSE k' = IpcListResume(k, o) /\ Call(c, "sched", o) /\ UNCHANGED value
  /\ UNCHANGED alive

\* rt_sem_release called by an interrupt handler
IsrRelease(o) ==
  /\ ~k.isr
  /\ o \in alive
  /\ IF Waiters(o) = <<>>
     THEN value' = [value EXCEPT ![o] = (@ + 1) % ValueMod] /\ UNCHANGED k
     ELSE k' = Schedule(IpcListResume(k, o)) /\ UNCHANGED value
  /\ UNCHANGED <<op, alive>>

\* mutation: the new value is set and the waiters are left waiting
rt_sem_control_keep(c, o, v) ==
  /\ At(c, "run")
  /\ o \in alive
  /\ value' = [value EXCEPT ![o] = v]
  /\ Call(c, "sched", o)
  /\ UNCHANGED <<k, alive>>

\* rt_sem_control, RT_IPC_CMD_RESET
rt_sem_control(c, o, v) ==
  /\ At(c, "run")
  /\ o \in alive
  /\ k' = ResumeAll(k, o)
  /\ value' = [value EXCEPT ![o] = v]
  /\ Call(c, "sched", o)
  /\ UNCHANGED alive

rt_sem_init(c, o, v) ==
  /\ ObjInit(c, o)
  /\ value' = [value EXCEPT ![o] = v]

rt_sem_detach(c, o) == ObjDetach(c, o) /\ UNCHANGED value
-----------------------------------------------------------------------------
Init == IpcInit /\ value \in [Obj -> InitValue]

Next ==
  \/ \E c \in User : \E o \in Obj :
       \/ rt_sem_take(c, o)
       \/ \E d \in Time : TakeWait(c, o, d)
       \/ rt_sem_release(c, o)
       \/ \E v \in InitValue : rt_sem_control(c, o, v) \/ rt_sem_init(c, o, v)
       \/ rt_sem_detach(c, o)
  \/ \E c \in User : TakeReturn(c)
  \/ \E o \in Obj : IsrRelease(o)
  \/ IpcNext /\ UNCHANGED value

Spec == Init /\ [][Next]_vars

\* rt_sem_detach and rt_sem_delete called on any semaphore whatever
NextAny ==
  \/ Next
  \/ \E c \in User : \E o \in Obj : ObjDetachAny(c, o) /\ UNCHANGED value
SpecAny == Init /\ [][NextAny]_vars
-----------------------------------------------------------------------------
(* Properties *)

TypeOK == IpcTypeOK /\ value \in [Obj -> 0 .. ValueMod - 1]

\* The kernel structures are sound throughout: every list node is in one list,
\* the lists agree with stat and priority, and the bitmap with the queues.
KernelSound == TypeOK /\ KInv(k) /\ StaleBits(k) = {}

\* No waiter is left behind: when a token is available nobody waits for it.
NoTokenStranded == \A o \in Obj : value[o] > 0 => Waiters(o) = <<>>

\* What each thread has been told, for the abstract semaphore.
Told(c) ==
  IF ~Blocked(c) THEN <<"out">>
  ELSE IF Linked(k, c, Wait(op[c].on)) THEN <<"waiting", op[c].on>>
  ELSE IF k.err[c] = "EOK" THEN <<"granted">> ELSE <<"refused">>

Abstract == INSTANCE Semaphore WITH avail <- value, call <- [c \in Thread |-> Told(c)]

\* rt_sem_take and rt_sem_release implement a counting semaphore: a token is
\* never lost between a release and a timeout that race for the same waiter,
\* none is made up, and a caller that was granted one is told so.
CountingSemaphore == Abstract!Spec
=============================================================================
