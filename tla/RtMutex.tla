------------------------------ MODULE RtMutex ------------------------------
(***************************************************************************)
(* The mutexes of ipc.c under the scheduler, with priority inheritance.    *)
(* Obj is the set of mutexes.                                              *)
(*                                                                         *)
(* held is not a variable of the code: held[c][o] counts the calls of      *)
(* rt_mutex_take on o that returned RT_EOK to c and that c has not undone  *)
(* by rt_mutex_release.  It is what c believes.                            *)
(***************************************************************************)
EXTENDS RtIpc

CONSTANT HoldMax   \* bound on the nesting of takes, below the 2^8 of mutex->hold

NoThread == "RT_NULL"
NoPrio   == 255        \* 0xFF

ASSUME MutexAssumption ==
  /\ HoldMax \in 1 .. 255
  /\ "mb" \notin Obj      \* the name that After keeps for the mailbox
  /\ NoThread \notin Thread
  /\ PrioMax <= NoPrio    \* RT_THREAD_PRIORITY_MAX is 32 in rtconfig.h

VARIABLES
  m,      \* the mutex control blocks
  held

vars == <<k, op, alive, m, held>>

Mutex ==
  [ value : {0, 1},                     \* mutex->value
    owner : Thread \cup {NoThread},     \* mutex->owner
    hold  : 0 .. HoldMax,               \* mutex->hold
    orig  : Prio \cup {NoPrio} ]        \* mutex->original_priority

Free == [value |-> 1, owner |-> NoThread, hold |-> 0, orig |-> NoPrio]

Own(c, p) == [value |-> 0, owner |-> c, hold |-> 1, orig |-> p]

Hold(c, o, n) == held' = [held EXCEPT ![c][o] = @ + n]
-----------------------------------------------------------------------------
(* rt_mutex_take *)

TakeNested(c, o) ==
  /\ At(c, "run")
  /\ o \in alive
  /\ m[o].owner = c
  /\ m[o].hold < HoldMax
  /\ m' = [m EXCEPT ![o].hold = @ + 1]
  /\ k' = [k EXCEPT !.err[c] = "EOK"]
  /\ Hold(c, o, 1)
  /\ UNCHANGED <<op, alive>>

TakeFree(c, o) ==
  /\ At(c, "run")
  /\ o \in alive
  /\ m[o].value > 0
  /\ m' = [m EXCEPT ![o] = Own(c, k.prio[c])]
  /\ k' = [k EXCEPT !.err[c] = "EOK"]
  /\ Hold(c, o, 1)
  /\ UNCHANGED <<op, alive>>

\* time = 0
TakeNoWait(c, o) ==
  /\ At(c, "run")
  /\ o \in alive
  /\ m[o].owner # c /\ m[o].value = 0
  /\ k' = [k EXCEPT !.err[c] = "ETIMEOUT"]
  /\ UNCHANGED <<op, alive, m, held>>

\* mutation: the owner does not inherit the priority
RaiseNot(s, c, o) == s

\* the owner of o inherits the priority of c
Raise(s, c, o) ==
  LET w == m[o].owner
  IN  IF s.prio[c] < s.prio[w] THEN ChangePriority(s, w, s.prio[c]) ELSE s

TakeWait(c, o, d) ==
  /\ At(c, "run")
  /\ o \in alive
  /\ m[o].owner # c /\ m[o].value = 0
  /\ k' = Block(Raise(k, c, o), o, c, d)
  /\ Call(c, "wait_sched", o)
  /\ UNCHANGED <<alive, m, held>>

\* the call returns thread->error
TakeReturn(c) ==
  /\ At(c, "wait_return")
  /\ k.err[c] # "EINTR"
  /\ IF k.err[c] = "EOK" THEN Hold(c, op[c].on, 1) ELSE UNCHANGED held
  /\ Return(c)
  /\ UNCHANGED <<k, alive, m>>
-----------------------------------------------------------------------------
(* rt_mutex_release *)

ReleaseNotOwner(c, o) ==
  /\ At(c, "run")
  /\ o \in alive
  /\ m[o].owner # c
  /\ k' = [k EXCEPT !.err[c] = "ERROR"]
  /\ UNCHANGED <<op, alive, m, held>>

ReleaseNested(c, o) ==
  /\ At(c, "run")
  /\ o \in alive
  /\ m[o].owner = c /\ m[o].hold > 1
  /\ m' = [m EXCEPT ![o].hold = @ - 1]
  /\ Hold(c, o, -1)
  /\ UNCHANGED <<k, op, alive>>

\* mutation: the priority is left as it is
RestoreNot(s, c, o) == s

\* the owner gets back the priority it had when it took o
Restore(s, c, o) ==
  IF m[o].orig # s.prio[c] THEN ChangePriority(s, c, m[o].orig) ELSE s

\* mutation: the mutex is made free although its waiter is resumed
ReleaseLastFree(c, o) ==
  LET s == Restore(k, c, o)
  IN  /\ At(c, "run")
      /\ o \in alive
      /\ m[o].owner = c /\ m[o].hold = 1
      /\ m' = [m EXCEPT ![o] = Free]
      /\ IF Waiters(o) = <<>>
         THEN k' = s /\ UNCHANGED op
         ELSE k' = IpcListResume(s, o) /\ Call(c, "sched", o)
      /\ Hold(c, o, -1)
      /\ UNCHANGED alive

\* the last release: the first waiter becomes the owner
ReleaseLast(c, o) ==
  LET s == Restore(k, c, o)
      w == Head(Waiters(o))
  IN  /\ At(c, "run")
      /\ o \in alive
      /\ m[o].owner = c /\ m[o].hold = 1
      /\ IF Waiters(o) = <<>>
         THEN m' = [m EXCEPT ![o] = Free] /\ k' = s /\ UNCHANGED op
         ELSE /\ m' = [m EXCEPT ![o] = Own(w, s.prio[w])]
              /\ k' = IpcListResume(s, o)
              /\ Call(c, "sched", o)
      /\ Hold(c, o, -1)
      /\ UNCHANGED alive
-----------------------------------------------------------------------------
rt_mutex_init(c, o) ==
  /\ ObjInit(c, o)
  /\ m' = [m EXCEPT ![o] = Free]
  /\ UNCHANGED held

\* called on a mutex that nobody owns
rt_mutex_detach(c, o) ==
  /\ m[o].owner = NoThread
  /\ ObjDetach(c, o)
  /\ UNCHANGED <<m, held>>

\* What the callers respect: a thread holds one mutex at a time.
OneMutex(c, o) == \A x \in Obj \ {o} : held[c][x] = 0

Take(c, o) ==
  \/ TakeNested(c, o)
  \/ TakeFree(c, o)
  \/ TakeNoWait(c, o)
  \/ \E d \in Time : TakeWait(c, o, d)

Release(c, o) ==
  \/ ReleaseNotOwner(c, o)
  \/ ReleaseNested(c, o)
  \/ ReleaseLast(c, o)

Init ==
  /\ IpcInit
  /\ m = [o \in Obj |-> Free]
  /\ held = [c \in Thread |-> [o \in Obj |-> 0]]

Next ==
  \/ \E c \in User : \E o \in Obj :
       \/ OneMutex(c, o) /\ Take(c, o)
       \/ Release(c, o)
       \/ rt_mutex_init(c, o)
       \/ rt_mutex_detach(c, o)
  \/ \E c \in User : TakeReturn(c) \/ (Sleep(c) /\ UNCHANGED <<m, held>>)
  \/ IpcNext /\ UNCHANGED <<m, held>>

Spec == Init /\ [][Next]_vars

\* a thread may hold several mutexes
NextNested == Next \/ \E c \in User : \E o \in Obj : Take(c, o)
SpecNested == Init /\ [][NextNested]_vars
-----------------------------------------------------------------------------
(* Properties *)

\* ownership was handed to c, whose call has not returned yet
HandedOver(c, o) == Blocked(c) /\ op[c].on = o /\ ~Linked(k, c, Wait(o)) /\ k.err[c] = "EOK"

\* The types, the soundness of the kernel structures, and the agreement of the
\* fields of a mutex: it is free, held by nobody and waited for by nobody, or
\* it has an owner.
MutexSound ==
  /\ IpcTypeOK
  /\ m \in [Obj -> Mutex]
  /\ held \in [Thread -> [Obj -> 0 .. HoldMax]]
  /\ KInv(k) /\ StaleBits(k) = {}
  /\ \A o \in Obj :
       \/ m[o] = Free /\ Waiters(o) = <<>>
       \/ m[o].value = 0 /\ m[o].owner # NoThread /\ m[o].hold > 0 /\ m[o].orig # NoPrio

\* A thread that was told it has the mutex is its owner, with the same count:
\* two threads never both hold a mutex, whatever timeout and release race.
HolderIsOwner ==
  \A c \in Thread : \A o \in Obj :
    held[c][o] > 0 => m[o].owner = c /\ m[o].hold = held[c][o]

\* An owner knows that it is: the mutex is not handed to a thread whose call
\* then reports a timeout.
OwnerIsHolder ==
  \A c \in Thread : \A o \in Obj :
    m[o].owner = c => held[c][o] = m[o].hold \/ HandedOver(c, o)

\* Priority inheritance: the owner of a RT_IPC_FLAG_PRIO mutex runs at the
\* priority of its most urgent waiter at least.
NoInversion ==
  \A o \in alive : Flag[o] = "PRIO" /\ m[o].owner # NoThread =>
    \A t \in Range(Waiters(o)) : k.prio[m[o].owner] <= k.prio[t]

\* The loan is paid back: a thread that owns no mutex has its own priority.
PriorityRestored ==
  \A c \in Thread : (\A o \in Obj : m[o].owner # c) => k.prio[c] = InitPrio[c]
=============================================================================
