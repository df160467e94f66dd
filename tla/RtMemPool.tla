----------------------------- MODULE RtMemPool -----------------------------
(***************************************************************************)
(* The memory pool of mempool.c: blocks of one size, and threads that wait *)
(* for one.  Obj has its suspend list as "mp".  The chain of free blocks   *)
(* through their headers is kept as a sequence; the header of a block that *)
(* is handed out points to the pool instead.                               *)
(***************************************************************************)
EXTENDS RtRetry

CONSTANTS
  MpBlock,     \* the blocks
  PoolTime     \* the waiting times of rt_mp_alloc

ASSUME MpAssumption ==
  /\ "mp" \in Obj
  /\ IsFiniteSet(MpBlock)
  /\ PoolTime \subseteq Time

VARIABLE mp

MpType ==
  [ list : Seq(MpBlock),                       \* mp->block_list
    free : 0 .. Cardinality(MpBlock),          \* mp->block_free_count
    susp : Nat ]                              \* mp->suspend_thread_count

MpFull == [list |-> SetToSeq(MpBlock), free |-> Cardinality(MpBlock), susp |-> 0]

HandedOut == MpBlock \ Range(mp.list)
-----------------------------------------------------------------------------
(* rt_mp_alloc *)

MpTakeBlock == mp' = [mp EXCEPT !.free = @ - 1, !.list = Tail(@)]

\* mutation: the caller is not suspended
MpSuspendReady(c, d) ==
  /\ k' = [k EXCEPT !.list[Wait("mp")] = <<c>> \o @]
  /\ mp' = [mp EXCEPT !.susp = @ + 1]
  /\ Call(c, "wait_sched", "mp")
  /\ loc' = [loc EXCEPT ![c] = [Idle EXCEPT !.left = d, !.from = StartTick(d)]]

\* the caller is put at the front of the list, for d ticks or for ever
MpSuspend(c, d) ==
  LET s == Suspend([k EXCEPT !.err[c] = "EOK"], c)
      u == [s EXCEPT !.list[Wait("mp")] = <<c>> \o @]
  IN  /\ k' = IF d > 0 THEN TimerStart(u, c, d) ELSE u
      /\ mp' = [mp EXCEPT !.susp = @ + 1]
      /\ Call(c, "wait_sched", "mp")
      /\ loc' = [loc EXCEPT ![c] = [Idle EXCEPT !.left = d, !.from = StartTick(d)]]

\* with time 0 the call does nothing when there is no block
rt_mp_alloc(c, d) ==
  /\ At(c, "run")
  /\ "mp" \in alive
  /\ IF mp.free = 0 THEN d # 0 /\ MpSuspend(c, d)
     ELSE MpTakeBlock /\ UNCHANGED <<k, op, loc>>
  /\ UNCHANGED alive

\* the time that is left is computed with interrupts enabled
MpTime(c) ==
  /\ Retry(c, "mp")
  /\ loc' = [loc EXCEPT ![c].left = Remaining(c)]
  /\ Goto(c, "mp_time")
  /\ UNCHANGED <<k, alive, mp>>

\* mutation: the block count is not tested again
MpRetryTake(c) ==
  /\ At(c, "mp_time")
  /\ mp' = [mp EXCEPT !.free = @ - 1, !.list = IF @ = <<>> THEN @ ELSE Tail(@)]
  /\ Leave(c)
  /\ UNCHANGED <<k, alive>>

MpRetry(c) ==
  /\ At(c, "mp_time")
  /\ IF mp.free > 0 THEN MpTakeBlock /\ Leave(c) /\ UNCHANGED k
     ELSE IF loc[c].left = 0 THEN Leave(c) /\ UNCHANGED <<k, mp>>
     ELSE MpSuspend(c, loc[c].left)
  /\ UNCHANGED alive
-----------------------------------------------------------------------------
(* rt_mp_free *)

\* mutation: the thread that is woken stays in suspend_thread_count
MpFreedKeep(b) ==
  [ mp |-> [list |-> <<b>> \o mp.list, free |-> mp.free + 1, susp |-> mp.susp],
    wake |-> mp.susp > 0 ]

\* mutation: a thread is woken only when the pool was empty
MpFreedFirst(b) ==
  LET wake == mp.susp > 0 /\ mp.free = 0
  IN  [ mp |-> [list |-> <<b>> \o mp.list, free |-> mp.free + 1,
                susp |-> IF wake THEN mp.susp - 1 ELSE mp.susp],
        wake |-> wake ]

\* the block goes to the front of the chain; a thread is woken when the count
\* says that one waits
MpFreed(b) ==
  LET wake == mp.susp > 0
  IN  [ mp |-> [list |-> <<b>> \o mp.list, free |-> mp.free + 1,
                susp |-> IF wake THEN mp.susp - 1 ELSE mp.susp],
        wake |-> wake ]

\* With the list empty, suspend_thread.next is the list head, which the
\* RT_ASSERT of rt_thread_resume finds not to be a thread: the count stays as it
\* is, and the program stops there, with interrupts disabled.
rt_mp_free(c, b) ==
  /\ At(c, "run")
  /\ "mp" \in alive
  /\ b \in HandedOut
  /\ IF MpFreed(b).wake /\ Waiters("mp") = <<>>
     THEN /\ mp' = [MpFreed(b).mp EXCEPT !.susp = mp.susp]
          /\ Goto(c, "mp_assert")
          /\ UNCHANGED k
     ELSE /\ mp' = MpFreed(b).mp
          /\ IF MpFreed(b).wake
             THEN k' = IpcListResume(k, "mp") /\ Call(c, "sched", NoObj)
             ELSE UNCHANGED <<k, op>>
  /\ UNCHANGED <<alive, loc>>

\* rt_mp_free called by an interrupt handler.  The RT_ASSERT stops a handler for
\* ever as well: the model does not go on from there.
MpIsrFree(b) ==
  /\ ~k.isr /\ ~Stopped
  /\ "mp" \in alive
  /\ b \in HandedOut
  /\ MpFreed(b).wake => Waiters("mp") # <<>>
  /\ mp' = MpFreed(b).mp
  /\ k' = IF MpFreed(b).wake THEN Schedule(IpcListResume(k, "mp")) ELSE k
  /\ UNCHANGED <<op, alive, loc>>
-----------------------------------------------------------------------------
\* rt_mp_init, rt_mp_create
rt_mp_init(c) == Create(c, {"mp"}) /\ UNCHANGED mp

\* rt_mp_detach, rt_mp_delete: nobody uses a block of the pool any more
rt_mp_detach(c) == Detach(c, {"mp"}, "mp") /\ mp' = MpFull

MpInit == mp = MpFull

MpNext ==
  \/ \E c \in User : \E d \in PoolTime \cup {0} : rt_mp_alloc(c, d)
  \/ \E c \in User : \E b \in MpBlock : rt_mp_free(c, b)
  \/ \E c \in User :
       \/ MpTime(c) \/ MpRetry(c)
       \/ rt_mp_init(c) \/ rt_mp_detach(c)
  \/ \E b \in MpBlock : MpIsrFree(b)
-----------------------------------------------------------------------------
\* What suspend_thread_count holds beyond the threads that wait
Surplus == mp.susp - Len(Waiters("mp"))

\* block_free_count is the number of free blocks, none of them twice in the
\* chain, and suspend_thread_count never misses a thread that waits: rt_mp_free
\* wakes one whenever there is one.
PoolCounts ==
  /\ mp.free = Len(mp.list)
  /\ IsInjective(mp.list)
  /\ "mp" \in alive => Surplus >= 0

\* suspend_thread_count starts exact, and what makes it too large is a thread
\* that leaves the list by its timeout, nothing else: rt_mp_alloc returns there
\* (mempool.c:361) without taking itself out of the count, and no call ever
\* corrects it.
TimedOut(t) ==
  /\ Linked(k, t, Wait("mp")) /\ ~Linked(k, t, Wait("mp"))'
  /\ k'.err[t] = "ETIMEOUT"

OnlyTimeoutsLeak ==
  [][ "mp" \in alive' =>
        IF "mp" \in alive
        THEN /\ Surplus' >= Surplus
             /\ Surplus' > Surplus => \E t \in Thread : TimedOut(t)
        ELSE Surplus' = 0 ]_<<k, alive, mp>>

\* No wake-up is lost: while a thread waits for a block, every free one has a
\* thread that was woken for it and has not taken it yet.
NoBlockStranded ==
  "mp" \in alive /\ Waiters("mp") # <<>> =>
    mp.free <= Cardinality({c \in Thread : Woken(c) /\ op[c].on = "mp"})
=============================================================================
