------------------------------ MODULE RtRetry ------------------------------
(***************************************************************************)
(* The blocking loop that rt_mb_send_wait, rt_mb_recv, rt_mq_recv and      *)
(* rt_mp_alloc share: a caller that is woken tests the object again, and   *)
(* blocks again for what is left of its waiting time.  A wake-up promises  *)
(* nothing: another thread may have been faster.                           *)
(***************************************************************************)
EXTENDS RtIpc

CONSTANTS
  Msg,      \* what is sent,
  MsgOf,    \* by each thread, and by interrupt handlers (under the name of idle)
  TimeOf    \* the waiting times of each thread

ASSUME RetryAssumption ==
  /\ MsgOf \in [Thread -> Msg]
  /\ TimeOf \in [User -> SUBSET Time]

Nil  == "nil"
Null == 0

VARIABLE
  loc       \* the local variables of the calls

\* left is timeout, from is tick_delta, msg and node are what the caller has
\* in hand.  due is no variable of the code: the tick at which the waiting
\* time that the caller asked for ends.
Idle == [left |-> 0, from |-> 0, due |-> 0, msg |-> Nil, node |-> Null]

\* c is on its way to what it was woken for
Woken(c) ==
  /\ Blocked(c) \/ op[c].pc = "mp_time"
  /\ op[c].on # NoObj
  /\ ~Linked(k, c, Wait(op[c].on))
  /\ k.err[c] = "EOK"

\* rt_tick_get in a call that has a waiting time
StartTick(d) == IF d > 0 THEN k.tick ELSE 0

\* the first round of the loop
Begin(c, o, d, m) ==
  /\ k' = Block(k, o, c, d)
  /\ Call(c, "wait_sched", o)
  /\ loc' = [loc EXCEPT ![c] = [ left |-> d,
                                 from |-> StartTick(d),
                                 due  |-> IF d > 0 THEN (k.tick + d) % TickMod ELSE 0,
                                 msg  |-> m,
                                 node |-> Null ]]

\* mutation: the waiting time starts again with every wake-up
RemainingAll(c) == loc[c].left

\* timeout -= rt_tick_get() - tick_delta
Remaining(c) ==
  LET gone == Since(k.tick, loc[c].from)
  IN  IF loc[c].left = -1 THEN -1
      ELSE IF loc[c].left > gone THEN loc[c].left - gone ELSE 0

\* another round
Again(c) ==
  /\ k' = Block(k, op[c].on, c, Remaining(c))
  /\ Goto(c, "wait_sched")
  /\ loc' = [loc EXCEPT ![c].left = Remaining(c), ![c].from = StartTick(Remaining(c))]

Leave(c) == Return(c) /\ loc' = [loc EXCEPT ![c] = Idle]

\* the caller was woken and thread->error is RT_EOK
Retry(c, o) == At(c, "wait_return") /\ op[c].on = o /\ k.err[c] = "EOK"

\* thread->error is returned.  It is written again before it is read again: the
\* model forgets it (RT_EOK) when the call returns.
WaitError(c) ==
  /\ At(c, "wait_return")
  /\ k.err[c] # "EOK"
  /\ k' = [k EXCEPT !.err[c] = "EOK"]
  /\ Leave(c)
  /\ UNCHANGED alive

CallReturn(c) ==
  /\ At(c, "return")
  /\ Leave(c)
  /\ UNCHANGED <<k, alive>>
-----------------------------------------------------------------------------
\* What the callers respect when they remove an object: whoever is inside a
\* call on it is in its suspend list, and waits for ever.
Quiet(o) == \A c \in Thread : op[c].on = o => Linked(k, c, Wait(o)) /\ ~Timed(k, c)

\* Bound: one object exists at a time.
Fresh == alive = {} /\ \A c \in Thread : op[c].on = NoObj

\* rt_xxx_init and rt_xxx_create, rt_xxx_detach and rt_xxx_delete of the object
\* whose suspend lists are in O and whose first one is o
Create(c, O) ==
  /\ At(c, "run")
  /\ Fresh
  /\ alive' = O
  /\ UNCHANGED <<k, op, loc>>

Detach(c, O, o) ==
  /\ At(c, "run")
  /\ O \subseteq alive
  /\ \A x \in O : Quiet(x)
  /\ alive' = alive \ O
  /\ Call(c, "resume_test", o)
  /\ UNCHANGED <<k, loc>>

\* What the environment respects: a thread that was woken gets the processor
\* before half the range of rt_tick_t has passed.
Punctual == \A c \in Thread : Woken(c) /\ loc[c].left > 0 => Since(k.tick, loc[c].from) < Half

\* rt_mp_free has failed its RT_ASSERT, with interrupts disabled
Stopped == \E c \in Thread : op[c].pc = "mp_assert"

RetryNext ==
  \/ \E c \in User :
       \/ (WaitSchedule(c) \/ ResumeTest(c) \/ ResumeOne(c)) /\ UNCHANGED loc
       \/ SchedReturn(c) /\ loc' = [loc EXCEPT ![c] = Idle]
       \/ WaitError(c)
       \/ CallReturn(c)
  \/ ~Stopped /\ rt_tick_increase /\ UNCHANGED loc /\ Punctual'
  \/ rt_timer_check /\ UNCHANGED loc
-----------------------------------------------------------------------------
\* A caller that blocks again after a wake-up still gives up at the tick it
\* asked for: however often it was woken in vain, the waiting times of
\* rt_mb_send_wait, rt_mb_recv and rt_mq_recv add up to the one of the call.
DeadlineKept ==
  \A c \in Thread :
    Timed(k, c) /\ op[c].on \in {"mb", "mb_sender", "mq"} => k.tmo[c] = loc[c].due
=============================================================================
