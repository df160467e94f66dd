--------------------------- MODULE RtMutexSignal ---------------------------
(***************************************************************************)
(* Mutexes while threads send each other signals (signal.c).  A signal     *)
(* resumes a thread that is suspended, wherever it waits, and the handler  *)
(* that then runs in the context of the target sets thread->error to       *)
(* -RT_EINTR, on which rt_mutex_take tries again, with interrupts enabled. *)
(*                                                                         *)
(* The handler runs when the target is next switched to: inside the        *)
(* rt_schedule in which it was switched away, or in the stack frame that   *)
(* _signal_deliver builds for a ready thread.  No one else reads           *)
(* thread->error before that, so the model sets it at once.  A target that *)
(* was interrupted after it left its ready queue and before it called      *)
(* rt_schedule has not been switched away by that call yet: sig holds its  *)
(* signal.                                                                 *)
(***************************************************************************)
EXTENDS RtMutex

VARIABLE sig   \* threads with a pending signal that no handler has run for

sigvars == <<vars, sig>>

\* rt_thread_kill of another thread, with the interrupt lock of _signal_deliver
rt_thread_kill(c, t) ==
  LET s == IF k.stat[t] = "SUSPEND" THEN Resume(k, t) ELSE k
      unhandled == k.stat[t] = "SUSPEND" /\ op[t].pc \in {"wait_sched", "sleep_sched"}
  IN  /\ At(c, "run")
      /\ t # c
      /\ t \notin sig
      /\ k' = IF unhandled THEN s ELSE [s EXCEPT !.err[t] = "EINTR"]
      /\ sig' = IF unhandled THEN sig \cup {t} ELSE sig
      /\ Call(c, "sched", NoObj)
      /\ UNCHANGED <<alive, m, held>>

\* rt_schedule with a signal pending: rt_thread_handle_sig is behind the switch
WaitScheduleSignal(c) ==
  LET s == Schedule(k)
  IN  /\ c \in sig
      /\ At(c, "wait_sched") \/ At(c, "sleep_sched")
      /\ IF s.cur = c
         THEN k' = s /\ UNCHANGED sig
         ELSE k' = [s EXCEPT !.err[c] = "EINTR"] /\ sig' = sig \ {c}
      /\ Goto(c, IF op[c].pc = "wait_sched" THEN "wait_return" ELSE "sleep_return")
      /\ UNCHANGED <<alive, m, held>>

\* goto __again.  Interrupts are enabled, so the test of mutex->value and what
\* follows are separate steps.
AgainTest(c) ==
  /\ At(c, "wait_return")
  /\ k.err[c] = "EINTR"
  /\ Goto(c, IF m[op[c].on].value > 0 THEN "again_take" ELSE "again_wait")
  /\ UNCHANGED <<k, alive, m, held, sig>>

AgainTake(c) ==
  LET o == op[c].on
  IN  /\ At(c, "again_take")
      /\ m' = [m EXCEPT ![o] = [ value |-> (@.value - 1) % 65536,
                                 owner |-> c,
                                 hold  |-> (@.hold + 1) % 256,
                                 orig  |-> k.prio[c] ]]
      /\ Hold(c, o, 1)
      /\ Return(c)
      /\ UNCHANGED <<k, alive, sig>>

\* The mutex became free behind the test: the priority of the owner is read
\* through a null pointer and, as what is read there may be, compared with the
\* caller's, the RT_ASSERT of rt_thread_control on a null thread fails.
AgainNull(c) ==
  /\ At(c, "again_wait")
  /\ m[op[c].on].owner = NoThread
  /\ Goto(c, "assert")
  /\ UNCHANGED <<k, alive, m, held, sig>>

AgainWait(c, d) ==
  LET o == op[c].on
      s == IF m[o].owner = NoThread THEN k ELSE Raise(k, c, o)
      u == IpcListSuspend(s, o, Flag[o], c)
  IN  /\ At(c, "again_wait")
      /\ k' = IF d > 0 THEN TimerStart(u, c, d) ELSE u
      /\ Goto(c, "wait_sched")
      /\ UNCHANGED <<alive, m, held, sig>>

SignalNext ==
  \/ \E c, t \in User : rt_thread_kill(c, t)
  \/ \E c \in User : WaitScheduleSignal(c) \/ AgainTest(c) \/ AgainTake(c) \/ AgainNull(c)
  \/ \E c \in User : \E d \in Time : AgainWait(c, d)
  \/ /\ Next
     /\ ~\E c \in sig : WaitSchedule(c) \/ SleepSchedule(c)
     /\ UNCHANGED sig

SignalSpec == Init /\ sig = {} /\ [][SignalNext]_sigvars
=============================================================================
