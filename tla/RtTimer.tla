------------------------------ MODULE RtTimer ------------------------------
(***************************************************************************)
(* The timers of timer.c: hard timers, which fire in the tick interrupt,   *)
(* and soft timers (RT_USING_TIMER_SOFT), which fire in the timer thread.  *)
(* A user thread operates timers, and so do the callbacks of hard timers.  *)
(*                                                                         *)
(* What runs with interrupts disabled is one step; between two steps of a  *)
(* thread the tick interrupt may come.  What the callers respect: a timer  *)
(* is operated by one owner, which is not its own callback; soft timers    *)
(* are operated by the user thread, whose priority is below the one of the *)
(* timer thread; a periodic timer has a period; and the flags of a timer   *)
(* are changed while it is stopped.                                        *)
(***************************************************************************)
EXTENDS Integers, FiniteSets, SequencesExt

CONSTANTS
  Timer,     \* the timers of the program
  Soft,      \* the ones with RT_TIMER_FLAG_SOFT_TIMER
  Owner,     \* who operates each of them: User, or a timer whose callback does
  User,
  Delay,     \* the thread_timer of the timer thread
  Kinds,     \* the init_tick and RT_TIMER_FLAG_PERIODIC each of them is given
  TickMod,   \* RT_TICK_MAX + 1
  Slack,     \* the ticks that may pass during one step of a thread
  MaxLate,   \* the ticks by which rt_timer_start may be late with a timer
  MaxHeld    \* the ticks by which a soft timer may be overdue while the timer
             \* thread is suspended

TickMax == TickMod - 1
Half    == TickMax \div 2
Tick    == 0 .. TickMax

End == "end"        \* the head of the list, where an iteration stops

ASSUME TimerAssumption ==
  /\ TickMod \in Nat
  /\ Delay \notin Timer /\ User \notin Timer
  /\ End \notin Timer \cup {Delay}
  /\ Soft \subseteq Timer
  /\ Owner \in [Timer -> {User} \cup (Timer \ Soft)]
  /\ \A t \in Timer : Owner[t] # t /\ (t \in Soft => Owner[t] = User)
  /\ Kinds \in [Timer -> (SUBSET ((1 .. Half - 1) \X BOOLEAN)) \ {{}}]     \* RT_ASSERT of rt_timer_start
  /\ Slack \in Nat \ {0}
  /\ MaxLate \in Nat /\ MaxLate + 1 < Half /\ MaxHeld \in Nat
  /\ \A t \in Timer : \A kind \in Kinds[t] : kind[1] + MaxLate < Half

VARIABLES
  w,       \* the state of timer.c
  isr,     \* inside rt_timer_check
  user,    \* the call of the user thread
  thread,  \* the timer thread
  late     \* the ticks since a thread ran

vars == <<w, isr, user, thread, late>>

TimerType ==
  [ act  : BOOLEAN,     \* RT_TIMER_FLAG_ACTIVATED
    per  : BOOLEAN,     \* RT_TIMER_FLAG_PERIODIC
    init : Tick,        \* init_tick
    at   : Tick ]       \* timeout_tick

WType ==
  [ tick  : Tick,
    hard  : Seq(Timer \cup {Delay}),            \* rt_timer_list
    soft  : Seq(Timer),                         \* rt_soft_timer_list
    tm    : [Timer \cup {Delay} -> TimerType],
    awake : BOOLEAN ]                           \* stat of timer_thread is READY

Stopped(kind) == [act |-> FALSE, per |-> kind[2], init |-> kind[1], at |-> 0]

Since(a, b)   == (a - b) % TickMod
Expired(a, t) == Since(a, w.tm[t].at) < Half
InList(s, t)  == t \in Range(IF t \in Soft THEN s.soft ELSE s.hard)
-----------------------------------------------------------------------------
(* The parts of rt_timer_start and rt_timer_stop, each an interrupt lock *)

\* timeout_tick is read only while the timer is in a list
Unlist(s, t) ==
  [s EXCEPT !.hard = RemoveFirst(@, t), !.soft = RemoveFirst(@, t), !.tm[t].at = 0]

SetActive(s, t, b) == [s EXCEPT !.tm[t].act = b]

StartOff(s, t) == SetActive(Unlist(s, t), t, FALSE)

TimeIn(s, t, d) == [s EXCEPT !.tm[t].at = (s.tick + d) % TickMod]
StartTime(s, t) == TimeIn(s, t, s.tm[t].init)

\* mutation: timeout ticks are compared without regard to the wrap
PlacedNaive(s, l, t) ==
  LET later == {i \in DOMAIN l : s.tm[l[i]].at > s.tm[t].at}
      pos   == CHOOSE i \in later \cup {Len(l) + 1} : \A j \in later : i <= j
  IN  InsertAt(l, pos, t)

\* behind the timers that are due no later.  The rows of the skip list agree:
\* they are subsequences of the last one.
Placed(s, l, t) ==
  LET later == {i \in DOMAIN l : Since(s.tm[l[i]].at, s.tm[t].at) \in 1 .. Half - 1}
      pos   == CHOOSE i \in later \cup {Len(l) + 1} : \A j \in later : i <= j
  IN  InsertAt(l, pos, t)

StartOn(s, t) ==
  SetActive(IF t \in Soft THEN [s EXCEPT !.soft = Placed(s, @, t)]
            ELSE [s EXCEPT !.hard = Placed(s, @, t)],
            t, TRUE)

\* with interrupts disabled by the caller
Start(s, t) == StartOn(StartTime(StartOff(s, t), t), t)
Stop(s, t)  == IF s.tm[t].act THEN SetActive(Unlist(s, t), t, FALSE) ELSE s

\* mutation: the timer thread is left where it is
WakeNot(s) == s

\* rt_thread_resume of the timer thread, unless it is ready
Wake(s) == IF s.awake THEN s ELSE [Stop(s, Delay) EXCEPT !.awake = TRUE]
-----------------------------------------------------------------------------
(* The tick interrupt *)

Busy == w.awake \/ user.pc # "run"

\* What the environment respects: a thread gets on with its work; it gets from
\* reading the tick to inserting the timer before half the range of rt_tick_t has
\* passed; and when rt_thread_timer_entry has suspended itself in front of soft
\* timers (SuspendsWithoutTimers), somebody starts one before the ones that wait
\* are overdue by half the range.  With MaxHeld > Half nobody needs to.
Punctual ==
  /\ Busy => late < Slack
  /\ user.pc = "start_on" => Since(w.tick, w.tm[user.t].at) # MaxLate
  /\ ~w.awake /\ ~w.tm[Delay].act =>
       \A t \in Range(w.soft) : Since(w.tick, w.tm[t].at) \notin MaxHeld .. Half

rt_tick_increase ==
  /\ ~isr
  /\ Punctual
  /\ w' = [w EXCEPT !.tick = (@ + 1) % TickMod]
  /\ isr' = TRUE
  /\ late' = IF Busy THEN late + 1 ELSE 0
  /\ UNCHANGED <<user, thread>>

HardDue == w.hard # <<>> /\ Expired(w.tick, Head(w.hard))

\* what a callback may leave behind
Callback(s, t) ==
  LET mine == {x \in Timer : Owner[x] = t}
  IN  {s} \cup {Start(s, x) : x \in mine} \cup {Stop(s, x) : x \in mine}

\* mutation: a one-shot timer stays active
AgainActive(s, t) == IF s.tm[t].per /\ s.tm[t].act THEN Start(s, t) ELSE s

\* behind the callback
Again(s, t) ==
  IF s.tm[t].per /\ s.tm[t].act THEN Start(s, t) ELSE SetActive(s, t, FALSE)

\* one round of the loop of rt_timer_check.  The callback of Delay is
\* rt_thread_timeout.
HardTimeout ==
  LET t == Head(w.hard)
  IN  /\ isr
      /\ HardDue
      /\ IF t = Delay
         THEN w' = SetActive([Unlist(w, t) EXCEPT !.awake = TRUE], t, FALSE)
         ELSE \E s \in Callback(Unlist(w, t), t) : w' = Again(s, t)
      /\ UNCHANGED <<isr, user, thread, late>>

CheckLeave ==
  /\ isr
  /\ ~HardDue
  /\ isr' = FALSE
  /\ UNCHANGED <<w, user, thread, late>>
-----------------------------------------------------------------------------
(* The user thread, when the timer thread does not run *)

UserAt(pc)       == ~isr /\ ~w.awake /\ user.pc = pc
UserGoto(pc, t)  == user' = [pc |-> pc, t |-> t] /\ late' = 0 /\ UNCHANGED <<isr, thread>>

rt_timer_start(t) ==
  /\ UserAt("run")
  /\ w' = StartOff(w, t)
  /\ UserGoto("start_time", t)

UserStartTime ==
  /\ UserAt("start_time")
  /\ w' = StartTime(w, user.t)
  /\ UserGoto("start_on", user.t)

UserStartOn ==
  /\ UserAt("start_on")
  /\ w' = StartOn(w, user.t)
  /\ IF user.t \in Soft THEN UserGoto("start_wake", user.t) ELSE UserGoto("run", End)

\* the state of the timer thread is tested with interrupts enabled
UserStartWake ==
  /\ UserAt("start_wake")
  /\ w' = Wake(w)
  /\ UserGoto("run", End)

\* a timer that is not active is left alone
rt_timer_stop(t) ==
  /\ UserAt("run")
  /\ w.tm[t].act
  /\ UserGoto("stop_off", t)
  /\ UNCHANGED w

UserStopOff ==
  /\ UserAt("stop_off")
  /\ w' = Unlist(w, user.t)
  /\ UserGoto("stop_flag", user.t)

\* the flag is cleared with interrupts enabled
UserStopFlag ==
  /\ UserAt("stop_flag")
  /\ w' = SetActive(w, user.t, FALSE)
  /\ UserGoto("run", End)

\* rt_timer_control: RT_TIMER_CTRL_SET_TIME, SET_ONESHOT, SET_PERIODIC
rt_timer_control(t, kind) ==
  /\ UserAt("run")
  /\ kind[2] # w.tm[t].per => ~w.tm[t].act
  /\ w' = [w EXCEPT !.tm[t].init = kind[1], !.tm[t].per = kind[2]]
  /\ UserGoto("run", End)

\* rt_timer_detach, rt_timer_delete leave the flag as it is
rt_timer_detach(t) ==
  /\ UserAt("run")
  /\ w' = Unlist(w, t)
  /\ UserGoto("init", t)

\* rt_timer_init, rt_timer_create
rt_timer_init(kind) ==
  /\ UserAt("init")
  /\ w' = [w EXCEPT !.tm[user.t] = Stopped(kind)]
  /\ UserGoto("run", End)

\* what the thread has begun it goes on with
UserRest ==
  \/ UserStartTime \/ UserStartOn \/ UserStartWake \/ UserStopOff \/ UserStopFlag
  \/ \E t \in Timer \cap {user.t} : \E kind \in Kinds[t] : rt_timer_init(kind)

UserNext ==
  \/ \E t \in Timer : /\ Owner[t] = User
                      /\ \/ rt_timer_start(t) \/ rt_timer_stop(t) \/ rt_timer_detach(t)
                         \/ \E kind \in Kinds[t] : rt_timer_control(t, kind)
  \/ UserRest
-----------------------------------------------------------------------------
(* The timer thread: rt_thread_timer_entry and rt_soft_timer_check *)

ThreadAt(pc)  == ~isr /\ w.awake /\ thread.pc = pc
ThreadIs(x)   == thread' = x /\ late' = 0 /\ UNCHANGED <<isr, user>>
ThreadGoto(pc) == ThreadIs([thread EXCEPT !.pc = pc])

First(l)    == IF l = <<>> THEN End ELSE Head(l)
Next1(l, t) == LET i == CHOOSE i \in DOMAIN l : l[i] = t IN First(SubSeq(l, i + 1, Len(l)))

\* rt_timer_list_next_timeout; RT_TICK_MAX stands for an empty list
NextTimeout == IF w.soft = <<>> THEN TickMax ELSE w.tm[Head(w.soft)].at

ThreadLoop ==
  LET left == Since(NextTimeout, w.tick)
  IN  /\ ThreadAt("loop")
      /\ IF NextTimeout = TickMax THEN ThreadGoto("suspend")
         ELSE IF left < Half THEN ThreadIs([thread EXCEPT !.pc = "delay", !.left = left])
         ELSE ThreadGoto("check")
      /\ UNCHANGED w

\* the thread goes on with rt_soft_timer_check when it runs again
ThreadSuspend ==
  /\ ThreadAt("suspend")
  /\ w' = [w EXCEPT !.awake = FALSE]
  /\ ThreadGoto("check")

\* rt_thread_delay disables interrupts
ThreadDelay ==
  /\ ThreadAt("delay")
  /\ w' = [StartOn(TimeIn(StartOff(w, Delay), Delay, thread.left), Delay) EXCEPT !.awake = FALSE]
  /\ ThreadIs([thread EXCEPT !.pc = "check", !.left = 0])

SoftCheck ==
  /\ ThreadAt("check")
  /\ ThreadIs([thread EXCEPT !.pc = "next", !.cur = w.tick, !.n = First(w.soft)])
  /\ UNCHANGED w

SoftNext ==
  LET t == thread.n
  IN  /\ ThreadAt("next")
      /\ IF t # End /\ Expired(thread.cur, t)
         THEN /\ w' = Unlist(w, t)
              /\ ThreadIs([thread EXCEPT !.pc = "callback", !.n = Next1(w.soft, t), !.t = t])
         ELSE /\ ThreadIs([thread EXCEPT !.pc = "loop", !.n = End, !.cur = 0])
              /\ UNCHANGED w

\* behind the callback, which operates no timer
SoftCallback ==
  LET t == w.tm[thread.t]
  IN  /\ ThreadAt("callback")
      /\ w' = SetActive(w, thread.t, FALSE)
      /\ IF t.per /\ t.act
         THEN ThreadIs([thread EXCEPT !.cur = w.tick, !.pc = "start_time"])
         ELSE ThreadIs([thread EXCEPT !.cur = w.tick, !.pc = "next", !.t = End])

SoftStartTime ==
  /\ ThreadAt("start_time")
  /\ w' = StartTime(StartOff(w, thread.t), thread.t)
  /\ ThreadGoto("start_on")

\* the timer thread itself is ready
SoftStartOn ==
  /\ ThreadAt("start_on")
  /\ w' = StartOn(w, thread.t)
  /\ ThreadIs([thread EXCEPT !.pc = "next", !.t = End])

ThreadNext ==
  \/ ThreadLoop \/ ThreadSuspend \/ ThreadDelay
  \/ SoftCheck \/ SoftNext \/ SoftCallback \/ SoftStartTime \/ SoftStartOn
-----------------------------------------------------------------------------
Init ==
  /\ w = [ tick |-> 0, hard |-> <<>>, soft |-> <<>>, awake |-> TRUE,
           tm |-> [t \in Timer \cup {Delay} |->
                     Stopped(IF t = Delay THEN <<0, FALSE>> ELSE CHOOSE kind \in Kinds[t] : TRUE)] ]
  /\ isr = FALSE
  /\ user = [pc |-> "run", t |-> End]
  /\ thread = [pc |-> "loop", left |-> 0, cur |-> 0, n |-> End, t |-> End]
  /\ late = 0

IsrNext == HardTimeout \/ CheckLeave

Next == rt_tick_increase \/ HardTimeout \/ CheckLeave \/ UserNext \/ ThreadNext

\* The clock ticks, the interrupt handler returns, and a ready thread runs: the
\* timer thread before all others, the user thread when that one sleeps.
Fairness ==
  /\ WF_vars(rt_tick_increase)
  /\ WF_vars(IsrNext)
  /\ WF_vars(ThreadNext)
  /\ WF_vars(UserRest)

Spec == Init /\ [][Next]_vars /\ Fairness
-----------------------------------------------------------------------------
\* the timer that somebody is about to start, stop or fire
InHand == {user.t, thread.t}

\* The types; each timer is at most once in its list; and the flag that
\* rt_timer_stop trusts is true of exactly the timers in a list, although
\* rt_timer_stop and rt_soft_timer_check change it outside the lock in which
\* they change the list.
FlagTellsList ==
  /\ w.tick \in Tick /\ w.tm \in [Timer \cup {Delay} -> TimerType]
  /\ Range(w.soft) \subseteq Soft
  /\ Range(w.hard) \subseteq (Timer \ Soft) \cup {Delay}
  /\ IsInjective(w.hard) /\ IsInjective(w.soft)
  /\ \A t \in Timer \cup {Delay} : t \notin InHand => (w.tm[t].act <=> InList(w, t))

\* No hard timer is overdue when rt_timer_check returns, although it looks at
\* the head of the list only and ticks wrap, whatever callbacks start and stop
\* in between and however late rt_timer_start goes on after it has read the tick.
HardPunctual ==
  [][ isr /\ ~isr' => \A t \in Range(w'.hard) :
                        Since(w'.tm[t].at, w'.tick) \in 1 .. Half - 1 ]_vars

\* rt_thread_timer_entry suspends itself when "no software timer exist".
SuspendsWithoutTimers == thread.pc = "suspend" => w.soft = <<>>

\* A soft timer that is in the list fires, or is stopped or started again, unless
\* the timer thread takes the timeout_tick RT_TICK_MAX of the head of the list for
\* the mark of an empty one: then this timer, which may be any behind the head,
\* waits until somebody starts a soft timer.  So the timer thread sleeps past no
\* timer for another reason, whatever is started while it is about to sleep, and
\* whoever starts one sets all that wait going again.
SoftFires ==
  \A t \in Soft : InList(w, t) /\ (w.awake \/ user.pc = "start_wake")
                    ~> ~InList(w, t) \/ ~SuspendsWithoutTimers
=============================================================================
