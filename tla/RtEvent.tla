------------------------------ MODULE RtEvent ------------------------------
(***************************************************************************)
(* The event of ipc.c: a set of bits, and receivers that wait for all or   *)
(* for one of some bits and take them away or leave them.  Obj has its     *)
(* suspend list as "ev".                                                   *)
(***************************************************************************)
EXTENDS RtRetry

CONSTANTS
  Bit,        \* the bits of event->set
  EvReceiver, \* the threads that receive,
  EvOption    \* and the options they use

Option == [and : BOOLEAN,      \* RT_EVENT_FLAG_AND or else RT_EVENT_FLAG_OR
           clear : BOOLEAN]    \* RT_EVENT_FLAG_CLEAR

ASSUME EvAssumption ==
  /\ "ev" \in Obj
  /\ EvReceiver \subseteq User
  /\ EvOption \subseteq Option

VARIABLE ev

Bits     == SUBSET Bit \ {{}}
NoOption == [and |-> FALSE, clear |-> FALSE]
NoCall   == [set |-> {}, opt |-> NoOption, want |-> {}]

\* set and opt are the arguments of the call, want is thread->event_set and, when
\* the call is done, *recved
EvType ==
  [ set  : SUBSET Bit,                                                    \* event->set
    call : [Thread -> [set : SUBSET Bit, opt : Option, want : SUBSET Bit]] ]

EvEmpty == [set |-> {}, call |-> [c \in Thread |-> NoCall]]

\* what the bits in have are to a receiver of s with option o
Satisfied(s, o, have) == IF o.and THEN s \subseteq have ELSE s \cap have # {}
-----------------------------------------------------------------------------
(* rt_event_send *)

\* mutation: the list is searched for the first receiver that is satisfied
EvOfferFirst(a, t) ==
  LET r   == a.ev.call[t]
      got == IF r.opt.and THEN r.want ELSE r.want \cap a.ev.set
  IN  IF ~Satisfied(r.want, r.opt, a.ev.set) \/ a.k # k THEN a
      ELSE [ k  |-> Resume(a.k, t),
             ev |-> [a.ev EXCEPT !.set = IF r.opt.clear THEN @ \ got ELSE @,
                                 !.call[t].want = got] ]

\* one round of the loop over the receivers that wait
EvOffer(a, t) ==
  LET r   == a.ev.call[t]
      got == IF r.opt.and THEN r.want ELSE r.want \cap a.ev.set
  IN  IF ~Satisfied(r.want, r.opt, a.ev.set) THEN a
      ELSE [ k  |-> Resume(a.k, t),
             ev |-> [a.ev EXCEPT !.set = IF r.opt.clear THEN @ \ got ELSE @,
                                 !.call[t].want = got] ]

EvSent(s) == FoldLeft(EvOffer, [k |-> k, ev |-> [ev EXCEPT !.set = @ \cup s]], Waiters("ev"))

rt_event_send(c, s) ==
  LET a == EvSent(s)
  IN  /\ At(c, "run")
      /\ "ev" \in alive
      /\ k' = a.k
      /\ ev' = a.ev
      /\ IF a.k # k THEN Call(c, "sched", NoObj) ELSE UNCHANGED op
      /\ UNCHANGED <<alive, loc>>

\* rt_event_send called by an interrupt handler
EvIsrSend(s) ==
  LET a == EvSent(s)
  IN  /\ ~k.isr
      /\ "ev" \in alive
      /\ k' = IF a.k # k THEN Schedule(a.k) ELSE k
      /\ ev' = a.ev
      /\ UNCHANGED <<op, alive, loc>>
-----------------------------------------------------------------------------
\* mutation: the event is cleared as a whole
RecvNowAll(c, s, o) ==
  /\ ev' = [ev EXCEPT !.set = IF o.clear THEN {} ELSE @,
                      !.call[c] = [set |-> s, opt |-> o, want |-> s \cap ev.set]]
  /\ Call(c, "return", "ev")
  /\ UNCHANGED k

\* rt_event_recv of bits that are there
RecvNow(c, s, o) ==
  /\ ev' = [ev EXCEPT !.set = IF o.clear THEN @ \ s ELSE @,
                      !.call[c] = [set |-> s, opt |-> o, want |-> s \cap ev.set]]
  /\ Call(c, "return", "ev")
  /\ UNCHANGED k

RecvWait(c, s, o, d) ==
  /\ k' = Block(k, "ev", c, d)
  /\ ev' = [ev EXCEPT !.call[c] = [set |-> s, opt |-> o, want |-> s]]
  /\ Call(c, "wait_sched", "ev")

\* with timeout 0 an unsatisfied call returns at once
rt_event_recv(c, s, o, d) ==
  /\ At(c, "run")
  /\ "ev" \in alive
  /\ IF Satisfied(s, o, ev.set) THEN RecvNow(c, s, o) ELSE d # 0 /\ RecvWait(c, s, o, d)
  /\ UNCHANGED <<alive, loc>>

\* *recved = thread->event_set
EvRecved(c) ==
  /\ Retry(c, "ev")
  /\ Goto(c, "return")
  /\ UNCHANGED <<k, alive, loc, ev>>

\* rt_event_control, RT_IPC_CMD_RESET
rt_event_control(c) ==
  /\ At(c, "run")
  /\ "ev" \in alive
  /\ k' = ResumeAll(k, "ev")
  /\ ev' = [ev EXCEPT !.set = {}]
  /\ Call(c, "sched", NoObj)
  /\ UNCHANGED <<alive, loc>>

\* rt_event_init, rt_event_create
rt_event_init(c) == Create(c, {"ev"}) /\ UNCHANGED ev

\* rt_event_detach, rt_event_delete
rt_event_detach(c) == Detach(c, {"ev"}, "ev") /\ ev' = [ev EXCEPT !.set = {}]

\* what a call leaves behind in the thread is written by the next one
EvForget == ev' = [ev EXCEPT !.call = [c \in Thread |-> IF op'[c].on = "ev" THEN @[c] ELSE NoCall]]

EvInit == ev = EvEmpty

EvNext ==
  \/ \E c \in User : \E s \in Bits : rt_event_send(c, s)
  \/ \E c \in EvReceiver : \E s \in Bits : \E o \in EvOption : \E d \in TimeOf[c] \cup {0} :
       rt_event_recv(c, s, o, d)
  \/ \E c \in User :
       \/ EvRecved(c)
       \/ rt_event_control(c) \/ rt_event_init(c) \/ rt_event_detach(c)
  \/ \E s \in Bits : EvIsrSend(s)
-----------------------------------------------------------------------------
\* A receiver that asked for bits that are there is not left waiting, although
\* those that are served first may take bits away from those behind them; and
\* one that is woken, or that returns RT_EOK, is told of bits it asked for, of
\* all of them or of one at least as its option says.
ReceiversServed ==
  /\ \A c \in Range(Waiters("ev")) :
       "ev" \in alive => ~Satisfied(ev.call[c].set, ev.call[c].opt, ev.set)
  /\ \A c \in Thread : op[c].on = "ev" /\ (Woken(c) \/ op[c].pc = "return") =>
       /\ ev.call[c].want \subseteq ev.call[c].set
       /\ Satisfied(ev.call[c].set, ev.call[c].opt, ev.call[c].want)

\* Bits leave the event only when it is reset or removed, or when they are
\* handed to a receiver that clears: no step takes away a bit that nobody is
\* told of, and one rt_event_send tells no two receivers that clear of the same
\* bit.
TakenBitsDelivered ==
  [][ LET in(c) == op[c].on = "ev" /\ (Woken(c) \/ op[c].pc = "return")
          told  == {c \in EvReceiver : ~in(c) /\ in(c)' /\ ev'.call[c].opt.clear}
      IN  \/ /\ \A b \in ev.set \ ev'.set : \E c \in told : b \in ev'.call[c].want
             /\ \A c, d \in told : c # d => ev'.call[c].want \cap ev'.call[d].want = {}
          \/ \E c \in User : rt_event_control(c) \/ rt_event_detach(c)
    ]_<<k, op, alive, loc, ev>>
=============================================================================
