--------------------------- MODULE RtThreadProofs ---------------------------
(***************************************************************************)
(* IInv of RtThread is inductive, whatever the number of threads, of       *)
(* priorities and of ticks.                                                *)
(***************************************************************************)
EXTENDS RtThread, RtKernelProofs, TLAPS

\* A step leaves the thread s as it is.
Same(s) ==
  /\ k'.stat[s] = k.stat[s]
  /\ k'.prio[s] = k.prio[s]
  /\ \A h \in ListHead : Linked(k', s, h) <=> Linked(k, s, h)
  /\ Timed(k', s) <=> Timed(k, s)

\* A step that switches switches to a queued thread of the highest priority.
GoodSwitch ==
  k'.cur # k.cur =>
    /\ k'.lock = 0
    /\ Linked(k', k'.cur, Ready(k'.prio[k'.cur]))
    /\ \A s \in Thread : InReady(k', s) => k'.prio[k'.cur] <= k'.prio[s]

\* What IInv says of the running thread c: only its operation can hold the
\* scheduler lock, have a ready thread in its hands or leave a bit stale.
LEMMA CurrentFacts ==
  ASSUME IInv
  PROVE  /\ k.cur \in Thread
         /\ k.lock \in Nat
         /\ \A d \in Thread : op[d].on \in Thread
         /\ \A d \in Thread : op[d].on # d /\ d # k.cur =>
              \A p \in Prio : ~Linked(k, op[d].on, Ready(p))
         /\ \A s \in Thread : k.stat[s] = "READY" =>
              Linked(k, s, Ready(k.prio[s])) \/ HalfWay(k.cur, s)
         /\ \A p \in StaleBits(k) :
              op[k.cur].pc = "resume_insert" /\ Holds(k.cur) /\ k.prio[op[k.cur].on] = p
<1>1. k.cur \in Thread /\ k.lock \in Nat /\ k \in KState
  BY DEF IInv, TypeOK, KState
<1>2. \A d \in Thread : op[d].on \in Thread /\ op[d].pc \in PC
  BY DEF IInv, TypeOK
<1>3. ASSUME NEW d \in Thread, op[d].on # d, d # k.cur, NEW p \in Prio
      PROVE  ~Linked(k, op[d].on, Ready(p))
  <2>1. OpInv(d) /\ ~Holds(d) /\ op[d].pc \in PC /\ op[d].on \in Thread
    BY <1>2, <1>3 DEF IInv, Holds
  <2>2. Linked(k, op[d].on, Ready(p)) => k.stat[op[d].on] = "READY"
    BY <2>1 DEF IInv, KInv, ListsAgree
  <2>3. k.stat[op[d].on] = "READY" => FALSE
    BY <1>3, <2>1 DEF OpInv, PC
  <2> QED BY <2>2, <2>3
<1>4. ASSUME NEW s \in Thread, k.stat[s] = "READY"
      PROVE  Linked(k, s, Ready(k.prio[s])) \/ HalfWay(k.cur, s)
  <2>1. CASE Linked(k, s, Ready(k.prio[s]))
    BY <2>1
  <2>2. CASE ~Linked(k, s, Ready(k.prio[s]))
    <3>1. PICK d \in Thread : HalfWay(d, s)
      BY <1>4, <2>2 DEF IInv
    <3>2. OpInv(d)
      BY DEF IInv
    <3>3. Holds(d)
      BY <1>4, <3>1, <3>2 DEF HalfWay, OpInv
    <3> QED BY <3>1, <3>3 DEF Holds
  <2> QED BY <2>1, <2>2
<1>5. ASSUME NEW p \in StaleBits(k)
      PROVE  op[k.cur].pc = "resume_insert" /\ Holds(k.cur) /\ k.prio[op[k.cur].on] = p
  BY <1>5 DEF IInv, Holds
<1> QED BY <1>1, <1>2, <1>3, <1>4, <1>5

\* A thread whose operation goes on unchanged, and whose target is unchanged.
LEMMA OtherOp ==
  ASSUME IInv, NEW d \in Thread, d # k.cur, op'[d] = op[d],
         \/ op[d].on # d /\ Same(op[d].on) /\ op[d].on # k'.cur
         \/ op[d].on = d /\ (k.stat[d] = "CLOSE" => k'.stat[d] = "CLOSE")
  PROVE  OpInv(d)'
<1>1. OpInv(d) /\ ~Holds(d) /\ op[d].pc \in PC
  BY DEF IInv, Holds, TypeOK
<1>2. CASE op[d].on = d
  BY <1>1, <1>2 DEF OpInv, PC
<1>3. CASE op[d].on # d
  <2>1. Same(op[d].on) /\ op[d].on # k'.cur
    BY <1>3
  <2>2. Unlinked(k, op[d].on) => Unlinked(k', op[d].on)
    BY <2>1 DEF Same, Unlinked
  <2> QED BY <1>1, <1>3, <2>1, <2>2 DEF OpInv, PC, Same
<1> QED BY <1>2, <1>3

\* A step in which the thread t is acted on while c runs.
LEMMA StepInv ==
  ASSUME IInv, TypeOK', KInv(k)', NEW c \in Thread, c = k.cur, NEW t \in Thread,
         GoodSwitch,
         \A d \in Thread \ {c} : op'[d] = op[d] \/ op'[d] = [pc |-> "run", on |-> d],
         \A s \in Thread \ {t} : Same(s),
         \A d \in Thread \ {c} : op[d].on # d => op[d].on # t,
         t # c /\ k.stat[t] = "CLOSE" => k'.stat[t] = "CLOSE" \/ op'[t] = [pc |-> "run", on |-> t],
         OpInv(c)', CurInv',
         op'[c] = op[c] \/ (op[c].on \in {c, t} /\ op'[c].on \in {c, t}),
         \A s \in Thread : type'[s] = "none" => k'.stat[s] = "CLOSE",
         k'.stat[t] = "READY" => Linked(k', t, Ready(k'.prio[t])) \/ HalfWay(c, t)',
         \A p \in StaleBits(k') :
           op'[c].pc = "resume_insert" /\ Holds(c)' /\ k'.prio[op'[c].on] = p
  PROVE  IInv' /\ GoodSwitch
<1>0. k'.cur \in Thread /\ k'.prio[k'.cur] \in Prio
  BY DEF TypeOK, KState
<1>1. ASSUME NEW d \in Thread PROVE OpInv(d)'
  <2>1. CASE d = c
    BY <2>1
  <2>2. CASE d # c /\ op'[d] = [pc |-> "run", on |-> d]
    BY <2>2 DEF OpInv
  <2>3. CASE d # c /\ op'[d] = op[d] /\ op[d].on = d
    <3>1. k.stat[d] = "CLOSE" => k'.stat[d] = "CLOSE" \/ op'[d] = [pc |-> "run", on |-> d]
      BY <2>3 DEF Same
    <3> QED BY <2>2, <2>3, <3>1, OtherOp
  <2>4. CASE d # c /\ op'[d] = op[d] /\ op[d].on # d
    <3>1. op[d].on \in Thread /\ op[d].on # t /\ op[d].on # c
      BY <2>4, CurrentFacts DEF IInv, OpInv
    <3>2. Same(op[d].on)
      BY <3>1
    <3>3. op[d].on # k'.cur
      <4>1. \A p \in Prio : ~Linked(k, op[d].on, Ready(p))
        BY <2>4, CurrentFacts
      <4>2. ~Linked(k', op[d].on, Ready(k'.prio[k'.cur]))
        BY <1>0, <3>2, <4>1, HeadFacts DEF Same
      <4>3. k'.cur = c \/ Linked(k', k'.cur, Ready(k'.prio[k'.cur]))
        BY DEF GoodSwitch
      <4> QED BY <3>1, <4>2, <4>3
    <3> QED BY <2>4, <3>2, <3>3, OtherOp
  <2> QED BY <2>1, <2>2, <2>3, <2>4
<1>2. ASSUME NEW d \in Thread, NEW e \in Thread, d # e, op'[d].on # d, op'[e].on # e
      PROVE  op'[d].on # op'[e].on
  <2>0. \A f, g \in Thread : f # g /\ op[f].on # f /\ op[g].on # g => op[f].on # op[g].on
    BY DEF IInv
  <2>1. \A f \in Thread : f # c /\ op'[f].on # f =>
           op'[f] = op[f] /\ op[f].on # f /\ op[f].on # t /\ op[f].on # c
    <3> SUFFICES ASSUME NEW f \in Thread, f # c, op'[f].on # f
                 PROVE  op'[f] = op[f] /\ op[f].on # f /\ op[f].on # t /\ op[f].on # c
      OBVIOUS
    <3>1. op'[f] = op[f]
      <4>1. op'[f] = op[f] \/ op'[f] = [pc |-> "run", on |-> f]
        OBVIOUS
      <4>2. [pc |-> "run", on |-> f].on = f
        OBVIOUS
      <4> QED BY <4>1, <4>2
    <3> QED BY <3>1 DEF IInv, OpInv
  <2>2. CASE d # c /\ e # c
    BY <1>2, <2>0, <2>1, <2>2
  <2>3. CASE d = c
    BY <1>2, <2>0, <2>1, <2>3
  <2>4. CASE e = c
    BY <1>2, <2>0, <2>1, <2>4
  <2> QED BY <2>2, <2>3, <2>4
<1>3. ASSUME NEW s \in Thread, k'.stat[s] = "READY"
      PROVE  Linked(k', s, Ready(k'.prio[s])) \/ \E d \in Thread : HalfWay(d, s)'
  <2>1. CASE s = t
    BY <1>3, <2>1
  <2>2. CASE s # t
    <3>1. k.stat[s] = "READY" /\ k'.prio[s] = k.prio[s] /\ k.prio[s] \in Prio
      BY <1>3, <2>2 DEF Same, IInv, TypeOK, KState
    <3>2. CASE Linked(k, s, Ready(k.prio[s]))
      BY <2>2, <3>1, <3>2, HeadFacts DEF Same
    <3>3. CASE HalfWay(c, s)
      <4>1. op[c].on # c /\ op[c].on = s
        BY <3>3 DEF HalfWay, IInv, OpInv
      <4>2. op'[c] = op[c]
        BY <2>2, <4>1
      <4> QED BY <3>3, <4>2 DEF HalfWay
    <3> QED BY <3>1, <3>2, <3>3, CurrentFacts
  <2> QED BY <2>1, <2>2
<1>4. \A p \in StaleBits(k)' : \E d \in Thread :
        (op[d].pc = "resume_insert" /\ Holds(d) /\ k.prio[op[d].on] = p)'
  OBVIOUS
<1> QED BY <1>1, <1>2, <1>3, <1>4 DEF IInv

-----------------------------------------------------------------------------
\* The operation of the caller after a step, and nobody else's.
LEMMA CallFacts ==
  ASSUME TypeOK, NEW c \in Thread, NEW pc \in PC, NEW t \in Thread, Call(c, pc, t)
  PROVE  /\ op' \in [Thread -> [pc : PC, on : Thread]]
         /\ op'[c].pc = pc /\ op'[c].on = t
         /\ \A d \in Thread \ {c} : op'[d] = op[d]
BY DEF TypeOK, Call

\* Goto keeps the target.
LEMMA GotoFacts ==
  ASSUME TypeOK, NEW c \in Thread, NEW pc \in PC, Goto(c, pc)
  PROVE  /\ op' \in [Thread -> [pc : PC, on : Thread]]
         /\ op'[c].pc = pc /\ op'[c].on = op[c].on
         /\ \A d \in Thread \ {c} : op'[d] = op[d]
BY DEF TypeOK, Goto

\* The caller is in its ready queue, unless it is about to leave the processor.
LEMMA AtFacts ==
  ASSUME IInv, NEW c \in Thread, NEW pc, At(c, pc)
  PROVE  /\ c = k.cur /\ op[c].pc = pc /\ OpInv(c) /\ op[c].on \in Thread
         /\ KInv(k) /\ TypeOK /\ k \in KState /\ k.prio[c] \in Prio
         /\ pc # "resume_insert" => StaleBits(k) = {}
         /\ pc \notin {"sched", "sleep_sched", "exit_sched"} =>
              Linked(k, c, Ready(k.prio[c])) /\ k.stat[c] = "READY"
<1>1. c = k.cur /\ op[c].pc = pc /\ OpInv(c) /\ KInv(k) /\ TypeOK /\ op[c].on \in Thread
  BY CurrentFacts DEF At, IInv
<1>2. k \in KState /\ k.prio[c] \in Prio
  BY <1>1 DEF KInv, KState
<1>3. pc # "resume_insert" => StaleBits(k) = {}
  BY <1>1, CurrentFacts
<1>4. ASSUME pc \notin {"sched", "sleep_sched", "exit_sched"}
      PROVE  Linked(k, c, Ready(k.prio[c])) /\ k.stat[c] = "READY"
  <2>1. Linked(k, c, Ready(k.prio[c]))
    BY <1>1, <1>4 DEF IInv, CurInv
  <2> QED BY <1>1, <1>2, <2>1 DEF KInv, ListsAgree
<1> QED BY <1>1, <1>2, <1>3, <1>4

\* A thread that is neither ready, waiting nor dead is in no list.
LEMMA InitUnlinked ==
  ASSUME NEW s, KInv(s), NEW t \in Thread, s.stat[t] = "INIT"
  PROVE  Unlinked(s, t) /\ ~Timed(s, t)
BY HeadFacts DEF KInv, ListsAgree, Unlinked

\* idle is always ready.
LEMMA IdleReady ==
  ASSUME NEW s, KInv(s)
  PROVE  s.stat[idle] = "READY"
<1>1. PrioMax - 1 \in Prio
  BY KernelAssumption DEF Prio
<1> QED BY <1>1, KernelAssumption DEF KInv, ListsAgree, BitsCover

\* The contract: nobody else is inside an operation on t.
LEMMA ExclusiveFacts ==
  ASSUME IInv, NEW t \in Thread, Exclusive(t)
  PROVE  \A d \in Thread : op[d].on # d => op[d].on # t
<1> SUFFICES ASSUME NEW d \in Thread, op[d].on # d, op[d].on = t PROVE FALSE
  OBVIOUS
<1>1. op[d].pc = "run"
  BY DEF Exclusive
<1> QED BY <1>1 DEF IInv, OpInv

\* The same, for the thread an operation is already about.
LEMMA TargetFacts ==
  ASSUME IInv, NEW c \in Thread, op[c].on # c
  PROVE  /\ op[c].on # idle /\ op[c].on # k.cur
         /\ \A d \in Thread \ {c} : op[d].on # d => op[d].on # op[c].on
BY DEF IInv, OpInv

\* rt_thread_create and rt_thread_init preserve the invariant.
LEMMA CreateInv ==
  ASSUME IInv, NEW c \in Thread, NEW t \in Thread, rt_thread_create(c, t)
  PROVE  IInv' /\ GoodSwitch
<1> DEFINE u == ThreadInit(k, t)
<1>0. /\ c = k.cur /\ op[c].pc = "run" /\ OpInv(c) /\ KInv(k) /\ TypeOK /\ k \in KState
      /\ StaleBits(k) = {} /\ k.prio[c] \in Prio
      /\ Linked(k, c, Ready(k.prio[c])) /\ k.stat[c] = "READY"
  BY AtFacts DEF rt_thread_create
<1>1. k.stat[t] = "CLOSE" /\ ~Timed(k, t) /\ t # c /\ op[c].on = c
  BY <1>0 DEF rt_thread_create, live, IInv, KInv, ListsAgree, OpInv
<1>2. /\ KInv(u) /\ StaleBits(u) = StaleBits(k)
      /\ u.stat = [k.stat EXCEPT ![t] = "INIT"]
      /\ u.prio = [k.prio EXCEPT ![t] = InitPrio[t]]
      /\ u.list = k.list /\ u.timers = k.timers
      /\ u.cur = k.cur /\ u.lock = k.lock /\ u.isr = k.isr
  BY <1>0, <1>1, ThreadInitInv DEF rt_thread_create
<1>3. k' = u
  BY DEF rt_thread_create
<1> HIDE DEF u
<1>4. \A s \in Thread \ {t} : Same(s)
  BY <1>0, <1>2, <1>3 DEF Same, KState, Linked, Timed
<1>5. k'.stat[t] = "INIT"
  BY <1>0, <1>2, <1>3 DEF KState
<1>6. /\ op' \in [Thread -> [pc : PC, on : Thread]]
      /\ op'[t] = [pc |-> "run", on |-> t]
      /\ \A d \in Thread \ {t} : op'[d] = op[d]
  BY <1>0 DEF rt_thread_create, TypeOK, PC
<1>7. /\ type' \in [Thread -> {"none", "static", "dynamic"}]
      /\ type'[t] # "none" /\ \A s \in Thread \ {t} : type'[s] = type[s]
  BY <1>0 DEF rt_thread_create, TypeOK, Kind
<1>8. TypeOK' /\ KInv(k)'
  BY <1>2, <1>3, <1>6, <1>7 DEF TypeOK, KInv
<1>9. OpInv(c)'
  BY <1>0, <1>1, <1>6 DEF OpInv
<1>10. CurInv'
  BY <1>0, <1>1, <1>2, <1>3, <1>4, HeadFacts DEF CurInv, Same
<1>11. \A d \in Thread : op[d].on # d => op[d].on # t
  BY ExclusiveFacts DEF rt_thread_create
<1>12. \A s \in Thread : type'[s] = "none" => k'.stat[s] = "CLOSE"
  BY <1>4, <1>7 DEF IInv, Same
<1>13. StaleBits(k') = {}
  BY <1>0, <1>2, <1>3
<1>14. k'.cur = c
  BY <1>0, <1>2, <1>3
<1>g. GoodSwitch
  BY <1>0, <1>14 DEF GoodSwitch
<1> QED BY <1>g, <1>0, <1>1, <1>4, <1>5, <1>6, <1>8, <1>9, <1>10, <1>11, <1>12, <1>13, <1>14, StepInv

\* The running thread c, in its queue, acts on another thread t.
LEMMA ActOnInv ==
  ASSUME IInv, NEW c \in Thread, c = k.cur, Linked(k, c, Ready(k.prio[c])),
         NEW t \in Thread, t # c,
         KInv(k'), k'.cur = k.cur, type' = type,
         op' \in [Thread -> [pc : PC, on : Thread]],
         \A d \in Thread \ {c} : op'[d] = op[d],
         op[c].on \in {c, t}, op'[c].on \in {c, t},
         \A s \in Thread \ {t} : Same(s),
         \A d \in Thread \ {c} : op[d].on # d => op[d].on # t,
         k.stat[t] = "CLOSE" => k'.stat[t] = "CLOSE",
         OpInv(c)',
         k'.stat[t] = "READY" => Linked(k', t, Ready(k'.prio[t])) \/ HalfWay(c, t)',
         \A p \in StaleBits(k') :
           op'[c].pc = "resume_insert" /\ Holds(c)' /\ k'.prio[op'[c].on] = p
  PROVE  IInv' /\ GoodSwitch
<1>1. TypeOK' /\ KInv(k)'
  BY DEF IInv, TypeOK, KInv
<1>2. CurInv'
  <2>1. Same(c) /\ k.prio[c] \in Prio
    BY DEF IInv, TypeOK, KState
  <2> QED BY <2>1, HeadFacts DEF Same, CurInv
<1>3. \A s \in Thread : type'[s] = "none" => k'.stat[s] = "CLOSE"
  BY DEF IInv, Same
<1>g. GoodSwitch
  BY DEF GoodSwitch
<1> QED BY <1>g, <1>1, <1>2, <1>3, StepInv

\* rt_thread_startup, up to the resume it calls.
LEMMA StartupInv ==
  ASSUME IInv, NEW c \in Thread, c # idle, NEW t \in Thread, rt_thread_startup(c, t)
  PROVE  IInv' /\ GoodSwitch
<1> DEFINE v == SetPrio(k, t, InitPrio[t])
           u == SetStat(v, t, "SUSPEND")
<1>0. /\ c = k.cur /\ op[c].pc = "run" /\ OpInv(c) /\ KInv(k) /\ TypeOK /\ k \in KState
      /\ StaleBits(k) = {} /\ Linked(k, c, Ready(k.prio[c]))
  BY AtFacts DEF rt_thread_startup
<1>1. /\ k.stat[t] = "INIT" /\ t # c /\ t # idle /\ op[c].on = c /\ InitPrio[t] \in Prio
  BY <1>0, IdleReady, KernelAssumption DEF rt_thread_startup, OpInv
<1>2. Unlinked(k, t) /\ ~Timed(k, t)
  BY <1>0, <1>1, InitUnlinked
<1>3. /\ KInv(v) /\ StaleBits(v) = StaleBits(k)
      /\ v.prio = [k.prio EXCEPT ![t] = InitPrio[t]]
      /\ v.mask = [k.mask EXCEPT ![t] = {InitPrio[t]}]
      /\ v.stat = k.stat /\ v.list = k.list /\ v.timers = k.timers
      /\ v.group = k.group /\ v.cur = k.cur /\ v.lock = k.lock /\ v.isr = k.isr
  <2>1. \A q \in Prio : ~Linked(k, t, Ready(q))
    BY <1>2, HeadFacts DEF Unlinked
  <2> QED BY <1>0, <1>1, <2>1, SetPrioInv
<1>4. k' = u
  BY DEF rt_thread_startup
<1> HIDE DEF v
<1>5. v.mask[t] = {v.prio[t]} /\ Unlinked(v, t) /\ ~Timed(v, t)
  BY <1>0, <1>2, <1>3 DEF KState, Unlinked, Linked, Timed
<1>6. /\ KInv(u) /\ StaleBits(u) = StaleBits(v)
      /\ u.stat = [v.stat EXCEPT ![t] = "SUSPEND"]
      /\ u.prio = v.prio /\ u.mask = v.mask /\ u.list = v.list /\ u.timers = v.timers
      /\ u.cur = v.cur /\ u.lock = v.lock /\ u.isr = v.isr
  <2>1. "SUSPEND" \in Stat
    BY DEF Stat
  <2>2. KInv(v)
    BY <1>3
  <2> QED BY <1>5, <2>1, <2>2, SetStatInv, Zenon
<1> HIDE DEF u
<1>7. \A s \in Thread \ {t} : Same(s)
  BY <1>0, <1>3, <1>4, <1>6 DEF Same, KState, Linked, Timed
<1>8. k'.stat[t] = "SUSPEND" /\ Unlinked(k', t) /\ ~Timed(k', t)
  BY <1>0, <1>2, <1>3, <1>4, <1>6 DEF KState, Unlinked, Linked, Timed
<1>9. /\ op' \in [Thread -> [pc : PC, on : Thread]]
      /\ op'[c].pc = "start_unlink" /\ op'[c].on = t
      /\ \A d \in Thread \ {c} : op'[d] = op[d]
  BY <1>0, CallFacts DEF rt_thread_startup, PC
<1>10. KInv(k') /\ k'.cur = k.cur /\ StaleBits(k') = {} /\ type' = type
  BY <1>0, <1>3, <1>4, <1>6 DEF rt_thread_startup
<1>11. OpInv(c)'
  BY <1>0, <1>1, <1>8, <1>9, <1>10 DEF OpInv
<1>12. \A d \in Thread : op[d].on # d => op[d].on # t
  BY ExclusiveFacts DEF rt_thread_startup
<1> QED BY <1>0, <1>1, <1>7, <1>8, <1>9, <1>10, <1>11, <1>12, ActOnInv

\* The first interrupt lock of a resume, in rt_thread_startup or not.
LEMMA UnlinkStepInv ==
  ASSUME IInv, NEW c \in Thread, StartUnlink(c) \/ ResumeUnlinkStep(c)
  PROVE  IInv' /\ GoodSwitch
<1> DEFINE t == op[c].on
           u == ResumeUnlink(k, t)
<1>0. /\ c = k.cur /\ op[c].pc \in {"start_unlink", "resume_unlink"} /\ OpInv(c)
      /\ t \in Thread /\ KInv(k) /\ TypeOK /\ k \in KState
      /\ StaleBits(k) = {} /\ Linked(k, c, Ready(k.prio[c]))
  <2>1. CASE StartUnlink(c)
    BY <2>1, AtFacts DEF StartUnlink
  <2>2. CASE ResumeUnlinkStep(c)
    BY <2>2, AtFacts DEF ResumeUnlinkStep
  <2> QED BY <2>1, <2>2
<1>1. t # c /\ t # idle /\ k.stat[t] \in {"SUSPEND", "READY"} /\ c # idle
  BY <1>0 DEF OpInv
<1>2. /\ KInv(u) /\ Unlinked(u, t) /\ ~Timed(u, t)
      /\ \A p \in StaleBits(u) : p \in StaleBits(k) \/ Linked(k, t, Ready(p))
      /\ \A h \in ListHead : Range(u.list[h]) = Range(k.list[h]) \ {t}
      /\ Range(u.timers) = Range(k.timers) \ {t}
      /\ u.stat = k.stat /\ u.prio = k.prio /\ u.mask = k.mask
      /\ u.cur = k.cur /\ u.lock = k.lock /\ u.isr = k.isr
  BY <1>0, <1>1, ResumeUnlinkInv
<1>3. k' = u /\ type' = type
  BY DEF StartUnlink, ResumeUnlinkStep
<1>4. /\ op' \in [Thread -> [pc : PC, on : Thread]]
      /\ op'[c].on = t
      /\ \A d \in Thread \ {c} : op'[d] = op[d]
      /\ op[c].pc = "start_unlink" => op'[c].pc = "start_insert"
      /\ op[c].pc = "resume_unlink" => op'[c].pc = "resume_insert"
  <2>1. CASE op[c].pc = "start_unlink"
    BY <1>0, <2>1, GotoFacts DEF StartUnlink, ResumeUnlinkStep, At, PC
  <2>2. CASE op[c].pc = "resume_unlink"
    BY <1>0, <2>2, GotoFacts DEF StartUnlink, ResumeUnlinkStep, At, PC
  <2> QED BY <1>0, <2>1, <2>2
<1> HIDE DEF u
<1>5. \A s \in Thread \ {t} : Same(s)
  BY <1>2, <1>3 DEF Same, Linked, Timed
<1>6. OpInv(c)'
  BY <1>0, <1>1, <1>2, <1>3, <1>4 DEF OpInv, Holds
<1>7. KInv(k') /\ k'.cur = k.cur /\ k'.stat = k.stat
  BY <1>2, <1>3
<1>8. \A p \in StaleBits(k') :
        op'[c].pc = "resume_insert" /\ Holds(c)' /\ k'.prio[op'[c].on] = p
  <2> SUFFICES ASSUME NEW p \in StaleBits(k')
               PROVE  op'[c].pc = "resume_insert" /\ Holds(c)' /\ k'.prio[op'[c].on] = p
    OBVIOUS
  <2>1. Linked(k, t, Ready(p)) /\ p \in Prio
    BY <1>0, <1>2, <1>3 DEF StaleBits, KInv, KState
  <2>2. k.stat[t] = "READY" /\ k.prio[t] = p
    BY <1>0, <2>1 DEF KInv, ListsAgree
  <2> QED BY <1>0, <1>2, <1>3, <1>4, <2>2 DEF OpInv, Holds
<1>9. \A d \in Thread \ {c} : op[d].on # d => op[d].on # t
  BY <1>1, TargetFacts
<1>10. k'.stat[t] = "READY" => HalfWay(c, t)'
  BY <1>0, <1>4, <1>7 DEF OpInv, HalfWay
<1> QED BY <1>0, <1>1, <1>3, <1>4, <1>5, <1>6, <1>7, <1>8, <1>9, <1>10, ActOnInv

\* The second one.
LEMMA InsertStepInv ==
  ASSUME IInv, NEW c \in Thread, StartInsert(c) \/ ResumeInsert(c)
  PROVE  IInv' /\ GoodSwitch
<1> DEFINE t == op[c].on
           u == InsertReady(k, t)
<1>0. /\ c = k.cur /\ op[c].pc \in {"start_insert", "resume_insert"} /\ OpInv(c)
      /\ t \in Thread /\ KInv(k) /\ TypeOK /\ k \in KState
      /\ Linked(k, c, Ready(k.prio[c]))
  <2>1. CASE StartInsert(c)
    BY <2>1, AtFacts DEF StartInsert
  <2>2. CASE ResumeInsert(c)
    BY <2>2, AtFacts DEF ResumeInsert
  <2> QED BY <2>1, <2>2
<1>1. /\ t # c /\ t # idle /\ k.stat[t] \in {"SUSPEND", "READY"} /\ c # idle
      /\ Unlinked(k, t) /\ ~Timed(k, t)
  BY <1>0 DEF OpInv
<1>2. k.mask[t] = {k.prio[t]} /\ k.prio[t] \in Prio
  BY <1>0, <1>1 DEF KInv, ListsAgree, KState
<1>3. /\ KInv(u) /\ u.stat = [k.stat EXCEPT ![t] = "READY"]
      /\ \A h \in ListHead : Range(u.list[h]) =
           IF h = Ready(k.prio[t]) THEN Range(k.list[h]) \cup {t} ELSE Range(k.list[h])
      /\ StaleBits(u) \subseteq StaleBits(k) \ {k.prio[t]}
  BY <1>0, <1>1, <1>2, InsertReadyInv
<1>4. u.prio = k.prio /\ u.cur = k.cur /\ u.lock = k.lock /\ u.timers = k.timers
  BY <1>0, InsertReadyFrame
<1>5. k' = u /\ type' = type
  BY DEF StartInsert, ResumeInsert
<1>6. /\ op' \in [Thread -> [pc : PC, on : Thread]]
      /\ op'[c].on = c /\ op'[c].pc \in {"sched", "run"}
      /\ \A d \in Thread \ {c} : op'[d] = op[d]
  <2>1. CASE StartInsert(c)
    BY <1>0, <2>1, CallFacts DEF StartInsert, PC
  <2>2. CASE ResumeInsert(c)
    BY <1>0, <2>2, CallFacts DEF ResumeInsert, PC
  <2> QED BY <2>1, <2>2
<1> HIDE DEF u
<1>7. \A s \in Thread \ {t} : Same(s)
  <2>1. \A s \in Thread \ {t} : u.stat[s] = k.stat[s]
    BY <1>0, <1>3 DEF KState
  <2> QED BY <1>3, <1>4, <1>5, <2>1 DEF Same, Linked, Timed
<1>8. OpInv(c)'
  BY <1>1, <1>6 DEF OpInv
<1>9. KInv(k') /\ k'.cur = k.cur
  BY <1>3, <1>4, <1>5
<1>10. StaleBits(k') = {}
  <2>1. \A p \in StaleBits(k) : k.prio[t] = p
    BY <1>0, CurrentFacts
  <2> QED BY <1>3, <1>5, <2>1
<1>11. \A d \in Thread \ {c} : op[d].on # d => op[d].on # t
  BY <1>1, TargetFacts
<1>12. Linked(k', t, Ready(k'.prio[t])) /\ k.stat[t] # "CLOSE"
  BY <1>1, <1>2, <1>3, <1>4, <1>5, HeadFacts DEF Linked
<1> QED BY <1>0, <1>1, <1>5, <1>6, <1>7, <1>8, <1>9, <1>10, <1>11, <1>12, ActOnInv

\* rt_thread_resume and rt_thread_suspend up to their interrupt lock.
LEMMA BeginOnInv ==
  ASSUME IInv, NEW c \in Thread, c # idle, NEW t \in Thread,
         rt_thread_resume(c, t) \/ rt_thread_suspend(c, t)
  PROVE  IInv' /\ GoodSwitch
<1>0. /\ c = k.cur /\ op[c].pc = "run" /\ OpInv(c) /\ KInv(k) /\ TypeOK /\ k \in KState
      /\ StaleBits(k) = {} /\ Linked(k, c, Ready(k.prio[c]))
      /\ MayOperateOn(c, t) /\ k' = k /\ type' = type
  <2>1. CASE rt_thread_resume(c, t)
    BY <2>1, AtFacts DEF rt_thread_resume
  <2>2. CASE rt_thread_suspend(c, t)
    BY <2>2, AtFacts DEF rt_thread_suspend
  <2> QED BY <2>1, <2>2
<1>1. t # c /\ t # idle /\ op[c].on = c
  BY <1>0 DEF MayOperateOn, OpInv
<1>2. /\ op' \in [Thread -> [pc : PC, on : Thread]] /\ op'[c].on = t
      /\ \A d \in Thread \ {c} : op'[d] = op[d]
      /\ \/ op'[c].pc = "resume_unlink" /\ k.stat[t] = "SUSPEND"
         \/ op'[c].pc = "suspend" /\ k.stat[t] = "READY"
  <2>1. CASE rt_thread_resume(c, t)
    BY <1>0, <2>1, CallFacts DEF rt_thread_resume, PC
  <2>2. CASE rt_thread_suspend(c, t)
    BY <1>0, <2>2, CallFacts DEF rt_thread_suspend, PC
  <2> QED BY <2>1, <2>2
<1>3. \A s \in Thread \ {t} : Same(s)
  BY <1>0 DEF Same
<1>4. OpInv(c)'
  BY <1>0, <1>1, <1>2 DEF OpInv, Holds, MayOperateOn, Untimed
<1>5. \A d \in Thread : op[d].on # d => op[d].on # t
  BY <1>0, ExclusiveFacts DEF MayOperateOn
<1>6. k'.stat[t] = "READY" => Linked(k', t, Ready(k'.prio[t]))
  BY <1>0, CurrentFacts DEF HalfWay
<1> QED BY <1>0, <1>1, <1>2, <1>3, <1>4, <1>5, <1>6, ActOnInv

\* The interrupt lock of rt_thread_suspend on another thread.
LEMMA SuspendOtherInv ==
  ASSUME IInv, NEW c \in Thread, SuspendOther(c)
  PROVE  IInv' /\ GoodSwitch
<1> DEFINE t == op[c].on
           u == Suspend(k, t)
<1>0. /\ c = k.cur /\ op[c].pc = "suspend" /\ OpInv(c)
      /\ t \in Thread /\ KInv(k) /\ TypeOK /\ k \in KState
      /\ StaleBits(k) = {} /\ Linked(k, c, Ready(k.prio[c]))
  BY AtFacts DEF SuspendOther
<1>1. t # c /\ t # idle /\ k.stat[t] = "READY" /\ c # idle
  BY <1>0 DEF OpInv
<1>2. /\ KInv(u) /\ Unlinked(u, t)
      /\ StaleBits(u) \subseteq StaleBits(k)
      /\ \A h \in ListHead : Range(u.list[h]) = Range(k.list[h]) \ {t}
      /\ Range(u.timers) = Range(k.timers) \ {t}
      /\ u.stat = [k.stat EXCEPT ![t] = "SUSPEND"]
      /\ u.prio = k.prio /\ u.cur = k.cur /\ u.lock = k.lock /\ u.isr = k.isr
  BY <1>0, <1>1, SuspendInv
<1>3. k' = u /\ type' = type
  BY DEF SuspendOther
<1>4. /\ op' \in [Thread -> [pc : PC, on : Thread]]
      /\ op'[c].on = c /\ op'[c].pc = "run"
      /\ \A d \in Thread \ {c} : op'[d] = op[d]
  BY <1>0, CallFacts DEF SuspendOther, PC
<1> HIDE DEF u
<1>5. \A s \in Thread \ {t} : Same(s)
  <2>1. \A s \in Thread \ {t} : u.stat[s] = k.stat[s]
    BY <1>0, <1>2 DEF KState
  <2> QED BY <1>2, <1>3, <2>1 DEF Same, Linked, Timed
<1>6. OpInv(c)'
  BY <1>1, <1>4 DEF OpInv
<1>7. KInv(k') /\ k'.cur = k.cur /\ k'.stat[t] = "SUSPEND" /\ StaleBits(k') = {}
  BY <1>0, <1>2, <1>3 DEF KState
<1>8. \A d \in Thread \ {c} : op[d].on # d => op[d].on # t
  BY <1>1, TargetFacts
<1> QED BY <1>0, <1>1, <1>3, <1>4, <1>5, <1>6, <1>7, <1>8, ActOnInv

\* rt_thread_suspend(rt_thread_self()) and rt_thread_sleep: the thread leaves
\* its queue and goes on, with the scheduler unlocked, to rt_schedule.
LEMMA SuspendSelfInv ==
  ASSUME IInv, NEW c \in Thread,
         SuspendSelf(c) \/ \E d \in Delay : rt_thread_sleep(c, d)
  PROVE  IInv' /\ GoodSwitch
<1> DEFINE v == Suspend(k, c)
<1>0. /\ c = k.cur /\ op[c].pc = "run" /\ OpInv(c) /\ KInv(k) /\ TypeOK /\ k \in KState
      /\ StaleBits(k) = {} /\ k.stat[c] = "READY" /\ c # idle /\ k.lock = 0 /\ type' = type
  <2>1. CASE SuspendSelf(c)
    BY <2>1, AtFacts DEF SuspendSelf
  <2>2. CASE \E d \in Delay : rt_thread_sleep(c, d)
    BY <2>2, AtFacts DEF rt_thread_sleep
  <2> QED BY <2>1, <2>2
<1>1. /\ KInv(v) /\ Unlinked(v, c)
      /\ StaleBits(v) \subseteq StaleBits(k)
      /\ \A h \in ListHead : Range(v.list[h]) = Range(k.list[h]) \ {c}
      /\ Range(v.timers) = Range(k.timers) \ {c}
      /\ v.stat = [k.stat EXCEPT ![c] = "SUSPEND"]
      /\ v.prio = k.prio /\ v.cur = k.cur /\ v.lock = k.lock /\ v.isr = k.isr
  <2>1. KInv(k) /\ k.stat[c] = "READY" /\ c # idle
    BY <1>0
  <2> QED BY <2>1, SuspendInv
<1>2. v.stat[c] = "SUSPEND" /\ \A s \in Thread \ {c} : v.stat[s] = k.stat[s]
  BY <1>0, <1>1 DEF KState
<1>3. /\ KInv(k') /\ StaleBits(k') = StaleBits(v)
      /\ Range(k'.timers) \subseteq Range(v.timers) \cup {c}
      /\ Range(v.timers) \subseteq Range(k'.timers)
      /\ k'.stat = v.stat /\ k'.prio = v.prio /\ k'.list = v.list
      /\ k'.cur = v.cur /\ k'.lock = v.lock
  <2>1. CASE SuspendSelf(c)
    <3>1. k' = v
      BY <2>1 DEF SuspendSelf
    <3> HIDE DEF v
    <3> QED BY <1>1, <3>1
  <2>2. CASE \E d \in Delay : rt_thread_sleep(c, d)
    <3>1. PICK d \in Delay : rt_thread_sleep(c, d)
      BY <2>2
    <3> DEFINE u == TimerStart(v, c, d)
    <3>2. d \in Nat
      BY ThreadAssumption
    <3>3. k' = u
      BY <3>1 DEF rt_thread_sleep
    <3> HIDE DEF v
    <3>4. /\ KInv(u) /\ StaleBits(u) = StaleBits(v)
          /\ Range(u.timers) = Range(v.timers) \cup {c}
          /\ u.stat = v.stat /\ u.prio = v.prio /\ u.list = v.list
          /\ u.cur = v.cur /\ u.lock = v.lock /\ u.isr = v.isr
      BY <1>1, <1>2, <3>2, TimerStartInv
    <3> HIDE DEF u
    <3> QED BY <3>3, <3>4
  <2> QED BY <2>1, <2>2
<1>4. /\ op' \in [Thread -> [pc : PC, on : Thread]]
      /\ op'[c].on = c /\ op'[c].pc \in {"sched", "sleep_sched"}
      /\ \A d \in Thread \ {c} : op'[d] = op[d]
  <2>1. CASE SuspendSelf(c)
    BY <1>0, <2>1, CallFacts DEF SuspendSelf, PC
  <2>2. CASE \E d \in Delay : rt_thread_sleep(c, d)
    BY <1>0, <2>2, CallFacts DEF rt_thread_sleep, PC
  <2> QED BY <2>1, <2>2
<1> HIDE DEF v
<1>5. \A s \in Thread \ {c} : Same(s)
  BY <1>1, <1>2, <1>3 DEF Same, Linked, Timed
<1>6. OpInv(c)'
  BY <1>0, <1>4 DEF OpInv
<1>7. TypeOK' /\ KInv(k)'
  BY <1>0, <1>3, <1>4 DEF TypeOK, KInv
<1>8. k'.cur = c /\ k'.stat[c] = "SUSPEND" /\ k'.lock = 0 /\ StaleBits(k') = {}
  BY <1>0, <1>1, <1>2, <1>3
<1>9. CurInv'
  BY <1>4, <1>8 DEF CurInv
<1>10. \A d \in Thread \ {c} : op[d].on # d => op[d].on # c
  BY <1>0 DEF IInv, OpInv
<1>11. \A s \in Thread : type'[s] = "none" => k'.stat[s] = "CLOSE"
  BY <1>0, <1>5 DEF IInv, Same
<1>12. op[c].on = c
  BY <1>0 DEF OpInv
<1>g. GoodSwitch
  BY <1>0, <1>8 DEF GoodSwitch
<1> QED BY <1>g, <1>0, <1>4, <1>5, <1>6, <1>7, <1>8, <1>9, <1>10, <1>11, <1>12, StepInv

\* rt_thread_control with RT_THREAD_CTRL_CHANGE_PRIORITY.
LEMMA ChangePrioInv ==
  ASSUME IInv, NEW c \in Thread, NEW t \in Thread, NEW p \in Prio,
         rt_thread_change_priority(c, t, p)
  PROVE  IInv' /\ GoodSwitch
<1> DEFINE u == ChangePriority(k, t, p)
<1>0. /\ c = k.cur /\ op[c].pc = "run" /\ OpInv(c) /\ KInv(k) /\ TypeOK /\ k \in KState
      /\ StaleBits(k) = {} /\ Linked(k, c, Ready(k.prio[c])) /\ k.stat[c] = "READY"
      /\ t # idle /\ op' = op /\ type' = type
  BY AtFacts DEF rt_thread_change_priority
<1>1. k.stat[t] = "READY" => Linked(k, t, Ready(k.prio[t]))
  BY <1>0, CurrentFacts DEF HalfWay
<1>2. /\ KInv(u)
      /\ StaleBits(u) \subseteq StaleBits(k)
      /\ u.prio = [k.prio EXCEPT ![t] = p]
      /\ u.stat = k.stat /\ u.timers = k.timers
      /\ u.cur = k.cur /\ u.lock = k.lock /\ u.isr = k.isr
      /\ \A s \in Thread \ {t}, h \in ListHead : Linked(u, s, h) <=> Linked(k, s, h)
      /\ k.stat[t] = "READY" => Linked(u, t, Ready(p))
      /\ Unlinked(k, t) => Unlinked(u, t)
  <2>1. KInv(k) /\ t # idle
    BY <1>0
  <2> QED BY <1>1, <2>1, ChangePriorityInv
<1>3. k' = u
  BY DEF rt_thread_change_priority
<1> HIDE DEF u
<1>4. u.prio[t] = p /\ \A s \in Thread \ {t} : u.prio[s] = k.prio[s]
  BY <1>0, <1>2 DEF KState
<1>5. \A s \in Thread \ {t} : Same(s)
  BY <1>2, <1>3, <1>4 DEF Same, Timed
<1>6. TypeOK' /\ KInv(k)'
  BY <1>0, <1>2, <1>3 DEF TypeOK, KInv
<1>7. op[c].on = c
  BY <1>0 DEF OpInv
<1>8. OpInv(c)'
  BY <1>0, <1>7 DEF OpInv
<1>9. k'.stat[t] = "READY" => Linked(k', t, Ready(k'.prio[t]))
  BY <1>2, <1>3, <1>4
<1>10. CurInv'
  <2>1. CASE t = c
    BY <1>0, <1>2, <1>3, <1>9, <2>1 DEF CurInv
  <2>2. CASE t # c
    <3>1. Same(c) /\ k.prio[c] \in Prio
      BY <1>0, <1>5, <2>2 DEF KState
    <3> QED BY <1>0, <1>2, <1>3, <3>1, HeadFacts DEF CurInv, Same
  <2> QED BY <2>1, <2>2
<1>11. \A d \in Thread : op[d].on # d => op[d].on # t
  BY ExclusiveFacts DEF rt_thread_change_priority
<1>12. \A s \in Thread : type'[s] = "none" => k'.stat[s] = "CLOSE"
  BY <1>0, <1>2, <1>3 DEF IInv
<1>13. k'.cur = c /\ k'.stat = k.stat /\ StaleBits(k') = {}
  BY <1>0, <1>2, <1>3
<1>g. GoodSwitch
  BY <1>0, <1>13 DEF GoodSwitch
<1> QED BY <1>g, <1>0, <1>5, <1>6, <1>8, <1>9, <1>10, <1>11, <1>12, <1>13, StepInv

\* The first steps of rt_thread_delete and rt_thread_detach.
LEMMA DeleteInv ==
  ASSUME IInv, NEW c \in Thread, c # idle, NEW t \in Thread, rt_thread_delete(c, t)
  PROVE  IInv' /\ GoodSwitch
<1> DEFINE u == RemoveReady(k, t)
<1>0. /\ c = k.cur /\ op[c].pc = "run" /\ OpInv(c) /\ KInv(k) /\ TypeOK /\ k \in KState
      /\ StaleBits(k) = {} /\ Linked(k, c, Ready(k.prio[c]))
      /\ MayOperateOn(c, t) /\ ~Timed(k, t) /\ type' = type
      /\ k.stat[t] \in {"INIT", "READY", "SUSPEND"}
  <2>1. At(c, "run") /\ MayOperateOn(c, t) /\ ~Timed(k, t) /\ type' = type /\ k.stat[t] # "CLOSE"
    BY DEF rt_thread_delete, DeleteAny, Untimed
  <2>2. k.stat[t] \in Stat
    BY DEF IInv, TypeOK, KState
  <2> QED BY <2>1, <2>2, AtFacts DEF Stat
<1>1. t # c /\ t # idle /\ op[c].on = c
  BY <1>0 DEF MayOperateOn, OpInv
<1>2. /\ op' \in [Thread -> [pc : PC, on : Thread]]
      /\ op'[c].on = t /\ op'[c].pc = "delete_timer"
      /\ \A d \in Thread \ {c} : op'[d] = op[d]
  BY <1>0, CallFacts DEF rt_thread_delete, DeleteAny, PC
<1>3. /\ KInv(k') /\ Unlinked(k', t) /\ StaleBits(k') = {}
      /\ k'.stat = k.stat /\ k'.prio = k.prio /\ k'.timers = k.timers
      /\ k'.cur = k.cur /\ k'.lock = k.lock
      /\ \A h \in ListHead : Range(k'.list[h]) = Range(k.list[h]) \ {t}
  <2>1. CASE k.stat[t] = "INIT"
    <3>1. k' = k
      BY <2>1 DEF rt_thread_delete, DeleteAny
    <3>2. Unlinked(k, t)
      BY <1>0, <2>1, InitUnlinked
    <3> QED BY <1>0, <3>1, <3>2 DEF Unlinked, Linked
  <2>2. CASE k.stat[t] # "INIT"
    <3>1. k' = u
      BY <2>2 DEF rt_thread_delete, DeleteAny
    <3>2. k.stat[t] \in {"READY", "SUSPEND"}
      BY <1>0, <2>2
    <3>3. KInv(u) /\ Unlinked(u, t) /\ StaleBits(u) \subseteq StaleBits(k)
      BY <1>0, <1>1, <3>2, RemoveReadyInv
    <3>4. /\ \A h \in ListHead : Range(u.list[h]) = Range(k.list[h]) \ {t}
          /\ u.stat = k.stat /\ u.prio = k.prio /\ u.timers = k.timers
          /\ u.cur = k.cur /\ u.lock = k.lock
      BY <1>0, RemoveReadyProps DEF KInv
    <3> HIDE DEF u
    <3> QED BY <1>0, <3>1, <3>3, <3>4
  <2> QED BY <2>1, <2>2
<1>4. \A s \in Thread \ {t} : Same(s)
  BY <1>3 DEF Same, Linked, Timed
<1>5. OpInv(c)'
  BY <1>0, <1>1, <1>2, <1>3 DEF OpInv, Holds, MayOperateOn, Timed
<1>6. \A d \in Thread : op[d].on # d => op[d].on # t
  BY <1>0, ExclusiveFacts DEF MayOperateOn
<1>7. HalfWay(c, t)'
  BY <1>2 DEF HalfWay
<1> QED BY <1>0, <1>1, <1>2, <1>3, <1>4, <1>5, <1>6, <1>7, ActOnInv

\* Their rt_timer_detach.
LEMMA DeleteTimerInv ==
  ASSUME IInv, NEW c \in Thread, DeleteTimer(c)
  PROVE  IInv' /\ GoodSwitch
<1> DEFINE t == op[c].on
           u == TimerDetach(k, t)
<1>0. /\ c = k.cur /\ op[c].pc = "delete_timer" /\ OpInv(c)
      /\ t \in Thread /\ KInv(k) /\ TypeOK /\ k \in KState
      /\ StaleBits(k) = {} /\ Linked(k, c, Ready(k.prio[c]))
  BY AtFacts DEF DeleteTimer
<1>1. t # c /\ t # idle /\ c # idle /\ k.stat[t] # "CLOSE"
  BY <1>0 DEF OpInv
<1>2. /\ KInv(u) /\ StaleBits(u) = StaleBits(k)
      /\ Range(u.timers) = Range(k.timers) \ {t}
      /\ u.stat = k.stat /\ u.prio = k.prio /\ u.list = k.list
      /\ u.cur = k.cur /\ u.lock = k.lock /\ u.isr = k.isr
  BY <1>0, TimerDetachInv
<1>3. k' = u /\ type' = type
  BY DEF DeleteTimer
<1>4. /\ op' \in [Thread -> [pc : PC, on : Thread]]
      /\ op'[c].on = t /\ op'[c].pc = "delete_close"
      /\ \A d \in Thread \ {c} : op'[d] = op[d]
  BY <1>0, GotoFacts DEF DeleteTimer, PC
<1> HIDE DEF u
<1>5. \A s \in Thread \ {t} : Same(s)
  BY <1>2, <1>3 DEF Same, Linked, Timed
<1>6. OpInv(c)'
  BY <1>0, <1>1, <1>2, <1>3, <1>4 DEF OpInv, Holds, Unlinked, Linked, Timed
<1>7. KInv(k') /\ k'.cur = k.cur /\ StaleBits(k') = {}
  BY <1>0, <1>2, <1>3
<1>8. \A d \in Thread \ {c} : op[d].on # d => op[d].on # t
  BY <1>1, TargetFacts
<1>9. HalfWay(c, t)'
  BY <1>4 DEF HalfWay
<1> QED BY <1>0, <1>1, <1>3, <1>4, <1>5, <1>6, <1>7, <1>8, <1>9, ActOnInv

\* The list of defunct threads takes a closed thread that is in no list.
LEMMA ToDefunctInv ==
  ASSUME NEW s, KInv(s), NEW t \in Thread, Unlinked(s, t), ~Timed(s, t), s.stat[t] = "CLOSE"
  PROVE  LET u == ToDefunct(s, t)
         IN  /\ KInv(u) /\ StaleBits(u) = StaleBits(s)
             /\ u.stat = s.stat /\ u.prio = s.prio /\ u.timers = s.timers
             /\ u.cur = s.cur /\ u.lock = s.lock
             /\ \A h \in ListHead : Range(u.list[h]) =
                  IF h = Defunct THEN Range(s.list[h]) \cup {t} ELSE Range(s.list[h])
<1> DEFINE q == <<t>> \o s.list[Defunct]
           u == ToDefunct(s, t)
<1>0. s \in KState /\ s.list[Defunct] \in Seq(Thread) /\ IsInjective(s.list[Defunct])
      /\ t \notin Range(s.list[Defunct]) /\ Defunct \in ListHead
  BY HeadFacts DEF KInv, KState, OneList, Unlinked, Linked
<1>1. q \in Seq(Thread) /\ IsInjective(q) /\ Range(q) = Range(s.list[Defunct]) \cup {t}
  <2>1. q = InsertAt(s.list[Defunct], 1, t)
    BY <1>0 DEF InsertAt
  <2>2. 1 \in 1 .. Len(s.list[Defunct]) + 1
    BY <1>0
  <2> HIDE DEF q
  <2> DEFINE r == InsertAt(s.list[Defunct], 1, t)
  <2>3. r \in Seq(Thread) /\ Range(r) = Range(s.list[Defunct]) \cup {t} /\ IsInjective(r)
    BY <1>0, <2>2, RangeInsertAt
  <2> HIDE DEF r
  <2> QED BY <2>1, <2>3 DEF r
<1>2. u = [s EXCEPT !.list[Defunct] = q]
  BY DEF ToDefunct
<1> HIDE DEF q
<1>3. /\ u \in KState /\ u.list = [s.list EXCEPT ![Defunct] = q]
      /\ u.stat = s.stat /\ u.prio = s.prio /\ u.mask = s.mask /\ u.group = s.group
      /\ u.timers = s.timers /\ u.act = s.act /\ u.cur = s.cur /\ u.lock = s.lock
  <2>1. s \in KState /\ q \in Seq(Thread) /\ Defunct \in ListHead
    BY <1>0, <1>1
  <2> HIDE DEF u
  <2> QED BY <1>2, <2>1 DEF KState
<1> HIDE DEF u
<1>4. \A h \in ListHead : u.list[h] = IF h = Defunct THEN q ELSE s.list[h]
  BY <1>0, <1>3 DEF KState
<1>5. \A h \in ListHead : Range(u.list[h]) =
        IF h = Defunct THEN Range(s.list[h]) \cup {t} ELSE Range(s.list[h])
  BY <1>1, <1>4
<1>6. OneList(u)
  <2>1. \A h \in ListHead : IsInjective(u.list[h])
    BY <1>1, <1>4 DEF KInv, OneList
  <2>2. \A h \in ListHead : t \notin Range(s.list[h])
    BY DEF Unlinked, Linked
  <2>3. \A g, h \in ListHead : g # h => Range(s.list[g]) \cap Range(s.list[h]) = {}
    BY DEF KInv, OneList
  <2>4. \A g, h \in ListHead : g # h => Range(u.list[g]) \cap Range(u.list[h]) = {}
    <3> SUFFICES ASSUME NEW g \in ListHead, NEW h \in ListHead, g # h,
                        NEW x \in Range(u.list[g]), x \in Range(u.list[h])
                 PROVE  FALSE
      OBVIOUS
    <3>1. /\ x \in Range(s.list[g]) \/ (g = Defunct /\ x = t)
          /\ x \in Range(s.list[h]) \/ (h = Defunct /\ x = t)
      BY <1>5
    <3> QED BY <2>2, <2>3, <3>1
  <2> QED BY <1>3, <2>1, <2>4 DEF KInv, OneList
<1>7. \A r \in Thread, h \in ListHead : Linked(u, r, h) => Linked(s, r, h) \/ (r = t /\ h = Defunct)
  BY <1>5 DEF Linked
<1>8. ListsAgree(u)
  BY <1>3, <1>7, HeadFacts DEF KInv, ListsAgree, Timed
<1>9. \A p \in Prio : u.list[Ready(p)] = s.list[Ready(p)]
  BY <1>4, HeadFacts
<1>10. BitsCover(u)
  <2>1. PrioMax - 1 \in Prio
    BY KernelAssumption DEF Prio
  <2> QED BY <1>3, <1>9, <2>1 DEF KInv, BitsCover, Linked
<1>11. StaleBits(u) = StaleBits(s)
  BY <1>0, <1>3, <1>9 DEF StaleBits, KState
<1> QED BY <1>3, <1>5, <1>6, <1>8, <1>10, <1>11 DEF KInv, u

\* SetStat(_, t, "CLOSE"), then rt_thread_defunct for the threads idle cleans up.
LEMMA CloseInv ==
  ASSUME NEW s, KInv(s), NEW t \in Thread, Unlinked(s, t), ~Timed(s, t),
         NEW u, u = SetStat(s, t, "CLOSE") \/ u = ToDefunct(SetStat(s, t, "CLOSE"), t)
  PROVE  /\ KInv(u) /\ StaleBits(u) = StaleBits(s)
         /\ u.stat = [s.stat EXCEPT ![t] = "CLOSE"]
         /\ u.prio = s.prio /\ u.timers = s.timers /\ u.cur = s.cur /\ u.lock = s.lock
         /\ \A r \in Thread \ {t}, h \in ListHead : Linked(u, r, h) <=> Linked(s, r, h)
<1> DEFINE v == SetStat(s, t, "CLOSE")
           w == ToDefunct(v, t)
<1>1. /\ KInv(v) /\ StaleBits(v) = StaleBits(s)
      /\ v.stat = [s.stat EXCEPT ![t] = "CLOSE"]
      /\ v.prio = s.prio /\ v.mask = s.mask /\ v.list = s.list /\ v.timers = s.timers
      /\ v.cur = s.cur /\ v.lock = s.lock /\ v.isr = s.isr
  <2>1. "CLOSE" \in Stat
    BY DEF Stat
  <2> QED BY <2>1, SetStatInv, Zenon
<1> HIDE DEF v
<1>2. v.stat[t] = "CLOSE" /\ Unlinked(v, t) /\ ~Timed(v, t)
  BY <1>1 DEF KInv, KState, Unlinked, Linked, Timed
<1>3. /\ KInv(w) /\ StaleBits(w) = StaleBits(v)
      /\ w.stat = v.stat /\ w.prio = v.prio /\ w.timers = v.timers
      /\ w.cur = v.cur /\ w.lock = v.lock
      /\ \A h \in ListHead : Range(w.list[h]) =
           IF h = Defunct THEN Range(v.list[h]) \cup {t} ELSE Range(v.list[h])
  BY <1>1, <1>2, ToDefunctInv
<1>4. u = v \/ u = w
  BY DEF v
<1> HIDE DEF w
<1>5. CASE u = v
  BY <1>1, <1>5 DEF Linked
<1>6. CASE u = w
  <2>1. \A r \in Thread \ {t}, h \in ListHead : Linked(w, r, h) <=> Linked(s, r, h)
    BY <1>1, <1>3 DEF Linked
  <2> QED BY <1>1, <1>3, <1>6, <2>1
<1> QED BY <1>4, <1>5, <1>6

\* Their last interrupt lock.
LEMMA DeleteCloseInv ==
  ASSUME IInv, NEW c \in Thread, DeleteClose(c)
  PROVE  IInv' /\ GoodSwitch
<1> DEFINE t == op[c].on
<1>0. /\ c = k.cur /\ op[c].pc = "delete_close" /\ OpInv(c)
      /\ t \in Thread /\ KInv(k) /\ TypeOK /\ k \in KState
      /\ StaleBits(k) = {} /\ Linked(k, c, Ready(k.prio[c])) /\ k.prio[c] \in Prio
  BY AtFacts DEF DeleteClose
<1>1. t # c /\ t # idle /\ c # idle /\ Unlinked(k, t) /\ ~Timed(k, t)
  BY <1>0 DEF OpInv
<1>2. /\ k' = SetStat(k, t, "CLOSE") \/ k' = ToDefunct(SetStat(k, t, "CLOSE"), t)
      /\ type' = IF t \in Static THEN [type EXCEPT ![t] = "none"] ELSE type
      /\ Call(c, "run", c)
  BY DEF DeleteClose
<1>3. /\ op' \in [Thread -> [pc : PC, on : Thread]]
      /\ op'[c].on = c /\ op'[c].pc = "run"
      /\ \A d \in Thread \ {c} : op'[d] = op[d]
  BY <1>0, <1>2, CallFacts DEF PC
<1>4. /\ type' \in [Thread -> {"none", "static", "dynamic"}]
      /\ \A s \in Thread \ {t} : type'[s] = type[s]
  BY <1>0, <1>2 DEF TypeOK
<1> HIDE DEF t
<1>5. /\ KInv(k') /\ StaleBits(k') = StaleBits(k)
      /\ k'.stat = [k.stat EXCEPT ![t] = "CLOSE"]
      /\ k'.prio = k.prio /\ k'.timers = k.timers /\ k'.cur = k.cur /\ k'.lock = k.lock
      /\ \A r \in Thread \ {t}, h \in ListHead : Linked(k', r, h) <=> Linked(k, r, h)
  BY <1>0, <1>1, <1>2, CloseInv, Zenon
<1>6. k'.stat[t] = "CLOSE" /\ \A s \in Thread \ {t} : k'.stat[s] = k.stat[s]
  BY <1>0, <1>5 DEF KState
<1>7. \A s \in Thread \ {t} : Same(s)
  BY <1>5, <1>6 DEF Same, Timed
<1>8. TypeOK' /\ KInv(k)'
  BY <1>3, <1>4, <1>5 DEF TypeOK, KInv
<1>9. OpInv(c)'
  BY <1>1, <1>3 DEF OpInv
<1>10. CurInv'
  BY <1>0, <1>1, <1>5, <1>7, HeadFacts DEF CurInv, Same
<1>11. \A d \in Thread \ {c} : op[d].on # d => op[d].on # t
  BY <1>1, TargetFacts DEF t
<1>12. \A s \in Thread : type'[s] = "none" => k'.stat[s] = "CLOSE"
  BY <1>4, <1>6 DEF IInv
<1>13. op[c].on = t /\ StaleBits(k') = {} /\ k'.cur = c
  BY <1>0, <1>5 DEF t
<1>g. GoodSwitch
  BY <1>0, <1>13 DEF GoodSwitch
<1> QED BY <1>g, <1>0, <1>1, <1>3, <1>6, <1>7, <1>8, <1>9, <1>10, <1>11, <1>12, <1>13, StepInv

\* rt_thread_exit, up to its rt_schedule.
LEMMA ExitInv ==
  ASSUME IInv, NEW c \in Thread, rt_thread_exit(c)
  PROVE  IInv' /\ GoodSwitch
<1> DEFINE r == RemoveReady(k, c)
           w == SetStat(r, c, "CLOSE")
           u == TimerDetach(w, c)
           z == ToDefunct(u, c)
<1>0. /\ c = k.cur /\ op[c].pc = "run" /\ OpInv(c) /\ KInv(k) /\ TypeOK /\ k \in KState
      /\ StaleBits(k) = {} /\ k.stat[c] = "READY" /\ c # idle /\ k.lock = 0
  BY AtFacts DEF rt_thread_exit
<1>1. /\ op' \in [Thread -> [pc : PC, on : Thread]]
      /\ op'[c].on = c /\ op'[c].pc = "exit_sched"
      /\ \A d \in Thread \ {c} : op'[d] = op[d]
  BY <1>0, CallFacts DEF rt_thread_exit, PC
<1>2. /\ type' \in [Thread -> {"none", "static", "dynamic"}]
      /\ \A s \in Thread \ {c} : type'[s] = type[s]
  <2>1. type' = type \/ type' = [type EXCEPT ![c] = "none"]
    BY DEF rt_thread_exit
  <2> QED BY <1>0, <2>1 DEF TypeOK
<1>3. k' = u \/ k' = z
  BY DEF rt_thread_exit
<1>4. KInv(r) /\ Unlinked(r, c) /\ StaleBits(r) = {}
  <2>1. KInv(k) /\ c # idle /\ k.stat[c] \in {"READY", "SUSPEND"}
    BY <1>0
  <2>2. KInv(r) /\ Unlinked(r, c) /\ StaleBits(r) \subseteq StaleBits(k)
    BY <2>1, RemoveReadyInv
  <2> QED BY <1>0, <2>2
<1>5. /\ \A h \in ListHead : Range(r.list[h]) = Range(k.list[h]) \ {c}
      /\ r.stat = k.stat /\ r.prio = k.prio /\ r.timers = k.timers
      /\ r.cur = k.cur /\ r.lock = k.lock
  <2>1. k \in KState /\ OneList(k)
    BY <1>0 DEF KInv
  <2> QED BY <2>1, RemoveReadyProps
<1>6. ~Timed(k, c)
  BY <1>0 DEF KInv, ListsAgree
<1> HIDE DEF r
<1>7. ~Timed(r, c)
  BY <1>5, <1>6 DEF Timed
<1>8. /\ KInv(w) /\ StaleBits(w) = StaleBits(r)
      /\ w.stat = [r.stat EXCEPT ![c] = "CLOSE"]
      /\ w.prio = r.prio /\ w.mask = r.mask /\ w.list = r.list /\ w.timers = r.timers
      /\ w.cur = r.cur /\ w.lock = r.lock /\ w.isr = r.isr
  <2>1. "CLOSE" \in Stat
    BY DEF Stat
  <2> QED BY <1>4, <1>7, <2>1, SetStatInv, Zenon
<1> HIDE DEF w
<1>9. /\ KInv(u) /\ StaleBits(u) = StaleBits(w)
      /\ Range(u.timers) = Range(w.timers) \ {c}
      /\ u.stat = w.stat /\ u.prio = w.prio /\ u.list = w.list
      /\ u.cur = w.cur /\ u.lock = w.lock /\ u.isr = w.isr
  BY <1>8, TimerDetachInv
<1> HIDE DEF u
<1>10. /\ u.stat[c] = "CLOSE" /\ Unlinked(u, c) /\ ~Timed(u, c)
       /\ \A s \in Thread \ {c} : u.stat[s] = k.stat[s]
  <2>1. u.stat = [k.stat EXCEPT ![c] = "CLOSE"]
    BY <1>5, <1>8, <1>9
  <2>2. u.stat[c] = "CLOSE" /\ \A s \in Thread \ {c} : u.stat[s] = k.stat[s]
    BY <1>0, <2>1 DEF KState
  <2> QED BY <1>4, <1>8, <1>9, <2>2 DEF Unlinked, Linked, Timed
<1>11. /\ KInv(z) /\ StaleBits(z) = StaleBits(u)
       /\ z.stat = u.stat /\ z.prio = u.prio /\ z.timers = u.timers
       /\ z.cur = u.cur /\ z.lock = u.lock
       /\ \A h \in ListHead : Range(z.list[h]) =
            IF h = Defunct THEN Range(u.list[h]) \cup {c} ELSE Range(u.list[h])
  BY <1>9, <1>10, ToDefunctInv
<1> HIDE DEF z
<1>12. /\ KInv(k') /\ StaleBits(k') = {} /\ k'.stat = u.stat /\ k'.prio = k.prio
       /\ Range(k'.timers) = Range(k.timers) \ {c}
       /\ k'.cur = k.cur /\ k'.lock = k.lock
       /\ \A s \in Thread \ {c}, h \in ListHead : Linked(k', s, h) <=> Linked(k, s, h)
  <2>1. \A s \in Thread \ {c}, h \in ListHead : Linked(u, s, h) <=> Linked(k, s, h)
    BY <1>5, <1>8, <1>9 DEF Linked
  <2>2. CASE k' = u
    BY <1>4, <1>5, <1>8, <1>9, <2>1, <2>2
  <2>3. CASE k' = z
    <3>1. \A s \in Thread \ {c}, h \in ListHead : Linked(z, s, h) <=> Linked(u, s, h)
      BY <1>11 DEF Linked
    <3> QED BY <1>4, <1>5, <1>8, <1>9, <1>11, <2>1, <2>3, <3>1
  <2> QED BY <1>3, <2>2, <2>3
<1>13. \A s \in Thread \ {c} : Same(s)
  BY <1>10, <1>12 DEF Same, Timed
<1>14. TypeOK' /\ KInv(k)'
  BY <1>1, <1>2, <1>12 DEF TypeOK, KInv
<1>15. k'.stat[c] = "CLOSE" /\ k'.cur = c /\ k'.lock = 0
  BY <1>0, <1>10, <1>12
<1>16. OpInv(c)' /\ CurInv'
  BY <1>0, <1>1, <1>15 DEF OpInv, CurInv
<1>17. \A d \in Thread \ {c} : op[d].on # d => op[d].on # c
  BY <1>0 DEF IInv, OpInv
<1>18. \A s \in Thread : type'[s] = "none" => k'.stat[s] = "CLOSE"
  BY <1>2, <1>10, <1>12 DEF IInv
<1>19. op[c].on = c
  BY <1>0 DEF OpInv
<1>g. GoodSwitch
  BY <1>0, <1>15 DEF GoodSwitch
<1> QED BY <1>g, <1>0, <1>1, <1>12, <1>13, <1>14, <1>15, <1>16, <1>17, <1>18, <1>19, StepInv

\* A step that changes no thread but may hand the processor to another one.
LEMMA SwitchInv ==
  ASSUME IInv, NEW c \in Thread, c = k.cur, KInv(k'), type' = type,
         op' \in [Thread -> [pc : PC, on : Thread]],
         \A d \in Thread \ {c} : op'[d] = op[d],
         \A s \in Thread : Same(s),
         StaleBits(k') \subseteq StaleBits(k),
         k'.cur # c => k.lock = 0,
         GoodSwitch, CurInv', OpInv(c)',
         \/ op'[c] = op[c] /\ k'.lock = k.lock
         \/ op[c].on = c /\ op'[c].on = c /\ op[c].pc # "resume_insert"
  PROVE  IInv' /\ GoodSwitch
<1>1. TypeOK' /\ KInv(k)'
  BY DEF IInv, TypeOK, KInv
<1>2. \A d \in Thread \ {c} : op[d].on # d => op[d].on # c
  BY DEF IInv, OpInv
<1>3. \A s \in Thread : type'[s] = "none" => k'.stat[s] = "CLOSE"
  BY DEF IInv, Same
<1>4. k'.stat[c] = "READY" => Linked(k', c, Ready(k'.prio[c])) \/ HalfWay(c, c)'
  <2>1. Same(c) /\ k.prio[c] \in Prio
    BY DEF IInv, TypeOK, KState
  <2>2. ~HalfWay(c, c)
    BY DEF HalfWay, IInv, OpInv
  <2> QED BY <2>1, <2>2, CurrentFacts, HeadFacts DEF Same
<1>5. \A p \in StaleBits(k') :
        op'[c].pc = "resume_insert" /\ Holds(c)' /\ k'.prio[op'[c].on] = p
  <2> SUFFICES ASSUME NEW p \in StaleBits(k')
               PROVE  op'[c].pc = "resume_insert" /\ Holds(c)' /\ k'.prio[op'[c].on] = p
    OBVIOUS
  <2>1. op[c].pc = "resume_insert" /\ Holds(c) /\ k.prio[op[c].on] = p /\ op[c].on \in Thread
    BY CurrentFacts
  <2>2. op'[c] = op[c] /\ k'.lock = k.lock /\ k'.cur = c
    BY <2>1, CurrentFacts DEF Holds
  <2> QED BY <2>1, <2>2 DEF Holds, Same
<1>6. k.stat[c] = "CLOSE" => k'.stat[c] = "CLOSE"
  BY DEF Same
<1> QED BY <1>1, <1>2, <1>3, <1>4, <1>5, <1>6, StepInv

\* rt_schedule at the end of an operation.
LEMMA ScheduleStepInv ==
  ASSUME IInv, NEW c \in Thread, rt_schedule(c) \/ SleepSchedule(c) \/ ExitSchedule(c)
  PROVE  IInv' /\ GoodSwitch
<1> DEFINE u == Schedule(k)
<1>0. /\ c = k.cur /\ op[c].pc \in {"sched", "sleep_sched", "exit_sched"} /\ OpInv(c)
      /\ KInv(k) /\ TypeOK /\ k \in KState /\ StaleBits(k) = {} /\ k' = u /\ type' = type
  <2>1. CASE rt_schedule(c)
    BY <2>1, AtFacts DEF rt_schedule
  <2>2. CASE SleepSchedule(c)
    BY <2>2, AtFacts DEF SleepSchedule
  <2>3. CASE ExitSchedule(c)
    BY <2>3, AtFacts DEF ExitSchedule
  <2> QED BY <2>1, <2>2, <2>3
<1>1. /\ op' \in [Thread -> [pc : PC, on : Thread]]
      /\ op'[c].on = op[c].on /\ op'[c].pc \in {"run", "sleep_return", "dead"}
      /\ op'[c].pc = "dead" => op[c].pc = "exit_sched"
      /\ \A d \in Thread \ {c} : op'[d] = op[d]
  <2>1. CASE rt_schedule(c)
    BY <1>0, <2>1, GotoFacts DEF rt_schedule, PC
  <2>2. CASE SleepSchedule(c)
    BY <1>0, <2>2, GotoFacts DEF SleepSchedule, PC
  <2>3. CASE ExitSchedule(c)
    BY <1>0, <2>3, GotoFacts DEF ExitSchedule, At, PC
  <2> QED BY <2>1, <2>2, <2>3
<1>2. op[c].on = c /\ c # idle /\ (op[c].pc = "exit_sched" => k.stat[c] = "CLOSE")
  BY <1>0 DEF OpInv
<1>3. /\ KInv(u) /\ StaleBits(u) = StaleBits(k)
      /\ u.stat = k.stat /\ u.prio = k.prio /\ u.list = k.list
      /\ u.timers = k.timers /\ u.lock = k.lock /\ u.isr = k.isr
      /\ k.lock # 0 => u.cur = k.cur
      /\ k.lock = 0 => /\ Linked(u, u.cur, Ready(u.prio[u.cur]))
                       /\ \A t \in Thread : InReady(u, t) => u.prio[u.cur] <= u.prio[t]
  BY <1>0, ScheduleInv
<1> HIDE DEF u
<1>4. \A s \in Thread : Same(s)
  BY <1>0, <1>3 DEF Same, Linked, Timed
<1>5. CurInv'
  <2>1. CASE k.lock = 0
    BY <1>0, <1>3, <2>1 DEF CurInv
  <2>2. CASE k.lock # 0
    <3>1. Linked(k, k.cur, Ready(k.prio[k.cur]))
      BY <2>2 DEF IInv, CurInv
    <3> QED BY <1>0, <1>3, <2>2, <3>1 DEF CurInv, Linked
  <2> QED BY <2>1, <2>2
<1>6. OpInv(c)'
  BY <1>0, <1>1, <1>2, <1>3 DEF OpInv
<1>7. /\ KInv(k') /\ StaleBits(k') \subseteq StaleBits(k)
      /\ k'.cur # c => k.lock = 0 /\ Linked(k', k'.cur, Ready(k'.prio[k'.cur]))
  BY <1>0, <1>3
<1>8. op'[c].on = c /\ op[c].pc # "resume_insert"
  BY <1>0, <1>1, <1>2
<1>g. GoodSwitch
  BY <1>0, <1>3 DEF GoodSwitch
<1> QED BY <1>g, <1>0, <1>1, <1>2, <1>4, <1>5, <1>6, <1>7, <1>8, SwitchInv

\* rt_thread_yield up to its rt_schedule.
LEMMA YieldStepInv ==
  ASSUME IInv, NEW c \in Thread, c # idle, rt_thread_yield(c)
  PROVE  IInv' /\ GoodSwitch
<1>0. /\ c = k.cur /\ op[c].pc = "run" /\ OpInv(c) /\ KInv(k) /\ TypeOK /\ op[c].on = c
      /\ Linked(k, c, Ready(k.prio[c])) /\ k.prio[c] \in Prio /\ k \in KState /\ type' = type
  BY AtFacts DEF rt_thread_yield, OpInv
<1>1. /\ KInv(k') /\ StaleBits(k') = StaleBits(k)
      /\ k'.stat = k.stat /\ k'.prio = k.prio /\ k'.timers = k.timers
      /\ k'.lock = k.lock /\ k'.isr = k.isr /\ k'.cur = k.cur
      /\ \A h \in ListHead : Range(k'.list[h]) = Range(k.list[h])
  <2>1. CASE Shares(k)
    <3>1. k' = Rotate(k)
      BY <2>1 DEF rt_thread_yield
    <3> QED BY <1>0, <2>1, <3>1, RotateInv
  <2>2. CASE ~Shares(k)
    <3>1. k' = k
      BY <2>2 DEF rt_thread_yield
    <3> QED BY <1>0, <3>1
  <2> QED BY <2>1, <2>2
<1>2. /\ op' \in [Thread -> [pc : PC, on : Thread]]
      /\ op'[c].on = c /\ op'[c].pc \in {"run", "sched"}
      /\ \A d \in Thread \ {c} : op'[d] = op[d]
  <2>1. CASE op' = op
    BY <1>0, <2>1 DEF TypeOK
  <2>2. CASE Call(c, "sched", c)
    BY <1>0, <2>2, CallFacts DEF PC
  <2> QED BY <2>1, <2>2 DEF rt_thread_yield
<1>3. \A s \in Thread : Same(s)
  BY <1>1 DEF Same, Linked, Timed
<1>4. CurInv'
  <2>1. Ready(k.prio[c]) \in ListHead
    BY <1>0, HeadFacts
  <2>2. Linked(k', c, Ready(k'.prio[c]))
    BY <1>0, <1>1, <2>1 DEF Linked
  <2> QED BY <1>0, <1>1, <2>2 DEF CurInv
<1>5. OpInv(c)'
  BY <1>0, <1>2 DEF OpInv
<1>g. GoodSwitch
  BY <1>1 DEF GoodSwitch
<1> QED BY <1>g, <1>0, <1>1, <1>2, <1>3, <1>4, <1>5, SwitchInv

\* The end of rt_thread_sleep.
LEMMA SleepReturnInv ==
  ASSUME IInv, NEW c \in Thread, SleepReturn(c)
  PROVE  IInv' /\ GoodSwitch
<1> DEFINE u == [k EXCEPT !.err[c] = IF @ = "ETIMEOUT" THEN "EOK" ELSE @]
<1>0. /\ c = k.cur /\ op[c].pc = "sleep_return" /\ OpInv(c) /\ KInv(k) /\ TypeOK
      /\ Linked(k, c, Ready(k.prio[c])) /\ k \in KState
  BY AtFacts DEF SleepReturn
<1>1. k' = u /\ type' = type
  BY DEF SleepReturn
<1>2. /\ op' \in [Thread -> [pc : PC, on : Thread]]
      /\ op'[c].on = op[c].on /\ op'[c].pc = "run"
      /\ \A d \in Thread \ {c} : op'[d] = op[d]
  BY <1>0, GotoFacts DEF SleepReturn, PC
<1>3. op[c].on = c /\ c # idle
  BY <1>0 DEF OpInv
<1>4. /\ u.stat = k.stat /\ u.prio = k.prio /\ u.mask = k.mask /\ u.list = k.list
      /\ u.group = k.group /\ u.timers = k.timers /\ u.act = k.act
      /\ u.cur = k.cur /\ u.lock = k.lock
  BY <1>0 DEF KState
<1>5. u \in KState
  BY <1>0 DEF KState, Err
<1> HIDE DEF u
<1>6. KInv(u) /\ StaleBits(u) = StaleBits(k)
  BY <1>0, <1>4, <1>5, KInvFrame
<1>7. \A s \in Thread : Same(s)
  BY <1>1, <1>4 DEF Same, Linked, Timed
<1>8. OpInv(c)' /\ CurInv'
  BY <1>0, <1>1, <1>2, <1>3, <1>4 DEF OpInv, CurInv, Linked
<1>9. KInv(k') /\ StaleBits(k') \subseteq StaleBits(k) /\ k'.cur = c
  BY <1>0, <1>1, <1>4, <1>6
<1>g. GoodSwitch
  BY <1>0, <1>9 DEF GoodSwitch
<1> QED BY <1>g, <1>0, <1>1, <1>2, <1>3, <1>7, <1>8, <1>9, SwitchInv

\* rt_enter_critical and rt_exit_critical.
LEMMA CriticalInv ==
  ASSUME IInv, NEW c \in Thread, c # idle, rt_enter_critical(c) \/ rt_exit_critical(c)
  PROVE  IInv' /\ GoodSwitch
<1>0. /\ c = k.cur /\ op[c].pc = "run" /\ OpInv(c) /\ KInv(k) /\ TypeOK
      /\ Linked(k, c, Ready(k.prio[c])) /\ k \in KState /\ type' = type /\ op[c].on = c
  BY AtFacts DEF rt_enter_critical, rt_exit_critical, OpInv
<1>1. PICK n \in Nat : k' = [k EXCEPT !.lock = n]
  <2>1. k.lock \in Nat
    BY <1>0 DEF KState
  <2>2. CASE rt_enter_critical(c)
    BY <2>1, <2>2 DEF rt_enter_critical, EnterCritical
  <2>3. CASE rt_exit_critical(c)
    <3>1. k' = [k EXCEPT !.lock = IF k.lock <= 1 THEN 0 ELSE k.lock - 1]
      BY <2>3 DEF rt_exit_critical, ExitCritical
    <3>2. (IF k.lock <= 1 THEN 0 ELSE k.lock - 1) \in Nat
      BY <2>1
    <3> QED BY <3>1, <3>2
  <2> QED BY <2>2, <2>3
<1>2. /\ op' \in [Thread -> [pc : PC, on : Thread]]
      /\ op'[c].on = c /\ op'[c].pc \in {"run", "sched"}
      /\ \A d \in Thread \ {c} : op'[d] = op[d]
  <2>1. CASE op' = op
    BY <1>0, <2>1 DEF TypeOK
  <2>2. CASE Call(c, "sched", c)
    BY <1>0, <2>2, CallFacts DEF PC
  <2> QED BY <2>1, <2>2 DEF rt_enter_critical, rt_exit_critical
<1>3. /\ k'.stat = k.stat /\ k'.prio = k.prio /\ k'.mask = k.mask /\ k'.list = k.list
      /\ k'.group = k.group /\ k'.timers = k.timers /\ k'.act = k.act /\ k'.cur = k.cur
      /\ k' \in KState
  BY <1>0, <1>1 DEF KState
<1>4. KInv(k') /\ StaleBits(k') = StaleBits(k)
  BY <1>0, <1>3, KInvFrame
<1>5. \A s \in Thread : Same(s)
  BY <1>3 DEF Same, Linked, Timed
<1>6. OpInv(c)' /\ CurInv'
  BY <1>0, <1>2, <1>3 DEF OpInv, CurInv, Linked
<1>g. GoodSwitch
  BY <1>3 DEF GoodSwitch
<1> QED BY <1>g, <1>0, <1>2, <1>3, <1>4, <1>5, <1>6, SwitchInv

\* Without the scheduler lock the target of an operation is in no ready queue.
LEMMA TargetNotReady ==
  ASSUME IInv, NEW d \in Thread, op[d].on # d, ~Holds(d)
  PROVE  \A p \in Prio : ~Linked(k, op[d].on, Ready(p))
<1>1. OpInv(d) /\ op[d].pc \in PC /\ op[d].on \in Thread
  BY DEF IInv, TypeOK
<1> SUFFICES ASSUME NEW p \in Prio, Linked(k, op[d].on, Ready(p)) PROVE FALSE
  OBVIOUS
<1>2. k.stat[op[d].on] = "READY"
  BY <1>1 DEF IInv, KInv, ListsAgree
<1> QED BY <1>1, <1>2 DEF OpInv, PC

\* The operation of the interrupted thread, when its target is left alone.
LEMMA InterruptedOp ==
  ASSUME IInv, NEW c \in Thread, c = k.cur, op' = op,
         op[c].on # c, Same(op[c].on), k'.lock = k.lock, k'.cur \in Thread,
         k'.prio[k'.cur] \in Prio,
         k'.cur # c => k.lock = 0 /\ Linked(k', k'.cur, Ready(k'.prio[k'.cur]))
  PROVE  OpInv(c)'
<1> DEFINE t == op[c].on
<1>1. OpInv(c) /\ op[c].pc \in PC /\ t \in Thread
  BY DEF IInv, TypeOK
<1>2. k'.stat[t] = k.stat[t] /\ (Timed(k', t) <=> Timed(k, t))
      /\ (Unlinked(k', t) <=> Unlinked(k, t))
  BY DEF Same, Unlinked
<1>3. Holds(c) => Holds(c)'
  BY CurrentFacts DEF Holds
<1>4. t # k'.cur
  <2>1. CASE k'.cur = c
    BY <2>1
  <2>2. CASE k'.cur # c
    <3>1. ~Holds(c)
      BY <2>2, CurrentFacts DEF Holds
    <3>2. ~Linked(k, t, Ready(k'.prio[k'.cur]))
      BY <3>1, TargetNotReady
    <3>3. ~Linked(k', t, Ready(k'.prio[k'.cur]))
      BY <3>2, HeadFacts DEF Same
    <3> QED BY <2>2, <3>3
  <2> QED BY <2>1, <2>2
<1> HIDE DEF t
<1> QED BY <1>1, <1>2, <1>3, <1>4 DEF OpInv, PC, t

\* The tick interrupt, up to rt_timer_check.
LEMMA TickStepInv ==
  ASSUME IInv, rt_tick_increase
  PROVE  IInv' /\ GoodSwitch
<1> DEFINE u == TickIncrease(k)
<1>c. PICK c \in Thread : c = k.cur
  BY CurrentFacts
<1>0. /\ KInv(k) /\ TypeOK /\ op' = op /\ type' = type /\ k' = u
      /\ k.prio[c] \in Prio /\ OpInv(c)
  BY <1>c, CurrentFacts DEF IInv, TypeOK, KState, rt_tick_increase
<1>1. /\ k.lock = 0 => StaleBits(k) = {}
      /\ k.stat[k.cur] = "READY" => Linked(k, k.cur, Ready(k.prio[k.cur]))
  BY CurrentFacts DEF IInv, CurInv, Holds
<1>2. /\ KInv(u) /\ StaleBits(u) = StaleBits(k)
      /\ u.stat = k.stat /\ u.prio = k.prio /\ u.timers = k.timers
      /\ u.lock = k.lock
      /\ \A h \in ListHead : Range(u.list[h]) = Range(k.list[h])
      /\ u.cur # k.cur =>
           /\ k.lock = 0
           /\ Linked(u, u.cur, Ready(u.prio[u.cur]))
           /\ \A s \in Thread : InReady(u, s) => u.prio[u.cur] <= u.prio[s]
  BY <1>0, <1>1, TickIncreaseInv
<1> HIDE DEF u
<1>3. \A s \in Thread : Same(s)
  BY <1>0, <1>2 DEF Same, Linked, Timed
<1>4. /\ KInv(k') /\ StaleBits(k') \subseteq StaleBits(k) /\ k'.lock = k.lock
      /\ k'.cur # c => k.lock = 0 /\ Linked(k', k'.cur, Ready(k'.prio[k'.cur]))
      /\ k'.cur \in Thread /\ k'.prio[k'.cur] \in Prio
  BY <1>0, <1>c, <1>2 DEF KInv, KState
<1>5. CurInv'
  <2>1. CASE k'.cur # c
    BY <1>4, <2>1 DEF CurInv
  <2>2. CASE k'.cur = c
    <3>1. Same(c)
      BY <1>0, <1>3
    <3> QED BY <1>0, <1>c, <1>2, <1>4, <2>2, <3>1, HeadFacts DEF CurInv, IInv, Same
  <2> QED BY <2>1, <2>2
<1>6. OpInv(c)'
  <2>1. CASE op[c].on = c
    BY <1>0, <1>2, <2>1 DEF OpInv, IInv, TypeOK, PC
  <2>2. CASE op[c].on # c
    <3>1. op[c].on \in Thread
      BY <1>0 DEF TypeOK
    <3>2. Same(op[c].on)
      BY <1>3, <3>1
    <3> QED BY <1>0, <1>c, <1>4, <2>2, <3>2, InterruptedOp
  <2> QED BY <2>1, <2>2
<1>7. op' \in [Thread -> [pc : PC, on : Thread]]
  BY <1>0 DEF TypeOK
<1>g. GoodSwitch
  BY <1>0, <1>2 DEF GoodSwitch
<1> QED BY <1>g, <1>0, <1>c, <1>3, <1>4, <1>5, <1>6, <1>7, SwitchInv

\* One round of the loop of rt_timer_check, and its end.
LEMMA TimerStepInv ==
  ASSUME IInv, rt_timer_check
  PROVE  IInv' /\ GoodSwitch
<1> DEFINE t == Head(k.timers)
           u == TimerFire(k)
<1>c. PICK c \in Thread : c = k.cur
  BY CurrentFacts
<1>0. /\ c = k.cur /\ KInv(k) /\ TypeOK /\ op' = op /\ type' = type
      /\ k.prio[c] \in Prio /\ OpInv(c) /\ op[c].on \in Thread /\ k \in KState
      /\ op' \in [Thread -> [pc : PC, on : Thread]]
  BY <1>c, CurrentFacts DEF IInv, TypeOK, KState, rt_timer_check
<1>1. CASE ~Expired(k)
  <2>1. k' = [k EXCEPT !.isr = FALSE]
    BY <1>1 DEF rt_timer_check, TimerCheck
  <2>2. /\ k'.stat = k.stat /\ k'.prio = k.prio /\ k'.mask = k.mask /\ k'.list = k.list
        /\ k'.group = k.group /\ k'.timers = k.timers /\ k'.act = k.act /\ k'.cur = k.cur
        /\ k'.lock = k.lock /\ k' \in KState
    BY <1>0, <2>1 DEF KState
  <2>3. KInv(k') /\ StaleBits(k') = StaleBits(k)
    BY <1>0, <2>2, KInvFrame
  <2>4. \A s \in Thread : Same(s)
    BY <2>2 DEF Same, Linked, Timed
  <2>5. OpInv(c)'
    BY <1>0, <2>2 DEF OpInv, Holds, Unlinked, Linked, Timed
  <2>6. CurInv'
    BY <1>0, <2>2 DEF IInv, CurInv, Linked
  <2>g. GoodSwitch
    BY <2>2 DEF GoodSwitch
  <2> QED BY <2>g, <1>0, <2>2, <2>3, <2>4, <2>5, <2>6, SwitchInv
<1>2. CASE Expired(k)
  <2>1. k' = u /\ k.timers # <<>>
    BY <1>2 DEF rt_timer_check, TimerCheck, Expired
  <2>2. k.lock = 0 => StaleBits(k) = {}
    BY CurrentFacts DEF Holds
  <2>3. /\ t \in Thread /\ t # idle /\ Timed(k, t)
        /\ KInv(u) /\ StaleBits(u) \subseteq StaleBits(k)
        /\ u.stat = [k.stat EXCEPT ![t] = "READY"] /\ u.prio = k.prio
        /\ Range(u.timers) = Range(k.timers) \ {t}
        /\ u.lock = k.lock /\ u.isr = k.isr
        /\ Linked(u, t, Ready(u.prio[t]))
        /\ \A s \in Thread \ {t}, h \in ListHead : Linked(u, s, h) <=> Linked(k, s, h)
        /\ k.lock # 0 => u.cur = k.cur
        /\ k.lock = 0 => /\ Linked(u, u.cur, Ready(u.prio[u.cur]))
                         /\ \A s \in Thread : InReady(u, s) => u.prio[u.cur] <= u.prio[s]
    BY <1>0, <2>1, <2>2, TimerFireInv
  <2> HIDE DEF u, t
  <2>4. /\ KInv(k') /\ StaleBits(k') \subseteq StaleBits(k) /\ k'.prio = k.prio
        /\ k'.lock = k.lock /\ Linked(k', t, Ready(k'.prio[t])) /\ ~Timed(k', t)
        /\ k'.cur \in Thread /\ k'.prio[k'.cur] \in Prio
        /\ k.lock # 0 => k'.cur = c
        /\ k.lock = 0 => Linked(k', k'.cur, Ready(k'.prio[k'.cur]))
    BY <1>0, <2>1, <2>3 DEF KInv, KState, Timed
  <2>5. k'.stat[t] = "READY" /\ k.stat[t] = "SUSPEND"
        /\ \A s \in Thread \ {t} : k'.stat[s] = k.stat[s]
    BY <1>0, <2>1, <2>3 DEF KState, KInv, ListsAgree
  <2>6. \A s \in Thread \ {t} : Same(s)
    BY <2>1, <2>3, <2>5 DEF Same, Timed
  <2>7. ASSUME NEW d \in Thread, op[d].on = t, d # t
        PROVE  op[d].pc = "resume_unlink" /\ Holds(d)
    <3>1. OpInv(d) /\ op[d].pc \in PC
      BY <1>0 DEF IInv, TypeOK
    <3> QED BY <2>3, <2>5, <2>7, <3>1 DEF OpInv, PC
  <2>8. \A d \in Thread \ {c} : op[d].on # d => op[d].on # t
    BY <1>0, <2>7 DEF Holds
  <2>9. OpInv(c)'
    <3>1. CASE op[c].on = c
      BY <1>0, <2>5, <3>1 DEF OpInv, TypeOK, PC
    <3>2. CASE op[c].on # c /\ op[c].on # t
      BY <1>0, <2>4, <2>6, <3>2, InterruptedOp
    <3>3. CASE op[c].on # c /\ op[c].on = t
      <4>1. op[c].pc = "resume_unlink" /\ k.lock > 0
        BY <1>0, <2>7, <3>3 DEF Holds
      <4>2. k'.cur = c
        BY <4>1, <2>4, CurrentFacts
      <4> QED BY <1>0, <2>3, <2>4, <2>5, <3>3, <4>1, <4>2 DEF OpInv, Holds
    <3> QED BY <3>1, <3>2, <3>3
  <2>10. CurInv'
    <3>1. CASE k.lock = 0
      BY <2>4, <3>1 DEF CurInv
    <3>2. CASE k.lock # 0
      <4>1. Linked(k, c, Ready(k.prio[c])) /\ k'.cur = c
        BY <1>0, <2>4, <3>2 DEF IInv, CurInv
      <4>2. c = t \/ Same(c)
        BY <1>0, <2>6
      <4> QED BY <1>0, <2>4, <4>1, <4>2, HeadFacts DEF CurInv, Same
    <3> QED BY <3>1, <3>2
  <2>11. \A s \in Thread : type'[s] = "none" => k'.stat[s] = "CLOSE"
    BY <1>0, <2>5, <2>6 DEF IInv, Same
  <2>12. \A p \in StaleBits(k') :
           op'[c].pc = "resume_insert" /\ Holds(c)' /\ k'.prio[op'[c].on] = p
    <3> SUFFICES ASSUME NEW p \in StaleBits(k')
                 PROVE  op'[c].pc = "resume_insert" /\ Holds(c)' /\ k'.prio[op'[c].on] = p
      OBVIOUS
    <3>1. op[c].pc = "resume_insert" /\ Holds(c) /\ k.prio[op[c].on] = p
      BY <1>0, <2>4, CurrentFacts
    <3> QED BY <1>0, <2>4, <3>1, CurrentFacts DEF Holds
  <2>13. TypeOK' /\ KInv(k)'
    BY <1>0, <2>4 DEF TypeOK, KInv
  <2>14. k'.cur # c => Linked(k', k'.cur, Ready(k'.prio[k'.cur]))
    BY <2>4
  <2>g. GoodSwitch
    BY <1>0, <2>1, <2>3 DEF GoodSwitch
  <2> QED BY <2>g, <1>0, <2>3, <2>4, <2>5, <2>6, <2>8, <2>9, <2>10, <2>11, <2>12, <2>13, <2>14,
             StepInv
<1> QED BY <1>1, <1>2

\* The idle thread takes a dead thread from the list.
LEMMA IdleReapInv ==
  ASSUME IInv, IdleReap
  PROVE  IInv' /\ GoodSwitch
<1> DEFINE q == k.list[Defunct]
<1>t. PICK t : t = Head(q)
  OBVIOUS
<1> DEFINE v == Unlink(k, t)
           u == Schedule(v)
<1>0. /\ idle = k.cur /\ op[idle].pc = "run" /\ OpInv(idle) /\ KInv(k) /\ TypeOK /\ k \in KState
      /\ StaleBits(k) = {} /\ idle \in Thread /\ k.lock = 0 /\ q # <<>> /\ k' = u
      /\ op[idle].on = idle
  BY <1>t, AtFacts, KernelAssumption DEF IdleReap, OpInv
<1>1. /\ q \in Seq(Thread) /\ IsInjective(q)
  BY <1>0, HeadFacts DEF KInv, KState, OneList
<1>2. t \in Thread /\ t \in Range(q)
  BY <1>0, <1>1, <1>t, RangeHeadTail
<1>3. k.stat[t] = "CLOSE" /\ t # idle /\ Linked(k, t, Defunct)
  BY <1>0, <1>2, IdleReady DEF KInv, ListsAgree, Linked
<1> HIDE DEF q
<1>4. KInv(v) /\ Unlinked(v, t)
  BY <1>0, <1>2, <1>3, UnlinkInv
<1>5. /\ \A h \in ListHead : Range(v.list[h]) = Range(k.list[h]) \ {t}
      /\ v.stat = k.stat /\ v.prio = k.prio /\ v.timers = k.timers
      /\ v.cur = k.cur /\ v.lock = k.lock
  BY <1>0, <1>2, UnlinkProps, UnlinkFrame DEF KInv
<1>6. StaleBits(v) = {}
  <2>1. \A p \in StaleBits(v) : p \in StaleBits(k) \/ Linked(k, t, Ready(p))
    BY <1>0, <1>2, UnlinkStale DEF KInv
  <2>2. \A p \in StaleBits(v) : p \in Prio
    BY <1>4 DEF StaleBits, KInv, KState
  <2> QED BY <1>0, <1>2, <1>3, <2>1, <2>2 DEF KInv, ListsAgree
<1> HIDE DEF v
<1>7. /\ KInv(u) /\ StaleBits(u) = StaleBits(v)
      /\ u.stat = v.stat /\ u.prio = v.prio /\ u.list = v.list
      /\ u.timers = v.timers /\ u.lock = v.lock /\ u.isr = v.isr
      /\ v.lock # 0 => u.cur = v.cur
      /\ v.lock = 0 => /\ Linked(u, u.cur, Ready(u.prio[u.cur]))
                       /\ \A s \in Thread : InReady(u, s) => u.prio[u.cur] <= u.prio[s]
  BY <1>4, <1>6, ScheduleInv
<1> HIDE DEF u
<1>8. /\ KInv(k') /\ StaleBits(k') = {} /\ k'.stat = k.stat
      /\ Linked(k', k'.cur, Ready(k'.prio[k'.cur])) /\ Unlinked(k', t)
      /\ k'.cur \in Thread /\ k'.prio[k'.cur] \in Prio
  BY <1>0, <1>4, <1>5, <1>6, <1>7 DEF KInv, KState, Unlinked, Linked
<1>9. \A s \in Thread \ {t} : Same(s)
  BY <1>0, <1>5, <1>7 DEF Same, Linked, Timed
<1>10. /\ op' \in [Thread -> [pc : PC, on : Thread]] /\ type' = type
       /\ \A d \in Thread \ {idle} : op'[d] = op[d]
       /\ \/ op'[idle].pc = "run" /\ op'[idle].on = idle
          \/ op'[idle].pc = "reap_free" /\ op'[idle].on = t
  <2>1. CASE op' = op
    BY <1>0, <2>1 DEF IdleReap, TypeOK
  <2>2. CASE Call(idle, "reap_free", t)
    BY <1>0, <1>2, <2>2, CallFacts DEF IdleReap, PC
  <2> QED BY <1>t, <2>1, <2>2 DEF IdleReap, q
<1>11. OpInv(idle)'
  <2>1. t # k'.cur
    BY <1>8, HeadFacts DEF Unlinked
  <2> QED BY <1>3, <1>8, <1>10, <2>1 DEF OpInv
<1>12. \A d \in Thread \ {idle} : op[d].on # d => op[d].on # t
  <2> SUFFICES ASSUME NEW d \in Thread, op[d].on # d, op[d].on = t PROVE FALSE
    OBVIOUS
  <2>1. OpInv(d) /\ op[d].pc \in PC
    BY DEF IInv, TypeOK
  <2>2. ~Unlinked(k, t)
    BY <1>3, HeadFacts DEF Unlinked
  <2> QED BY <1>3, <2>1, <2>2 DEF OpInv, PC
<1>13. TypeOK' /\ KInv(k)'
  BY <1>0, <1>8, <1>10 DEF TypeOK, KInv
<1>14. CurInv'
  BY <1>8 DEF CurInv
<1>15. \A s \in Thread : type'[s] = "none" => k'.stat[s] = "CLOSE"
  BY <1>8, <1>10 DEF IInv
<1>g. GoodSwitch
  BY <1>0, <1>5, <1>7 DEF GoodSwitch
<1> QED BY <1>g, <1>0, <1>2, <1>3, <1>8, <1>9, <1>10, <1>11, <1>12, <1>13, <1>14, <1>15, StepInv

\* The idle thread frees it.
LEMMA IdleFreeInv ==
  ASSUME IInv, IdleFree
  PROVE  IInv' /\ GoodSwitch
<1>t. PICK t \in Thread : t = op[idle].on
  BY KernelAssumption DEF IInv, TypeOK
<1>0. /\ idle = k.cur /\ op[idle].pc = "reap_free" /\ OpInv(idle) /\ KInv(k) /\ TypeOK
      /\ StaleBits(k) = {} /\ idle \in Thread /\ k' = k
      /\ Linked(k, idle, Ready(k.prio[idle]))
      /\ type' = [type EXCEPT ![t] = "none"]
  BY <1>t, AtFacts, KernelAssumption DEF IdleFree
<1>1. t # idle /\ k.stat[t] = "CLOSE"
  BY <1>0, <1>t DEF OpInv
<1>2. /\ op' \in [Thread -> [pc : PC, on : Thread]]
      /\ op'[idle].on = idle /\ op'[idle].pc = "run"
      /\ \A d \in Thread \ {idle} : op'[d] = op[d]
  BY <1>0, CallFacts DEF IdleFree, PC
<1>3. /\ type' \in [Thread -> {"none", "static", "dynamic"}]
      /\ \A s \in Thread \ {t} : type'[s] = type[s]
  BY <1>0 DEF TypeOK
<1>4. TypeOK' /\ KInv(k)'
  BY <1>0, <1>2, <1>3 DEF TypeOK, KInv
<1>5. \A s \in Thread : Same(s)
  BY <1>0 DEF Same
<1>6. OpInv(idle)' /\ CurInv'
  BY <1>0, <1>2 DEF OpInv, CurInv
<1>7. \A d \in Thread \ {idle} : op[d].on # d => op[d].on # t
  BY <1>0, <1>1, <1>t, TargetFacts
<1>8. \A s \in Thread : type'[s] = "none" => k'.stat[s] = "CLOSE"
  BY <1>0, <1>1, <1>3 DEF IInv
<1>g. GoodSwitch
  BY <1>0 DEF GoodSwitch
<1> QED BY <1>g, <1>0, <1>1, <1>2, <1>4, <1>5, <1>6, <1>7, <1>8, <1>t, StepInv
-----------------------------------------------------------------------------
\* The state after rt_system_scheduler_start satisfies the invariant.
LEMMA InitInv ==
  ASSUME Init
  PROVE  IInv
<1> DEFINE P == InitPrio[main]
           R == PrioMax - 1
<1>0. /\ main \in Thread /\ idle \in Thread /\ main # idle /\ P \in Prio /\ R \in Prio
      /\ P # R /\ InitPrio[idle] = R /\ InitPrio \in [Thread -> Prio]
      /\ InitTick \in [Thread -> Nat \ {0}] /\ 0 \in Tick
      /\ Ready(P) \in ListHead /\ Ready(R) \in ListHead /\ Ready(P) # Ready(R)
  BY KernelAssumption, ThreadAssumption, HeadFacts DEF Prio, Tick
<1>1. /\ k.stat = [t \in Thread |-> IF t \in {main, idle} THEN "READY" ELSE "CLOSE"]
      /\ k.prio = InitPrio
      /\ k.mask = [t \in Thread |-> IF t \in {main, idle} THEN {InitPrio[t]} ELSE {}]
      /\ k.group = {P, R} /\ k.cur = main /\ k.lock = 0 /\ k.timers = <<>> /\ k.isr = FALSE
  BY <1>0 DEF Init, KInit
<1>2. k.list = [h \in ListHead |-> IF h = Ready(P) THEN <<main>>
                                   ELSE IF h = Ready(R) THEN <<idle>> ELSE <<>>]
  BY <1>0 DEF Init, KInit
<1>3. k \in KState
  <2>1. k.list \in [ListHead -> Seq(Thread)]
    BY <1>0, <1>2
  <2> QED BY <1>0, <2>1 DEF Init, KInit, KState, Stat, Err
<1>4. \A h \in ListHead : k.list[h] = IF h = Ready(P) THEN <<main>>
                                      ELSE IF h = Ready(R) THEN <<idle>> ELSE <<>>
  BY <1>2
<1>5. \A h \in ListHead : Range(k.list[h]) = IF h = Ready(P) THEN {main}
                                             ELSE IF h = Ready(R) THEN {idle} ELSE {}
  <2>1. \A x : Range(<<x>>) = {x}
    BY DEF Range
  <2>2. Range(<<>>) = {}
    BY DEF Range
  <2> QED BY <1>4, <2>1, <2>2
<1>6. OneList(k)
  <2>1. \A h \in ListHead : IsInjective(k.list[h])
    BY <1>4 DEF IsInjective
  <2>2. IsInjective(k.timers)
    BY <1>1 DEF IsInjective
  <2>3. \A g, h \in ListHead : g # h => Range(k.list[g]) \cap Range(k.list[h]) = {}
    BY <1>0, <1>5
  <2> QED BY <2>1, <2>2, <2>3 DEF OneList
<1>7. ~\E t \in Thread : Timed(k, t)
  BY <1>1 DEF Timed, Range
<1>8. \A t \in Thread, h \in ListHead : Linked(k, t, h) <=>
        (h = Ready(P) /\ t = main) \/ (h = Ready(R) /\ t = idle)
  BY <1>0, <1>5 DEF Linked
<1>9. \A t \in Thread : /\ k.stat[t] = IF t \in {main, idle} THEN "READY" ELSE "CLOSE"
                        /\ k.mask[t] = IF t \in {main, idle} THEN {InitPrio[t]} ELSE {}
                        /\ k.prio[t] = InitPrio[t]
  BY <1>1
<1> HIDE DEF P, R
<1>10. InitPrio[main] = P /\ PrioMax - 1 = R
  BY DEF P, R
<1>11. ListsAgree(k)
  <2> SUFFICES ASSUME NEW t \in Thread
               PROVE  /\ \A p \in Prio : Linked(k, t, Ready(p)) => k.stat[t] = "READY" /\ k.prio[t] = p
                      /\ \A o \in Obj : ~Linked(k, t, Wait(o))
                      /\ ~Linked(k, t, Defunct)
                      /\ k.stat[t] \in {"READY", "SUSPEND"} => k.mask[t] = {k.prio[t]}
    BY <1>7 DEF ListsAgree
  <2>1. \A p \in Prio : Linked(k, t, Ready(p)) => k.stat[t] = "READY" /\ k.prio[t] = p
    <3> SUFFICES ASSUME NEW p \in Prio, Linked(k, t, Ready(p))
                 PROVE  k.stat[t] = "READY" /\ k.prio[t] = p
      OBVIOUS
    <3>1. (Ready(p) = Ready(P) /\ t = main) \/ (Ready(p) = Ready(R) /\ t = idle)
      BY <1>8, HeadFacts
    <3>2. (p = P /\ t = main) \/ (p = R /\ t = idle)
      BY <3>1, HeadFacts
    <3> QED BY <1>0, <1>9, <1>10, <3>2
  <2>2. (\A o \in Obj : ~Linked(k, t, Wait(o))) /\ ~Linked(k, t, Defunct)
    BY <1>8, HeadFacts
  <2>3. k.stat[t] \in {"READY", "SUSPEND"} => k.mask[t] = {k.prio[t]}
    BY <1>9
  <2> QED BY <2>1, <2>2, <2>3
<1>12. BitsCover(k) /\ StaleBits(k) = {}
  <2>1. \A p \in Prio : k.list[Ready(p)] # <<>> <=> p \in {P, R}
    BY <1>0, <1>4, HeadFacts
  <2>2. k.group = {P, R}
    BY <1>1 DEF P, R
  <2> QED BY <1>0, <1>8, <1>10, <2>1, <2>2 DEF BitsCover, StaleBits
<1>13. KInv(k)
  BY <1>3, <1>6, <1>11, <1>12 DEF KInv
<1>14. TypeOK
  BY <1>3 DEF Init, TypeOK, PC, Kind
<1>15. \A c \in Thread : op[c].pc = "run" /\ op[c].on = c
  BY DEF Init
<1>16. \A c \in Thread : OpInv(c)
  BY <1>15 DEF OpInv
<1>17. Linked(k, main, Ready(P)) /\ Linked(k, idle, Ready(R))
  BY <1>0, <1>8
<1>18. CurInv
  BY <1>0, <1>1, <1>9, <1>10, <1>17 DEF CurInv
<1>19. \A t \in Thread : type[t] = "none" => k.stat[t] = "CLOSE"
  BY <1>9 DEF Init, Kind
<1>20. \A t \in Thread : k.stat[t] = "READY" => Linked(k, t, Ready(k.prio[t]))
  BY <1>0, <1>9, <1>10, <1>17
<1> QED BY <1>12, <1>13, <1>14, <1>15, <1>16, <1>18, <1>19, <1>20 DEF IInv

\* Every step of Next preserves the invariant, and so does stuttering.
LEMMA NextInv ==
  ASSUME IInv, [Next]_vars
  PROVE  IInv' /\ GoodSwitch
<1>1. CASE UNCHANGED vars
  BY <1>1 DEF vars, IInv, TypeOK, KInv, OpInv, CurInv, HalfWay, Holds, GoodSwitch
<1>2. ASSUME NEW c \in Thread \ {idle}, Begin(c) PROVE IInv' /\ GoodSwitch
  <2>1. CASE \E t \in Thread : rt_thread_create(c, t)
    BY <2>1, CreateInv
  <2>2. CASE \E t \in Thread : rt_thread_startup(c, t)
    BY <2>2, StartupInv
  <2>3. CASE \E t \in Thread : rt_thread_resume(c, t) \/ rt_thread_suspend(c, t)
    BY <2>3, BeginOnInv
  <2>4. CASE \E t \in Thread : rt_thread_delete(c, t)
    BY <2>4, DeleteInv
  <2>5. CASE \E t \in Thread, p \in Prio : rt_thread_change_priority(c, t, p)
    BY <2>5, ChangePrioInv
  <2>6. CASE SuspendSelf(c) \/ \E d \in Delay : rt_thread_sleep(c, d)
    BY <2>6, SuspendSelfInv
  <2>7. CASE rt_thread_yield(c)
    BY <2>7, YieldStepInv
  <2>8. CASE rt_enter_critical(c) \/ rt_exit_critical(c)
    BY <2>8, CriticalInv
  <2>9. CASE rt_thread_exit(c)
    BY <2>9, ExitInv
  <2> QED BY <1>2, <2>1, <2>2, <2>3, <2>4, <2>5, <2>6, <2>7, <2>8, <2>9 DEF Begin
<1>3. ASSUME NEW c \in Thread \ {idle}, Continue(c) PROVE IInv' /\ GoodSwitch
  <2>1. CASE StartUnlink(c) \/ ResumeUnlinkStep(c)
    BY <2>1, UnlinkStepInv
  <2>2. CASE StartInsert(c) \/ ResumeInsert(c)
    BY <2>2, InsertStepInv
  <2>3. CASE SuspendOther(c)
    BY <2>3, SuspendOtherInv
  <2>4. CASE rt_schedule(c) \/ SleepSchedule(c) \/ ExitSchedule(c)
    BY <2>4, ScheduleStepInv
  <2>5. CASE SleepReturn(c)
    BY <2>5, SleepReturnInv
  <2>6. CASE DeleteTimer(c)
    BY <2>6, DeleteTimerInv
  <2>7. CASE DeleteClose(c)
    BY <2>7, DeleteCloseInv
  <2> QED BY <1>3, <2>1, <2>2, <2>3, <2>4, <2>5, <2>6, <2>7 DEF Continue
<1>4. CASE IdleReap \/ IdleFree
  BY <1>4, IdleReapInv, IdleFreeInv
<1>5. CASE Interrupt
  BY <1>5, TickStepInv, TimerStepInv DEF Interrupt
<1> QED BY <1>1, <1>2, <1>3, <1>4, <1>5 DEF Next

\* IInv holds in every reachable state: the interrupt locks of the thread
\* operations, of the tick and of idle leave the kernel's lists consistent.
THEOREM Invariance == Spec => []IInv
<1>1. Init => IInv
  BY InitInv
<1>2. IInv /\ [Next]_vars => IInv'
  BY NextInv
<1> QED BY <1>1, <1>2, PTL DEF Spec

\* The state keeps its type: rt_schedule always finds a thread, time slices stay
\* positive, and no list or field is left with a value it cannot have.
THEOREM TypeCorrect == Spec => []TypeOK
<1>1. IInv => TypeOK
  BY DEF IInv
<1> QED BY <1>1, Invariance, PTL

\* No list node is linked twice by resume, timeout, delete, exit or reap.
THEOREM ListsDisjoint == Spec => []NodesLinkedOnce
<1>1. IInv => NodesLinkedOnce
  BY DEF IInv, KInv, NodesLinkedOnce
<1> QED BY <1>1, Invariance, PTL

\* The ready queues hold the ready threads, each at its current priority.
THEOREM ReadyQueuesCorrect == Spec => []ReadyQueues
<1>1. IInv => ReadyQueues
  BY DEF IInv, KInv, ListsAgree, ReadyQueues
<1> QED BY <1>1, Invariance, PTL

\* When rt_schedule may switch, the bitmap is exactly the set of the queues that
\* have a thread in them, and it is not empty.
THEOREM BitmapExact == Spec => []Bitmap
<1>1. ASSUME IInv, k.lock = 0
      PROVE  k.group = {p \in Prio : k.list[Ready(p)] # <<>>} /\ k.group # {}
  <2>1. k \in KState /\ BitsCover(k)
    BY <1>1 DEF IInv, KInv
  <2>2. StaleBits(k) = {}
    BY <1>1, CurrentFacts DEF Holds
  <2>3. k.group \subseteq Prio
    BY <2>1 DEF KState
  <2>4. PrioMax - 1 \in Prio
    BY KernelAssumption DEF Prio
  <2>5. k.list[Ready(PrioMax - 1)] # <<>>
    BY <2>1 DEF BitsCover, Linked, Range
  <2> QED BY <2>1, <2>2, <2>3, <2>4, <2>5 DEF BitsCover, StaleBits
<1>2. IInv => Bitmap
  BY <1>1 DEF Bitmap
<1> QED BY <1>2, Invariance, PTL

\* The RT_ASSERT of rt_thread_timeout never fails.
THEOREM TimeoutAssertion == Spec => []TimeoutFindsSuspended
<1>1. IInv => TimeoutFindsSuspended
  BY DEF IInv, KInv, ListsAgree, TimeoutFindsSuspended
<1> QED BY <1>1, Invariance, PTL

\* The idle thread frees no thread that is running, queued or timed.
THEOREM ReapSafe == Spec => []FreedUnused
<1>1. ASSUME IInv, op[idle].pc = "reap_free"
      PROVE  op[idle].on # k.cur /\ Unlinked(k, op[idle].on) /\ ~Timed(k, op[idle].on)
  <2>1. OpInv(idle) /\ op[idle].on \in Thread
    BY <1>1, KernelAssumption, CurrentFacts DEF IInv
  <2> QED BY <1>1, <2>1 DEF OpInv, IInv, KInv, ListsAgree
<1>2. IInv => FreedUnused
  BY <1>1 DEF FreedUnused
<1> QED BY <1>2, Invariance, PTL

\* The scheduler never finds a closed thread in a ready queue.
THEOREM ClosedStaysOut == Spec => []ClosedNotReady
<1>1. IInv => ClosedNotReady
  BY DEF IInv, KInv, ListsAgree, InReady, ClosedNotReady
<1> QED BY <1>1, Invariance, PTL

\* A context switch never happens under rt_enter_critical, and always goes to
\* a ready thread that no other ready thread outranks.
THEOREM PreemptionCorrect == Spec => SwitchToHighest
<1> DEFINE A == k'.cur # k.cur =>
                  /\ k'.lock = 0
                  /\ k'.stat[k'.cur] = "READY"
                  /\ \A t \in Thread : InReady(k', t) => k'.prio[k'.cur] <= k'.prio[t]
<1>1. ASSUME IInv, [Next]_vars PROVE [A]_vars
  <2>1. IInv' /\ GoodSwitch
    BY <1>1, NextInv
  <2>2. KInv(k') /\ k'.cur \in Thread /\ k'.prio[k'.cur] \in Prio
    BY <2>1 DEF IInv, KInv, KState
  <2>3. Linked(k', k'.cur, Ready(k'.prio[k'.cur])) => k'.stat[k'.cur] = "READY"
    BY <2>2 DEF KInv, ListsAgree
  <2>4. A
    BY <2>1, <2>3 DEF GoodSwitch
  <2> QED BY <2>4
<1> QED BY <1>1, Invariance, PTL DEF Spec, SwitchToHighest
-----------------------------------------------------------------------------
(* What the steps do to the timers, to thread->error and to the list of dead *)
(* threads.                                                                  *)

\* the clock stands still, and the timer of t is stopped or no timer is
Clock(s, u, t) ==
  /\ u.tick = s.tick /\ u.isr = s.isr
  /\ \/ u.timers = s.timers /\ u.tmo = s.tmo
     \/ /\ u.timers = RemoveFirst(s.timers, t)
        /\ \A x \in Thread \ {t} : u.tmo[x] = s.tmo[x]

\* and neither the errors nor the list of dead threads change, but for t
\* leaving it
Quiet(s, u, t) ==
  /\ Clock(s, u, t)
  /\ u.err = s.err
  /\ u.list[Defunct] \in {s.list[Defunct], RemoveFirst(s.list[Defunct], t)}

LEMMA QuietUnlink ==
  ASSUME NEW s \in KState, NEW t \in Thread
  PROVE  Quiet(s, Unlink(s, t), t) /\ Quiet(s, TimerStop(s, t), t)
<1>1. Quiet(s, Unlink(s, t), t)
  BY HeadFacts DEF Quiet, Clock, Unlink, KState
<1>2. Quiet(s, TimerStop(s, t), t)
  BY DEF Quiet, Clock, TimerStop, TimerRemove, KState
<1> QED BY <1>1, <1>2

LEMMA QuietInsert ==
  ASSUME NEW s \in KState, NEW t \in Thread
  PROVE  Quiet(s, InsertReady(s, t), t)
<1>1. s.prio[t] \in Prio /\ s.list \in [ListHead -> Seq(Thread)]
  BY DEF KState
<1>2. Ready(s.prio[t]) \in ListHead /\ Defunct \in ListHead /\ Ready(s.prio[t]) # Defunct
  BY <1>1, HeadFacts
<1>3. InsertReady(s, t).list[Defunct] = s.list[Defunct]
  BY <1>1, <1>2 DEF InsertReady, KState
<1> QED BY <1>3, InsertReadyFrame DEF Quiet, Clock

LEMMA QuietRemove ==
  ASSUME NEW s \in KState, OneList(s), NEW t \in Thread
  PROVE  Quiet(s, RemoveReady(s, t), t)
<1>1. RemoveReady(s, t).list[Defunct] = RemoveFirst(s.list[Defunct], t)
  <2>1. RemoveReady(s, t).list = Unlink(s, t).list
    BY RemoveReadyProps
  <2>2. Unlink(s, t).list[Defunct] = RemoveFirst(s.list[Defunct], t)
    BY HeadFacts DEF Unlink, KState
  <2> QED BY <2>1, <2>2
<1> QED BY <1>1, RemoveReadyProps DEF Quiet, Clock

LEMMA QuietSuspend ==
  ASSUME NEW s, KInv(s), NEW t \in Thread
  PROVE  Quiet(s, Suspend(s, t), t)
<1> DEFINE v == SetStat(s, t, "SUSPEND")
           w == RemoveReady(v, t)
<1>1. /\ v \in KState /\ OneList(v) /\ v.list = s.list /\ v.err = s.err
      /\ v.tick = s.tick /\ v.isr = s.isr /\ v.timers = s.timers /\ v.tmo = s.tmo
  BY DEF SetStat, KState, KInv, OneList, Stat
<1> HIDE DEF v
<1>2. w \in KState /\ Quiet(v, w, t)
  BY <1>1, RemoveReadyProps, QuietRemove
<1>2a. w.timers = v.timers /\ w.tmo = v.tmo /\ w.err = v.err /\ w.tick = v.tick /\ w.isr = v.isr
  BY <1>1, RemoveReadyProps
<1> HIDE DEF w
<1>3. Quiet(w, TimerStop(w, t), t) /\ TimerStop(w, t).list = w.list
  BY <1>2, QuietUnlink DEF TimerStop, TimerRemove, KState
<1>4. Suspend(s, t) = TimerStop(w, t)
  BY DEF Suspend, v, w
<1> QED BY <1>1, <1>2, <1>2a, <1>3, <1>4 DEF Quiet, Clock

LEMMA QuietResume ==
  ASSUME NEW s, KInv(s), NEW t \in Thread
  PROVE  Quiet(s, ResumeUnlink(s, t), t)
<1> DEFINE v == Unlink(s, t)
<1>1. s \in KState /\ OneList(s)
  BY DEF KInv
<1>2. v \in KState /\ Quiet(s, v, t) /\ v.timers = s.timers /\ v.tmo = s.tmo
  BY <1>1, UnlinkProps, UnlinkFrame, QuietUnlink
<1> HIDE DEF v
<1>3. Quiet(v, TimerStop(v, t), t) /\ TimerStop(v, t).list = v.list
  BY <1>2, QuietUnlink DEF TimerStop, TimerRemove, KState
<1>4. ResumeUnlink(s, t) = TimerStop(v, t)
  BY DEF ResumeUnlink, v
<1> QED BY <1>2, <1>3, <1>4 DEF Quiet, Clock

LEMMA QuietChange ==
  ASSUME NEW s, KInv(s), NEW t \in Thread, t # idle, NEW p \in Prio
  PROVE  Quiet(s, ChangePriority(s, t, p), t)
<1>1. s \in KState /\ OneList(s)
  BY DEF KInv
<1>2. CASE s.stat[t] = "READY"
  <2> DEFINE v == RemoveReady(s, t)
             w == SetPrio(v, t, p)
  <2>1. v \in KState /\ Quiet(s, v, t)
    BY <1>1, RemoveReadyProps, QuietRemove
  <2> HIDE DEF v
  <2>2. /\ w \in KState /\ w.list = v.list /\ w.err = v.err
        /\ w.tick = v.tick /\ w.isr = v.isr /\ w.timers = v.timers /\ w.tmo = v.tmo
    BY <2>1 DEF SetPrio, KState
  <2> HIDE DEF w
  <2>3. /\ Quiet(w, InsertReady(w, t), t) /\ InsertReady(w, t).timers = w.timers
        /\ InsertReady(w, t).tmo = w.tmo /\ InsertReady(w, t).list[Defunct] = w.list[Defunct]
    <3>1. w.prio[t] \in Prio /\ w.list \in [ListHead -> Seq(Thread)]
      BY <2>2 DEF KState
    <3>2. Ready(w.prio[t]) \in ListHead /\ Defunct \in ListHead /\ Ready(w.prio[t]) # Defunct
      BY <3>1, HeadFacts
    <3>3. InsertReady(w, t).list[Defunct] = w.list[Defunct]
      BY <2>2, <3>1, <3>2 DEF InsertReady, KState
    <3> QED BY <2>2, <3>3, QuietInsert, InsertReadyFrame
  <2>4. ChangePriority(s, t, p) = InsertReady(w, t)
    BY <1>2 DEF ChangePriority, v, w
  <2> QED BY <2>1, <2>2, <2>3, <2>4 DEF Quiet, Clock
<1>3. CASE s.stat[t] # "READY"
  BY <1>1, <1>3 DEF ChangePriority, SetPrio, Quiet, Clock, KState
<1> QED BY <1>2, <1>3

LEMMA QuietSchedule ==
  ASSUME NEW s \in KState, NEW t \in Thread
  PROVE  LET u == Schedule(s)
         IN  /\ u.tick = s.tick /\ u.isr = s.isr /\ u.timers = s.timers /\ u.tmo = s.tmo
             /\ u.err = s.err /\ u.list = s.list
BY DEF Schedule, KState

LEMMA QuietRotate ==
  ASSUME NEW s \in KState
  PROVE  LET u == Rotate(s)
         IN  /\ u.tick = s.tick /\ u.isr = s.isr /\ u.timers = s.timers /\ u.tmo = s.tmo
             /\ u.err = s.err /\ u.list[Defunct] = s.list[Defunct]
<1> DEFINE h == Ready(s.prio[s.cur])
<1>1. h \in ListHead /\ h # Defunct /\ Defunct \in ListHead /\ s.list \in [ListHead -> Seq(Thread)]
  BY HeadFacts DEF KState
<1> QED BY <1>1 DEF KState, Rotate

LEMMA QuietYield ==
  ASSUME NEW s \in KState
  PROVE  LET u == Yield(s)
         IN  /\ u.tick = s.tick /\ u.isr = s.isr /\ u.timers = s.timers /\ u.tmo = s.tmo
             /\ u.err = s.err /\ u.list[Defunct] = s.list[Defunct]
<1> DEFINE v == Rotate(s)
<1>1. /\ v.tick = s.tick /\ v.isr = s.isr /\ v.timers = s.timers /\ v.tmo = s.tmo
      /\ v.err = s.err /\ v.list[Defunct] = s.list[Defunct]
  BY QuietRotate
<1>2. LET u == Schedule(v)
      IN  /\ u.tick = v.tick /\ u.isr = v.isr /\ u.timers = v.timers /\ u.tmo = v.tmo
          /\ u.err = v.err /\ u.list = v.list
  BY DEF Schedule, KState, Rotate
<1>3. Yield(s) = IF Shares(s) THEN Schedule(v) ELSE s
  BY DEF Yield
<1> HIDE DEF v
<1> QED BY <1>1, <1>2, <1>3

\* the places of a call at which its thread may be in the timer list, and
\* those that free or are about to
Asleep  == {"sleep_sched", "sleep_return"}
Freeing == {"delete_timer", "delete_close", "reap_free"}

\* the running thread c goes on, neither out of a sleep nor into a deletion
OpStep(c) ==
  /\ \A d \in Thread \ {c} : op'[d] = op[d]
  /\ op'[c] = op[c] \/ op'[c].pc \notin Freeing
  /\ op[c].pc \in Asleep => op'[c].pc \in Asleep

LEMMA QuietSame ==
  ASSUME NEW s, NEW u, NEW t \in Thread,
         u.tick = s.tick, u.isr = s.isr, u.timers = s.timers, u.tmo = s.tmo, u.err = s.err,
         u.list[Defunct] = s.list[Defunct]
  PROVE  Quiet(s, u, t)
BY DEF Quiet, Clock

\* The steps that only move a thread between lists.
LEMMA QuietSteps ==
  ASSUME IInv, NEW c \in Thread,
         \/ \E t \in Thread : \/ rt_thread_startup(c, t) \/ rt_thread_resume(c, t)
                              \/ rt_thread_suspend(c, t)
                              \/ \E p \in Prio : rt_thread_change_priority(c, t, p)
         \/ SuspendSelf(c) \/ rt_thread_yield(c) \/ rt_enter_critical(c) \/ rt_exit_critical(c)
         \/ StartUnlink(c) \/ StartInsert(c) \/ ResumeUnlinkStep(c) \/ ResumeInsert(c)
         \/ SuspendOther(c) \/ rt_schedule(c) \/ SleepSchedule(c) \/ ExitSchedule(c)
  PROVE  /\ \E x \in Thread : Quiet(k, k', x)
         /\ OpStep(c) /\ type' = type
<1>0. /\ KInv(k) /\ k \in KState /\ OneList(k) /\ TypeOK /\ op[c].on \in Thread
      /\ op \in [Thread -> [pc : PC, on : Thread]]
  BY CurrentFacts DEF IInv, KInv, TypeOK
<1>c. ASSUME NEW pc \in PC \ Freeing, NEW t \in Thread, Call(c, pc, t), op[c].pc \notin Asleep
      PROVE  OpStep(c)
  <2>1. op'[c].pc = pc /\ \A d \in Thread \ {c} : op'[d] = op[d]
    BY <1>0, <1>c, CallFacts
  <2> QED BY <1>c, <2>1 DEF OpStep
<1>g. ASSUME NEW pc \in PC \ Freeing, Goto(c, pc), op[c].pc \in Asleep => pc \in Asleep
      PROVE  OpStep(c)
  <2>1. op'[c].pc = pc /\ \A d \in Thread \ {c} : op'[d] = op[d]
    BY <1>0, <1>g, GotoFacts
  <2> QED BY <1>g, <2>1 DEF OpStep
<1>u. ASSUME op' = op PROVE OpStep(c)
  BY <1>u DEF OpStep
<1>pc. /\ {"run", "sched", "start_unlink", "start_insert", "resume_unlink", "resume_insert",
           "suspend", "sleep_return", "dead"} \subseteq PC \ Freeing
       /\ {"run", "sched", "start_unlink", "start_insert", "resume_unlink", "resume_insert",
           "suspend", "exit_sched"} \cap Asleep = {}
       /\ "sleep_return" \in Asleep
  BY DEF PC, Freeing, Asleep
<1>1. ASSUME NEW t \in Thread, rt_thread_startup(c, t)
      PROVE  (\E x \in Thread : Quiet(k, k', x)) /\ OpStep(c) /\ type' = type
  <2>1. Quiet(k, k', t)
    BY <1>0, <1>1 DEF rt_thread_startup, SetStat, SetPrio, Quiet, Clock, KState
  <2>2. OpStep(c) /\ type' = type
    BY <1>1, <1>c, <1>pc DEF rt_thread_startup, At
  <2> QED BY <2>1, <2>2
<1>2. ASSUME NEW t \in Thread, rt_thread_resume(c, t) \/ rt_thread_suspend(c, t)
      PROVE  (\E x \in Thread : Quiet(k, k', x)) /\ OpStep(c) /\ type' = type
  <2>1. k' = k /\ type' = type
    BY <1>2 DEF rt_thread_resume, rt_thread_suspend
  <2>2. Quiet(k, k', t)
    BY <2>1 DEF Quiet, Clock
  <2>3. OpStep(c)
    BY <1>2, <1>c, <1>pc DEF rt_thread_resume, rt_thread_suspend, At
  <2> QED BY <2>1, <2>2, <2>3
<1>3. ASSUME NEW t \in Thread, NEW p \in Prio, rt_thread_change_priority(c, t, p)
      PROVE  (\E x \in Thread : Quiet(k, k', x)) /\ OpStep(c) /\ type' = type
  <2>1. Quiet(k, k', t)
    BY <1>0, <1>3, QuietChange DEF rt_thread_change_priority
  <2> QED BY <2>1, <1>3, <1>u DEF rt_thread_change_priority
<1>4. ASSUME SuspendSelf(c)
      PROVE  (\E x \in Thread : Quiet(k, k', x)) /\ OpStep(c) /\ type' = type
  <2>1. Quiet(k, k', c)
    BY <1>0, <1>4, QuietSuspend DEF SuspendSelf
  <2> QED BY <2>1, <1>4, <1>c, <1>pc DEF SuspendSelf, At
<1>5. ASSUME rt_thread_yield(c)
      PROVE  (\E x \in Thread : Quiet(k, k', x)) /\ OpStep(c) /\ type' = type
  <2>1. type' = type /\ ((k' = Rotate(k) /\ Call(c, "sched", c)) \/ (k' = k /\ op' = op))
    BY <1>5 DEF rt_thread_yield
  <2>2. Quiet(k, k', c)
    BY <1>0, <2>1, QuietRotate DEF Quiet, Clock
  <2>3. OpStep(c)
    BY <1>5, <2>1, <1>c, <1>u, <1>pc DEF rt_thread_yield, At
  <2> QED BY <2>1, <2>2, <2>3
<1>6. ASSUME rt_enter_critical(c) \/ rt_exit_critical(c)
      PROVE  (\E x \in Thread : Quiet(k, k', x)) /\ OpStep(c) /\ type' = type
  <2>1. Quiet(k, k', c)
    BY <1>0, <1>6 DEF rt_enter_critical, rt_exit_critical, EnterCritical, ExitCritical,
                      Quiet, Clock, KState
  <2>2. type' = type /\ (op' = op \/ (Call(c, "sched", c) /\ op[c].pc = "run"))
    BY <1>6 DEF rt_enter_critical, rt_exit_critical, At
  <2> QED BY <2>1, <2>2, <1>c, <1>u, <1>pc
<1>7. ASSUME StartUnlink(c) \/ ResumeUnlinkStep(c)
      PROVE  (\E x \in Thread : Quiet(k, k', x)) /\ OpStep(c) /\ type' = type
  <2>1. Quiet(k, k', op[c].on)
    BY <1>0, <1>7, QuietResume DEF StartUnlink, ResumeUnlinkStep
  <2>2. OpStep(c) /\ type' = type
    BY <1>7, <1>g, <1>pc DEF StartUnlink, ResumeUnlinkStep, At
  <2> QED BY <1>0, <2>1, <2>2
<1>8. ASSUME StartInsert(c) \/ ResumeInsert(c)
      PROVE  (\E x \in Thread : Quiet(k, k', x)) /\ OpStep(c) /\ type' = type
  <2>1. Quiet(k, k', op[c].on)
    BY <1>0, <1>8, QuietInsert DEF StartInsert, ResumeInsert
  <2>2. OpStep(c) /\ type' = type
    BY <1>8, <1>c, <1>pc DEF StartInsert, ResumeInsert, At
  <2> QED BY <1>0, <2>1, <2>2
<1>9. ASSUME SuspendOther(c)
      PROVE  (\E x \in Thread : Quiet(k, k', x)) /\ OpStep(c) /\ type' = type
  <2>1. Quiet(k, k', op[c].on)
    BY <1>0, <1>9, QuietSuspend DEF SuspendOther
  <2>2. OpStep(c) /\ type' = type
    BY <1>9, <1>c, <1>pc DEF SuspendOther, At
  <2> QED BY <1>0, <2>1, <2>2
<1>10. ASSUME rt_schedule(c) \/ SleepSchedule(c) \/ ExitSchedule(c)
      PROVE  (\E x \in Thread : Quiet(k, k', x)) /\ OpStep(c) /\ type' = type
  <2>1. Quiet(k, k', c)
    BY <1>0, <1>10, QuietSchedule DEF rt_schedule, SleepSchedule, ExitSchedule, Quiet, Clock
  <2>2. OpStep(c) /\ type' = type
    BY <1>10, <1>g, <1>pc DEF rt_schedule, SleepSchedule, ExitSchedule, At
  <2> QED BY <2>1, <2>2
<1> QED BY <1>1, <1>2, <1>3, <1>4, <1>5, <1>6, <1>7, <1>8, <1>9, <1>10

\* A step that only stops timers keeps their order and starts none.
LEMMA ClockInv ==
  ASSUME IInv, IInv', NEW t \in Thread, Clock(k, k', t)
  PROVE  /\ Due(k) => Due(k')
         /\ \A s \in Thread : Timed(k', s) => Timed(k, s)
<1>1. /\ k \in KState /\ k' \in KState /\ IsInjective(k.timers) /\ k.timers \in Seq(Thread)
  BY DEF IInv, KInv, KState, OneList
<1>2. CASE k'.timers = k.timers /\ k'.tmo = k.tmo
  <2>1. Due(k) => Due(k')
    BY <1>1, <1>2, DueSame DEF Clock
  <2> QED BY <2>1, <1>2 DEF Timed
<1>3. CASE /\ k'.timers = RemoveFirst(k.timers, t)
           /\ \A x \in Thread \ {t} : k'.tmo[x] = k.tmo[x]
  <2>1. Due(k) => Due(k')
    BY <1>1, <1>3, DueRemove DEF Clock
  <2>2. Range(k'.timers) = Range(k.timers) \ {t}
    BY <1>1, <1>3, RangeRemoveFirst
  <2> QED BY <2>1, <2>2 DEF Timed
<1> QED BY <1>2, <1>3 DEF Clock

\* and no thread comes into the list of dead threads
LEMMA QuietDefunct ==
  ASSUME IInv, NEW t \in Thread, Quiet(k, k', t)
  PROVE  \A s \in Thread : Linked(k', s, Defunct) => Linked(k, s, Defunct)
<1>1. k.list[Defunct] \in Seq(Thread) /\ IsInjective(k.list[Defunct])
  BY HeadFacts DEF IInv, KInv, KState, OneList
<1>2. Range(RemoveFirst(k.list[Defunct], t)) = Range(k.list[Defunct]) \ {t}
  BY <1>1, RangeRemoveFirst
<1> QED BY <1>2 DEF Quiet, Linked
-----------------------------------------------------------------------------
(* Static threads, timeouts and the order of the timers *)

\* A static thread that is dead keeps its type until idle has seen it, which is
\* why none with a cleanup function may be detached.
StaticInv ==
  /\ \A t \in Thread : type[t] \in {"none", Kind(t)}
  /\ \A t \in Static : Linked(k, t, Defunct) => type[t] = "static"
  /\ \A c \in Thread : op[c].pc \in {"delete_timer", "delete_close"} =>
       op[c].on \notin Static \cap HasCleanup
  /\ StaticNotFreed

\* Only a sleeping thread has a timer, and only one that has not returned from
\* its sleep has seen the timer expire.
SleepInv ==
  \A t \in Thread :
    /\ Timed(k, t) => op[t].pc \in Asleep
    /\ type[t] # "none" /\ k.err[t] = "ETIMEOUT" => op[t].pc \in Asleep

RestInv == StaticInv /\ SleepInv /\ Due(k)

LEMMA StaticSame ==
  ASSUME IInv, StaticInv, NEW c \in Thread, OpStep(c), type' = type,
         \A s \in Thread : Linked(k', s, Defunct) => Linked(k, s, Defunct)
  PROVE  StaticInv'
<1>0. Static \subseteq Thread /\ idle \in Thread
  BY ThreadAssumption, KernelAssumption
<1>1. \A d \in Thread : op'[d] = op[d] \/ op'[d].pc \notin Freeing
  BY DEF OpStep
<1>2. \A t \in Static : Linked(k', t, Defunct) => type'[t] = "static"
  BY <1>0 DEF StaticInv
<1>3. \A d \in Thread : op'[d].pc \in {"delete_timer", "delete_close"} =>
        op'[d].on \notin Static \cap HasCleanup
  BY <1>1 DEF StaticInv, Freeing
<1>4. StaticNotFreed'
  BY <1>0, <1>1 DEF StaticInv, StaticNotFreed, Freeing
<1> QED BY <1>2, <1>3, <1>4 DEF StaticInv

LEMMA SleepSame ==
  ASSUME IInv, SleepInv, k'.err = k.err,
         \A s \in Thread : type'[s] # "none" => type[s] # "none",
         \A s \in Thread : Timed(k', s) => Timed(k, s),
         \A d \in Thread : op[d].pc \in Asleep => op'[d].pc \in Asleep
  PROVE  SleepInv'
BY DEF SleepInv

LEMMA QuietRest ==
  ASSUME IInv, IInv', RestInv, NEW c \in Thread, OpStep(c), type' = type,
         NEW t \in Thread, Quiet(k, k', t)
  PROVE  RestInv'
<1>1. Due(k') /\ \A s \in Thread : Timed(k', s) => Timed(k, s)
  BY ClockInv DEF Quiet, RestInv
<1>2. StaticInv'
  BY QuietDefunct, StaticSame DEF RestInv
<1>3. \A d \in Thread : op[d].pc \in Asleep => op'[d].pc \in Asleep
  BY DEF OpStep
<1>4. SleepInv'
  BY <1>1, <1>3, SleepSame DEF Quiet, RestInv
<1> QED BY <1>1, <1>2, <1>4 DEF RestInv

LEMMA CreateRest ==
  ASSUME IInv, IInv', RestInv, NEW c \in Thread, NEW t \in Thread, rt_thread_create(c, t)
  PROVE  RestInv'
<1>0. /\ k \in KState /\ k' \in KState /\ KInv(k) /\ k' = ThreadInit(k, t)
      /\ op \in [Thread -> [pc : PC, on : Thread]]
      /\ type \in [Thread -> {"none", "static", "dynamic"}] /\ Static \subseteq Thread
      /\ idle \in Thread /\ type[t] = "none"
  BY ThreadAssumption, KernelAssumption DEF IInv, KInv, TypeOK, rt_thread_create, live
<1>1. /\ k'.tick = k.tick /\ k'.isr = k.isr /\ k'.timers = k.timers /\ k'.tmo = k.tmo
      /\ k'.list = k.list /\ k'.err = [k.err EXCEPT ![t] = "EOK"]
  BY <1>0 DEF ThreadInit, KState
<1>2. /\ op'[t].pc = "run" /\ \A d \in Thread \ {t} : op'[d] = op[d]
      /\ type'[t] = Kind(t) /\ \A d \in Thread \ {t} : type'[d] = type[d]
  BY <1>0 DEF rt_thread_create
<1>3. Due(k')
  BY <1>0, <1>1, DueSame DEF RestInv
<1>4. ~Timed(k, t)
  BY <1>0 DEF IInv, KInv, ListsAgree
<1>5. SleepInv'
  <2>1. k'.err[t] = "EOK" /\ \A s \in Thread \ {t} : k'.err[s] = k.err[s]
    BY <1>0, <1>1 DEF KState
  <2>2. \A s \in Thread : Timed(k', s) <=> Timed(k, s)
    BY <1>1 DEF Timed
  <2> QED BY <1>2, <1>4, <2>1, <2>2 DEF SleepInv, RestInv
<1>6. StaticInv'
  <2>1. \A s \in Thread : Linked(k', s, Defunct) <=> Linked(k, s, Defunct)
    BY <1>1 DEF Linked
  <2>2. \A s \in Thread : type'[s] \in {"none", Kind(s)}
    BY <1>2 DEF RestInv, StaticInv
  <2>3. \A s \in Static : Linked(k', s, Defunct) => type'[s] = "static"
    BY <1>0, <1>2, <2>1 DEF RestInv, StaticInv, Kind
  <2>4. \A d \in Thread : op'[d].pc \in {"delete_timer", "delete_close"} =>
          op'[d].on \notin Static \cap HasCleanup
    BY <1>2 DEF RestInv, StaticInv
  <2>5. StaticNotFreed'
    BY <1>0, <1>2 DEF RestInv, StaticInv, StaticNotFreed
  <2> QED BY <2>2, <2>3, <2>4, <2>5 DEF StaticInv
<1> QED BY <1>3, <1>5, <1>6 DEF RestInv

LEMMA SleepRest ==
  ASSUME IInv, IInv', RestInv, NEW c \in Thread, NEW d \in Delay, rt_thread_sleep(c, d)
  PROVE  RestInv'
<1> DEFINE v == Suspend(k, c)
<1>0. /\ KInv(k) /\ k \in KState /\ k.stat[c] = "READY" /\ c # idle /\ ~k.isr
      /\ k' = TimerStart(v, c, d) /\ TypeOK /\ d \in 0 .. Half - 1
  BY ThreadAssumption, AtFacts DEF rt_thread_sleep, At
<1>1. /\ KInv(v) /\ v.stat = [k.stat EXCEPT ![c] = "SUSPEND"]
      /\ Range(v.timers) = Range(k.timers) \ {c} /\ Quiet(k, v, c)
      /\ \A h \in ListHead : Range(v.list[h]) = Range(k.list[h]) \ {c}
  BY <1>0, SuspendInv, QuietSuspend
<1> HIDE DEF v
<1>2. v \in KState /\ v.stat[c] = "SUSPEND" /\ ~v.isr /\ IsInjective(k.timers)
  BY <1>0, <1>1 DEF KInv, KState, Quiet, Clock, OneList
<1>3. Due(v)
  <2>1. CASE v.timers = k.timers /\ v.tmo = k.tmo
    BY <1>0, <1>1, <1>2, <2>1, DueSame DEF Quiet, Clock, RestInv
  <2>2. CASE /\ v.timers = RemoveFirst(k.timers, c)
             /\ \A x \in Thread \ {c} : v.tmo[x] = k.tmo[x]
    BY <1>0, <1>1, <1>2, <2>2, DueRemove DEF Quiet, Clock, RestInv
  <2> QED BY <1>1, <2>1, <2>2 DEF Quiet, Clock
<1>4. Due(k')
  BY <1>0, <1>1, <1>2, <1>3, DueStart
<1>5. /\ Range(k'.timers) = Range(v.timers) \cup {c} /\ k'.list = v.list /\ k'.err = v.err
  <2>1. d \in Nat
    BY <1>0
  <2>2. Range(k'.timers) = Range(v.timers) \cup {c} /\ k'.list = v.list
    <3>1. /\ Range(TimerStart(v, c, d).timers) = Range(v.timers) \cup {c}
          /\ TimerStart(v, c, d).list = v.list
      <4>1. KInv(v) /\ v.stat[c] = "SUSPEND"
        BY <1>1, <1>2
      <4> QED BY <4>1, <2>1, TimerStartInv
    <3> QED BY <1>0, <3>1
  <2>3. k'.err = v.err
    BY <1>0, <1>2 DEF TimerStart, TimerRemove, KState
  <2> QED BY <2>2, <2>3
<1>6. /\ op'[c].pc = "sleep_sched" /\ \A e \in Thread \ {c} : op'[e] = op[e]
      /\ type' = type
  BY <1>0, CallFacts DEF rt_thread_sleep, PC
<1>7. SleepInv'
  <2>1. k'.err = k.err
    BY <1>1, <1>5 DEF Quiet
  <2>2. \A s \in Thread \ {c} : Timed(k', s) => Timed(k, s)
    BY <1>1, <1>5 DEF Timed
  <2> QED BY <1>6, <2>1, <2>2 DEF SleepInv, RestInv, Asleep
<1>8. OpStep(c)
  BY <1>6 DEF OpStep, Freeing, Asleep
<1>9. \A s \in Thread : Linked(k', s, Defunct) => Linked(k, s, Defunct)
  BY <1>1, <1>5, HeadFacts DEF Linked
<1>10. StaticInv'
  BY <1>6, <1>8, <1>9, StaticSame DEF RestInv
<1> QED BY <1>4, <1>7, <1>10 DEF RestInv

LEMMA SleepReturnRest ==
  ASSUME IInv, IInv', RestInv, NEW c \in Thread, SleepReturn(c)
  PROVE  RestInv'
<1>0. /\ KInv(k) /\ k \in KState /\ k' \in KState /\ k.stat[c] = "READY" /\ TypeOK
  BY AtFacts DEF SleepReturn, IInv, KInv
<1>1. /\ k'.tick = k.tick /\ k'.isr = k.isr /\ k'.timers = k.timers /\ k'.tmo = k.tmo
      /\ k'.list = k.list /\ k'.err[c] # "ETIMEOUT"
      /\ \A s \in Thread \ {c} : k'.err[s] = k.err[s]
  BY <1>0 DEF SleepReturn, KState
<1>2. /\ op'[c].pc = "run" /\ \A e \in Thread \ {c} : op'[e] = op[e]
      /\ type' = type
  BY <1>0, GotoFacts DEF SleepReturn, PC
<1>3. Due(k')
  BY <1>0, <1>1, DueSame DEF RestInv
<1>4. ~Timed(k, c)
  BY <1>0 DEF KInv, ListsAgree
<1>5. SleepInv'
  <2>1. \A s \in Thread : Timed(k', s) <=> Timed(k, s)
    BY <1>1 DEF Timed
  <2> QED BY <1>1, <1>2, <1>4, <2>1 DEF SleepInv, RestInv
<1>6. StaticInv'
  <2>1. \A s \in Thread : Linked(k', s, Defunct) <=> Linked(k, s, Defunct)
    BY <1>1 DEF Linked
  <2>2. idle \in Thread /\ Static \subseteq Thread
    BY KernelAssumption, ThreadAssumption
  <2>3. \A s \in Static : Linked(k', s, Defunct) => type'[s] = "static"
    BY <1>2, <2>1, <2>2 DEF RestInv, StaticInv
  <2>4. \A d \in Thread : op'[d].pc \in {"delete_timer", "delete_close"} =>
          op'[d].on \notin Static \cap HasCleanup
    BY <1>2 DEF RestInv, StaticInv
  <2>5. StaticNotFreed'
    BY <1>2, <2>2 DEF RestInv, StaticInv, StaticNotFreed
  <2>6. \A s \in Thread : type'[s] \in {"none", Kind(s)}
    BY <1>2 DEF RestInv, StaticInv
  <2> QED BY <2>3, <2>4, <2>5, <2>6 DEF StaticInv
<1> QED BY <1>3, <1>5, <1>6 DEF RestInv

\* A thread that is put at the front of a list.
LEMMA RangeFront ==
  ASSUME NEW s \in Seq(Thread), NEW e \in Thread
  PROVE  Range(<<e>> \o s) = {e} \cup Range(s)
<1> DEFINE q == <<e>> \o s
<1>1. /\ DOMAIN q = 1 .. Len(s) + 1 /\ DOMAIN s = 1 .. Len(s) /\ Len(s) \in Nat
      /\ q[1] = e /\ \A i \in 2 .. Len(s) + 1 : q[i] = s[i - 1]
  OBVIOUS
<1> HIDE DEF q
<1>2. \A i \in 1 .. Len(s) + 1 : q[i] \in {e} \cup Range(s)
  <2> SUFFICES ASSUME NEW i \in 1 .. Len(s) + 1 PROVE q[i] \in {e} \cup Range(s)
    OBVIOUS
  <2>1. CASE i = 1
    BY <1>1, <2>1
  <2>2. CASE i # 1
    <3>1. i \in 2 .. Len(s) + 1 /\ i - 1 \in DOMAIN s
      BY <1>1, <2>2
    <3> QED BY <1>1, <3>1 DEF Range
  <2> QED BY <2>1, <2>2
<1>3. \A i \in 1 .. Len(s) : s[i] \in Range(q)
  <2> SUFFICES ASSUME NEW i \in 1 .. Len(s) PROVE s[i] \in Range(q)
    OBVIOUS
  <2>1. i + 1 \in 2 .. Len(s) + 1 /\ i + 1 \in DOMAIN q /\ (i + 1) - 1 = i
    BY <1>1
  <2> QED BY <1>1, <2>1 DEF Range
<1>4. e \in Range(q)
  BY <1>1 DEF Range
<1>5. Range(q) \subseteq {e} \cup Range(s)
  BY <1>1, <1>2 DEF Range
<1>6. Range(s) \subseteq Range(q)
  BY <1>1, <1>3 DEF Range
<1> QED BY <1>4, <1>5, <1>6 DEF q

LEMMA ExitRest ==
  ASSUME IInv, IInv', RestInv, NEW c \in Thread, rt_thread_exit(c)
  PROVE  RestInv'
<1> DEFINE v == RemoveReady(k, c)
           w == SetStat(v, c, "CLOSE")
           u == TimerDetach(w, c)
<1>0. /\ KInv(k) /\ k \in KState /\ OneList(k) /\ k.stat[c] = "READY" /\ TypeOK
      /\ op[c].pc = "run" /\ Static \subseteq Thread /\ idle \in Thread /\ c # idle
  BY AtFacts, ThreadAssumption, KernelAssumption DEF rt_thread_exit, KInv
<1>1. /\ v \in KState /\ Quiet(k, v, c)
      /\ v.timers = k.timers /\ v.tmo = k.tmo
  BY <1>0, RemoveReadyProps, QuietRemove
<1> HIDE DEF v
<1>2. /\ w \in KState /\ w.list = v.list /\ w.err = v.err
      /\ w.tick = v.tick /\ w.isr = v.isr /\ w.timers = v.timers /\ w.tmo = v.tmo
  BY <1>1 DEF SetStat, KState, Stat
<1> HIDE DEF w
<1>3. /\ u.list = w.list /\ u.err = w.err /\ u.tick = w.tick /\ u.isr = w.isr
      /\ u.timers = RemoveFirst(w.timers, c) /\ \A x \in Thread \ {c} : u.tmo[x] = w.tmo[x]
      /\ ToDefunct(u, c).list[Defunct] = <<c>> \o u.list[Defunct]
      /\ ToDefunct(u, c).err = u.err /\ ToDefunct(u, c).tick = u.tick
      /\ ToDefunct(u, c).isr = u.isr /\ ToDefunct(u, c).timers = u.timers
      /\ ToDefunct(u, c).tmo = u.tmo
  BY <1>2, HeadFacts DEF TimerDetach, TimerRemove, ToDefunct, KState
<1>4. \/ k' = u /\ type' = [type EXCEPT ![c] = "none"]
      \/ k' = ToDefunct(u, c) /\ type' = type
  BY DEF rt_thread_exit, u, v, w
<1>4a. u.list[Defunct] \in Seq(Thread)
  BY <1>2, <1>3, HeadFacts DEF KState
<1> HIDE DEF u
<1>5. Clock(k, k', c) /\ k'.err = k.err
  BY <1>1, <1>2, <1>3, <1>4 DEF Quiet, Clock
<1>6. /\ op'[c].pc = "exit_sched" /\ \A e \in Thread \ {c} : op'[e] = op[e]
  BY <1>0, CallFacts DEF rt_thread_exit, PC
<1>7. Due(k') /\ \A s \in Thread : Timed(k', s) => Timed(k, s)
  BY <1>5, ClockInv DEF RestInv
<1>8. \A s \in Thread : type'[s] # "none" => type[s] # "none" /\ type'[s] = type[s]
  BY <1>0, <1>4 DEF TypeOK
<1>9. SleepInv'
  <2>1. \A d \in Thread : op[d].pc \in Asleep => op'[d].pc \in Asleep
    BY <1>0, <1>6 DEF Asleep
  <2> QED BY <1>5, <1>7, <1>8, <2>1, SleepSame DEF RestInv
<1>10. \A s \in Thread \ {c} : Linked(k', s, Defunct) => Linked(k, s, Defunct)
  <2>1. Range(<<c>> \o u.list[Defunct]) = {c} \cup Range(u.list[Defunct])
    BY <1>4a, RangeFront
  <2>2. k.list[Defunct] \in Seq(Thread) /\ IsInjective(k.list[Defunct])
    BY <1>0, HeadFacts DEF KState, OneList
  <2>3. Range(RemoveFirst(k.list[Defunct], c)) = Range(k.list[Defunct]) \ {c}
    BY <2>2, RangeRemoveFirst
  <2>4. Range(u.list[Defunct]) \subseteq Range(k.list[Defunct])
    BY <1>1, <1>2, <1>3, <2>3 DEF Quiet
  <2> QED BY <1>3, <1>4, <2>1, <2>4 DEF Linked
<1>11. type[c] # "none"
  BY <1>0 DEF IInv
<1>12. StaticInv'
  <2>1. \A s \in Static : Linked(k', s, Defunct) => type'[s] = "static"
    <3> SUFFICES ASSUME NEW s \in Static, Linked(k', s, Defunct) PROVE type'[s] = "static"
      OBVIOUS
    <3>1. CASE s # c
      <4>1. type[s] = "static"
        BY <1>0, <1>10, <3>1 DEF RestInv, StaticInv
      <4>2. type'[s] = type[s]
        BY <1>0, <1>4, <3>1 DEF TypeOK
      <4> QED BY <4>1, <4>2
    <3>2. CASE s = c
      <4>1. type[c] = "static"
        BY <1>0, <1>11, <3>2 DEF RestInv, StaticInv, Kind
      <4>2. CASE type' = type
        BY <3>2, <4>1, <4>2
      <4>3. CASE k' = u
        <5>1. ~Linked(k', c, Defunct)
          <6>2. k.list[Defunct] \in Seq(Thread) /\ IsInjective(k.list[Defunct])
            BY <1>0, HeadFacts DEF KState, OneList
          <6>3. Range(RemoveFirst(k.list[Defunct], c)) = Range(k.list[Defunct]) \ {c}
            BY <6>2, RangeRemoveFirst
          <6>4. c \notin Range(k.list[Defunct])
            BY <1>0 DEF KInv, ListsAgree, Linked
          <6> QED BY <1>1, <1>2, <1>3, <4>3, <6>3, <6>4 DEF Quiet, Linked
        <5> QED BY <3>2, <5>1
      <4> QED BY <1>4, <4>2, <4>3
    <3> QED BY <3>1, <3>2
  <2>2. \A d \in Thread : op'[d].pc \in {"delete_timer", "delete_close"} =>
          op'[d].on \notin Static \cap HasCleanup
    BY <1>6 DEF RestInv, StaticInv
  <2>3. StaticNotFreed'
    BY <1>0, <1>6 DEF RestInv, StaticInv, StaticNotFreed
  <2>4. \A s \in Thread : type'[s] \in {"none", Kind(s)}
    BY <1>8 DEF RestInv, StaticInv
  <2> QED BY <2>1, <2>2, <2>3, <2>4 DEF StaticInv
<1> QED BY <1>7, <1>9, <1>12 DEF RestInv

LEMMA DeleteRest ==
  ASSUME IInv, IInv', RestInv, NEW c \in Thread, NEW t \in Thread, rt_thread_delete(c, t)
  PROVE  RestInv'
<1>0. /\ KInv(k) /\ k \in KState /\ OneList(k) /\ TypeOK /\ op[c].pc = "run"
      /\ Static \subseteq Thread /\ idle \in Thread /\ type' = type
      /\ t \notin Static \cap HasCleanup
  BY AtFacts, ThreadAssumption, KernelAssumption DEF rt_thread_delete, DeleteAny, KInv
<1>1. Quiet(k, k', t)
  <2>1. CASE k' = k
    BY <2>1 DEF Quiet, Clock
  <2>2. CASE k' = RemoveReady(k, t)
    BY <1>0, <2>2, QuietRemove
  <2> QED BY <2>1, <2>2 DEF rt_thread_delete, DeleteAny
<1>2. /\ op'[c].pc = "delete_timer" /\ op'[c].on = t
      /\ \A e \in Thread \ {c} : op'[e] = op[e]
  BY <1>0, CallFacts DEF rt_thread_delete, DeleteAny, PC
<1>3. Due(k') /\ \A s \in Thread : Timed(k', s) => Timed(k, s)
  BY <1>1, ClockInv DEF Quiet, RestInv
<1>4. SleepInv'
  <2>1. \A d \in Thread : op[d].pc \in Asleep => op'[d].pc \in Asleep
    BY <1>0, <1>2 DEF Asleep
  <2> QED BY <1>0, <1>1, <1>3, <2>1, SleepSame DEF RestInv, Quiet
<1>5. StaticInv'
  <2>1. \A s \in Static : Linked(k', s, Defunct) => type'[s] = "static"
    BY <1>0, <1>1, QuietDefunct DEF RestInv, StaticInv
  <2>2. \A d \in Thread : op'[d].pc \in {"delete_timer", "delete_close"} =>
          op'[d].on \notin Static \cap HasCleanup
    BY <1>0, <1>2 DEF RestInv, StaticInv
  <2>3. StaticNotFreed'
    BY <1>0, <1>2 DEF RestInv, StaticInv, StaticNotFreed
  <2>4. \A s \in Thread : type'[s] \in {"none", Kind(s)}
    BY <1>0 DEF RestInv, StaticInv
  <2> QED BY <2>1, <2>2, <2>3, <2>4 DEF StaticInv
<1> QED BY <1>3, <1>4, <1>5 DEF RestInv

LEMMA DeleteTimerRest ==
  ASSUME IInv, IInv', RestInv, NEW c \in Thread, DeleteTimer(c)
  PROVE  RestInv'
<1>0. /\ k \in KState /\ TypeOK /\ op[c].pc = "delete_timer" /\ op[c].on \in Thread
      /\ Static \subseteq Thread /\ idle \in Thread /\ type' = type
      /\ k' = TimerDetach(k, op[c].on)
  BY AtFacts, ThreadAssumption, KernelAssumption DEF DeleteTimer
<1>1. Quiet(k, k', op[c].on)
  BY <1>0 DEF TimerDetach, TimerRemove, Quiet, Clock, KState
<1>2. /\ op'[c].pc = "delete_close" /\ op'[c].on = op[c].on
      /\ \A e \in Thread \ {c} : op'[e] = op[e]
  BY <1>0, GotoFacts DEF DeleteTimer, PC
<1>3. Due(k') /\ \A s \in Thread : Timed(k', s) => Timed(k, s)
  BY <1>0, <1>1, ClockInv DEF Quiet, RestInv
<1>4. SleepInv'
  <2>1. \A d \in Thread : op[d].pc \in Asleep => op'[d].pc \in Asleep
    BY <1>0, <1>2 DEF Asleep
  <2> QED BY <1>0, <1>1, <1>3, <2>1, SleepSame DEF RestInv, Quiet
<1>5. StaticInv'
  <2>1. \A s \in Static : Linked(k', s, Defunct) => type'[s] = "static"
    BY <1>0, <1>1, QuietDefunct DEF RestInv, StaticInv
  <2>2. \A d \in Thread : op'[d].pc \in {"delete_timer", "delete_close"} =>
          op'[d].on \notin Static \cap HasCleanup
    BY <1>0, <1>2 DEF RestInv, StaticInv
  <2>3. StaticNotFreed'
    BY <1>0, <1>2 DEF RestInv, StaticInv, StaticNotFreed
  <2>4. \A s \in Thread : type'[s] \in {"none", Kind(s)}
    BY <1>0 DEF RestInv, StaticInv
  <2> QED BY <2>1, <2>2, <2>3, <2>4 DEF StaticInv
<1> QED BY <1>3, <1>4, <1>5 DEF RestInv

LEMMA DeleteCloseRest ==
  ASSUME IInv, IInv', RestInv, NEW c \in Thread, DeleteClose(c)
  PROVE  RestInv'
<1>t. PICK t \in Thread : t = op[c].on
  BY DEF IInv, TypeOK
<1> DEFINE u == SetStat(k, t, "CLOSE")
<1>0. /\ KInv(k) /\ k \in KState /\ TypeOK /\ op[c].pc = "delete_close" /\ Unlinked(k, t)
      /\ Static \subseteq Thread /\ idle \in Thread
      /\ t \notin Static \cap HasCleanup
  BY <1>t, AtFacts, ThreadAssumption, KernelAssumption DEF DeleteClose, OpInv, RestInv, StaticInv
<1>1. /\ k' = IF t \in Static \ HasCleanup THEN u ELSE ToDefunct(u, t)
      /\ type' = IF t \in Static THEN [type EXCEPT ![t] = "none"] ELSE type
  BY <1>t DEF DeleteClose
<1>2. /\ u \in KState /\ u.list = k.list /\ u.err = k.err
      /\ u.tick = k.tick /\ u.isr = k.isr /\ u.timers = k.timers /\ u.tmo = k.tmo
  BY <1>0 DEF SetStat, KState, Stat
<1> HIDE DEF u
<1>3. /\ ToDefunct(u, t).list[Defunct] = <<t>> \o u.list[Defunct]
      /\ ToDefunct(u, t).err = u.err /\ ToDefunct(u, t).tick = u.tick
      /\ ToDefunct(u, t).isr = u.isr /\ ToDefunct(u, t).timers = u.timers
      /\ ToDefunct(u, t).tmo = u.tmo
  BY <1>2, HeadFacts DEF ToDefunct, KState
<1>4. Clock(k, k', t) /\ k'.err = k.err
  BY <1>1, <1>2, <1>3 DEF Clock
<1>5. /\ op'[c].pc = "run" /\ \A e \in Thread \ {c} : op'[e] = op[e]
  BY <1>0, CallFacts DEF DeleteClose, PC
<1>6. Due(k') /\ \A s \in Thread : Timed(k', s) => Timed(k, s)
  BY <1>4, ClockInv DEF RestInv
<1>7. \A s \in Thread : type'[s] # "none" => type[s] # "none" /\ type'[s] = type[s]
  BY <1>0, <1>1 DEF TypeOK
<1>8. SleepInv'
  <2>1. \A d \in Thread : op[d].pc \in Asleep => op'[d].pc \in Asleep
    BY <1>0, <1>5 DEF Asleep
  <2> QED BY <1>4, <1>6, <1>7, <2>1, SleepSame DEF RestInv
<1>9. \A s \in Static : Linked(k', s, Defunct) => type'[s] = "static"
  <2> SUFFICES ASSUME NEW s \in Static, Linked(k', s, Defunct) PROVE type'[s] = "static"
    OBVIOUS
  <2>1. k.list[Defunct] \in Seq(Thread)
    BY <1>0, HeadFacts DEF KState
  <2>2. Range(<<t>> \o k.list[Defunct]) = {t} \cup Range(k.list[Defunct])
    BY <2>1, RangeFront
  <2>3. s # t
    <3>1. CASE t \in Static
      <4>1. k' = u
        BY <1>0, <1>1, <3>1
      <4>2. ~Linked(k', t, Defunct)
        BY <1>0, <1>2, <4>1, HeadFacts DEF Unlinked, Linked
      <4> QED BY <4>2
    <3>2. CASE t \notin Static
      BY <3>2
    <3> QED BY <3>1, <3>2
  <2>4. Linked(k, s, Defunct)
    BY <1>1, <1>2, <1>3, <2>2, <2>3 DEF Linked
  <2>5. type'[s] = type[s]
    BY <1>0, <1>1, <2>3 DEF TypeOK
  <2> QED BY <2>4, <2>5 DEF RestInv, StaticInv
<1>10. StaticInv'
  <2>2. \A d \in Thread : op'[d].pc \in {"delete_timer", "delete_close"} =>
          op'[d].on \notin Static \cap HasCleanup
    BY <1>5 DEF RestInv, StaticInv
  <2>3. StaticNotFreed'
    BY <1>0, <1>5 DEF RestInv, StaticInv, StaticNotFreed
  <2>4. \A s \in Thread : type'[s] \in {"none", Kind(s)}
    BY <1>7 DEF RestInv, StaticInv
  <2> QED BY <1>9, <2>2, <2>3, <2>4 DEF StaticInv
<1> QED BY <1>6, <1>8, <1>10 DEF RestInv

LEMMA IdleReapRest ==
  ASSUME IInv, IInv', RestInv, IdleReap
  PROVE  RestInv'
<1> DEFINE q == k.list[Defunct]
<1>t. PICK t : t = Head(q)
  OBVIOUS
<1> DEFINE v == Unlink(k, t)
<1>0. /\ KInv(k) /\ k \in KState /\ OneList(k) /\ TypeOK /\ op[idle].pc = "run"
      /\ Static \subseteq Thread /\ idle \in Thread /\ type' = type /\ q # <<>>
      /\ k' = Schedule(v)
  BY <1>t, AtFacts, ThreadAssumption, KernelAssumption DEF IdleReap, KInv
<1>1. t \in Thread /\ t \in Range(q)
  <2>1. q \in Seq(Thread) /\ IsInjective(q)
    BY <1>0, HeadFacts DEF KState, OneList
  <2> QED BY <1>0, <1>t, <2>1, RangeHeadTail
<1> HIDE DEF q
<1>2. v \in KState /\ Quiet(k, v, t)
  BY <1>0, <1>1, UnlinkProps, QuietUnlink
<1> HIDE DEF v
<1>3. Quiet(k, k', t)
  BY <1>0, <1>1, <1>2, QuietSchedule DEF Quiet, Clock
<1>4. Due(k') /\ \A s \in Thread : Timed(k', s) => Timed(k, s)
  BY <1>1, <1>3, ClockInv DEF Quiet, RestInv
<1>5. /\ \A e \in Thread \ {idle} : op'[e] = op[e]
      /\ \/ op' = op
         \/ op'[idle].pc = "reap_free" /\ op'[idle].on = t /\ type[t] # "static"
  <2>1. CASE op' = op
    BY <2>1
  <2>2. CASE Call(idle, "reap_free", t) /\ type[t] # "static"
    BY <1>0, <1>1, <2>2, CallFacts DEF PC
  <2> QED BY <1>t, <2>1, <2>2 DEF IdleReap, q
<1>6. SleepInv'
  <2>1. \A d \in Thread : op[d].pc \in Asleep => op'[d].pc \in Asleep
    BY <1>0, <1>5 DEF Asleep
  <2> QED BY <1>0, <1>3, <1>4, <2>1, SleepSame DEF RestInv, Quiet
<1>7. t \in Static => type[t] = "static"
  BY <1>1 DEF RestInv, StaticInv, Linked, q
<1>8. StaticInv'
  <2>1. \A s \in Static : Linked(k', s, Defunct) => type'[s] = "static"
    BY <1>0, <1>1, <1>3, QuietDefunct DEF RestInv, StaticInv
  <2>2. \A d \in Thread : op'[d].pc \in {"delete_timer", "delete_close"} =>
          op'[d].on \notin Static \cap HasCleanup
    <3> SUFFICES ASSUME NEW d \in Thread, op'[d].pc \in {"delete_timer", "delete_close"}
                 PROVE  op'[d].on \notin Static \cap HasCleanup
      OBVIOUS
    <3>1. op'[d] = op[d]
      BY <1>5
    <3> QED BY <3>1 DEF RestInv, StaticInv
  <2>3. StaticNotFreed'
    BY <1>0, <1>5, <1>7 DEF StaticNotFreed
  <2>4. \A s \in Thread : type'[s] \in {"none", Kind(s)}
    BY <1>0 DEF RestInv, StaticInv
  <2> QED BY <2>1, <2>2, <2>3, <2>4 DEF StaticInv
<1> QED BY <1>4, <1>6, <1>8 DEF RestInv

LEMMA IdleFreeRest ==
  ASSUME IInv, IInv', RestInv, IdleFree
  PROVE  RestInv'
<1>t. PICK t \in Thread : t = op[idle].on
  BY KernelAssumption DEF IInv, TypeOK
<1>0. /\ KInv(k) /\ k' = k /\ TypeOK /\ op[idle].pc = "reap_free" /\ t \notin Static
      /\ Static \subseteq Thread /\ idle \in Thread
      /\ type' = [type EXCEPT ![t] = "none"]
  BY <1>t, AtFacts, ThreadAssumption, KernelAssumption
     DEF IdleFree, RestInv, StaticInv, StaticNotFreed
<1>1. /\ op'[idle].pc = "run" /\ \A e \in Thread \ {idle} : op'[e] = op[e]
  BY <1>0, CallFacts DEF IdleFree, PC
<1>2. \A s \in Thread : type'[s] # "none" => type[s] # "none" /\ type'[s] = type[s]
  BY <1>0 DEF TypeOK
<1>3. SleepInv'
  <2>1. \A d \in Thread : op[d].pc \in Asleep => op'[d].pc \in Asleep
    BY <1>0, <1>1 DEF Asleep
  <2> QED BY <1>0, <1>2, <2>1, SleepSame DEF RestInv
<1>4. StaticInv'
  <2>1. \A s \in Static : Linked(k', s, Defunct) => type'[s] = "static"
    <3> SUFFICES ASSUME NEW s \in Static, Linked(k', s, Defunct) PROVE type'[s] = "static"
      OBVIOUS
    <3>1. type'[s] = type[s]
      BY <1>0 DEF TypeOK
    <3> QED BY <1>0, <3>1 DEF RestInv, StaticInv
  <2>2. \A d \in Thread : op'[d].pc \in {"delete_timer", "delete_close"} =>
          op'[d].on \notin Static \cap HasCleanup
    BY <1>1 DEF RestInv, StaticInv
  <2>3. StaticNotFreed'
    BY <1>1 DEF StaticNotFreed
  <2>4. \A s \in Thread : type'[s] \in {"none", Kind(s)}
    BY <1>2 DEF RestInv, StaticInv
  <2> QED BY <2>1, <2>2, <2>3, <2>4 DEF StaticInv
<1> QED BY <1>0, <1>3, <1>4 DEF RestInv

LEMMA TickRest ==
  ASSUME IInv, IInv', RestInv, rt_tick_increase
  PROVE  RestInv'
<1> DEFINE t == k.cur
           n == IF k.slice[t] = 1 THEN InitTick[t] ELSE k.slice[t] - 1
           u == [k EXCEPT !.tick = (k.tick + 1) % TickMod, !.isr = TRUE, !.slice[t] = n]
<1>0. /\ k \in KState /\ k' \in KState /\ ~k.isr /\ k' = TickIncrease(k) /\ op' = op /\ type' = type
      /\ k.cur \in Thread /\ k.slice[k.cur] \in Nat \ {0} /\ k.tick \in Tick
  BY DEF IInv, KInv, KState, rt_tick_increase
<1>1. /\ u.tick = (k.tick + 1) % TickMod /\ u.isr /\ u.timers = k.timers /\ u.tmo = k.tmo
      /\ u.err = k.err /\ u.list = k.list
  BY <1>0 DEF KState
<1>2. u \in KState
  <2>1. k.tick + 1 \in Nat
    BY <1>0, KernelAssumption DEF Tick
  <2>2. (k.tick + 1) % TickMod \in Tick
    BY <2>1, TickRange
  <2>3. n \in Nat \ {0}
    BY <1>0, KernelAssumption
  <2> HIDE DEF n
  <2> QED BY <1>0, <2>2, <2>3 DEF KState
<1>3. k' = u \/ k' = Yield(u)
  BY <1>0 DEF TickIncrease
<1> HIDE DEF u
<1>4. /\ k'.tick = u.tick /\ k'.isr = u.isr /\ k'.timers = u.timers /\ k'.tmo = u.tmo
      /\ k'.err = u.err /\ k'.list[Defunct] = u.list[Defunct]
  BY <1>2, <1>3, QuietYield
<1>5. Due(k')
  BY <1>0, <1>1, <1>4, DueTick DEF RestInv
<1>6. \A s \in Thread : /\ Timed(k', s) <=> Timed(k, s)
                        /\ Linked(k', s, Defunct) <=> Linked(k, s, Defunct)
  BY <1>1, <1>4 DEF Timed, Linked
<1>7. SleepInv'
  BY <1>0, <1>1, <1>4, <1>6, SleepSame DEF RestInv
<1>8. StaticInv'
  <2>1. OpStep(k.cur)
    BY <1>0 DEF OpStep
  <2> QED BY <1>0, <1>6, <2>1, StaticSame DEF RestInv
<1> QED BY <1>5, <1>7, <1>8 DEF RestInv

LEMMA TimerRest ==
  ASSUME IInv, IInv', RestInv, rt_timer_check
  PROVE  RestInv'
<1>0. /\ KInv(k) /\ k \in KState /\ k' \in KState /\ k.isr /\ k' = TimerCheck(k) /\ op' = op
      /\ type' = type /\ k.cur \in Thread /\ OneList(k)
  BY DEF IInv, KInv, KState, rt_timer_check
<1>s. OpStep(k.cur)
  BY <1>0 DEF OpStep
<1>1. CASE ~Expired(k)
  <2>1. k' = [k EXCEPT !.isr = FALSE]
    BY <1>0, <1>1 DEF TimerCheck
  <2>2. /\ k'.tick = k.tick /\ ~k'.isr /\ k'.timers = k.timers /\ k'.tmo = k.tmo
        /\ k'.err = k.err /\ k'.list = k.list
    BY <1>0, <2>1 DEF KState
  <2>3. Due(k')
    BY <1>0, <1>1, <2>2, DueLeave DEF RestInv
  <2>4. \A s \in Thread : /\ Timed(k', s) <=> Timed(k, s)
                          /\ Linked(k', s, Defunct) <=> Linked(k, s, Defunct)
    BY <2>2 DEF Timed, Linked
  <2>5. SleepInv'
    BY <1>0, <2>2, <2>4, SleepSame DEF RestInv
  <2>6. StaticInv'
    BY <1>0, <1>s, <2>4, StaticSame DEF RestInv
  <2> QED BY <2>3, <2>5, <2>6 DEF RestInv
<1>2. CASE Expired(k)
  <2>t. PICK t : t = Head(k.timers)
    OBVIOUS
  <2> DEFINE u == [k EXCEPT !.timers = Tail(@), !.tmo[t] = 0, !.act = @ \ {t},
                            !.err[t] = "ETIMEOUT"]
             v == Unlink(u, t)
             w == InsertReady(v, t)
  <2>1. /\ k.timers # <<>> /\ k.timers \in Seq(Thread) /\ IsInjective(k.timers)
        /\ k' = Schedule(w)
    BY <1>0, <1>2, <2>t DEF Expired, TimerCheck, TimerFire, KState, OneList
  <2>2. t \in Thread /\ Timed(k, t) /\ Tail(k.timers) \in Seq(Thread)
        /\ Range(Tail(k.timers)) = Range(k.timers) \ {t}
    BY <2>1, <2>t, RangeHeadTail DEF Timed
  <2>3. /\ u.tick = k.tick /\ u.isr = k.isr /\ u.timers = Tail(k.timers)
        /\ u.tmo = [k.tmo EXCEPT ![t] = 0]
        /\ u.err = [k.err EXCEPT ![t] = "ETIMEOUT"] /\ u.list = k.list
    BY <1>0 DEF KState
  <2>4. u \in KState /\ OneList(u)
    <3>1. 0 \in Tick
      BY KernelAssumption DEF Tick
    <3>2. u \in KState
      BY <1>0, <2>2, <3>1 DEF KState, Err
    <3>3. IsInjective(u.timers)
      BY <2>1, <2>3, RangeHeadTail
    <3> HIDE DEF u
    <3> QED BY <1>0, <2>3, <3>2, <3>3 DEF OneList
  <2> HIDE DEF u
  <2>5. v \in KState /\ Quiet(u, v, t) /\ v.timers = u.timers /\ v.tmo = u.tmo
    BY <2>2, <2>4, UnlinkProps, UnlinkFrame, QuietUnlink
  <2>6. /\ v.list[Defunct] \in {k.list[Defunct], RemoveFirst(k.list[Defunct], t)}
        /\ v.tick = k.tick /\ v.isr = k.isr /\ v.err = u.err
    BY <2>3, <2>5 DEF Quiet, Clock
  <2> HIDE DEF v
  <2>7. /\ w.timers = v.timers /\ w.tmo = v.tmo /\ w.err = v.err /\ w.tick = v.tick
        /\ w.isr = v.isr
    BY <2>2, <2>5, InsertReadyFrame
  <2>8. w.list[Defunct] = v.list[Defunct] /\ w \in KState
    <3>1. v.prio[t] \in Prio /\ v.list \in [ListHead -> Seq(Thread)]
      BY <2>2, <2>5 DEF KState
    <3>2. Ready(v.prio[t]) \in ListHead /\ Defunct \in ListHead /\ Ready(v.prio[t]) # Defunct
      BY <3>1, HeadFacts
    <3>3. w.list[Defunct] = v.list[Defunct]
      BY <2>5, <3>1, <3>2 DEF InsertReady, KState
    <3>4. w \in KState
      <4> DEFINE h == Ready(v.prio[t])
                 l == [v.list EXCEPT ![h] = Append(@, t)]
                 g == v.group \cup v.mask[t]
      <4>1. l \in [ListHead -> Seq(Thread)]
        BY <2>2, <3>1, <3>2
      <4>2. g \in SUBSET Prio
        BY <2>2, <2>5 DEF KState
      <4>3. w = [v EXCEPT !.stat = [v.stat EXCEPT ![t] = "READY"], !.list = l, !.group = g]
        BY <2>5 DEF InsertReady, KState
      <4>4. [v.stat EXCEPT ![t] = "READY"] \in [Thread -> Stat]
        BY <2>2, <2>5 DEF KState, Stat
      <4> HIDE DEF l, g, w
      <4> QED BY <2>5, <4>1, <4>2, <4>3, <4>4 DEF KState
    <3> QED BY <3>3, <3>4
  <2> HIDE DEF w
  <2>9. /\ k'.timers = w.timers /\ k'.tmo = w.tmo /\ k'.err = w.err /\ k'.tick = w.tick
        /\ k'.isr = w.isr /\ k'.list = w.list
    BY <2>1, <2>2, <2>8, QuietSchedule
  <2>10. \A s \in Thread \ {t} : k'.tmo[s] = k.tmo[s] /\ k'.err[s] = k.err[s]
    BY <1>0, <2>2, <2>3, <2>5, <2>6, <2>7, <2>9 DEF KState
  <2>11. Due(k')
    BY <1>0, <2>t, <2>1, <2>3, <2>5, <2>6, <2>7, <2>9, <2>10, DueFire DEF RestInv
  <2>12. SleepInv'
    <3>1. \A s \in Thread : Timed(k', s) => Timed(k, s)
      BY <2>2, <2>3, <2>5, <2>7, <2>9 DEF Timed
    <3> QED BY <1>0, <2>2, <2>10, <3>1 DEF SleepInv, RestInv
  <2>13. \A s \in Thread : Linked(k', s, Defunct) => Linked(k, s, Defunct)
    <3>1. k.list[Defunct] \in Seq(Thread) /\ IsInjective(k.list[Defunct])
      BY <1>0, HeadFacts DEF KState, OneList
    <3>2. Range(RemoveFirst(k.list[Defunct], t)) = Range(k.list[Defunct]) \ {t}
      BY <3>1, RangeRemoveFirst
    <3> QED BY <2>6, <2>8, <2>9, <3>2 DEF Linked
  <2>14. StaticInv'
    BY <1>0, <1>s, <2>13, StaticSame DEF RestInv
  <2> QED BY <2>11, <2>12, <2>14 DEF RestInv
<1> QED BY <1>1, <1>2

LEMMA InitRest ==
  ASSUME Init
  PROVE  RestInv
<1>0. k = KInit(main) /\ main \in Thread /\ idle \in Thread
  BY ThreadAssumption, KernelAssumption DEF Init
<1>1. /\ k.timers = <<>> /\ \A t \in Thread : k.err[t] = "EOK"
  BY <1>0 DEF KInit
<1>2. \A t \in Thread : op[t].pc = "run"
  BY DEF Init
<1>3. k.list[Defunct] = <<>>
  BY <1>0, HeadFacts DEF KInit
<1>4. StaticInv
  <2>1. \A t \in Thread : type[t] \in {"none", Kind(t)}
    BY DEF Init
  <2>2. \A t \in Static : ~Linked(k, t, Defunct)
    BY <1>3 DEF Linked, Range
  <2>3. StaticNotFreed
    BY <1>0, <1>2 DEF StaticNotFreed
  <2> QED BY <1>2, <2>1, <2>2, <2>3 DEF StaticInv
<1>5. SleepInv
  BY <1>1 DEF SleepInv, Timed, Range
<1>6. Due(k)
  BY <1>1 DEF Due, Sorted, Timed, Range
<1> QED BY <1>4, <1>5, <1>6 DEF RestInv

LEMMA NextRest ==
  ASSUME IInv, RestInv, [Next]_vars
  PROVE  RestInv'
<1>0. IInv'
  BY NextInv
<1>1. CASE UNCHANGED vars
  BY <1>1 DEF vars, RestInv, StaticInv, SleepInv, StaticNotFreed, Kind
<1>q. ASSUME NEW c \in Thread, (\E x \in Thread : Quiet(k, k', x)), OpStep(c), type' = type
      PROVE  RestInv'
  BY <1>0, <1>q, QuietRest
<1>2. ASSUME NEW c \in Thread \ {idle}, Begin(c) PROVE RestInv'
  <2>1. CASE \E t \in Thread : rt_thread_create(c, t)
    BY <1>0, <2>1, CreateRest
  <2>2. CASE \E t \in Thread : rt_thread_delete(c, t)
    BY <1>0, <2>2, DeleteRest
  <2>3. CASE \E d \in Delay : rt_thread_sleep(c, d)
    BY <1>0, <2>3, SleepRest
  <2>4. CASE rt_thread_exit(c)
    BY <1>0, <2>4, ExitRest
  <2>5. CASE \/ \E t \in Thread : \/ rt_thread_startup(c, t) \/ rt_thread_resume(c, t)
                                  \/ rt_thread_suspend(c, t)
                                  \/ \E p \in Prio : rt_thread_change_priority(c, t, p)
             \/ SuspendSelf(c) \/ rt_thread_yield(c) \/ rt_enter_critical(c)
             \/ rt_exit_critical(c)
    BY <1>q, <2>5, QuietSteps
  <2> QED BY <1>2, <2>1, <2>2, <2>3, <2>4, <2>5 DEF Begin
<1>3. ASSUME NEW c \in Thread \ {idle}, Continue(c) PROVE RestInv'
  <2>1. CASE SleepReturn(c)
    BY <1>0, <2>1, SleepReturnRest
  <2>2. CASE DeleteTimer(c)
    BY <1>0, <2>2, DeleteTimerRest
  <2>3. CASE DeleteClose(c)
    BY <1>0, <2>3, DeleteCloseRest
  <2>4. CASE \/ StartUnlink(c) \/ StartInsert(c) \/ ResumeUnlinkStep(c) \/ ResumeInsert(c)
             \/ SuspendOther(c) \/ rt_schedule(c) \/ SleepSchedule(c) \/ ExitSchedule(c)
    BY <1>q, <2>4, QuietSteps
  <2> QED BY <1>3, <2>1, <2>2, <2>3, <2>4 DEF Continue
<1>4. CASE IdleReap \/ IdleFree
  BY <1>0, <1>4, IdleReapRest, IdleFreeRest
<1>5. CASE Interrupt
  BY <1>0, <1>5, TickRest, TimerRest DEF Interrupt
<1> QED BY <1>1, <1>2, <1>3, <1>4, <1>5 DEF Next

\* The parts of RestInv hold in every reachable state.
THEOREM RestInvariance == Spec => []RestInv
<1>1. Init => RestInv
  BY InitRest
<1>2. IInv /\ RestInv /\ [Next]_vars => RestInv'
  BY NextRest
<1> QED BY <1>1, <1>2, Invariance, PTL DEF Spec

\* rt_timer_list is in the order of expiry and nothing in it is overdue outside
\* the tick interrupt, although rt_timer_start compares tick counts that wrap
\* and rt_timer_check looks at the first timer only.
THEOREM TimerListOrdered == Spec => []TimersOrdered
<1>1. ASSUME IInv, RestInv PROVE TimersOrdered
  <2>1. k \in KState /\ Due(k)
    BY <1>1 DEF IInv, KInv, RestInv
  <2> QED BY <2>1, DueMeans DEF TimersOrdered
<1> QED BY <1>1, Invariance, RestInvariance, PTL

\* rt_thread_idle_excute never frees the memory of a static thread that ended
\* or was detached without a cleanup function.
THEOREM StaticMemoryKept == Spec => []StaticNotFreed
<1>1. RestInv => StaticNotFreed
  BY DEF RestInv, StaticInv
<1> QED BY <1>1, RestInvariance, PTL

\* A thread that is back from rt_thread_sleep has no timeout left in its error.
THEOREM TimeoutForgotten == Spec => []NoStaleTimeout
<1>1. RestInv => NoStaleTimeout
  BY DEF RestInv, SleepInv, NoStaleTimeout, Asleep, live
<1> QED BY <1>1, RestInvariance, PTL
=============================================================================
