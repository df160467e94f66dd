---------------------------- MODULE RtIpcProofs ----------------------------
(***************************************************************************)
(* What the primitives of ipc.c do to the kernel structures, and the       *)
(* invariant of the callers that every blocking object shares, whatever    *)
(* the number of threads, priorities, objects and ticks.                   *)
(***************************************************************************)
EXTENDS RtIpc, RtKernelProofs, TLAPS

-----------------------------------------------------------------------------
(* The primitives *)

\* thread->error is in no list.
LEMMA SetErrInv ==
  ASSUME NEW s, KInv(s), NEW t \in Thread, NEW v \in Err
  PROVE  LET u == [s EXCEPT !.err[t] = v]
         IN  /\ KInv(u) /\ StaleBits(u) = StaleBits(s)
             /\ u.err = [s.err EXCEPT ![t] = v]
             /\ u.stat = s.stat /\ u.prio = s.prio /\ u.mask = s.mask /\ u.list = s.list
             /\ u.timers = s.timers /\ u.cur = s.cur /\ u.lock = s.lock /\ u.isr = s.isr
<1> DEFINE u == [s EXCEPT !.err[t] = v]
<1>1. s \in KState
  BY DEF KInv
<1>2. /\ u \in KState
      /\ u.err = [s.err EXCEPT ![t] = v]
      /\ u.stat = s.stat /\ u.prio = s.prio /\ u.mask = s.mask /\ u.list = s.list
      /\ u.group = s.group /\ u.timers = s.timers /\ u.act = s.act
      /\ u.cur = s.cur /\ u.lock = s.lock /\ u.isr = s.isr
  BY <1>1 DEF KState
<1> HIDE DEF u
<1>3. KInv(u) /\ StaleBits(u) = StaleBits(s)
  BY <1>2, KInvFrame
<1> QED BY <1>2, <1>3 DEF u

\* rt_thread_suspend takes the thread out of every list and leaves the order of
\* the others; thread->error is not touched.
LEMMA SuspendLists ==
  ASSUME NEW s \in KState, OneList(s), NEW t \in Thread
  PROVE  LET u == Suspend(s, t)
         IN  /\ u.list = [h \in ListHead |-> RemoveFirst(s.list[h], t)]
             /\ u.err = s.err /\ u.mask = s.mask
<1> DEFINE w == SetStat(s, t, "SUSPEND")
           v == RemoveReady(w, t)
<1>1. w \in KState /\ w.list = s.list /\ w.err = s.err /\ w.mask = s.mask /\ w.timers = s.timers
  BY DEF SetStat, KState, Stat
<1>2. OneList(w)
  BY <1>1 DEF OneList
<1> HIDE DEF w
<1>3. v \in KState /\ v.list = Unlink(w, t).list /\ v.err = w.err /\ v.mask = w.mask
  BY <1>1, <1>2, RemoveReadyProps
<1>4. Unlink(w, t).list = [h \in ListHead |-> RemoveFirst(w.list[h], t)]
  BY <1>1 DEF Unlink, KState
<1> HIDE DEF v
<1>5. /\ TimerStop(v, t).list = v.list /\ TimerStop(v, t).err = v.err
      /\ TimerStop(v, t).mask = v.mask
  BY <1>3 DEF TimerStop, TimerRemove, KState
<1> QED BY <1>1, <1>3, <1>4, <1>5 DEF Suspend, v, w

\* rt_thread_resume of a suspended thread: it goes from whatever list it is in
\* to the queue of its priority, and its timer stops.
LEMMA ResumeInv ==
  ASSUME NEW s, KInv(s), NEW t \in Thread, t # idle, s.stat[t] = "SUSPEND"
  PROVE  LET u == Resume(s, t)
         IN  /\ KInv(u) /\ StaleBits(u) \subseteq StaleBits(s)
             /\ u.stat = [s.stat EXCEPT ![t] = "READY"]
             /\ \A h \in ListHead : Range(u.list[h]) =
                  IF h = Ready(s.prio[t]) THEN (Range(s.list[h]) \ {t}) \cup {t}
                                          ELSE Range(s.list[h]) \ {t}
             /\ \A o \in Obj : u.list[Wait(o)] = RemoveFirst(s.list[Wait(o)], t)
             /\ Range(u.timers) = Range(s.timers) \ {t}
             /\ u.err = s.err /\ u.prio = s.prio
             /\ u.cur = s.cur /\ u.lock = s.lock /\ u.isr = s.isr
<1> DEFINE v == ResumeUnlink(s, t)
           u == Resume(s, t)
<1>0. s \in KState /\ s.mask[t] = {s.prio[t]} /\ s.prio[t] \in Prio
  BY DEF KInv, ListsAgree, KState
<1>1. /\ KInv(v) /\ Unlinked(v, t) /\ ~Timed(v, t)
      /\ \A p \in StaleBits(v) : p \in StaleBits(s) \/ Linked(s, t, Ready(p))
      /\ \A h \in ListHead : Range(v.list[h]) = Range(s.list[h]) \ {t}
      /\ Range(v.timers) = Range(s.timers) \ {t}
      /\ v.stat = s.stat /\ v.prio = s.prio /\ v.mask = s.mask
      /\ v.cur = s.cur /\ v.lock = s.lock /\ v.isr = s.isr
  BY ResumeUnlinkInv
<1>2. v.err = s.err /\ v.list = [h \in ListHead |-> RemoveFirst(s.list[h], t)]
  <2>1. Unlink(s, t) \in KState
    BY <1>0, UnlinkProps DEF KInv
  <2>2. Unlink(s, t).err = s.err
        /\ Unlink(s, t).list = [h \in ListHead |-> RemoveFirst(s.list[h], t)]
    BY <1>0 DEF Unlink, KState
  <2>3. ASSUME NEW x \in KState
        PROVE  TimerStop(x, t).err = x.err /\ TimerStop(x, t).list = x.list
    BY DEF TimerStop, TimerRemove, KState
  <2> QED BY <2>1, <2>2, <2>3 DEF ResumeUnlink
<1>3. StaleBits(v) \subseteq StaleBits(s)
  <2>1. \A p \in Prio : ~Linked(s, t, Ready(p))
    BY DEF KInv, ListsAgree
  <2>2. StaleBits(v) \subseteq Prio
    BY <1>1 DEF StaleBits, KInv, KState
  <2> QED BY <1>1, <2>1, <2>2
<1> HIDE DEF v
<1>4. v.mask[t] = {v.prio[t]} /\ v \in KState
  BY <1>0, <1>1 DEF KInv
<1>5. u = InsertReady(v, t)
  BY DEF Resume, v
<1>6. /\ KInv(u)
      /\ u.stat = [v.stat EXCEPT ![t] = "READY"]
      /\ \A h \in ListHead : Range(u.list[h]) =
           IF h = Ready(v.prio[t]) THEN Range(v.list[h]) \cup {t} ELSE Range(v.list[h])
      /\ StaleBits(u) \subseteq StaleBits(v) \ {v.prio[t]}
  BY <1>1, <1>4, <1>5, InsertReadyInv
<1>7. /\ u.prio = v.prio /\ u.err = v.err /\ u.cur = v.cur /\ u.lock = v.lock
      /\ u.timers = v.timers /\ u.isr = v.isr
  BY <1>4, <1>5, InsertReadyFrame
<1>8. \A o \in Obj : u.list[Wait(o)] = v.list[Wait(o)]
  <2>1. u.list = [v.list EXCEPT ![Ready(v.prio[t])] = Append(@, t)]
    BY <1>4, <1>5 DEF InsertReady, KState
  <2>2. \A o \in Obj : Wait(o) \in ListHead /\ Wait(o) # Ready(v.prio[t])
    BY HeadFacts
  <2> QED BY <1>4, <2>1, <2>2 DEF KState
<1> HIDE DEF u
<1>9. \A o \in Obj : u.list[Wait(o)] = RemoveFirst(s.list[Wait(o)], t)
  BY <1>2, <1>8, HeadFacts
<1>10. \A h \in ListHead : Range(u.list[h]) =
         IF h = Ready(s.prio[t]) THEN (Range(s.list[h]) \ {t}) \cup {t}
                                 ELSE Range(s.list[h]) \ {t}
  BY <1>1, <1>6
<1> QED BY <1>1, <1>2, <1>3, <1>6, <1>7, <1>9, <1>10 DEF u

\* rt_thread_resume stops the timer of t and no other.
LEMMA ResumeTmo ==
  ASSUME NEW s \in KState, NEW t \in Thread
  PROVE  \A x \in Thread \ {t} : Resume(s, t).tmo[x] = s.tmo[x]
<1> DEFINE v == Unlink(s, t)
           w == TimerStop(v, t)
<1>1. DOMAIN v = DOMAIN s /\ v.tmo = s.tmo
  BY DEF Unlink, KState
<1> HIDE DEF v
<1>2. DOMAIN w = DOMAIN s /\ \A x \in Thread \ {t} : w.tmo[x] = s.tmo[x]
  BY <1>1 DEF TimerStop, TimerRemove, KState
<1> HIDE DEF w
<1>3. InsertReady(w, t).tmo = w.tmo
  BY <1>2 DEF InsertReady, KState
<1>4. Resume(s, t) = InsertReady(w, t)
  BY DEF Resume, ResumeUnlink, v, w
<1> QED BY <1>2, <1>3, <1>4

\* rt_schedule writes rt_current_thread and nothing else.
LEMMA ScheduleFrame ==
  ASSUME NEW s \in KState
  PROVE  LET u == Schedule(s)
         IN  /\ u.err = s.err /\ u.stat = s.stat /\ u.prio = s.prio /\ u.list = s.list
             /\ u.timers = s.timers /\ u.lock = s.lock /\ u.isr = s.isr
             /\ u.tick = s.tick /\ u.tmo = s.tmo
BY DEF Schedule, KState

LinkWait(s, o, q) == [s EXCEPT !.list[Wait(o)] = q]

\* A suspended thread that is in no list is linked into a suspend list.
LEMMA LinkWaitInv ==
  ASSUME NEW s, KInv(s), NEW t \in Thread, Unlinked(s, t), s.stat[t] = "SUSPEND",
         NEW o \in Obj, NEW q \in Seq(Thread), IsInjective(q),
         Range(q) = Range(s.list[Wait(o)]) \cup {t}
  PROVE  LET u == LinkWait(s, o, q)
         IN  /\ KInv(u) /\ StaleBits(u) = StaleBits(s)
             /\ u.list = [s.list EXCEPT ![Wait(o)] = q]
             /\ u.stat = s.stat /\ u.prio = s.prio /\ u.err = s.err
             /\ u.timers = s.timers /\ u.cur = s.cur /\ u.lock = s.lock /\ u.isr = s.isr
             /\ u.tick = s.tick /\ u.tmo = s.tmo
<1> DEFINE u == LinkWait(s, o, q)
<1>0. s \in KState /\ Wait(o) \in ListHead
  BY HeadFacts DEF KInv
<1>1. /\ u \in KState
      /\ u.list = [s.list EXCEPT ![Wait(o)] = q]
      /\ u.stat = s.stat /\ u.prio = s.prio /\ u.err = s.err /\ u.mask = s.mask
      /\ u.group = s.group /\ u.act = s.act
      /\ u.timers = s.timers /\ u.cur = s.cur /\ u.lock = s.lock /\ u.isr = s.isr
      /\ u.tick = s.tick /\ u.tmo = s.tmo
  BY <1>0 DEF KState, LinkWait
<1> HIDE DEF u
<1>2. /\ u.list[Wait(o)] = q
      /\ \A h \in ListHead : h # Wait(o) => u.list[h] = s.list[h]
  BY <1>0, <1>1 DEF KState
<1>3. \A h \in ListHead : t \notin Range(s.list[h])
  BY DEF Unlinked, Linked
<1>4. OneList(u)
  <2>1. \A h \in ListHead : IsInjective(u.list[h])
    BY <1>2 DEF KInv, OneList
  <2>2. ASSUME NEW g \in ListHead, NEW h \in ListHead, g # h
        PROVE  Range(u.list[g]) \cap Range(u.list[h]) = {}
    <3>1. Range(s.list[g]) \cap Range(s.list[h]) = {}
      BY <2>2 DEF KInv, OneList
    <3>2. \A f \in ListHead : Range(u.list[f]) \subseteq Range(s.list[f]) \cup {t}
                            /\ (f # Wait(o) => Range(u.list[f]) = Range(s.list[f]))
      BY <1>2
    <3> QED BY <2>2, <3>1, <3>2, <1>3
  <2> QED BY <1>1, <2>1, <2>2 DEF KInv, OneList
<1>5. ListsAgree(u)
  <2>1. \A x \in Thread, h \in ListHead :
          Linked(u, x, h) => Linked(s, x, h) \/ (x = t /\ h = Wait(o))
    BY <1>2 DEF Linked
  <2> QED BY <1>1, <2>1, HeadFacts DEF KInv, ListsAgree, Timed
<1>6. /\ \A p \in Prio : u.list[Ready(p)] = s.list[Ready(p)]
      /\ PrioMax - 1 \in Prio
  BY <1>2, HeadFacts, KernelAssumption DEF Prio
<1>7. BitsCover(u)
  BY <1>1, <1>6 DEF KInv, BitsCover, Linked
<1>8. StaleBits(u) = StaleBits(s)
  BY <1>0, <1>1, <1>6 DEF StaleBits, KState
<1> QED BY <1>1, <1>4, <1>5, <1>7, <1>8 DEF KInv, u

\* thread->error is not touched by rt_timer_start.
LEMMA TimerStartErr ==
  ASSUME NEW s \in KState, NEW t \in Thread, NEW d \in Nat
  PROVE  TimerStart(s, t, d).err = s.err
BY DEF TimerStart, TimerRemove, KState

\* What blocking does: from s to u the thread t goes to sleep in the suspend list
\* of o, at the place of its priority, with a timer if d is a number of ticks.
Blocks(s, u, o, t, d) ==
  /\ KInv(u) /\ StaleBits(u) \subseteq StaleBits(s)
  /\ u.stat = [s.stat EXCEPT ![t] = "SUSPEND"]
  /\ \A h \in ListHead : Range(u.list[h]) =
       IF h = Wait(o) THEN Range(s.list[h]) \cup {t} ELSE Range(s.list[h]) \ {t}
  /\ \A x \in Obj : x # o => u.list[Wait(x)] = s.list[Wait(x)]
  /\ Flag[o] = "PRIO" /\ Sorted(s.list[Wait(o)], s.prio) => Sorted(u.list[Wait(o)], s.prio)
  /\ Range(u.timers) = IF d > 0 THEN Range(s.timers) \cup {t} ELSE Range(s.timers)
  /\ u.err = [s.err EXCEPT ![t] = "EOK"] /\ u.prio = s.prio
  /\ u.cur = s.cur /\ u.lock = s.lock /\ u.isr = s.isr

\* The caller of a blocking operation goes to sleep in the suspend list of o.
LEMMA BlockInv ==
  ASSUME NEW s, KInv(s), NEW t \in Thread, t # idle, s.stat[t] = "READY", NEW o \in Obj,
         NEW d, d > 0 => d \in Nat
  PROVE  Blocks(s, Block(s, o, t, d), o, t, d)
<1> DEFINE e == [s EXCEPT !.err[t] = "EOK"]
           v == Suspend(e, t)
           q == v.list[Wait(o)]
           behind == {i \in DOMAIN q : v.prio[t] < v.prio[q[i]]}
           pos == IF Flag[o] = "FIFO" \/ behind = {} THEN Len(q) + 1 ELSE Min(behind)
           r == InsertAt(q, pos, t)
           w == LinkWait(v, o, r)
           u == Block(s, o, t, d)
<1>0. s \in KState /\ Wait(o) \in ListHead /\ "EOK" \in Err
  BY HeadFacts DEF KInv, Err
<1>1. /\ KInv(e) /\ StaleBits(e) = StaleBits(s)
      /\ e.err = [s.err EXCEPT ![t] = "EOK"]
      /\ e.stat = s.stat /\ e.prio = s.prio /\ e.list = s.list
      /\ e.timers = s.timers /\ e.cur = s.cur /\ e.lock = s.lock /\ e.isr = s.isr
  BY <1>0, SetErrInv
<1> HIDE DEF e
<1>2. /\ \A x \in Obj : t \notin Range(s.list[Wait(x)])
      /\ t \notin Range(s.timers)
  BY DEF KInv, ListsAgree, Linked, Timed
<1>3. /\ KInv(v) /\ Unlinked(v, t)
      /\ StaleBits(v) \subseteq StaleBits(e)
      /\ \A h \in ListHead : Range(v.list[h]) = Range(e.list[h]) \ {t}
      /\ Range(v.timers) = Range(e.timers) \ {t}
      /\ v.stat = [e.stat EXCEPT ![t] = "SUSPEND"]
      /\ v.prio = e.prio /\ v.cur = e.cur /\ v.lock = e.lock /\ v.isr = e.isr
  <2>1. KInv(e) /\ e.stat[t] = "READY"
    BY <1>1
  <2> QED BY <2>1, SuspendInv, Zenon
<1>4. v.err = e.err /\ \A x \in Obj : v.list[Wait(x)] = s.list[Wait(x)]
  <2>1. v.err = e.err /\ v.list = [h \in ListHead |-> RemoveFirst(e.list[h], t)]
    BY <1>1, SuspendLists DEF KInv
  <2>2. ASSUME NEW x \in Obj PROVE v.list[Wait(x)] = s.list[Wait(x)]
    <3>1. Wait(x) \in ListHead /\ s.list[Wait(x)] \in Seq(Thread)
      BY <1>0, HeadFacts DEF KState
    <3>2. RemoveFirst(s.list[Wait(x)], t) = s.list[Wait(x)]
      BY <1>2, <3>1, RemoveAbsent
    <3> QED BY <1>1, <2>1, <3>1, <3>2
  <2> QED BY <2>1, <2>2
<1> HIDE DEF v
<1>5. /\ q \in Seq(Thread) /\ IsInjective(q) /\ t \notin Range(q) /\ q = s.list[Wait(o)]
      /\ v \in KState /\ v.stat[t] = "SUSPEND"
  BY <1>0, <1>1, <1>2, <1>3, <1>4 DEF KInv, KState, OneList
<1> HIDE DEF q
<1>6. behind \in SUBSET Nat /\ behind \subseteq 1 .. Len(q)
  BY <1>5
<1>7. /\ pos \in 1 .. Len(q) + 1
      /\ \A i \in 1 .. Len(q) : i < pos /\ Flag[o] = "PRIO" => i \notin behind
      /\ pos = Len(q) + 1 \/ pos \in behind
  <2>1. CASE Flag[o] = "FIFO"
    BY <1>5, <2>1
  <2>2. CASE behind = {}
    BY <1>5, <2>2
  <2>3. CASE behind # {} /\ Flag[o] # "FIFO"
    <3> DEFINE B == behind
    <3>1. B \in SUBSET Nat /\ B # {} /\ B \subseteq 1 .. Len(q)
      BY <1>6, <2>3
    <3>2. pos = Min(B)
      BY <2>3
    <3> HIDE DEF B
    <3>3. Min(B) \in B /\ \A y \in B : Min(B) <= y
      BY <3>1, MinOfNats
    <3>4. Min(B) \in 1 .. Len(q) + 1 /\ \A i \in 1 .. Len(q) : i < Min(B) => i \notin B
      <4>1. PICK b \in 1 .. Len(q) : b = Min(B)
        BY <3>1, <3>3
      <4>2. b \in 1 .. Len(q) + 1
        BY <1>5
      <4>3. ASSUME NEW i \in 1 .. Len(q), i < b PROVE i \notin B
        BY <3>3, <4>1, <4>3
      <4> QED BY <4>1, <4>2, <4>3
    <3> QED BY <3>2, <3>3, <3>4 DEF B
  <2> QED BY <2>1, <2>2, <2>3
<1>8. Flag[o] = "PRIO" /\ Sorted(q, s.prio) => Sorted(r, s.prio)
  <2> SUFFICES ASSUME Flag[o] = "PRIO", Sorted(q, s.prio) PROVE Sorted(r, s.prio)
    OBVIOUS
  <2>0. v.prio = s.prio /\ s.prio \in [Thread -> Prio]
    BY <1>0, <1>1, <1>3 DEF KState
  <2>1. s.prio \in [Thread -> Int] /\ \A x \in Thread : s.prio[x] \in Int
    BY <2>0 DEF Prio
  <2>2. \A i \in 1 .. Len(q) : q[i] \in Thread
    BY <1>5
  <2>3. \A i \in 1 .. Len(q) : i \in behind <=> s.prio[t] < s.prio[q[i]]
    BY <1>5, <2>0
  <2> HIDE DEF behind, pos
  <2>4. ASSUME NEW i \in 1 .. Len(q), i < pos PROVE s.prio[q[i]] <= s.prio[t]
    <3>1. s.prio[q[i]] \in Int /\ s.prio[t] \in Int
      BY <2>1, <2>2
    <3>2. ~(s.prio[t] < s.prio[q[i]])
      BY <1>7, <2>3, <2>4
    <3> QED BY <3>1, <3>2
  <2>5. ASSUME NEW i \in 1 .. Len(q), i >= pos PROVE s.prio[t] <= s.prio[q[i]]
    <3>1. s.prio[q[i]] \in Int /\ s.prio[t] \in Int
      BY <2>1, <2>2
    <3>2. pos \in 1 .. Len(q) /\ pos \in behind
      BY <1>5, <1>7, <2>5
    <3>3. s.prio[t] < s.prio[q[pos]] /\ s.prio[q[pos]] \in Int
      BY <3>2, <2>1, <2>2, <2>3
    <3>4. s.prio[q[pos]] <= s.prio[q[i]]
      <4>1. CASE i = pos
        BY <3>3, <4>1
      <4>2. CASE i > pos
        <5>1. DOMAIN q = 1 .. Len(q)
          BY <1>5
        <5> QED BY <3>2, <4>2, <5>1 DEF Sorted
      <4> QED BY <2>5, <3>2, <4>1, <4>2
    <3> QED BY <3>1, <3>3, <3>4
  <2> QED BY <1>5, <1>7, <2>1, <2>4, <2>5, SortedInsertAt
<1> HIDE DEF behind, pos
<1>9. r \in Seq(Thread) /\ IsInjective(r) /\ Range(r) = Range(q) \cup {t}
  BY <1>5, <1>7, RangeInsertAt
<1> HIDE DEF r
<1>10. /\ KInv(w) /\ StaleBits(w) = StaleBits(v)
       /\ w.list = [v.list EXCEPT ![Wait(o)] = r]
       /\ w.stat = v.stat /\ w.prio = v.prio /\ w.err = v.err
       /\ w.timers = v.timers /\ w.cur = v.cur /\ w.lock = v.lock /\ w.isr = v.isr
  <2>1. Range(r) = Range(v.list[Wait(o)]) \cup {t}
    BY <1>9 DEF q
  <2>2. KInv(v) /\ Unlinked(v, t) /\ v.stat[t] = "SUSPEND"
    BY <1>3, <1>5
  <2> QED BY <1>9, <2>1, <2>2, LinkWaitInv
<1>11. u = IF d > 0 THEN TimerStart(w, t, d) ELSE w
  BY DEF Block, IpcListSuspend, LinkWait, e, v, q, behind, pos, r
<1> HIDE DEF w
<1>12. w \in KState /\ w.stat[t] = "SUSPEND"
  BY <1>5, <1>10 DEF KInv
<1>13. /\ KInv(u) /\ StaleBits(u) = StaleBits(w)
       /\ Range(u.timers) = IF d > 0 THEN Range(w.timers) \cup {t} ELSE Range(w.timers)
       /\ u.stat = w.stat /\ u.prio = w.prio /\ u.list = w.list /\ u.err = w.err
       /\ u.cur = w.cur /\ u.lock = w.lock /\ u.isr = w.isr
  <2>1. CASE d > 0
    <3>1. u = TimerStart(w, t, d) /\ d \in Nat
      BY <1>11, <2>1
    <3> DEFINE x == TimerStart(w, t, d)
    <3>2. /\ KInv(x) /\ StaleBits(x) = StaleBits(w)
          /\ Range(x.timers) = Range(w.timers) \cup {t}
          /\ x.stat = w.stat /\ x.prio = w.prio /\ x.list = w.list
          /\ x.cur = w.cur /\ x.lock = w.lock /\ x.isr = w.isr
      BY <3>1, <1>10, <1>12, TimerStartInv
    <3>3. x.err = w.err
      BY <3>1, <1>12, TimerStartErr
    <3> HIDE DEF x
    <3> QED BY <2>1, <3>1, <3>2, <3>3 DEF x
  <2>2. CASE ~(d > 0)
    BY <1>10, <1>11, <2>2
  <2> QED BY <2>1, <2>2
<1> HIDE DEF u
<1>14. /\ u.list[Wait(o)] = r
       /\ \A h \in ListHead : h # Wait(o) => u.list[h] = v.list[h]
  BY <1>0, <1>5, <1>10, <1>13 DEF KState
<1>15. \A h \in ListHead : Range(u.list[h]) =
         IF h = Wait(o) THEN Range(s.list[h]) \cup {t} ELSE Range(s.list[h]) \ {t}
  BY <1>1, <1>3, <1>5, <1>9, <1>14
<1>16. \A x \in Obj : x # o => u.list[Wait(x)] = s.list[Wait(x)]
  BY <1>4, <1>14, HeadFacts
<1>17. Range(u.timers) = IF d > 0 THEN Range(s.timers) \cup {t} ELSE Range(s.timers)
  BY <1>1, <1>2, <1>3, <1>10, <1>13
<1>18. StaleBits(u) \subseteq StaleBits(s)
  BY <1>1, <1>3, <1>10, <1>13
<1>19. Flag[o] = "PRIO" /\ Sorted(s.list[Wait(o)], s.prio) => Sorted(u.list[Wait(o)], s.prio)
  BY <1>5, <1>8, <1>14
<1>20. /\ u.stat = [s.stat EXCEPT ![t] = "SUSPEND"]
       /\ u.err = [s.err EXCEPT ![t] = "EOK"] /\ u.prio = s.prio
       /\ u.cur = s.cur /\ u.lock = s.lock /\ u.isr = s.isr
  BY <1>1, <1>3, <1>4, <1>10, <1>13
<1> QED BY <1>13, <1>15, <1>16, <1>17, <1>18, <1>19, <1>20 DEF u, Blocks
-----------------------------------------------------------------------------
(* What a step does to the threads it does not suspend *)

\* Between two steps of a program that has started all its threads: they are
\* ready and in their queue, or suspended, and the bitmap is exact.
Sane(s) ==
  /\ KInv(s) /\ StaleBits(s) = {} /\ s.lock = 0
  /\ \A t \in Thread : s.stat[t] \in {"READY", "SUSPEND"}
  /\ \A t \in Thread : s.stat[t] = "READY" => Linked(s, t, Ready(s.prio[t]))

\* From s to u the threads of W were made ready, and nobody was suspended.
Woke(s, u, W) ==
  /\ Sane(u)
  /\ \A t \in Thread : u.stat[t] = IF t \in W THEN "READY" ELSE s.stat[t]
  /\ \A t \in Thread, o \in Obj : Linked(u, t, Wait(o)) <=> Linked(s, t, Wait(o)) /\ t \notin W
  /\ Range(u.timers) = Range(s.timers) \ W

\* idle is ready, and a waiter is another thread.
LEMMA WaiterFacts ==
  ASSUME NEW s, KInv(s)
  PROVE  /\ s.stat[idle] = "READY" /\ ~Timed(s, idle)
         /\ \A t \in Thread, o \in Obj : Linked(s, t, Wait(o)) => s.stat[t] = "SUSPEND" /\ t # idle
<1>1. PrioMax - 1 \in Prio /\ idle \in Thread
  BY KernelAssumption DEF Prio
<1>2. s.stat[idle] = "READY"
  BY <1>1 DEF KInv, ListsAgree, BitsCover
<1> QED BY <1>1, <1>2 DEF KInv, ListsAgree

\* One after the other.
LEMMA WokeTwice ==
  ASSUME NEW s, NEW u, NEW v, NEW W, NEW X, Woke(s, u, W), Woke(u, v, X)
  PROVE  Woke(s, v, W \cup X)
BY DEF Woke

\* Nothing happens to the threads.
LEMMA WokeNobody ==
  ASSUME NEW s, Sane(s), NEW u, Sane(u), u.stat = s.stat,
         \A t \in Thread, o \in Obj : Linked(u, t, Wait(o)) <=> Linked(s, t, Wait(o)),
         Range(u.timers) = Range(s.timers)
  PROVE  Woke(s, u, {})
BY DEF Woke

\* thread->error decides nothing here.
LEMMA SetErrWoke ==
  ASSUME NEW s, Sane(s), NEW t \in Thread, NEW v \in Err
  PROVE  Woke(s, [s EXCEPT !.err[t] = v], {})
<1> DEFINE u == [s EXCEPT !.err[t] = v]
<1>1. /\ KInv(u) /\ StaleBits(u) = StaleBits(s)
      /\ u.stat = s.stat /\ u.prio = s.prio /\ u.list = s.list
      /\ u.timers = s.timers /\ u.lock = s.lock
  BY SetErrInv DEF Sane
<1> HIDE DEF u
<1>2. Sane(u)
  BY <1>1 DEF Sane, Linked
<1>3. Woke(s, u, {})
  BY <1>1, <1>2, WokeNobody DEF Linked
<1> QED BY <1>3 DEF u

\* rt_thread_resume.
LEMMA ResumeWoke ==
  ASSUME NEW s, Sane(s), NEW t \in Thread, s.stat[t] = "SUSPEND"
  PROVE  LET u == Resume(s, t)
         IN  /\ Woke(s, u, {t})
             /\ \A o \in Obj : u.list[Wait(o)] = RemoveFirst(s.list[Wait(o)], t)
             /\ u.err = s.err /\ u.prio = s.prio /\ u.cur = s.cur /\ u.isr = s.isr
             /\ \A x \in Thread \ {t} : u.tmo[x] = s.tmo[x]
<1> DEFINE u == Resume(s, t)
<1>0. KInv(s) /\ t # idle /\ s \in KState
  BY WaiterFacts DEF Sane, KInv
<1>01. \A x \in Thread \ {t} : u.tmo[x] = s.tmo[x]
  BY <1>0, ResumeTmo
<1>1. /\ KInv(u) /\ StaleBits(u) \subseteq StaleBits(s)
      /\ u.stat = [s.stat EXCEPT ![t] = "READY"]
      /\ \A h \in ListHead : Range(u.list[h]) =
           IF h = Ready(s.prio[t]) THEN (Range(s.list[h]) \ {t}) \cup {t}
                                   ELSE Range(s.list[h]) \ {t}
      /\ \A o \in Obj : u.list[Wait(o)] = RemoveFirst(s.list[Wait(o)], t)
      /\ Range(u.timers) = Range(s.timers) \ {t}
      /\ u.err = s.err /\ u.prio = s.prio
      /\ u.cur = s.cur /\ u.lock = s.lock /\ u.isr = s.isr
  BY <1>0, ResumeInv
<1> HIDE DEF u
<1>2. \A x \in Thread : u.stat[x] = IF x \in {t} THEN "READY" ELSE s.stat[x]
  BY <1>0, <1>1 DEF KState
<1>3. \A x \in Thread : s.prio[x] \in Prio /\ Ready(s.prio[x]) \in ListHead
  BY <1>0, HeadFacts DEF KState
<1>4. ASSUME NEW x \in Thread, u.stat[x] = "READY" PROVE Linked(u, x, Ready(u.prio[x]))
  <2>1. CASE x = t
    BY <1>1, <1>3, <2>1 DEF Linked
  <2>2. CASE x # t
    <3>1. x \in Range(s.list[Ready(s.prio[x])])
      BY <1>2, <1>4, <2>2 DEF Sane, Linked
    <3> QED BY <1>1, <1>3, <2>2, <3>1 DEF Linked
  <2> QED BY <2>1, <2>2
<1>5. \A x \in Thread : u.stat[x] \in {"READY", "SUSPEND"}
  BY <1>2 DEF Sane
<1>6. Sane(u)
  BY <1>1, <1>4, <1>5 DEF Sane
<1>7. ASSUME NEW x \in Thread, NEW o \in Obj
      PROVE  Linked(u, x, Wait(o)) <=> Linked(s, x, Wait(o)) /\ x \notin {t}
  <2>1. Wait(o) \in ListHead /\ Wait(o) # Ready(s.prio[t])
    BY HeadFacts
  <2> QED BY <1>1, <2>1 DEF Linked
<1>8. Woke(s, u, {t})
  BY <1>1, <1>2, <1>6, <1>7 DEF Woke
<1> QED BY <1>01, <1>1, <1>8 DEF u

\* rt_schedule: the thread that runs is in its queue, and none in a queue is
\* more urgent.
LEMMA ScheduleWoke ==
  ASSUME NEW s, Sane(s)
  PROVE  LET u == Schedule(s)
         IN  /\ Woke(s, u, {})
             /\ u.stat[u.cur] = "READY"
             /\ u.list = s.list /\ u.err = s.err /\ u.prio = s.prio /\ u.isr = s.isr
             /\ u.tmo = s.tmo
<1> DEFINE u == Schedule(s)
<1>1. /\ KInv(u) /\ StaleBits(u) = StaleBits(s)
      /\ u.stat = s.stat /\ u.prio = s.prio /\ u.list = s.list
      /\ u.timers = s.timers /\ u.lock = s.lock /\ u.isr = s.isr
      /\ s.lock = 0 => Linked(u, u.cur, Ready(u.prio[u.cur]))
  BY ScheduleInv DEF Sane
<1>2. u.err = s.err /\ u.tmo = s.tmo
  BY ScheduleFrame DEF Sane, KInv
<1> HIDE DEF u
<1>3. Sane(u)
  BY <1>1 DEF Sane, Linked
<1>4. Woke(s, u, {})
  BY <1>1, <1>3, WokeNobody DEF Linked
<1>5. u.cur \in Thread /\ u.prio[u.cur] \in Prio
  BY <1>3 DEF Sane, KInv, KState
<1>6. u.stat[u.cur] = "READY"
  BY <1>1, <1>3, <1>5 DEF Sane, KInv, ListsAgree
<1> QED BY <1>1, <1>2, <1>4, <1>6 DEF u
-----------------------------------------------------------------------------
(* rt_ipc_list_resume_all with interrupts disabled *)

\* one round of the loop
ResumeErr(s, t) == Resume([s EXCEPT !.err[t] = "ERROR"], t)

\* The fold is the loop: the states between its rounds.
LEMMA ResumeAllRounds ==
  ASSUME NEW s, NEW o, NEW q \in Seq(Thread), q = s.list[Wait(o)]
  PROVE  \E f : /\ f[0] = s
                /\ \A i \in 1 .. Len(q) : f[i] = ResumeErr(f[i - 1], q[i])
                /\ ResumeAll(s, o) = f[Len(q)]
<1> DEFINE Body(g, z) == IF z = {} THEN s ELSE ResumeErr(g[z \ {Max(z)}], q[Max(z)])
           P == {n \in 0 .. Len(q) : \E g : g = [z \in SUBSET (1 .. n) |-> Body(g, z)]}
           It == CHOOSE g : g = [z \in SUBSET (1 .. Len(q)) |-> Body(g, z)]
<1>0. Len(q) \in Nat /\ DOMAIN q = 1 .. Len(q)
  OBVIOUS
<1>1. ResumeAll(s, o) = It[1 .. Len(q)]
  <2>1. ResumeAll(s, o) =
          (CHOOSE g : g = [z \in SUBSET (DOMAIN s.list[Wait(o)]) |->
                             IF z = {} THEN s
                             ELSE ResumeErr(g[z \ {Max(z)}], s.list[Wait(o)][Max(z)])])
          [DOMAIN s.list[Wait(o)]]
    BY Zenon DEF ResumeAll, FoldLeft, MapThenFoldSet, ResumeErr
  <2>2. DOMAIN s.list[Wait(o)] = 1 .. Len(q)
    BY <1>0
  <2>3. It = CHOOSE g : g = [z \in SUBSET (1 .. Len(q)) |->
                               IF z = {} THEN s
                               ELSE ResumeErr(g[z \ {Max(z)}], s.list[Wait(o)][Max(z)])]
    BY Zenon
  <2> HIDE DEF It
  <2> QED BY <2>1, <2>2, <2>3, Zenon
<1>2. 0 \in P
  <2> DEFINE g == [z \in SUBSET (1 .. 0) |-> s]
  <2>1. SUBSET (1 .. 0) = {{}}
    OBVIOUS
  <2>2. g = [z \in SUBSET (1 .. 0) |-> Body(g, z)]
    BY <2>1
  <2>3. 0 \in 0 .. Len(q)
    BY <1>0
  <2> HIDE DEF Body, g
  <2> QED BY <2>2, <2>3
<1>3. ASSUME NEW n \in 0 .. Len(q) - 1, n \in P PROVE n + 1 \in P
  <2>1. PICK g : g = [z \in SUBSET (1 .. n) |-> Body(g, z)]
    BY <1>3
  <2> DEFINE h == [z \in SUBSET (1 .. n + 1) |->
                     IF n + 1 \notin z THEN g[z] ELSE ResumeErr(g[z \ {n + 1}], q[n + 1])]
  <2>2. ASSUME NEW z \in SUBSET (1 .. n + 1) PROVE h[z] = Body(h, z)
    <3>1. CASE n + 1 \notin z
      <4>1. z \in SUBSET (1 .. n)
        BY <3>1
      <4>2. h[z] = Body(g, z)
        BY <2>1, <3>1, <4>1
      <4>3. CASE z = {}
        BY <4>2, <4>3
      <4>4. CASE z # {}
        <5>0. n \in Nat
          BY <1>0
        <5>1. Max(z) \in z
          BY <4>1, <4>4, <5>0, MaxUpTo
        <5> DEFINE y == z \ {Max(z)}
        <5>2. y \in SUBSET (1 .. n) /\ y \in SUBSET (1 .. n + 1) /\ n + 1 \notin y
          BY <3>1, <4>1
        <5>3. h[y] = g[y]
          BY <5>2
        <5> HIDE DEF y, h
        <5> QED BY <4>2, <4>4, <5>3 DEF y
      <4> QED BY <4>3, <4>4
    <3>2. CASE n + 1 \in z
      <4>1. Max(z) = n + 1
        <5>1. n + 1 \in Nat /\ z # {}
          BY <3>2
        <5>2. Max(z) \in z /\ \A x \in z : Max(z) >= x
          BY <5>1, MaxUpTo
        <5>3. PICK a \in 1 .. n + 1 : a = Max(z) /\ a >= n + 1
          BY <3>2, <5>2
        <5> QED BY <5>3
      <4> DEFINE y == z \ {n + 1}
      <4>2. y \in SUBSET (1 .. n) /\ y \in SUBSET (1 .. n + 1) /\ n + 1 \notin y
        OBVIOUS
      <4>3. h[y] = g[y]
        BY <4>2
      <4>4. h[z] = ResumeErr(g[y], q[n + 1])
        BY <3>2
      <4> HIDE DEF y, h
      <4>5. z # {}
        BY <3>2
      <4> QED BY <4>1, <4>3, <4>4, <4>5 DEF y
    <3> QED BY <3>1, <3>2
  <2>3. h = [z \in SUBSET (1 .. n + 1) |-> h[z]]
    OBVIOUS
  <2> HIDE DEF h, Body
  <2>4. h = [z \in SUBSET (1 .. n + 1) |-> Body(h, z)]
    BY <2>2, <2>3, Zenon
  <2>5. n + 1 \in 0 .. Len(q)
    BY <1>0
  <2> QED BY <2>4, <2>5
<1>4. Len(q) \in P
  <2> HIDE DEF P
  <2>1. \A i \in 0 .. Len(q) : i \in P
    BY <1>0, <1>2, <1>3, UpTo
  <2> QED BY <1>0, <2>1
<1>5. It = [z \in SUBSET (1 .. Len(q)) |-> Body(It, z)]
  <2>1. PICK g : g = [z \in SUBSET (1 .. Len(q)) |-> Body(g, z)]
    BY <1>4
  <2> HIDE DEF Body
  <2> QED BY <2>1, Zenon
<1> HIDE DEF It
<1> DEFINE f == [i \in 0 .. Len(q) |-> It[1 .. i]]
<1>6. f[0] = s
  <2>1. 1 .. 0 = {} /\ {} \in SUBSET (1 .. Len(q)) /\ 0 \in 0 .. Len(q)
    BY <1>0
  <2>2. It[{}] = Body(It, {})
    BY <1>5, <2>1, Zenon
  <2> QED BY <2>1, <2>2
<1>7. ASSUME NEW i \in 1 .. Len(q) PROVE f[i] = ResumeErr(f[i - 1], q[i])
  <2>1. 1 .. i \in SUBSET (1 .. Len(q)) /\ i \in 1 .. i /\ i \in Nat
    BY <1>0
  <2>2. It[1 .. i] = Body(It, 1 .. i)
    BY <1>5, <2>1, Zenon
  <2>3. Max(1 .. i) = i
    <3>1. Max(1 .. i) \in 1 .. i /\ \A y \in 1 .. i : Max(1 .. i) >= y
      BY <2>1, MaxUpTo
    <3>2. PICK a \in 1 .. i : a = Max(1 .. i) /\ a >= i
      BY <2>1, <3>1
    <3> QED BY <3>2
  <2>4. (1 .. i) \ {i} = 1 .. (i - 1) /\ 1 .. i # {}
    <3>1. \A x \in 1 .. i : x # i => x \in 1 .. (i - 1)
      BY <2>1
    <3>2. \A x \in 1 .. (i - 1) : x \in 1 .. i /\ x # i
      BY <2>1
    <3> QED BY <2>1, <3>1, <3>2
  <2>5. It[1 .. i] = ResumeErr(It[1 .. (i - 1)], q[i])
    BY <2>2, <2>3, <2>4
  <2>6. f[i] = It[1 .. i] /\ f[i - 1] = It[1 .. (i - 1)]
    BY <1>0
  <2> QED BY <2>5, <2>6
<1>8. ResumeAll(s, o) = f[Len(q)]
  BY <1>0, <1>1
<1> HIDE DEF f
<1> QED BY <1>6, <1>7, <1>8

\* One round of the loop.
LEMMA ResumeErrWoke ==
  ASSUME NEW s, Sane(s), NEW t \in Thread, s.stat[t] = "SUSPEND"
  PROVE  LET u == ResumeErr(s, t)
         IN  /\ Woke(s, u, {t})
             /\ \A o \in Obj : u.list[Wait(o)] = RemoveFirst(s.list[Wait(o)], t)
             /\ u.err = [s.err EXCEPT ![t] = "ERROR"]
             /\ u.prio = s.prio /\ u.cur = s.cur /\ u.isr = s.isr
             /\ \A x \in Thread \ {t} : u.tmo[x] = s.tmo[x]
<1> DEFINE e == [s EXCEPT !.err[t] = "ERROR"]
           u == Resume(e, t)
<1>0. "ERROR" \in Err /\ KInv(s)
  BY DEF Err, Sane
<1>1. Woke(s, e, {})
  BY <1>0, SetErrWoke
<1>2. /\ e.err = [s.err EXCEPT ![t] = "ERROR"] /\ e.stat = s.stat /\ e.list = s.list
      /\ e.prio = s.prio /\ e.cur = s.cur /\ e.isr = s.isr
  BY <1>0, SetErrInv
<1>21. e.tmo = s.tmo
  BY <1>0 DEF KInv, KState
<1> HIDE DEF e
<1>3. Sane(e) /\ e.stat[t] = "SUSPEND"
  BY <1>1, <1>2 DEF Woke
<1>4. /\ Woke(e, u, {t})
      /\ \A o \in Obj : u.list[Wait(o)] = RemoveFirst(e.list[Wait(o)], t)
      /\ u.err = e.err /\ u.prio = e.prio /\ u.cur = e.cur /\ u.isr = e.isr
      /\ \A x \in Thread \ {t} : u.tmo[x] = e.tmo[x]
  BY <1>3, ResumeWoke
<1> HIDE DEF u
<1>5. Woke(s, u, {} \cup {t}) /\ {} \cup {t} = {t}
  BY <1>1, <1>4, WokeTwice
<1>6. ResumeErr(s, t) = u
  BY DEF ResumeErr, u, e
<1> QED BY <1>2, <1>21, <1>4, <1>5, <1>6

\* Every waiter of o is made ready and told of the deletion, nobody else is, and
\* the list is empty afterwards.
LEMMA ResumeAllWoke ==
  ASSUME NEW s, Sane(s), NEW o \in Obj
  PROVE  LET u == ResumeAll(s, o)
             W == Range(s.list[Wait(o)])
         IN  /\ Woke(s, u, W)
             /\ u.list[Wait(o)] = <<>>
             /\ \A x \in Obj : x # o => u.list[Wait(x)] = s.list[Wait(x)]
             /\ \A t \in Thread : u.err[t] = IF t \in W THEN "ERROR" ELSE s.err[t]
             /\ u.prio = s.prio /\ u.cur = s.cur /\ u.isr = s.isr
             /\ \A t \in Thread \ W : u.tmo[t] = s.tmo[t]
<1> DEFINE u == ResumeAll(s, o)
           q == s.list[Wait(o)]
           W == Range(q)
           Done(i) == {q[j] : j \in 1 .. i}
<1>0. /\ s \in KState /\ KInv(s) /\ Wait(o) \in ListHead
      /\ q \in Seq(Thread) /\ IsInjective(q) /\ Len(q) \in Nat /\ DOMAIN q = 1 .. Len(q)
  <2>1. s \in KState /\ KInv(s) /\ Wait(o) \in ListHead
    BY HeadFacts DEF Sane, KInv
  <2>2. q \in Seq(Thread) /\ IsInjective(q)
    BY <2>1 DEF KState, KInv, OneList
  <2> QED BY <2>1, <2>2
<1>1. PICK f : /\ f[0] = s
               /\ \A i \in 1 .. Len(q) : f[i] = ResumeErr(f[i - 1], q[i])
               /\ ResumeAll(s, o) = f[Len(q)]
  BY <1>0, ResumeAllRounds
<1>2. \A i \in 1 .. Len(q) : q[i] \in Thread /\ Linked(s, q[i], Wait(o))
                            /\ s.stat[q[i]] = "SUSPEND"
  <2> SUFFICES ASSUME NEW i \in 1 .. Len(q)
               PROVE  q[i] \in Thread /\ Linked(s, q[i], Wait(o)) /\ s.stat[q[i]] = "SUSPEND"
    OBVIOUS
  <2>1. q[i] \in Thread /\ q[i] \in Range(q)
    BY <1>0 DEF Range
  <2>2. Linked(s, q[i], Wait(o))
    BY <2>1 DEF Linked
  <2> QED BY <1>0, <2>1, <2>2, WaiterFacts
<1>3. \A x \in Obj : x # o => \A i \in 1 .. Len(q) : q[i] \notin Range(s.list[Wait(x)])
  <2> SUFFICES ASSUME NEW x \in Obj, x # o, NEW i \in 1 .. Len(q), q[i] \in Range(s.list[Wait(x)])
               PROVE  FALSE
    OBVIOUS
  <2>1. Wait(x) \in ListHead /\ Wait(x) # Wait(o)
    BY HeadFacts
  <2>2. Range(s.list[Wait(x)]) \cap Range(s.list[Wait(o)]) = {}
    BY <1>0, <2>1 DEF KInv, OneList
  <2> QED BY <1>2, <2>2 DEF Linked
<1> HIDE DEF q
<1> DEFINE Round(i) ==
             /\ Woke(s, f[i], Done(i))
             /\ \A x \in Obj : x # o => f[i].list[Wait(x)] = s.list[Wait(x)]
             /\ \A t \in Thread : f[i].err[t] = IF t \in Done(i) THEN "ERROR" ELSE s.err[t]
             /\ f[i].prio = s.prio /\ f[i].cur = s.cur /\ f[i].isr = s.isr
             /\ \A t \in Thread \ Done(i) : f[i].tmo[t] = s.tmo[t]
           P == {i \in 0 .. Len(q) : Round(i)}
<1>4. 0 \in P
  <2>1. Done(0) = {} /\ 0 \in 0 .. Len(q)
    BY <1>0
  <2>2. Woke(s, s, {})
    BY WokeNobody
  <2> QED BY <1>1, <2>1, <2>2
<1>5. ASSUME NEW i \in 0 .. Len(q) - 1, i \in P PROVE i + 1 \in P
  <2>0. i + 1 \in 1 .. Len(q) /\ (i + 1) - 1 = i /\ i + 1 \in 0 .. Len(q)
    BY <1>0
  <2> DEFINE t == q[i + 1]
             a == f[i]
             b == f[i + 1]
  <2>1. Round(i) /\ b = ResumeErr(a, t) /\ t \in Thread /\ s.stat[t] = "SUSPEND"
    BY <1>1, <1>2, <1>5, <2>0
  <2>2. t \notin Done(i) /\ Done(i + 1) = Done(i) \cup {t}
    <3>1. \A j \in 1 .. i : j \in 1 .. Len(q) /\ j # i + 1
      BY <2>0
    <3>2. t \notin Done(i)
      BY <1>0, <2>0, <3>1 DEF IsInjective
    <3>3. 1 .. (i + 1) = (1 .. i) \cup {i + 1}
      <4>1. \A j \in 1 .. (i + 1) : j \in 1 .. i \/ j = i + 1
        BY <1>0
      <4>2. \A j \in 1 .. i : j \in 1 .. (i + 1)
        BY <1>0
      <4>3. i + 1 \in 1 .. (i + 1)
        BY <1>0
      <4> QED BY <4>1, <4>2, <4>3
    <3> QED BY <3>2, <3>3
  <2> HIDE DEF t, a, b, Done
  <2>3. /\ Woke(s, a, Done(i))
        /\ \A x \in Obj : x # o => a.list[Wait(x)] = s.list[Wait(x)]
        /\ \A x \in Thread : a.err[x] = IF x \in Done(i) THEN "ERROR" ELSE s.err[x]
        /\ a.prio = s.prio /\ a.cur = s.cur /\ a.isr = s.isr
        /\ \A x \in Thread \ Done(i) : a.tmo[x] = s.tmo[x]
    BY <2>1 DEF a
  <2>4. Sane(a) /\ a.stat[t] = "SUSPEND"
    BY <2>1, <2>2, <2>3 DEF Woke
  <2>5. /\ Woke(a, b, {t})
        /\ \A x \in Obj : b.list[Wait(x)] = RemoveFirst(a.list[Wait(x)], t)
        /\ b.err = [a.err EXCEPT ![t] = "ERROR"]
        /\ b.prio = a.prio /\ b.cur = a.cur /\ b.isr = a.isr
        /\ \A x \in Thread \ {t} : b.tmo[x] = a.tmo[x]
    <3>1. b = ResumeErr(a, t) /\ t \in Thread
      BY <2>1
    <3>2. LET c == ResumeErr(a, t)
          IN  /\ Woke(a, c, {t})
              /\ \A x \in Obj : c.list[Wait(x)] = RemoveFirst(a.list[Wait(x)], t)
              /\ c.err = [a.err EXCEPT ![t] = "ERROR"]
              /\ c.prio = a.prio /\ c.cur = a.cur /\ c.isr = a.isr
              /\ \A x \in Thread \ {t} : c.tmo[x] = a.tmo[x]
      BY <2>4, <3>1, ResumeErrWoke, Zenon
    <3> QED BY <3>1, <3>2, Zenon
  <2>6. Woke(s, b, Done(i + 1))
    BY <2>2, <2>3, <2>5, WokeTwice
  <2>7. ASSUME NEW x \in Obj, x # o PROVE b.list[Wait(x)] = s.list[Wait(x)]
    <3>1. t \notin Range(s.list[Wait(x)])
      BY <1>3, <2>0, <2>7 DEF t
    <3>2. s.list[Wait(x)] \in Seq(Thread)
      BY <1>0, HeadFacts DEF KState
    <3>3. RemoveFirst(s.list[Wait(x)], t) = s.list[Wait(x)]
      BY <3>1, <3>2, RemoveAbsent
    <3> QED BY <2>3, <2>5, <2>7, <3>3
  <2>8. a.err \in [Thread -> Err]
    BY <2>4 DEF Sane, KInv, KState
  <2>9. \A x \in Thread : b.err[x] = IF x \in Done(i + 1) THEN "ERROR" ELSE s.err[x]
    BY <2>1, <2>2, <2>3, <2>5, <2>8
  <2>91. \A x \in Thread \ Done(i + 1) : b.tmo[x] = s.tmo[x]
    BY <2>2, <2>3, <2>5
  <2>10. Round(i + 1)
    BY <2>3, <2>5, <2>6, <2>7, <2>9, <2>91 DEF b
  <2> QED BY <2>0, <2>10
<1>6. Round(Len(q))
  <2>1. \A i \in 0 .. Len(q) : i \in P
    <3> HIDE DEF P
    <3> QED BY <1>0, <1>4, <1>5, UpTo
  <2>2. Len(q) \in 0 .. Len(q)
    BY <1>0
  <2> QED BY <2>1, <2>2
<1>7. Done(Len(q)) = W
  BY <1>0 DEF Range
<1> HIDE DEF Done
<1>8. /\ Woke(s, u, W)
      /\ \A x \in Obj : x # o => u.list[Wait(x)] = s.list[Wait(x)]
      /\ \A t \in Thread : u.err[t] = IF t \in W THEN "ERROR" ELSE s.err[t]
      /\ u.prio = s.prio /\ u.cur = s.cur /\ u.isr = s.isr
      /\ \A t \in Thread \ W : u.tmo[t] = s.tmo[t]
  BY <1>1, <1>6, <1>7
<1> HIDE DEF u
<1>9. u.list[Wait(o)] = <<>>
  <2>1. u.list[Wait(o)] \in Seq(Thread)
    BY <1>0, <1>8 DEF Woke, Sane, KInv, KState
  <2>2. ASSUME NEW t \in Range(u.list[Wait(o)]) PROVE FALSE
    <3>1. t \in Thread
      BY <2>1 DEF Range
    <3>2. Linked(u, t, Wait(o))
      BY DEF Linked
    <3>3. Linked(s, t, Wait(o)) /\ t \notin W
      BY <1>8, <3>1, <3>2 DEF Woke
    <3> QED BY <3>3 DEF Linked, q
  <2>3. Range(u.list[Wait(o)]) = {}
    BY <2>2
  <2> QED BY <2>1, <2>3, EmptyRange
<1> QED BY <1>8, <1>9 DEF u, q
-----------------------------------------------------------------------------
(* The tick interrupt *)

\* rt_thread_yield moves nodes of ready queues only.
LEMMA YieldFrame ==
  ASSUME NEW s \in KState
  PROVE  LET u == Yield(s)
         IN  /\ \A o \in Obj : u.list[Wait(o)] = s.list[Wait(o)]
             /\ u.err = s.err /\ u.tick = s.tick /\ u.tmo = s.tmo
<1> DEFINE t == s.cur
           h == Ready(s.prio[t])
           v == Rotate(s)
           u == Yield(s)
<1>1. CASE Shares(s)
  <2>1. u = Schedule(v)
    BY <1>1 DEF Yield
  <2>2. /\ v.list = [s.list EXCEPT ![h] = Append(RemoveFirst(@, t), t)]
        /\ v.err = s.err /\ v.tick = s.tick /\ v.tmo = s.tmo
    BY DEF KState, Rotate
  <2>3. Schedule(v).list = v.list /\ Schedule(v).err = v.err
        /\ Schedule(v).tick = v.tick /\ Schedule(v).tmo = v.tmo
    BY DEF Schedule, KState, Rotate
  <2>4. \A o \in Obj : Wait(o) \in ListHead /\ Wait(o) # h
    BY HeadFacts
  <2> HIDE DEF v
  <2> QED BY <2>1, <2>2, <2>3, <2>4 DEF KState
<1>2. CASE ~Shares(s)
  <2>1. u = s
    BY <1>2 DEF Yield
  <2> QED BY <2>1
<1> QED BY <1>1, <1>2

\* rt_tick_increase up to rt_timer_check.
LEMMA TickWoke ==
  ASSUME NEW s, Sane(s)
  PROVE  LET u == TickIncrease(s)
         IN  /\ Woke(s, u, {})
             /\ \A o \in Obj : u.list[Wait(o)] = s.list[Wait(o)]
             /\ u.err = s.err /\ u.prio = s.prio /\ u.tmo = s.tmo
             /\ u.cur = s.cur \/ u.stat[u.cur] = "READY"
<1> DEFINE u == TickIncrease(s)
           v == [s EXCEPT !.tick = (@ + 1) % TickMod,
                          !.isr = TRUE,
                          !.slice[s.cur] = IF @ = 1 THEN InitTick[s.cur] ELSE @ - 1]
<1>0. s \in KState /\ s.cur \in Thread
  BY DEF Sane, KInv, KState
<1>1. /\ KInv(u) /\ StaleBits(u) = StaleBits(s)
      /\ u.stat = s.stat /\ u.prio = s.prio /\ u.timers = s.timers
      /\ u.lock = s.lock
      /\ \A h \in ListHead : Range(u.list[h]) = Range(s.list[h])
      /\ u.cur # s.cur => Linked(u, u.cur, Ready(u.prio[u.cur]))
  BY <1>0, TickIncreaseInv DEF Sane
<1>2. u.err = s.err /\ u.tmo = s.tmo /\ \A o \in Obj : u.list[Wait(o)] = s.list[Wait(o)]
  <2>1. v.err = s.err /\ v.tmo = s.tmo /\ v.list = s.list
    BY <1>0 DEF KState
  <2>2. v \in KState
    <3>1. (s.tick + 1) % TickMod \in Tick
      <4>1. s.tick \in Tick
        BY <1>0 DEF KState
      <4>2. s.tick + 1 \in Nat
        BY <4>1, KernelAssumption DEF Tick
      <4> QED BY <4>2, TickRange
    <3>2. [s.slice EXCEPT ![s.cur] = IF @ = 1 THEN InitTick[s.cur] ELSE @ - 1]
            \in [Thread -> Nat \ {0}]
      <4>1. s.slice \in [Thread -> Nat \ {0}] /\ InitTick[s.cur] \in Nat \ {0}
        BY <1>0, KernelAssumption DEF KState
      <4>2. (IF s.slice[s.cur] = 1 THEN InitTick[s.cur] ELSE s.slice[s.cur] - 1) \in Nat \ {0}
        BY <1>0, <4>1
      <4> QED BY <1>0, <4>1, <4>2
    <3> QED BY <1>0, <3>1, <3>2 DEF KState
  <2>3. u = Yield(v) \/ u = v
    BY DEF TickIncrease
  <2> HIDE DEF u, v
  <2>4. /\ \A o \in Obj : Yield(v).list[Wait(o)] = v.list[Wait(o)]
        /\ Yield(v).err = v.err /\ Yield(v).tmo = v.tmo
    BY <2>2, YieldFrame
  <2> QED BY <2>1, <2>3, <2>4
<1> HIDE DEF u
<1>3. \A t \in Thread : s.prio[t] \in Prio /\ Ready(s.prio[t]) \in ListHead
  BY <1>0, HeadFacts DEF KState
<1>4. Sane(u)
  BY <1>1, <1>3 DEF Sane, Linked
<1>5. Woke(s, u, {})
  BY <1>1, <1>2, <1>4, WokeNobody DEF Linked
<1>6. u.cur \in Thread /\ u.prio[u.cur] \in Prio
  BY <1>1 DEF KInv, KState
<1>7. u.cur = s.cur \/ u.stat[u.cur] = "READY"
  BY <1>1, <1>6 DEF KInv, ListsAgree
<1> QED BY <1>1, <1>2, <1>5, <1>7 DEF u

\* rt_timer_check with an expired timer at the head of the list.
LEMMA TimerFireWoke ==
  ASSUME NEW s, Sane(s), s.timers # <<>>
  PROVE  LET t == Head(s.timers)
             u == TimerFire(s)
         IN  /\ t \in Thread /\ Timed(s, t) /\ s.stat[t] = "SUSPEND"
             /\ Woke(s, u, {t})
             /\ \A o \in Obj : u.list[Wait(o)] = RemoveFirst(s.list[Wait(o)], t)
             /\ u.err = [s.err EXCEPT ![t] = "ETIMEOUT"] /\ u.prio = s.prio
             /\ u.stat[u.cur] = "READY"
             /\ \A z \in Thread \ {t} : u.tmo[z] = s.tmo[z]
<1> DEFINE t == Head(s.timers)
           u == TimerFire(s)
           v == [s EXCEPT !.timers = Tail(@), !.tmo[t] = 0, !.act = @ \ {t},
                          !.err[t] = "ETIMEOUT"]
           x == Unlink(v, t)
           y == InsertReady(x, t)
<1>0. s \in KState /\ KInv(s)
  BY DEF Sane, KInv
<1>1. /\ t \in Thread /\ t # idle /\ Timed(s, t)
      /\ KInv(u) /\ StaleBits(u) \subseteq StaleBits(s)
      /\ u.stat = [s.stat EXCEPT ![t] = "READY"] /\ u.prio = s.prio
      /\ Range(u.timers) = Range(s.timers) \ {t}
      /\ u.lock = s.lock
      /\ Linked(u, t, Ready(u.prio[t]))
      /\ \A z \in Thread \ {t}, h \in ListHead : Linked(u, z, h) <=> Linked(s, z, h)
      /\ s.lock = 0 => Linked(u, u.cur, Ready(u.prio[u.cur]))
  BY TimerFireInv DEF Sane
<1>2. s.stat[t] = "SUSPEND"
  BY <1>0, <1>1 DEF KInv, ListsAgree
<1>3. /\ u.err = [s.err EXCEPT ![t] = "ETIMEOUT"]
      /\ \A z \in Thread \ {t} : u.tmo[z] = s.tmo[z]
      /\ \A o \in Obj : u.list[Wait(o)] = RemoveFirst(s.list[Wait(o)], t)
  <2> HIDE DEF t
  <2>0. \A o \in Obj : Wait(o) \in ListHead /\ Wait(o) # Ready(x.prio[t])
    BY HeadFacts
  <2>1. /\ v.err = [s.err EXCEPT ![t] = "ETIMEOUT"] /\ v.list = s.list
        /\ DOMAIN v = DOMAIN s /\ v.tmo = [s.tmo EXCEPT ![t] = 0]
    BY <1>0 DEF KState
  <2>2. u = Schedule(y)
    BY DEF TimerFire, t
  <2>3. x.err = v.err /\ x.tmo = v.tmo /\ x.list = [h \in ListHead |-> RemoveFirst(v.list[h], t)]
        /\ DOMAIN x = DOMAIN s
    BY <1>0 DEF Unlink, KState
  <2> HIDE DEF x
  <2>4. y.err = x.err /\ y.tmo = x.tmo /\ y.list = [x.list EXCEPT ![Ready(x.prio[t])] = Append(@, t)]
        /\ DOMAIN y = DOMAIN s
    BY <1>0, <2>3 DEF InsertReady, KState
  <2> HIDE DEF y
  <2>5. Schedule(y).err = y.err /\ Schedule(y).tmo = y.tmo /\ Schedule(y).list = y.list
    BY <1>0, <2>4 DEF Schedule, KState
  <2>6. \A z \in Thread \ {t} : v.tmo[z] = s.tmo[z]
    BY <1>0, <2>1 DEF KState
  <2> QED BY <2>0, <2>1, <2>2, <2>3, <2>4, <2>5, <2>6
<1> HIDE DEF u, t
<1>4. \A z \in Thread : s.prio[z] \in Prio /\ Ready(s.prio[z]) \in ListHead
  BY <1>0, HeadFacts DEF KState
<1>5. \A z \in Thread : u.stat[z] = IF z \in {t} THEN "READY" ELSE s.stat[z]
  BY <1>0, <1>1 DEF KState
<1>6. Sane(u)
  <2>1. \A z \in Thread : u.stat[z] \in {"READY", "SUSPEND"}
    BY <1>5 DEF Sane
  <2>2. ASSUME NEW z \in Thread, u.stat[z] = "READY" PROVE Linked(u, z, Ready(u.prio[z]))
    BY <1>1, <1>4, <1>5, <2>2 DEF Sane
  <2> QED BY <1>1, <2>1, <2>2 DEF Sane
<1>7. ASSUME NEW z \in Thread, NEW o \in Obj
      PROVE  Linked(u, z, Wait(o)) <=> Linked(s, z, Wait(o)) /\ z \notin {t}
  <2>1. CASE z # t
    BY <1>1, <2>1, HeadFacts
  <2>2. CASE z = t
    BY <1>1, <1>5, <2>2, WaiterFacts
  <2> QED BY <2>1, <2>2
<1>8. Woke(s, u, {t})
  BY <1>1, <1>5, <1>6, <1>7 DEF Woke
<1>9. u.cur \in Thread /\ u.prio[u.cur] \in Prio
  BY <1>1 DEF KInv, KState
<1>10. u.stat[u.cur] = "READY"
  BY <1>1, <1>9 DEF Sane, KInv, ListsAgree
<1> QED BY <1>1, <1>2, <1>3, <1>8, <1>10 DEF u, t

\* rt_timer_check leaves the loop.
LEMMA CheckLeaveWoke ==
  ASSUME NEW s, Sane(s)
  PROVE  LET u == [s EXCEPT !.isr = FALSE]
         IN  /\ Woke(s, u, {})
             /\ u.list = s.list /\ u.err = s.err /\ u.prio = s.prio /\ u.cur = s.cur
             /\ u.timers = s.timers /\ u.stat = s.stat /\ u.tmo = s.tmo
<1> DEFINE u == [s EXCEPT !.isr = FALSE]
<1>0. s \in KState /\ KInv(s)
  BY DEF Sane, KInv
<1>1. /\ u \in KState
      /\ u.stat = s.stat /\ u.prio = s.prio /\ u.mask = s.mask /\ u.list = s.list
      /\ u.group = s.group /\ u.timers = s.timers /\ u.act = s.act
      /\ u.err = s.err /\ u.cur = s.cur /\ u.lock = s.lock /\ u.tmo = s.tmo
  BY <1>0 DEF KState
<1> HIDE DEF u
<1>2. KInv(u) /\ StaleBits(u) = StaleBits(s)
  BY <1>0, <1>1, KInvFrame
<1>3. Sane(u)
  BY <1>1, <1>2 DEF Sane, Linked
<1>4. Woke(s, u, {})
  BY <1>1, <1>3, WokeNobody DEF Linked
<1> QED BY <1>1, <1>4 DEF u
-----------------------------------------------------------------------------
(* The callers *)

WaitPC  == {"wait_sched", "wait_return"}
SleepPC == {"sleep_sched", "sleep_return"}

\* Where a thread is in its call, and in which list its node is.
CallerOK(c) ==
  /\ k.stat[c] = "SUSPEND" => op[c].pc \in WaitPC \cup SleepPC
  /\ k.stat[c] = "SUSPEND" /\ Blocked(c) => Linked(k, c, Wait(op[c].on)) /\ k.err[c] = "EOK"
  /\ \A o \in Obj : Linked(k, c, Wait(o)) => Blocked(c) /\ op[c].on = o
  /\ Blocked(c) => op[c].on \in Obj
  /\ op[c].pc = "run" => op[c].on = NoObj

\* What every blocking object preserves.  WaitersBlocked is part of it; the
\* converse, that a caller that is suspended is in the list and has not been
\* told anything yet, is what makes it inductive.
IpcInv ==
  /\ IpcTypeOK
  /\ Sane(k)
  /\ \A c \in Thread : CallerOK(c)
  /\ k.stat[k.cur] = "READY" \/ op[k.cur].pc \in {"wait_sched", "sleep_sched"}
  /\ op[idle].pc = "run"

\* What a step may do to the call of c: a ready thread goes on, and one that
\* suspended itself calls rt_schedule.
Moves(c) ==
  \/ op'[c] = op[c]
  \/ /\ k.stat[c] = "READY"
     /\ op'[c].pc \in WaitPC => op'[c].on \in Obj
     /\ op'[c].pc = "run" => op'[c].on = NoObj
     /\ c = idle => op'[c].pc = "run"
  \/ op[c].pc = "wait_sched" /\ op'[c] = [pc |-> "wait_return", on |-> op[c].on]
  \/ op[c].pc = "sleep_sched" /\ op'[c] = [pc |-> "sleep_return", on |-> op[c].on]

OpType == op' \in [Thread -> [pc : IpcPC, on : Obj \cup {NoObj}]]

\* A step that suspends nobody.
LEMMA WokeStep ==
  ASSUME IpcInv, OpType, alive' \subseteq Obj,
         NEW W, Woke(k, k', W),
         \A c \in Thread : k.stat[c] = "SUSPEND" /\ c \notin W => k'.err[c] = k.err[c],
         \A c \in Thread : Moves(c),
         \/ k'.stat[k'.cur] = "READY"
         \/ k'.cur = k.cur /\ op'[k.cur] = op[k.cur]
  PROVE  IpcInv'
<1>0. IpcTypeOK /\ Sane(k) /\ Sane(k') /\ k \in KState /\ k' \in KState /\ KInv(k) /\ KInv(k')
  BY DEF IpcInv, IpcTypeOK, Woke, Sane, KInv
<1>1. IpcTypeOK'
  BY <1>0 DEF IpcTypeOK, OpType
<1>2. ASSUME NEW c \in Thread PROVE CallerOK(c)'
  <2>0. CallerOK(c) /\ k.stat[c] \in {"READY", "SUSPEND"} /\ Moves(c)
    BY <1>0 DEF IpcInv, Sane
  <2>1. /\ k'.stat[c] = IF c \in W THEN "READY" ELSE k.stat[c]
        /\ \A o \in Obj : Linked(k', c, Wait(o)) => Linked(k, c, Wait(o)) /\ c \notin W
    BY DEF Woke
  <2>2. CASE k.stat[c] = "READY"
    <3>1. \A o \in Obj : ~Linked(k, c, Wait(o))
      BY <1>0, <2>2, WaiterFacts
    <3>2. k'.stat[c] = "READY" /\ \A o \in Obj : ~Linked(k', c, Wait(o))
      BY <2>1, <2>2, <3>1
    <3>3. (op'[c].pc \in WaitPC => op'[c].on \in Obj) /\ (op'[c].pc = "run" => op'[c].on = NoObj)
      BY <2>0 DEF Moves, CallerOK, Blocked, WaitPC
    <3> QED BY <3>2, <3>3 DEF CallerOK, Blocked, WaitPC
  <2>3. CASE k.stat[c] = "SUSPEND"
    <3>1. op[c].pc \in WaitPC \cup SleepPC
      BY <2>0, <2>3 DEF CallerOK
    <3>2. \/ op'[c] = op[c]
          \/ op[c].pc = "wait_sched" /\ op'[c].pc = "wait_return" /\ op'[c].on = op[c].on
          \/ op[c].pc = "sleep_sched" /\ op'[c].pc = "sleep_return" /\ op'[c].on = op[c].on
      BY <2>0, <2>3 DEF Moves
    <3>3. /\ op'[c].pc \in WaitPC <=> op[c].pc \in WaitPC
          /\ op'[c].pc \in SleepPC <=> op[c].pc \in SleepPC
          /\ op'[c].on = op[c].on /\ op'[c].pc # "run"
      BY <3>1, <3>2 DEF WaitPC, SleepPC
    <3>4. \A o \in Obj : c \notin W /\ Linked(k, c, Wait(o)) => Linked(k', c, Wait(o))
      BY DEF Woke
    <3>5. c \notin W => k'.err[c] = k.err[c]
      BY <2>3
    <3> QED BY <2>0, <2>1, <2>3, <3>1, <3>3, <3>4, <3>5 DEF CallerOK, Blocked, WaitPC
  <2> QED BY <2>0, <2>2, <2>3
<1>3. k'.stat[k'.cur] = "READY" \/ op'[k'.cur].pc \in {"wait_sched", "sleep_sched"}
  <2>1. CASE k'.stat[k'.cur] = "READY"
    BY <2>1
  <2>2. CASE k'.cur = k.cur /\ op'[k.cur] = op[k.cur]
    <3>1. k.cur \in Thread
      BY <1>0 DEF KState
    <3>2. k.stat[k.cur] = "READY" => k'.stat[k.cur] = "READY"
      BY <3>1 DEF Woke
    <3> QED BY <2>2, <3>2 DEF IpcInv
  <2> QED BY <2>1, <2>2
<1>4. op'[idle].pc = "run"
  <2>1. idle \in Thread /\ op[idle].pc = "run"
    BY KernelAssumption DEF IpcInv
  <2> QED BY <2>1 DEF Moves
<1> QED BY <1>0, <1>1, <1>2, <1>3, <1>4 DEF IpcInv

\* From s to u the thread c has suspended itself, in the list of o if o is an
\* object, and all others are as before.
Slept(s, u, c, o) ==
  /\ Sane(u)
  /\ \A t \in Thread : u.stat[t] = IF t = c THEN "SUSPEND" ELSE s.stat[t]
  /\ \A t \in Thread, x \in Obj :
       Linked(u, t, Wait(x)) <=> Linked(s, t, Wait(x)) \/ (t = c /\ x = o)
  /\ Range(s.timers) \subseteq Range(u.timers) /\ Range(u.timers) \subseteq Range(s.timers) \cup {c}

\* A thread suspends itself.
LEMMA SleptStep ==
  ASSUME IpcInv, OpType, alive' \subseteq Obj,
         NEW c \in Thread, c # idle, k.stat[c] = "READY",
         NEW o \in Obj \cup {NoObj}, Slept(k, k', c, o), k'.cur = c,
         \A t \in Thread \ {c} : k'.err[t] = k.err[t] /\ op'[t] = op[t],
         op'[c].on = o,
         \/ o = NoObj /\ op'[c].pc = "sleep_sched"
         \/ o \in Obj /\ op'[c].pc = "wait_sched" /\ k'.err[c] = "EOK"
  PROVE  IpcInv'
<1>0. IpcTypeOK /\ Sane(k) /\ Sane(k') /\ k \in KState /\ k' \in KState /\ KInv(k) /\ KInv(k')
  BY DEF IpcInv, IpcTypeOK, Slept, Sane, KInv
<1>1. IpcTypeOK'
  BY <1>0 DEF IpcTypeOK, OpType
<1>2. ASSUME NEW t \in Thread PROVE CallerOK(t)'
  <2>1. CallerOK(t)
    BY DEF IpcInv
  <2>2. CASE t # c
    <3>1. k'.stat[t] = k.stat[t] /\ op'[t] = op[t] /\ k'.err[t] = k.err[t]
          /\ \A x \in Obj : Linked(k', t, Wait(x)) <=> Linked(k, t, Wait(x))
      BY <2>2 DEF Slept
    <3> QED BY <2>1, <3>1 DEF CallerOK, Blocked
  <2>3. CASE t = c
    <3>1. \A x \in Obj : ~Linked(k, c, Wait(x))
      BY <1>0, WaiterFacts
    <3>2. \A x \in Obj : Linked(k', c, Wait(x)) <=> x = o
      BY <3>1 DEF Slept
    <3>3. NoObj \notin Obj
      BY IpcAssumption
    <3> QED BY <2>3, <3>2, <3>3 DEF CallerOK, Blocked, WaitPC, SleepPC
  <2> QED BY <2>2, <2>3
<1>3. op'[k'.cur].pc \in {"wait_sched", "sleep_sched"}
  OBVIOUS
<1>4. op'[idle].pc = "run"
  BY KernelAssumption DEF IpcInv
<1> QED BY <1>0, <1>1, <1>2, <1>3, <1>4 DEF IpcInv

\* Priorities may have changed before.
LEMMA WokeSlept ==
  ASSUME NEW s, NEW u, NEW v, NEW c, NEW o, Woke(s, u, {}), Slept(u, v, c, o)
  PROVE  Slept(s, v, c, o)
BY DEF Woke, Slept

\* The caller of a blocking operation suspends itself in the list of o.
LEMMA BlockSlept ==
  ASSUME NEW s, Sane(s), NEW c \in Thread, c # idle, s.stat[c] = "READY", NEW o \in Obj,
         NEW d, d > 0 => d \in Nat
  PROVE  LET u == Block(s, o, c, d)
         IN  /\ Slept(s, u, c, o)
             /\ \A x \in Obj : x # o => u.list[Wait(x)] = s.list[Wait(x)]
             /\ Flag[o] = "PRIO" /\ Sorted(s.list[Wait(o)], s.prio) => Sorted(u.list[Wait(o)], s.prio)
             /\ u.err = [s.err EXCEPT ![c] = "EOK"] /\ u.prio = s.prio
             /\ u.cur = s.cur /\ u.isr = s.isr
<1> DEFINE u == Block(s, o, c, d)
<1>0. s \in KState /\ KInv(s)
  BY DEF Sane, KInv
<1>1. /\ KInv(u) /\ StaleBits(u) \subseteq StaleBits(s)
      /\ u.stat = [s.stat EXCEPT ![c] = "SUSPEND"]
      /\ \A h \in ListHead : Range(u.list[h]) =
           IF h = Wait(o) THEN Range(s.list[h]) \cup {c} ELSE Range(s.list[h]) \ {c}
      /\ \A x \in Obj : x # o => u.list[Wait(x)] = s.list[Wait(x)]
      /\ Flag[o] = "PRIO" /\ Sorted(s.list[Wait(o)], s.prio) => Sorted(u.list[Wait(o)], s.prio)
      /\ Range(u.timers) = IF d > 0 THEN Range(s.timers) \cup {c} ELSE Range(s.timers)
      /\ u.err = [s.err EXCEPT ![c] = "EOK"] /\ u.prio = s.prio
      /\ u.cur = s.cur /\ u.lock = s.lock /\ u.isr = s.isr
  <2>1. Blocks(s, Block(s, o, c, d), o, c, d)
    BY <1>0, BlockInv, Zenon
  <2> QED BY <2>1 DEF Blocks
<1> HIDE DEF u
<1>2. \A t \in Thread : u.stat[t] = IF t = c THEN "SUSPEND" ELSE s.stat[t]
  BY <1>0, <1>1 DEF KState
<1>3. \A t \in Thread : s.prio[t] \in Prio /\ Ready(s.prio[t]) \in ListHead
                        /\ Ready(s.prio[t]) # Wait(o)
  BY <1>0, HeadFacts DEF KState
<1>4. ASSUME NEW t \in Thread, u.stat[t] = "READY" PROVE Linked(u, t, Ready(u.prio[t]))
  <2>1. t # c /\ s.stat[t] = "READY"
    BY <1>2, <1>4
  <2>2. t \in Range(s.list[Ready(s.prio[t])])
    BY <2>1 DEF Sane, Linked
  <2> QED BY <1>1, <1>3, <2>1, <2>2 DEF Linked
<1>5. \A t \in Thread : u.stat[t] \in {"READY", "SUSPEND"}
  BY <1>2 DEF Sane
<1>6. Sane(u)
  BY <1>1, <1>4, <1>5 DEF Sane
<1>7. ASSUME NEW t \in Thread, NEW x \in Obj
      PROVE  Linked(u, t, Wait(x)) <=> Linked(s, t, Wait(x)) \/ (t = c /\ x = o)
  <2>1. Wait(x) \in ListHead /\ (Wait(x) = Wait(o) <=> x = o)
    BY HeadFacts
  <2>2. ~Linked(s, c, Wait(x))
    BY <1>0, WaiterFacts
  <2> QED BY <1>1, <2>1, <2>2 DEF Linked
<1>8. Range(s.timers) \subseteq Range(u.timers) /\ Range(u.timers) \subseteq Range(s.timers) \cup {c}
  BY <1>1
<1>9. Slept(s, u, c, o)
  BY <1>2, <1>6, <1>7, <1>8 DEF Slept
<1> QED BY <1>1, <1>9 DEF u

\* rt_thread_sleep.
LEMMA SleepSlept ==
  ASSUME NEW s, Sane(s), NEW c \in Thread, c # idle, s.stat[c] = "READY", NEW d \in Nat
  PROVE  LET u == TimerStart(Suspend(s, c), c, d)
         IN  /\ Slept(s, u, c, NoObj)
             /\ \A x \in Obj : u.list[Wait(x)] = s.list[Wait(x)]
             /\ u.err = s.err /\ u.prio = s.prio /\ u.cur = s.cur /\ u.isr = s.isr
<1> DEFINE v == Suspend(s, c)
           u == TimerStart(v, c, d)
<1>0. s \in KState /\ KInv(s) /\ OneList(s)
  BY DEF Sane, KInv
<1>1. /\ KInv(v) /\ StaleBits(v) \subseteq StaleBits(s)
      /\ \A h \in ListHead : Range(v.list[h]) = Range(s.list[h]) \ {c}
      /\ Range(v.timers) = Range(s.timers) \ {c}
      /\ v.stat = [s.stat EXCEPT ![c] = "SUSPEND"]
      /\ v.prio = s.prio /\ v.cur = s.cur /\ v.lock = s.lock /\ v.isr = s.isr
  BY <1>0, SuspendInv
<1>2. v.err = s.err /\ v.list = [h \in ListHead |-> RemoveFirst(s.list[h], c)]
  BY <1>0, SuspendLists
<1> HIDE DEF v
<1>3. v \in KState /\ v.stat[c] = "SUSPEND"
  BY <1>0, <1>1 DEF KInv, KState
<1>4. /\ KInv(u) /\ StaleBits(u) = StaleBits(v)
      /\ Range(u.timers) = Range(v.timers) \cup {c}
      /\ u.stat = v.stat /\ u.prio = v.prio /\ u.list = v.list
      /\ u.cur = v.cur /\ u.lock = v.lock /\ u.isr = v.isr
  BY <1>1, <1>3, TimerStartInv
<1>5. u.err = v.err
  BY <1>3, TimerStartErr
<1> HIDE DEF u
<1>6. \A t \in Thread : u.stat[t] = IF t = c THEN "SUSPEND" ELSE s.stat[t]
  BY <1>0, <1>1, <1>4 DEF KState
<1>7. \A t \in Thread : s.prio[t] \in Prio /\ Ready(s.prio[t]) \in ListHead
  BY <1>0, HeadFacts DEF KState
<1>8. ASSUME NEW t \in Thread, u.stat[t] = "READY" PROVE Linked(u, t, Ready(u.prio[t]))
  <2>1. t # c /\ s.stat[t] = "READY"
    BY <1>6, <1>8
  <2>2. t \in Range(s.list[Ready(s.prio[t])])
    BY <2>1 DEF Sane, Linked
  <2> QED BY <1>1, <1>4, <1>7, <2>1, <2>2 DEF Linked
<1>9. \A t \in Thread : u.stat[t] \in {"READY", "SUSPEND"}
  BY <1>6 DEF Sane
<1>10. Sane(u)
  BY <1>1, <1>4, <1>8, <1>9 DEF Sane
<1>11. ASSUME NEW x \in Obj PROVE u.list[Wait(x)] = s.list[Wait(x)]
  <2>1. Wait(x) \in ListHead /\ s.list[Wait(x)] \in Seq(Thread)
    BY <1>0, HeadFacts DEF KState
  <2>2. c \notin Range(s.list[Wait(x)])
    BY <1>0, WaiterFacts DEF Linked
  <2>3. RemoveFirst(s.list[Wait(x)], c) = s.list[Wait(x)]
    BY <2>1, <2>2, RemoveAbsent
  <2> QED BY <1>2, <1>4, <2>1, <2>3
<1>12. \A x \in Obj : x # NoObj
  BY IpcAssumption
<1>13. c \notin Range(s.timers)
  BY <1>0 DEF KInv, ListsAgree, Timed
<1>14. Slept(s, u, c, NoObj)
  BY <1>1, <1>4, <1>6, <1>10, <1>11, <1>12, <1>13 DEF Slept, Linked
<1> QED BY <1>1, <1>2, <1>4, <1>5, <1>11, <1>14 DEF u, v
-----------------------------------------------------------------------------
(* The steps that the blocking objects share *)

\* The thread that takes a step.
LEMMA AtFacts ==
  ASSUME IpcInv, NEW c \in Thread, NEW pc, At(c, pc)
  PROVE  /\ c = k.cur /\ op[c].pc = pc /\ ~k.isr
         /\ pc \notin {"wait_sched", "sleep_sched"} => k.stat[c] = "READY"
         /\ pc = "run" => op[c].on = NoObj
         /\ pc \in WaitPC => op[c].on \in Obj
         /\ op[c].on \in Obj \cup {NoObj}
         /\ Sane(k) /\ IpcTypeOK
BY DEF IpcInv, IpcTypeOK, At, CallerOK, Blocked, WaitPC

\* The calls after a step of c.
LEMMA CallFacts ==
  ASSUME IpcTypeOK, NEW c \in Thread, NEW pc \in IpcPC, NEW o \in Obj \cup {NoObj}, Call(c, pc, o)
  PROVE  /\ OpType /\ op'[c] = [pc |-> pc, on |-> o]
         /\ op'[c].pc = pc /\ op'[c].on = o
         /\ \A t \in Thread \ {c} : op'[t] = op[t]
BY DEF IpcTypeOK, Call, OpType

\* Goto keeps the object.
LEMMA GotoFacts ==
  ASSUME IpcTypeOK, NEW c \in Thread, NEW pc \in IpcPC, Goto(c, pc)
  PROVE  /\ OpType /\ op'[c] = [pc |-> pc, on |-> op[c].on]
         /\ op'[c].pc = pc /\ op'[c].on = op[c].on
         /\ \A t \in Thread \ {c} : op'[t] = op[t]
<1>1. op[c] \in [pc : IpcPC, on : Obj \cup {NoObj}]
  BY DEF IpcTypeOK
<1>2. [op[c] EXCEPT !.pc = pc] = [pc |-> pc, on |-> op[c].on]
  BY <1>1
<1>3. op' = [op EXCEPT ![c] = [op[c] EXCEPT !.pc = pc]]
  BY DEF Goto
<1> QED BY <1>1, <1>2, <1>3 DEF IpcTypeOK, OpType

\* A step in which no thread is suspended or made ready.
Still ==
  /\ Woke(k, k', {})
  /\ \A o \in Obj : k'.list[Wait(o)] = k.list[Wait(o)]
  /\ k'.err = k.err /\ k'.prio = k.prio /\ k'.tmo = k.tmo

\* A step in which the suspended thread t is made ready and told e.
Wakes(t, e) ==
  /\ t \in Thread /\ k.stat[t] = "SUSPEND"
  /\ Woke(k, k', {t})
  /\ \A o \in Obj : k'.list[Wait(o)] = RemoveFirst(k.list[Wait(o)], t)
  /\ k'.err = [k.err EXCEPT ![t] = e] /\ k'.prio = k.prio
  /\ \A x \in Thread \ {t} : k'.tmo[x] = k.tmo[x]

\* rt_current_thread after a step: it was switched to, or went on.
CurOK ==
  \/ k'.stat[k'.cur] = "READY"
  \/ k'.cur = k.cur /\ op'[k.cur] = op[k.cur]

\* A step that leaves the kernel alone.
LEMMA SameKernel ==
  ASSUME IpcInv, k' = k
  PROVE  Still
BY WokeNobody DEF IpcInv, Still

LEMMA StillInv ==
  ASSUME IpcInv, OpType, alive' \subseteq Obj, Still, \A c \in Thread : Moves(c), CurOK
  PROVE  IpcInv'
BY WokeStep DEF Still, CurOK

LEMMA WakesInv ==
  ASSUME IpcInv, OpType, alive' \subseteq Obj, NEW t, NEW e, Wakes(t, e),
         \A c \in Thread : Moves(c), CurOK
  PROVE  IpcInv'
<1>1. k.err \in [Thread -> Err]
  BY DEF IpcInv, IpcTypeOK, KState
<1>2. \A c \in Thread : c \notin {t} => k'.err[c] = k.err[c]
  BY <1>1 DEF Wakes
<1> QED BY <1>2, WokeStep DEF Wakes, CurOK

\* The two rt_schedule of a call.
LEMMA SchedInv ==
  ASSUME IpcInv, NEW c \in User, WaitSchedule(c) \/ SchedReturn(c)
  PROVE  IpcInv' /\ Still /\ alive' = alive /\ \A t \in Thread \ {c} : op'[t] = op[t]
<1>0. c \in Thread /\ c # idle /\ Sane(k) /\ IpcTypeOK
  BY DEF User, IpcInv
<1>1. /\ k' = Schedule(k) /\ alive' = alive
      /\ WaitSchedule(c) => At(c, "wait_sched") /\ Goto(c, "wait_return")
      /\ SchedReturn(c) => At(c, "sched") /\ Call(c, "run", NoObj)
  BY DEF WaitSchedule, SchedReturn, Return
<1>2. Still /\ k'.stat[k'.cur] = "READY"
  BY <1>0, <1>1, ScheduleWoke DEF Still
<1>3. "wait_return" \in IpcPC /\ "run" \in IpcPC /\ NoObj \in Obj \cup {NoObj}
  BY DEF IpcPC
<1>4. OpType /\ (\A t \in Thread \ {c} : op'[t] = op[t]) /\ Moves(c)
  <2>1. CASE WaitSchedule(c)
    <3>1. OpType /\ op'[c] = [pc |-> "wait_return", on |-> op[c].on]
          /\ \A t \in Thread \ {c} : op'[t] = op[t]
      BY <1>0, <1>1, <1>3, <2>1, GotoFacts
    <3>2. op[c].pc = "wait_sched"
      BY <1>1, <2>1 DEF At
    <3> QED BY <3>1, <3>2 DEF Moves
  <2>2. CASE SchedReturn(c)
    <3>1. /\ OpType /\ op'[c].pc = "run" /\ op'[c].on = NoObj
          /\ \A t \in Thread \ {c} : op'[t] = op[t]
      BY <1>0, <1>1, <1>3, <2>2, CallFacts
    <3>2. k.stat[c] = "READY"
      BY <1>0, <1>1, <2>2, AtFacts
    <3> QED BY <1>0, <3>1, <3>2 DEF Moves, WaitPC
  <2> QED BY <2>1, <2>2
<1>5. \A t \in Thread : Moves(t)
  BY <1>4 DEF Moves
<1>6. alive' \subseteq Obj /\ CurOK
  BY <1>0, <1>1, <1>2 DEF IpcTypeOK, CurOK
<1> QED BY <1>1, <1>2, <1>4, <1>5, <1>6, StillInv

\* rt_tick_increase up to rt_timer_check.
LEMMA TickInv ==
  ASSUME IpcInv, rt_tick_increase
  PROVE  IpcInv' /\ Still /\ alive' = alive /\ op' = op
<1>0. Sane(k) /\ IpcTypeOK
  BY DEF IpcInv
<1>1. k' = TickIncrease(k) /\ alive' = alive /\ op' = op
  BY DEF rt_tick_increase
<1>2. Still /\ (k'.cur = k.cur \/ k'.stat[k'.cur] = "READY")
  BY <1>0, <1>1, TickWoke DEF Still
<1>3. OpType /\ alive' \subseteq Obj /\ CurOK /\ \A t \in Thread : Moves(t)
  BY <1>0, <1>1, <1>2 DEF OpType, IpcTypeOK, CurOK, Moves
<1> QED BY <1>1, <1>2, <1>3, StillInv

\* rt_timer_check: at most one thread, whose timer was running, is made ready.
LEMMA TimerInv ==
  ASSUME IpcInv, rt_timer_check
  PROVE  /\ IpcInv' /\ alive' = alive /\ op' = op
         /\ Still \/ \E t \in Thread : Timed(k, t) /\ Wakes(t, "ETIMEOUT")
<1>0. Sane(k) /\ IpcTypeOK
  BY DEF IpcInv
<1>1. k' = TimerCheck(k) /\ alive' = alive /\ op' = op
  BY DEF rt_timer_check
<1>2. OpType /\ alive' \subseteq Obj /\ \A t \in Thread : Moves(t)
  BY <1>0, <1>1 DEF OpType, IpcTypeOK, Moves
<1>3. CASE Expired(k)
  <2>1. k' = TimerFire(k) /\ k.timers # <<>>
    BY <1>1, <1>3 DEF TimerCheck, Expired
  <2> DEFINE t == Head(k.timers)
  <2>2. t \in Thread /\ Timed(k, t) /\ Wakes(t, "ETIMEOUT") /\ k'.stat[k'.cur] = "READY"
    BY <1>0, <2>1, TimerFireWoke DEF Wakes
  <2>3. CurOK
    BY <2>2 DEF CurOK
  <2>4. IpcInv'
    BY <1>2, <2>2, <2>3, WakesInv
  <2> QED BY <1>1, <2>2, <2>4
<1>4. CASE ~Expired(k)
  <2>1. k' = [k EXCEPT !.isr = FALSE]
    BY <1>1, <1>4 DEF TimerCheck
  <2>2. Still /\ k'.cur = k.cur
    BY <1>0, <2>1, CheckLeaveWoke DEF Still
  <2>3. CurOK
    BY <1>1, <2>2 DEF CurOK
  <2> QED BY <1>1, <1>2, <2>2, <2>3, StillInv
<1> QED BY <1>3, <1>4

\* A ready thread that leaves the kernel alone and goes on in its call.
LEMMA GoesOn ==
  ASSUME IpcInv, NEW c \in User, k.stat[c] = "READY", k' = k, OpType, alive' \subseteq Obj,
         k.cur = c,
         op'[c].pc \in WaitPC => op'[c].on \in Obj,
         op'[c].pc = "run" => op'[c].on = NoObj,
         \A t \in Thread \ {c} : op'[t] = op[t]
  PROVE  IpcInv' /\ Still
<1>1. Still
  BY SameKernel
<1>2. CurOK
  BY DEF CurOK
<1>3. \A t \in Thread : Moves(t)
  BY DEF Moves, User
<1> QED BY <1>1, <1>2, <1>3, StillInv

\* rt_xxx_init and rt_xxx_detach move nobody.
LEMMA ObjInv ==
  ASSUME IpcInv, NEW c \in User, NEW o \in Obj, ObjInit(c, o) \/ ObjDetachAny(c, o)
  PROVE  /\ IpcInv' /\ Still
         /\ ObjInit(c, o) => op' = op /\ alive' = alive \cup {o}
         /\ ObjDetachAny(c, o) => /\ op'[c] = [pc |-> "resume_test", on |-> o]
                                  /\ alive' = alive \ {o}
         /\ \A t \in Thread \ {c} : op'[t] = op[t]
<1>0. c \in Thread /\ c # idle /\ IpcTypeOK
  BY DEF User, IpcInv
<1>1. k' = k /\ At(c, "run")
  BY DEF ObjInit, ObjDetachAny
<1>2. k.stat[c] = "READY" /\ k.cur = c
  BY <1>0, <1>1, AtFacts
<1>3. "resume_test" \in IpcPC
  BY DEF IpcPC
<1>4. CASE ObjInit(c, o)
  <2>1. op' = op /\ alive' = alive \cup {o}
    BY <1>4 DEF ObjInit
  <2>2. ~ObjDetachAny(c, o)
    BY <1>4 DEF ObjInit, ObjDetachAny
  <2>3. OpType /\ alive' \subseteq Obj /\ \A t \in Thread : Moves(t)
    BY <1>0, <2>1 DEF OpType, IpcTypeOK, Moves
  <2>4. Still /\ CurOK
    BY <1>1, <2>1, SameKernel DEF CurOK
  <2> QED BY <2>1, <2>2, <2>3, <2>4, StillInv
<1>5. CASE ObjDetachAny(c, o)
  <2>1. Call(c, "resume_test", o) /\ alive' = alive \ {o}
    BY <1>5 DEF ObjDetachAny
  <2>2. ~ObjInit(c, o)
    BY <1>5 DEF ObjInit, ObjDetachAny
  <2>3. /\ OpType /\ op'[c] = [pc |-> "resume_test", on |-> o]
        /\ op'[c].pc = "resume_test"
        /\ \A t \in Thread \ {c} : op'[t] = op[t]
    BY <1>0, <1>3, <2>1, CallFacts
  <2>4. alive' \subseteq Obj
    BY <1>0, <2>1 DEF IpcTypeOK
  <2>5. IpcInv' /\ Still
    BY <1>1, <1>2, <2>3, <2>4, GoesOn DEF WaitPC
  <2> QED BY <2>1, <2>2, <2>3, <2>5
<1> QED BY <1>4, <1>5

\* Suspending a thread leaves the timeouts of the others alone.
LEMMA SuspendTmo ==
  ASSUME NEW s \in KState, OneList(s), NEW c \in Thread
  PROVE  /\ Suspend(s, c).tick = s.tick
         /\ \A t \in Thread \ {c} : Suspend(s, c).tmo[t] = s.tmo[t]
<1> DEFINE x == SetStat(s, c, "SUSPEND")
           y == RemoveReady(x, c)
<1>1. x \in KState /\ OneList(x) /\ x.tmo = s.tmo /\ x.tick = s.tick
  BY DEF SetStat, KState, Stat, OneList
<1> HIDE DEF x
<1>2. y \in KState /\ y.tmo = x.tmo /\ y.tick = x.tick
  BY <1>1, RemoveReadyProps
<1> HIDE DEF y
<1>3. /\ TimerStop(y, c).tick = y.tick
      /\ \A t \in Thread \ {c} : TimerStop(y, c).tmo[t] = y.tmo[t]
  BY <1>2 DEF TimerStop, TimerRemove, KState
<1>4. Suspend(s, c) = TimerStop(y, c)
  BY DEF Suspend, x, y
<1> QED BY <1>1, <1>2, <1>3, <1>4

\* The timer of a caller that blocks ends when its waiting time does; a caller
\* that waits for ever has none, and the timers of the others stay.
LEMMA BlockTmo ==
  ASSUME NEW s, Sane(s), NEW c \in Thread, c # idle, s.stat[c] = "READY", NEW o \in Obj,
         NEW d, d > 0 => d \in Nat
  PROVE  LET u == Block(s, o, c, d)
         IN  /\ \A t \in Thread \ {c} : u.tmo[t] = s.tmo[t]
             /\ Timed(u, c) <=> d > 0
             /\ d > 0 => u.tmo[c] = (s.tick + d) % TickMod
<1> DEFINE e == [s EXCEPT !.err[c] = "EOK"]
           v == Suspend(e, c)
           w == IpcListSuspend(e, o, Flag[o], c)
           u == Block(s, o, c, d)
<1>0. s \in KState /\ KInv(s) /\ OneList(s) /\ ~Timed(s, c) /\ "EOK" \in Err
  BY DEF Sane, KInv, ListsAgree, Err
<1>1. /\ e \in KState /\ OneList(e) /\ e.tmo = s.tmo /\ e.tick = s.tick
      /\ e.timers = s.timers
  BY <1>0 DEF KState, OneList
<1>2. KInv(e) /\ e.stat = s.stat
  BY <1>0, SetErrInv
<1>3. KInv(w)
  <2>1. w = Block(s, o, c, -1)
    BY DEF Block
  <2>2. -1 > 0 => -1 \in Nat
    OBVIOUS
  <2>3. Blocks(s, Block(s, o, c, -1), o, c, -1)
    BY <1>0, <2>2, BlockInv, Zenon
  <2> QED BY <2>1, <2>3 DEF Blocks
<1>4. u = IF d > 0 THEN TimerStart(w, c, d) ELSE w
  BY DEF Block
<1>5. Timed(u, c) <=> d > 0
  <2>1. Blocks(s, u, o, c, d)
    BY <1>0, BlockInv, Zenon
  <2> QED BY <1>0, <2>1 DEF Blocks, Timed
<1> HIDE DEF e
<1>6. v \in KState /\ v.tick = s.tick /\ \A t \in Thread \ {c} : v.tmo[t] = s.tmo[t]
  <2>1. KInv(v)
    BY <1>2, SuspendInv
  <2> QED BY <1>1, <2>1, SuspendTmo DEF KInv
<1> HIDE DEF v
<1>7. w.tmo = v.tmo /\ w.tick = v.tick
  BY <1>6 DEF IpcListSuspend, v, KState
<1>8. w \in KState
  BY <1>3 DEF KInv
<1> HIDE DEF w, u
<1>9. CASE d > 0
  <2> DEFINE r == TimerRemove(w, c)
  <2>1. r \in KState /\ r.tick = w.tick /\ \A t \in Thread \ {c} : r.tmo[t] = w.tmo[t]
    <3>1. RemoveFirst(w.timers, c) \in Seq(Thread)
      BY <1>3, RangeRemoveFirst DEF KInv, KState, OneList
    <3>2. 0 \in Tick
      BY KernelAssumption DEF Tick
    <3> QED BY <1>8, <3>1, <3>2 DEF TimerRemove, KState
  <2> HIDE DEF r
  <2>2. u = [r EXCEPT !.tmo[c] = (w.tick + d) % TickMod,
                      !.timers = InsertAt(@, TimerPos(r, (w.tick + d) % TickMod), c),
                      !.act = @ \cup {c}]
    BY <1>4, <1>9 DEF TimerStart, r
  <2>3. u.tmo = [r.tmo EXCEPT ![c] = (w.tick + d) % TickMod]
    BY <2>1, <2>2 DEF KState
  <2>4. r.tmo \in [Thread -> Tick]
    BY <2>1 DEF KState
  <2> QED BY <1>5, <1>6, <1>7, <2>1, <2>3, <2>4 DEF u
<1>10. CASE ~(d > 0)
  BY <1>4, <1>5, <1>6, <1>7, <1>10 DEF u
<1> QED BY <1>9, <1>10

\* A caller blocks, on a kernel state that differs from k in priorities at most.
LEMMA BlockStepTmo ==
  ASSUME IpcInv, NEW c \in User, NEW o \in Obj, NEW d, d > 0 => d \in Nat,
         NEW s, Woke(k, s, {}), s.err = k.err, s.cur = k.cur,
         \A x \in Obj : s.list[Wait(x)] = k.list[Wait(x)],
         k.cur = c, k.stat[c] = "READY",
         k' = Block(s, o, c, d), Call(c, "wait_sched", o), alive' = alive
  PROVE  /\ IpcInv' /\ Slept(k, k', c, o)
         /\ \A x \in Obj : x # o => k'.list[Wait(x)] = k.list[Wait(x)]
         /\ k'.err = [k.err EXCEPT ![c] = "EOK"] /\ k'.prio = s.prio
         /\ Flag[o] = "PRIO" /\ Sorted(k.list[Wait(o)], s.prio) => Sorted(k'.list[Wait(o)], s.prio)
         /\ op'[c] = [pc |-> "wait_sched", on |-> o]
         /\ \A t \in Thread \ {c} : op'[t] = op[t] /\ k'.tmo[t] = s.tmo[t]
         /\ Timed(k', c) <=> d > 0
         /\ d > 0 => k'.tmo[c] = (s.tick + d) % TickMod
<1>0. c \in Thread /\ c # idle /\ IpcTypeOK /\ Sane(s) /\ s.stat[c] = "READY"
      /\ "wait_sched" \in IpcPC
  BY DEF User, IpcInv, IpcPC, Woke
<1>1. /\ Slept(s, k', c, o) /\ k'.err = [s.err EXCEPT ![c] = "EOK"] /\ k'.cur = s.cur
      /\ k'.prio = s.prio
      /\ Flag[o] = "PRIO" /\ Sorted(s.list[Wait(o)], s.prio) => Sorted(k'.list[Wait(o)], s.prio)
      /\ \A x \in Obj : x # o => k'.list[Wait(x)] = s.list[Wait(x)]
  BY <1>0, BlockSlept
<1>11. /\ \A t \in Thread \ {c} : k'.tmo[t] = s.tmo[t]
       /\ Timed(k', c) <=> d > 0
       /\ d > 0 => k'.tmo[c] = (s.tick + d) % TickMod
  BY <1>0, BlockTmo
<1>2. Slept(k, k', c, o)
  BY <1>1, WokeSlept
<1>3. /\ OpType /\ op'[c] = [pc |-> "wait_sched", on |-> o]
      /\ op'[c].pc = "wait_sched" /\ op'[c].on = o
      /\ \A t \in Thread \ {c} : op'[t] = op[t]
  BY <1>0, CallFacts
<1>4. k.err \in [Thread -> Err]
  BY <1>0 DEF IpcTypeOK, KState
<1>5. k'.err[c] = "EOK" /\ \A t \in Thread \ {c} : k'.err[t] = k.err[t]
  BY <1>0, <1>1, <1>4
<1>6. alive' \subseteq Obj /\ k'.cur = c
  BY <1>0, <1>1 DEF IpcTypeOK
<1>7. IpcInv'
  BY <1>0, <1>2, <1>3, <1>5, <1>6, SleptStep
<1> QED BY <1>1, <1>11, <1>2, <1>3, <1>7

LEMMA BlockStep ==
  ASSUME IpcInv, NEW c \in User, NEW o \in Obj, NEW d, d > 0 => d \in Nat,
         NEW s, Woke(k, s, {}), s.err = k.err, s.cur = k.cur,
         \A x \in Obj : s.list[Wait(x)] = k.list[Wait(x)],
         k.cur = c, k.stat[c] = "READY",
         k' = Block(s, o, c, d), Call(c, "wait_sched", o), alive' = alive
  PROVE  /\ IpcInv' /\ Slept(k, k', c, o)
         /\ \A x \in Obj : x # o => k'.list[Wait(x)] = k.list[Wait(x)]
         /\ k'.err = [k.err EXCEPT ![c] = "EOK"] /\ k'.prio = s.prio
         /\ Flag[o] = "PRIO" /\ Sorted(k.list[Wait(o)], s.prio) => Sorted(k'.list[Wait(o)], s.prio)
         /\ op'[c] = [pc |-> "wait_sched", on |-> o]
         /\ \A t \in Thread \ {c} : op'[t] = op[t]
  BY BlockStepTmo

\* The first waiter of an object is resumed, or told of the deletion as well.
LEMMA HeadFactsOf ==
  ASSUME NEW s, Sane(s), NEW o \in Obj, s.list[Wait(o)] # <<>>
  PROVE  LET t == Head(s.list[Wait(o)])
         IN  t \in Thread /\ Linked(s, t, Wait(o)) /\ s.stat[t] = "SUSPEND" /\ t # idle
<1> DEFINE q == s.list[Wait(o)]
           t == Head(q)
<1>0. KInv(s) /\ Wait(o) \in ListHead
  BY HeadFacts DEF Sane
<1>1. q \in Seq(Thread) /\ IsInjective(q)
  BY <1>0 DEF KInv, KState, OneList
<1>2. t \in Range(q) /\ t \in Thread
  <2> HIDE DEF q
  <2> QED BY <1>1, RangeHeadTail DEF q
<1>3. Linked(s, t, Wait(o))
  BY <1>2 DEF Linked
<1> QED BY <1>0, <1>2, <1>3, WaiterFacts

LEMMA ResumeHead ==
  ASSUME IpcInv, NEW o \in Obj, Waiters(o) # <<>>, k' = IpcListResume(k, o)
  PROVE  LET t == Head(Waiters(o))
         IN  /\ Wakes(t, "EOK") /\ Linked(k, t, Wait(o)) /\ t # idle
             /\ k'.cur = k.cur /\ k'.isr = k.isr
<1> DEFINE t == Head(Waiters(o))
<1>0. Sane(k) /\ k.err \in [Thread -> Err]
  BY DEF IpcInv, Sane, KInv, KState
<1>1. t \in Thread /\ Linked(k, t, Wait(o)) /\ k.stat[t] = "SUSPEND" /\ t # idle
  BY <1>0, HeadFactsOf DEF Waiters
<1>2. k' = Resume(k, t)
  BY DEF IpcListResume, Waiters
<1> HIDE DEF t
<1>3. /\ Woke(k, k', {t})
      /\ \A x \in Obj : k'.list[Wait(x)] = RemoveFirst(k.list[Wait(x)], t)
      /\ k'.err = k.err /\ k'.prio = k.prio /\ k'.cur = k.cur /\ k'.isr = k.isr
      /\ \A x \in Thread \ {t} : k'.tmo[x] = k.tmo[x]
  BY <1>0, <1>1, <1>2, ResumeWoke
<1>4. k.err[t] = "EOK"
  BY <1>1 DEF IpcInv, CallerOK
<1>5. k'.err = [k.err EXCEPT ![t] = "EOK"]
  BY <1>0, <1>1, <1>3, <1>4
<1> QED BY <1>1, <1>3, <1>5 DEF Wakes, t
-----------------------------------------------------------------------------
(* The removal of an object *)

ResumePC == {"resume_test", "resume_one"}

\* the suspend lists that c, which removes their object, has still to empty
Leaving(c) ==
  IF op[c].pc \in ResumePC THEN {op[c].on, After(op[c].on)} \cap Obj ELSE {}

\* rt_ipc_list_resume_all tests the list outside the interrupt lock.  What keeps
\* the waiter there until the lock is taken: the object is out of reach of
\* everybody else, and no waiter has a timer.
DetachInv ==
  /\ ResumeAllFindsWaiter
  /\ \A c \in Thread :
       /\ Leaving(c) \cap alive = {}
       /\ \A o \in Leaving(c) : \A t \in Range(Waiters(o)) : ~Timed(k, t)
       /\ \A d \in Thread \ {c} : Leaving(c) \cap Leaving(d) = {}
       /\ op[c].pc \in ResumePC => op[c].on \in Obj
       /\ op[c].pc = "resume_one" => Waiters(op[c].on) # <<>>

\* A step that empties no more lists than before.
LEMMA DetachStep ==
  ASSUME DetachInv, IpcTypeOK, IpcTypeOK',
         \A c \in Thread : op'[c].pc # "assert",
         \A c \in Thread : Leaving(c)' \subseteq Leaving(c),
         \A c \in Thread : Leaving(c) \cap alive' = {},
         \A c \in Thread : \A o \in Leaving(c) : \A t \in Range(Waiters(o))' :
           t \in Range(Waiters(o)) /\ (Timed(k', t) => Timed(k, t)),
         \A c \in Thread : op'[c].pc \in ResumePC => op'[c].on \in Obj,
         \A c \in Thread : op'[c].pc = "resume_one" => k'.list[Wait(op'[c].on)] # <<>>
  PROVE  DetachInv'
<1>1. ResumeAllFindsWaiter'
  BY DEF ResumeAllFindsWaiter
<1>2. ASSUME NEW c \in Thread
      PROVE  /\ Leaving(c)' \cap alive' = {}
             /\ \A o \in Leaving(c)' : \A t \in Range(Waiters(o))' : ~Timed(k', t)
             /\ \A d \in Thread \ {c} : Leaving(c)' \cap Leaving(d)' = {}
  <2>1. Leaving(c)' \cap alive' = {}
    OBVIOUS
  <2>2. ASSUME NEW o \in Leaving(c)', NEW t \in Range(Waiters(o))' PROVE ~Timed(k', t)
    <3>1. o \in Leaving(c)
      OBVIOUS
    <3>2. t \in Range(Waiters(o)) /\ (Timed(k', t) => Timed(k, t))
      BY <3>1
    <3> QED BY <3>1, <3>2 DEF DetachInv
  <2>3. \A d \in Thread \ {c} : Leaving(c)' \cap Leaving(d)' = {}
    BY DEF DetachInv
  <2> QED BY <2>1, <2>2, <2>3
<1> QED BY <1>1, <1>2 DEF DetachInv, Waiters

\* A step that leaves the lists that are being emptied as they are.
LEMMA DetachKept ==
  ASSUME DetachInv, IpcTypeOK, IpcTypeOK', alive' = alive,
         \A c \in Thread : op'[c] = op[c] \/ op'[c].pc \notin ResumePC \cup {"assert"},
         \A c \in Thread : \A o \in Leaving(c) : k'.list[Wait(o)] = k.list[Wait(o)],
         \A c \in Thread : \A o \in Leaving(c) : \A t \in Range(Waiters(o)) :
           Timed(k', t) => Timed(k, t)
  PROVE  DetachInv'
<1>1. ASSUME NEW c \in Thread
      PROVE  /\ op'[c].pc # "assert" /\ Leaving(c)' \subseteq Leaving(c)
             /\ op'[c].pc \in ResumePC => op'[c].on \in Obj
             /\ op'[c].pc = "resume_one" => k'.list[Wait(op'[c].on)] # <<>>
  <2>1. CASE op'[c] = op[c]
    <3>1. Leaving(c)' = Leaving(c)
      BY <2>1 DEF Leaving, After
    <3>2. op[c].pc \in ResumePC => op[c].on \in Leaving(c)
      BY DEF Leaving, DetachInv
    <3>3. op[c].pc = "resume_one" => Waiters(op[c].on) # <<>> /\ op[c].pc \in ResumePC
      BY DEF DetachInv, ResumePC
    <3>4. op[c].pc = "resume_one" => k'.list[Wait(op[c].on)] = k.list[Wait(op[c].on)]
      BY <3>2, <3>3
    <3> QED BY <2>1, <3>1, <3>3, <3>4 DEF DetachInv, ResumeAllFindsWaiter, Waiters
  <2>2. CASE op'[c].pc \notin ResumePC \cup {"assert"}
    <3>1. Leaving(c)' = {}
      BY <2>2 DEF Leaving
    <3> QED BY <2>2, <3>1 DEF ResumePC
  <2> QED BY <2>1, <2>2
<1>2. \A c \in Thread : Leaving(c) \cap alive' = {}
  BY DEF DetachInv
<1>3. \A c \in Thread : \A o \in Leaving(c) : \A t \in Range(Waiters(o))' :
        t \in Range(Waiters(o)) /\ (Timed(k', t) => Timed(k, t))
  BY DEF Waiters
<1> QED BY <1>1, <1>2, <1>3, DetachStep

LEMMA StillDetach ==
  ASSUME IpcInv, IpcInv', DetachInv, Still, alive' = alive,
         \A c \in Thread : op'[c] = op[c] \/ op'[c].pc \notin ResumePC \cup {"assert"}
  PROVE  DetachInv'
<1>1. IpcTypeOK /\ IpcTypeOK'
  BY DEF IpcInv
<1>2. \A c \in Thread : Leaving(c) \subseteq Obj
  BY DEF Leaving
<1>3. \A c \in Thread : \A o \in Leaving(c) : k'.list[Wait(o)] = k.list[Wait(o)]
  BY <1>2 DEF Still
<1>4. \A t \in Thread : Timed(k', t) => Timed(k, t)
  BY DEF Still, Woke, Timed
<1>5. ASSUME NEW o \in Obj PROVE Range(Waiters(o)) \subseteq Thread
  <2>1. Waiters(o) \in Seq(Thread)
    BY <1>1, HeadFacts DEF IpcTypeOK, KState, Waiters
  <2> QED BY <2>1 DEF Range
<1> QED BY <1>1, <1>2, <1>3, <1>4, <1>5, DetachKept

\* The thread that is made ready is in none of the lists that are being emptied.
LEMMA WakesDetach ==
  ASSUME IpcInv, IpcInv', DetachInv, NEW t, NEW e, Wakes(t, e), alive' = alive,
         \A c \in Thread : op'[c] = op[c] \/ op'[c].pc \notin ResumePC \cup {"assert"},
         \A c \in Thread : \A o \in Leaving(c) : ~Linked(k, t, Wait(o))
  PROVE  DetachInv'
<1>1. IpcTypeOK /\ IpcTypeOK'
  BY DEF IpcInv
<1>2. \A c \in Thread : Leaving(c) \subseteq Obj
  BY DEF Leaving
<1>3. ASSUME NEW c \in Thread, NEW o \in Leaving(c) PROVE k'.list[Wait(o)] = k.list[Wait(o)]
  <2>1. o \in Obj /\ t \notin Range(k.list[Wait(o)])
    BY <1>2 DEF Linked
  <2>2. k.list[Wait(o)] \in Seq(Thread)
    BY <1>1, <2>1, HeadFacts DEF IpcTypeOK, KState
  <2>3. RemoveFirst(k.list[Wait(o)], t) = k.list[Wait(o)]
    BY <2>1, <2>2, RemoveAbsent
  <2> QED BY <2>1, <2>3 DEF Wakes
<1>4. \A x \in Thread : Timed(k', x) => Timed(k, x)
  BY DEF Wakes, Woke, Timed
<1>5. ASSUME NEW o \in Obj PROVE Range(Waiters(o)) \subseteq Thread
  <2>1. Waiters(o) \in Seq(Thread)
    BY <1>1, HeadFacts DEF IpcTypeOK, KState, Waiters
  <2> QED BY <2>1 DEF Range
<1> QED BY <1>1, <1>2, <1>3, <1>4, <1>5, DetachKept

\* A waiter is in one list.
LEMMA OneWait ==
  ASSUME IpcInv, NEW t \in Thread, NEW o \in Obj, NEW x \in Obj,
         Linked(k, t, Wait(o)), Linked(k, t, Wait(x))
  PROVE  o = x
BY DEF IpcInv, CallerOK

\* The first waiter of an object that is alive is resumed.
LEMMA AliveDetach ==
  ASSUME IpcInv, IpcInv', DetachInv, NEW o \in alive, NEW t \in Thread, NEW e, Wakes(t, e),
         Linked(k, t, Wait(o)), alive' = alive,
         \A c \in Thread : op'[c] = op[c] \/ op'[c].pc \notin ResumePC \cup {"assert"}
  PROVE  DetachInv'
<1>1. o \in Obj
  BY DEF IpcInv, IpcTypeOK
<1>2. ASSUME NEW c \in Thread, NEW x \in Leaving(c) PROVE ~Linked(k, t, Wait(x))
  <2>1. x \in Obj /\ x \notin alive
    BY DEF Leaving, DetachInv
  <2> QED BY <1>1, <2>1, OneWait
<1> QED BY <1>2, WakesDetach

\* A thread whose timer is running is in none of the lists that are being emptied.
LEMMA TimedDetach ==
  ASSUME IpcInv, IpcInv', DetachInv, NEW t \in Thread, NEW e, Wakes(t, e), Timed(k, t),
         alive' = alive, op' = op
  PROVE  DetachInv'
<1>1. \A c \in Thread : \A o \in Leaving(c) : ~Linked(k, t, Wait(o))
  BY DEF DetachInv, Linked, Waiters
<1> QED BY <1>1, WakesDetach

\* A caller blocks on an object that is alive.
LEMMA SleptDetach ==
  ASSUME IpcInv, IpcInv', DetachInv, NEW c \in Thread, NEW o \in alive \cup {NoObj},
         k.stat[c] = "READY", Slept(k, k', c, o),
         \A x \in Obj : x # o => k'.list[Wait(x)] = k.list[Wait(x)],
         alive' = alive, op'[c].pc \notin ResumePC \cup {"assert"},
         \A t \in Thread \ {c} : op'[t] = op[t]
  PROVE  DetachInv'
<1>1. IpcTypeOK /\ IpcTypeOK' /\ KInv(k)
  BY DEF IpcInv, Sane
<1>2. ASSUME NEW d \in Thread, NEW x \in Leaving(d)
      PROVE  /\ x \in Obj /\ k'.list[Wait(x)] = k.list[Wait(x)]
             /\ \A t \in Range(Waiters(x)) : Timed(k', t) => Timed(k, t)
  <2>1. x \in Obj /\ x # o
    BY IpcAssumption DEF Leaving, DetachInv
  <2>2. c \notin Range(Waiters(x))
    BY <1>1, <2>1, WaiterFacts DEF Waiters, Linked
  <2> QED BY <2>1, <2>2 DEF Slept, Timed
<1> QED BY <1>1, <1>2, DetachKept

\* After is the list that the removal of a mailbox goes on with.
AfterOK == \A o \in Obj : After(o) \in Obj \cup {NoObj}

\* The test of the loop.
LEMMA ResumeTestInv ==
  ASSUME IpcInv, DetachInv, AfterOK, NEW c \in User, ResumeTest(c)
  PROVE  /\ IpcInv' /\ DetachInv' /\ Still /\ alive' = alive
         /\ op'[c].pc \notin WaitPC
         /\ \A t \in Thread \ {c} : op'[t] = op[t]
<1> DEFINE o == op[c].on
<1>0. c \in Thread /\ c # idle /\ IpcTypeOK /\ k.err = k.err
  BY DEF User, IpcInv
<1>1. At(c, "resume_test") /\ k' = k /\ alive' = alive
  BY DEF ResumeTest
<1>2. k.stat[c] = "READY" /\ k.cur = c /\ op[c].pc = "resume_test"
  BY <1>0, <1>1, AtFacts
<1>3. o \in Obj
  BY <1>0, <1>2 DEF DetachInv, ResumePC
<1>4. alive' \subseteq Obj /\ {"run", "resume_test", "resume_one"} \subseteq IpcPC
  BY <1>0, <1>1 DEF IpcTypeOK, IpcPC
<1>5. /\ OpType
      /\ \/ op'[c] = [pc |-> "resume_one", on |-> o] /\ Waiters(o) # <<>>
         \/ op'[c] = [pc |-> "resume_test", on |-> After(o)] /\ After(o) \in Obj
         \/ op'[c] = [pc |-> "run", on |-> NoObj]
      /\ \A t \in Thread \ {c} : op'[t] = op[t]
  <2>1. CASE Waiters(o) # <<>>
    <3>1. Goto(c, "resume_one")
      BY <2>1 DEF ResumeTest
    <3> QED BY <1>0, <1>4, <2>1, <3>1, GotoFacts
  <2>2. CASE Waiters(o) = <<>> /\ After(o) # NoObj
    <3>1. Call(c, "resume_test", After(o)) /\ After(o) \in Obj
      BY <1>3, <2>2 DEF ResumeTest, AfterOK
    <3> QED BY <1>0, <1>4, <3>1, CallFacts
  <2>3. CASE Waiters(o) = <<>> /\ After(o) = NoObj
    <3>1. Call(c, "run", NoObj)
      BY <2>3 DEF ResumeTest, Return
    <3> QED BY <1>0, <1>4, <3>1, CallFacts
  <2> QED BY <2>1, <2>2, <2>3
<1>6. op'[c].pc \notin WaitPC /\ (op'[c].pc = "run" => op'[c].on = NoObj)
  BY <1>5 DEF WaitPC
<1>7. IpcInv' /\ Still
  BY <1>1, <1>2, <1>4, <1>5, <1>6, GoesOn
<1>8. \A x : x # "mb" => After(x) = NoObj
  BY DEF After
<1>9. Leaving(c)' \subseteq Leaving(c)
  <2>1. Leaving(c) = {o, After(o)} \cap Obj
    BY <1>2 DEF Leaving, ResumePC
  <2>2. Leaving(c)' \subseteq {op'[c].on, After(op'[c].on)} \cap Obj
    BY DEF Leaving, After
  <2>3. After(o) \in Obj => After(After(o)) = NoObj
    BY DEF After, NoObj
  <2>4. NoObj \notin Obj /\ After(NoObj) = NoObj
    BY IpcAssumption DEF After, NoObj
  <2> QED BY <1>5, <2>1, <2>2, <2>3, <2>4
<1>10. \A t \in Thread \ {c} : Leaving(t)' = Leaving(t)
  BY <1>5 DEF Leaving, After
<1>11. \A t \in Thread : Leaving(t)' \subseteq Leaving(t)
  BY <1>9, <1>10
<1>12. \A t \in Thread : op'[t].pc # "assert" /\ (op'[t].pc \in ResumePC => op'[t].on \in Obj)
  <2>1. op'[c].pc # "assert" /\ (op'[c].pc \in ResumePC => op'[c].on \in Obj)
    BY <1>3, <1>5 DEF ResumePC
  <2> QED BY <1>5, <2>1 DEF DetachInv, ResumeAllFindsWaiter
<1>13. \A t \in Thread : op'[t].pc = "resume_one" => k'.list[Wait(op'[t].on)] # <<>>
  <2>1. op'[c].pc = "resume_one" => k'.list[Wait(op'[c].on)] # <<>>
    BY <1>1, <1>5 DEF Waiters
  <2>2. \A t \in Thread \ {c} : op'[t].pc = "resume_one" => k'.list[Wait(op'[t].on)] # <<>>
    BY <1>1, <1>5 DEF DetachInv, Waiters
  <2> QED BY <2>1, <2>2
<1>14. \A t \in Thread : Leaving(t) \cap alive' = {}
  BY <1>1 DEF DetachInv
<1>15. IpcTypeOK'
  BY <1>7 DEF IpcInv
<1>16. DetachInv'
  BY <1>0, <1>1, <1>11, <1>12, <1>13, <1>14, <1>15, DetachStep DEF Waiters
<1> QED BY <1>1, <1>5, <1>6, <1>7, <1>16

\* The body of the loop finds the waiter that the test saw, and resumes it.
LEMMA ResumeOneInv ==
  ASSUME IpcInv, DetachInv, NEW c \in User, ResumeOne(c)
  PROVE  /\ IpcInv' /\ DetachInv' /\ alive' = alive
         /\ \E t \in Thread : Wakes(t, "ERROR") /\ Linked(k, t, Wait(op[c].on))
         /\ op[c].pc = "resume_one" /\ op'[c].pc = "resume_test"
         /\ \A t \in Thread \ {c} : op'[t] = op[t]
<1> DEFINE o == op[c].on
           t == Head(Waiters(o))
<1>0. c \in Thread /\ c # idle /\ IpcTypeOK /\ Sane(k)
  BY DEF User, IpcInv
<1>1. At(c, "resume_one") /\ alive' = alive
  BY DEF ResumeOne
<1>2. k.stat[c] = "READY" /\ k.cur = c /\ op[c].pc = "resume_one"
  BY <1>0, <1>1, AtFacts
<1>3. o \in Obj /\ Waiters(o) # <<>>
  BY <1>0, <1>2 DEF DetachInv, ResumePC
<1>4. k' = ResumeErr(k, t) /\ Goto(c, "resume_test")
  BY <1>3 DEF ResumeOne, IpcListResumeOne, ResumeErr, Waiters
<1>5. t \in Thread /\ Linked(k, t, Wait(o)) /\ k.stat[t] = "SUSPEND" /\ t # idle
  BY <1>0, <1>3, HeadFactsOf DEF Waiters
<1> HIDE DEF t
<1>6. Wakes(t, "ERROR") /\ k'.cur = k.cur
  BY <1>0, <1>4, <1>5, ResumeErrWoke DEF Wakes
<1>7. "resume_test" \in IpcPC
  BY DEF IpcPC
<1>8. /\ OpType /\ op'[c].pc = "resume_test" /\ op'[c].on = o
      /\ \A x \in Thread \ {c} : op'[x] = op[x]
  BY <1>0, <1>4, <1>7, GotoFacts
<1>9. alive' \subseteq Obj
  BY <1>0, <1>1 DEF IpcTypeOK
<1>10. CurOK
  <2>1. k'.stat[c] = "READY"
    BY <1>0, <1>2, <1>6 DEF Wakes, Woke
  <2> QED BY <1>2, <1>6, <2>1 DEF CurOK
<1>11. \A x \in Thread : Moves(x)
  BY <1>0, <1>2, <1>8 DEF Moves, WaitPC
<1>12. IpcInv'
  BY <1>6, <1>8, <1>9, <1>10, <1>11, WakesInv
<1>13. \A x \in Thread : Leaving(x)' = Leaving(x)
  <2>1. Leaving(c)' = Leaving(c)
    BY <1>2, <1>8 DEF Leaving, After, ResumePC
  <2>2. \A x \in Thread \ {c} : Leaving(x)' = Leaving(x)
    BY <1>8 DEF Leaving, After
  <2> QED BY <2>1, <2>2
<1>14. ASSUME NEW x \in Thread, NEW y \in Leaving(x), NEW z \in Range(Waiters(y))'
       PROVE  z \in Range(Waiters(y)) /\ (Timed(k', z) => Timed(k, z))
  <2>1. y \in Obj
    BY DEF Leaving
  <2>2. k'.list[Wait(y)] \in Seq(Thread)
    BY <1>12, <2>1, HeadFacts DEF IpcInv, IpcTypeOK, KState
  <2>3. z \in Thread /\ Linked(k', z, Wait(y))
    BY <2>2 DEF Range, Waiters, Linked
  <2>4. Linked(k, z, Wait(y))
    BY <1>6, <2>1, <2>3 DEF Wakes, Woke
  <2>5. Timed(k', z) => Timed(k, z)
    BY <1>6 DEF Wakes, Woke, Timed
  <2> QED BY <2>4, <2>5 DEF Linked, Waiters
<1>15. \A x \in Thread : op'[x].pc # "assert" /\ (op'[x].pc \in ResumePC => op'[x].on \in Obj)
  <2>1. op'[c].pc # "assert" /\ (op'[c].pc \in ResumePC => op'[c].on \in Obj)
    BY <1>3, <1>8 DEF ResumePC
  <2> QED BY <1>8, <2>1 DEF DetachInv, ResumeAllFindsWaiter
<1>16. ASSUME NEW x \in Thread, op'[x].pc = "resume_one" PROVE k'.list[Wait(op'[x].on)] # <<>>
  <2>1. x # c /\ op'[x] = op[x] /\ op[x].pc = "resume_one"
    BY <1>8, <1>16
  <2>2. op[x].on \in Leaving(x) /\ o \in Leaving(c) /\ op[x].on \in Obj
    BY <1>0, <1>2, <2>1 DEF Leaving, DetachInv, ResumePC
  <2>3. op[x].on # o
    BY <1>0, <2>1, <2>2 DEF DetachInv
  <2>4. ~Linked(k, t, Wait(op[x].on))
    BY <1>3, <1>5, <2>2, <2>3, OneWait
  <2>5. k.list[Wait(op[x].on)] \in Seq(Thread)
    BY <1>0, <2>2, HeadFacts DEF IpcTypeOK, KState
  <2>6. RemoveFirst(k.list[Wait(op[x].on)], t) = k.list[Wait(op[x].on)]
    BY <2>4, <2>5, RemoveAbsent DEF Linked
  <2>7. k.list[Wait(op[x].on)] # <<>>
    BY <2>1 DEF DetachInv, Waiters
  <2> QED BY <1>6, <2>1, <2>2, <2>6, <2>7 DEF Wakes
<1>17. \A x \in Thread : Leaving(x) \cap alive' = {}
  BY <1>1 DEF DetachInv
<1>18. IpcTypeOK'
  BY <1>12 DEF IpcInv
<1>19. DetachInv'
  BY <1>0, <1>13, <1>14, <1>15, <1>16, <1>17, <1>18, DetachStep
<1> QED BY <1>1, <1>2, <1>5, <1>6, <1>8, <1>12, <1>19

\* An object with one suspend list is removed by callers that see to it that no
\* waiter has a timer.
LEMMA ObjDetachInv ==
  ASSUME IpcInv, IpcInv', DetachInv, NEW c \in User, NEW o \in Obj, After(o) = NoObj, ObjDetach(c, o),
         op'[c] = [pc |-> "resume_test", on |-> o], alive' = alive \ {o},
         \A t \in Thread \ {c} : op'[t] = op[t]
  PROVE  DetachInv'
<1>0. /\ c \in Thread /\ k' = k /\ o \in alive /\ NoObj \notin Obj
      /\ \A t \in Range(Waiters(o)) : ~Timed(k, t)
  BY IpcAssumption DEF User, ObjDetach, ObjDetachAny
<1>1. Leaving(c)' = {o}
  BY <1>0 DEF Leaving, ResumePC, After
<1>2. \A t \in Thread \ {c} : Leaving(t)' = Leaving(t) /\ o \notin Leaving(t)
  BY <1>0 DEF Leaving, After, DetachInv
<1>3. ASSUME NEW t \in Thread
      PROVE  /\ Leaving(t)' \cap alive' = {}
             /\ \A x \in Leaving(t)' : \A y \in Range(k'.list[Wait(x)]) : ~Timed(k', y)
             /\ \A d \in Thread \ {t} : Leaving(t)' \cap Leaving(d)' = {}
             /\ op'[t].pc \in ResumePC => op'[t].on \in Obj
             /\ op'[t].pc = "resume_one" => k'.list[Wait(op'[t].on)] # <<>>
  <2>1. CASE t = c
    BY <1>0, <1>1, <1>2, <2>1 DEF Waiters
  <2>2. CASE t # c
    <3>1. Leaving(t)' = Leaving(t) /\ op'[t] = op[t] /\ o \notin Leaving(t)
      BY <1>2, <2>2
    <3>2. Leaving(t)' \cap alive' = {}
      BY <3>1 DEF DetachInv
    <3>3. \A x \in Leaving(t)' : \A y \in Range(k'.list[Wait(x)]) : ~Timed(k', y)
      BY <1>0, <3>1 DEF DetachInv, Waiters
    <3>4. \A d \in Thread \ {t} : Leaving(t)' \cap Leaving(d)' = {}
      BY <1>1, <1>2, <3>1 DEF DetachInv
    <3>5. /\ op'[t].pc \in ResumePC => op'[t].on \in Obj
          /\ op'[t].pc = "resume_one" => k'.list[Wait(op'[t].on)] # <<>>
      BY <1>0, <3>1 DEF DetachInv, Waiters
    <3> QED BY <3>2, <3>3, <3>4, <3>5
  <2> QED BY <2>1, <2>2
<1>4. ResumeAllFindsWaiter'
  BY <1>0 DEF DetachInv, ResumeAllFindsWaiter
<1> QED BY <1>3, <1>4 DEF DetachInv, Waiters

\* A new object is none of those that are being removed.
LEMMA ObjInitDetach ==
  ASSUME IpcInv, IpcInv', DetachInv, NEW c \in User, NEW o \in Obj,
         \A x \in Obj : After(x) # o, ObjInit(c, o), op' = op, alive' = alive \cup {o}
  PROVE  DetachInv'
<1>1. k' = k /\ \A t \in Thread : op[t].on # o
  BY DEF ObjInit, Unused
<1>2. \A t \in Thread : Leaving(t)' = Leaving(t)
  BY DEF Leaving, After
<1>3. \A t \in Thread : o \notin Leaving(t)
  BY <1>1 DEF Leaving, DetachInv
<1>4. \A t \in Thread : Leaving(t) \cap alive' = {}
  BY <1>3 DEF DetachInv
<1>5. /\ \A t \in Thread : op'[t].pc # "assert" /\ (op'[t].pc \in ResumePC => op'[t].on \in Obj)
      /\ \A t \in Thread : op'[t].pc = "resume_one" => k'.list[Wait(op'[t].on)] # <<>>
  BY <1>1 DEF DetachInv, ResumeAllFindsWaiter, Waiters
<1>6. IpcTypeOK /\ IpcTypeOK'
  BY DEF IpcInv
<1> QED BY <1>1, <1>2, <1>4, <1>5, <1>6, DetachStep DEF Waiters
-----------------------------------------------------------------------------
(* The initial states *)

\* Five fields of a kernel state are given new values.
LEMMA FiveFields ==
  ASSUME NEW r \in KState,
         NEW a \in [Thread -> Stat], NEW m \in [Thread -> SUBSET Prio],
         NEW l \in [ListHead -> Seq(Thread)], NEW g \in SUBSET Prio, NEW c \in Thread
  PROVE  [r EXCEPT !.stat = a, !.mask = m, !.list = l, !.group = g, !.cur = c] \in KState
<1> QED BY DEF KState

\* Only idle has been started.
LEMMA KInitType == KInit(idle) \in KState
<1>0. /\ idle \in Thread /\ InitPrio \in [Thread -> Prio] /\ InitTick \in [Thread -> Nat \ {0}]
      /\ InitPrio[idle] \in Prio /\ 0 \in Tick
  BY KernelAssumption DEF Tick
<1>1. <<idle>> \in Seq(Thread) /\ <<idle, idle>> \in Seq(Thread) /\ <<>> \in Seq(Thread)
  BY <1>0
<1>2. [h \in ListHead |->
         IF h = Ready(InitPrio[idle])
         THEN IF InitPrio[idle] = InitPrio[idle] THEN <<idle, idle>> ELSE <<idle>>
         ELSE IF h = Ready(InitPrio[idle]) THEN <<idle>> ELSE <<>>] \in [ListHead -> Seq(Thread)]
  BY <1>1
<1> QED BY <1>0, <1>2 DEF KInit, KState, Stat, Err

\* Every thread is in the queue of its priority, nobody waits, and the thread
\* that runs is at the head of the first queue that is not empty.
LEMMA StartedSane ==
  LET s == KStarted(Queue)
  IN  /\ Sane(s)
      /\ \A t \in Thread : s.stat[t] = "READY"
      /\ \A o \in Obj : s.list[Wait(o)] = <<>>
      /\ s.prio = InitPrio /\ s.err = [t \in Thread |-> "EOK"]
      /\ s.isr = FALSE
<1> DEFINE s == KStarted(Queue)
           P == {p \in Prio : Queue[p] # <<>>}
<1>1. /\ s.stat = [t \in Thread |-> "READY"]
      /\ s.prio = InitPrio
      /\ s.mask = [t \in Thread |-> {InitPrio[t]}]
      /\ s.err = [t \in Thread |-> "EOK"]
      /\ s.slice = InitTick
      /\ s.list = [h \in ListHead |-> IF h[1] = "ready" THEN Queue[h[2]] ELSE <<>>]
      /\ s.group = P
      /\ s.cur = Head(Queue[Min(P)])
      /\ s.lock = 0 /\ s.tick = 0 /\ s.tmo = [t \in Thread |-> 0]
      /\ s.act = {} /\ s.timers = <<>> /\ s.isr = FALSE
  BY DEF KStarted, KInit
<1>2. s = [KInit(idle) EXCEPT !.stat = s.stat, !.mask = s.mask, !.list = s.list,
                              !.group = s.group, !.cur = s.cur]
  BY DEF KStarted, KInit
<1> HIDE DEF s
<1>3. /\ \A p \in Prio : Ready(p)[1] = "ready" /\ Ready(p)[2] = p
      /\ \A o : Wait(o)[1] # "ready"
      /\ Defunct[1] # "ready"
  BY DEF Ready, Wait, Defunct
<1>4. /\ \A p \in Prio : s.list[Ready(p)] = Queue[p]
      /\ \A o \in Obj : s.list[Wait(o)] = <<>>
      /\ s.list[Defunct] = <<>>
  BY <1>1, <1>3, HeadFacts
<1>5. /\ \A p \in Prio : Queue[p] \in Seq(Thread)
      /\ \A p \in Prio : IsInjective(Queue[p])
      /\ \A p \in Prio, t \in Thread : t \in Range(Queue[p]) <=> InitPrio[t] = p
  BY IpcAssumption
<1>6. /\ idle \in Thread /\ InitPrio \in [Thread -> Prio] /\ InitTick \in [Thread -> Nat \ {0}]
      /\ PrioMax - 1 \in Prio /\ InitPrio[idle] = PrioMax - 1 /\ 0 \in Tick
  BY KernelAssumption DEF Prio, Tick
<1>7. \A p \in Prio : Queue[p] = <<>> <=> Range(Queue[p]) = {}
  BY <1>5, EmptyRange
<1>8. s.cur \in Thread
  <2>1. P \in SUBSET Nat /\ PrioMax - 1 \in P
    <3>1. Range(Queue[PrioMax - 1]) # {}
      BY <1>5, <1>6
    <3>2. Queue[PrioMax - 1] # <<>>
      BY <1>6, <1>7, <3>1
    <3>3. PrioMax - 1 \in P
      BY <1>6, <3>2
    <3>4. P \subseteq Prio /\ Prio \subseteq Nat
      BY KernelAssumption DEF Prio
    <3> QED BY <3>3, <3>4
  <2> HIDE DEF P
  <2>2. Min(P) \in P
    BY <2>1, MinOfNats
  <2>3. Min(P) \in Prio /\ Queue[Min(P)] # <<>>
    BY <2>2 DEF P
  <2>4. Queue[Min(P)] \in Seq(Thread)
    BY <1>5, <2>3
  <2> QED BY <1>1, <2>3, <2>4
<1>9. /\ \A h \in ListHead : s.list[h] \in Seq(Thread)
      /\ \A h \in ListHead : IsInjective(s.list[h])
      /\ \A h \in ListHead, t \in Thread :
           t \in Range(s.list[h]) <=> \E p \in Prio : h = Ready(p) /\ InitPrio[t] = p
  <2>1. <<>> \in Seq(Thread) /\ IsInjective(<<>>) /\ Range(<<>>) = {}
    BY DEF IsInjective, Range
  <2>2. ASSUME NEW h \in ListHead
        PROVE  /\ s.list[h] \in Seq(Thread) /\ IsInjective(s.list[h])
               /\ \A t \in Thread : t \in Range(s.list[h]) <=>
                    \E p \in Prio : h = Ready(p) /\ InitPrio[t] = p
    <3>1. CASE \E p \in Prio : h = Ready(p)
      <4>1. PICK p \in Prio : h = Ready(p)
        BY <3>1
      <4>2. \A q \in Prio : h = Ready(q) <=> q = p
        BY <4>1, HeadFacts
      <4>3. s.list[h] = Queue[p]
        BY <1>4, <4>1
      <4> QED BY <1>5, <4>2, <4>3
    <3>2. CASE \A p \in Prio : h # Ready(p)
      <4>1. s.list[h] = <<>>
        BY <1>4, <3>2, HeadFacts
      <4> QED BY <2>1, <3>2, <4>1
    <3> QED BY <3>1, <3>2
  <2> QED BY <2>2
<1>10. s \in KState
  <2>1. s.stat \in [Thread -> Stat]
    BY <1>1 DEF Stat
  <2>2. s.mask \in [Thread -> SUBSET Prio]
    BY <1>1, <1>6
  <2>3. s.list \in [ListHead -> Seq(Thread)]
    BY <1>1, <1>9
  <2>4. s.group \in SUBSET Prio
    BY <1>1
  <2>5. [KInit(idle) EXCEPT !.stat = s.stat, !.mask = s.mask, !.list = s.list,
                            !.group = s.group, !.cur = s.cur] \in KState
    BY <1>8, <2>1, <2>2, <2>3, <2>4, KInitType, FiveFields, Zenon
  <2> QED BY <1>2, <2>5, Zenon
<1>11. \A h \in ListHead : Range(s.list[h]) \subseteq Thread
  BY <1>9 DEF Range
<1>12. OneList(s)
  <2>1. IsInjective(<<>>)
    BY DEF IsInjective
  <2>2. ASSUME NEW g \in ListHead, NEW h \in ListHead, g # h
        PROVE  Range(s.list[g]) \cap Range(s.list[h]) = {}
    <3>1. SUFFICES ASSUME NEW x, x \in Range(s.list[g]), x \in Range(s.list[h])
                   PROVE  FALSE
      OBVIOUS
    <3>2. x \in Thread
      BY <1>11, <3>1
    <3>3. g = Ready(InitPrio[x])
      BY <1>9, <3>1, <3>2
    <3>4. h = Ready(InitPrio[x])
      BY <1>9, <3>1, <3>2
    <3> QED BY <2>2, <3>3, <3>4
  <2> QED BY <1>1, <1>9, <2>1, <2>2 DEF OneList
<1>13. ListsAgree(s)
  <2>1. ASSUME NEW t \in Thread
        PROVE  /\ \A p \in Prio : Linked(s, t, Ready(p)) => s.stat[t] = "READY" /\ s.prio[t] = p
               /\ \A o \in Obj : ~Linked(s, t, Wait(o))
               /\ ~Linked(s, t, Defunct)
               /\ ~Timed(s, t)
               /\ s.mask[t] = {s.prio[t]}
    <3>1. \A p \in Prio : Linked(s, t, Ready(p)) => s.stat[t] = "READY" /\ s.prio[t] = p
      BY <1>1, <1>9, HeadFacts DEF Linked
    <3>2. (\A o \in Obj : ~Linked(s, t, Wait(o))) /\ ~Linked(s, t, Defunct) /\ ~Timed(s, t)
      BY <1>1, <1>4 DEF Linked, Timed, Range
    <3> QED BY <1>1, <3>1, <3>2
  <2> QED BY <2>1 DEF ListsAgree
<1>14. BitsCover(s) /\ StaleBits(s) = {}
  <2>1. \A p \in Prio : s.list[Ready(p)] # <<>> <=> p \in s.group
    BY <1>1, <1>4
  <2>2. Linked(s, idle, Ready(PrioMax - 1))
    BY <1>4, <1>5, <1>6 DEF Linked
  <2> QED BY <1>10, <2>1, <2>2 DEF BitsCover, StaleBits, KState
<1>15. \A t \in Thread : s.stat[t] = "READY" /\ Linked(s, t, Ready(s.prio[t]))
  <2>1. ASSUME NEW t \in Thread
        PROVE  s.stat[t] = "READY" /\ Linked(s, t, Ready(s.prio[t]))
    <3>1. InitPrio[t] \in Prio /\ s.prio[t] = InitPrio[t] /\ s.stat[t] = "READY"
      BY <1>1, <1>6
    <3>2. t \in Range(Queue[InitPrio[t]])
      BY <1>5, <3>1
    <3> QED BY <1>4, <3>1, <3>2 DEF Linked
  <2> QED BY <2>1
<1>16. Sane(s)
  BY <1>1, <1>10, <1>12, <1>13, <1>14, <1>15 DEF Sane, KInv
<1> QED BY <1>1, <1>4, <1>15, <1>16 DEF s

\* The program starts in a state that satisfies the invariants.
LEMMA StartInv ==
  ASSUME IpcStart, alive \subseteq Obj
  PROVE  /\ IpcInv /\ DetachInv
         /\ \A o \in Obj : Waiters(o) = <<>>
         /\ k.prio = InitPrio
<1>1. /\ Sane(k) /\ (\A t \in Thread : k.stat[t] = "READY")
      /\ \A o \in Obj : k.list[Wait(o)] = <<>>
      /\ k.prio = InitPrio
  BY StartedSane DEF IpcStart
<1>2. \A t \in Thread : op[t].pc = "run" /\ op[t].on = NoObj
  BY DEF IpcStart
<1>3. IpcTypeOK
  BY <1>1 DEF IpcTypeOK, IpcStart, Sane, KInv, IpcPC
<1>4. \A t \in Thread : CallerOK(t)
  BY <1>1, <1>2 DEF CallerOK, Blocked, Linked, Range
<1>5. k.cur \in Thread /\ idle \in Thread
  BY <1>3, KernelAssumption DEF IpcTypeOK, KState
<1>6. IpcInv
  BY <1>1, <1>2, <1>3, <1>4, <1>5 DEF IpcInv
<1>7. \A t \in Thread : Leaving(t) = {}
  BY <1>2 DEF Leaving, ResumePC
<1>8. DetachInv
  BY <1>2, <1>7 DEF DetachInv, ResumeAllFindsWaiter, ResumePC
<1> QED BY <1>1, <1>6, <1>8 DEF Waiters
-----------------------------------------------------------------------------
(* The order of the waiters, while nobody changes a priority *)

InOrder == \A o \in Obj : Flag[o] = "PRIO" => Sorted(k.list[Wait(o)], k.prio)

LEMMA InOrderMeans == InOrder <=> WaitersOrdered
BY DEF InOrder, WaitersOrdered, Waiters, Sorted

LEMMA StillOrder ==
  ASSUME InOrder, Still
  PROVE  InOrder'
BY DEF InOrder, Still

\* One waiter less leaves the others in order, and an empty list empty.
LEMMA WakesOrder ==
  ASSUME IpcInv, InOrder, NEW t, NEW e, Wakes(t, e)
  PROVE  InOrder' /\ \A o \in Obj : k.list[Wait(o)] = <<>> => k'.list[Wait(o)] = <<>>
<1>1. ASSUME NEW o \in Obj
      PROVE  /\ Flag[o] = "PRIO" => Sorted(k'.list[Wait(o)], k'.prio)
             /\ k.list[Wait(o)] = <<>> => k'.list[Wait(o)] = <<>>
  <2>1. /\ k.list[Wait(o)] \in Seq(Thread) /\ k'.prio = k.prio
        /\ k'.list[Wait(o)] = RemoveFirst(k.list[Wait(o)], t)
    BY HeadFacts DEF IpcInv, IpcTypeOK, KState, Wakes
  <2>2. Flag[o] = "PRIO" => Sorted(k'.list[Wait(o)], k'.prio)
    BY <2>1, SortedRemoveFirst DEF InOrder
  <2>3. k.list[Wait(o)] = <<>> => k'.list[Wait(o)] = <<>>
    <3>1. t \notin Range(<<>>)
      BY DEF Range
    <3> QED BY <2>1, <3>1, RemoveAbsent
  <2> QED BY <2>2, <2>3
<1> QED BY <1>1 DEF InOrder

LEMMA BlockOrder ==
  ASSUME InOrder, NEW o \in Obj, k'.prio = k.prio,
         \A x \in Obj : x # o => k'.list[Wait(x)] = k.list[Wait(x)],
         Flag[o] = "PRIO" /\ Sorted(k.list[Wait(o)], k.prio) => Sorted(k'.list[Wait(o)], k.prio)
  PROVE  InOrder'
BY DEF InOrder
-----------------------------------------------------------------------------
(* rt_thread_sleep *)

\* what a step of c inside rt_thread_sleep leaves alone
Apart(c) ==
  /\ alive' = alive /\ k'.prio = k.prio
  /\ \A o \in Obj : k'.list[Wait(o)] = k.list[Wait(o)]
  /\ ~Blocked(c) /\ op'[c].pc \notin WaitPC
  /\ \A t \in Thread \ {c} : op'[t] = op[t] /\ k'.err[t] = k.err[t]

LEMMA SleepInv ==
  ASSUME IpcInv, DetachInv, NEW c \in User, Sleep(c)
  PROVE  IpcInv' /\ DetachInv' /\ Apart(c)
<1>0. /\ c \in Thread /\ c # idle /\ IpcTypeOK /\ alive \subseteq Obj /\ Sane(k)
      /\ k \in KState /\ k.err \in [Thread -> Err]
      /\ {"sleep_sched", "sleep_return", "run"} \subseteq IpcPC
  BY DEF User, IpcInv, IpcTypeOK, IpcPC, KState
<1>1. ASSUME NEW d \in Time \ {-1}, rt_thread_sleep(c, d)
      PROVE  IpcInv' /\ DetachInv' /\ Apart(c)
  <2>1. /\ At(c, "run") /\ k' = TimerStart(Suspend(k, c), c, d) /\ Goto(c, "sleep_sched")
        /\ alive' = alive
    BY <1>1 DEF rt_thread_sleep
  <2>2. d \in Nat
    <3>1. d \in 1 .. Half - 1
      BY IpcAssumption
    <3> QED BY <3>1
  <2>3. k.cur = c /\ op[c].pc = "run" /\ k.stat[c] = "READY" /\ op[c].on = NoObj
    BY <1>0, <2>1, AtFacts
  <2>4. /\ Slept(k, k', c, NoObj)
        /\ \A x \in Obj : k'.list[Wait(x)] = k.list[Wait(x)]
        /\ k'.err = k.err /\ k'.prio = k.prio /\ k'.cur = k.cur
    BY <1>0, <2>1, <2>2, <2>3, SleepSlept
  <2>5. /\ OpType /\ op'[c].pc = "sleep_sched" /\ op'[c].on = NoObj
        /\ \A t \in Thread \ {c} : op'[t] = op[t]
    BY <1>0, <2>1, <2>3, GotoFacts
  <2>6. IpcInv'
    BY <1>0, <2>1, <2>3, <2>4, <2>5, SleptStep
  <2>7. DetachInv'
    BY <1>0, <2>1, <2>3, <2>4, <2>5, <2>6, SleptDetach DEF ResumePC
  <2> QED BY <2>1, <2>3, <2>4, <2>5, <2>6, <2>7 DEF Apart, Blocked, WaitPC
<1>2. ASSUME SleepSchedule(c)
      PROVE  IpcInv' /\ DetachInv' /\ Apart(c)
  <2>1. At(c, "sleep_sched") /\ k' = Schedule(k) /\ Goto(c, "sleep_return") /\ alive' = alive
    BY <1>2 DEF SleepSchedule
  <2>2. op[c].pc = "sleep_sched" /\ k.cur = c
    BY <2>1 DEF At
  <2>3. /\ Woke(k, k', {}) /\ k'.stat[k'.cur] = "READY"
        /\ k'.list = k.list /\ k'.err = k.err /\ k'.prio = k.prio /\ k'.tmo = k.tmo
    BY <1>0, <2>1, ScheduleWoke
  <2>4. /\ OpType /\ op'[c] = [pc |-> "sleep_return", on |-> op[c].on] /\ op'[c].pc = "sleep_return"
        /\ \A t \in Thread \ {c} : op'[t] = op[t]
    BY <1>0, <2>1, GotoFacts
  <2>5. Still /\ CurOK /\ \A t \in Thread : Moves(t)
    BY <2>2, <2>3, <2>4 DEF Still, CurOK, Moves
  <2>6. IpcInv'
    BY <1>0, <2>1, <2>4, <2>5, StillInv
  <2>7. DetachInv'
    BY <2>1, <2>4, <2>5, <2>6, StillDetach DEF ResumePC
  <2> QED BY <2>1, <2>2, <2>3, <2>4, <2>6, <2>7 DEF Apart, Blocked, WaitPC
<1>3. ASSUME SleepReturn(c)
      PROVE  IpcInv' /\ DetachInv' /\ Apart(c)
  <2>1. /\ At(c, "sleep_return") /\ Call(c, "run", NoObj) /\ alive' = alive
        /\ k' = [k EXCEPT !.err[c] = IF k.err[c] = "ETIMEOUT" THEN "EOK" ELSE k.err[c]]
    BY <1>0, <1>3 DEF SleepReturn, Return, KState
  <2>2. op[c].pc = "sleep_return" /\ k.cur = c /\ k.stat[c] = "READY"
    BY <1>0, <2>1, AtFacts
  <2> DEFINE e == IF k.err[c] = "ETIMEOUT" THEN "EOK" ELSE k.err[c]
  <2>3. e \in Err
    BY <1>0 DEF Err
  <2> HIDE DEF e
  <2>4. k' = [k EXCEPT !.err[c] = e]
    BY <2>1 DEF e
  <2>5. Woke(k, k', {})
    BY <1>0, <2>3, <2>4, SetErrWoke
  <2>6. /\ k'.err = [k.err EXCEPT ![c] = e] /\ k'.list = k.list /\ k'.prio = k.prio
        /\ k'.cur = k.cur /\ k'.stat = k.stat /\ k'.timers = k.timers
    BY <1>0, <2>4 DEF KState
  <2>7. \A t \in Thread \ {c} : k'.err[t] = k.err[t]
    BY <1>0, <2>6
  <2>8. /\ OpType /\ op'[c].pc = "run" /\ op'[c].on = NoObj
        /\ \A t \in Thread \ {c} : op'[t] = op[t]
    BY <1>0, <2>1, CallFacts
  <2>9. IpcInv'
    <3>1. \A t \in Thread : Moves(t)
      BY <2>2, <2>8 DEF Moves, WaitPC
    <3>2. \A t \in Thread : k.stat[t] = "SUSPEND" /\ t \notin {} => k'.err[t] = k.err[t]
      BY <2>2, <2>7
    <3> QED BY <1>0, <2>1, <2>2, <2>5, <2>6, <2>8, <3>1, <3>2, WokeStep
  <2>10. DetachInv'
    <3>1. IpcTypeOK'
      BY <2>9 DEF IpcInv
    <3>2. \A t \in Thread : op'[t] = op[t] \/ op'[t].pc \notin ResumePC \cup {"assert"}
      BY <2>8 DEF ResumePC
    <3> QED BY <1>0, <2>1, <2>6, <3>1, <3>2, DetachKept DEF Timed
  <2> QED BY <2>1, <2>2, <2>6, <2>7, <2>8, <2>9, <2>10 DEF Apart, Blocked, WaitPC
<1> QED BY <1>1, <1>2, <1>3 DEF Sleep
=============================================================================
