-------------------------- MODULE RtObjectsProofs --------------------------
(***************************************************************************)
(* Theorems about the mailbox, the message queue, the event and the memory *)
(* pool.  First what each step does to the kernel structures and to the    *)
(* threads, then an inductive invariant for each of the objects.           *)
(***************************************************************************)
EXTENDS RtObjects, RtIpcProofs, FiniteSetTheorems

-----------------------------------------------------------------------------
(* What a step does to a thread *)

\* the lists and the timer of t are as they were, or its timer ended
SameLinks(t) ==
  /\ \A o \in Obj : Linked(k', t, Wait(o)) <=> Linked(k, t, Wait(o))
  /\ Timed(k', t) => Timed(k, t) /\ k'.tmo[t] = k.tmo[t]

Kept(t) == op'[t] = op[t] /\ SameLinks(t) /\ k'.err[t] = k.err[t]

\* t was waiting and is on its way, told e
Roused(t, e) ==
  /\ op'[t] = op[t] /\ Blocked(t) /\ op[t].on \in Obj
  /\ Linked(k, t, Wait(op[t].on))
  /\ op[t].on \in alive
  /\ \A o \in Obj : ~Linked(k', t, Wait(o))
  /\ k'.err[t] = e /\ ~Timed(k', t)

\* A step of the threads in A, one or, in an interrupt, none, which rouses the
\* threads in W.
KStep(A, W, e) ==
  /\ IpcInv' /\ DetachInv'
  /\ \A t \in Thread : t \in A \cup W \/ Kept(t)
  /\ \A t \in W : t \in Thread /\ t \notin A /\ Roused(t, e)
  /\ \A t \in A : t \in Thread /\ SameLinks(t) /\ (op'[t].pc = "run" \/ k'.err[t] = k.err[t])

\* Between k and u the waiters in W, of the lists in O, were made ready and told e.
Resumed(u, O, W, e) ==
  /\ Woke(k, u, W)
  /\ \A t \in W : t \in Thread /\ \E o \in O : Linked(k, t, Wait(o))
  /\ \A o \in Obj : o \notin O => u.list[Wait(o)] = k.list[Wait(o)]
  /\ \A t \in Thread : u.err[t] = IF t \in W THEN e ELSE k.err[t]
  /\ \A t \in Thread : t \notin W => u.tmo[t] = k.tmo[t]

\* A thread that is ready is in no list and has no timer.
LEMMA ReadyFacts ==
  ASSUME IpcInv, NEW c \in Thread, k.stat[c] = "READY"
  PROVE  ~Timed(k, c) /\ \A o \in Obj : ~Linked(k, c, Wait(o))
<1>1. KInv(k)
  BY DEF IpcInv, Sane
<1> QED BY <1>1, WaiterFacts DEF KInv, ListsAgree

\* A caller is in the list of the object of its call or in none.
LEMMA LinkedFacts ==
  ASSUME IpcInv, NEW t \in Thread, NEW o \in Obj, Linked(k, t, Wait(o))
  PROVE  Blocked(t) /\ op[t].on = o
BY DEF IpcInv, CallerOK

LEMMA NobodyResumed ==
  ASSUME IpcInv, NEW e
  PROVE  Resumed(k, {}, {}, e)
<1>1. Woke(k, k, {})
  BY WokeNobody DEF IpcInv
<1> QED BY <1>1 DEF Resumed

LEMMA HeadResumed ==
  ASSUME IpcInv, NEW o \in Obj, Waiters(o) # <<>>
  PROVE  LET t == Head(Waiters(o))
             u == IpcListResume(k, o)
         IN  /\ Resumed(u, {o}, {t}, "EOK")
             /\ t \in Thread /\ Linked(k, t, Wait(o)) /\ u.cur = k.cur
<1> DEFINE t == Head(Waiters(o))
           u == IpcListResume(k, o)
<1>0. Sane(k) /\ KInv(k) /\ k \in KState
  BY DEF IpcInv, Sane, KInv
<1>1. t \in Thread /\ Linked(k, t, Wait(o)) /\ k.stat[t] = "SUSPEND"
  BY <1>0, HeadFactsOf DEF Waiters
<1>2. u = Resume(k, t)
  BY DEF IpcListResume, Waiters
<1> HIDE DEF t, u
<1>3. /\ Woke(k, u, {t})
      /\ \A x \in Obj : u.list[Wait(x)] = RemoveFirst(k.list[Wait(x)], t)
      /\ u.err = k.err /\ u.cur = k.cur
      /\ \A x \in Thread \ {t} : u.tmo[x] = k.tmo[x]
  BY <1>0, <1>1, <1>2, ResumeWoke
<1>4. k.err[t] = "EOK"
  BY <1>1 DEF IpcInv, CallerOK
<1>5. ASSUME NEW x \in Obj, x # o PROVE u.list[Wait(x)] = k.list[Wait(x)]
  <2>1. ~Linked(k, t, Wait(x))
    BY <1>1, <1>5, OneWait
  <2>2. k.list[Wait(x)] \in Seq(Thread)
    BY <1>0, HeadFacts DEF KState
  <2> QED BY <1>3, <2>1, <2>2, RemoveAbsent DEF Linked
<1>6. Resumed(u, {o}, {t}, "EOK")
  BY <1>1, <1>3, <1>4, <1>5 DEF Resumed
<1> QED BY <1>1, <1>3, <1>6 DEF t, u

LEMMA ScheduleResumed ==
  ASSUME NEW u, NEW O, NEW W, NEW e, Resumed(u, O, W, e)
  PROVE  LET v == Schedule(u)
         IN  Resumed(v, O, W, e) /\ v.stat[v.cur] = "READY"
<1> DEFINE v == Schedule(u)
<1>1. Sane(u)
  BY DEF Resumed, Woke
<1>2. /\ Woke(u, v, {}) /\ v.stat[v.cur] = "READY"
      /\ v.list = u.list /\ v.err = u.err /\ v.tmo = u.tmo
  BY <1>1, ScheduleWoke
<1> HIDE DEF v
<1>3. Woke(k, v, W \cup {}) /\ W \cup {} = W
  BY <1>2, WokeTwice DEF Resumed
<1>4. Resumed(v, O, W, e)
  BY <1>2, <1>3 DEF Resumed
<1> QED BY <1>2, <1>4 DEF v

LEMMA AllResumed ==
  ASSUME IpcInv, NEW o \in Obj
  PROVE  LET u == ResumeAll(k, o)
         IN  /\ Resumed(u, {o}, Range(Waiters(o)), "ERROR")
             /\ u.list[Wait(o)] = <<>> /\ u.cur = k.cur
<1> DEFINE u == ResumeAll(k, o)
           W == Range(Waiters(o))
<1>0. Sane(k) /\ KInv(k) /\ Waiters(o) \in Seq(Thread)
  BY HeadFacts DEF IpcInv, Sane, KInv, KState, Waiters
<1>1. /\ Woke(k, u, W)
      /\ u.list[Wait(o)] = <<>>
      /\ \A x \in Obj : x # o => u.list[Wait(x)] = k.list[Wait(x)]
      /\ \A t \in Thread : u.err[t] = IF t \in W THEN "ERROR" ELSE k.err[t]
      /\ u.cur = k.cur
      /\ \A t \in Thread \ W : u.tmo[t] = k.tmo[t]
  BY <1>0, ResumeAllWoke DEF Waiters
<1>2. \A t \in W : t \in Thread /\ Linked(k, t, Wait(o))
  BY <1>0 DEF Linked, Waiters, Range
<1> HIDE DEF u, W
<1>3. Resumed(u, {o}, W, "ERROR")
  BY <1>1, <1>2 DEF Resumed
<1> QED BY <1>1, <1>3 DEF u, W

\* The two lists of a mailbox, one after the other.
LEMMA BothResumed ==
  ASSUME IpcInv, NEW o \in Obj, NEW x \in Obj, o # x
  PROVE  LET u == ResumeAll(ResumeAll(k, o), x)
         IN  /\ Resumed(u, {o, x}, Range(Waiters(o)) \cup Range(Waiters(x)), "ERROR")
             /\ u.list[Wait(o)] = <<>> /\ u.list[Wait(x)] = <<>> /\ u.cur = k.cur
<1> DEFINE v == ResumeAll(k, o)
           u == ResumeAll(v, x)
           W == Range(Waiters(o))
           X == Range(Waiters(x))
<1>0. Waiters(x) \in Seq(Thread)
  BY HeadFacts DEF IpcInv, Sane, KInv, KState, Waiters
<1>1. Resumed(v, {o}, W, "ERROR") /\ v.list[Wait(o)] = <<>> /\ v.cur = k.cur
  BY AllResumed
<1> HIDE DEF v
<1>2. Sane(v) /\ v.list[Wait(x)] = Waiters(x)
  BY <1>1 DEF Resumed, Woke, Waiters
<1>3. /\ Woke(v, u, X)
      /\ u.list[Wait(x)] = <<>>
      /\ \A y \in Obj : y # x => u.list[Wait(y)] = v.list[Wait(y)]
      /\ \A t \in Thread : u.err[t] = IF t \in X THEN "ERROR" ELSE v.err[t]
      /\ u.cur = v.cur
      /\ \A t \in Thread \ X : u.tmo[t] = v.tmo[t]
  BY <1>2, ResumeAllWoke
<1>4. \A t \in X : t \in Thread /\ Linked(k, t, Wait(x))
  BY <1>0 DEF Linked, Waiters, Range
<1> HIDE DEF u, W, X
<1>5. Woke(k, u, W \cup X)
  BY <1>1, <1>3, WokeTwice DEF Resumed
<1>6. Resumed(u, {o, x}, W \cup X, "ERROR")
  <2>1. \A t \in W \cup X : t \in Thread /\ \E y \in {o, x} : Linked(k, t, Wait(y))
    BY <1>1, <1>4 DEF Resumed
  <2>2. \A y \in Obj : y \notin {o, x} => u.list[Wait(y)] = k.list[Wait(y)]
    BY <1>1, <1>3 DEF Resumed
  <2>3. \A t \in Thread : u.err[t] = IF t \in W \cup X THEN "ERROR" ELSE k.err[t]
    BY <1>1, <1>3 DEF Resumed
  <2>4. \A t \in Thread : t \notin W \cup X => u.tmo[t] = k.tmo[t]
    BY <1>1, <1>3 DEF Resumed
  <2> QED BY <1>5, <2>1, <2>2, <2>3, <2>4 DEF Resumed
<1> QED BY <1>1, <1>3, <1>6 DEF u, v, W, X
-----------------------------------------------------------------------------
(* The steps *)

\* A step that resumes waiters of objects that are alive.
LEMMA ResumedStep ==
  ASSUME IpcInv, DetachInv, NEW O, O \subseteq alive, NEW W, NEW e, Resumed(k', O, W, e),
         alive' = alive, OpType, \A t \in Thread : Moves(t), CurOK,
         NEW A, \A t \in Thread : t \in A \/ op'[t] = op[t],
         \A t \in A : /\ t \in Thread /\ k.stat[t] = "READY"
                      /\ op'[t].pc \notin ResumePC \cup {"assert"}
  PROVE  KStep(A, W, e)
<1>0. Sane(k) /\ IpcTypeOK /\ alive \subseteq Obj /\ alive' \subseteq Obj
  BY DEF IpcInv, IpcTypeOK
<1>1. \A t \in W : /\ t \in Thread /\ k.stat[t] = "SUSPEND" /\ Blocked(t) /\ op[t].on \in O
                   /\ op[t].on \in Obj /\ Linked(k, t, Wait(op[t].on))
  <2> SUFFICES ASSUME NEW t \in W
               PROVE  /\ t \in Thread /\ k.stat[t] = "SUSPEND" /\ Blocked(t) /\ op[t].on \in O
                      /\ op[t].on \in Obj /\ Linked(k, t, Wait(op[t].on))
    OBVIOUS
  <2>1. PICK o \in O : Linked(k, t, Wait(o))
    BY DEF Resumed
  <2>2. t \in Thread /\ o \in Obj
    BY <1>0 DEF Resumed
  <2>3. Blocked(t) /\ op[t].on = o
    BY <2>1, <2>2, LinkedFacts
  <2>4. k.stat[t] = "SUSPEND"
    BY <1>0, <2>1, <2>2, WaiterFacts DEF Sane
  <2> QED BY <2>1, <2>2, <2>3, <2>4
<1>2. IpcInv'
  <2>1. \A t \in Thread : k.stat[t] = "SUSPEND" /\ t \notin W => k'.err[t] = k.err[t]
    BY DEF Resumed
  <2> QED BY <1>0, <2>1, WokeStep DEF Resumed, CurOK
<1>3. \A t \in Thread : Timed(k', t) <=> Timed(k, t) /\ t \notin W
  BY DEF Resumed, Woke, Timed
<1>4. \A t \in Thread, o \in Obj : Linked(k', t, Wait(o)) <=> Linked(k, t, Wait(o)) /\ t \notin W
  BY DEF Resumed, Woke
<1>5. DetachInv'
  <2>1. IpcTypeOK'
    BY <1>2 DEF IpcInv
  <2>2. \A c \in Thread : op'[c] = op[c] \/ op'[c].pc \notin ResumePC \cup {"assert"}
    OBVIOUS
  <2>3. ASSUME NEW c \in Thread, NEW o \in Leaving(c)
        PROVE  /\ k'.list[Wait(o)] = k.list[Wait(o)]
               /\ \A t \in Range(Waiters(o)) : Timed(k', t) => Timed(k, t)
    <3>1. o \in Obj /\ o \notin alive
      BY DEF Leaving, DetachInv
    <3>2. Waiters(o) \in Seq(Thread)
      BY <1>0, <3>1, HeadFacts DEF IpcTypeOK, KState, Waiters
    <3>3. \A t \in Range(Waiters(o)) : t \in Thread
      BY <3>2 DEF Range
    <3> QED BY <1>3, <3>1, <3>3 DEF Resumed
  <2> QED BY <1>0, <2>1, <2>2, <2>3, DetachKept
<1>6. \A t \in W : t \notin A /\ op'[t] = op[t]
  BY <1>1
<1>7. \A t \in W : Roused(t, e)
  BY <1>1, <1>3, <1>4, <1>6 DEF Roused, Resumed
<1>8. \A t \in Thread : t \notin W => SameLinks(t) /\ k'.err[t] = k.err[t]
  BY <1>3, <1>4 DEF SameLinks, Resumed
<1>9. \A t \in Thread : t \in A \cup W \/ Kept(t)
  BY <1>8 DEF Kept
<1>10. \A t \in A : t \in Thread /\ t \notin W
  BY <1>6
<1> QED BY <1>1, <1>2, <1>5, <1>6, <1>7, <1>8, <1>9, <1>10 DEF KStep

\* c goes on in its call.
LEMMA ActorStep ==
  ASSUME IpcInv, DetachInv, NEW O, O \subseteq alive, NEW W, NEW e, Resumed(k', O, W, e),
         alive' = alive, NEW c \in User, k.cur = c, k'.cur = c, k.stat[c] = "READY",
         NEW pc \in IpcPC \ (WaitPC \cup ResumePC \cup {"assert"}),
         NEW o \in Obj \cup {NoObj}, pc = "run" => o = NoObj, Call(c, pc, o)
  PROVE  KStep({c}, W, e) /\ op'[c] = [pc |-> pc, on |-> o] /\ op'[c].pc = pc /\ op'[c].on = o
<1>0. IpcTypeOK /\ c \in Thread /\ c # idle
  BY DEF IpcInv, User
<1>1. /\ OpType /\ op'[c] = [pc |-> pc, on |-> o] /\ op'[c].pc = pc /\ op'[c].on = o
      /\ \A t \in Thread \ {c} : op'[t] = op[t]
  BY <1>0, CallFacts
<1>2. \A t \in Thread : Moves(t)
  BY <1>0, <1>1 DEF Moves
<1>3. CurOK
  BY <1>0 DEF CurOK, Resumed, Woke
<1>4. KStep({c}, W, e)
  BY <1>0, <1>1, <1>2, <1>3, ResumedStep
<1> QED BY <1>1, <1>4

\* Nobody goes on: an interrupt handler, or a call that ends at once.
LEMMA NoActorStep ==
  ASSUME IpcInv, DetachInv, NEW O, O \subseteq alive, NEW W, NEW e, Resumed(k', O, W, e),
         alive' = alive, op' = op, k'.cur = k.cur \/ k'.stat[k'.cur] = "READY"
  PROVE  KStep({}, W, e)
<1>1. OpType /\ \A t \in Thread : Moves(t)
  BY DEF IpcInv, IpcTypeOK, OpType, Moves
<1>2. CurOK
  BY DEF CurOK
<1> QED BY <1>1, <1>2, ResumedStep

LEMMA GotoCall ==
  ASSUME IpcTypeOK, NEW c \in Thread, NEW pc, Goto(c, pc)
  PROVE  Call(c, pc, op[c].on) /\ op[c].on \in Obj \cup {NoObj}
<1>1. op[c] \in [pc : IpcPC, on : Obj \cup {NoObj}]
  BY DEF IpcTypeOK
<1>2. [op[c] EXCEPT !.pc = pc] = [pc |-> pc, on |-> op[c].on]
  BY <1>1
<1> QED BY <1>1, <1>2 DEF Goto, Call

\* c goes on and leaves the kernel alone.
LEMMA QuietStep ==
  ASSUME IpcInv, DetachInv, k' = k, alive' = alive, NEW c \in User, NEW from, At(c, from),
         from \notin {"wait_sched", "sleep_sched"},
         NEW pc \in IpcPC \ (WaitPC \cup ResumePC \cup {"assert"}),
         NEW o \in Obj \cup {NoObj}, pc = "run" => o = NoObj, Call(c, pc, o)
  PROVE  KStep({c}, {}, "EOK") /\ op'[c] = [pc |-> pc, on |-> o] /\ op'[c].pc = pc /\ op'[c].on = o
<1>1. c \in Thread /\ k.cur = c /\ k.stat[c] = "READY"
  BY AtFacts DEF User
<1>2. Resumed(k', {}, {}, "EOK")
  BY NobodyResumed
<1> QED BY <1>1, <1>2, ActorStep

\* Nothing happens to the threads.
LEMMA NoStep ==
  ASSUME IpcInv, DetachInv, k' = k, alive' = alive, op' = op
  PROVE  KStep({}, {}, "EOK")
<1>2. Resumed(k', {}, {}, "EOK")
  BY NobodyResumed
<1> QED BY <1>2, NoActorStep

\* rt_mp_alloc links the caller in front of the list.
LEMMA RangePrepend ==
  ASSUME NEW S, NEW s \in Seq(S), NEW e \in S
  PROVE  /\ <<e>> \o s \in Seq(S)
         /\ Range(<<e>> \o s) = Range(s) \cup {e}
         /\ IsInjective(s) /\ e \notin Range(s) => IsInjective(<<e>> \o s)
<1> DEFINE r == <<e>> \o s
<1>1. /\ r \in Seq(S) /\ Len(r) = Len(s) + 1 /\ r[1] = e
      /\ \A i \in 1 .. Len(s) : r[i + 1] = s[i]
  OBVIOUS
<1>2. \A i \in 1 .. Len(r) : i = 1 \/ (i - 1 \in 1 .. Len(s) /\ r[i] = s[i - 1])
  <2> SUFFICES ASSUME NEW i \in 1 .. Len(r), i # 1
               PROVE  i - 1 \in 1 .. Len(s) /\ r[i] = s[i - 1]
    OBVIOUS
  <2>1. i - 1 \in 1 .. Len(s) /\ (i - 1) + 1 = i
    BY <1>1
  <2> QED BY <1>1, <2>1
<1> HIDE DEF r
<1>3. Range(r) = Range(s) \cup {e}
  <2>1. ASSUME NEW x \in Range(r) PROVE x \in Range(s) \cup {e}
    <3>1. PICK i \in 1 .. Len(r) : x = r[i]
      BY <1>1, <2>1 DEF Range
    <3> QED BY <1>1, <1>2, <3>1 DEF Range
  <2>2. ASSUME NEW x \in Range(s) PROVE x \in Range(r)
    <3>1. PICK i \in 1 .. Len(s) : x = s[i]
      BY <2>2 DEF Range
    <3>2. i + 1 \in 1 .. Len(r) /\ r[i + 1] = x
      BY <1>1, <3>1
    <3> QED BY <1>1, <3>2 DEF Range
  <2>3. e \in Range(r)
    <3>1. 1 \in 1 .. Len(r)
      BY <1>1
    <3> QED BY <1>1, <3>1 DEF Range
  <2> QED BY <2>1, <2>2, <2>3
<1>4. ASSUME IsInjective(s), e \notin Range(s) PROVE IsInjective(r)
  <2> SUFFICES ASSUME NEW i \in 1 .. Len(r), NEW j \in 1 .. Len(r), r[i] = r[j]
               PROVE  i = j
    BY <1>1 DEF IsInjective
  <2>1. \A n \in 1 .. Len(s) : s[n] # e
    BY <1>4 DEF Range
  <2> QED BY <1>1, <1>2, <1>4, <2>1 DEF IsInjective
<1> QED BY <1>1, <1>3, <1>4 DEF r

\* A step that rouses the first waiter of o, if there is one.
WakeStep(A, o) ==
  \E W : /\ KStep(A, W, "EOK")
         /\ \/ W = {} /\ \A t \in Thread : ~Linked(k, t, Wait(o))
            \/ \E t \in Thread : W = {t} /\ Linked(k, t, Wait(o))

LEMMA NoWaiters ==
  ASSUME IpcInv, NEW o \in Obj
  PROVE  Waiters(o) = <<>> <=> \A t \in Thread : ~Linked(k, t, Wait(o))
<1>1. Waiters(o) \in Seq(Thread)
  BY HeadFacts DEF IpcInv, IpcTypeOK, KState, Waiters
<1>2. Range(Waiters(o)) \subseteq Thread
  BY <1>1 DEF Range
<1> QED BY <1>1, <1>2, EmptyRange DEF Linked, Waiters

\* the end of the calls that let a waiter of the other side go on
LEMMA WakeCall ==
  ASSUME IpcInv, DetachInv, NEW o \in alive, alive' = alive,
         NEW c \in User, NEW from, At(c, from), from \notin {"wait_sched", "sleep_sched"},
         NEW self \in Obj \cup {NoObj},
         IF Waiters(o) # <<>>
         THEN k' = IpcListResume(k, o) /\ Call(c, "sched", self)
         ELSE Call(c, "return", self) /\ k' = k
  PROVE  WakeStep({c}, o) /\ op'[c].pc \in {"sched", "return"} /\ op'[c].on = self
<1>0. c \in Thread /\ k.cur = c /\ k.stat[c] = "READY" /\ o \in Obj
  BY AtFacts DEF User, IpcInv, IpcTypeOK
<1>1. {"sched", "return"} \subseteq IpcPC \ (WaitPC \cup ResumePC \cup {"assert"})
  BY DEF IpcPC, WaitPC, ResumePC
<1>2. CASE Waiters(o) # <<>>
  <2> DEFINE t == Head(Waiters(o))
  <2>1. Resumed(k', {o}, {t}, "EOK") /\ t \in Thread /\ Linked(k, t, Wait(o)) /\ k'.cur = k.cur
    BY <1>0, <1>2, HeadResumed
  <2> HIDE DEF t
  <2>2. Call(c, "sched", self) /\ {o} \subseteq alive /\ k'.cur = c
        /\ "sched" \in IpcPC \ (WaitPC \cup ResumePC \cup {"assert"})
        /\ ("sched" = "run" => self = NoObj)
    BY <1>0, <1>1, <1>2, <2>1
  <2>3. KStep({c}, {t}, "EOK") /\ op'[c].pc = "sched" /\ op'[c].on = self
    <3>1. Resumed(k', {o}, {t}, "EOK") /\ k.cur = c /\ k.stat[c] = "READY"
      BY <1>0, <2>1
    <3> QED BY <2>2, <3>1, ActorStep, Zenon
  <2> QED BY <2>1, <2>3 DEF WakeStep
<1>3. CASE Waiters(o) = <<>>
  <2>1. KStep({c}, {}, "EOK") /\ op'[c].pc = "return" /\ op'[c].on = self
    BY <1>1, <1>3, QuietStep
  <2>2. \A t \in Thread : ~Linked(k, t, Wait(o))
    BY <1>0, <1>3, NoWaiters
  <2> QED BY <2>1, <2>2 DEF WakeStep
<1> QED BY <1>2, <1>3

\* the end of the calls that rouse the threads of W and then belong to no object
LEMMA SchedCall ==
  ASSUME IpcInv, DetachInv, NEW O, O \subseteq alive, NEW W, NEW e, Resumed(k', O, W, e),
         alive' = alive, k'.cur = k.cur, NEW c \in User, At(c, "run"), Call(c, "sched", NoObj)
  PROVE  KStep({c}, W, e) /\ op'[c].pc = "sched" /\ op'[c].on = NoObj
<1>1. k.cur = c /\ k.stat[c] = "READY" /\ k'.cur = c
  BY AtFacts DEF User
<1>2. "sched" \in IpcPC \ (WaitPC \cup ResumePC \cup {"assert"})
  BY DEF IpcPC, WaitPC, ResumePC
<1>3. ASSUME NEW self \in Obj \cup {NoObj}, self = NoObj
      PROVE  KStep({c}, W, e) /\ op'[c].pc = "sched" /\ op'[c].on = self
  <2>1. Call(c, "sched", self) /\ ("sched" = "run" => self = NoObj)
    BY <1>3
  <2>2. O \subseteq alive /\ k'.cur = c /\ alive' = alive
    BY <1>1
  <2>3. Resumed(k', O, W, e) /\ k.cur = c /\ k.stat[c] = "READY" /\ IpcInv /\ DetachInv
    BY <1>1
  <2> QED BY ONLY <1>2, <1>3, <2>1, <2>2, <2>3, c \in User, ActorStep, Zenon
<1> QED BY <1>3

\* the same in an interrupt handler
LEMMA WakeIsr ==
  ASSUME IpcInv, DetachInv, NEW o \in alive, alive' = alive, op' = op,
         k' = IF Waiters(o) # <<>> THEN Schedule(IpcListResume(k, o)) ELSE k
  PROVE  WakeStep({}, o)
<1>0. o \in Obj
  BY DEF IpcInv, IpcTypeOK
<1>1. CASE Waiters(o) # <<>>
  <2> DEFINE t == Head(Waiters(o))
             u == IpcListResume(k, o)
  <2>1. Resumed(u, {o}, {t}, "EOK") /\ t \in Thread /\ Linked(k, t, Wait(o))
    BY <1>0, <1>1, HeadResumed
  <2> HIDE DEF t, u
  <2>2. k' = Schedule(u)
    BY <1>1 DEF u
  <2>3. Resumed(k', {o}, {t}, "EOK") /\ k'.stat[k'.cur] = "READY"
    BY <2>1, <2>2, ScheduleResumed
  <2>4. KStep({}, {t}, "EOK")
    BY <2>3, NoActorStep
  <2> QED BY <2>1, <2>4 DEF WakeStep
<1>2. CASE Waiters(o) = <<>>
  <2>1. KStep({}, {}, "EOK")
    BY <1>2, NoStep
  <2> QED BY <1>0, <1>2, <2>1, NoWaiters DEF WakeStep
<1> QED BY <1>1, <1>2

\* c goes to sleep in the list of o, for d ticks or for ever.
Sleeps(c, o, d) ==
  /\ IpcInv' /\ DetachInv'
  /\ \A t \in Thread : t = c \/ Kept(t)
  /\ op'[c] = [pc |-> "wait_sched", on |-> o] /\ op'[c].pc = "wait_sched" /\ op'[c].on = o
  /\ \A x \in Obj : Linked(k', c, Wait(x)) <=> x = o
  /\ k'.err[c] = "EOK"
  /\ Timed(k', c) <=> d > 0
  /\ d > 0 => k'.tmo[c] = (k.tick + d) % TickMod

LEMMA BlockSleeps ==
  ASSUME IpcInv, DetachInv, NEW c \in User, NEW o \in alive, NEW d, d > 0 => d \in Nat,
         k.cur = c, k.stat[c] = "READY",
         k' = Block(k, o, c, d), Call(c, "wait_sched", o), alive' = alive
  PROVE  Sleeps(c, o, d)
<1>0. c \in Thread /\ o \in Obj /\ Woke(k, k, {}) /\ k.err \in [Thread -> Err] /\ NoObj \notin Obj
  BY WokeNobody, IpcAssumption DEF User, IpcInv, IpcTypeOK, KState
<1>1. /\ IpcInv' /\ Slept(k, k', c, o)
      /\ \A x \in Obj : x # o => k'.list[Wait(x)] = k.list[Wait(x)]
      /\ k'.err = [k.err EXCEPT ![c] = "EOK"]
      /\ op'[c] = [pc |-> "wait_sched", on |-> o]
      /\ \A t \in Thread \ {c} : op'[t] = op[t] /\ k'.tmo[t] = k.tmo[t]
      /\ Timed(k', c) <=> d > 0
      /\ d > 0 => k'.tmo[c] = (k.tick + d) % TickMod
  BY <1>0, BlockStepTmo
<1>2. DetachInv'
  BY <1>0, <1>1, SleptDetach DEF ResumePC
<1>3. \A t \in Thread \ {c} : Kept(t)
  BY <1>0, <1>1 DEF Kept, SameLinks, Slept, Timed
<1>4. \A x \in Obj : Linked(k', c, Wait(x)) <=> x = o
  BY <1>0, <1>1, ReadyFacts DEF Slept
<1> QED BY <1>0, <1>1, <1>2, <1>3, <1>4 DEF Sleeps

\* The timer of a thread that was suspended starts, when it waits for d ticks.
LEMMA SleepTimer ==
  ASSUME NEW w, KInv(w), NEW c \in Thread, w.stat[c] = "SUSPEND", NEW d, d > 0 => d \in Nat
  PROVE  LET u == IF d > 0 THEN TimerStart(w, c, d) ELSE w
         IN  /\ KInv(u) /\ StaleBits(u) = StaleBits(w)
             /\ Range(u.timers) = IF d > 0 THEN Range(w.timers) \cup {c} ELSE Range(w.timers)
             /\ u.stat = w.stat /\ u.prio = w.prio /\ u.list = w.list /\ u.err = w.err
             /\ u.cur = w.cur /\ u.lock = w.lock
             /\ \A t \in Thread \ {c} : u.tmo[t] = w.tmo[t]
             /\ d > 0 => u.tmo[c] = (w.tick + d) % TickMod
<1> DEFINE u == IF d > 0 THEN TimerStart(w, c, d) ELSE w
<1>0. w \in KState
  BY DEF KInv
<1>1. CASE d > 0
  <2> DEFINE r == TimerRemove(w, c)
             x == TimerStart(w, c, d)
  <2>0. d \in Nat /\ u = x
    BY <1>1
  <2>1. r \in KState /\ r.tick = w.tick /\ \A t \in Thread \ {c} : r.tmo[t] = w.tmo[t]
    <3>1. RemoveFirst(w.timers, c) \in Seq(Thread)
      BY RangeRemoveFirst DEF KInv, KState, OneList
    <3>2. 0 \in Tick
      BY KernelAssumption DEF Tick
    <3> QED BY <1>0, <3>1, <3>2 DEF TimerRemove, KState
  <2>2. /\ KInv(x) /\ StaleBits(x) = StaleBits(w)
        /\ Range(x.timers) = Range(w.timers) \cup {c}
        /\ x.stat = w.stat /\ x.prio = w.prio /\ x.list = w.list
        /\ x.cur = w.cur /\ x.lock = w.lock /\ x.isr = w.isr
    BY <2>0, TimerStartInv
  <2>3. x.err = w.err
    BY <1>0, <2>0, TimerStartErr
  <2> HIDE DEF r
  <2>4. x = [r EXCEPT !.tmo[c] = (w.tick + d) % TickMod,
                      !.timers = InsertAt(@, TimerPos(r, (w.tick + d) % TickMod), c),
                      !.act = @ \cup {c}]
    BY DEF TimerStart, r
  <2>5. x.tmo = [r.tmo EXCEPT ![c] = (w.tick + d) % TickMod]
    BY <2>1, <2>4 DEF KState
  <2>6. r.tmo \in [Thread -> Tick]
    BY <2>1 DEF KState
  <2>7. x.tmo[c] = (w.tick + d) % TickMod /\ \A t \in Thread \ {c} : x.tmo[t] = w.tmo[t]
    BY <2>1, <2>5, <2>6
  <2> HIDE DEF x
  <2> QED BY <1>1, <2>0, <2>2, <2>3, <2>7
<1>2. CASE ~(d > 0)
  BY <1>2
<1> QED BY <1>1, <1>2

\* A memory pool puts its callers at the front of the list.
LEMMA MpSleeps ==
  ASSUME IpcInv, DetachInv, NEW c \in User, "mp" \in alive, NEW d, d > 0 => d \in Nat,
         k.cur = c, k.stat[c] = "READY", MpSuspend(c, d), alive' = alive
  PROVE  Sleeps(c, "mp", d)
<1> DEFINE e == [k EXCEPT !.err[c] = "EOK"]
           s == Suspend(e, c)
           q == s.list[Wait("mp")]
           v == LinkWait(s, "mp", <<c>> \o q)
           u == IF d > 0 THEN TimerStart(v, c, d) ELSE v
<1>0. /\ c \in Thread /\ c # idle /\ "mp" \in Obj /\ IpcTypeOK /\ Sane(k) /\ KInv(k)
      /\ "EOK" \in Err /\ k.err \in [Thread -> Err] /\ k \in KState
  BY MpAssumption DEF User, IpcInv, IpcTypeOK, Sane, Err, KState
<1>1. k' = u /\ Call(c, "wait_sched", "mp")
  BY DEF MpSuspend, LinkWait
<1>2. /\ KInv(e) /\ StaleBits(e) = StaleBits(k)
      /\ e.err = [k.err EXCEPT ![c] = "EOK"] /\ e.stat = k.stat /\ e.prio = k.prio
      /\ e.list = k.list /\ e.timers = k.timers /\ e.cur = k.cur /\ e.lock = k.lock
  BY <1>0, SetErrInv
<1>3. e.tmo = k.tmo /\ e.tick = k.tick
  BY <1>0 DEF KState
<1> HIDE DEF e
<1>4. /\ KInv(s) /\ Unlinked(s, c)
      /\ StaleBits(s) \subseteq StaleBits(e)
      /\ \A h \in ListHead : Range(s.list[h]) = Range(e.list[h]) \ {c}
      /\ Range(s.timers) = Range(e.timers) \ {c}
      /\ s.stat = [e.stat EXCEPT ![c] = "SUSPEND"]
      /\ s.prio = e.prio /\ s.cur = e.cur /\ s.lock = e.lock /\ s.isr = e.isr
  <2>1. KInv(e) /\ e.stat[c] = "READY"
    BY <1>2
  <2>2. c \in Thread /\ c # idle
    BY <1>0
  <2> QED BY ONLY <2>1, <2>2, SuspendInv, Zenon
<1>5. s.err = e.err /\ s.list = [h \in ListHead |-> RemoveFirst(e.list[h], c)]
  BY <1>0, <1>2, SuspendLists DEF KInv
<1>6. s.tick = e.tick /\ \A t \in Thread \ {c} : s.tmo[t] = e.tmo[t]
  BY <1>0, <1>2, SuspendTmo DEF KInv
<1>7. ~Timed(k, c) /\ \A x \in Obj : ~Linked(k, c, Wait(x))
  BY <1>0, ReadyFacts
<1>8. ASSUME NEW x \in Obj PROVE s.list[Wait(x)] = k.list[Wait(x)]
  <2>1. k.list[Wait(x)] \in Seq(Thread) /\ Wait(x) \in ListHead
    BY <1>0, HeadFacts DEF KState
  <2> QED BY <1>2, <1>5, <1>7, <2>1, RemoveAbsent DEF Linked
<1> HIDE DEF s
<1>9. /\ q \in Seq(Thread) /\ IsInjective(q) /\ c \notin Range(q)
      /\ s \in KState /\ s.stat[c] = "SUSPEND" /\ Wait("mp") \in ListHead
  BY <1>0, <1>2, <1>4, <1>7, <1>8, HeadFacts DEF KInv, KState, OneList, Linked
<1>10. <<c>> \o q \in Seq(Thread) /\ IsInjective(<<c>> \o q) /\ Range(<<c>> \o q) = Range(q) \cup {c}
  <2> HIDE DEF q
  <2> QED BY <1>0, <1>9, RangePrepend
<1>11. /\ KInv(v) /\ StaleBits(v) = StaleBits(s)
       /\ v.list = [s.list EXCEPT ![Wait("mp")] = <<c>> \o q]
       /\ v.stat = s.stat /\ v.prio = s.prio /\ v.err = s.err
       /\ v.timers = s.timers /\ v.cur = s.cur /\ v.lock = s.lock
       /\ v.tmo = s.tmo /\ v.tick = s.tick
  <2> DEFINE r == <<c>> \o q
  <2>1. r \in Seq(Thread) /\ IsInjective(r) /\ Range(r) = Range(s.list[Wait("mp")]) \cup {c}
    BY <1>10
  <2> HIDE DEF r
  <2> DEFINE w == LinkWait(s, "mp", r)
  <2> HIDE DEF q
  <2>2. KInv(s) /\ Unlinked(s, c) /\ s.stat[c] = "SUSPEND"
    BY <1>4, <1>9
  <2>3. /\ KInv(w) /\ StaleBits(w) = StaleBits(s)
        /\ w.list = [s.list EXCEPT ![Wait("mp")] = r]
        /\ w.stat = s.stat /\ w.prio = s.prio /\ w.err = s.err
        /\ w.timers = s.timers /\ w.cur = s.cur /\ w.lock = s.lock /\ w.isr = s.isr
        /\ w.tick = s.tick /\ w.tmo = s.tmo
    BY <1>0, <2>1, <2>2, LinkWaitInv
  <2> QED BY <2>3 DEF r
<1> HIDE DEF v
<1>12. /\ KInv(u) /\ StaleBits(u) = StaleBits(s)
       /\ Range(u.timers) = IF d > 0 THEN Range(s.timers) \cup {c} ELSE Range(s.timers)
       /\ u.list = [s.list EXCEPT ![Wait("mp")] = <<c>> \o q]
       /\ u.stat = s.stat /\ u.prio = s.prio /\ u.err = s.err
       /\ u.cur = s.cur /\ u.lock = s.lock
       /\ \A t \in Thread \ {c} : u.tmo[t] = s.tmo[t]
       /\ d > 0 => u.tmo[c] = (s.tick + d) % TickMod
  <2>1. KInv(v) /\ v.stat[c] = "SUSPEND"
    BY <1>9, <1>11
  <2>2. /\ KInv(u) /\ StaleBits(u) = StaleBits(v)
        /\ Range(u.timers) = IF d > 0 THEN Range(v.timers) \cup {c} ELSE Range(v.timers)
        /\ u.stat = v.stat /\ u.prio = v.prio /\ u.list = v.list /\ u.err = v.err
        /\ u.cur = v.cur /\ u.lock = v.lock
        /\ \A t \in Thread \ {c} : u.tmo[t] = v.tmo[t]
        /\ d > 0 => u.tmo[c] = (v.tick + d) % TickMod
    BY <1>0, <2>1, SleepTimer
  <2> HIDE DEF u
  <2> QED BY <1>11, <2>2
<1> HIDE DEF u
<1>13. \A t \in Thread : u.stat[t] = IF t = c THEN "SUSPEND" ELSE k.stat[t]
  BY <1>0, <1>2, <1>4, <1>12 DEF KState
<1>14. \A h \in ListHead : Range(u.list[h]) = IF h = Wait("mp") THEN Range(k.list[h]) \cup {c}
                                                             ELSE Range(k.list[h]) \ {c}
  <2> SUFFICES ASSUME NEW h \in ListHead
               PROVE  Range(u.list[h]) = IF h = Wait("mp") THEN Range(k.list[h]) \cup {c}
                                                           ELSE Range(k.list[h]) \ {c}
    OBVIOUS
  <2>1. u.list[h] = IF h = Wait("mp") THEN <<c>> \o q ELSE s.list[h]
    BY <1>9, <1>12 DEF KState
  <2>2. Range(s.list[h]) = Range(k.list[h]) \ {c}
    BY <1>2, <1>4
  <2>3. q = k.list[Wait("mp")]
    BY <1>0, <1>8
  <2> HIDE DEF q
  <2> QED BY <1>10, <2>1, <2>2, <2>3
<1> HIDE DEF q
<1>15. Sane(u)
  <2>1. ASSUME NEW t \in Thread, u.stat[t] = "READY" PROVE Linked(u, t, Ready(u.prio[t]))
    <3>1. t # c /\ k.stat[t] = "READY" /\ k.prio[t] \in Prio
      BY <1>0, <1>13, <2>1 DEF KState
    <3>2. Ready(k.prio[t]) \in ListHead /\ Ready(k.prio[t]) # Wait("mp")
      BY <3>1, HeadFacts
    <3>3. t \in Range(k.list[Ready(k.prio[t])])
      BY <1>0, <3>1 DEF Sane, Linked
    <3> QED BY <1>2, <1>4, <1>12, <1>14, <3>1, <3>2, <3>3 DEF Linked
  <2>2. \A t \in Thread : u.stat[t] \in {"READY", "SUSPEND"}
    BY <1>0, <1>13 DEF Sane
  <2> QED BY <1>0, <1>2, <1>4, <1>12, <2>1, <2>2 DEF Sane
<1>16. \A t \in Thread, x \in Obj : Linked(u, t, Wait(x)) <=> Linked(k, t, Wait(x)) \/ (t = c /\ x = "mp")
  <2> SUFFICES ASSUME NEW t \in Thread, NEW x \in Obj
               PROVE  Linked(u, t, Wait(x)) <=> Linked(k, t, Wait(x)) \/ (t = c /\ x = "mp")
    OBVIOUS
  <2>1. Wait(x) \in ListHead /\ (Wait(x) = Wait("mp") <=> x = "mp")
    BY HeadFacts
  <2> QED BY <1>7, <1>14, <2>1 DEF Linked
<1>17. Range(u.timers) = IF d > 0 THEN Range(k.timers) \cup {c} ELSE Range(k.timers)
  BY <1>2, <1>4, <1>7, <1>12 DEF Timed
<1>18. Slept(k, k', c, "mp")
  BY <1>1, <1>13, <1>15, <1>16, <1>17 DEF Slept
<1>19. /\ OpType /\ op'[c] = [pc |-> "wait_sched", on |-> "mp"]
       /\ op'[c].pc = "wait_sched" /\ op'[c].on = "mp"
       /\ \A t \in Thread \ {c} : op'[t] = op[t]
  <2>1. "wait_sched" \in IpcPC
    BY DEF IpcPC
  <2> QED BY <1>0, <1>1, <2>1, CallFacts
<1>20. k'.err[c] = "EOK" /\ \A t \in Thread \ {c} : k'.err[t] = k.err[t]
  BY <1>0, <1>1, <1>2, <1>5, <1>12
<1>21. k'.cur = c /\ alive' \subseteq Obj
  BY <1>0, <1>1, <1>2, <1>4, <1>12 DEF IpcTypeOK
<1>22. IpcInv'
  BY <1>0, <1>18, <1>19, <1>20, <1>21, SleptStep
<1>23. \A x \in Obj : x # "mp" => k'.list[Wait(x)] = k.list[Wait(x)]
  BY <1>1, <1>8, <1>9, <1>12, HeadFacts DEF KState
<1>24. DetachInv'
  BY <1>0, <1>18, <1>19, <1>22, <1>23, SleptDetach DEF ResumePC
<1>25. \A t \in Thread \ {c} : k'.tmo[t] = k.tmo[t]
  BY <1>1, <1>3, <1>6, <1>12
<1>26. \A t \in Thread \ {c} : Kept(t)
  BY <1>0, <1>1, <1>16, <1>17, <1>19, <1>20, <1>25 DEF Kept, SameLinks, Timed
<1>27. /\ Timed(k', c) <=> d > 0
       /\ d > 0 => k'.tmo[c] = (k.tick + d) % TickMod
       /\ \A x \in Obj : Linked(k', c, Wait(x)) <=> x = "mp"
  BY <1>0, <1>1, <1>3, <1>6, <1>7, <1>12, <1>16, <1>17 DEF Timed
<1> QED BY <1>19, <1>20, <1>22, <1>24, <1>26, <1>27 DEF Sleeps
-----------------------------------------------------------------------------
(* What the four objects share *)

HandPC == {"mq_fill", "mq_link", "mq_ufill", "mq_ulink", "mq_copy", "mq_free"}

\* Whoever is inside a call on an object that is gone empties its lists, or
\* waits in one of them, or was told of the deletion.
CallOK(c) ==
  /\ op[c].pc \notin SleepPC
  /\ op[c].pc \in HandPC => op[c].on = "mq"
  /\ op[c].pc = "mp_time" => op[c].on = "mp" /\ Woken(c)
  /\ op[c].on \in Obj \ alive => op[c].pc \in ResumePC \/ (Blocked(c) /\ ~Woken(c))

\* One object exists at a time.
AliveOK == alive \in {{}, MbObj, {"mq"}, {"ev"}, {"mp"}}

LocRec ==
  [ left : {-1} \cup 0 .. Half - 1, from : Tick, due : Tick,
    msg : Msg \cup {Nil}, node : Node \cup {Null} ]

LocType == [Thread -> LocRec]

Base ==
  /\ IpcInv /\ DetachInv /\ AliveOK
  /\ loc \in LocType
  /\ \A c \in Thread : CallOK(c)

\* What a step that belongs to none of the objects may do to a thread.
Aside(t) ==
  /\ \A o \in Obj : Linked(k', t, Wait(o)) => Linked(k, t, Wait(o))
  /\ \A o \in alive : Linked(k, t, Wait(o)) /\ ~Timed(k, t) => Linked(k', t, Wait(o))
  /\ \A o \in alive : Linked(k, t, Wait(o)) => Linked(k', t, Wait(o)) \/ k'.err[t] = "ETIMEOUT"
  /\ Timed(k', t) => Timed(k, t) /\ k'.tmo[t] = k.tmo[t]
  /\ Woken(t)' <=> Woken(t)
  /\ \/ op'[t].pc = "run" /\ op'[t].on = NoObj /\ op[t].pc \notin HandPC \cup {"mp_time"} /\ ~Woken(t)
     \/ /\ op'[t].on = op[t].on /\ loc'[t] = loc[t]
        /\ op'[t].pc = op[t].pc \/ (Blocked(t) /\ Blocked(t)')
     \/ op[t].pc \in ResumePC /\ op'[t].pc \in ResumePC /\ op'[t].on \in Obj /\ loc'[t] = loc[t]

LEMMA ObjNames ==
  /\ MbObj \subseteq Obj /\ "mb" \in Obj /\ "mb_sender" \in Obj /\ "mq" \in Obj /\ "ev" \in Obj
  /\ "mp" \in Obj /\ NoObj \notin Obj /\ User \subseteq Thread /\ AfterOK
BY MbAssumption, MqAssumption, EvAssumption, MpAssumption, IpcAssumption
   DEF MbObj, User, AfterOK, After

\* The same kernel facts about a thread say the same of it.
LEMMA SameWoken ==
  ASSUME IpcTypeOK, NEW t \in Thread, SameLinks(t), k'.err[t] = k.err[t], op'[t].on = op[t].on,
         op'[t].pc = op[t].pc \/ (Blocked(t) /\ Blocked(t)')
  PROVE  Woken(t)' <=> Woken(t)
<1>1. op[t].on \in Obj \cup {NoObj}
  BY DEF IpcTypeOK
<1>2. (Blocked(t) \/ op[t].pc = "mp_time")' <=> (Blocked(t) \/ op[t].pc = "mp_time")
  BY DEF Blocked
<1>3. op[t].on # NoObj => (Linked(k', t, Wait(op'[t].on)) <=> Linked(k, t, Wait(op[t].on)))
  BY <1>1 DEF SameLinks
<1> QED BY <1>2, <1>3 DEF Woken

LEMMA KeptWoken ==
  ASSUME IpcTypeOK, NEW t \in Thread, Kept(t)
  PROVE  Woken(t)' <=> Woken(t)
BY SameWoken DEF Kept

LEMMA KeptAside ==
  ASSUME IpcTypeOK, NEW t \in Thread, Kept(t), loc'[t] = loc[t]
  PROVE  Aside(t)
<1>1. Woken(t)' <=> Woken(t)
  BY KeptWoken
<1>2. alive \subseteq Obj
  BY DEF IpcTypeOK
<1> QED BY <1>1, <1>2 DEF Aside, Kept, SameLinks

LEMMA AsideCall ==
  ASSUME NEW t \in Thread, Aside(t), CallOK(t), alive' = alive, NoObj \notin Obj
  PROVE  CallOK(t)'
<1>1. CASE op'[t].pc = "run" /\ op'[t].on = NoObj
  BY <1>1 DEF CallOK, SleepPC, HandPC
<1>2. CASE /\ op'[t].on = op[t].on
           /\ op'[t].pc = op[t].pc \/ (Blocked(t) /\ Blocked(t)')
  <2>1. CASE op'[t].pc = op[t].pc
    BY <1>2, <2>1 DEF CallOK, Aside, Blocked
  <2>2. CASE Blocked(t) /\ Blocked(t)'
    <3>1. op'[t].pc \notin SleepPC \cup HandPC \cup {"mp_time"} /\ op[t].pc \notin ResumePC
      BY <2>2 DEF Blocked, SleepPC, HandPC, ResumePC
    <3> QED BY <1>2, <2>2, <3>1 DEF CallOK, Aside
  <2> QED BY <1>2, <2>1, <2>2
<1>3. CASE op'[t].pc \in ResumePC
  <2>1. op'[t].pc \notin SleepPC \cup HandPC \cup {"mp_time"}
    BY <1>3 DEF SleepPC, HandPC, ResumePC
  <2> QED BY <1>3, <2>1 DEF CallOK
<1> QED BY <1>1, <1>2, <1>3 DEF Aside

LEMMA AsideBase ==
  ASSUME Base, IpcInv', DetachInv', alive' = alive, loc' \in LocType, \A t \in Thread : Aside(t)
  PROVE  Base'
<1>1. NoObj \notin Obj
  BY ObjNames
<1>2. \A t \in Thread : CallOK(t)'
  BY <1>1, AsideCall DEF Base
<1> QED BY <1>2 DEF Base, AliveOK

LEMMA StillLinks ==
  ASSUME Still, NEW t \in Thread
  PROVE  SameLinks(t) /\ k'.err[t] = k.err[t]
BY DEF Still, Woke, SameLinks, Linked, Timed

LEMMA StillAside ==
  ASSUME IpcTypeOK, Still, NEW t \in Thread, op'[t].on = op[t].on, loc'[t] = loc[t],
         op'[t].pc = op[t].pc \/ (Blocked(t) /\ Blocked(t)')
  PROVE  Aside(t)
<1>1. SameLinks(t) /\ k'.err[t] = k.err[t]
  BY StillLinks
<1>2. Woken(t)' <=> Woken(t)
  BY <1>1, SameWoken
<1>3. alive \subseteq Obj
  BY DEF IpcTypeOK
<1> QED BY <1>1, <1>2, <1>3 DEF Aside, SameLinks

\* t is in no list of a step that leaves the lists alone, and goes on.
LEMMA RunAside ==
  ASSUME IpcTypeOK, NEW t \in Thread, SameLinks(t), ~Woken(t), ~Woken(t)',
         op[t].pc \notin HandPC \cup {"mp_time"}, op'[t].pc = "run", op'[t].on = NoObj
  PROVE  Aside(t)
<1>1. alive \subseteq Obj
  BY DEF IpcTypeOK
<1> QED BY <1>1 DEF Aside, SameLinks

\* t is told that it timed out or that the object is gone.
LEMMA ErrAside ==
  ASSUME Base, NEW t, NEW e, Wakes(t, e), e # "EOK", op'[t] = op[t], loc'[t] = loc[t],
         (Timed(k, t) /\ e = "ETIMEOUT") \/ \E o \in Obj \ alive : Linked(k, t, Wait(o))
  PROVE  Aside(t)
<1>0. t \in Thread /\ k.stat[t] = "SUSPEND" /\ IpcTypeOK /\ alive \subseteq Obj /\ t \in {t}
      /\ k.err \in [Thread -> Err]
  BY DEF Wakes, Base, IpcInv, IpcTypeOK, KState
<1>1. Blocked(t) /\ op[t].on \in Obj /\ Linked(k, t, Wait(op[t].on))
  BY <1>0 DEF Base, IpcInv, CallerOK, CallOK, Blocked, WaitPC
<1>2. /\ \A o \in Obj : ~Linked(k', t, Wait(o))
      /\ ~Timed(k', t)
  BY <1>0 DEF Wakes, Woke, Timed
<1>3. k'.err[t] = e
  BY <1>0 DEF Wakes
<1>4. ~Woken(t) /\ ~Woken(t)'
  BY <1>1, <1>3 DEF Woken
<1>5. \A o \in alive : ~(Linked(k, t, Wait(o)) /\ ~Timed(k, t))
  BY <1>0, OneWait DEF Base
<1>6. \A o \in alive : Linked(k, t, Wait(o)) => k'.err[t] = "ETIMEOUT"
  BY <1>0, <1>3, OneWait DEF Base
<1> QED BY <1>2, <1>4, <1>5, <1>6 DEF Aside

\* The others do not notice.
LEMMA WakesKept ==
  ASSUME IpcInv, NEW t, NEW e, Wakes(t, e), NEW x \in Thread \ {t}
  PROVE  SameLinks(x) /\ k'.err[x] = k.err[x]
<1>0. k.err \in [Thread -> Err] /\ x \notin {t}
  BY DEF IpcInv, IpcTypeOK, KState
<1>1. Timed(k', x) <=> Timed(k, x)
  BY <1>0 DEF Wakes, Woke, Timed
<1> QED BY <1>0, <1>1 DEF Wakes, Woke, SameLinks

\* The steps that the objects share.
LEMMA CallerAside ==
  ASSUME Base, NEW c \in User,
         \/ (WaitSchedule(c) \/ ResumeTest(c)) /\ UNCHANGED loc
         \/ SchedReturn(c) /\ loc' = [loc EXCEPT ![c] = Idle]
         \/ CallReturn(c)
  PROVE  IpcInv' /\ DetachInv' /\ alive' = alive /\ \A t \in Thread : Aside(t)
<1>0. /\ IpcInv /\ DetachInv /\ IpcTypeOK /\ c \in Thread /\ c # idle /\ Sane(k)
      /\ NoObj \notin Obj /\ AfterOK
  BY ObjNames DEF Base, IpcInv, User
<1> USE DEF LocType
<1>9. \A t \in Thread \ {c} : [loc EXCEPT ![c] = Idle][t] = loc[t]
  BY DEF Base
<1> HIDE DEF LocType
<1>1. CASE WaitSchedule(c) /\ UNCHANGED loc
  <2>1. /\ IpcInv' /\ Still /\ alive' = alive /\ \A t \in Thread \ {c} : op'[t] = op[t]
    BY <1>0, <1>1, SchedInv
  <2>2. /\ op[c].pc = "wait_sched" /\ op'[c].pc = "wait_return" /\ op'[c].on = op[c].on
    <3>1. At(c, "wait_sched") /\ Goto(c, "wait_return") /\ "wait_return" \in IpcPC
      BY <1>1 DEF WaitSchedule, IpcPC
    <3> QED BY <1>0, <3>1, GotoFacts DEF At
  <2>3. DetachInv'
    BY <1>0, <2>1, <2>2, StillDetach DEF ResumePC
  <2>4. ASSUME NEW t \in Thread PROVE Aside(t)
    <3>1. op'[t].on = op[t].on /\ (op'[t].pc = op[t].pc \/ (Blocked(t) /\ Blocked(t)'))
      BY <2>1, <2>2 DEF Blocked
    <3> QED BY <1>0, <1>1, <2>1, <3>1, StillAside
  <2> QED BY <2>1, <2>3, <2>4
<1>2. CASE SchedReturn(c) /\ loc' = [loc EXCEPT ![c] = Idle]
  <2>1. /\ IpcInv' /\ Still /\ alive' = alive /\ \A t \in Thread \ {c} : op'[t] = op[t]
    BY <1>0, <1>2, SchedInv
  <2>2. op[c].pc = "sched" /\ op'[c].pc = "run" /\ op'[c].on = NoObj
    <3>1. At(c, "sched") /\ Call(c, "run", NoObj) /\ "run" \in IpcPC /\ NoObj \in Obj \cup {NoObj}
      BY <1>2 DEF SchedReturn, Return, IpcPC
    <3>2. op'[c].pc = "run" /\ op'[c].on = NoObj
      BY <1>0, <3>1, CallFacts
    <3> QED BY <3>1, <3>2 DEF At
  <2>3. DetachInv'
    BY <1>0, <2>1, <2>2, StillDetach DEF ResumePC
  <2>4. ASSUME NEW t \in Thread \ {c} PROVE Aside(t)
    <3>1. loc'[t] = loc[t]
      BY <1>2, <1>9
    <3> QED BY <1>0, <2>1, <3>1, StillAside
  <2>5. Aside(c)
    <3>1. SameLinks(c) /\ ~Woken(c) /\ ~Woken(c)' /\ op[c].pc \notin HandPC \cup {"mp_time"}
      BY <1>0, <2>1, <2>2, StillLinks DEF Woken, Blocked, HandPC
    <3> QED BY <1>0, <2>2, <3>1, RunAside
  <2> QED BY <2>1, <2>3, <2>4, <2>5
<1>3. CASE ResumeTest(c) /\ UNCHANGED loc
  <2>1. /\ IpcInv' /\ DetachInv' /\ Still /\ alive' = alive
        /\ \A t \in Thread \ {c} : op'[t] = op[t]
    BY <1>0, <1>3, ResumeTestInv
  <2>2. \A t \in Thread \ {c} : Aside(t)
    BY <1>0, <1>3, <2>1, StillAside
  <2>3. op[c].pc = "resume_test" /\ op[c].on \in Obj
    <3>1. op[c].pc = "resume_test"
      BY <1>3 DEF ResumeTest, At
    <3> QED BY <1>0, <3>1 DEF DetachInv, ResumePC
  <2>4. SameLinks(c) /\ ~Woken(c) /\ op[c].pc \in ResumePC \ (HandPC \cup {"mp_time"}) /\ alive \subseteq Obj
    BY <1>0, <2>1, <2>3, StillLinks DEF Woken, Blocked, HandPC, ResumePC, IpcTypeOK
  <2>5. \/ op'[c].pc \in ResumePC /\ op'[c].on \in Obj
        \/ op'[c].pc = "run" /\ op'[c].on = NoObj
    <3>1. CASE Waiters(op[c].on) # <<>>
      <4>1. Goto(c, "resume_one") /\ "resume_one" \in IpcPC \cap ResumePC
        BY <1>3, <3>1 DEF ResumeTest, IpcPC, ResumePC
      <4> QED BY <1>0, <2>3, <4>1, GotoFacts
    <3>2. CASE Waiters(op[c].on) = <<>> /\ After(op[c].on) # NoObj
      <4>1. /\ Call(c, "resume_test", After(op[c].on)) /\ "resume_test" \in IpcPC \cap ResumePC
            /\ After(op[c].on) \in Obj /\ After(op[c].on) \in Obj \cup {NoObj}
        BY <1>0, <1>3, <2>3, <3>2 DEF ResumeTest, IpcPC, ResumePC, AfterOK
      <4>2. op'[c].pc = "resume_test" /\ op'[c].on = After(op[c].on)
        <5> DEFINE x == After(op[c].on)
        <5>1. Call(c, "resume_test", x) /\ "resume_test" \in IpcPC /\ x \in Obj \cup {NoObj}
          BY <4>1
        <5> HIDE DEF x
        <5>2. op'[c].pc = "resume_test" /\ op'[c].on = x
          BY <1>0, <5>1, CallFacts
        <5> QED BY <5>2 DEF x
      <4> QED BY <4>1, <4>2
    <3>3. CASE Waiters(op[c].on) = <<>> /\ After(op[c].on) = NoObj
      <4>1. Call(c, "run", NoObj) /\ "run" \in IpcPC
        BY <1>3, <3>3 DEF ResumeTest, Return, IpcPC
      <4> QED BY <1>0, <4>1, CallFacts
    <3> QED BY <3>1, <3>2, <3>3
  <2>6. ~Woken(c)'
    BY <2>5 DEF Woken, Blocked, ResumePC
  <2>7. Aside(c)
    BY <1>3, <2>4, <2>5, <2>6 DEF Aside, SameLinks
  <2> QED BY <2>1, <2>2, <2>7
<1>4. CASE CallReturn(c)
  <2>1. /\ At(c, "return") /\ Call(c, "run", NoObj) /\ k' = k /\ alive' = alive
        /\ loc' = [loc EXCEPT ![c] = Idle] /\ "run" \in IpcPC
    BY <1>4 DEF CallReturn, Leave, Return, IpcPC
  <2>2. KStep({c}, {}, "EOK") /\ op'[c].pc = "run" /\ op'[c].on = NoObj
    <3>1. "run" \in IpcPC \ (WaitPC \cup ResumePC \cup {"assert"}) /\ NoObj \in Obj \cup {NoObj}
      BY <2>1 DEF WaitPC, ResumePC
    <3> QED BY <1>0, <2>1, <3>1, QuietStep
  <2>3. \A t \in Thread \ {c} : Aside(t)
    BY <1>0, <1>9, <2>1, <2>2, KeptAside DEF KStep
  <2>4. Aside(c)
    <3>1. SameLinks(c) /\ ~Woken(c) /\ ~Woken(c)' /\ op[c].pc \notin HandPC \cup {"mp_time"}
      BY <2>1, <2>2 DEF Woken, Blocked, HandPC, KStep, At
    <3> QED BY <1>0, <2>2, <3>1, RunAside
  <2> QED BY <2>1, <2>2, <2>3, <2>4 DEF KStep
<1> QED BY <1>1, <1>2, <1>3, <1>4

LEMMA DeletedAside ==
  ASSUME Base, NEW c \in User, ResumeOne(c), UNCHANGED loc
  PROVE  IpcInv' /\ DetachInv' /\ alive' = alive /\ \A t \in Thread : Aside(t)
<1>0. /\ IpcInv /\ DetachInv /\ IpcTypeOK /\ c \in Thread /\ NoObj \notin Obj
  BY ObjNames DEF Base, IpcInv, User
<1>1. /\ IpcInv' /\ DetachInv' /\ alive' = alive
      /\ op[c].pc = "resume_one" /\ op'[c].pc = "resume_test"
      /\ \A t \in Thread \ {c} : op'[t] = op[t]
  BY <1>0, ResumeOneInv
<1>2. PICK w \in Thread : Wakes(w, "ERROR") /\ Linked(k, w, Wait(op[c].on))
  BY <1>0, ResumeOneInv
<1>3. op[c].on \in Obj \ alive
  BY <1>0, <1>1 DEF DetachInv, Leaving, ResumePC
<1>4. w # c
  BY <1>0, <1>1, <1>2, <1>3, LinkedFacts DEF Blocked
<1>5. Aside(w)
  BY <1>1, <1>2, <1>3, <1>4, ErrAside
<1>6. \A t \in Thread \ {w} : SameLinks(t) /\ k'.err[t] = k.err[t]
  BY <1>0, <1>2, WakesKept
<1>7. \A t \in Thread \ {w, c} : Aside(t)
  BY <1>0, <1>1, <1>6, KeptAside DEF Kept
<1>8. Aside(c)
  <2>1. op'[c].on \in Obj
    BY <1>0, <1>1 DEF DetachInv, ResumePC
  <2>2. ~Woken(c) /\ ~Woken(c)' /\ alive \subseteq Obj
    BY <1>0, <1>1 DEF Woken, Blocked, IpcTypeOK
  <2>3. SameLinks(c)
    BY <1>0, <1>4, <1>6
  <2> QED BY <1>1, <2>1, <2>2, <2>3 DEF Aside, SameLinks, ResumePC
<1> QED BY <1>1, <1>5, <1>7, <1>8

LEMMA ErrorAside ==
  ASSUME Base, NEW c \in User, WaitError(c)
  PROVE  IpcInv' /\ DetachInv' /\ alive' = alive /\ \A t \in Thread : Aside(t)
<1>0. /\ IpcInv /\ DetachInv /\ IpcTypeOK /\ c \in Thread /\ c # idle /\ Sane(k)
      /\ NoObj \notin Obj /\ k \in KState /\ "EOK" \in Err
  BY ObjNames DEF Base, IpcInv, User, IpcTypeOK, Err
<1>1. /\ At(c, "wait_return") /\ k.err[c] # "EOK" /\ Call(c, "run", NoObj) /\ alive' = alive
      /\ k' = [k EXCEPT !.err[c] = "EOK"] /\ loc' = [loc EXCEPT ![c] = Idle]
  BY DEF WaitError, Leave, Return
<1>2. op[c].pc = "wait_return" /\ k.cur = c /\ k.stat[c] = "READY"
  BY <1>0, <1>1, AtFacts
<1>3. Woke(k, k', {})
  BY <1>0, <1>1, SetErrWoke
<1>4. /\ k'.err = [k.err EXCEPT ![c] = "EOK"] /\ k'.list = k.list
      /\ k'.cur = k.cur /\ k'.stat = k.stat /\ k'.timers = k.timers /\ k'.tmo = k.tmo
  BY <1>0, <1>1 DEF KState
<1>5. \A t \in Thread \ {c} : k'.err[t] = k.err[t] /\ loc'[t] = loc[t]
  BY <1>0, <1>1, <1>4 DEF Base, LocType
<1>6. /\ OpType /\ op'[c].pc = "run" /\ op'[c].on = NoObj
      /\ \A t \in Thread \ {c} : op'[t] = op[t]
  <2>1. "run" \in IpcPC /\ NoObj \in Obj \cup {NoObj}
    BY DEF IpcPC
  <2> QED BY <1>0, <1>1, <2>1, CallFacts
<1>7. IpcInv'
  <2>1. \A t \in Thread : Moves(t)
    BY <1>2, <1>6 DEF Moves, WaitPC
  <2>2. \A t \in Thread : k.stat[t] = "SUSPEND" /\ t \notin {} => k'.err[t] = k.err[t]
    BY <1>2, <1>5
  <2>3. k'.stat[k'.cur] = "READY" /\ alive' \subseteq Obj
    BY <1>0, <1>1, <1>2, <1>4 DEF IpcTypeOK
  <2> QED BY <1>0, <1>3, <1>6, <2>1, <2>2, <2>3, WokeStep
<1>8. DetachInv'
  <2>1. IpcTypeOK'
    BY <1>7 DEF IpcInv
  <2>2. \A t \in Thread : op'[t] = op[t] \/ op'[t].pc \notin ResumePC \cup {"assert"}
    BY <1>6 DEF ResumePC
  <2> QED BY <1>0, <1>1, <1>4, <2>1, <2>2, DetachKept DEF Timed
<1>9. \A t \in Thread : SameLinks(t)
  BY <1>4 DEF SameLinks, Linked, Timed
<1>10. \A t \in Thread \ {c} : Aside(t)
  BY <1>0, <1>5, <1>6, <1>9, KeptAside DEF Kept
<1>11. Aside(c)
  <2>1. ~Woken(c) /\ ~Woken(c)' /\ op[c].pc \notin HandPC \cup {"mp_time"}
    BY <1>1, <1>2, <1>6 DEF Woken, Blocked, HandPC
  <2> QED BY <1>0, <1>6, <1>9, <2>1, RunAside
<1> QED BY <1>1, <1>7, <1>8, <1>10, <1>11

LEMMA TickAside ==
  ASSUME Base, rt_tick_increase \/ rt_timer_check, UNCHANGED loc
  PROVE  IpcInv' /\ DetachInv' /\ alive' = alive /\ \A t \in Thread : Aside(t)
<1>0. IpcInv /\ DetachInv /\ IpcTypeOK
  BY DEF Base, IpcInv
<1>1. /\ IpcInv' /\ alive' = alive /\ op' = op
      /\ Still \/ \E t \in Thread : Timed(k, t) /\ Wakes(t, "ETIMEOUT")
  BY <1>0, TickInv, TimerInv
<1>2. CASE Still
  <2>1. DetachInv'
    BY <1>0, <1>1, <1>2, StillDetach
  <2>2. \A t \in Thread : Aside(t)
    BY <1>0, <1>1, <1>2, StillAside
  <2> QED BY <1>1, <2>1, <2>2
<1>3. CASE \E t \in Thread : Timed(k, t) /\ Wakes(t, "ETIMEOUT")
  <2>1. PICK w \in Thread : Timed(k, w) /\ Wakes(w, "ETIMEOUT")
    BY <1>3
  <2>2. DetachInv'
    BY <1>0, <1>1, <2>1, TimedDetach
  <2>3. Aside(w)
    BY <1>1, <2>1, ErrAside
  <2>4. \A t \in Thread \ {w} : SameLinks(t) /\ k'.err[t] = k.err[t]
    BY <1>0, <2>1, WakesKept
  <2>5. \A t \in Thread \ {w} : Aside(t)
    BY <1>0, <1>1, <2>4, KeptAside DEF Kept
  <2> QED BY <1>1, <2>2, <2>3, <2>5
<1> QED BY <1>1, <1>2, <1>3

LEMMA IdleType == Idle \in LocRec
<1>1. TickMod \in Nat /\ TickMod >= 5
  BY KernelAssumption
<1>2. Half \in Nat /\ Half >= 1 /\ 0 \in Tick
  BY <1>1 DEF Half, Tick
<1> QED BY <1>2 DEF Idle, LocRec

LEMMA RetryAside ==
  ASSUME Base, RetryNext
  PROVE  Base' /\ alive' = alive /\ \A t \in Thread : Aside(t)
<1>1. IpcInv' /\ DetachInv' /\ alive' = alive /\ \A t \in Thread : Aside(t)
  <2>1. CASE \E c \in User : \/ (WaitSchedule(c) \/ ResumeTest(c)) /\ UNCHANGED loc
                             \/ SchedReturn(c) /\ loc' = [loc EXCEPT ![c] = Idle]
                             \/ CallReturn(c)
    BY <2>1, CallerAside
  <2>2. CASE \E c \in User : ResumeOne(c) /\ UNCHANGED loc
    BY <2>2, DeletedAside
  <2>3. CASE \E c \in User : WaitError(c)
    BY <2>3, ErrorAside
  <2>4. CASE (rt_tick_increase \/ rt_timer_check) /\ UNCHANGED loc
    BY <2>4, TickAside
  <2> QED BY <2>1, <2>2, <2>3, <2>4 DEF RetryNext
<1>2. loc' = loc \/ \E c \in User : loc' = [loc EXCEPT ![c] = Idle]
  BY DEF RetryNext, WaitError, CallReturn, Leave
<1>3. loc' \in LocType
  BY <1>2, IdleType DEF Base, LocType
<1> QED BY <1>1, <1>3, AsideBase

-----------------------------------------------------------------------------
(* Counting the threads that are on their way *)

\* The ready queues of the start hold every thread.
LEMMA FiniteThread == IsFiniteSet(Thread)
<1>1. PrioMax \in Nat \ {0} /\ InitPrio \in [Thread -> Prio] /\ Prio = 0 .. PrioMax - 1
  BY KernelAssumption DEF Prio
<1>2. IsFiniteSet(Prio)
  BY <1>1, FS_Interval
<1> DEFINE f == [p \in Prio |-> Range(Queue[p])]
           S == {f[p] : p \in Prio}
<1>3. IsFiniteSet(S)
  <2>1. f \in Surjection(Prio, S)
    BY DEF Surjection
  <2> QED BY <1>2, <2>1, FS_Surjection
<1>4. ASSUME NEW T \in S PROVE IsFiniteSet(T)
  <2>1. PICK p \in Prio : T = Range(Queue[p])
    OBVIOUS
  <2> DEFINE q == Queue[p]
  <2>2. q \in Seq(Thread)
    BY IpcAssumption
  <2>3. q \in Surjection(1 .. Len(q), Range(q))
    BY <2>2 DEF Surjection, Range
  <2>4. IsFiniteSet(1 .. Len(q))
    BY <2>2, FS_Interval
  <2> QED BY <2>1, <2>3, <2>4, FS_Surjection
<1>5. Thread \subseteq UNION S
  <2> SUFFICES ASSUME NEW t \in Thread PROVE t \in UNION S
    OBVIOUS
  <2>1. InitPrio[t] \in Prio /\ t \in Range(Queue[InitPrio[t]])
    BY <1>1, IpcAssumption
  <2> QED BY <2>1
<1>6. IsFiniteSet(UNION S)
  BY <1>3, <1>4, FS_UNION
<1> QED BY <1>5, <1>6, FS_Subset

\* The threads that were woken for o and have not run yet, and that some wait.
Coming(o)  == {t \in Thread : Woken(t) /\ op[t].on = o}
Awaited(o) == \E t \in Thread : Linked(k, t, Wait(o))

LEMMA Subsets ==
  ASSUME NEW C, C \subseteq Thread
  PROVE  /\ IsFiniteSet(C) /\ Cardinality(C) \in Nat
         /\ \A D \in SUBSET C : Cardinality(D) <= Cardinality(C)
         /\ \A c \in C : Cardinality(C \ {c}) = Cardinality(C) - 1
         /\ \A c \in Thread : c \notin C => Cardinality(C \cup {c}) = Cardinality(C) + 1
BY FiniteThread, FS_Subset, FS_RemoveElement, FS_AddElement, FS_CardinalityType

\* A set that loses at most c.
LEMMA LosesOne ==
  ASSUME NEW C, C \subseteq Thread, NEW D, D \subseteq Thread, NEW c, C \ {c} \subseteq D
  PROVE  /\ Cardinality(D) >= Cardinality(C) - 1
         /\ c \notin C \/ c \in D => Cardinality(D) >= Cardinality(C)
<1>1. Cardinality(C) \in Nat /\ Cardinality(D) \in Nat
  BY Subsets
<1>2. ASSUME C \subseteq D PROVE Cardinality(D) >= Cardinality(C)
  BY <1>1, <1>2, Subsets
<1>3. CASE c \in C
  <2>1. Cardinality(C \ {c}) = Cardinality(C) - 1
    BY <1>3, Subsets
  <2>2. Cardinality(C \ {c}) <= Cardinality(D)
    BY Subsets
  <2> QED BY <1>1, <1>2, <1>3, <2>1, <2>2
<1>4. CASE c \notin C
  <2>1. C \subseteq D
    BY <1>4
  <2> QED BY <1>1, <1>2, <2>1
<1> QED BY <1>3, <1>4

\* ... and gains w.
LEMMA GainsOne ==
  ASSUME NEW C, C \subseteq Thread, NEW D, D \subseteq Thread, NEW c, C \ {c} \subseteq D,
         NEW w \in Thread, w \in D, w \notin C, w # c
  PROVE  /\ Cardinality(D) >= Cardinality(C)
         /\ c \notin C => Cardinality(D) >= Cardinality(C) + 1
<1> DEFINE B == C \cup {w}
<1>1. /\ Cardinality(C) \in Nat /\ Cardinality(D) \in Nat /\ B \subseteq Thread
      /\ Cardinality(B) = Cardinality(C) + 1
  BY Subsets
<1>2. B \ {c} \subseteq D
  OBVIOUS
<1> HIDE DEF B
<1>3. /\ Cardinality(D) >= Cardinality(B) - 1
      /\ c \notin B => Cardinality(D) >= Cardinality(B)
  BY <1>1, <1>2, LosesOne
<1>4. c \notin C => c \notin B
  BY DEF B
<1> QED BY <1>1, <1>3, <1>4

LEMMA AsideCount ==
  ASSUME \A t \in Thread : Aside(t), NEW o \in Obj
  PROVE  Coming(o)' = Coming(o) /\ (Awaited(o)' => Awaited(o))
<1>1. NoObj \notin Obj
  BY ObjNames
<1>2. ASSUME NEW t \in Thread
      PROVE  Woken(t)' /\ op'[t].on = o <=> Woken(t) /\ op[t].on = o
  <2>1. Woken(t)' <=> Woken(t)
    BY DEF Aside
  <2>2. Woken(t) => op'[t].on = op[t].on
    BY DEF Aside, Woken, Blocked, ResumePC
  <2> QED BY <2>1, <2>2
<1>3. Coming(o)' = Coming(o)
  BY <1>2 DEF Coming
<1>4. Awaited(o)' => Awaited(o)
  BY DEF Awaited, Aside
<1> QED BY <1>3, <1>4

\* What a step of c at most does to those who come for o.
LEMMA StepCount ==
  ASSUME Base, NEW A, NEW W, NEW e, KStep(A, W, e), NEW c, A \subseteq {c}, NEW o \in Obj
  PROVE  /\ Coming(o) \ {c} \subseteq Coming(o)'
         /\ Awaited(o)' => Awaited(o)
         /\ Cardinality(Coming(o)') >= Cardinality(Coming(o)) - 1
         /\ c \notin Coming(o) \/ c \in Coming(o)' \/ A = {} =>
              Cardinality(Coming(o)') >= Cardinality(Coming(o))
<1>0. IpcTypeOK
  BY DEF Base, IpcInv
<1>1. ASSUME NEW t \in Coming(o), t \notin A PROVE t \in Coming(o)'
  <2>1. t \in Thread /\ Woken(t) /\ op[t].on = o
    BY <1>1 DEF Coming
  <2>2. t \notin W
    BY <2>1 DEF KStep, Roused, Woken
  <2>3. Kept(t)
    BY <1>1, <2>1, <2>2 DEF KStep
  <2>4. Woken(t)' /\ op'[t] = op[t]
    BY <1>0, <2>1, <2>3, KeptWoken DEF Kept
  <2> QED BY <2>1, <2>4 DEF Coming
<1>2. Awaited(o)' => Awaited(o)
  <2>1. ASSUME NEW t \in Thread, Linked(k', t, Wait(o)) PROVE Linked(k, t, Wait(o))
    BY <2>1 DEF KStep, Roused, Kept, SameLinks
  <2> QED BY <2>1 DEF Awaited
<1>3. Coming(o) \subseteq Thread /\ Coming(o)' \subseteq Thread
  BY DEF Coming
<1>4. Coming(o) \ {c} \subseteq Coming(o)'
  BY <1>1
<1>5. A = {} => Coming(o) \subseteq Coming(o)'
  BY <1>1
<1>6. /\ Cardinality(Coming(o)') >= Cardinality(Coming(o)) - 1
      /\ c \notin Coming(o) \/ c \in Coming(o)' => Cardinality(Coming(o)') >= Cardinality(Coming(o))
  BY <1>3, <1>4, LosesOne
<1>7. A = {} => Cardinality(Coming(o)') >= Cardinality(Coming(o))
  BY <1>3, <1>5, Subsets
<1> QED BY <1>2, <1>4, <1>6, <1>7

\* The first waiter of x is on its way.
LEMMA WakeCount ==
  ASSUME Base, NEW A, NEW c, A \subseteq {c}, NEW x \in Obj, WakeStep(A, x), Awaited(x)'
  PROVE  /\ Cardinality(Coming(x)') >= Cardinality(Coming(x))
         /\ c \notin Coming(x) \/ A = {} => Cardinality(Coming(x)') >= Cardinality(Coming(x)) + 1
<1>0. IpcInv
  BY DEF Base
<1>1. PICK W : /\ KStep(A, W, "EOK")
               /\ \/ W = {} /\ \A t \in Thread : ~Linked(k, t, Wait(x))
                  \/ \E t \in Thread : W = {t} /\ Linked(k, t, Wait(x))
  BY DEF WakeStep
<1>2. Coming(x) \ {c} \subseteq Coming(x)' /\ (Awaited(x)' => Awaited(x))
  BY <1>1, StepCount
<1>3. PICK w \in Thread : W = {w} /\ Linked(k, w, Wait(x))
  BY <1>1, <1>2 DEF Awaited
<1>4. Roused(w, "EOK") /\ w \notin A
  BY <1>1, <1>3 DEF KStep
<1>5. op[w].on = x /\ w \notin Coming(x)
  BY <1>0, <1>3, LinkedFacts DEF Coming, Woken
<1>6. w \in Coming(x)'
  <2>1. NoObj \notin Obj
    BY ObjNames
  <2>2. op'[w] = op[w] /\ Blocked(w)' /\ ~Linked(k', w, Wait(x)) /\ k'.err[w] = "EOK"
    BY <1>4 DEF Roused, Blocked
  <2> QED BY <1>5, <2>1, <2>2 DEF Coming, Woken
<1>7. Coming(x) \subseteq Thread /\ Coming(x)' \subseteq Thread
  BY DEF Coming
<1>8. CASE A = {}
  <2>1. Coming(x) \subseteq Coming(x)'
    <3>1. idle \in Thread /\ A \subseteq {w}
      BY <1>8, KernelAssumption
    <3>2. Coming(x) \ {w} \subseteq Coming(x)'
      BY <1>1, <3>1, StepCount
    <3> QED BY <1>5, <3>2
  <2> DEFINE z == CHOOSE z : z \notin Thread
  <2>2. z \notin Thread
    BY NoSetContainsEverything
  <2>3. w # z /\ z \notin Coming(x) /\ Coming(x) \ {z} \subseteq Coming(x)'
    BY <1>7, <2>1, <2>2
  <2> HIDE DEF z
  <2>4. Cardinality(Coming(x)') >= Cardinality(Coming(x)) + 1
    BY <1>5, <1>6, <1>7, <2>3, GainsOne
  <2>5. Cardinality(Coming(x)) \in Nat /\ Cardinality(Coming(x)') \in Nat
    BY <1>7, Subsets
  <2> QED BY <2>4, <2>5
<1>9. CASE A = {c}
  <2>1. w # c
    BY <1>4, <1>9
  <2> QED BY <1>2, <1>5, <1>6, <1>7, <1>9, <2>1, GainsOne
<1> QED BY <1>8, <1>9

\* c goes to sleep on o.
LEMMA SleepCount ==
  ASSUME Base, NEW c \in Thread, NEW o, NEW d, Sleeps(c, o, d), NEW x \in Obj, x # o, c \notin Coming(x)
  PROVE  Coming(x)' = Coming(x) /\ (Awaited(x)' => Awaited(x))
<1>0. IpcTypeOK
  BY DEF Base, IpcInv
<1>1. \A t \in Thread : t = c \/ Kept(t)
  BY DEF Sleeps
<1>2. op'[c].on = o /\ ~Linked(k', c, Wait(x))
  BY DEF Sleeps
<1>3. \A t \in Thread : (Woken(t)' /\ op'[t].on = x) <=> (Woken(t) /\ op[t].on = x)
  BY <1>0, <1>1, <1>2, KeptWoken DEF Kept, Coming
<1>4. Coming(x)' = Coming(x)
  BY <1>3 DEF Coming
<1>5. Awaited(x)' => Awaited(x)
  BY <1>1, <1>2 DEF Awaited, Kept, SameLinks
<1> QED BY <1>4, <1>5

-----------------------------------------------------------------------------
(* The steps of one object, whose suspend lists are in O *)

OwnStep(O) ==
  /\ Base'
  /\ alive \cup alive' \subseteq O
  /\ \A t \in Thread : \/ Kept(t) /\ loc'[t] = loc[t]
                       \/ op[t].on \in O \cup {NoObj} /\ op'[t].on \in O \cup {NoObj}

LEMMA OwnKStep ==
  ASSUME Base, NEW O, alive \subseteq O, alive' = alive, loc' \in LocType,
         NEW A, NEW W, NEW e, KStep(A, W, e),
         \A t \in Thread : t \in A \/ loc'[t] = loc[t],
         \A t \in A : /\ op[t].on \in alive \cup {NoObj} /\ op'[t].on \in alive \cup {NoObj}
                      /\ op'[t].pc \notin SleepPC
                      /\ op'[t].pc \in HandPC => op'[t].on = "mq"
                      /\ op'[t].pc = "mp_time" => op'[t].on = "mp" /\ Woken(t)'
  PROVE  OwnStep(O)
<1>0. IpcTypeOK /\ NoObj \notin Obj /\ alive \subseteq Obj
  BY ObjNames DEF Base, IpcInv, IpcTypeOK
<1>1. ASSUME NEW t \in Thread PROVE CallOK(t)'
  <2>1. CASE t \in A
    BY <1>0, <2>1 DEF CallOK
  <2>2. CASE t \in W
    <3>1. Roused(t, e) /\ CallOK(t)
      BY <2>2 DEF KStep, Base
    <3>2. op'[t].pc \notin SleepPC \cup HandPC \cup {"mp_time"} /\ Blocked(t)'
      BY <3>1 DEF Roused, Blocked, SleepPC, HandPC
    <3>3. op'[t].on \in alive' \/ ~Woken(t)'
      BY <3>1 DEF Roused, Woken
    <3> QED BY <3>2, <3>3 DEF CallOK
  <2>3. CASE t \notin A /\ t \notin W
    <3>1. Kept(t) /\ CallOK(t)
      BY <2>3 DEF KStep, Base
    <3>2. Woken(t)' <=> Woken(t)
      BY <1>0, <3>1, KeptWoken
    <3> QED BY <3>1, <3>2 DEF CallOK, Kept, Blocked
  <2> QED BY <2>1, <2>2, <2>3
<1>2. Base'
  BY <1>1 DEF Base, KStep, AliveOK
<1>3. ASSUME NEW t \in Thread
      PROVE  \/ Kept(t) /\ loc'[t] = loc[t]
             \/ op[t].on \in O \cup {NoObj} /\ op'[t].on \in O \cup {NoObj}
  BY DEF KStep, Roused
<1> QED BY <1>2, <1>3 DEF OwnStep

LEMMA OwnSleeps ==
  ASSUME Base, NEW O, alive \subseteq O, alive' = alive, loc' \in LocType,
         NEW c \in Thread, NEW o \in alive, NEW d, Sleeps(c, o, d), op[c].on \in alive \cup {NoObj},
         \A t \in Thread : t = c \/ loc'[t] = loc[t]
  PROVE  OwnStep(O)
<1>0. IpcTypeOK /\ NoObj \notin Obj /\ alive \subseteq Obj
  BY ObjNames DEF Base, IpcInv, IpcTypeOK
<1>1. ASSUME NEW t \in Thread PROVE CallOK(t)'
  <2>1. CASE t = c
    BY <1>0, <2>1 DEF CallOK, Sleeps, SleepPC, HandPC
  <2>2. CASE t # c
    <3>1. Kept(t) /\ CallOK(t)
      BY <2>2 DEF Sleeps, Base
    <3>2. Woken(t)' <=> Woken(t)
      BY <1>0, <3>1, KeptWoken
    <3> QED BY <3>1, <3>2 DEF CallOK, Kept, Blocked
  <2> QED BY <2>1, <2>2
<1>2. Base'
  BY <1>1 DEF Base, Sleeps, AliveOK
<1>3. ASSUME NEW t \in Thread
      PROVE  \/ Kept(t) /\ loc'[t] = loc[t]
             \/ op[t].on \in O \cup {NoObj} /\ op'[t].on \in O \cup {NoObj}
  BY DEF Sleeps
<1> QED BY <1>2, <1>3 DEF OwnStep

\* rt_xxx_init: nobody is inside a call.
LEMMA OwnCreate ==
  ASSUME Base, NEW c \in User, NEW O \in {MbObj, {"mq"}, {"ev"}, {"mp"}}, Create(c, O)
  PROVE  /\ OwnStep(O) /\ alive = {} /\ alive' = O /\ k' = k /\ op' = op /\ loc' = loc
         /\ \A t \in Thread : op[t].on = NoObj
         /\ \A t \in Thread, o \in Obj : ~Linked(k, t, Wait(o))
<1>0. /\ IpcInv /\ DetachInv /\ IpcTypeOK /\ NoObj \notin Obj /\ O \subseteq Obj /\ AliveOK
  BY ObjNames DEF Base, IpcInv
<1>1. /\ alive = {} /\ alive' = O /\ k' = k /\ op' = op /\ loc' = loc
      /\ \A t \in Thread : op[t].on = NoObj
  BY DEF Create, Fresh
<1>2. \A t \in Thread, o \in Obj : ~Linked(k, t, Wait(o))
  BY <1>0, <1>1, LinkedFacts
<1>3. IpcInv'
  <2>1. IpcTypeOK'
    BY <1>0, <1>1 DEF IpcTypeOK
  <2>2. \A t \in Thread : CallerOK(t)'
    BY <1>1 DEF Base, IpcInv, CallerOK, Blocked
  <2> QED BY <1>0, <1>1, <2>1, <2>2 DEF IpcInv
<1>4. DetachInv'
  <2>1. \A t \in Thread : Leaving(t) = {} /\ Leaving(t)' = {}
    BY <1>0, <1>1 DEF Leaving, DetachInv
  <2>2. \A t \in Thread : op[t].pc \notin ResumePC
    BY <1>0, <1>1 DEF DetachInv
  <2>3. ResumeAllFindsWaiter'
    BY <1>0, <1>1 DEF DetachInv, ResumeAllFindsWaiter
  <2> QED BY <1>0, <1>1, <2>1, <2>2, <2>3 DEF DetachInv, ResumePC
<1>5. \A t \in Thread : CallOK(t)'
  <2> SUFFICES ASSUME NEW t \in Thread PROVE CallOK(t)'
    OBVIOUS
  <2>1. CallOK(t) /\ op[t].on = NoObj
    BY <1>1 DEF Base
  <2>2. Woken(t)' <=> Woken(t)
    BY <1>1 DEF Woken, Blocked
  <2> QED BY <1>0, <1>1, <2>1, <2>2 DEF CallOK
<1>6. Base'
  BY <1>1, <1>3, <1>4, <1>5 DEF Base, AliveOK
<1>7. \A t \in Thread : op[t].on \in O \cup {NoObj} /\ op'[t].on \in O \cup {NoObj}
  BY <1>1
<1> QED BY <1>1, <1>2, <1>6, <1>7 DEF OwnStep

\* rt_xxx_detach: whoever is inside a call waits for ever.
LEMMA OwnDetach ==
  ASSUME Base, NEW c \in User, NEW O \in {MbObj, {"mq"}, {"ev"}, {"mp"}}, NEW o \in O,
         O = {o, After(o)} \cap Obj, Detach(c, O, o)
  PROVE  /\ OwnStep(O) /\ alive = O /\ alive' = {} /\ k' = k /\ loc' = loc
         /\ op[c].pc = "run" /\ op[c].on = NoObj /\ op'[c].pc = "resume_test" /\ op'[c].on = o
         /\ \A t \in Thread \ {c} : op'[t] = op[t]
         /\ \A t \in Thread : op[t].on \in O => Blocked(t) /\ ~Timed(k, t) /\ ~Woken(t)
<1>0. /\ IpcInv /\ DetachInv /\ IpcTypeOK /\ NoObj \notin Obj /\ O \subseteq Obj /\ AliveOK
      /\ c \in Thread /\ c # idle /\ o \in Obj
  BY ObjNames DEF Base, IpcInv, User
<1>1. /\ At(c, "run") /\ k' = k /\ loc' = loc /\ alive' = alive \ O /\ O \subseteq alive
      /\ Call(c, "resume_test", o)
      /\ \A x \in O : \A t \in Thread : op[t].on = x => Linked(k, t, Wait(x)) /\ ~Timed(k, t)
  BY DEF Detach, Quiet
<1>2. alive = O /\ alive' = {}
  BY <1>0, <1>1 DEF AliveOK, MbObj
<1>3. /\ op[c].pc = "run" /\ op[c].on = NoObj /\ k.cur = c /\ k.stat[c] = "READY"
  BY <1>0, <1>1, AtFacts
<1>4. /\ OpType /\ op'[c] = [pc |-> "resume_test", on |-> o]
      /\ op'[c].pc = "resume_test" /\ op'[c].on = o
      /\ \A t \in Thread \ {c} : op'[t] = op[t]
  <2>1. "resume_test" \in IpcPC /\ o \in Obj \cup {NoObj}
    BY <1>0 DEF IpcPC
  <2> QED BY <1>0, <1>1, <2>1, CallFacts
<1>5. \A t \in Thread : op[t].on \in O => Blocked(t) /\ ~Timed(k, t) /\ ~Woken(t)
  BY <1>0, <1>1, LinkedFacts DEF Woken
<1>6. IpcInv'
  <2>1. Still
    BY <1>0, <1>1, SameKernel
  <2>2. CurOK /\ \A t \in Thread : Moves(t)
    BY <1>1, <1>3, <1>4, <1>0 DEF CurOK, Moves, WaitPC
  <2> QED BY <1>0, <1>2, <1>4, <2>1, <2>2, StillInv
<1>7. DetachInv'
  <2>1. Leaving(c)' = O /\ \A t \in Thread \ {c} : Leaving(t)' = Leaving(t)
    BY <1>4 DEF Leaving, ResumePC, After
  <2>2. \A t \in Thread : Leaving(t) \cap O = {}
    BY <1>0, <1>2 DEF DetachInv
  <2>3. \A x \in O : \A t \in Range(Waiters(x)) : ~Timed(k, t)
    <3> SUFFICES ASSUME NEW x \in O, NEW t \in Range(Waiters(x)) PROVE ~Timed(k, t)
      OBVIOUS
    <3>1. x \in Obj /\ Waiters(x) \in Seq(Thread)
      BY <1>0, HeadFacts DEF IpcTypeOK, KState, Waiters
    <3>2. t \in Thread /\ Linked(k, t, Wait(x))
      BY <3>1 DEF Range, Linked, Waiters
    <3> QED BY <1>0, <1>1, <3>1, <3>2, LinkedFacts
  <2>4. ResumeAllFindsWaiter'
    BY <1>0, <1>4 DEF ResumeAllFindsWaiter, DetachInv
  <2>5. ASSUME NEW t \in Thread
        PROVE  /\ Leaving(t)' \cap alive' = {}
               /\ \A x \in Leaving(t)' : \A w \in Range(Waiters(x)) : ~Timed(k, w)
               /\ \A d \in Thread \ {t} : Leaving(t)' \cap Leaving(d)' = {}
               /\ op'[t].pc \in ResumePC => op'[t].on \in Obj
               /\ op'[t].pc = "resume_one" => Waiters(op'[t].on) # <<>>
    <3>1. \A d \in Thread \ {t} : Leaving(t)' \cap Leaving(d)' = {}
      BY <1>0, <2>1, <2>2 DEF DetachInv
    <3>2. \A x \in Leaving(t)' : \A w \in Range(Waiters(x)) : ~Timed(k, w)
      BY <1>0, <2>1, <2>3 DEF DetachInv
    <3>3. /\ op'[t].pc \in ResumePC => op'[t].on \in Obj
          /\ op'[t].pc = "resume_one" => Waiters(op'[t].on) # <<>>
      BY <1>0, <1>4 DEF DetachInv
    <3> QED BY <1>2, <3>1, <3>2, <3>3
  <2> QED BY <1>1, <2>4, <2>5 DEF DetachInv, Waiters
<1>8. ASSUME NEW t \in Thread PROVE CallOK(t)'
  <2>1. CASE t = c
    BY <1>4, <2>1 DEF CallOK, SleepPC, HandPC, ResumePC
  <2>2. CASE t # c
    <3>1. CallOK(t) /\ op'[t] = op[t]
      BY <1>4, <2>2 DEF Base
    <3>2. Woken(t)' <=> Woken(t)
      BY <1>1, <3>1 DEF Woken, Blocked
    <3> QED BY <1>1, <1>2, <1>5, <3>1, <3>2 DEF CallOK, Blocked
  <2> QED BY <2>1, <2>2
<1>9. Base'
  BY <1>1, <1>2, <1>6, <1>7, <1>8 DEF Base, AliveOK
<1>10. \A t \in Thread : \/ Kept(t) /\ loc'[t] = loc[t]
                         \/ op[t].on \in O \cup {NoObj} /\ op'[t].on \in O \cup {NoObj}
  BY <1>1, <1>3, <1>4 DEF Kept, SameLinks
<1> QED BY <1>1, <1>2, <1>3, <1>4, <1>5, <1>9, <1>10 DEF OwnStep

-----------------------------------------------------------------------------
(* The loop of rt_mb_send_wait, rt_mb_recv and rt_mq_recv *)

\* left ticks from the tick in from is when the waiting time of t ends, and it
\* is what its timer is set to.
Clock(t) ==
  /\ loc[t].left > 0 => loc[t].due = (loc[t].from + loc[t].left) % TickMod
  /\ Timed(k, t) => loc[t].left > 0 /\ k.tmo[t] = loc[t].due

\* A wait of left ticks that began at from, after gone ticks of it.
LEMMA LeftArithmetic ==
  ASSUME NEW now \in Tick, NEW from \in Tick, NEW left \in 1 .. Half - 1, left > Since(now, from)
  PROVE  /\ left - Since(now, from) \in 1 .. Half - 1
         /\ (now + (left - Since(now, from))) % TickMod = (from + left) % TickMod
<1>0. /\ TickMod \in Nat /\ TickMod >= 5 /\ now \in 0 .. TickMod - 1 /\ from \in 0 .. TickMod - 1
      /\ Half \in Nat /\ 2 * Half <= TickMod - 1
  BY KernelAssumption DEF Half, Tick
<1>1. \A n \in 0 .. TickMod - 1 : n % TickMod = n
  BY <1>0
<1>2. \A n \in Int : -TickMod <= n /\ n < 0 => n % TickMod = n + TickMod
  BY <1>0
<1>3. \A n \in Int : TickMod <= n /\ n < 2 * TickMod => n % TickMod = n - TickMod
  BY <1>0
<1> HIDE DEF Half
<1>4. Since(now, from) = IF now < from THEN now - from + TickMod ELSE now - from
  <2>1. CASE now < from
    <3>1. now - from \in Int /\ -TickMod <= now - from /\ now - from < 0
      BY <1>0, <2>1
    <3> QED BY <1>2, <2>1, <3>1 DEF Since
  <2>2. CASE now >= from
    <3>1. now - from \in 0 .. TickMod - 1
      BY <1>0, <2>2
    <3>2. ~(now < from)
      BY <1>0, <2>2
    <3> QED BY <1>1, <3>1, <3>2 DEF Since
  <2> QED BY <1>0, <2>1, <2>2
<1> DEFINE gone == Since(now, from)
<1>5. gone \in Nat /\ left - gone \in 1 .. Half - 1 /\ left \in Nat
  BY <1>0, <1>4
<1> HIDE DEF gone
<1>6. CASE now < from
  <2>1. now + (left - gone) = from + left - TickMod
    BY <1>0, <1>4, <1>6 DEF gone
  <2>2. from + left \in TickMod .. 2 * TickMod - 1
    BY <1>0, <1>5, <2>1
  <2>3. (from + left) % TickMod = from + left - TickMod
    BY <1>0, <1>3, <2>2
  <2>4. from + left - TickMod \in 0 .. TickMod - 1
    BY <1>0, <2>2
  <2>5. (from + left - TickMod) % TickMod = from + left - TickMod
    BY <1>1, <2>4
  <2> QED BY <1>5, <2>1, <2>3, <2>5 DEF gone
<1>7. CASE ~(now < from)
  <2>1. now + (left - gone) = from + left
    BY <1>0, <1>4, <1>7 DEF gone
  <2> QED BY <1>5, <2>1 DEF gone
<1> QED BY <1>6, <1>7

LEMMA TimeFacts ==
  ASSUME NEW c \in User, NEW d \in TimeOf[c] \cup {0}
  PROVE  d \in {-1} \cup 0 .. Half - 1 /\ (d > 0 => d \in Nat) /\ d \in Int
<1>1. TimeOf[c] \subseteq {-1} \cup 1 .. Half - 1
  BY RetryAssumption, IpcAssumption
<1>2. Half \in Nat /\ Half >= 1
  <2>1. TickMod \in Nat /\ TickMod >= 5
    BY KernelAssumption
  <2> QED BY <2>1 DEF Half
<1>3. d \in {-1} \cup 0 .. Half - 1
  BY <1>1, <1>2
<1> HIDE DEF Half
<1> QED BY <1>2, <1>3

LEMMA BeginSleeps ==
  ASSUME Base, NEW c \in User, NEW o \in alive, NEW d \in TimeOf[c] \cup {0}, NEW m \in Msg \cup {Nil},
         At(c, "run"), Begin(c, o, d, m), alive' = alive
  PROVE  /\ Sleeps(c, o, d) /\ loc' \in LocType
         /\ \A t \in Thread : t = c \/ loc'[t] = loc[t]
         /\ loc'[c].msg = m /\ Clock(c)' /\ op[c].on = NoObj /\ op[c].pc = "run"
<1>0. /\ IpcInv /\ DetachInv /\ IpcTypeOK /\ c \in Thread /\ k.tick \in Tick
      /\ loc \in LocType
  BY DEF Base, IpcInv, IpcTypeOK, KState, User
<1>1. op[c].on = NoObj /\ op[c].pc = "run" /\ k.cur = c /\ k.stat[c] = "READY"
  BY <1>0, AtFacts
<1>2. d \in {-1} \cup 0 .. Half - 1 /\ (d > 0 => d \in Nat) /\ d \in Int
  BY TimeFacts
<1>3. Sleeps(c, o, d)
  BY <1>0, <1>1, <1>2, BlockSleeps DEF Begin
<1> DEFINE due == IF d > 0 THEN (k.tick + d) % TickMod ELSE 0
           r == [left |-> d, from |-> StartTick(d), due |-> due, msg |-> m, node |-> Null]
<1>4. loc' = [loc EXCEPT ![c] = r]
  BY DEF Begin
<1>5. 0 \in Tick
  <2>1. TickMod \in Nat /\ TickMod >= 5
    BY KernelAssumption
  <2> QED BY <2>1 DEF Tick
<1>6. due \in Tick /\ StartTick(d) \in Tick
  <2>1. d > 0 => k.tick + d \in Nat
    <3>1. k.tick \in Nat
      BY <1>0 DEF Tick
    <3> QED BY <1>2, <3>1
  <2> QED BY <1>0, <1>5, <2>1, TickRange DEF StartTick
<1>7. r \in LocRec
  <2>1. Null \in Node \cup {Null}
    OBVIOUS
  <2> HIDE DEF due
  <2> QED BY <1>2, <1>6, <2>1 DEF LocRec
<1>8. r.left = d /\ r.from = StartTick(d) /\ r.due = due /\ r.msg = m
  OBVIOUS
<1>9. d > 0 => StartTick(d) = k.tick /\ due = (k.tick + d) % TickMod
  BY DEF StartTick
<1> HIDE DEF r, due
<1>10. loc'[c] = r /\ loc' \in LocType /\ \A t \in Thread : t = c \/ loc'[t] = loc[t]
  BY <1>0, <1>4, <1>7 DEF LocType
<1>11. Clock(c)'
  BY <1>3, <1>8, <1>9, <1>10 DEF Clock, Sleeps
<1> QED BY <1>1, <1>3, <1>8, <1>10, <1>11

LEMMA RemainingFacts ==
  ASSUME Base, NEW c \in Thread
  PROVE  /\ Remaining(c) \in {-1} \cup 0 .. Half - 1
         /\ Remaining(c) > 0 =>
              /\ Remaining(c) \in Nat /\ loc[c].left > 0
              /\ (k.tick + Remaining(c)) % TickMod = (loc[c].from + loc[c].left) % TickMod
<1>0. loc[c] \in LocRec /\ k.tick \in Tick
  BY DEF Base, IpcInv, IpcTypeOK, KState, LocType
<1>1. loc[c].left \in {-1} \cup 0 .. Half - 1 /\ loc[c].from \in Tick
  BY <1>0 DEF LocRec
<1> DEFINE gone == Since(k.tick, loc[c].from)
<1>2. Half \in Nat /\ Half >= 1 /\ gone \in Nat
  <2>1. TickMod \in Nat /\ TickMod >= 5
    BY KernelAssumption
  <2>2. gone \in Tick
    BY <1>0, <1>1, TickArithmetic
  <2> HIDE DEF gone
  <2> QED BY <2>1, <2>2 DEF Half, Tick
<1> HIDE DEF Half
<1>3. CASE loc[c].left # -1 /\ loc[c].left > gone
  <2>1. loc[c].left \in 1 .. Half - 1
    BY <1>1, <1>2, <1>3
  <2>2. Remaining(c) = loc[c].left - gone
    BY <1>3 DEF Remaining
  <2>3. /\ loc[c].left - gone \in 1 .. Half - 1
        /\ (k.tick + (loc[c].left - gone)) % TickMod = (loc[c].from + loc[c].left) % TickMod
    BY <1>0, <1>1, <1>3, <2>1, LeftArithmetic
  <2> HIDE DEF gone
  <2> QED BY <1>2, <2>1, <2>2, <2>3
<1>4. CASE ~(loc[c].left # -1 /\ loc[c].left > gone)
  <2>1. Remaining(c) = -1 \/ Remaining(c) = 0
    BY <1>4 DEF Remaining
  <2> QED BY <1>2, <2>1
<1> QED BY <1>3, <1>4

LEMMA AgainSleeps ==
  ASSUME Base, NEW c \in User, NEW o \in alive, Retry(c, o), Clock(c), Again(c), alive' = alive
  PROVE  /\ \E d : Sleeps(c, o, d)
         /\ loc' \in LocType
         /\ \A t \in Thread : t = c \/ loc'[t] = loc[t]
         /\ loc'[c].msg = loc[c].msg /\ Clock(c)'
<1> DEFINE d == Remaining(c)
<1>0. /\ IpcInv /\ DetachInv /\ IpcTypeOK /\ c \in Thread /\ k.tick \in Tick
      /\ loc \in LocType /\ loc[c] \in LocRec
  BY DEF Base, IpcInv, IpcTypeOK, KState, User, LocType
<1>1. op[c].on = o /\ op[c].pc = "wait_return" /\ k.cur = c /\ k.stat[c] = "READY" /\ k' = Block(k, o, c, d)
  BY <1>0, AtFacts DEF Retry, Again
<1>2. /\ d \in {-1} \cup 0 .. Half - 1 /\ (d > 0 => d \in Nat /\ loc[c].left > 0)
      /\ d > 0 => (k.tick + d) % TickMod = (loc[c].from + loc[c].left) % TickMod
  BY <1>0, RemainingFacts
<1>3. Call(c, "wait_sched", o)
  BY <1>0, <1>1, GotoCall DEF Again
<1>4. loc' = [loc EXCEPT ![c] = [loc[c] EXCEPT !.left = d, !.from = StartTick(d)]]
  BY DEF Again
<1> HIDE DEF d
<1>5. Sleeps(c, o, d)
  BY <1>0, <1>1, <1>2, <1>3, BlockSleeps
<1> DEFINE r == [loc[c] EXCEPT !.left = d, !.from = StartTick(d)]
<1>6. StartTick(d) \in Tick
  <2>1. TickMod \in Nat /\ TickMod >= 5
    BY KernelAssumption
  <2> QED BY <1>0, <2>1 DEF StartTick, Tick
<1>7. /\ r \in LocRec /\ r.left = d /\ r.from = StartTick(d) /\ r.due = loc[c].due
      /\ r.msg = loc[c].msg
  BY <1>0, <1>2, <1>6 DEF LocRec
<1>8. d > 0 => StartTick(d) = k.tick
  BY DEF StartTick
<1>9. loc' = [loc EXCEPT ![c] = r]
  BY <1>4
<1> HIDE DEF r
<1>10. loc'[c] = r /\ loc' \in LocType /\ \A t \in Thread : t = c \/ loc'[t] = loc[t]
  BY <1>0, <1>7, <1>9 DEF LocType
<1>11. Clock(c)'
  BY <1>2, <1>5, <1>7, <1>8, <1>10 DEF Clock, Sleeps
<1> QED BY <1>5, <1>7, <1>10, <1>11

\* Whoever was woken finds the object there.
LEMMA RetryFacts ==
  ASSUME Base, NEW c \in User, NEW o \in Obj, Retry(c, o)
  PROVE  /\ c \in Thread /\ IpcInv /\ DetachInv /\ IpcTypeOK /\ At(c, "wait_return")
         /\ op[c].on = o /\ op[c].pc = "wait_return" /\ Blocked(c) /\ k.stat[c] = "READY"
         /\ Woken(c) /\ o \in alive
<1>1. c \in Thread /\ IpcInv /\ DetachInv /\ IpcTypeOK /\ At(c, "wait_return") /\ k.err[c] = "EOK"
  BY DEF Base, IpcInv, User, Retry
<1>2. op[c].on = o /\ op[c].pc = "wait_return" /\ Blocked(c) /\ k.stat[c] = "READY"
  BY <1>1, AtFacts DEF Blocked, Retry
<1>3. \A x \in Obj : ~Linked(k, c, Wait(x))
  BY <1>1, <1>2, ReadyFacts
<1>4. Woken(c)
  BY <1>1, <1>2, <1>3, ObjNames DEF Woken
<1>5. CallOK(c)
  BY <1>1 DEF Base
<1>6. o \in alive
  BY <1>2, <1>4, <1>5 DEF CallOK, ResumePC
<1> QED BY <1>1, <1>2, <1>4, <1>6

\* A timer that was not touched, or ended, keeps the clock.
LEMMA KeptClock ==
  ASSUME NEW t, Timed(k', t) => Timed(k, t) /\ k'.tmo[t] = k.tmo[t], loc'[t] = loc[t], Clock(t)
  PROVE  Clock(t)'
BY DEF Clock, Timed

LEMMA KStepThread ==
  ASSUME NEW A, NEW W, NEW e, KStep(A, W, e), NEW t \in Thread, t \notin A
  PROVE  op'[t] = op[t] /\ (Timed(k', t) => Timed(k, t) /\ k'.tmo[t] = k.tmo[t])
BY DEF KStep, Roused, Kept, SameLinks

\* the return from a call on an object
LEMMA LeaveQuiet ==
  ASSUME Base, NEW c \in User, NEW from, At(c, from), from \notin {"wait_sched", "sleep_sched"},
         Leave(c), k' = k, alive' = alive
  PROVE  /\ KStep({c}, {}, "EOK") /\ op'[c].pc = "run" /\ op'[c].on = NoObj
         /\ loc' \in LocType /\ \A t \in Thread : t \in {c} \/ loc'[t] = loc[t]
<1>0. IpcInv /\ DetachInv /\ Call(c, "run", NoObj) /\ loc' = [loc EXCEPT ![c] = Idle]
  BY DEF Base, Leave, Return
<1>1. KStep({c}, {}, "EOK") /\ op'[c].pc = "run" /\ op'[c].on = NoObj
  <2>1. "run" \in IpcPC \ (WaitPC \cup ResumePC \cup {"assert"}) /\ NoObj \in Obj \cup {NoObj}
    BY DEF IpcPC, WaitPC, ResumePC
  <2> QED BY <1>0, <2>1, QuietStep
<1>2. loc' \in LocType /\ \A t \in Thread : t \in {c} \/ loc'[t] = loc[t]
  BY <1>0, IdleType DEF Base, LocType
<1> QED BY <1>1, <1>2

\* A step of c alone that stays on the one object there is.
LEMMA OwnAlone ==
  ASSUME Base, NEW O, alive = O, alive' = alive, NEW c \in Thread,
         NEW W, NEW e, KStep({c}, W, e), loc' \in LocType,
         \A t \in Thread : t \in {c} \/ loc'[t] = loc[t],
         op[c].on \in alive \cup {NoObj}, op'[c].on \in alive \cup {NoObj},
         op'[c].pc \notin SleepPC,
         op'[c].pc \in HandPC => op'[c].on = "mq",
         op'[c].pc = "mp_time" => op'[c].on = "mp" /\ Woken(c)'
  PROVE  OwnStep(O)
<1>1. \A t \in {c} : /\ op[t].on \in alive \cup {NoObj} /\ op'[t].on \in alive \cup {NoObj}
                     /\ op'[t].pc \notin SleepPC
                     /\ op'[t].pc \in HandPC => op'[t].on = "mq"
                     /\ op'[t].pc = "mp_time" => op'[t].on = "mp" /\ Woken(t)'
  OBVIOUS
<1>2. alive \subseteq O
  OBVIOUS
<1> QED BY <1>1, <1>2, OwnKStep

-----------------------------------------------------------------------------
(* The mailbox *)

MbRing == mb \in MbType /\ mb.in = (mb.out + mb.entry) % MbSize

\* No wake-up is lost on either side.
MbCount ==
  "mb" \in alive =>
    /\ Awaited("mb") => mb.entry <= Cardinality(Coming("mb"))
    /\ Awaited("mb_sender") => MbSize - mb.entry <= Cardinality(Coming("mb_sender"))

\* A caller that waits has its mail in hand, and its timer is right.
MbLoc(t) ==
  op[t].on \in MbObj /\ Blocked(t) =>
    Clock(t) /\ (op[t].on = "mb_sender" => loc[t].msg \in Msg)

MbInv ==
  /\ MbRing /\ MbCount
  /\ "mb" \notin alive => mb = MbEmpty
  /\ \A t \in Thread : MbLoc(t)

MbCalls == [c \in Thread |-> MbCall(c)]

MbAbsStep == [MbAbstract!Next]_<<MbMails, MbCalls>>

\* Sequences as functions.
AppendFun(s, m) == [i \in 1 .. Len(s) + 1 |-> IF i = Len(s) + 1 THEN m ELSE s[i]]

LEMMA AppendIs ==
  ASSUME NEW S, NEW s \in Seq(S), NEW m \in S
  PROVE  Append(s, m) = AppendFun(s, m)
<1> DEFINE r == Append(s, m)
<1>1. r \in Seq(S) /\ Len(r) = Len(s) + 1
  OBVIOUS
<1>2. \A i \in 1 .. Len(s) + 1 : r[i] = IF i = Len(s) + 1 THEN m ELSE s[i]
  OBVIOUS
<1> HIDE DEF r
<1>3. r = [i \in 1 .. Len(s) + 1 |-> r[i]]
  BY <1>1
<1> QED BY <1>2, <1>3 DEF r, AppendFun

TailFun(s) == [i \in 1 .. Len(s) - 1 |-> s[i + 1]]

LEMMA TailIs ==
  ASSUME NEW S, NEW s \in Seq(S), s # <<>>
  PROVE  Tail(s) = TailFun(s) /\ Head(s) = s[1]
<1> DEFINE r == Tail(s)
<1>1. r \in Seq(S) /\ Len(r) = Len(s) - 1 /\ Head(s) = s[1]
  OBVIOUS
<1>2. \A i \in 1 .. Len(s) - 1 : r[i] = s[i + 1]
  OBVIOUS
<1> HIDE DEF r
<1>3. r = [i \in 1 .. Len(s) - 1 |-> r[i]]
  BY <1>1
<1> QED BY <1>1, <1>2, <1>3 DEF r, TailFun

Wraps(x, n) == x % n = IF x < n THEN x ELSE x - n

LEMMA ModTwice ==
  ASSUME NEW n \in Nat \ {0}, NEW x \in 0 .. 2 * n - 1
  PROVE  Wraps(x, n)
<1>1. \A y \in 0 .. n - 1 : y % n = y
  OBVIOUS
<1>2. \A y \in Int : n <= y /\ y < 2 * n => y % n = y - n
  OBVIOUS
<1>3. CASE x < n
  <2>1. x \in 0 .. n - 1
    BY <1>3
  <2> QED BY <1>1, <1>3, <2>1 DEF Wraps
<1>4. CASE ~(x < n)
  <2>1. x \in Int /\ n <= x /\ x < 2 * n
    BY <1>4
  <2> QED BY <1>2, <1>4, <2>1 DEF Wraps
<1> QED BY <1>3, <1>4

\* The slots of a ring of n from o on, e of which are taken.
PutSlot(n, o, e) ==
  /\ (o + e) % n \in 0 .. n - 1
  /\ (((o + e) % n) + 1) % n = (o + (e + 1)) % n
  /\ (o + (e + 1)) % n \in 0 .. n - 1

TakenSlot(n, o, e, i) ==
  /\ (o + i - 1) % n \in 0 .. n - 1
  /\ e < n => (o + i - 1) % n # (o + e) % n
  /\ i = 1 => (o + i - 1) % n = o
  /\ i # 1 => (o + i - 1) % n # o
  /\ ((o + 1) % n) \in 0 .. n - 1
  /\ i # e => (((o + 1) % n) + i - 1) % n = (o + (i + 1) - 1) % n
  /\ (((o + 1) % n) + (e - 1)) % n = (o + e) % n

LEMMA RingPut ==
  ASSUME NEW n \in Nat \ {0}, NEW o \in 0 .. n - 1, NEW e \in 0 .. n - 1
  PROVE  PutSlot(n, o, e)
<1>0. n \in Nat \ {0}
  OBVIOUS
<1> DEFINE a == (o + e) % n
           b == (o + (e + 1)) % n
<1>1. a = IF o + e < n THEN o + e ELSE o + e - n
  <2>1. o + e \in 0 .. 2 * n - 1
    OBVIOUS
  <2>2. Wraps(o + e, n)
    BY ONLY <2>1, <1>0, ModTwice, Zenon
  <2> QED BY <2>2 DEF Wraps
<1>2. b = IF o + (e + 1) < n THEN o + (e + 1) ELSE o + (e + 1) - n
  <2>1. o + (e + 1) \in 0 .. 2 * n - 1
    OBVIOUS
  <2>2. Wraps(o + (e + 1), n)
    BY ONLY <2>1, <1>0, ModTwice, Zenon
  <2> QED BY <2>2 DEF Wraps
<1> HIDE DEF a, b
<1>3. a \in 0 .. n - 1 /\ b \in 0 .. n - 1
  BY <1>1, <1>2
<1>4. (a + 1) % n = IF a + 1 < n THEN a + 1 ELSE a + 1 - n
  <2>1. a + 1 \in 0 .. 2 * n - 1
    BY <1>3
  <2>2. Wraps(a + 1, n)
    BY ONLY <2>1, <1>0, ModTwice, Zenon
  <2> QED BY <1>3, <2>2 DEF Wraps
<1> DEFINE d == (a + 1) % n
<1>5. d = IF a + 1 < n THEN a + 1 ELSE a + 1 - n
  BY <1>4
<1> HIDE DEF d
<1>6. d = b
  BY <1>1, <1>2, <1>3, <1>5
<1> QED BY <1>3, <1>6 DEF a, b, d, PutSlot

LEMMA RingSlots ==
  ASSUME NEW n \in Nat \ {0}, NEW o \in 0 .. n - 1, NEW e \in 0 .. n, NEW i \in 1 .. e
  PROVE  TakenSlot(n, o, e, i)
<1>0. n \in Nat \ {0}
  OBVIOUS
<1> DEFINE a == (o + i - 1) % n
           b == (o + e) % n
           p == (o + 1) % n
           g == (o + (i + 1) - 1) % n
<1>1. a = IF o + i - 1 < n THEN o + i - 1 ELSE o + i - 1 - n
  <2>1. o + i - 1 \in 0 .. 2 * n - 1
    OBVIOUS
  <2>2. Wraps(o + i - 1, n)
    BY ONLY <2>1, <1>0, ModTwice, Zenon
  <2> QED BY <2>2 DEF Wraps
<1>2. b = IF o + e < n THEN o + e ELSE o + e - n
  <2>1. o + e \in 0 .. 2 * n - 1
    OBVIOUS
  <2>2. Wraps(o + e, n)
    BY ONLY <2>1, <1>0, ModTwice, Zenon
  <2> QED BY <2>2 DEF Wraps
<1>3. p = IF o + 1 < n THEN o + 1 ELSE o + 1 - n
  <2>1. o + 1 \in 0 .. 2 * n - 1
    OBVIOUS
  <2>2. Wraps(o + 1, n)
    BY ONLY <2>1, <1>0, ModTwice, Zenon
  <2> QED BY <2>2 DEF Wraps
<1>4. i # e => g = IF o + (i + 1) - 1 < n THEN o + (i + 1) - 1 ELSE o + (i + 1) - 1 - n
  <2>1. i # e => o + (i + 1) - 1 \in 0 .. 2 * n - 1
    OBVIOUS
  <2>2. i # e => Wraps(o + (i + 1) - 1, n)
    BY ONLY <2>1, <1>0, ModTwice, Zenon
  <2> QED BY <2>2 DEF Wraps
<1> HIDE DEF a, b, p, g
<1>5. p \in 0 .. n - 1
  BY <1>3
<1> DEFINE x == (p + i - 1) % n
           y == (p + (e - 1)) % n
<1>6. x = IF p + i - 1 < n THEN p + i - 1 ELSE p + i - 1 - n
  <2>1. p + i - 1 \in 0 .. 2 * n - 1
    BY <1>5
  <2>2. Wraps(p + i - 1, n)
    BY ONLY <2>1, <1>0, ModTwice, Zenon
  <2> QED BY <1>5, <2>2 DEF Wraps
<1>7. y = IF p + (e - 1) < n THEN p + (e - 1) ELSE p + (e - 1) - n
  <2>1. p + (e - 1) \in 0 .. 2 * n - 1
    BY <1>5
  <2>2. Wraps(p + (e - 1), n)
    BY ONLY <2>1, <1>0, ModTwice, Zenon
  <2> QED BY <1>5, <2>2 DEF Wraps
<1> HIDE DEF x, y
<1>8. a \in 0 .. n - 1 /\ (e < n => a # b) /\ (i = 1 => a = o) /\ (i # 1 => a # o)
  BY <1>1, <1>2
<1>9. i # e => x = g
  BY <1>3, <1>4, <1>6
<1>10. y = b
  BY <1>2, <1>3, <1>7
<1> QED BY <1>5, <1>8, <1>9, <1>10 DEF a, b, p, g, x, y, TakenSlot

LEMMA RingFacts ==
  ASSUME MbRing
  PROVE  /\ MbSize \in Nat \ {0} /\ mb.out \in 0 .. MbSize - 1 /\ mb.in \in 0 .. MbSize - 1
         /\ mb.entry \in 0 .. MbSize
         /\ mb.in = (mb.out + mb.entry) % MbSize
         /\ mb.pool \in [0 .. MbSize - 1 -> Msg \cup {Nil}]
BY MbAssumption DEF MbRing, MbType

\* A mail goes to the end of the ring.
LEMMA PutRing ==
  ASSUME MbRing, mb.entry < MbSize, NEW m \in Msg, MbPut(m)
  PROVE  /\ MbRing' /\ mb'.entry = mb.entry + 1
         /\ Len(MbMails) = mb.entry /\ MbMails' = Append(MbMails, m)
<1> DEFINE n == MbSize
           slot(i) == (mb.out + i - 1) % MbSize
<1>0. MbRing
  OBVIOUS
<1>1. /\ n \in Nat \ {0} /\ mb.out \in 0 .. n - 1 /\ mb.in \in 0 .. n - 1
      /\ mb.entry \in 0 .. n - 1 /\ mb.entry \in 0 .. n /\ mb.entry < n
      /\ mb.pool \in [0 .. n - 1 -> Msg \cup {Nil}]
  BY RingFacts
<1>2. mb \in MbType /\ mb.in = (mb.out + mb.entry) % MbSize
  BY DEF MbRing
<1>3. /\ mb'.entry = mb.entry + 1 /\ mb'.out = mb.out /\ mb'.in = (mb.in + 1) % MbSize
      /\ mb'.pool = [mb.pool EXCEPT ![mb.in] = m]
      /\ mb' = [pool |-> mb'.pool, in |-> mb'.in, out |-> mb'.out, entry |-> mb'.entry]
  BY <1>2 DEF MbPut, MbType
<1>4. mb'.in = (mb'.out + mb'.entry) % MbSize /\ mb'.in \in 0 .. n - 1
  <2>1. /\ (((mb.out + mb.entry) % n) + 1) % n = (mb.out + (mb.entry + 1)) % n
        /\ (mb.out + (mb.entry + 1)) % n \in 0 .. n - 1
    <3>1. PutSlot(n, mb.out, mb.entry)
      BY ONLY <1>1, RingPut, Zenon
    <3> QED BY ONLY <3>1, Zenon DEF PutSlot
  <2>2. mb'.in = (((mb.out + mb.entry) % n) + 1) % n
    BY <1>2, <1>3
  <2>3. (mb'.out + mb'.entry) % MbSize = (mb.out + (mb.entry + 1)) % n
    BY <1>3
  <2> HIDE DEF n
  <2> QED BY ONLY <2>1, <2>2, <2>3, Zenon
<1>5. mb' \in MbType
  <2>1. mb'.entry \in 0 .. MbSize /\ mb'.out \in 0 .. MbSize - 1
    BY ONLY <1>1, <1>3
  <2>2. mb'.pool \in [0 .. MbSize - 1 -> Msg \cup {Nil}]
    BY ONLY <1>1, <1>3, m \in Msg
  <2>3. mb'.in \in 0 .. MbSize - 1
    BY <1>4
  <2> QED BY ONLY <1>3, <2>1, <2>2, <2>3 DEF MbType
<1>6. ASSUME NEW i \in 1 .. mb.entry
      PROVE  slot(i) \in 0 .. n - 1 /\ slot(i) # mb.in
  <2>1. slot(i) \in 0 .. n - 1 /\ (mb.entry < n => slot(i) # (mb.out + mb.entry) % n)
    <3>1. TakenSlot(n, mb.out, mb.entry, i)
      BY ONLY <1>1, i \in 1 .. mb.entry, RingSlots, Zenon
    <3> QED BY ONLY <3>1, Zenon DEF TakenSlot
  <2> QED BY ONLY <1>1, <1>2, <2>1, Zenon
<1>7. slot(mb.entry + 1) = mb.in
  <2>1. mb.out + (mb.entry + 1) - 1 = mb.out + mb.entry
    BY ONLY <1>1
  <2> QED BY <1>2, <2>1
<1> HIDE DEF n
<1> DEFINE s == MbMails
           r == [i \in 1 .. mb.entry + 1 |-> IF i = mb.entry + 1 THEN m ELSE s[i]]
<1>8. s = [i \in 1 .. mb.entry |-> mb.pool[slot(i)]]
  BY DEF MbMails
<1>9. MbMails' = [i \in 1 .. mb.entry + 1 |-> mb'.pool[slot(i)]]
  BY <1>3 DEF MbMails
<1> HIDE DEF slot, s
<1>10. ASSUME NEW i \in 1 .. mb.entry + 1
       PROVE  mb'.pool[slot(i)] = IF i = mb.entry + 1 THEN m ELSE s[i]
  <2>1. CASE i = mb.entry + 1
    BY ONLY <1>1, <1>3, <1>7, <2>1
  <2>2. CASE i # mb.entry + 1
    <3>1. i \in 1 .. mb.entry
      BY ONLY <1>1, <2>2, i \in 1 .. mb.entry + 1
    <3> QED BY ONLY <1>1, <1>3, <1>6, <1>8, <2>2, <3>1
  <2> QED BY <2>1, <2>2
<1>11. MbMails' = r
  BY ONLY <1>9, <1>10
<1>12. Len(s) = mb.entry /\ s \in Seq({mb.pool[slot(i)] : i \in 1 .. mb.entry} \cup {m})
  <2>1. mb.entry \in Nat
    BY ONLY <1>1
  <2> QED BY ONLY <1>8, <2>1
<1>13. Append(s, m) = r
  <2> DEFINE S == {mb.pool[slot(i)] : i \in 1 .. mb.entry} \cup {m}
  <2>1. s \in Seq(S) /\ m \in S
    BY <1>12
  <2> HIDE DEF S
  <2>2. Append(s, m) = AppendFun(s, m)
    BY ONLY <2>1, AppendIs, Zenon
  <2> QED BY ONLY <1>12, <2>2 DEF AppendFun
<1> QED BY ONLY <1>3, <1>4, <1>5, <1>11, <1>12, <1>13 DEF MbRing, s

\* The first mail leaves the ring.
LEMMA GetRing ==
  ASSUME MbRing, mb.entry > 0, MbGet
  PROVE  /\ MbRing' /\ mb'.entry = mb.entry - 1
         /\ MbMails # <<>> /\ MbMails' = Tail(MbMails) /\ Head(MbMails) = mb.pool[mb.out]
<1> DEFINE n == MbSize
           slot(i) == (mb.out + i - 1) % MbSize
           next(i) == (mb'.out + i - 1) % MbSize
<1>1. /\ n \in Nat \ {0} /\ mb.out \in 0 .. n - 1 /\ mb.in \in 0 .. n - 1
      /\ mb.entry \in 0 .. n /\ mb.entry > 0
      /\ mb.pool \in [0 .. n - 1 -> Msg \cup {Nil}]
  BY RingFacts
<1>2. mb \in MbType /\ mb.in = (mb.out + mb.entry) % MbSize
  BY DEF MbRing
<1>3. /\ mb'.entry = mb.entry - 1 /\ mb'.in = mb.in /\ mb'.out = (mb.out + 1) % MbSize
      /\ mb'.pool = [mb.pool EXCEPT ![mb.out] = Nil]
      /\ mb' = [pool |-> mb'.pool, in |-> mb'.in, out |-> mb'.out, entry |-> mb'.entry]
  BY <1>2 DEF MbGet, MbType
<1>4. ASSUME NEW i \in 1 .. mb.entry
      PROVE  /\ slot(i) \in 0 .. n - 1
             /\ i = 1 => slot(i) = mb.out
             /\ i # 1 => slot(i) # mb.out
             /\ mb'.out \in 0 .. n - 1
             /\ i # mb.entry => next(i) = slot(i + 1)
             /\ mb'.in = (mb'.out + mb'.entry) % MbSize
  <2>1. /\ (mb.out + i - 1) % n \in 0 .. n - 1
        /\ i = 1 => (mb.out + i - 1) % n = mb.out
        /\ i # 1 => (mb.out + i - 1) % n # mb.out
        /\ ((mb.out + 1) % n) \in 0 .. n - 1
        /\ i # mb.entry => (((mb.out + 1) % n) + i - 1) % n = (mb.out + (i + 1) - 1) % n
        /\ (((mb.out + 1) % n) + (mb.entry - 1)) % n = (mb.out + mb.entry) % n
    <3>1. TakenSlot(n, mb.out, mb.entry, i)
      BY ONLY <1>1, i \in 1 .. mb.entry, RingSlots, Zenon
    <3> QED BY ONLY <3>1, Zenon DEF TakenSlot
  <2>2. mb'.out = (mb.out + 1) % n /\ mb'.entry = mb.entry - 1 /\ mb'.in = (mb.out + mb.entry) % n
    BY <1>2, <1>3
  <2>3. (mb'.out + mb'.entry) % MbSize = (((mb.out + 1) % n) + (mb.entry - 1)) % n
    BY <2>2
  <2> HIDE DEF n
  <2> QED BY ONLY <2>1, <2>2, <2>3, MbSize = n, Zenon DEF slot, next, n
<1>5. 1 \in 1 .. mb.entry
  BY ONLY <1>1
<1>6. mb' \in MbType
  <2>1. mb'.in \in 0 .. MbSize - 1 /\ mb'.entry \in 0 .. MbSize
    BY ONLY <1>1, <1>3
  <2>2. mb'.pool \in [0 .. MbSize - 1 -> Msg \cup {Nil}]
    BY ONLY <1>1, <1>3
  <2>3. mb'.out \in 0 .. MbSize - 1
    BY <1>4, <1>5
  <2> QED BY ONLY <1>3, <2>1, <2>2, <2>3 DEF MbType
<1> HIDE DEF n
<1> DEFINE s == MbMails
<1>7. s = [i \in 1 .. mb.entry |-> mb.pool[slot(i)]]
  BY DEF MbMails
<1>8. MbMails' = [i \in 1 .. mb.entry - 1 |-> mb'.pool[next(i)]]
  BY <1>3 DEF MbMails
<1>9. mb'.in = (mb'.out + mb'.entry) % MbSize
  BY <1>4, <1>5
<1> HIDE DEF slot, next, s
<1> DEFINE S == {mb.pool[slot(i)] : i \in 1 .. mb.entry}
<1>10. Len(s) = mb.entry /\ s \in Seq(S)
  <2>1. mb.entry \in Nat
    BY ONLY <1>1
  <2> QED BY ONLY <1>7, <2>1
<1> HIDE DEF S
<1>11. s[1] = mb.pool[mb.out]
  BY ONLY <1>4, <1>5, <1>7
<1>12. ASSUME NEW i \in 1 .. mb.entry - 1
       PROVE  mb'.pool[next(i)] = s[i + 1]
  <2>1. i \in 1 .. mb.entry /\ i # mb.entry /\ i + 1 \in 1 .. mb.entry /\ i + 1 # 1
    BY ONLY <1>1, i \in 1 .. mb.entry - 1
  <2>2. next(i) = slot(i + 1) /\ slot(i + 1) \in 0 .. n - 1 /\ slot(i + 1) # mb.out
    BY ONLY <1>4, <2>1, Zenon
  <2>3. s[i + 1] = mb.pool[slot(i + 1)]
    BY ONLY <1>7, <2>1
  <2>4. mb'.pool[slot(i + 1)] = mb.pool[slot(i + 1)]
    BY ONLY <1>1, <1>3, <2>2
  <2> QED BY ONLY <2>2, <2>3, <2>4
<1>13. MbMails' = [i \in 1 .. mb.entry - 1 |-> s[i + 1]]
  BY ONLY <1>8, <1>12
<1>14. s # <<>> /\ Head(s) = s[1] /\ Tail(s) = [i \in 1 .. mb.entry - 1 |-> s[i + 1]]
  <2>1. s # <<>>
    BY ONLY <1>1, <1>10
  <2>2. Tail(s) = TailFun(s) /\ Head(s) = s[1]
    BY ONLY <1>10, <2>1, TailIs, Zenon
  <2> QED BY ONLY <1>10, <2>1, <2>2 DEF TailFun
<1> QED BY ONLY <1>3, <1>6, <1>9, <1>11, <1>13, <1>14 DEF s, MbRing

\* One side takes or puts a mail, and lets a waiter of the other side go on.
LEMMA SideCount ==
  ASSUME Base, NEW c \in Thread, NEW self \in Obj, NEW other \in Obj,
         op[c].on # other, WakeStep({c}, other)
  PROVE  /\ Awaited(other)' =>
              Awaited(other) /\ Cardinality(Coming(other)') >= Cardinality(Coming(other)) + 1
         /\ Awaited(self)' =>
              Awaited(self) /\ Cardinality(Coming(self)') >= Cardinality(Coming(self)) - 1
         /\ Cardinality(Coming(self)) \in Nat /\ Cardinality(Coming(other)) \in Nat
         /\ Cardinality(Coming(self)') \in Nat /\ Cardinality(Coming(other)') \in Nat
<1>1. PICK W : KStep({c}, W, "EOK")
  BY DEF WakeStep
<1>2. c \notin Coming(other) /\ {c} \subseteq {c}
  BY DEF Coming
<1>3. Awaited(other)' => Awaited(other)
  BY <1>1, <1>2, StepCount
<1>4. /\ Awaited(self)' => Awaited(self)
      /\ Cardinality(Coming(self)') >= Cardinality(Coming(self)) - 1
  BY <1>1, <1>2, StepCount
<1>5. Awaited(other)' => Cardinality(Coming(other)') >= Cardinality(Coming(other)) + 1
  BY <1>2, WakeCount
<1>6. \A o \in {self, other} : Coming(o) \subseteq Thread /\ Coming(o)' \subseteq Thread
  BY DEF Coming
<1> QED BY <1>3, <1>4, <1>5, <1>6, Subsets

\* The call of a thread for the abstract queue is a matter of its op and loc.
LEMMA MbCallSame ==
  ASSUME NEW t, op'[t] = op[t], loc'[t] = loc[t]
  PROVE  MbCall(t)' = MbCall(t)
BY DEF MbCall, Blocked

LEMMA MbCallsOne ==
  ASSUME NEW c \in Thread, \A t \in Thread : t = c \/ (op'[t] = op[t] /\ loc'[t] = loc[t])
  PROVE  MbCalls' = [MbCalls EXCEPT ![c] = MbCall(c)'] /\ MbCalls[c] = MbCall(c)
<1>1. \A t \in Thread : t = c \/ MbCall(t)' = MbCall(t)
  BY MbCallSame
<1> QED BY <1>1 DEF MbCalls

LEMMA MbStutter ==
  ASSUME MbMails' = MbMails, MbCalls' = MbCalls
  PROVE  MbAbsStep
BY DEF MbAbsStep

LEMMA MbAbsPut ==
  ASSUME NEW c \in Thread, \A t \in Thread : t = c \/ (op'[t] = op[t] /\ loc'[t] = loc[t]),
         NEW m \in Msg, MbCall(c) \in {<<"out">>, <<"send", m>>}, MbCall(c)' = <<"sent">>,
         Len(MbMails) < MbSize, MbMails' = Append(MbMails, m)
  PROVE  MbAbsStep
<1>1. MbAbstract!Put(c, m)
  BY MbCallsOne DEF MbAbstract!Put, MbAbstract!Out, MbAbstract!Send, MbAbstract!Sent,
     MbAbstract!Become, MbCalls
<1> QED BY <1>1 DEF MbAbsStep, MbAbstract!Next, MbCalls

LEMMA MbAbsPutIsr ==
  ASSUME op' = op, loc' = loc, NEW m \in Msg, Len(MbMails) < MbSize, MbMails' = Append(MbMails, m)
  PROVE  MbAbsStep
<1>1. MbCalls' = MbCalls
  BY MbCallSame DEF MbCalls
<1>2. MbAbstract!PutIsr(m)
  BY <1>1 DEF MbAbstract!PutIsr, MbCalls
<1> QED BY <1>2 DEF MbAbsStep, MbAbstract!Next, MbCalls

LEMMA MbAbsTake ==
  ASSUME NEW c \in Thread, \A t \in Thread : t = c \/ (op'[t] = op[t] /\ loc'[t] = loc[t]),
         MbCall(c) \in {<<"out">>, <<"recv">>}, MbCall(c)' = <<"got", Head(MbMails)>>,
         MbMails # <<>>, MbMails' = Tail(MbMails)
  PROVE  MbAbsStep
<1>1. MbAbstract!Take(c)
  BY MbCallsOne DEF MbAbstract!Take, MbAbstract!Out, MbAbstract!Recv, MbAbstract!Got,
     MbAbstract!Become, MbCalls
<1> QED BY <1>1 DEF MbAbsStep, MbAbstract!Next, MbCalls

LEMMA MbAbsBegin ==
  ASSUME NEW c \in Thread, \A t \in Thread : t = c \/ (op'[t] = op[t] /\ loc'[t] = loc[t]),
         NEW m, MbCall(c) = <<"out">>, MbMails' = MbMails,
         \/ m \in Msg /\ MbCall(c)' = <<"send", m>>
         \/ MbMails = <<>> /\ MbCall(c)' = <<"recv">>
  PROVE  MbAbsStep
<1>0. MsgOf[idle] \in Msg
  BY RetryAssumption, KernelAssumption
<1>1. MbAbstract!Begin(c)
  BY <1>0, MbCallsOne DEF MbAbstract!Begin, MbAbstract!Out, MbAbstract!Recv, MbAbstract!Send,
     MbAbstract!Become, MbCalls
<1> QED BY <1>1 DEF MbAbsStep, MbAbstract!Next, MbCalls

LEMMA MbAbsEnd ==
  ASSUME NEW c \in Thread, \A t \in Thread : t = c \/ (op'[t] = op[t] /\ loc'[t] = loc[t]),
         MbCall(c)' \in {<<"out">>, MbCall(c)}, MbMails' = MbMails
  PROVE  MbAbsStep
<1>0. MbCalls' = [MbCalls EXCEPT ![c] = MbCall(c)'] /\ MbCalls[c] = MbCall(c)
  BY MbCallsOne
<1>1. CASE MbCall(c)' = MbCall(c)
  <2>1. MbCalls' = MbCalls
    BY <1>0, <1>1 DEF MbCalls
  <2> QED BY <2>1, MbStutter
<1>2. CASE MbCall(c)' # MbCall(c)
  <2>1. MbAbstract!End(c)
    BY <1>0, <1>2 DEF MbAbstract!End, MbAbstract!Out, MbAbstract!Become, MbCalls
  <2> QED BY <2>1 DEF MbAbsStep, MbAbstract!Next, MbCalls
<1> QED BY <1>1, <1>2

LEMMA MbAbsReset ==
  ASSUME NEW c \in Thread, \A t \in Thread : t = c \/ (op'[t] = op[t] /\ loc'[t] = loc[t]),
         MbCall(c)' = MbCall(c), MbMails' = <<>>
  PROVE  MbAbsStep
<1>0. MbCalls' = MbCalls
  BY MbCallsOne DEF MbCalls
<1>1. MbAbstract!Reset
  BY <1>0 DEF MbAbstract!Reset, MbCalls
<1> QED BY <1>1 DEF MbAbsStep, MbAbstract!Next, MbCalls

MbStep == OwnStep(MbObj) /\ MbInv' /\ MbAbsStep

LEMMA MbAlive ==
  ASSUME Base, "mb" \in alive
  PROVE  alive = MbObj /\ "mb_sender" \in alive /\ "mb" \in Obj /\ "mb_sender" \in Obj
         /\ NoObj \notin Obj /\ IpcInv /\ DetachInv /\ IpcTypeOK
BY ObjNames DEF Base, AliveOK, MbObj, IpcInv

\* The others wait as they did.
LEMMA MbLocKept ==
  ASSUME NEW t \in Thread, MbLoc(t), op'[t] = op[t], loc'[t] = loc[t],
         Timed(k', t) => Timed(k, t) /\ k'.tmo[t] = k.tmo[t]
  PROVE  MbLoc(t)'
<1>1. Clock(t) => Clock(t)'
  BY KeptClock
<1> QED BY <1>1 DEF MbLoc, Blocked

LEMMA MbPutOwn ==
  ASSUME Base, MbInv, NEW c \in User, NEW from \in {"run", "wait_return"}, At(c, from),
         "mb" \in alive, ~MbFull, NEW m \in Msg, MbCall(c) \in {<<"out">>, <<"send", m>>},
         op[c].on \in {NoObj, "mb_sender"}, MbSendNow(c, m), alive' = alive
  PROVE  MbStep
<1>0. /\ alive = MbObj /\ "mb_sender" \in Obj /\ "mb" \in Obj /\ c \in Thread
      /\ NoObj \notin Obj /\ IpcInv /\ DetachInv
  BY MbAlive DEF User
<1>1. MbRing /\ MbCount /\ \A t \in Thread : MbLoc(t)
  BY DEF MbInv
<1>2. mb.entry < MbSize /\ MbPut(m) /\ MbWake(c, "mb_sender", "mb") /\ loc' = [loc EXCEPT ![c] = Idle]
  <2>1. mb.entry \in 0 .. MbSize /\ MbSize \in Nat
    BY <1>1, RingFacts
  <2> QED BY <2>1 DEF MbFull, MbSendNow
<1>3. /\ MbRing' /\ mb'.entry = mb.entry + 1
      /\ Len(MbMails) = mb.entry /\ MbMails' = Append(MbMails, m)
  BY <1>1, <1>2, PutRing
<1>4. WakeStep({c}, "mb") /\ op'[c].pc \in {"sched", "return"} /\ op'[c].on = "mb_sender"
  <2>1. IF Waiters("mb") # <<>>
        THEN k' = IpcListResume(k, "mb") /\ Call(c, "sched", "mb_sender")
        ELSE Call(c, "return", "mb_sender") /\ k' = k
    BY <1>2 DEF MbWake
  <2>2. from \notin {"wait_sched", "sleep_sched"} /\ "mb_sender" \in Obj \cup {NoObj}
    BY <1>0
  <2> QED BY <1>0, <2>1, <2>2, WakeCall
<1>5. PICK W : KStep({c}, W, "EOK")
  BY <1>4 DEF WakeStep
<1>6. loc' \in LocType /\ \A t \in Thread : t = c \/ loc'[t] = loc[t]
  BY <1>0, <1>2, IdleType DEF Base, LocType
<1>7. \A t \in Thread : t = c \/ (op'[t] = op[t] /\ loc'[t] = loc[t])
  BY <1>5, <1>6, KStepThread
<1>8. OwnStep(MbObj)
  <2>1. \A t \in {c} : /\ op[t].on \in alive \cup {NoObj} /\ op'[t].on \in alive \cup {NoObj}
                       /\ op'[t].pc \notin SleepPC \cup HandPC \cup {"mp_time"}
    BY <1>0, <1>4 DEF SleepPC, HandPC, MbObj
  <2> QED BY <1>0, <1>5, <1>6, <2>1, OwnKStep
<1>9. MbCount'
  <2>1. op[c].on # "mb"
    BY <1>0
  <2>2. /\ Awaited("mb")' =>
             Awaited("mb") /\ Cardinality(Coming("mb")') >= Cardinality(Coming("mb")) + 1
        /\ Awaited("mb_sender")' =>
             Awaited("mb_sender") /\ Cardinality(Coming("mb_sender")') >= Cardinality(Coming("mb_sender")) - 1
        /\ Cardinality(Coming("mb_sender")) \in Nat /\ Cardinality(Coming("mb")) \in Nat
        /\ Cardinality(Coming("mb_sender")') \in Nat /\ Cardinality(Coming("mb")') \in Nat
    BY <1>0, <1>4, <2>1, SideCount
  <2>3. mb.entry \in Nat /\ MbSize \in Nat
    BY <1>1, RingFacts
  <2> QED BY <1>1, <1>3, <2>2, <2>3 DEF MbCount
<1>10. \A t \in Thread : MbLoc(t)'
  <2>1. ASSUME NEW t \in Thread, t # c PROVE MbLoc(t)'
    BY <1>1, <1>5, <1>7, <2>1, KStepThread, MbLocKept
  <2>2. MbLoc(c)'
    BY <1>4 DEF MbLoc, Blocked
  <2> QED BY <2>1, <2>2
<1>11. MbAbsStep
  <2>1. MbCall(c)' = <<"sent">>
    BY <1>4 DEF MbCall, Blocked
  <2> QED BY <1>0, <1>2, <1>3, <1>7, <2>1, MbAbsPut
<1> QED BY <1>0, <1>3, <1>8, <1>9, <1>10, <1>11 DEF MbStep, MbInv, MbObj

LEMMA MbGetOwn ==
  ASSUME Base, MbInv, NEW c \in User, NEW from \in {"run", "wait_return"}, At(c, from),
         "mb" \in alive, mb.entry > 0, MbCall(c) \in {<<"out">>, <<"recv">>},
         op[c].on \in {NoObj, "mb"}, MbRecvNow(c), alive' = alive
  PROVE  MbStep
<1>0. /\ alive = MbObj /\ "mb_sender" \in Obj /\ "mb" \in Obj /\ c \in Thread
      /\ NoObj \notin Obj /\ IpcInv /\ DetachInv
  BY MbAlive DEF User
<1>1. MbRing /\ MbCount /\ \A t \in Thread : MbLoc(t)
  BY DEF MbInv
<1> DEFINE r == [Idle EXCEPT !.msg = mb.pool[mb.out]]
<1>2. MbGet /\ MbWake(c, "mb", "mb_sender") /\ loc' = [loc EXCEPT ![c] = r]
  BY DEF MbRecvNow
<1>3. /\ MbRing' /\ mb'.entry = mb.entry - 1
      /\ MbMails # <<>> /\ MbMails' = Tail(MbMails) /\ Head(MbMails) = mb.pool[mb.out]
  BY <1>1, <1>2, GetRing
<1>4. WakeStep({c}, "mb_sender") /\ op'[c].pc \in {"sched", "return"} /\ op'[c].on = "mb"
  <2>1. IF Waiters("mb_sender") # <<>>
        THEN k' = IpcListResume(k, "mb_sender") /\ Call(c, "sched", "mb")
        ELSE Call(c, "return", "mb") /\ k' = k
    BY <1>2 DEF MbWake
  <2>2. from \notin {"wait_sched", "sleep_sched"} /\ "mb" \in Obj \cup {NoObj} /\ "mb_sender" \in alive
    BY <1>0, MbAlive
  <2> QED BY <1>0, <2>1, <2>2, WakeCall
<1>5. PICK W : KStep({c}, W, "EOK")
  BY <1>4 DEF WakeStep
<1>6. r \in LocRec /\ r.msg = Head(MbMails)
  <2>1. mb.pool[mb.out] \in Msg \cup {Nil}
    BY <1>1, RingFacts
  <2> QED BY <1>3, <2>1, IdleType DEF LocRec, Idle
<1> HIDE DEF r
<1>7. loc' \in LocType /\ loc'[c] = r /\ \A t \in Thread : t = c \/ loc'[t] = loc[t]
  BY <1>0, <1>2, <1>6 DEF Base, LocType
<1>8. \A t \in Thread : t = c \/ (op'[t] = op[t] /\ loc'[t] = loc[t])
  BY <1>5, <1>7, KStepThread
<1>9. OwnStep(MbObj)
  <2>1. \A t \in {c} : /\ op[t].on \in alive \cup {NoObj} /\ op'[t].on \in alive \cup {NoObj}
                       /\ op'[t].pc \notin SleepPC \cup HandPC \cup {"mp_time"}
    BY <1>0, <1>4 DEF SleepPC, HandPC, MbObj
  <2> QED BY <1>0, <1>5, <1>7, <2>1, OwnKStep
<1>10. MbCount'
  <2>1. op[c].on # "mb_sender"
    BY <1>0
  <2>2. /\ Awaited("mb_sender")' =>
             Awaited("mb_sender") /\ Cardinality(Coming("mb_sender")') >= Cardinality(Coming("mb_sender")) + 1
        /\ Awaited("mb")' =>
             Awaited("mb") /\ Cardinality(Coming("mb")') >= Cardinality(Coming("mb")) - 1
        /\ Cardinality(Coming("mb")) \in Nat /\ Cardinality(Coming("mb_sender")) \in Nat
        /\ Cardinality(Coming("mb")') \in Nat /\ Cardinality(Coming("mb_sender")') \in Nat
    BY <1>0, <1>4, <2>1, SideCount
  <2>3. mb.entry \in Nat /\ MbSize \in Nat
    BY <1>1, RingFacts
  <2> QED BY <1>1, <1>3, <2>2, <2>3 DEF MbCount
<1>11. \A t \in Thread : MbLoc(t)'
  <2>1. ASSUME NEW t \in Thread, t # c PROVE MbLoc(t)'
    BY <1>1, <1>5, <1>8, <2>1, KStepThread, MbLocKept
  <2>2. MbLoc(c)'
    BY <1>4 DEF MbLoc, Blocked
  <2> QED BY <2>1, <2>2
<1>12. MbAbsStep
  <2>1. MbCall(c)' = <<"got", Head(MbMails)>>
    BY <1>4, <1>6, <1>7 DEF MbCall, Blocked
  <2> QED BY <1>0, <1>3, <1>8, <2>1, MbAbsTake
<1> QED BY <1>0, <1>3, <1>9, <1>10, <1>11, <1>12 DEF MbStep, MbInv, MbObj

LEMMA MbSleepOwn ==
  ASSUME Base, MbInv, NEW c \in User, NEW o \in MbObj, "mb" \in alive, alive' = alive,
         NEW d, Sleeps(c, o, d), op[c].on \in {NoObj, o}, loc' \in LocType,
         \A t \in Thread : t = c \/ loc'[t] = loc[t],
         Clock(c)', o = "mb_sender" => loc'[c].msg \in Msg /\ MbFull, o = "mb" => mb.entry = 0,
         mb' = mb, MbAbsStep
  PROVE  MbStep
<1>0. /\ alive = MbObj /\ "mb_sender" \in Obj /\ "mb" \in Obj /\ c \in Thread /\ o \in Obj
      /\ NoObj \notin Obj
  BY MbAlive, ObjNames DEF User
<1>1. MbRing /\ MbCount /\ \A t \in Thread : MbLoc(t)
  BY DEF MbInv
<1>2. OwnStep(MbObj)
  BY <1>0, OwnSleeps
<1>3. /\ \A t \in Thread : t = c \/ Kept(t)
      /\ op'[c].pc = "wait_sched" /\ op'[c].on = o
  BY DEF Sleeps
<1>4. MbRing'
  BY <1>1 DEF MbRing
<1>5. MbCount'
  <2>1. ASSUME NEW x \in Obj, x # o PROVE Coming(x)' = Coming(x) /\ (Awaited(x)' => Awaited(x))
    <3>1. c \notin Coming(x)
      BY <1>0, <2>1 DEF Coming
    <3> QED BY <1>0, <2>1, <3>1, SleepCount
  <2>2. Cardinality(Coming(o)') \in Nat
    <3>1. Coming(o)' \subseteq Thread
      BY DEF Coming
    <3> QED BY <3>1, Subsets
  <2>3. mb.entry \in Nat /\ MbSize \in Nat
    BY <1>1, RingFacts
  <2>4. CASE o = "mb"
    <3>1. Coming("mb_sender")' = Coming("mb_sender") /\ (Awaited("mb_sender")' => Awaited("mb_sender"))
      BY <1>0, <2>1, <2>4
    <3> QED BY <1>1, <2>2, <2>3, <2>4, <3>1 DEF MbCount
  <2>5. CASE o = "mb_sender"
    <3>1. Coming("mb")' = Coming("mb") /\ (Awaited("mb")' => Awaited("mb"))
      BY <1>0, <2>1, <2>5
    <3> QED BY <1>1, <2>2, <2>3, <2>5, <3>1 DEF MbCount, MbFull
  <2> QED BY <2>4, <2>5 DEF MbObj
<1>6. \A t \in Thread : MbLoc(t)'
  <2>1. ASSUME NEW t \in Thread, t # c PROVE MbLoc(t)'
    BY <1>1, <1>3, <2>1, MbLocKept DEF Kept, SameLinks
  <2>2. MbLoc(c)'
    BY <1>3 DEF MbLoc
  <2> QED BY <2>1, <2>2
<1> QED BY <1>0, <1>2, <1>4, <1>5, <1>6 DEF MbStep, MbInv, MbObj

\* The waiting time is over: the call returns -RT_ETIMEOUT.
LEMMA MbLeaveOwn ==
  ASSUME Base, MbInv, NEW c \in User, NEW o \in MbObj, "mb" \in alive, alive' = alive,
         Retry(c, o), Leave(c), k' = k,
         o = "mb_sender" => MbFull, o = "mb" => mb.entry = 0, mb' = mb
  PROVE  MbStep
<1>0. /\ alive = MbObj /\ "mb_sender" \in Obj /\ "mb" \in Obj /\ c \in Thread /\ o \in Obj
      /\ NoObj \notin Obj /\ IpcInv /\ DetachInv
  BY MbAlive, ObjNames DEF User
<1>1. MbRing /\ MbCount /\ \A t \in Thread : MbLoc(t)
  BY DEF MbInv
<1>2. /\ At(c, "wait_return") /\ op[c].on = o /\ Call(c, "run", NoObj)
      /\ loc' = [loc EXCEPT ![c] = Idle]
  BY DEF Retry, Leave, Return
<1>3. KStep({c}, {}, "EOK") /\ op'[c].pc = "run" /\ op'[c].on = NoObj
  <2>1. "run" \in IpcPC \ (WaitPC \cup ResumePC \cup {"assert"}) /\ NoObj \in Obj \cup {NoObj}
    BY DEF IpcPC, WaitPC, ResumePC
  <2> QED BY <1>0, <1>2, <2>1, QuietStep
<1>4. loc' \in LocType /\ \A t \in Thread : t = c \/ loc'[t] = loc[t]
  BY <1>0, <1>2, IdleType DEF Base, LocType
<1>5. \A t \in Thread : t = c \/ (op'[t] = op[t] /\ loc'[t] = loc[t])
  BY <1>3, <1>4, KStepThread
<1>6. OwnStep(MbObj)
  <2>1. \A t \in {c} : /\ op[t].on \in alive \cup {NoObj} /\ op'[t].on \in alive \cup {NoObj}
                       /\ op'[t].pc \notin SleepPC \cup HandPC \cup {"mp_time"}
    BY <1>0, <1>2, <1>3 DEF SleepPC, HandPC, MbObj
  <2> QED BY <1>0, <1>3, <1>4, <2>1, OwnKStep
<1>7. MbRing'
  BY <1>1 DEF MbRing
<1>8. MbCount'
  <2>1. ASSUME NEW x \in Obj
        PROVE  /\ Awaited(x)' => Awaited(x)
               /\ x # o => Cardinality(Coming(x)') >= Cardinality(Coming(x))
               /\ Cardinality(Coming(x)) \in Nat /\ Cardinality(Coming(x)') \in Nat
    <3>1. x # o => c \notin Coming(x)
      BY <1>2 DEF Coming
    <3>2. /\ Awaited(x)' => Awaited(x)
          /\ c \notin Coming(x) => Cardinality(Coming(x)') >= Cardinality(Coming(x))
      BY <1>0, <1>3, StepCount
    <3>3. Coming(x) \subseteq Thread /\ Coming(x)' \subseteq Thread
      BY DEF Coming
    <3> QED BY <3>1, <3>2, <3>3, Subsets
  <2>2. mb.entry \in Nat /\ MbSize \in Nat
    BY <1>1, RingFacts
  <2>3. /\ Awaited("mb")' => Awaited("mb")
        /\ "mb" # o => Cardinality(Coming("mb")') >= Cardinality(Coming("mb"))
        /\ Cardinality(Coming("mb")) \in Nat /\ Cardinality(Coming("mb")') \in Nat
    BY <1>0, <2>1
  <2>4. /\ Awaited("mb_sender")' => Awaited("mb_sender")
        /\ "mb_sender" # o => Cardinality(Coming("mb_sender")') >= Cardinality(Coming("mb_sender"))
        /\ Cardinality(Coming("mb_sender")) \in Nat /\ Cardinality(Coming("mb_sender")') \in Nat
    BY <1>0, <2>1
  <2>5. CASE o = "mb"
    BY <1>1, <2>2, <2>3, <2>4, <2>5 DEF MbCount
  <2>6. CASE o = "mb_sender"
    BY <1>1, <2>2, <2>3, <2>4, <2>6 DEF MbCount, MbFull
  <2> QED BY <2>5, <2>6 DEF MbObj
<1>9. \A t \in Thread : MbLoc(t)'
  <2>1. ASSUME NEW t \in Thread, t # c PROVE MbLoc(t)'
    BY <1>1, <1>3, <1>5, <2>1, KStepThread, MbLocKept
  <2>2. MbLoc(c)'
    BY <1>3 DEF MbLoc, Blocked
  <2> QED BY <2>1, <2>2
<1>10. MbAbsStep
  <2>1. MbCall(c)' = <<"out">> /\ MbMails' = MbMails
    BY <1>0, <1>3 DEF MbCall, MbMails
  <2> QED BY <1>0, <1>5, <2>1, MbAbsEnd
<1> QED BY <1>0, <1>6, <1>7, <1>8, <1>9, <1>10 DEF MbStep, MbInv, MbObj

LEMMA MbEmptyRing ==
  ASSUME mb' = MbEmpty
  PROVE  MbRing' /\ MbMails' = <<>> /\ mb'.entry = 0
<1>1. MbSize \in Nat \ {0}
  BY MbAssumption
<1>2. /\ mb'.in = 0 /\ mb'.out = 0 /\ mb'.entry = 0
      /\ mb' = [pool |-> [i \in 0 .. MbSize - 1 |-> Nil], in |-> 0, out |-> 0, entry |-> 0]
  BY DEF MbEmpty
<1>3. 0 \in 0 .. MbSize - 1 /\ 0 \in 0 .. MbSize
  BY <1>1
<1>4. [i \in 0 .. MbSize - 1 |-> Nil] \in [0 .. MbSize - 1 -> Msg \cup {Nil}]
  OBVIOUS
<1>5. mb' \in MbType
  BY ONLY <1>2, <1>3, <1>4 DEF MbType
<1>6. (0 + 0) % MbSize = 0
  BY <1>1
<1>7. MbMails' = <<>>
  BY <1>2 DEF MbMails
<1> QED BY <1>2, <1>5, <1>6, <1>7 DEF MbRing

LEMMA MbSendWaitInv ==
  ASSUME Base, MbInv, NEW c \in User, NEW d \in TimeOf[c] \cup {0}, rt_mb_send_wait(c, MsgOf[c], d)
  PROVE  MbStep
<1> DEFINE m == MsgOf[c]
<1>0. /\ At(c, "run") /\ "mb" \in alive /\ alive' = alive /\ c \in Thread /\ m \in Msg
      /\ IpcInv /\ loc \in LocType
  BY RetryAssumption DEF rt_mb_send_wait, User, Base
<1>1. op[c].on = NoObj /\ op[c].pc = "run"
  BY <1>0, AtFacts
<1>2. MbCall(c) = <<"out">>
  BY <1>1 DEF MbCall, NoObj
<1>3. CASE ~MbFull
  <2>1. MbSendNow(c, m) /\ "run" \in {"run", "wait_return"}
    BY <1>3 DEF rt_mb_send_wait
  <2> QED BY <1>0, <1>1, <1>2, <1>3, <2>1, MbPutOwn
<1>4. CASE MbFull
  <2>1. Begin(c, "mb_sender", d, m) /\ mb' = mb
    BY <1>4 DEF rt_mb_send_wait
  <2>2. /\ Sleeps(c, "mb_sender", d) /\ loc' \in LocType
        /\ \A t \in Thread : t = c \/ loc'[t] = loc[t]
        /\ loc'[c].msg = m /\ Clock(c)'
    <3>1. "mb_sender" \in alive /\ m \in Msg \cup {Nil}
      BY <1>0, MbAlive
    <3> QED BY <1>0, <2>1, <3>1, BeginSleeps
  <2>3. MbAbsStep
    <3>1. MbCall(c)' = <<"send", m>> /\ MbMails' = MbMails
      BY <2>1, <2>2 DEF MbCall, Blocked, Sleeps, MbMails
    <3>2. \A t \in Thread : t = c \/ (op'[t] = op[t] /\ loc'[t] = loc[t])
      BY <2>2 DEF Sleeps, Kept
    <3> QED BY <1>0, <1>2, <3>1, <3>2, MbAbsBegin
  <2>4. "mb_sender" \in MbObj /\ "mb_sender" # "mb"
    BY DEF MbObj
  <2> QED BY <1>0, <1>1, <1>4, <2>1, <2>2, <2>3, <2>4, MbSleepOwn
<1> QED BY <1>3, <1>4

LEMMA MbRecvInv ==
  ASSUME Base, MbInv, NEW c \in User, NEW d \in TimeOf[c] \cup {0}, rt_mb_recv(c, d)
  PROVE  MbStep
<1>0. /\ At(c, "run") /\ "mb" \in alive /\ alive' = alive /\ c \in Thread
      /\ IpcInv /\ mb.entry \in Nat
  BY RingFacts DEF rt_mb_recv, User, Base, MbInv
<1>1. op[c].on = NoObj /\ op[c].pc = "run"
  BY <1>0, AtFacts
<1>2. MbCall(c) = <<"out">>
  BY <1>1 DEF MbCall, NoObj
<1>3. CASE mb.entry > 0
  <2>1. MbRecvNow(c) /\ "run" \in {"run", "wait_return"}
    BY <1>3 DEF rt_mb_recv
  <2> QED BY <1>0, <1>1, <1>2, <1>3, <2>1, MbGetOwn
<1>4. CASE mb.entry = 0
  <2>1. Begin(c, "mb", d, Nil) /\ mb' = mb
    BY <1>4 DEF rt_mb_recv
  <2>2. /\ Sleeps(c, "mb", d) /\ loc' \in LocType
        /\ \A t \in Thread : t = c \/ loc'[t] = loc[t]
        /\ Clock(c)'
    BY <1>0, <2>1, BeginSleeps
  <2>3. MbAbsStep
    <3>1. MbCall(c)' = <<"recv">> /\ MbMails' = MbMails
      BY <2>1, <2>2 DEF MbCall, Blocked, Sleeps, MbMails
    <3>2. \A t \in Thread : t = c \/ (op'[t] = op[t] /\ loc'[t] = loc[t])
      BY <2>2 DEF Sleeps, Kept
    <3>3. MbMails = <<>>
      BY <1>4 DEF MbMails
    <3> QED BY <1>0, <1>2, <3>1, <3>2, <3>3, MbAbsBegin
  <2>4. "mb" \in MbObj /\ "mb" # "mb_sender"
    BY DEF MbObj
  <2> QED BY <1>0, <1>1, <1>4, <2>1, <2>2, <2>3, <2>4, MbSleepOwn
<1> QED BY <1>0, <1>3, <1>4

LEMMA MbSendRetryInv ==
  ASSUME Base, MbInv, NEW c \in User, MbSendRetry(c)
  PROVE  MbStep
<1>0. /\ Retry(c, "mb_sender") /\ alive' = alive /\ c \in Thread /\ IpcInv /\ At(c, "wait_return")
  BY DEF MbSendRetry, User, Base, Retry
<1>1. op[c].on = "mb_sender" /\ op[c].pc = "wait_return" /\ Blocked(c) /\ k.err[c] = "EOK"
  BY <1>0, AtFacts DEF Blocked, Retry
<1>3. "mb_sender" \in alive /\ "mb" \in alive
  BY <1>0, RetryFacts, ObjNames DEF Base, AliveOK, MbObj
<1>4. Clock(c) /\ loc[c].msg \in Msg /\ MbCall(c) = <<"send", loc[c].msg>>
  <2>1. MbLoc(c)
    BY <1>0 DEF MbInv
  <2> QED BY <1>1, <2>1 DEF MbLoc, MbCall, MbObj
<1>5. "mb_sender" \in MbObj /\ "mb_sender" # "mb"
  BY DEF MbObj
<1>6. CASE ~MbFull
  <2>1. MbSendNow(c, loc[c].msg) /\ "wait_return" \in {"run", "wait_return"}
    BY <1>6 DEF MbSendRetry
  <2> QED BY <1>0, <1>1, <1>3, <1>4, <1>6, <2>1, MbPutOwn
<1>7. CASE MbFull /\ Remaining(c) = 0
  <2>1. Leave(c) /\ k' = k /\ mb' = mb
    BY <1>7 DEF MbSendRetry
  <2> QED BY <1>0, <1>3, <1>5, <1>7, <2>1, MbLeaveOwn
<1>8. CASE MbFull /\ Remaining(c) # 0
  <2>1. Again(c) /\ mb' = mb
    BY <1>8 DEF MbSendRetry
  <2>2. /\ \E d : Sleeps(c, "mb_sender", d)
        /\ loc' \in LocType
        /\ \A t \in Thread : t = c \/ loc'[t] = loc[t]
        /\ loc'[c].msg = loc[c].msg /\ Clock(c)'
    BY <1>0, <1>3, <1>4, <2>1, AgainSleeps
  <2>3. PICK d : Sleeps(c, "mb_sender", d)
    BY <2>2
  <2>4. MbAbsStep
    <3>1. MbCall(c)' = MbCall(c) /\ MbMails' = MbMails
      BY <1>4, <2>1, <2>2, <2>3 DEF MbCall, Blocked, Sleeps, MbMails
    <3>2. \A t \in Thread : t = c \/ (op'[t] = op[t] /\ loc'[t] = loc[t])
      BY <2>2, <2>3 DEF Sleeps, Kept
    <3> QED BY <1>0, <3>1, <3>2, MbAbsEnd
  <2> QED BY <1>0, <1>1, <1>3, <1>4, <1>5, <1>8, <2>1, <2>2, <2>3, <2>4, MbSleepOwn
<1> QED BY <1>6, <1>7, <1>8

LEMMA MbRecvRetryInv ==
  ASSUME Base, MbInv, NEW c \in User, MbRecvRetry(c)
  PROVE  MbStep
<1>0. /\ Retry(c, "mb") /\ alive' = alive /\ c \in Thread /\ IpcInv /\ At(c, "wait_return")
      /\ mb.entry \in Nat
  BY RingFacts DEF MbRecvRetry, User, Base, Retry, MbInv
<1>1. op[c].on = "mb" /\ op[c].pc = "wait_return" /\ Blocked(c) /\ k.err[c] = "EOK"
  BY <1>0, AtFacts DEF Blocked, Retry
<1>3. "mb" \in alive
  BY <1>0, RetryFacts, ObjNames
<1>4. Clock(c) /\ MbCall(c) = <<"recv">>
  <2>1. MbLoc(c)
    BY <1>0 DEF MbInv
  <2> QED BY <1>1, <2>1 DEF MbLoc, MbCall, MbObj
<1>5. "mb" \in MbObj /\ "mb" # "mb_sender"
  BY DEF MbObj
<1>6. CASE mb.entry > 0
  <2>1. MbRecvNow(c) /\ "wait_return" \in {"run", "wait_return"}
    BY <1>6 DEF MbRecvRetry
  <2> QED BY <1>0, <1>1, <1>3, <1>4, <1>6, <2>1, MbGetOwn
<1>7. CASE mb.entry = 0 /\ Remaining(c) = 0
  <2>1. Leave(c) /\ k' = k /\ mb' = mb
    BY <1>7 DEF MbRecvRetry
  <2> QED BY <1>0, <1>3, <1>5, <1>7, <2>1, MbLeaveOwn
<1>8. CASE mb.entry = 0 /\ Remaining(c) # 0
  <2>1. Again(c) /\ mb' = mb
    BY <1>8 DEF MbRecvRetry
  <2>2. /\ \E d : Sleeps(c, "mb", d)
        /\ loc' \in LocType
        /\ \A t \in Thread : t = c \/ loc'[t] = loc[t]
        /\ loc'[c].msg = loc[c].msg /\ Clock(c)'
    BY <1>0, <1>3, <1>4, <2>1, AgainSleeps
  <2>3. PICK d : Sleeps(c, "mb", d)
    BY <2>2
  <2>4. MbAbsStep
    <3>1. MbCall(c)' = MbCall(c) /\ MbMails' = MbMails
      BY <1>4, <2>1, <2>2, <2>3 DEF MbCall, Blocked, Sleeps, MbMails
    <3>2. \A t \in Thread : t = c \/ (op'[t] = op[t] /\ loc'[t] = loc[t])
      BY <2>2, <2>3 DEF Sleeps, Kept
    <3> QED BY <1>0, <3>1, <3>2, MbAbsEnd
  <2> QED BY <1>0, <1>1, <1>3, <1>5, <1>8, <2>1, <2>2, <2>3, <2>4, MbSleepOwn
<1> QED BY <1>0, <1>6, <1>7, <1>8

LEMMA MbIsrInv ==
  ASSUME Base, MbInv, MbIsrSend(MsgOf[idle])
  PROVE  MbStep
<1> DEFINE m == MsgOf[idle]
<1>0. "mb" \in alive
  BY DEF MbIsrSend
<1>1. /\ alive = MbObj /\ "mb_sender" \in Obj /\ "mb" \in Obj /\ m \in Msg
      /\ IpcInv /\ DetachInv
  BY <1>0, MbAlive, RetryAssumption, KernelAssumption
<1>2. MbRing /\ MbCount /\ \A t \in Thread : MbLoc(t)
  BY DEF MbInv
<1>3. MbPut(m) /\ mb.entry < MbSize /\ alive' = alive /\ op' = op /\ loc' = loc
      /\ k' = IF Waiters("mb") # <<>> THEN Schedule(IpcListResume(k, "mb")) ELSE k
  <2>1. mb.entry \in 0 .. MbSize /\ MbSize \in Nat
    BY <1>2, RingFacts
  <2> QED BY <2>1 DEF MbIsrSend, MbFull
<1>4. /\ MbRing' /\ mb'.entry = mb.entry + 1
      /\ Len(MbMails) = mb.entry /\ MbMails' = Append(MbMails, m)
  BY <1>1, <1>2, <1>3, PutRing
<1>5. WakeStep({}, "mb")
  BY <1>0, <1>1, <1>3, WakeIsr
<1>6. PICK W : KStep({}, W, "EOK")
  BY <1>5 DEF WakeStep
<1>7. OwnStep(MbObj)
  BY <1>1, <1>3, <1>6, OwnKStep DEF Base
<1>8. MbCount'
  <2>0. {} \subseteq {idle}
    OBVIOUS
  <2>1. /\ Awaited("mb")' => Awaited("mb")
        /\ Awaited("mb_sender")' => Awaited("mb_sender")
        /\ Cardinality(Coming("mb_sender")') >= Cardinality(Coming("mb_sender"))
    BY <1>1, <1>6, <2>0, StepCount
  <2>2. Awaited("mb")' => Cardinality(Coming("mb")') >= Cardinality(Coming("mb")) + 1
    BY <1>1, <1>5, <2>0, WakeCount
  <2>3. \A o \in Obj : Cardinality(Coming(o)) \in Nat /\ Cardinality(Coming(o)') \in Nat
    BY Subsets DEF Coming
  <2>4. mb.entry \in Nat /\ MbSize \in Nat
    BY <1>2, RingFacts
  <2>5. /\ Cardinality(Coming("mb_sender")) \in Nat /\ Cardinality(Coming("mb_sender")') \in Nat
        /\ Cardinality(Coming("mb")) \in Nat /\ Cardinality(Coming("mb")') \in Nat
    BY <1>1, <2>3
  <2> QED BY <1>0, <1>2, <1>4, <2>1, <2>2, <2>4, <2>5 DEF MbCount
<1>9. \A t \in Thread : MbLoc(t)'
  BY <1>2, <1>3, <1>6, KStepThread, MbLocKept
<1>10. MbAbsStep
  BY <1>1, <1>3, <1>4, MbAbsPutIsr
<1> QED BY <1>1, <1>3, <1>4, <1>7, <1>8, <1>9, <1>10 DEF MbStep, MbInv, MbObj

\* Every waiter is told that the mailbox was reset.
LEMMA MbControlInv ==
  ASSUME Base, MbInv, NEW c \in User, rt_mb_control(c)
  PROVE  MbStep
<1>0. /\ At(c, "run") /\ "mb" \in alive /\ alive' = alive /\ loc' = loc /\ mb' = MbEmpty
      /\ Call(c, "sched", NoObj) /\ k' = ResumeAll(ResumeAll(k, "mb"), "mb_sender")
  BY DEF rt_mb_control
<1>1. /\ alive = MbObj /\ "mb_sender" \in Obj /\ "mb" \in Obj /\ c \in Thread
      /\ IpcInv /\ DetachInv
  BY <1>0, MbAlive DEF User
<1>2. op[c].on = NoObj /\ op[c].pc = "run" /\ k.cur = c /\ k.stat[c] = "READY"
  BY <1>0, <1>1, AtFacts
<1> DEFINE W == Range(Waiters("mb")) \cup Range(Waiters("mb_sender"))
<1>3. /\ Resumed(k', {"mb", "mb_sender"}, W, "ERROR")
      /\ k'.list[Wait("mb")] = <<>> /\ k'.list[Wait("mb_sender")] = <<>> /\ k'.cur = k.cur
  <2>1. "mb" # "mb_sender"
    OBVIOUS
  <2> QED BY <1>0, <1>1, <2>1, BothResumed
<1> HIDE DEF W
<1>4. KStep({c}, W, "ERROR") /\ op'[c].pc = "sched" /\ op'[c].on = NoObj
  <2> DEFINE O == {"mb", "mb_sender"}
  <2>1. O \subseteq alive /\ Resumed(k', O, W, "ERROR")
    BY <1>1, <1>3 DEF MbObj
  <2> HIDE DEF O
  <2> QED BY <1>0, <1>1, <1>3, <2>1, SchedCall
<1>5. \A t \in Thread : t = c \/ (op'[t] = op[t] /\ loc'[t] = loc[t])
  BY <1>0, <1>4, KStepThread
<1>6. OwnStep(MbObj)
  <2>1. \A t \in {c} : /\ op[t].on \in alive \cup {NoObj} /\ op'[t].on \in alive \cup {NoObj}
                       /\ op'[t].pc \notin SleepPC \cup HandPC \cup {"mp_time"}
    BY <1>2, <1>4 DEF SleepPC, HandPC
  <2>2. loc' \in LocType
    BY <1>0 DEF Base
  <2> QED BY <1>0, <1>1, <1>4, <2>1, <2>2, OwnKStep
<1>7. MbRing' /\ MbMails' = <<>>
  BY <1>0, MbEmptyRing
<1>8. MbCount'
  <2>1. ~Awaited("mb")' /\ ~Awaited("mb_sender")'
    BY <1>3 DEF Awaited, Linked, Range
  <2> QED BY <2>1 DEF MbCount
<1>9. \A t \in Thread : MbLoc(t)'
  <2>1. ASSUME NEW t \in Thread, t # c PROVE MbLoc(t)'
    BY <1>4, <1>5, <2>1, KStepThread, MbLocKept DEF MbInv
  <2>2. MbLoc(c)'
    BY <1>4 DEF MbLoc, Blocked
  <2> QED BY <2>1, <2>2
<1>10. MbAbsStep
  <2>1. MbCall(c)' = MbCall(c)
    BY <1>2, <1>4 DEF MbCall, NoObj
  <2> QED BY <1>1, <1>5, <1>7, <2>1, MbAbsReset
<1> QED BY <1>0, <1>1, <1>6, <1>7, <1>8, <1>9, <1>10 DEF MbStep, MbInv, MbObj

LEMMA MbInitInv ==
  ASSUME Base, MbInv, NEW c \in User, rt_mb_init(c)
  PROVE  MbStep
<1>1. Create(c, MbObj) /\ mb' = mb
  BY DEF rt_mb_init
<1>2. /\ OwnStep(MbObj) /\ alive = {} /\ alive' = MbObj /\ k' = k /\ op' = op /\ loc' = loc
      /\ \A t \in Thread : op[t].on = NoObj
      /\ \A t \in Thread, o \in Obj : ~Linked(k, t, Wait(o))
  BY <1>1, OwnCreate
<1>3. MbCount'
  BY <1>2, ObjNames DEF MbCount, Awaited
<1>4. \A t \in Thread : MbLoc(t)'
  BY <1>2, ObjNames DEF MbLoc
<1>5. MbAbsStep
  <2>1. MbMails' = MbMails /\ MbCalls' = MbCalls
    BY <1>1, <1>2 DEF MbMails, MbCalls, MbCall, Blocked
  <2> QED BY <2>1, MbStutter
<1> QED BY <1>1, <1>2, <1>3, <1>4, <1>5 DEF MbStep, MbInv, MbRing, MbObj

LEMMA MbDetachInv ==
  ASSUME Base, MbInv, NEW c \in User, rt_mb_detach(c)
  PROVE  MbStep
<1>1. Detach(c, MbObj, "mb") /\ mb' = MbEmpty
  BY DEF rt_mb_detach
<1>2. /\ OwnStep(MbObj) /\ alive = MbObj /\ alive' = {} /\ k' = k /\ loc' = loc
      /\ op[c].pc = "run" /\ op[c].on = NoObj /\ op'[c].pc = "resume_test" /\ op'[c].on = "mb"
      /\ \A t \in Thread \ {c} : op'[t] = op[t]
  <2>1. "mb" \in MbObj /\ MbObj = {"mb", After("mb")} \cap Obj
    BY ObjNames DEF MbObj, After
  <2> QED BY <1>1, <2>1, OwnDetach
<1>3. c \in Thread
  BY DEF User
<1>4. MbRing' /\ MbMails' = <<>>
  BY <1>1, MbEmptyRing
<1>5. \A t \in Thread : MbLoc(t)'
  <2>1. ASSUME NEW t \in Thread, t # c PROVE MbLoc(t)'
    BY <1>2, <2>1, MbLocKept DEF MbInv, Timed
  <2>2. MbLoc(c)'
    BY <1>2 DEF MbLoc, Blocked
  <2> QED BY <2>1, <2>2
<1>6. MbAbsStep
  <2>1. MbCall(c)' = MbCall(c)
    BY <1>2 DEF MbCall, NoObj, Blocked
  <2>2. \A t \in Thread : t = c \/ (op'[t] = op[t] /\ loc'[t] = loc[t])
    BY <1>2
  <2> QED BY <1>3, <1>4, <2>1, <2>2, MbAbsReset
<1> QED BY <1>1, <1>2, <1>4, <1>5, <1>6 DEF MbStep, MbInv, MbCount

LEMMA MbNextInv ==
  ASSUME Base, MbInv, MbNext
  PROVE  MbStep
BY MbRecvInv, MbSendWaitInv, MbSendRetryInv, MbRecvRetryInv, MbControlInv, MbInitInv,
   MbDetachInv, MbIsrInv DEF MbNext

\* A step of another object.
LEMMA MbForeign ==
  ASSUME Base, MbInv, NEW O, OwnStep(O), "mb" \notin O, "mb_sender" \notin O, mb' = mb
  PROVE  MbInv' /\ MbAbsStep
<1>1. "mb" \notin alive /\ "mb" \notin alive'
  BY DEF OwnStep
<1>2. \A t \in Thread : MbLoc(t)'
  <2> SUFFICES ASSUME NEW t \in Thread PROVE MbLoc(t)'
    OBVIOUS
  <2>1. MbLoc(t)
    BY DEF MbInv
  <2>2. CASE Kept(t) /\ loc'[t] = loc[t]
    BY <2>1, <2>2, MbLocKept DEF Kept, SameLinks
  <2>3. CASE op'[t].on \in O \cup {NoObj}
    BY <2>3 DEF MbLoc, MbObj, NoObj
  <2> QED BY <2>2, <2>3 DEF OwnStep
<1>3. MbAbsStep
  <2>1. ASSUME NEW t \in Thread PROVE MbCall(t)' = MbCall(t)
    <3>1. CASE Kept(t) /\ loc'[t] = loc[t]
      BY <3>1, MbCallSame DEF Kept
    <3>2. CASE op[t].on \in O \cup {NoObj} /\ op'[t].on \in O \cup {NoObj}
      BY <3>2 DEF MbCall, NoObj
    <3> QED BY <3>1, <3>2 DEF OwnStep
  <2>2. MbMails' = MbMails /\ MbCalls' = MbCalls
    BY <2>1 DEF MbMails, MbCalls
  <2> QED BY <2>2, MbStutter
<1> QED BY <1>1, <1>2, <1>3 DEF MbInv, MbRing, MbCount

\* A step that belongs to no object is the step of one thread, or of none.
LEMMA RetryOne ==
  ASSUME Base, RetryNext
  PROVE  \/ op' = op /\ loc' = loc
         \/ \E c \in Thread : \A t \in Thread : t = c \/ (op'[t] = op[t] /\ loc'[t] = loc[t])
<1>1. op \in [Thread -> [pc : IpcPC, on : Obj \cup {NoObj}]] /\ loc \in LocType /\ User \subseteq Thread
  BY DEF Base, IpcInv, IpcTypeOK, User
<1>2. CASE op' = op /\ loc' = loc
  BY <1>2
<1>3. CASE \E c \in User : \E r : op' = [op EXCEPT ![c] = r] /\ (loc' = loc \/ loc' = [loc EXCEPT ![c] = Idle])
  BY <1>1, <1>3 DEF LocType
<1>4. (op' = op /\ loc' = loc)
      \/ \E c \in User : \E r : op' = [op EXCEPT ![c] = r] /\ (loc' = loc \/ loc' = [loc EXCEPT ![c] = Idle])
  <2>1. ASSUME NEW c \in User,
               \/ (WaitSchedule(c) \/ ResumeTest(c) \/ ResumeOne(c)) /\ UNCHANGED loc
               \/ SchedReturn(c) /\ loc' = [loc EXCEPT ![c] = Idle]
               \/ WaitError(c)
               \/ CallReturn(c)
        PROVE  \E r : op' = [op EXCEPT ![c] = r] /\ (loc' = loc \/ loc' = [loc EXCEPT ![c] = Idle])
    BY <2>1 DEF WaitSchedule, ResumeTest, ResumeOne, SchedReturn, WaitError, CallReturn, Leave,
                Return, Goto, Call
  <2>2. CASE (rt_tick_increase \/ rt_timer_check) /\ UNCHANGED loc
    BY <2>2 DEF rt_tick_increase, rt_timer_check
  <2> QED BY <2>1, <2>2 DEF RetryNext
<1> QED BY <1>2, <1>3, <1>4

\* A step that belongs to no object.
LEMMA MbAside ==
  ASSUME Base, MbInv, RetryNext, mb' = mb
  PROVE  MbInv' /\ MbAbsStep
<1>1. alive' = alive /\ (\A t \in Thread : Aside(t)) /\ "mb" \in Obj /\ "mb_sender" \in Obj
  BY RetryAside, ObjNames
<1>2. MbCount'
  BY <1>1, AsideCount DEF MbInv, MbCount
<1>3. \A t \in Thread : MbLoc(t)'
  <2> SUFFICES ASSUME NEW t \in Thread PROVE MbLoc(t)'
    OBVIOUS
  <2>1. MbLoc(t) /\ Aside(t)
    BY <1>1 DEF MbInv
  <2>2. CASE op'[t].pc = "run" \/ op'[t].pc \in ResumePC
    BY <2>2 DEF MbLoc, Blocked, ResumePC
  <2>3. CASE op'[t].on = op[t].on /\ loc'[t] = loc[t] /\ (op'[t].pc = op[t].pc \/ (Blocked(t) /\ Blocked(t)'))
    <3>1. Clock(t) => Clock(t)'
      BY <2>1, <2>3, KeptClock DEF Aside
    <3> QED BY <2>1, <2>3, <3>1 DEF MbLoc, Blocked
  <2> QED BY <2>1, <2>2, <2>3 DEF Aside
<1>4. MbMails' = MbMails
  BY DEF MbMails
<1>5. ASSUME NEW t \in Thread PROVE MbCall(t)' \in {<<"out">>, MbCall(t)}
  <2>1. CASE op'[t].pc = "run" /\ op'[t].on = NoObj
    BY <2>1 DEF MbCall, NoObj
  <2>2. CASE op'[t].pc \in ResumePC
    BY <2>2 DEF MbCall, Blocked, ResumePC
  <2>3. CASE op'[t].on = op[t].on /\ loc'[t] = loc[t] /\ (op'[t].pc = op[t].pc \/ (Blocked(t) /\ Blocked(t)'))
    <3>1. (Blocked(t)' <=> Blocked(t)) /\ (Blocked(t) \/ op'[t].pc = op[t].pc)
      BY <2>3 DEF Blocked
    <3> QED BY <2>3, <3>1 DEF MbCall, Blocked
  <2> QED BY <1>1, <2>1, <2>2, <2>3 DEF Aside
<1>6. MbAbsStep
  <2>1. CASE op' = op /\ loc' = loc
    BY <1>4, <2>1, MbStutter DEF MbCalls, MbCall, Blocked
  <2>2. CASE \E c \in Thread : \A t \in Thread : t = c \/ (op'[t] = op[t] /\ loc'[t] = loc[t])
    BY <1>4, <1>5, <2>2, MbAbsEnd
  <2> QED BY <2>1, <2>2, RetryOne
<1> QED BY <1>1, <1>2, <1>3, <1>6 DEF MbInv, MbRing

-----------------------------------------------------------------------------
(* The memory pool *)

\* The threads that wait for a block.
MpWaits == {t \in Thread : Linked(k, t, Wait("mp"))}

MpBlocks ==
  /\ mp \in [list : Seq(MpBlock), free : Nat, susp : Nat]
  /\ IsInjective(mp.list) /\ mp.free = Len(mp.list)

\* A caller that times out stays in suspend_thread_count, which then says that
\* somebody waits when nobody does, but never the opposite.
MpCount ==
  /\ IF "mp" \in alive THEN mp.susp >= Cardinality(MpWaits) ELSE mp.susp = 0
  /\ "mp" \in alive /\ Awaited("mp") => mp.free <= Cardinality(Coming("mp"))

MpInv == MpBlocks /\ MpCount

\* What the count holds beyond the threads that wait is 0 at first, and only a
\* timeout adds to it.
Spare == mp.susp - Cardinality(MpWaits)

MpSpare ==
  "mp" \in alive' =>
    IF "mp" \in alive
    THEN Spare' >= Spare /\ (Spare' > Spare => \E t \in Thread : TimedOut(t))
    ELSE Spare' = 0

MpStep == OwnStep({"mp"}) /\ MpInv' /\ MpSpare

\* The numbers that the steps below reckon with.
LEMMA MpNumbers ==
  ASSUME MpInv
  PROVE  /\ Cardinality(MpWaits) \in Nat /\ mp.susp \in Nat /\ mp.free \in Nat /\ Spare \in Int
         /\ "mp" \in alive => mp.susp >= Cardinality(MpWaits)
         /\ "mp" \notin alive => mp.susp = 0
         /\ Cardinality(Coming("mp")) \in Nat /\ MpBlocks
<1>1. Cardinality(MpWaits) \in Nat /\ Cardinality(Coming("mp")) \in Nat
  BY Subsets DEF MpWaits, Coming
<1>2. mp.susp \in Nat /\ mp.free \in Nat
  BY DEF MpInv, MpBlocks
<1>3. Spare \in Int
  BY <1>1, <1>2 DEF Spare
<1> QED BY <1>1, <1>2, <1>3 DEF MpInv, MpCount

LEMMA MpSpareKept ==
  ASSUME MpInv, "mp" \in alive, Spare' = Spare
  PROVE  MpSpare
<1>1. Spare \in Int
  BY MpNumbers
<1> HIDE DEF Spare
<1> QED BY <1>1 DEF MpSpare

LEMMA MpAlive ==
  ASSUME Base, "mp" \in alive
  PROVE  alive = {"mp"} /\ "mp" \in Obj /\ IpcInv /\ DetachInv /\ IpcTypeOK
<1>1. alive = {"mp"}
  BY DEF Base, AliveOK, MbObj
<1> QED BY <1>1, ObjNames DEF Base, IpcInv

\* An injective sequence is as long as it has elements.
LEMMA InjectiveLength ==
  ASSUME NEW S, NEW s \in Seq(S), IsInjective(s)
  PROVE  IsFiniteSet(Range(s)) /\ Cardinality(Range(s)) = Len(s)
<1>1. Len(s) \in Nat /\ DOMAIN s = 1 .. Len(s) /\ s \in [1 .. Len(s) -> Range(s)]
  BY DEF Range
<1>2. s \in Bijection(1 .. Len(s), Range(s))
  BY <1>1 DEF Bijection, Injection, Surjection, Range, IsInjective
<1>3. ExistsBijection(1 .. Len(s), Range(s))
  BY <1>2 DEF ExistsBijection
<1>4. Cardinality(Range(s)) = Len(s)
  BY <1>1, <1>3, FS_CountingElements
<1>5. IsFiniteSet(Range(s))
  BY <1>1, <1>3, FS_NatBijection
<1> QED BY <1>4, <1>5

LEMMA MpFullBlocks ==
  /\ MpFull \in [list : Seq(MpBlock), free : Nat, susp : Nat]
  /\ IsInjective(MpFull.list) /\ MpFull.free = Len(MpFull.list) /\ MpFull.susp = 0
<1> DEFINE n == Cardinality(MpBlock)
<1>1. IsFiniteSet(MpBlock)
  BY MpAssumption
<1>2. n \in Nat /\ ExistsBijection(1 .. n, MpBlock)
  BY <1>1, FS_CardinalityType
<1>3. PICK f \in Bijection(1 .. n, MpBlock) : TRUE
  BY <1>2 DEF ExistsBijection
<1>4. f \in [1 .. n -> MpBlock] /\ IsInjective(f)
  BY <1>3 DEF Bijection, Injection
<1>5. SetToSeq(MpBlock) \in [1 .. n -> MpBlock] /\ IsInjective(SetToSeq(MpBlock))
  BY <1>4 DEF SetToSeq
<1>6. SetToSeq(MpBlock) \in Seq(MpBlock) /\ Len(SetToSeq(MpBlock)) = n
  BY <1>2, <1>5
<1> QED BY <1>2, <1>5, <1>6 DEF MpFull

\* a block more, a block less
LEMMA MpMore ==
  ASSUME MpBlocks, NEW b \in HandedOut, NEW s \in Nat,
         mp' = [list |-> <<b>> \o mp.list, free |-> mp.free + 1, susp |-> s]
  PROVE  MpBlocks' /\ mp.free \in Nat /\ mp'.free = mp.free + 1 /\ mp'.susp = s
<1>1. b \in MpBlock /\ b \notin Range(mp.list)
  BY DEF HandedOut
<1>2. <<b>> \o mp.list \in Seq(MpBlock) /\ IsInjective(<<b>> \o mp.list)
  BY <1>1, RangePrepend DEF MpBlocks
<1>3. Len(<<b>> \o mp.list) = Len(mp.list) + 1 /\ Len(mp.list) \in Nat
  BY <1>1 DEF MpBlocks
<1> QED BY <1>2, <1>3 DEF MpBlocks

LEMMA MpLess ==
  ASSUME MpBlocks, mp.free # 0, MpTakeBlock
  PROVE  MpBlocks' /\ mp.free \in Nat /\ mp'.free = mp.free - 1 /\ mp'.susp = mp.susp
<1>1. mp.list # <<>> /\ mp.list \in Seq(MpBlock) /\ Len(mp.list) \in Nat /\ mp.free = Len(mp.list)
  BY DEF MpBlocks
<1>2. Tail(mp.list) \in Seq(MpBlock) /\ IsInjective(Tail(mp.list))
      /\ Len(Tail(mp.list)) = Len(mp.list) - 1
  <2>1. \A i \in 1 .. Len(mp.list) - 1 : Tail(mp.list)[i] = mp.list[i + 1]
    BY <1>1
  <2>2. Tail(mp.list) \in Seq(MpBlock) /\ Len(Tail(mp.list)) = Len(mp.list) - 1
    BY <1>1
  <2>3. \A i, j \in 1 .. Len(mp.list) : mp.list[i] = mp.list[j] => i = j
    BY <1>1 DEF MpBlocks, IsInjective
  <2>4. \A i, j \in 1 .. Len(mp.list) - 1 : Tail(mp.list)[i] = Tail(mp.list)[j] => i = j
    <3> SUFFICES ASSUME NEW i \in 1 .. Len(mp.list) - 1, NEW j \in 1 .. Len(mp.list) - 1,
                        Tail(mp.list)[i] = Tail(mp.list)[j]
                 PROVE  i = j
      OBVIOUS
    <3>1. i + 1 \in 1 .. Len(mp.list) /\ j + 1 \in 1 .. Len(mp.list)
      BY <1>1
    <3>2. mp.list[i + 1] = mp.list[j + 1]
      BY <2>1
    <3>3. i + 1 = j + 1
      BY <2>3, <3>1, <3>2
    <3> QED BY <3>3
  <2>5. DOMAIN Tail(mp.list) = 1 .. Len(mp.list) - 1
    BY <2>2
  <2> QED BY <2>2, <2>4, <2>5 DEF IsInjective
<1>3. /\ mp' = [mp EXCEPT !.free = mp.free - 1, !.list = Tail(mp.list)]
      /\ mp \in [list : Seq(MpBlock), free : Nat, susp : Nat] /\ mp.free - 1 \in Nat
  BY <1>1 DEF MpTakeBlock, MpBlocks
<1> QED BY <1>1, <1>2, <1>3 DEF MpBlocks

LEMMA MpWaitsLess ==
  ASSUME IpcTypeOK, NEW A, NEW W, NEW e, KStep(A, W, e), \A t \in W : t \in MpWaits
  PROVE  MpWaits' = MpWaits \ W
<1>1. "mp" \in Obj
  BY ObjNames
<1>2. ASSUME NEW t \in Thread
      PROVE  Linked(k', t, Wait("mp")) <=> Linked(k, t, Wait("mp")) /\ t \notin W
  BY <1>1, <1>2 DEF KStep, Kept, SameLinks, Roused
<1> QED BY <1>2 DEF MpWaits

LEMMA MpWaitsMore ==
  ASSUME NEW c \in Thread, NEW d, Sleeps(c, "mp", d), ~Linked(k, c, Wait("mp"))
  PROVE  Cardinality(MpWaits') = Cardinality(MpWaits) + 1
<1>1. "mp" \in Obj
  BY ObjNames
<1>2. ASSUME NEW t \in Thread
      PROVE  Linked(k', t, Wait("mp")) <=> Linked(k, t, Wait("mp")) \/ t = c
  BY <1>1, <1>2 DEF Sleeps, Kept, SameLinks
<1>3. MpWaits' = MpWaits \cup {c} /\ c \notin MpWaits /\ MpWaits \subseteq Thread
  BY <1>2 DEF MpWaits
<1> QED BY <1>3, Subsets

LEMMA MpWaitsCount ==
  /\ Cardinality(MpWaits) \in Nat
  /\ Cardinality(MpWaits) = 0 <=> \A t \in Thread : ~Linked(k, t, Wait("mp"))
  /\ \A t \in Thread : Linked(k, t, Wait("mp")) => Cardinality(MpWaits \ {t}) = Cardinality(MpWaits) - 1
<1>1. MpWaits \subseteq Thread
  BY DEF MpWaits
<1>2. IsFiniteSet(MpWaits) /\ Cardinality(MpWaits) \in Nat
      /\ \A t \in MpWaits : Cardinality(MpWaits \ {t}) = Cardinality(MpWaits) - 1
  BY <1>1, Subsets
<1>3. Cardinality(MpWaits) = 0 <=> MpWaits = {}
  BY <1>2, FS_EmptySet
<1> QED BY <1>2, <1>3 DEF MpWaits

\* A block comes back: the first who waits for one is roused.
LEMMA MpFreedCount ==
  ASSUME Base, MpInv, "mp" \in alive, alive' = alive, NEW b \in HandedOut, mp' = MpFreed(b).mp,
         NEW A, NEW c, A \subseteq {c}, c \notin Coming("mp") \/ A = {},
         IF MpFreed(b).wake THEN WakeStep(A, "mp") /\ Waiters("mp") # <<>>
         ELSE \E W, e : KStep(A, W, e) /\ W = {}
  PROVE  MpBlocks' /\ MpCount' /\ Spare' = Spare
<1>0. IpcTypeOK /\ "mp" \in Obj /\ IpcInv
  BY MpAlive
<1>1. /\ mp.susp >= Cardinality(MpWaits) /\ Cardinality(MpWaits) \in Nat /\ mp.susp \in Nat
      /\ MpBlocks /\ "mp" \in alive'
  BY MpNumbers
<1>2. Cardinality(Coming("mp")) \in Nat /\ Cardinality(Coming("mp")') \in Nat
  BY Subsets DEF Coming
<1>3. CASE mp.susp > 0
  <2>0. MpFreed(b).wake
    BY <1>3 DEF MpFreed
  <2>1. WakeStep(A, "mp") /\ Waiters("mp") # <<>>
    BY <2>0
  <2>2. PICK t \in Thread : KStep(A, {t}, "EOK") /\ Linked(k, t, Wait("mp"))
    BY <1>0, <2>1, NoWaiters DEF WakeStep
  <2>3. MpWaits' = MpWaits \ {t}
    BY <1>0, <2>2, MpWaitsLess DEF MpWaits
  <2>4. Cardinality(MpWaits') = Cardinality(MpWaits) - 1
    BY <2>2, <2>3, MpWaitsCount
  <2>5. mp.susp - 1 \in Nat /\ mp' = [list |-> <<b>> \o mp.list, free |-> mp.free + 1, susp |-> mp.susp - 1]
    <3>1. mp.susp - 1 \in Nat
      BY <1>1, <1>3
    <3>2. mp' = [list |-> <<b>> \o mp.list, free |-> mp.free + 1, susp |-> mp.susp - 1]
      BY <1>3 DEF MpFreed
    <3> QED BY <3>1, <3>2
  <2>6. MpBlocks' /\ mp.free \in Nat /\ mp'.free = mp.free + 1 /\ mp'.susp = mp.susp - 1
    BY <1>1, <2>5, MpMore
  <2>7. Awaited("mp")' => Cardinality(Coming("mp")') >= Cardinality(Coming("mp")) + 1
    BY <1>0, <2>1, WakeCount
  <2>8. Awaited("mp") => mp.free <= Cardinality(Coming("mp"))
    BY DEF MpInv, MpCount
  <2>9. Awaited("mp")
    BY <2>2 DEF Awaited
  <2>10. Spare' = Spare
    BY <1>1, <2>4, <2>6 DEF Spare
  <2> QED BY <1>1, <1>2, <2>4, <2>6, <2>7, <2>8, <2>9, <2>10 DEF MpCount
<1>4. CASE mp.susp = 0
  <2>0. ~MpFreed(b).wake /\ mp' = [list |-> <<b>> \o mp.list, free |-> mp.free + 1, susp |-> 0]
    <3>1. ~(mp.susp > 0)
      BY <1>4
    <3>2. /\ MpFreed(b).wake = (mp.susp > 0)
          /\ MpFreed(b).mp = [list |-> <<b>> \o mp.list, free |-> mp.free + 1,
                              susp |-> IF mp.susp > 0 THEN mp.susp - 1 ELSE mp.susp]
      BY Zenon DEF MpFreed
    <3> QED BY <1>4, <3>1, <3>2
  <2>1. PICK e : KStep(A, {}, e)
    BY <2>0
  <2>2. MpWaits' = MpWaits
    <3>1. \A t \in {} : t \in MpWaits
      OBVIOUS
    <3>2. MpWaits' = MpWaits \ {}
      BY <1>0, <2>1, <3>1, MpWaitsLess
    <3> QED BY <3>2
  <2>3. Cardinality(MpWaits) = 0 /\ \A t \in Thread : ~Linked(k, t, Wait("mp"))
    <3>1. Cardinality(MpWaits) = 0
      BY <1>1, <1>4
    <3> QED BY <3>1, MpWaitsCount
  <2>4. ~Awaited("mp")'
    <3>1. Awaited("mp")' => \E t \in Thread : t \in MpWaits'
      BY DEF Awaited, MpWaits
    <3> QED BY <2>2, <2>3, <3>1 DEF MpWaits
  <2>5. MpBlocks' /\ mp'.susp = 0
    BY <1>1, <2>0, MpMore
  <2> QED BY <1>1, <1>4, <2>2, <2>3, <2>4, <2>5 DEF MpCount, Spare
<1> QED BY <1>1, <1>3, <1>4

LEMMA MpSuspendInv ==
  ASSUME Base, MpInv, NEW c \in User, "mp" \in alive, alive' = alive, mp.free = 0,
         k.cur = c, k.stat[c] = "READY", op[c].on \in {NoObj, "mp"},
         NEW d \in {-1} \cup 0 .. Half - 1, d > 0 => d \in Nat, MpSuspend(c, d)
  PROVE  MpStep
<1>0. /\ alive = {"mp"} /\ IpcInv /\ DetachInv /\ c \in Thread
      /\ mp' = [mp EXCEPT !.susp = mp.susp + 1]
      /\ loc' = [loc EXCEPT ![c] = [Idle EXCEPT !.left = d, !.from = StartTick(d)]]
  BY MpAlive DEF MpSuspend, User
<1>1. Sleeps(c, "mp", d)
  BY <1>0, MpSleeps
<1>2. /\ loc' \in LocType /\ loc'[c].left = d
      /\ \A t \in Thread : t = c \/ loc'[t] = loc[t]
  <2>1. StartTick(d) \in Tick
    <3>1. TickMod \in Nat /\ TickMod >= 5 /\ k.tick \in Tick
      BY <1>0, KernelAssumption DEF IpcInv, IpcTypeOK, KState
    <3> QED BY <3>1 DEF StartTick, Tick
  <2>2. [Idle EXCEPT !.left = d, !.from = StartTick(d)] \in LocRec
        /\ [Idle EXCEPT !.left = d, !.from = StartTick(d)].left = d
    BY <2>1, IdleType DEF LocRec, Idle
  <2> QED BY <1>0, <2>2 DEF Base, LocType
<1>3. OwnStep({"mp"})
  BY <1>0, <1>1, <1>2, OwnSleeps
<1>4. MpBlocks' /\ MpCount' /\ Spare' = Spare
  <2>1. ~Linked(k, c, Wait("mp")) /\ "mp" \in Obj
    BY <1>0, ReadyFacts, ObjNames
  <2>2. Cardinality(MpWaits') = Cardinality(MpWaits) + 1
    BY <1>0, <1>1, <2>1, MpWaitsMore
  <2>3. /\ mp.susp >= Cardinality(MpWaits) /\ Cardinality(MpWaits) \in Nat
        /\ MpBlocks /\ mp.susp \in Nat
    BY MpNumbers
  <2>4. MpBlocks' /\ mp'.susp = mp.susp + 1 /\ mp'.free = 0
    BY <1>0, <2>3 DEF MpBlocks
  <2>5. Cardinality(Coming("mp")') \in Nat
    BY Subsets DEF Coming
  <2> QED BY <1>0, <2>2, <2>3, <2>4, <2>5 DEF MpCount, Spare
<1> QED BY <1>3, <1>4, MpSpareKept DEF MpStep, MpInv

\* The step of c, or of nobody, that takes a block and rouses nobody.
LEMMA MpTakeInv ==
  ASSUME Base, MpInv, "mp" \in alive, alive' = alive, mp.free # 0, MpTakeBlock,
         NEW A, NEW c \in Thread, A \subseteq {c}, NEW e, KStep(A, {}, e)
  PROVE  MpBlocks' /\ MpCount' /\ Spare' = Spare
<1>0. IpcTypeOK /\ "mp" \in Obj
  BY MpAlive
<1>1. /\ mp.susp >= Cardinality(MpWaits) /\ Cardinality(MpWaits) \in Nat /\ mp.susp \in Nat
      /\ MpBlocks /\ "mp" \in alive'
  BY MpNumbers
<1>2. Cardinality(Coming("mp")) \in Nat /\ Cardinality(Coming("mp")') \in Nat
  BY Subsets DEF Coming
<1>3. MpWaits' = MpWaits
  <2>1. \A t \in {} : t \in MpWaits
    OBVIOUS
  <2>2. MpWaits' = MpWaits \ {}
    BY <1>0, <2>1, MpWaitsLess
  <2> QED BY <2>2
<1>4. MpBlocks' /\ mp.free \in Nat /\ mp'.free = mp.free - 1 /\ mp'.susp = mp.susp
  BY <1>1, MpLess
<1>5. (Awaited("mp")' => Awaited("mp"))
      /\ Cardinality(Coming("mp")') >= Cardinality(Coming("mp")) - 1
  BY <1>0, StepCount
<1>6. Awaited("mp") => mp.free <= Cardinality(Coming("mp"))
  BY DEF MpInv, MpCount
<1> QED BY <1>1, <1>2, <1>3, <1>4, <1>5, <1>6 DEF MpCount, Spare

LEMMA PoolTimes ==
  ASSUME NEW d \in PoolTime \cup {0}
  PROVE  d \in {-1} \cup 0 .. Half - 1 /\ (d > 0 => d \in Nat)
<1>1. PoolTime \subseteq {-1} \cup 1 .. Half - 1
  BY MpAssumption, IpcAssumption
<1>2. Half \in Nat /\ Half >= 1
  <2>1. TickMod \in Nat /\ TickMod >= 5
    BY KernelAssumption
  <2> QED BY <2>1 DEF Half
<1>3. d \in {-1} \cup 0 .. Half - 1
  BY <1>1, <1>2
<1> HIDE DEF Half
<1> QED BY <1>2, <1>3

LEMMA MpAllocInv ==
  ASSUME Base, MpInv, NEW c \in User, NEW d \in PoolTime \cup {0},
         rt_mp_alloc(c, d)
  PROVE  MpStep
<1>0. At(c, "run") /\ "mp" \in alive /\ alive' = alive
  BY DEF rt_mp_alloc
<1>1. /\ alive = {"mp"} /\ c \in Thread /\ IpcInv /\ DetachInv
      /\ op[c].on = NoObj /\ k.cur = c /\ k.stat[c] = "READY"
  BY <1>0, MpAlive, AtFacts DEF User
<1>2. CASE mp.free = 0
  <2>1. MpSuspend(c, d)
    BY <1>2 DEF rt_mp_alloc
  <2>2. d \in {-1} \cup 0 .. Half - 1 /\ (d > 0 => d \in Nat)
    BY PoolTimes
  <2> QED BY <1>0, <1>1, <1>2, <2>1, <2>2, MpSuspendInv
<1>3. CASE mp.free # 0
  <2>0. MpTakeBlock /\ k' = k /\ op' = op /\ loc' = loc
    BY <1>3 DEF rt_mp_alloc
  <2>1. KStep({}, {}, "EOK")
    BY <1>0, <1>1, <2>0, NoStep
  <2>2. OwnStep({"mp"})
    BY <1>0, <1>1, <2>0, <2>1, OwnKStep DEF Base
  <2>4. MpBlocks' /\ MpCount' /\ Spare' = Spare
    <3>1. {} \subseteq {c}
      OBVIOUS
    <3> QED BY <1>0, <1>1, <1>3, <2>0, <2>1, <3>1, MpTakeInv
  <2> QED BY <1>0, <2>2, <2>4, MpSpareKept DEF MpStep, MpInv
<1> QED BY <1>2, <1>3

LEMMA MpTimeInv ==
  ASSUME Base, MpInv, NEW c \in User, MpTime(c)
  PROVE  MpStep
<1>0. /\ Retry(c, "mp") /\ loc' = [loc EXCEPT ![c].left = Remaining(c)] /\ Goto(c, "mp_time")
      /\ k' = k /\ alive' = alive /\ mp' = mp
  BY DEF MpTime
<1>1. /\ c \in Thread /\ IpcInv /\ DetachInv /\ IpcTypeOK /\ At(c, "wait_return") /\ op[c].on = "mp"
      /\ Blocked(c) /\ Woken(c) /\ "mp" \in alive /\ "mp" \in Obj
  BY <1>0, RetryFacts, ObjNames
<1>2. alive = {"mp"}
  BY <1>1, MpAlive
<1>4. Remaining(c) \in {-1} \cup 0 .. Half - 1
  BY <1>1, RemainingFacts
<1>5. /\ loc' \in LocType
      /\ \A t \in Thread : t = c \/ loc'[t] = loc[t]
  <2> DEFINE d == Remaining(c)
  <2>1. loc[c] \in LocRec /\ loc' = [loc EXCEPT ![c] = [loc[c] EXCEPT !.left = d]]
    BY <1>0, <1>1 DEF Base, LocType
  <2>2. d \in {-1} \cup 0 .. Half - 1
    BY <1>4
  <2>3. [loc[c] EXCEPT !.left = d] \in LocRec /\ [loc[c] EXCEPT !.left = d].left = d
    BY <2>1, <2>2 DEF LocRec
  <2> QED BY <1>1, <1>4, <2>1, <2>3 DEF Base, LocType
<1>6. KStep({c}, {}, "EOK") /\ op'[c].pc = "mp_time" /\ op'[c].on = "mp"
  <2>1. Call(c, "mp_time", "mp")
    BY <1>0, <1>1, GotoCall
  <2>2. "mp_time" \in IpcPC \ (WaitPC \cup ResumePC \cup {"assert"}) /\ "mp" \in Obj \cup {NoObj}
    BY <1>1 DEF IpcPC, WaitPC, ResumePC
  <2> QED BY <1>0, <1>1, <2>1, <2>2, QuietStep
<1>7. Woken(c)'
  BY <1>0, <1>1, <1>6 DEF Woken
<1>8. OwnStep({"mp"})
  <2>1. \A t \in {c} : /\ op[t].on \in alive \cup {NoObj} /\ op'[t].on \in alive \cup {NoObj}
                       /\ op'[t].pc \notin SleepPC
                       /\ op'[t].pc \in HandPC => op'[t].on = "mq"
                       /\ op'[t].pc = "mp_time" => op'[t].on = "mp" /\ Woken(t)'
    BY <1>1, <1>2, <1>6, <1>7 DEF SleepPC, HandPC
  <2> DEFINE O == {"mp"}
  <2>2. alive \subseteq O /\ alive' = alive /\ loc' \in LocType
    BY <1>0, <1>2, <1>5
  <2>3. \A t \in Thread : t \in {c} \/ loc'[t] = loc[t]
    BY <1>5
  <2> HIDE DEF O
  <2>4. OwnStep(O)
    BY <1>6, <2>1, <2>2, <2>3, OwnKStep
  <2> QED BY <2>4 DEF O
<1>9. MpBlocks' /\ MpCount' /\ Spare' = Spare
  <2>1. Cardinality(Coming("mp")') >= Cardinality(Coming("mp")) /\ (Awaited("mp")' => Awaited("mp"))
    <3>1. c \in Coming("mp")'
      BY <1>1, <1>6, <1>7 DEF Coming
    <3>2. {c} \subseteq {c}
      OBVIOUS
    <3> QED BY <1>1, <1>6, <3>1, <3>2, StepCount
  <2>2. MpBlocks' /\ MpWaits' = MpWaits
    BY <1>0 DEF MpInv, MpBlocks, MpWaits
  <2>3. Cardinality(Coming("mp")') \in Nat /\ Cardinality(Coming("mp")) \in Nat
    BY Subsets DEF Coming
  <2>4. mp.free \in Nat
    BY DEF MpInv, MpBlocks
  <2> QED BY <1>0, <2>1, <2>2, <2>3, <2>4 DEF MpInv, MpCount, Spare
<1> QED BY <1>1, <1>8, <1>9, MpSpareKept DEF MpStep, MpInv

LEMMA MpRetryInv ==
  ASSUME Base, MpInv, NEW c \in User, MpRetry(c)
  PROVE  MpStep
<1>0. At(c, "mp_time") /\ alive' = alive /\ c \in Thread /\ c \in {c}
  BY DEF MpRetry, User
<1>1. /\ IpcInv /\ DetachInv /\ IpcTypeOK /\ op[c].pc = "mp_time" /\ k.cur = c /\ k.stat[c] = "READY"
      /\ op[c].on \in Obj \cup {NoObj}
  BY <1>0, AtFacts DEF Base, IpcInv
<1>2. op[c].on = "mp" /\ Woken(c) /\ "mp" \in alive
  BY <1>0, <1>1, ObjNames DEF Base, CallOK, ResumePC, Blocked
<1>3. alive = {"mp"}
  BY <1>2, MpAlive
<1>4. /\ loc[c].left \in {-1} \cup 0 .. Half - 1 /\ (loc[c].left > 0 => loc[c].left \in Nat)
  <2>1. loc[c].left \in {-1} \cup 0 .. Half - 1
    BY <1>0 DEF Base, LocType, LocRec
  <2>2. Half \in Nat
    <3>1. TickMod \in Nat /\ TickMod >= 5
      BY KernelAssumption
    <3> QED BY <3>1 DEF Half
  <2> HIDE DEF Half
  <2> QED BY <2>1, <2>2
<1>5. CASE mp.free > 0
  <2>0. MpTakeBlock /\ Leave(c) /\ k' = k /\ mp.free # 0
    BY <1>5 DEF MpRetry
  <2>2. KStep({c}, {}, "EOK") /\ op'[c].pc = "run" /\ op'[c].on = NoObj
    BY <1>0, <2>0, LeaveQuiet
  <2>3. loc' \in LocType /\ \A t \in Thread : t \in {c} \/ loc'[t] = loc[t]
    BY <1>0, <2>0, LeaveQuiet
  <2>4. OwnStep({"mp"})
    <3>1. \A t \in {c} : /\ op[t].on \in alive \cup {NoObj} /\ op'[t].on \in alive \cup {NoObj}
                         /\ op'[t].pc \notin SleepPC
                         /\ op'[t].pc \in HandPC => op'[t].on = "mq"
                         /\ op'[t].pc = "mp_time" => op'[t].on = "mp" /\ Woken(t)'
      BY <1>2, <2>2 DEF SleepPC, HandPC
    <3> DEFINE O == {"mp"}
    <3>2. alive \subseteq O
      BY <1>3
    <3> HIDE DEF O
    <3>3. OwnStep(O)
      BY <1>0, <2>2, <2>3, <3>1, <3>2, OwnKStep
    <3> QED BY <3>3 DEF O
  <2>5. MpBlocks' /\ MpCount' /\ Spare' = Spare
    <3>1. {c} \subseteq {c}
      OBVIOUS
    <3> QED BY <1>0, <1>2, <2>0, <2>2, <3>1, MpTakeInv
  <2> QED BY <1>2, <2>4, <2>5, MpSpareKept DEF MpStep, MpInv
<1>6. CASE ~(mp.free > 0) /\ loc[c].left # 0
  <2>1. MpSuspend(c, loc[c].left)
    BY <1>6 DEF MpRetry
  <2>2. mp.free = 0
    BY <1>6 DEF MpInv, MpBlocks
  <2> QED BY <1>0, <1>1, <1>2, <1>4, <2>1, <2>2, MpSuspendInv
<1>7. CASE ~(mp.free > 0) /\ loc[c].left = 0
  <2>0. Leave(c) /\ k' = k /\ mp' = mp /\ mp.free = 0
    BY <1>7 DEF MpRetry, MpInv, MpBlocks
  <2>2. KStep({c}, {}, "EOK") /\ op'[c].pc = "run" /\ op'[c].on = NoObj
    BY <1>0, <2>0, LeaveQuiet
  <2>3. loc' \in LocType /\ \A t \in Thread : t \in {c} \/ loc'[t] = loc[t]
    BY <1>0, <2>0, LeaveQuiet
  <2>4. OwnStep({"mp"})
    <3>1. \A t \in {c} : /\ op[t].on \in alive \cup {NoObj} /\ op'[t].on \in alive \cup {NoObj}
                         /\ op'[t].pc \notin SleepPC
                         /\ op'[t].pc \in HandPC => op'[t].on = "mq"
                         /\ op'[t].pc = "mp_time" => op'[t].on = "mp" /\ Woken(t)'
      BY <1>2, <2>2 DEF SleepPC, HandPC
    <3> DEFINE O == {"mp"}
    <3>2. alive \subseteq O
      BY <1>3
    <3> HIDE DEF O
    <3>3. OwnStep(O)
      BY <1>0, <2>2, <2>3, <3>1, <3>2, OwnKStep
    <3> QED BY <3>3 DEF O
  <2>5. MpBlocks' /\ MpCount' /\ Spare' = Spare
    <3>1. MpBlocks' /\ MpWaits' = MpWaits
      BY <2>0 DEF MpInv, MpBlocks, MpWaits
    <3>2. Cardinality(Coming("mp")') \in Nat
      BY Subsets DEF Coming
    <3> QED BY <1>0, <2>0, <3>1, <3>2 DEF MpInv, MpCount, Spare
  <2> QED BY <1>2, <2>4, <2>5, MpSpareKept DEF MpStep, MpInv
<1> QED BY <1>5, <1>6, <1>7

\* The caller may stop at the assertion of rt_thread_resume, with the count as it
\* was.
LEMMA MpFreeInv ==
  ASSUME Base, MpInv, NEW c \in User, NEW b \in MpBlock, rt_mp_free(c, b)
  PROVE  MpStep
<1>0. /\ At(c, "run") /\ "mp" \in alive /\ b \in HandedOut /\ alive' = alive /\ loc' = loc
      /\ c \in Thread
  BY DEF rt_mp_free, User
<1>1. /\ alive = {"mp"} /\ IpcInv /\ DetachInv /\ IpcTypeOK /\ "mp" \in Obj
      /\ op[c].on = NoObj /\ op[c].pc = "run"
  BY <1>0, MpAlive, AtFacts
<1>2. c \notin Coming("mp")
  BY <1>1, ObjNames DEF Coming
<1>3. CASE ~MpFreed(b).wake
  <2>0. k' = k /\ op' = op /\ mp' = MpFreed(b).mp
    BY <1>3 DEF rt_mp_free
  <2>1. KStep({}, {}, "EOK")
    BY <1>0, <1>1, <2>0, NoStep
  <2>2. OwnStep({"mp"})
    BY <1>0, <1>1, <2>0, <2>1, OwnKStep DEF Base
  <2>3. MpBlocks' /\ MpCount' /\ Spare' = Spare
    <3>1. {} \subseteq {c} /\ \E W, e : KStep({}, W, e) /\ W = {}
      BY <2>1
    <3> QED BY <1>0, <1>2, <1>3, <2>0, <3>1, MpFreedCount
  <2> QED BY <1>0, <2>2, <2>3, MpSpareKept DEF MpStep, MpInv
<1>4. CASE MpFreed(b).wake /\ Waiters("mp") = <<>>
  <2>0. Goto(c, "mp_assert") /\ k' = k
    BY <1>4 DEF rt_mp_free
  <2>1. mp.susp \in Nat
    BY DEF MpInv, MpBlocks
  <2>2. Cardinality(MpWaits) = 0 /\ MpWaits' = MpWaits /\ ~Awaited("mp")'
    <3>1. \A t \in Thread : ~Linked(k, t, Wait("mp"))
      BY <1>1, <1>4, NoWaiters
    <3>2. Cardinality(MpWaits) = 0
      BY <3>1, MpWaitsCount
    <3> QED BY <2>0, <3>1, <3>2 DEF MpWaits, Awaited
  <2>4. KStep({c}, {}, "EOK") /\ op'[c].pc = "mp_assert" /\ op'[c].on = NoObj
    <3>1. Call(c, "mp_assert", NoObj)
      BY <1>0, <1>1, <2>0, GotoCall
    <3>2. /\ "mp_assert" \in IpcPC \ (WaitPC \cup ResumePC \cup {"assert"})
          /\ NoObj \in Obj \cup {NoObj} /\ "run" \notin {"wait_sched", "sleep_sched"}
      BY DEF IpcPC, WaitPC, ResumePC
    <3> DEFINE pc == "mp_assert"
               from == "run"
               o == NoObj
    <3>3. /\ At(c, from) /\ from \notin {"wait_sched", "sleep_sched"} /\ o \in Obj \cup {NoObj}
          /\ pc \in IpcPC \ (WaitPC \cup ResumePC \cup {"assert"}) /\ (pc = "run" => o = NoObj)
          /\ Call(c, pc, o)
      BY <1>0, <3>1, <3>2
    <3> HIDE DEF pc, from, o
    <3>4. IpcInv /\ DetachInv /\ k' = k /\ alive' = alive
      BY <1>0, <1>1, <2>0
    <3>5. KStep({c}, {}, "EOK") /\ op'[c].pc = pc /\ op'[c].on = o
      BY <3>3, <3>4, QuietStep
    <3> QED BY <3>5 DEF pc, o
  <2>5. OwnStep({"mp"})
    <3>1. \A t \in {c} : /\ op[t].on \in alive \cup {NoObj} /\ op'[t].on \in alive \cup {NoObj}
                         /\ op'[t].pc \notin SleepPC
                         /\ op'[t].pc \in HandPC => op'[t].on = "mq"
                         /\ op'[t].pc = "mp_time" => op'[t].on = "mp" /\ Woken(t)'
      BY <1>1, <2>4 DEF SleepPC, HandPC
    <3> DEFINE O == {"mp"}
    <3>2. alive \subseteq O /\ loc' \in LocType
      BY <1>0, <1>1 DEF Base
    <3>3. \A t \in Thread : t \in {c} \/ loc'[t] = loc[t]
      BY <1>0
    <3> HIDE DEF O
    <3>4. OwnStep(O)
      BY <1>0, <2>4, <3>1, <3>2, <3>3, OwnKStep
    <3> QED BY <3>4 DEF O
  <2>6. MpBlocks' /\ mp'.susp = mp.susp
    <3>1. mp' = [list |-> <<b>> \o mp.list, free |-> mp.free + 1, susp |-> mp.susp]
      BY <1>4 DEF rt_mp_free, MpFreed
    <3>2. MpBlocks
      BY DEF MpInv
    <3> QED BY <1>0, <2>1, <3>1, <3>2, MpMore
  <2>7. MpCount' /\ Spare' = Spare
    BY <1>0, <2>1, <2>2, <2>6 DEF MpCount, Spare
  <2> QED BY <1>0, <2>5, <2>6, <2>7, MpSpareKept DEF MpStep, MpInv
<1>5. CASE MpFreed(b).wake /\ Waiters("mp") # <<>>
  <2>0. Waiters("mp") # <<>>
    BY <1>5
  <2>1. k' = IpcListResume(k, "mp") /\ Call(c, "sched", NoObj) /\ mp' = MpFreed(b).mp
    BY <1>5, <2>0 DEF rt_mp_free
  <2> DEFINE w == Head(Waiters("mp"))
  <2>2. Resumed(k', {"mp"}, {w}, "EOK") /\ w \in Thread /\ Linked(k, w, Wait("mp")) /\ k'.cur = k.cur
    BY <1>1, <2>0, <2>1, HeadResumed
  <2> HIDE DEF w
  <2>3. KStep({c}, {w}, "EOK") /\ op'[c].pc = "sched" /\ op'[c].on = NoObj
    <3> DEFINE O == {"mp"}
               W == {w}
    <3>1. O \subseteq alive /\ Resumed(k', O, W, "EOK")
      BY <1>0, <2>2
    <3> HIDE DEF O, W
    <3>2. KStep({c}, W, "EOK") /\ op'[c].pc = "sched" /\ op'[c].on = NoObj
      BY <1>0, <1>1, <2>1, <2>2, <3>1, SchedCall
    <3> QED BY <3>2 DEF W
  <2>4. WakeStep({c}, "mp")
    BY <2>2, <2>3 DEF WakeStep
  <2>5. OwnStep({"mp"})
    <3>1. \A t \in {c} : /\ op[t].on \in alive \cup {NoObj} /\ op'[t].on \in alive \cup {NoObj}
                         /\ op'[t].pc \notin SleepPC
                         /\ op'[t].pc \in HandPC => op'[t].on = "mq"
                         /\ op'[t].pc = "mp_time" => op'[t].on = "mp" /\ Woken(t)'
      BY <1>1, <2>3 DEF SleepPC, HandPC
    <3> DEFINE O == {"mp"}
               W == {w}
    <3>2. alive \subseteq O /\ loc' \in LocType /\ KStep({c}, W, "EOK")
      BY <1>0, <1>1, <2>3 DEF Base
    <3>3. \A t \in Thread : t \in {c} \/ loc'[t] = loc[t]
      BY <1>0
    <3> HIDE DEF O, W
    <3>4. OwnStep(O)
      BY <1>0, <3>1, <3>2, <3>3, OwnKStep
    <3> QED BY <3>4 DEF O
  <2>6. MpBlocks' /\ MpCount' /\ Spare' = Spare
    <3>1. {c} \subseteq {c}
      OBVIOUS
    <3> QED BY <1>0, <1>2, <1>5, <2>0, <2>1, <2>4, <3>1, MpFreedCount
  <2> QED BY <1>0, <2>5, <2>6, MpSpareKept DEF MpStep, MpInv
<1> QED BY <1>3, <1>4, <1>5

LEMMA MpIsrInv ==
  ASSUME Base, MpInv, NEW b \in MpBlock, MpIsrFree(b)
  PROVE  MpStep
<1>0. /\ "mp" \in alive /\ b \in HandedOut /\ alive' = alive /\ loc' = loc /\ op' = op
      /\ mp' = MpFreed(b).mp /\ (MpFreed(b).wake => Waiters("mp") # <<>>)
      /\ k' = IF MpFreed(b).wake THEN Schedule(IpcListResume(k, "mp")) ELSE k
  BY DEF MpIsrFree
<1>1. alive = {"mp"} /\ IpcInv /\ DetachInv /\ IpcTypeOK /\ "mp" \in Obj
  BY <1>0, MpAlive
<1>2. MpFreed(b).wake => Waiters("mp") # <<>>
  BY <1>0
<1>3. /\ MpFreed(b).wake => WakeStep({}, "mp") /\ Waiters("mp") # <<>>
      /\ ~MpFreed(b).wake => \E W, e : KStep({}, W, e) /\ W = {}
      /\ \E W, e : KStep({}, W, e)
  <2>1. CASE MpFreed(b).wake
    <3>1. k' = IF Waiters("mp") # <<>> THEN Schedule(IpcListResume(k, "mp")) ELSE k
      BY <1>0, <1>2, <2>1
    <3>2. WakeStep({}, "mp")
      BY <1>0, <1>1, <3>1, WakeIsr
    <3> QED BY <1>2, <2>1, <3>2 DEF WakeStep
  <2>2. CASE ~MpFreed(b).wake
    <3>1. KStep({}, {}, "EOK")
      BY <1>0, <1>1, <2>2, NoStep
    <3> QED BY <2>2, <3>1
  <2> QED BY <2>1, <2>2
<1>4. PICK W, e : KStep({}, W, e)
  BY <1>3
<1>5. OwnStep({"mp"})
  BY <1>0, <1>1, <1>4, OwnKStep DEF Base
<1>6. MpBlocks' /\ MpCount' /\ Spare' = Spare
  <2> DEFINE A == {}
  <2>1. A \subseteq {idle} /\ A = {}
    OBVIOUS
  <2>2. IF MpFreed(b).wake THEN WakeStep(A, "mp") /\ Waiters("mp") # <<>>
        ELSE \E V, x : KStep(A, V, x) /\ V = {}
    BY <1>3
  <2> HIDE DEF A
  <2>3. (idle \notin Coming("mp") \/ A = {}) /\ b \in HandedOut /\ mp' = MpFreed(b).mp
    BY <1>0, <2>1
  <2> QED BY <1>0, <2>1, <2>2, <2>3, MpFreedCount
<1> QED BY <1>0, <1>5, <1>6, MpSpareKept DEF MpStep, MpInv

LEMMA MpInitInv ==
  ASSUME Base, MpInv, NEW c \in User, rt_mp_init(c)
  PROVE  MpStep
<1>1. Create(c, {"mp"}) /\ mp' = mp
  BY DEF rt_mp_init
<1>2. /\ OwnStep({"mp"}) /\ alive = {} /\ alive' = {"mp"} /\ k' = k /\ op' = op /\ loc' = loc
      /\ \A t \in Thread : op[t].on = NoObj
      /\ \A t \in Thread, o \in Obj : ~Linked(k, t, Wait(o))
  BY <1>1, OwnCreate
<1>3. MpWaits' = MpWaits /\ Cardinality(MpWaits) = 0
  BY <1>2, ObjNames, MpWaitsCount DEF MpWaits
<1>4. MpCount' /\ Spare' = 0
  <2>1. mp.susp = 0
    BY <1>2, MpNumbers
  <2>2. ~Awaited("mp")'
    BY <1>2, ObjNames DEF Awaited
  <2> QED BY <1>1, <1>2, <1>3, <2>1, <2>2 DEF MpCount, Spare
<1> QED BY <1>1, <1>2, <1>4 DEF MpStep, MpInv, MpBlocks, MpSpare

LEMMA MpDetachInv ==
  ASSUME Base, MpInv, NEW c \in User, rt_mp_detach(c)
  PROVE  MpStep
<1>1. Detach(c, {"mp"}, "mp") /\ mp' = MpFull
  BY DEF rt_mp_detach
<1>2. /\ OwnStep({"mp"}) /\ alive' = {} /\ k' = k /\ loc' = loc
      /\ op'[c].pc = "resume_test" /\ \A t \in Thread \ {c} : op'[t] = op[t]
  <2>1. "mp" \in {"mp"} /\ {"mp"} = {"mp", After("mp")} \cap Obj
    BY ObjNames DEF After
  <2> QED BY <1>1, <2>1, OwnDetach
<1>3. MpBlocks' /\ MpCount'
  <2>1. "mp" \notin alive' /\ mp'.susp = 0
    BY <1>1, <1>2, MpFullBlocks
  <2> QED BY <1>1, <2>1, MpFullBlocks DEF MpCount, MpBlocks
<1> QED BY <1>2, <1>3 DEF MpStep, MpInv, MpSpare

LEMMA MpNextInv ==
  ASSUME Base, MpInv, MpNext
  PROVE  MpStep
BY MpAllocInv, MpFreeInv, MpTimeInv, MpRetryInv, MpInitInv, MpDetachInv, MpIsrInv DEF MpNext

LEMMA MpForeign ==
  ASSUME Base, MpInv, NEW O, OwnStep(O), "mp" \notin O, mp' = mp
  PROVE  MpInv' /\ MpSpare
<1>1. "mp" \notin alive /\ "mp" \notin alive'
  BY DEF OwnStep
<1> QED BY <1>1 DEF MpInv, MpBlocks, MpCount, MpSpare

\* A thread that a step of none of the objects takes out of the list timed out.
LEMMA MpAside ==
  ASSUME Base, MpInv, RetryNext, mp' = mp
  PROVE  MpInv' /\ MpSpare
<1>1. alive' = alive /\ (\A t \in Thread : Aside(t)) /\ "mp" \in Obj
  BY RetryAside, ObjNames
<1>2. MpWaits' \subseteq MpWaits
  BY <1>1 DEF Aside, MpWaits
<1>3. /\ Cardinality(MpWaits') <= Cardinality(MpWaits)
      /\ Cardinality(MpWaits) \in Nat /\ Cardinality(MpWaits') \in Nat /\ mp.susp \in Nat
  <2>1. MpWaits' \subseteq Thread /\ MpWaits \subseteq Thread
    BY DEF MpWaits
  <2> QED BY <1>2, <2>1, Subsets, MpNumbers
<1>4. MpCount'
  <2>1. Coming("mp")' = Coming("mp") /\ (Awaited("mp")' => Awaited("mp"))
    BY <1>1, AsideCount
  <2> QED BY <1>1, <1>3, <2>1 DEF MpInv, MpCount
<1>5. MpSpare
  <2> SUFFICES ASSUME "mp" \in alive
               PROVE  Spare' >= Spare /\ (Spare' > Spare => \E t \in Thread : TimedOut(t))
    BY <1>1 DEF MpSpare
  <2>1. Spare' >= Spare
    BY <1>3 DEF Spare
  <2>2. MpWaits' = MpWaits => Spare' = Spare /\ ~(Spare' > Spare)
    BY <1>3 DEF Spare
  <2>3. ASSUME MpWaits' # MpWaits PROVE \E t \in Thread : TimedOut(t)
    <3>1. PICK t \in Thread : Linked(k, t, Wait("mp")) /\ ~Linked(k', t, Wait("mp"))
      BY <1>2, <2>3 DEF MpWaits
    <3>2. k'.err[t] = "ETIMEOUT"
      BY <1>1, <3>1 DEF Aside
    <3> QED BY <3>1, <3>2 DEF TimedOut
  <2> QED BY <2>1, <2>2, <2>3
<1> QED BY <1>4, <1>5 DEF MpInv, MpBlocks

-----------------------------------------------------------------------------
(* The event *)

\* The receivers are offered the bits one after the other.
LEMMA EvRounds ==
  ASSUME NEW s, NEW q \in Seq(Thread)
  PROVE  \E f : /\ f[0] = s
                /\ \A i \in 1 .. Len(q) : f[i] = EvOffer(f[i - 1], q[i])
                /\ FoldLeft(EvOffer, s, q) = f[Len(q)]
<1> DEFINE Body(g, z) == IF z = {} THEN s ELSE EvOffer(g[z \ {Max(z)}], q[Max(z)])
           P == {n \in 0 .. Len(q) : \E g : g = [z \in SUBSET (1 .. n) |-> Body(g, z)]}
           It == CHOOSE g : g = [z \in SUBSET (1 .. Len(q)) |-> Body(g, z)]
<1>0. Len(q) \in Nat /\ DOMAIN q = 1 .. Len(q)
  OBVIOUS
<1>1. FoldLeft(EvOffer, s, q) = It[1 .. Len(q)]
  <2>1. FoldLeft(EvOffer, s, q) =
          (CHOOSE g : g = [z \in SUBSET (DOMAIN q) |->
                             IF z = {} THEN s ELSE EvOffer(g[z \ {Max(z)}], q[Max(z)])])
          [DOMAIN q]
    BY Zenon DEF FoldLeft, MapThenFoldSet
  <2>2. It = CHOOSE g : g = [z \in SUBSET (1 .. Len(q)) |->
                               IF z = {} THEN s ELSE EvOffer(g[z \ {Max(z)}], q[Max(z)])]
    BY Zenon
  <2> HIDE DEF It
  <2> QED BY <1>0, <2>1, <2>2, Zenon
<1>2. 0 \in P
  <2> DEFINE g == [z \in SUBSET (1 .. 0) |-> s]
  <2>1. SUBSET (1 .. 0) = {{}}
    OBVIOUS
  <2>2. g = [z \in SUBSET (1 .. 0) |-> Body(g, z)]
    BY <2>1
  <2>3. 0 \in 0 .. Len(q)
    BY <1>0
  <2> HIDE DEF Body, g
  <2> QED BY <2>2, <2>3
<1>3. ASSUME NEW n \in 0 .. Len(q) - 1, n \in P PROVE n + 1 \in P
  <2>1. PICK g : g = [z \in SUBSET (1 .. n) |-> Body(g, z)]
    BY <1>3
  <2> DEFINE h == [z \in SUBSET (1 .. n + 1) |->
                     IF n + 1 \notin z THEN g[z] ELSE EvOffer(g[z \ {n + 1}], q[n + 1])]
  <2>2. ASSUME NEW z \in SUBSET (1 .. n + 1) PROVE h[z] = Body(h, z)
    <3>1. CASE n + 1 \notin z
      <4>1. z \in SUBSET (1 .. n)
        BY <3>1
      <4>2. h[z] = Body(g, z)
        BY <2>1, <3>1, <4>1
      <4>3. CASE z = {}
        BY <4>2, <4>3
      <4>4. CASE z # {}
        <5>0. n \in Nat
          BY <1>0
        <5>1. Max(z) \in z
          BY <4>1, <4>4, <5>0, MaxUpTo
        <5> DEFINE y == z \ {Max(z)}
        <5>2. y \in SUBSET (1 .. n) /\ y \in SUBSET (1 .. n + 1) /\ n + 1 \notin y
          BY <3>1, <4>1
        <5>3. h[y] = g[y]
          BY <5>2
        <5> HIDE DEF y, h
        <5> QED BY <4>2, <4>4, <5>3 DEF y
      <4> QED BY <4>3, <4>4
    <3>2. CASE n + 1 \in z
      <4>1. Max(z) = n + 1
        <5>1. n + 1 \in Nat /\ z # {}
          BY <3>2
        <5>2. Max(z) \in z /\ \A x \in z : Max(z) >= x
          BY <5>1, MaxUpTo
        <5>3. PICK a \in 1 .. n + 1 : a = Max(z) /\ a >= n + 1
          BY <3>2, <5>2
        <5> QED BY <5>3
      <4> DEFINE y == z \ {n + 1}
      <4>2. y \in SUBSET (1 .. n) /\ y \in SUBSET (1 .. n + 1) /\ n + 1 \notin y
        OBVIOUS
      <4>3. h[y] = g[y]
        BY <4>2
      <4>4. h[z] = EvOffer(g[y], q[n + 1])
        BY <3>2
      <4> HIDE DEF y, h
      <4>5. z # {}
        BY <3>2
      <4> QED BY <4>1, <4>3, <4>4, <4>5 DEF y
    <3> QED BY <3>1, <3>2
  <2>3. h = [z \in SUBSET (1 .. n + 1) |-> h[z]]
    OBVIOUS
  <2> HIDE DEF h, Body
  <2>4. h = [z \in SUBSET (1 .. n + 1) |-> Body(h, z)]
    BY <2>2, <2>3, Zenon
  <2>5. n + 1 \in 0 .. Len(q)
    BY <1>0
  <2> QED BY <2>4, <2>5
<1>4. Len(q) \in P
  <2> HIDE DEF P
  <2>1. \A i \in 0 .. Len(q) : i \in P
    BY <1>0, <1>2, <1>3, UpTo
  <2> QED BY <1>0, <2>1
<1>5. It = [z \in SUBSET (1 .. Len(q)) |-> Body(It, z)]
  <2>1. PICK g : g = [z \in SUBSET (1 .. Len(q)) |-> Body(g, z)]
    BY <1>4
  <2> HIDE DEF Body
  <2> QED BY <2>1, Zenon
<1> HIDE DEF It
<1> DEFINE f == [i \in 0 .. Len(q) |-> It[1 .. i]]
<1>6. f[0] = s
  <2>1. 1 .. 0 = {} /\ {} \in SUBSET (1 .. Len(q)) /\ 0 \in 0 .. Len(q)
    BY <1>0
  <2>2. It[{}] = Body(It, {})
    BY <1>5, <2>1, Zenon
  <2> QED BY <2>1, <2>2
<1>7. ASSUME NEW i \in 1 .. Len(q) PROVE f[i] = EvOffer(f[i - 1], q[i])
  <2>1. 1 .. i \in SUBSET (1 .. Len(q)) /\ i \in 1 .. i /\ i \in Nat
    BY <1>0
  <2>2. It[1 .. i] = Body(It, 1 .. i)
    BY <1>5, <2>1, Zenon
  <2>3. Max(1 .. i) = i
    <3>1. Max(1 .. i) \in 1 .. i /\ \A y \in 1 .. i : Max(1 .. i) >= y
      BY <2>1, MaxUpTo
    <3>2. PICK a \in 1 .. i : a = Max(1 .. i) /\ a >= i
      BY <2>1, <3>1
    <3> QED BY <3>2
  <2>4. (1 .. i) \ {i} = 1 .. (i - 1) /\ 1 .. i # {}
    <3>1. \A x \in 1 .. i : x # i => x \in 1 .. (i - 1)
      BY <2>1
    <3>2. \A x \in 1 .. (i - 1) : x \in 1 .. i /\ x # i
      BY <2>1
    <3> QED BY <2>1, <3>1, <3>2
  <2>5. It[1 .. i] = EvOffer(It[1 .. (i - 1)], q[i])
    BY <2>2, <2>3, <2>4
  <2>6. f[i] = It[1 .. i] /\ f[i - 1] = It[1 .. (i - 1)]
    BY <1>0
  <2> QED BY <2>5, <2>6
<1>8. FoldLeft(EvOffer, s, q) = f[Len(q)]
  BY <1>0, <1>1
<1> HIDE DEF f
<1> QED BY <1>6, <1>7, <1>8

\* More bits satisfy whatever fewer bits satisfied.
LEMMA SatisfiedMore ==
  ASSUME NEW s, NEW o, NEW x, NEW y, x \subseteq y, Satisfied(s, o, x)
  PROVE  Satisfied(s, o, y)
BY DEF Satisfied

\* What a sender gives a receiver out of a set that satisfies it.
EvGot(r, set) == IF r.opt.and THEN r.want ELSE r.want \cap set

LEMMA GotFacts ==
  ASSUME NEW r, NEW set, r.want = r.set, Satisfied(r.want, r.opt, set)
  PROVE  /\ EvGot(r, set) \subseteq r.set /\ EvGot(r, set) \subseteq set
         /\ Satisfied(r.set, r.opt, EvGot(r, set))
BY DEF EvGot, Satisfied

\* e is what is left of d after the receivers in D were offered the bits and those
\* in W took some.
EvGivenType(d, e, W) ==
  /\ e \in EvType /\ e.set \subseteq d.set
  /\ \A t \in Thread : e.call[t].set = d.call[t].set /\ e.call[t].opt = d.call[t].opt
  /\ \A t \in Thread : t \in W \/ e.call[t] = d.call[t]

EvGivenTold(e, W) ==
  \A t \in W : /\ e.call[t].want \subseteq e.call[t].set
               /\ Satisfied(e.call[t].set, e.call[t].opt, e.call[t].want)
               /\ e.call[t].opt.clear => e.call[t].want \cap e.set = {}

EvGivenApart(e, W) ==
  \A t, u \in W : t # u /\ e.call[t].opt.clear /\ e.call[u].opt.clear =>
                   e.call[t].want \cap e.call[u].want = {}

EvGivenOut(d, e, W) ==
  \A b \in d.set \ e.set : \E t \in W : e.call[t].opt.clear /\ b \in e.call[t].want

EvGivenOn(e, W, D) ==
  \A t \in D : t \in W \/ ~Satisfied(e.call[t].set, e.call[t].opt, e.set)

EvGiven(d, e, W, D) ==
  /\ EvGivenType(d, e, W) /\ EvGivenTold(e, W) /\ EvGivenApart(e, W)
  /\ EvGivenOut(d, e, W) /\ EvGivenOn(e, W, D)

LEMMA EvGivenFirst ==
  ASSUME NEW d \in EvType
  PROVE  EvGiven(d, d, {}, {})
BY DEF EvGiven, EvGivenType, EvGivenTold, EvGivenApart, EvGivenOut, EvGivenOn

\* an event after a receiver took got, which leaves set
EvTook(e, t, got, set) == [e EXCEPT !.set = set, !.call[t].want = got]

EvTaken1(e, t, got, set, v) ==
  /\ v \in EvType /\ v.set = set
  /\ v.call[t].want = got /\ v.call[t].set = e.call[t].set /\ v.call[t].opt = e.call[t].opt
  /\ \A u \in Thread : u = t \/ v.call[u] = e.call[u]

LEMMA EvTakes ==
  ASSUME NEW e \in EvType, NEW t \in Thread, NEW got, got \subseteq Bit, NEW set, set \subseteq Bit,
         NEW v, v = EvTook(e, t, got, set)
  PROVE  EvTaken1(e, t, got, set, v)
<1> DEFINE Rec == [set : SUBSET Bit, opt : Option, want : SUBSET Bit]
           r == [e.call[t] EXCEPT !.want = got]
           g == [e.call EXCEPT ![t] = r]
<1>1. e.call \in [Thread -> Rec] /\ e.call[t] \in Rec
  BY DEF EvType
<1>2. r \in Rec /\ r.want = got /\ r.set = e.call[t].set /\ r.opt = e.call[t].opt
  BY <1>1
<1> HIDE DEF r
<1>3. g \in [Thread -> Rec] /\ g[t] = r /\ \A u \in Thread : u = t \/ g[u] = e.call[u]
  BY <1>1, <1>2
<1>4. v = [e EXCEPT !.set = set, !.call = g]
  BY DEF r, EvType, EvTook
<1> HIDE DEF g, Rec
<1>5. v \in [set : SUBSET Bit, call : [Thread -> Rec]] /\ v.set = set /\ v.call = g
  BY <1>3, <1>4 DEF EvType
<1> QED BY <1>2, <1>3, <1>5 DEF EvType, Rec, EvTaken1

EvServed(e, t, v) ==
  LET got == EvGot(e.call[t], e.set)
  IN  v = EvTook(e, t, got, IF e.call[t].opt.clear THEN e.set \ got ELSE e.set)

\* The next receiver takes its bits.
LEMMA EvGivenTaken ==
  ASSUME NEW d \in EvType, NEW e, NEW W, W \subseteq Thread, NEW D, D \subseteq Thread, EvGiven(d, e, W, D),
         NEW t \in Thread, t \notin D, t \notin W, e.call[t].want = e.call[t].set,
         Satisfied(e.call[t].want, e.call[t].opt, e.set),
         NEW v, EvServed(e, t, v)
  PROVE  EvGiven(d, v, W \cup {t}, D \cup {t})
<1> DEFINE got == EvGot(e.call[t], e.set)
           set == IF e.call[t].opt.clear THEN e.set \ got ELSE e.set
<1>1. e \in EvType /\ e.set \subseteq Bit /\ e.call[t] \in [set : SUBSET Bit, opt : Option, want : SUBSET Bit]
  BY DEF EvGiven, EvGivenType, EvGivenTold, EvGivenApart, EvGivenOut, EvGivenOn, EvType
<1>2. /\ got \subseteq e.call[t].set /\ got \subseteq e.set
      /\ Satisfied(e.call[t].set, e.call[t].opt, got)
  BY GotFacts
<1>3. set \subseteq e.set /\ set \subseteq Bit /\ got \subseteq Bit
      /\ (e.call[t].opt.clear => set = e.set \ got) /\ (~e.call[t].opt.clear => set = e.set)
  BY <1>1, <1>2
<1>4. v = EvTook(e, t, got, set)
  BY DEF EvServed
<1> HIDE DEF got, set
<1>5. /\ v \in EvType /\ v.set = set
      /\ v.call[t].want = got /\ v.call[t].set = e.call[t].set /\ v.call[t].opt = e.call[t].opt
      /\ \A u \in Thread : u = t \/ v.call[u] = e.call[u]
  <2>1. e \in EvType /\ got \subseteq Bit /\ set \subseteq Bit /\ v = EvTook(e, t, got, set)
    BY <1>1, <1>3, <1>4
  <2>2. EvTaken1(e, t, got, set, v)
    BY ONLY <2>1, t \in Thread, EvTakes
  <2> QED BY <2>2 DEF EvTaken1
<1>6. v \in EvType /\ v.set \subseteq d.set
  BY <1>3, <1>5 DEF EvGiven, EvGivenType, EvGivenTold, EvGivenApart, EvGivenOut, EvGivenOn
<1>7. \A u \in Thread : /\ v.call[u].set = d.call[u].set /\ v.call[u].opt = d.call[u].opt
                        /\ u \in W \cup {t} \/ v.call[u] = d.call[u]
  <2>1. \A u \in Thread : /\ e.call[u].set = d.call[u].set /\ e.call[u].opt = d.call[u].opt
                          /\ u \in W \/ e.call[u] = d.call[u]
    BY DEF EvGiven, EvGivenType, EvGivenTold, EvGivenApart, EvGivenOut, EvGivenOn
  <2> SUFFICES ASSUME NEW u \in Thread
               PROVE  /\ v.call[u].set = d.call[u].set /\ v.call[u].opt = d.call[u].opt
                      /\ u \in W \cup {t} \/ v.call[u] = d.call[u]
    OBVIOUS
  <2>2. CASE u = t
    BY <1>5, <2>1, <2>2
  <2>3. CASE u # t
    BY <1>5, <2>1, <2>3
  <2> QED BY <2>2, <2>3
<1>8. \A u \in W : v.call[u] = e.call[u]
  BY <1>5
<1>9. ASSUME NEW u \in W \cup {t}
      PROVE  /\ v.call[u].want \subseteq v.call[u].set
             /\ Satisfied(v.call[u].set, v.call[u].opt, v.call[u].want)
             /\ v.call[u].opt.clear => v.call[u].want \cap v.set = {}
  <2>1. CASE u = t
    <3>1. e.call[t].opt.clear => got \cap set = {}
      BY <1>3
    <3> QED BY <1>2, <1>5, <2>1, <3>1
  <2>2. CASE u \in W
    <3>1. e.call[u].opt.clear => e.call[u].want \cap e.set = {}
      BY <2>2 DEF EvGiven, EvGivenType, EvGivenTold, EvGivenApart, EvGivenOut, EvGivenOn
    <3>2. e.call[u].opt.clear => e.call[u].want \cap set = {}
      BY <1>3, <3>1
    <3>3. e.call[u].want \subseteq e.call[u].set
          /\ Satisfied(e.call[u].set, e.call[u].opt, e.call[u].want)
      BY <2>2 DEF EvGiven, EvGivenType, EvGivenTold, EvGivenApart, EvGivenOut, EvGivenOn
    <3> QED BY <1>5, <1>8, <2>2, <3>2, <3>3
  <2> QED BY <2>1, <2>2
<1>10. ASSUME NEW u \in W, e.call[t].opt.clear, e.call[u].opt.clear
       PROVE  got \cap e.call[u].want = {}
  <2>1. e.call[u].want \cap e.set = {}
    BY <1>10 DEF EvGiven, EvGivenType, EvGivenTold, EvGivenApart, EvGivenOut, EvGivenOn
  <2> QED BY <1>2, <2>1
<1>11. ASSUME NEW u \in W \cup {t}, NEW w \in W \cup {t}, u # w,
              v.call[u].opt.clear, v.call[w].opt.clear
       PROVE  v.call[u].want \cap v.call[w].want = {}
  <2>1. CASE u = t /\ w \in W
    <3>1. got \cap e.call[w].want = {}
      BY <1>5, <1>8, <1>10, <1>11, <2>1
    <3> QED BY <1>5, <1>8, <2>1, <3>1
  <2>2. CASE w = t /\ u \in W
    <3>1. got \cap e.call[u].want = {}
      BY <1>5, <1>8, <1>10, <1>11, <2>2
    <3> QED BY <1>5, <1>8, <2>2, <3>1
  <2>3. CASE u \in W /\ w \in W
    BY <1>8, <1>11, <2>3 DEF EvGiven, EvGivenType, EvGivenTold, EvGivenApart, EvGivenOut, EvGivenOn
  <2> QED BY <1>11, <2>1, <2>2, <2>3
<1>12. ASSUME NEW b \in d.set \ v.set
       PROVE  \E u \in W \cup {t} : v.call[u].opt.clear /\ b \in v.call[u].want
  <2>1. CASE b \in e.set
    BY <1>3, <1>5, <1>12, <2>1
  <2>2. CASE b \notin e.set
    <3>1. PICK u \in W : e.call[u].opt.clear /\ b \in e.call[u].want
      BY <1>12, <2>2 DEF EvGiven, EvGivenType, EvGivenTold, EvGivenApart, EvGivenOut, EvGivenOn
    <3> QED BY <1>8, <3>1
  <2> QED BY <2>1, <2>2
<1>13. ASSUME NEW u \in D \cup {t}, u \notin W \cup {t}
       PROVE  ~Satisfied(v.call[u].set, v.call[u].opt, v.set)
  <2>1. ~Satisfied(e.call[u].set, e.call[u].opt, e.set) /\ v.call[u] = e.call[u]
    BY <1>5, <1>13 DEF EvGiven, EvGivenType, EvGivenTold, EvGivenApart, EvGivenOut, EvGivenOn
  <2> QED BY <1>3, <1>5, <2>1, SatisfiedMore
<1> DEFINE X == W \cup {t}
           Y == D \cup {t}
<1>14. \A u \in Y : u \in X \/ ~Satisfied(v.call[u].set, v.call[u].opt, v.set)
  BY <1>13
<1>15. EvGivenTold(v, X)
  <2> SUFFICES ASSUME NEW u \in X
               PROVE  /\ v.call[u].want \subseteq v.call[u].set
                      /\ Satisfied(v.call[u].set, v.call[u].opt, v.call[u].want)
                      /\ v.call[u].opt.clear => v.call[u].want \cap v.set = {}
    BY DEF EvGivenTold
  <2> QED BY <1>9
<1>16. \A u, w \in X : u # w /\ v.call[u].opt.clear /\ v.call[w].opt.clear =>
                          v.call[u].want \cap v.call[w].want = {}
  BY <1>11
<1>17. \A b \in d.set \ v.set : \E u \in X : v.call[u].opt.clear /\ b \in v.call[u].want
  BY <1>12
<1>18. \A u \in Thread : u \in X \/ v.call[u] = d.call[u]
  BY <1>7
<1> HIDE DEF X, Y
<1>19. EvGiven(d, v, X, Y)
  <2>1. \A u \in Thread : v.call[u].set = d.call[u].set /\ v.call[u].opt = d.call[u].opt
    BY <1>7
  <2>2. EvGivenType(d, v, X)
    BY <1>6, <1>18, <2>1, Zenon DEF EvGivenType
  <2>4. EvGivenApart(v, X)
    BY <1>16 DEF EvGivenApart
  <2>5. EvGivenOut(d, v, X)
    BY <1>17 DEF EvGivenOut
  <2>6. EvGivenOn(v, X, Y)
    BY <1>14 DEF EvGivenOn
  <2> QED BY <1>15, <2>2, <2>4, <2>5, <2>6 DEF EvGiven
<1> QED BY <1>19 DEF X, Y

\* Or goes on waiting.
LEMMA EvGivenNothing ==
  ASSUME NEW d, NEW e, NEW W, NEW D, EvGiven(d, e, W, D), NEW t,
         ~Satisfied(e.call[t].set, e.call[t].opt, e.set)
  PROVE  EvGiven(d, e, W, D \cup {t})
BY DEF EvGiven, EvGivenOn

\* One waiter more is made ready, without being told anything.
LEMMA ResumedMore ==
  ASSUME IpcInv, NEW o \in Obj, NEW u, NEW W, Resumed(u, {o}, W, "EOK"),
         NEW t \in Thread, t \notin W, Linked(k, t, Wait(o))
  PROVE  Resumed(Resume(u, t), {o}, W \cup {t}, "EOK") /\ Resume(u, t).cur = u.cur
<1> DEFINE v == Resume(u, t)
<1>0. KInv(k) /\ k \in KState
  BY DEF IpcInv, Sane, KInv
<1>1. k.stat[t] = "SUSPEND" /\ k.err[t] = "EOK"
  <2>1. k.stat[t] = "SUSPEND"
    BY <1>0, WaiterFacts
  <2>2. Blocked(t)
    BY LinkedFacts
  <2> QED BY <2>1, <2>2 DEF IpcInv, CallerOK
<1>2. Woke(k, u, W) /\ Sane(u) /\ u.stat[t] = "SUSPEND"
  BY <1>1 DEF Resumed, Woke
<1>3. /\ Woke(u, v, {t})
      /\ \A x \in Obj : v.list[Wait(x)] = RemoveFirst(u.list[Wait(x)], t)
      /\ v.err = u.err /\ v.cur = u.cur
      /\ \A x \in Thread \ {t} : v.tmo[x] = u.tmo[x]
  BY <1>2, ResumeWoke
<1> HIDE DEF v
<1>4. Woke(k, v, W \cup {t})
  BY <1>2, <1>3, WokeTwice
<1>5. ASSUME NEW x \in Obj, x # o PROVE v.list[Wait(x)] = k.list[Wait(x)]
  <2>1. u.list[Wait(x)] = k.list[Wait(x)]
    BY <1>5 DEF Resumed
  <2>2. ~Linked(k, t, Wait(x))
    BY <1>5, OneWait
  <2>3. k.list[Wait(x)] \in Seq(Thread)
    BY <1>0, HeadFacts DEF KState
  <2>4. RemoveFirst(k.list[Wait(x)], t) = k.list[Wait(x)]
    BY <2>2, <2>3, RemoveAbsent DEF Linked
  <2> QED BY <1>3, <2>1, <2>4
<1>6. \A x \in Thread : v.err[x] = IF x \in W \cup {t} THEN "EOK" ELSE k.err[x]
  BY <1>1, <1>3 DEF Resumed
<1>7. \A x \in W \cup {t} : x \in Thread /\ \E p \in {o} : Linked(k, x, Wait(p))
  BY DEF Resumed
<1>8. \A x \in Thread : x \notin W \cup {t} => v.tmo[x] = k.tmo[x]
  BY <1>3 DEF Resumed
<1>9. Resumed(v, {o}, W \cup {t}, "EOK")
  BY <1>4, <1>5, <1>6, <1>7, <1>8 DEF Resumed
<1> QED BY <1>3, <1>9 DEF v

\* What the receivers in D do with d, and what that makes of the kernel.
EvOffered(a, d, W, D) ==
  /\ W \subseteq D
  /\ Resumed(a.k, {"ev"}, W, "EOK") /\ a.k.cur = k.cur
  /\ W = {} => a.k = k
  /\ EvGiven(d, a.ev, W, D)

LEMMA EvOfferOne ==
  ASSUME IpcInv, NEW d \in EvType, NEW a, NEW W, NEW D \in SUBSET Thread, EvOffered(a, d, W, D),
         NEW t \in Thread, t \notin D, Linked(k, t, Wait("ev")), d.call[t].want = d.call[t].set
  PROVE  \E X : EvOffered(EvOffer(a, t), d, X, D \cup {t})
<1> DEFINE r == a.ev.call[t]
           got == EvGot(r, a.ev.set)
           set == IF r.opt.clear THEN a.ev.set \ got ELSE a.ev.set
           b == EvOffer(a, t)
<1>0. "ev" \in Obj /\ W \subseteq Thread /\ t \notin W
  BY ObjNames DEF EvOffered
<1>1. EvGiven(d, a.ev, W, D) /\ r = d.call[t] /\ r.want = r.set
  BY <1>0 DEF EvOffered, EvGiven, EvGivenType
<1>2. CASE ~Satisfied(r.want, r.opt, a.ev.set)
  <2>1. b = a
    BY <1>2 DEF EvOffer
  <2>2. EvGiven(d, a.ev, W, D \cup {t})
    BY <1>1, <1>2, EvGivenNothing
  <2>3. EvOffered(b, d, W, D \cup {t})
    BY <2>1, <2>2 DEF EvOffered
  <2> QED BY <2>3
<1>3. CASE Satisfied(r.want, r.opt, a.ev.set)
  <2>1. b.k = Resume(a.k, t) /\ b.ev = EvTook(a.ev, t, got, set)
    <3>1. b = [k |-> Resume(a.k, t), ev |-> EvTook(a.ev, t, got, set)]
      BY <1>3 DEF EvOffer, EvTook, EvGot
    <3> QED BY <3>1
  <2>2. Resumed(Resume(a.k, t), {"ev"}, W \cup {t}, "EOK") /\ Resume(a.k, t).cur = a.k.cur
    BY <1>0, ResumedMore DEF EvOffered
  <2>3. EvGiven(d, b.ev, W \cup {t}, D \cup {t})
    <3>1. EvServed(a.ev, t, b.ev)
      BY <2>1 DEF EvServed
    <3> QED BY <1>0, <1>1, <1>3, <3>1, EvGivenTaken
  <2>4. EvOffered(b, d, W \cup {t}, D \cup {t})
    BY <2>1, <2>2, <2>3 DEF EvOffered
  <2> QED BY <2>4
<1> QED BY <1>2, <1>3

\* rt_event_send, from the first receiver to the last
LEMMA EvSentFacts ==
  ASSUME IpcInv, ev \in EvType, NEW s, s \subseteq Bit,
         \A t \in Thread : Linked(k, t, Wait("ev")) => ev.call[t].want = ev.call[t].set
  PROVE  \E W : EvOffered(EvSent(s), [ev EXCEPT !.set = @ \cup s], W, {t \in Thread : Linked(k, t, Wait("ev"))})
<1> DEFINE d == [ev EXCEPT !.set = @ \cup s]
           q == Waiters("ev")
           Done(i) == {q[j] : j \in 1 .. i}
           a == [k |-> k, ev |-> d]
<1>0. "ev" \in Obj /\ KInv(k) /\ k \in KState /\ Wait("ev") \in ListHead
  BY ObjNames, HeadFacts DEF IpcInv, Sane, KInv
<1>1. q \in Seq(Thread) /\ IsInjective(q)
  BY <1>0 DEF KState, KInv, OneList, Waiters
<1>2. Len(q) \in Nat /\ DOMAIN q = 1 .. Len(q)
  BY <1>1
<1>3. \A i \in 1 .. Len(q) : q[i] \in Thread /\ Linked(k, q[i], Wait("ev"))
  BY <1>1, <1>2 DEF Linked, Range, Waiters
<1>4. d \in EvType /\ d.call = ev.call
  BY DEF EvType
<1>5. EvSent(s) = FoldLeft(EvOffer, a, q)
  BY Zenon DEF EvSent
<1> HIDE DEF q
<1>6. PICK f : /\ f[0] = a
               /\ \A i \in 1 .. Len(q) : f[i] = EvOffer(f[i - 1], q[i])
               /\ FoldLeft(EvOffer, a, q) = f[Len(q)]
  BY <1>1, EvRounds
<1> DEFINE P == {i \in 0 .. Len(q) : \E W : EvOffered(f[i], d, W, Done(i))}
<1>7. 0 \in P
  <2>1. Done(0) = {} /\ 0 \in 0 .. Len(q)
    BY <1>2
  <2>2. EvGiven(d, d, {}, {})
    BY <1>4, EvGivenFirst
  <2>3. Resumed(k, {"ev"}, {}, "EOK")
    <3>1. Resumed(k, {}, {}, "EOK")
      BY NobodyResumed
    <3> QED BY <3>1 DEF Resumed
  <2>4. a.k = k /\ a.ev = d
    OBVIOUS
  <2> HIDE DEF d, a, Done
  <2>5. EvOffered(f[0], d, {}, Done(0))
    BY <1>6, <2>1, <2>2, <2>3, <2>4 DEF EvOffered
  <2> QED BY <2>1, <2>5
<1>8. ASSUME NEW i \in 0 .. Len(q) - 1, i \in P PROVE i + 1 \in P
  <2>0. i + 1 \in 1 .. Len(q) /\ (i + 1) - 1 = i /\ i + 1 \in 0 .. Len(q)
    BY <1>2
  <2> DEFINE t == q[i + 1]
  <2>1. t \in Thread /\ Linked(k, t, Wait("ev")) /\ d.call[t].want = d.call[t].set
    BY <1>3, <1>4, <2>0
  <2>2. t \notin Done(i) /\ Done(i + 1) = Done(i) \cup {t}
    <3>1. \A j \in 1 .. i : j \in 1 .. Len(q) /\ j # i + 1
      BY <2>0
    <3>2. t \notin Done(i)
      BY <1>1, <1>2, <2>0, <3>1 DEF IsInjective
    <3>3. 1 .. (i + 1) = (1 .. i) \cup {i + 1}
      <4>1. \A j \in 1 .. (i + 1) : j \in 1 .. i \/ j = i + 1
        BY <1>2
      <4>2. \A j \in 1 .. i : j \in 1 .. (i + 1)
        BY <1>2
      <4>3. i + 1 \in 1 .. (i + 1)
        BY <1>2
      <4> QED BY <4>1, <4>2, <4>3
    <3> QED BY <3>2, <3>3
  <2>3. Done(i) \in SUBSET Thread
    <3>1. \A j \in 1 .. i : j \in 1 .. Len(q)
      BY <2>0
    <3> QED BY <1>3, <3>1
  <2>4. PICK W : EvOffered(f[i], d, W, Done(i))
    BY <1>8
  <2>5. f[i + 1] = EvOffer(f[i], t)
    BY <1>6, <2>0
  <2> HIDE DEF d, Done, t, a
  <2>6. \E X : EvOffered(f[i + 1], d, X, Done(i + 1))
    BY <1>4, <2>1, <2>2, <2>3, <2>4, <2>5, EvOfferOne
  <2> QED BY <2>0, <2>6
<1>9. Len(q) \in P
  <2> HIDE DEF P
  <2>1. \A i \in 0 .. Len(q) : i \in P
    BY <1>2, <1>7, <1>8, UpTo
  <2> QED BY <1>2, <2>1
<1>10. Done(Len(q)) = {t \in Thread : Linked(k, t, Wait("ev"))}
  BY <1>1, <1>2, <1>3 DEF q, Waiters, Linked, Range
<1> QED BY <1>5, <1>6, <1>9, <1>10

\* A waiting receiver waits for bits that are not there.
EvWaits(t) ==
  Linked(k, t, Wait("ev")) =>
    /\ t \in EvReceiver /\ ev.call[t].want = ev.call[t].set
    /\ "ev" \in alive => ~Satisfied(ev.call[t].set, ev.call[t].opt, ev.set)

\* A receiver that has its answer.
EvIn(t) == op[t].on = "ev" /\ (Woken(t) \/ op[t].pc = "return")

EvTold(t) ==
  EvIn(t) => /\ ev.call[t].want \subseteq ev.call[t].set
             /\ Satisfied(ev.call[t].set, ev.call[t].opt, ev.call[t].want)

EvInv == ev \in EvType /\ \A t \in Thread : EvWaits(t) /\ EvTold(t)

\* who gets an answer in a step
EvToldNow == {t \in EvReceiver : ~EvIn(t) /\ EvIn(t)' /\ ev'.call[t].opt.clear}

EvTaken ==
  \/ /\ \A b \in ev.set \ ev'.set : \E t \in EvToldNow : b \in ev'.call[t].want
     /\ \A t, u \in EvToldNow : t # u => ev'.call[t].want \cap ev'.call[u].want = {}
  \/ \E c \in User : rt_event_control(c) \/ rt_event_detach(c)

EvStep == OwnStep({"ev"}) /\ EvInv' /\ EvTaken

LEMMA EvAlive ==
  ASSUME Base, "ev" \in alive
  PROVE  alive = {"ev"} /\ "ev" \in Obj /\ IpcInv /\ DetachInv /\ IpcTypeOK /\ NoObj \notin Obj
<1>1. alive = {"ev"}
  BY DEF Base, AliveOK, MbObj
<1> QED BY <1>1, ObjNames DEF Base, IpcInv

\* A thread that the step of another does not concern has its answer as before.
LEMMA EvInKept ==
  ASSUME IpcTypeOK, NEW t \in Thread, Kept(t)
  PROVE  (EvIn(t)' <=> EvIn(t)) /\ (Linked(k', t, Wait("ev")) <=> Linked(k, t, Wait("ev")))
<1>1. Woken(t)' <=> Woken(t)
  BY KeptWoken
<1> QED BY <1>1, ObjNames DEF Kept, SameLinks, EvIn

LEMMA EvKept ==
  ASSUME IpcTypeOK, NEW t \in Thread, Kept(t), EvWaits(t), EvTold(t), ev'.call[t] = ev.call[t],
         ev'.set \subseteq ev.set, alive' = alive
  PROVE  EvWaits(t)' /\ EvTold(t)' /\ t \notin EvToldNow
<1>1. (EvIn(t)' <=> EvIn(t)) /\ (Linked(k', t, Wait("ev")) <=> Linked(k, t, Wait("ev")))
  BY EvInKept
<1>2. ~Satisfied(ev.call[t].set, ev.call[t].opt, ev.set) =>
        ~Satisfied(ev'.call[t].set, ev'.call[t].opt, ev'.set)
  BY SatisfiedMore
<1> QED BY <1>1, <1>2 DEF EvWaits, EvTold, EvToldNow

\* The receivers that were given bits, and the others.
LEMMA EvSentStep ==
  ASSUME Base, EvInv, "ev" \in alive, alive' = alive, loc' = loc, NEW s, s \subseteq Bit,
         NEW A, NEW W, KStep(A, W, "EOK"), ev' = EvSent(s).ev,
         EvOffered(EvSent(s), [ev EXCEPT !.set = @ \cup s], W, {t \in Thread : Linked(k, t, Wait("ev"))}),
         \A t \in A : op[t].on = NoObj /\ op'[t].on = NoObj
  PROVE  EvInv' /\ EvTaken
<1> DEFINE d == [ev EXCEPT !.set = @ \cup s]
           D == {t \in Thread : Linked(k, t, Wait("ev"))}
<1>0. IpcTypeOK /\ "ev" \in Obj /\ IpcInv /\ NoObj \notin Obj
  BY EvAlive
<1>1. d.call = ev.call /\ d.set = ev.set \cup s
  BY DEF EvInv, EvType
<1>2. EvGiven(d, ev', W, D) /\ W \subseteq D
  BY DEF EvOffered
<1> HIDE DEF d
<1>3. /\ ev' \in EvType
      /\ \A t \in Thread : ev'.call[t].set = ev.call[t].set /\ ev'.call[t].opt = ev.call[t].opt
      /\ \A t \in Thread : t \in W \/ ev'.call[t] = ev.call[t]
  BY <1>1, <1>2 DEF EvGiven, EvGivenType
<1>4. ASSUME NEW t \in W
      PROVE  /\ EvWaits(t)' /\ EvTold(t)' /\ ~EvIn(t) /\ EvIn(t)' /\ t \in EvReceiver /\ t \in Thread
             /\ ev'.call[t].opt.clear => t \in EvToldNow
  <2>1. t \in Thread /\ Linked(k, t, Wait("ev")) /\ Roused(t, "EOK")
    BY <1>2 DEF KStep
  <2>2. Blocked(t) /\ op[t].on = "ev" /\ op'[t] = op[t] /\ ~Linked(k', t, Wait("ev")) /\ k'.err[t] = "EOK"
    BY <1>0, <2>1, LinkedFacts DEF Roused
  <2>3. ~EvIn(t) /\ EvIn(t)'
    <3>1. "ev" # NoObj
      BY <1>0
    <3> QED BY <2>1, <2>2, <3>1 DEF EvIn, Woken, Blocked
  <2>4. t \in EvReceiver
    BY <2>1 DEF EvInv, EvWaits
  <2>5. ev'.call[t].want \subseteq ev'.call[t].set
        /\ Satisfied(ev'.call[t].set, ev'.call[t].opt, ev'.call[t].want)
    BY <1>2 DEF EvGiven, EvGivenTold
  <2> QED BY <2>1, <2>2, <2>3, <2>4, <2>5 DEF EvWaits, EvTold, EvToldNow
<1>5. ASSUME NEW t \in Thread, t \notin W
      PROVE  EvWaits(t)' /\ EvTold(t)' /\ t \notin EvToldNow
  <2>1. CASE t \in A
    <3>1. SameLinks(t) /\ ~Linked(k, t, Wait("ev"))
      BY <1>0, <2>1, LinkedFacts DEF KStep
    <3> QED BY <1>0, <2>1, <3>1 DEF SameLinks, EvWaits, EvTold, EvIn, EvToldNow
  <2>2. CASE t \notin A
    <3>1. Kept(t)
      BY <1>5, <2>2 DEF KStep
    <3>2. (EvIn(t)' <=> EvIn(t)) /\ (Linked(k', t, Wait("ev")) <=> Linked(k, t, Wait("ev")))
      BY <1>0, <3>1, EvInKept
    <3>3. ev'.call[t] = ev.call[t] /\ EvWaits(t) /\ EvTold(t)
      BY <1>3, <1>5 DEF EvInv
    <3>4. Linked(k, t, Wait("ev")) => ~Satisfied(ev'.call[t].set, ev'.call[t].opt, ev'.set)
      BY <1>2, <1>5 DEF EvGiven, EvGivenOn
    <3> QED BY <3>2, <3>3, <3>4 DEF EvWaits, EvTold, EvToldNow
  <2> QED BY <2>1, <2>2
<1>6. EvInv'
  <2>1. \A t \in Thread : EvWaits(t)' /\ EvTold(t)'
    BY <1>4, <1>5
  <2> QED BY <1>3, <2>1 DEF EvInv
<1>7. \A b \in ev.set \ ev'.set : \E t \in EvToldNow : b \in ev'.call[t].want
  <2> SUFFICES ASSUME NEW b \in ev.set \ ev'.set PROVE \E t \in EvToldNow : b \in ev'.call[t].want
    OBVIOUS
  <2>1. PICK t \in W : ev'.call[t].opt.clear /\ b \in ev'.call[t].want
    BY <1>1, <1>2 DEF EvGiven, EvGivenOut
  <2> QED BY <1>4, <2>1
<1>8. \A t, u \in EvToldNow : t # u => ev'.call[t].want \cap ev'.call[u].want = {}
  <2> SUFFICES ASSUME NEW t \in EvToldNow, NEW u \in EvToldNow, t # u
               PROVE  ev'.call[t].want \cap ev'.call[u].want = {}
    OBVIOUS
  <2>1. t \in Thread /\ u \in Thread /\ ev'.call[t].opt.clear /\ ev'.call[u].opt.clear
    BY EvAssumption DEF EvToldNow, User
  <2>2. t \in W /\ u \in W
    BY <1>5, <2>1
  <2> QED BY <1>2, <2>1, <2>2 DEF EvGiven, EvGivenApart
<1> QED BY <1>6, <1>7, <1>8 DEF EvTaken

\* a sender that leaves the kernel as it was has woken nobody
LEMMA EvNobody ==
  ASSUME IpcInv, NEW d, NEW a, NEW W, NEW D, EvOffered(a, d, W, D), a.k = k
  PROVE  W = {}
<1>1. Resumed(k, {"ev"}, W, "EOK")
  BY DEF EvOffered
<1> SUFFICES ASSUME NEW t \in W PROVE FALSE
  OBVIOUS
<1>2. t \in Thread /\ Linked(k, t, Wait("ev"))
  BY <1>1 DEF Resumed
<1>3. ~Linked(k, t, Wait("ev"))
  BY <1>1, <1>2, ObjNames DEF Resumed, Woke
<1> QED BY <1>2, <1>3

\* The receivers that wait are those that rt_event_send looks at.
LEMMA EvSentNow ==
  ASSUME Base, EvInv, NEW s \in Bits
  PROVE  \E W : EvOffered(EvSent(s), [ev EXCEPT !.set = @ \cup s], W,
                          {t \in Thread : Linked(k, t, Wait("ev"))})
<1>1. IpcInv /\ ev \in EvType /\ s \subseteq Bit
  BY DEF Base, EvInv, Bits
<1>2. \A t \in Thread : Linked(k, t, Wait("ev")) => ev.call[t].want = ev.call[t].set
  BY DEF EvInv, EvWaits
<1> QED BY <1>1, <1>2, EvSentFacts

LEMMA EvSendInv ==
  ASSUME Base, EvInv, NEW c \in User, NEW s \in Bits, rt_event_send(c, s)
  PROVE  EvStep
<1> DEFINE a == EvSent(s)
           D == {t \in Thread : Linked(k, t, Wait("ev"))}
           d == [ev EXCEPT !.set = @ \cup s]
<1>0. /\ At(c, "run") /\ "ev" \in alive /\ alive' = alive /\ loc' = loc
      /\ k' = a.k /\ ev' = a.ev
      /\ IF a.k # k THEN Call(c, "sched", NoObj) ELSE UNCHANGED op
  BY DEF rt_event_send
<1>1. alive = {"ev"} /\ "ev" \in Obj /\ IpcInv /\ DetachInv /\ IpcTypeOK /\ c \in Thread /\ s \subseteq Bit
  BY <1>0, EvAlive DEF User, Bits
<1>2. op[c].on = NoObj /\ op[c].pc = "run" /\ loc \in LocType
  BY <1>0, <1>1, AtFacts DEF Base
<1>3. PICK W : EvOffered(a, d, W, D)
  BY EvSentNow
<1> HIDE DEF a, d, D
<1>4. CASE a.k # k
  <2> DEFINE O == {"ev"}
  <2>1. Resumed(k', O, W, "EOK") /\ k'.cur = k.cur /\ O \subseteq alive /\ Call(c, "sched", NoObj)
    BY <1>0, <1>1, <1>3, <1>4 DEF EvOffered
  <2> HIDE DEF O
  <2>2. KStep({c}, W, "EOK") /\ op'[c].pc = "sched" /\ op'[c].on = NoObj
    BY <1>0, <1>1, <2>1, SchedCall
  <2>3. \A t \in {c} : op[t].on = NoObj /\ op'[t].on = NoObj
    BY <1>2, <2>2
  <2>4. OwnStep({"ev"})
    <3>1. op'[c].pc \notin SleepPC \cup HandPC \cup {"mp_time"}
      BY <2>2 DEF SleepPC, HandPC
    <3>2. \A t \in Thread : t \in {c} \/ loc'[t] = loc[t]
      BY <1>0
    <3> QED BY <1>0, <1>1, <1>2, <2>2, <3>1, <3>2, OwnAlone
  <2>5. EvInv' /\ EvTaken
    BY <1>0, <1>1, <1>3, <2>2, <2>3, EvSentStep DEF a, d, D
  <2> QED BY <2>4, <2>5 DEF EvStep
<1>5. CASE a.k = k
  <2>1. W = {} /\ op' = op /\ k' = k
    BY <1>0, <1>1, <1>3, <1>5, EvNobody
  <2>2. KStep({}, W, "EOK")
    BY <1>0, <1>1, <2>1, NoStep
  <2>3. OwnStep({"ev"})
    BY <1>0, <1>1, <1>2, <2>2, OwnKStep
  <2>4. EvInv' /\ EvTaken
    BY <1>0, <1>1, <1>3, <2>2, EvSentStep DEF a, d, D
  <2> QED BY <2>3, <2>4 DEF EvStep
<1> QED BY <1>4, <1>5

LEMMA EvIsrInv ==
  ASSUME Base, EvInv, NEW s \in Bits, EvIsrSend(s)
  PROVE  EvStep
<1> DEFINE a == EvSent(s)
           D == {t \in Thread : Linked(k, t, Wait("ev"))}
           d == [ev EXCEPT !.set = @ \cup s]
<1>0. /\ "ev" \in alive /\ alive' = alive /\ loc' = loc /\ op' = op
      /\ k' = (IF a.k # k THEN Schedule(a.k) ELSE k) /\ ev' = a.ev
  BY DEF EvIsrSend
<1>1. alive = {"ev"} /\ "ev" \in Obj /\ IpcInv /\ DetachInv /\ IpcTypeOK /\ s \subseteq Bit /\ loc \in LocType
  BY <1>0, EvAlive DEF Bits, Base
<1>2. PICK W : EvOffered(a, d, W, D)
  BY EvSentNow
<1> HIDE DEF a, d, D
<1>3. KStep({}, W, "EOK")
  <2>1. CASE a.k # k
    <3> DEFINE O == {"ev"}
    <3>1. Resumed(a.k, O, W, "EOK") /\ O \subseteq alive /\ k' = Schedule(a.k)
      BY <1>0, <1>1, <1>2, <2>1 DEF EvOffered
    <3> HIDE DEF O
    <3>2. Resumed(k', O, W, "EOK") /\ k'.stat[k'.cur] = "READY"
      BY <3>1, ScheduleResumed
    <3> QED BY <1>0, <1>1, <3>1, <3>2, NoActorStep
  <2>2. CASE a.k = k
    <3>1. W = {} /\ k' = k
      BY <1>0, <1>1, <1>2, <2>2, EvNobody
    <3> QED BY <1>0, <1>1, <3>1, NoStep
  <2> QED BY <2>1, <2>2
<1>4. OwnStep({"ev"})
  BY <1>0, <1>1, <1>3, OwnKStep
<1>5. EvInv' /\ EvTaken
  BY <1>0, <1>1, <1>2, <1>3, EvSentStep DEF a, d, D
<1> QED BY <1>4, <1>5 DEF EvStep

\* At most c gets an answer, and the bits that go are for it.
LEMMA EvOneTold ==
  ASSUME NEW c, \A t \in Thread : t = c \/ t \notin EvToldNow,
         \A b \in ev.set \ ev'.set : c \in EvToldNow /\ b \in ev'.call[c].want
  PROVE  EvTaken
<1>1. EvToldNow \subseteq Thread
  BY EvAssumption DEF EvToldNow, User
<1>2. \A t, u \in EvToldNow : t # u => ev'.call[t].want \cap ev'.call[u].want = {}
  BY <1>1
<1>3. \A b \in ev.set \ ev'.set : \E t \in EvToldNow : b \in ev'.call[t].want
  OBVIOUS
<1> QED BY <1>2, <1>3 DEF EvTaken

EvCallRec == [set : SUBSET Bit, opt : Option, want : SUBSET Bit]

\* what a call of c makes of the event
EvWritten(c, set, r) ==
  /\ ev' \in EvType /\ ev'.set = set /\ ev'.call[c] = r
  /\ \A t \in Thread : t = c \/ ev'.call[t] = ev.call[t]

LEMMA EvWrites ==
  ASSUME ev \in EvType, NEW c \in Thread, NEW set, set \subseteq Bit, NEW r \in EvCallRec
  PROVE  /\ ev' = [ev EXCEPT !.set = set, !.call[c] = r] => EvWritten(c, set, r)
         /\ ev' = [ev EXCEPT !.call[c] = r] => EvWritten(c, ev.set, r)
<1> DEFINE g == [ev.call EXCEPT ![c] = r]
<1>1. ev.call \in [Thread -> EvCallRec] /\ ev.set \subseteq Bit
  BY DEF EvType, EvCallRec
<1>2. g \in [Thread -> EvCallRec] /\ g[c] = r /\ \A t \in Thread : t = c \/ g[t] = ev.call[t]
  BY <1>1
<1>3. ASSUME ev' = [ev EXCEPT !.set = set, !.call[c] = r] PROVE EvWritten(c, set, r)
  <2>1. ev'.set = set /\ ev'.call = g /\ ev' \in EvType
    BY <1>1, <1>2, <1>3 DEF EvType, EvCallRec
  <2> HIDE DEF g
  <2> QED BY <1>2, <2>1 DEF EvWritten
<1>4. ASSUME ev' = [ev EXCEPT !.call[c] = r] PROVE EvWritten(c, ev.set, r)
  <2>1. ev'.set = ev.set /\ ev'.call = g /\ ev' \in EvType
    BY <1>1, <1>2, <1>4 DEF EvType, EvCallRec
  <2> HIDE DEF g
  <2> QED BY <1>2, <2>1 DEF EvWritten
<1> QED BY <1>3, <1>4

LEMMA EvRecvNowInv ==
  ASSUME Base, EvInv, NEW c \in EvReceiver, NEW s \in Bits, NEW o \in EvOption,
         At(c, "run"), "ev" \in alive, Satisfied(s, o, ev.set), RecvNow(c, s, o),
         alive' = alive, loc' = loc
  PROVE  EvStep
<1>0. /\ alive = {"ev"} /\ "ev" \in Obj /\ IpcInv /\ DetachInv /\ IpcTypeOK /\ NoObj \notin Obj
      /\ c \in Thread /\ c \in User /\ s \subseteq Bit /\ o \in Option /\ ev \in EvType
      /\ ev.set \subseteq Bit
  BY EvAlive, EvAssumption DEF User, Bits, EvInv, EvType
<1>1. op[c].on = NoObj /\ op[c].pc = "run" /\ loc \in LocType /\ k.stat[c] = "READY"
  BY <1>0, AtFacts DEF Base
<1> DEFINE r == [set |-> s, opt |-> o, want |-> s \cap ev.set]
           set == IF o.clear THEN ev.set \ s ELSE ev.set
<1>2. EvWritten(c, set, r)
  <2>1. r \in EvCallRec /\ set \subseteq Bit
    BY <1>0 DEF EvCallRec
  <2>2. ev' = [ev EXCEPT !.set = set, !.call[c] = r]
    BY DEF RecvNow
  <2> HIDE DEF r, set
  <2> QED BY <1>0, <2>1, <2>2, EvWrites
<1>3. KStep({c}, {}, "EOK") /\ op'[c].pc = "return" /\ op'[c].on = "ev" /\ k' = k
  <2>1. /\ "return" \in IpcPC \ (WaitPC \cup ResumePC \cup {"assert"}) /\ "ev" \in Obj \cup {NoObj}
        /\ "run" \notin {"wait_sched", "sleep_sched"} /\ ("return" = "run" => "ev" = NoObj)
    BY <1>0 DEF IpcPC, WaitPC, ResumePC
  <2>2. Call(c, "return", "ev") /\ k' = k
    BY DEF RecvNow
  <2> QED BY <1>0, <2>1, <2>2, QuietStep
<1>4. OwnStep({"ev"})
  <2>1. op'[c].pc \notin SleepPC \cup HandPC \cup {"mp_time"}
    BY <1>3 DEF SleepPC, HandPC
  <2>2. \A t \in Thread : t \in {c} \/ loc'[t] = loc[t]
    OBVIOUS
  <2> QED BY <1>0, <1>1, <1>3, <2>1, <2>2, OwnAlone
<1>5. r.set = s /\ r.opt = o /\ r.want = s \cap ev.set /\ set \subseteq ev.set
  OBVIOUS
<1>6. Satisfied(s, o, s \cap ev.set)
  BY DEF Satisfied
<1>7. \A b \in ev.set \ set : o.clear /\ b \in s \cap ev.set
  OBVIOUS
<1> HIDE DEF r, set
<1>8. /\ ev' \in EvType /\ ev'.set = set /\ ev'.call[c] = r
      /\ \A t \in Thread : t = c \/ ev'.call[t] = ev.call[t]
  BY <1>2 DEF EvWritten
<1>9. EvIn(c)' /\ ~EvIn(c) /\ ~Linked(k', c, Wait("ev"))
  <2>1. EvIn(c)' /\ ~EvIn(c)
    BY <1>0, <1>1, <1>3 DEF EvIn
  <2>2. ~Linked(k, c, Wait("ev"))
    BY <1>0, <1>1, ReadyFacts
  <2> QED BY <1>3, <2>1, <2>2
<1>10. EvWaits(c)' /\ EvTold(c)'
  BY <1>5, <1>6, <1>8, <1>9 DEF EvWaits, EvTold
<1>11. ASSUME NEW t \in Thread, t # c PROVE EvWaits(t)' /\ EvTold(t)' /\ t \notin EvToldNow
  <2>1. Kept(t) /\ EvWaits(t) /\ EvTold(t)
    BY <1>3, <1>11 DEF KStep, EvInv
  <2> QED BY <1>0, <1>5, <1>8, <1>11, <2>1, EvKept
<1>12. EvTaken
  <2>1. \A t \in Thread : t = c \/ t \notin EvToldNow
    BY <1>11
  <2>2. \A b \in ev.set \ ev'.set : c \in EvToldNow /\ b \in ev'.call[c].want
    BY <1>5, <1>7, <1>8, <1>9 DEF EvToldNow
  <2> QED BY <2>1, <2>2, EvOneTold
<1> QED BY <1>4, <1>8, <1>10, <1>11, <1>12 DEF EvStep, EvInv

LEMMA EvRecvWaitInv ==
  ASSUME Base, EvInv, NEW c \in EvReceiver, NEW s \in Bits, NEW o \in EvOption,
         NEW w \in TimeOf[c] \cup {0}, At(c, "run"), "ev" \in alive, ~Satisfied(s, o, ev.set),
         RecvWait(c, s, o, w), alive' = alive, loc' = loc
  PROVE  EvStep
<1>0. /\ alive = {"ev"} /\ "ev" \in Obj /\ IpcInv /\ DetachInv /\ IpcTypeOK /\ NoObj \notin Obj
      /\ c \in Thread /\ c \in User /\ s \subseteq Bit /\ o \in Option /\ ev \in EvType
      /\ ev.set \subseteq Bit
  BY EvAlive, EvAssumption DEF User, Bits, EvInv, EvType
<1>1. op[c].on = NoObj /\ op[c].pc = "run" /\ loc \in LocType /\ k.cur = c /\ k.stat[c] = "READY"
  BY <1>0, AtFacts DEF Base
<1> DEFINE r == [set |-> s, opt |-> o, want |-> s]
<1>2. EvWritten(c, ev.set, r)
  <2>1. r \in EvCallRec
    BY <1>0 DEF EvCallRec
  <2>2. ev' = [ev EXCEPT !.call[c] = r]
    BY DEF RecvWait
  <2> HIDE DEF r
  <2> QED BY <1>0, <2>1, <2>2, EvWrites
<1>3. Sleeps(c, "ev", w)
  <2>1. w > 0 => w \in Nat
    BY <1>0, TimeFacts
  <2>2. k' = Block(k, "ev", c, w) /\ Call(c, "wait_sched", "ev")
    BY DEF RecvWait
  <2> QED BY <1>0, <1>1, <2>1, <2>2, BlockSleeps
<1>4. OwnStep({"ev"})
  <2>1. \A t \in Thread : t = c \/ loc'[t] = loc[t]
    OBVIOUS
  <2> QED BY <1>0, <1>1, <1>3, <2>1, OwnSleeps
<1>5. r.set = s /\ r.opt = o /\ r.want = s
  OBVIOUS
<1> HIDE DEF r
<1>6. /\ ev' \in EvType /\ ev'.set = ev.set /\ ev'.call[c] = r
      /\ \A t \in Thread : t = c \/ ev'.call[t] = ev.call[t]
  BY <1>2 DEF EvWritten
<1>7. ~EvIn(c)'
  <2>1. op'[c].pc = "wait_sched" /\ op'[c].on = "ev" /\ Linked(k', c, Wait("ev"))
    BY <1>0, <1>3 DEF Sleeps
  <2> QED BY <2>1 DEF EvIn, Woken
<1>8. EvWaits(c)' /\ EvTold(c)' /\ c \notin EvToldNow
  BY <1>5, <1>6, <1>7 DEF EvWaits, EvTold, EvToldNow
<1>9. ASSUME NEW t \in Thread, t # c PROVE EvWaits(t)' /\ EvTold(t)' /\ t \notin EvToldNow
  <2>1. Kept(t) /\ EvWaits(t) /\ EvTold(t)
    BY <1>3, <1>9 DEF Sleeps, EvInv
  <2> QED BY <1>0, <1>6, <1>9, <2>1, EvKept
<1>10. EvTaken
  <2>1. \A t \in Thread : t = c \/ t \notin EvToldNow
    BY <1>9
  <2>2. \A b \in ev.set \ ev'.set : c \in EvToldNow /\ b \in ev'.call[c].want
    BY <1>6
  <2> QED BY <2>1, <2>2, EvOneTold
<1> QED BY <1>4, <1>6, <1>8, <1>9, <1>10 DEF EvStep, EvInv

LEMMA EvRecvInv ==
  ASSUME Base, EvInv, NEW c \in EvReceiver, NEW s \in Bits, NEW o \in EvOption,
         NEW d \in TimeOf[c] \cup {0}, rt_event_recv(c, s, o, d)
  PROVE  EvStep
<1>1. CASE Satisfied(s, o, ev.set)
  BY <1>1, EvRecvNowInv DEF rt_event_recv
<1>2. CASE ~Satisfied(s, o, ev.set)
  BY <1>2, EvRecvWaitInv DEF rt_event_recv
<1> QED BY <1>1, <1>2

LEMMA EvRecvedInv ==
  ASSUME Base, EvInv, NEW c \in User, EvRecved(c)
  PROVE  EvStep
<1>0. "ev" \in Obj /\ Retry(c, "ev") /\ Goto(c, "return") /\ k' = k /\ alive' = alive /\ loc' = loc /\ ev' = ev
  BY ObjNames DEF EvRecved
<1>1. /\ c \in Thread /\ IpcInv /\ DetachInv /\ IpcTypeOK /\ At(c, "wait_return")
      /\ op[c].on = "ev" /\ op[c].pc = "wait_return" /\ Blocked(c) /\ k.stat[c] = "READY"
      /\ Woken(c) /\ "ev" \in alive
  BY <1>0, RetryFacts
<1>2. alive = {"ev"} /\ NoObj \notin Obj /\ loc \in LocType
  BY <1>1, EvAlive DEF Base
<1>3. KStep({c}, {}, "EOK") /\ op'[c].pc = "return" /\ op'[c].on = "ev"
  <2>1. /\ "return" \in IpcPC \ (WaitPC \cup ResumePC \cup {"assert"}) /\ "ev" \in Obj \cup {NoObj}
        /\ "wait_return" \notin {"wait_sched", "sleep_sched"} /\ ("return" = "run" => "ev" = NoObj)
    BY <1>0 DEF IpcPC, WaitPC, ResumePC
  <2>2. Call(c, "return", "ev")
    BY <1>0, <1>1, GotoCall
  <2> QED BY <1>0, <1>1, <2>1, <2>2, QuietStep, Zenon
<1>4. OwnStep({"ev"})
  <2>1. op'[c].pc \notin SleepPC \cup HandPC \cup {"mp_time"}
    BY <1>3 DEF SleepPC, HandPC
  <2>2. \A t \in Thread : t \in {c} \/ loc'[t] = loc[t]
    BY <1>0
  <2> QED BY <1>0, <1>1, <1>2, <1>3, <2>1, <2>2, OwnAlone
<1>5. EvIn(c) /\ ~Linked(k', c, Wait("ev"))
  <2>1. ~Linked(k, c, Wait("ev"))
    BY <1>0, <1>1, ReadyFacts
  <2> QED BY <1>0, <1>1, <2>1 DEF EvIn
<1>6. EvWaits(c)' /\ EvTold(c)' /\ c \notin EvToldNow
  BY <1>0, <1>1, <1>5 DEF EvInv, EvWaits, EvTold, EvToldNow
<1>7. ASSUME NEW t \in Thread, t # c PROVE EvWaits(t)' /\ EvTold(t)' /\ t \notin EvToldNow
  <2>1. Kept(t) /\ EvWaits(t) /\ EvTold(t)
    BY <1>3, <1>7 DEF KStep, EvInv
  <2> QED BY <1>0, <1>1, <2>1, EvKept
<1>8. EvTaken
  <2>1. \A t \in Thread : t = c \/ t \notin EvToldNow
    BY <1>7
  <2>2. \A b \in ev.set \ ev'.set : c \in EvToldNow /\ b \in ev'.call[c].want
    BY <1>0
  <2> QED BY <2>1, <2>2, EvOneTold
<1> QED BY <1>0, <1>4, <1>6, <1>7, <1>8 DEF EvStep, EvInv

LEMMA EvCleared ==
  ASSUME ev \in EvType, ev' = [ev EXCEPT !.set = {}]
  PROVE  ev' \in EvType /\ ev'.set = {} /\ ev'.call = ev.call
BY DEF EvType

LEMMA EvControlInv ==
  ASSUME Base, EvInv, NEW c \in User, rt_event_control(c)
  PROVE  EvStep
<1>0. /\ At(c, "run") /\ "ev" \in alive /\ alive' = alive /\ loc' = loc
      /\ ev' = [ev EXCEPT !.set = {}]
      /\ Call(c, "sched", NoObj) /\ k' = ResumeAll(k, "ev")
  BY DEF rt_event_control
<1>1. /\ alive = {"ev"} /\ "ev" \in Obj /\ IpcInv /\ DetachInv /\ IpcTypeOK /\ NoObj \notin Obj
      /\ c \in Thread
  BY <1>0, EvAlive DEF User
<1>2. op[c].on = NoObj /\ op[c].pc = "run" /\ loc \in LocType /\ k.stat[c] = "READY"
  BY <1>0, <1>1, AtFacts DEF Base
<1> DEFINE W == Range(Waiters("ev"))
           O == {"ev"}
<1>3. Resumed(k', O, W, "ERROR") /\ k'.list[Wait("ev")] = <<>> /\ k'.cur = k.cur /\ O \subseteq alive
  BY <1>0, <1>1, AllResumed
<1> HIDE DEF W, O
<1>4. KStep({c}, W, "ERROR") /\ op'[c].pc = "sched" /\ op'[c].on = NoObj
  BY <1>0, <1>1, <1>3, SchedCall
<1>5. OwnStep({"ev"})
  <2>1. op'[c].pc \notin SleepPC \cup HandPC \cup {"mp_time"}
    BY <1>4 DEF SleepPC, HandPC
  <2>2. \A t \in Thread : t \in {c} \/ loc'[t] = loc[t]
    BY <1>0
  <2> QED BY <1>0, <1>1, <1>2, <1>4, <2>1, <2>2, OwnAlone
<1>6. ev' \in EvType /\ ev'.set = {} /\ ev'.call = ev.call
  BY <1>0, EvCleared DEF EvInv
<1>7. ASSUME NEW t \in Thread PROVE EvWaits(t)' /\ EvTold(t)'
  <2>1. ~Linked(k', t, Wait("ev"))
    BY <1>3 DEF Linked, Range
  <2>2. EvTold(t)'
    <3>1. CASE t = c
      BY <1>1, <1>4, <3>1 DEF EvTold, EvIn
    <3>2. CASE t \in W
      <4>1. op'[t] = op[t] /\ Blocked(t) /\ k'.err[t] = "ERROR"
        BY <1>4, <3>2 DEF KStep, Roused
      <4>2. ~Woken(t)' /\ op'[t].pc # "return"
        BY <4>1 DEF Woken, Blocked
      <4> QED BY <4>2 DEF EvTold, EvIn
    <3>3. CASE t # c /\ t \notin W
      <4>1. Kept(t) /\ EvTold(t)
        BY <1>4, <3>3 DEF KStep, EvInv
      <4>2. EvIn(t)' <=> EvIn(t)
        BY <1>1, <4>1, EvInKept
      <4> QED BY <1>6, <4>1, <4>2 DEF EvTold
    <3> QED BY <3>1, <3>2, <3>3
  <2> QED BY <2>1, <2>2 DEF EvWaits
<1>8. EvTaken
  BY DEF EvTaken
<1> QED BY <1>5, <1>6, <1>7, <1>8 DEF EvStep, EvInv

LEMMA EvInitInv ==
  ASSUME Base, EvInv, NEW c \in User, rt_event_init(c)
  PROVE  EvStep
<1>1. Create(c, {"ev"}) /\ ev' = ev
  BY DEF rt_event_init
<1>2. /\ OwnStep({"ev"}) /\ alive = {} /\ alive' = {"ev"} /\ k' = k /\ op' = op /\ loc' = loc
      /\ \A t \in Thread : op[t].on = NoObj
      /\ \A t \in Thread, o \in Obj : ~Linked(k, t, Wait(o))
  BY <1>1, OwnCreate
<1>3. \A t \in Thread : EvWaits(t)' /\ EvTold(t)' /\ t \notin EvToldNow
  BY <1>2, ObjNames DEF EvWaits, EvTold, EvIn, EvToldNow
<1>4. EvTaken
  <2>1. \A t \in Thread : t = c \/ t \notin EvToldNow
    BY <1>3
  <2>2. \A b \in ev.set \ ev'.set : c \in EvToldNow /\ b \in ev'.call[c].want
    BY <1>1
  <2> QED BY <2>1, <2>2, EvOneTold
<1> QED BY <1>1, <1>2, <1>3, <1>4 DEF EvStep, EvInv

LEMMA EvDetachInv ==
  ASSUME Base, EvInv, NEW c \in User, rt_event_detach(c)
  PROVE  EvStep
<1>1. Detach(c, {"ev"}, "ev") /\ ev' = [ev EXCEPT !.set = {}]
  BY DEF rt_event_detach
<1>2. /\ OwnStep({"ev"}) /\ alive' = {} /\ k' = k /\ loc' = loc
      /\ op'[c].pc = "resume_test" /\ op[c].pc = "run" /\ op[c].on = NoObj
      /\ \A t \in Thread \ {c} : op'[t] = op[t]
  <2>1. "ev" \in {"ev"} /\ {"ev"} = {"ev", After("ev")} \cap Obj
    BY ObjNames DEF After
  <2> QED BY <1>1, <2>1, OwnDetach
<1>3. ev' \in EvType /\ ev'.set = {} /\ ev'.call = ev.call
  BY <1>1, EvCleared DEF EvInv
<1>4. ASSUME NEW t \in Thread PROVE EvWaits(t)' /\ EvTold(t)'
  <2>1. EvWaits(t) /\ EvTold(t)
    BY DEF EvInv
  <2>2. EvWaits(t)'
    BY <1>2, <1>3, <2>1 DEF EvWaits
  <2>3. EvTold(t)'
    <3>1. CASE t = c
      <4>1. ~EvIn(t)'
        BY <1>2, <3>1 DEF EvIn, Woken, Blocked
      <4> QED BY <4>1 DEF EvTold
    <3>2. CASE t # c
      <4>1. EvIn(t)' <=> EvIn(t)
        BY <1>2, <3>2 DEF EvIn, Woken, Blocked
      <4> QED BY <1>3, <2>1, <4>1 DEF EvTold
    <3> QED BY <3>1, <3>2
  <2> QED BY <2>2, <2>3
<1>5. EvTaken
  BY DEF EvTaken
<1> QED BY <1>2, <1>3, <1>4, <1>5 DEF EvStep, EvInv

LEMMA EvNextInv ==
  ASSUME Base, EvInv, EvNext
  PROVE  EvStep
BY EvSendInv, EvRecvInv, EvRecvedInv, EvControlInv, EvInitInv, EvDetachInv, EvIsrInv DEF EvNext

\* A step of another object.
LEMMA EvForeign ==
  ASSUME Base, EvInv, NEW O, OwnStep(O), "ev" \notin O, ev' = ev
  PROVE  EvInv' /\ EvTaken
<1>0. IpcTypeOK /\ "ev" \in Obj /\ NoObj \notin Obj /\ IpcInv /\ IpcInv'
  BY ObjNames DEF Base, IpcInv, OwnStep
<1>1. "ev" \notin alive /\ "ev" \notin alive'
  BY DEF OwnStep
<1>2. ASSUME NEW t \in Thread PROVE EvWaits(t)' /\ EvTold(t)' /\ t \notin EvToldNow
  <2>1. EvWaits(t) /\ EvTold(t)
    BY DEF EvInv
  <2>2. CASE Kept(t)
    <3>1. (EvIn(t)' <=> EvIn(t)) /\ (Linked(k', t, Wait("ev")) <=> Linked(k, t, Wait("ev")))
      BY <1>0, <2>2, EvInKept
    <3> QED BY <1>1, <2>1, <3>1 DEF EvWaits, EvTold, EvToldNow
  <2>3. CASE op'[t].on \in O \cup {NoObj}
    <3>1. op'[t].on # "ev"
      BY <1>0, <2>3
    <3>2. ~Linked(k', t, Wait("ev"))
      BY <1>0, <3>1 DEF IpcInv, CallerOK
    <3> QED BY <3>1, <3>2 DEF EvWaits, EvTold, EvToldNow, EvIn
  <2> QED BY <2>2, <2>3 DEF OwnStep
<1>3. EvTaken
  <2>1. \A t \in Thread : t = idle \/ t \notin EvToldNow
    BY <1>2
  <2>2. \A b \in ev.set \ ev'.set : idle \in EvToldNow /\ b \in ev'.call[idle].want
    OBVIOUS
  <2> QED BY <2>1, <2>2, EvOneTold
<1> QED BY <1>2, <1>3 DEF EvInv

\* A step that belongs to no object.
LEMMA EvAside ==
  ASSUME Base, EvInv, RetryNext, EvForget
  PROVE  EvInv' /\ EvTaken
<1>1. Base' /\ alive' = alive /\ (\A t \in Thread : Aside(t)) /\ "ev" \in Obj /\ NoObj \notin Obj
  BY RetryAside, ObjNames
<1>2. ev.call \in [Thread -> EvCallRec] /\ ev.set \subseteq Bit
  BY DEF EvInv, EvType, EvCallRec
<1>3. NoCall \in EvCallRec
  BY DEF NoCall, EvCallRec, NoOption, Option
<1> DEFINE g == [t \in Thread |-> IF op'[t].on = "ev" THEN ev.call[t] ELSE NoCall]
<1>4. ev'.set = ev.set /\ ev'.call = g /\ ev' \in EvType
  <2>1. ev' = [ev EXCEPT !.call = g]
    BY DEF EvForget
  <2>2. g \in [Thread -> EvCallRec]
    BY <1>2, <1>3
  <2> HIDE DEF g
  <2> QED BY <1>2, <2>1, <2>2 DEF EvInv, EvType, EvCallRec
<1>5. \A t \in Thread : op'[t].on = "ev" => ev'.call[t] = ev.call[t]
  BY <1>4
<1> HIDE DEF g
<1>6. ASSUME NEW t \in Thread PROVE EvWaits(t)' /\ EvTold(t)' /\ t \notin EvToldNow
  <2>1. EvWaits(t) /\ EvTold(t) /\ Aside(t)
    BY <1>1 DEF EvInv
  <2>2. EvWaits(t)'
    <3> SUFFICES ASSUME Linked(k', t, Wait("ev")) PROVE EvWaits(t)'
      BY DEF EvWaits
    <3>1. op'[t].on = "ev"
      BY <1>1 DEF Base, IpcInv, CallerOK
    <3>2. Linked(k, t, Wait("ev"))
      BY <1>1, <2>1 DEF Aside
    <3> QED BY <1>1, <1>4, <1>5, <2>1, <3>1, <3>2 DEF EvWaits
  <2>3. EvIn(t)' => EvIn(t) /\ op'[t].on = "ev"
    <3> SUFFICES ASSUME EvIn(t)' PROVE EvIn(t) /\ op'[t].on = "ev"
      OBVIOUS
    <3>1. op'[t].on = "ev" /\ (Woken(t)' \/ op'[t].pc = "return")
      BY DEF EvIn
    <3>2. op'[t].pc \notin ResumePC /\ op'[t].on # NoObj
      BY <1>1, <3>1 DEF Woken, Blocked, ResumePC
    <3>3. op[t].on = "ev" /\ (op'[t].pc = op[t].pc \/ Blocked(t)')
      BY <2>1, <3>1, <3>2 DEF Aside
    <3>4. Woken(t)' <=> Woken(t)
      BY <2>1 DEF Aside
    <3> QED BY <3>1, <3>3, <3>4 DEF EvIn, Blocked
  <2> QED BY <1>5, <2>1, <2>2, <2>3 DEF EvTold, EvToldNow
<1>7. EvTaken
  <2>1. \A t \in Thread : t = idle \/ t \notin EvToldNow
    BY <1>6
  <2>2. \A b \in ev.set \ ev'.set : idle \in EvToldNow /\ b \in ev'.call[idle].want
    BY <1>4
  <2> QED BY <2>1, <2>2, EvOneTold
<1> QED BY <1>4, <1>6, <1>7 DEF EvInv

-----------------------------------------------------------------------------
(* The message queue: chains of buffers *)

\* s is the chain of buffers from n on.
PathOf(next, n, s) ==
  /\ s \in Seq(Node) /\ IsInjective(s)
  /\ n = IF s = <<>> THEN Null ELSE s[1]
  /\ \A i \in 1 .. Len(s) : next[s[i]] = IF i = Len(s) THEN Null ELSE s[i + 1]

NextType == [Node -> Node \cup {Null}]

ConsFun(m, s) == [i \in 1 .. Len(s) + 1 |-> IF i = 1 THEN m ELSE s[i - 1]]

LEMMA ConsIs ==
  ASSUME NEW S, NEW s \in Seq(S), NEW m \in S
  PROVE  <<m>> \o s = ConsFun(m, s) /\ <<m>> \o s \in Seq(S) /\ Len(<<m>> \o s) = Len(s) + 1
<1> DEFINE r == <<m>> \o s
           f == ConsFun(m, s)
<1>1. r \in Seq(S) /\ Len(r) = Len(s) + 1 /\ Len(s) \in Nat
  OBVIOUS
<1>2. DOMAIN r = 1 .. Len(s) + 1 /\ DOMAIN f = 1 .. Len(s) + 1
  BY <1>1 DEF ConsFun
<1>3. ASSUME NEW i \in 1 .. Len(s) + 1 PROVE r[i] = f[i]
  BY <1>1 DEF ConsFun
<1>4. r = [i \in DOMAIN r |-> r[i]] /\ f = [i \in DOMAIN f |-> f[i]]
  BY <1>1 DEF ConsFun
<1> HIDE DEF r, f
<1>5. r = f
  BY <1>2, <1>3, <1>4
<1> QED BY <1>1, <1>5 DEF r, f

LEMMA NodeFacts ==
  /\ MaxMsgs \in Nat /\ MaxMsgs >= 1 /\ Node = 1 .. MaxMsgs /\ Null \notin Node /\ Null = 0
  /\ IsFiniteSet(Node) /\ Cardinality(Node) = MaxMsgs
<1>1. MaxMsgs \in Nat /\ MaxMsgs >= 1
  BY MqAssumption
<1>2. IsFiniteSet(1 .. MaxMsgs) /\ Cardinality(1 .. MaxMsgs) = MaxMsgs
  BY <1>1, FS_Interval
<1> QED BY <1>1, <1>2 DEF Node, Null

\* A chain that the step does not touch.
LEMMA PathKept ==
  ASSUME NEW next, NEW n, NEW s, PathOf(next, n, s), NEW g, \A x \in Range(s) : g[x] = next[x]
  PROVE  PathOf(g, n, s)
<1>1. \A i \in 1 .. Len(s) : s[i] \in Range(s)
  BY DEF PathOf, Range
<1> QED BY <1>1 DEF PathOf

\* A buffer comes in front of a chain.
LEMMA PathFront ==
  ASSUME NEW next, NEW n, NEW s, PathOf(next, n, s), NEW m \in Node, m \notin Range(s),
         NEW g, \A x \in Range(s) : g[x] = next[x], g[m] = n
  PROVE  LET r == <<m>> \o s
         IN  /\ PathOf(g, m, r) /\ Range(r) = Range(s) \cup {m} /\ Len(r) = Len(s) + 1
             /\ r # <<>> /\ r[Len(r)] = IF s = <<>> THEN m ELSE s[Len(s)]
<1> DEFINE r == <<m>> \o s
<1>1. s \in Seq(Node) /\ Len(s) \in Nat /\ (s = <<>> <=> Len(s) = 0) /\ IsInjective(s)
  BY DEF PathOf
<1>2. r \in Seq(Node) /\ Range(r) = Range(s) \cup {m} /\ IsInjective(r)
  BY <1>1, RangePrepend
<1>3. r = ConsFun(m, s) /\ Len(r) = Len(s) + 1
  BY <1>1, ConsIs
<1> HIDE DEF r
<1>4. Len(r) = Len(s) + 1
  BY <1>3
<1>5. r[1] = m /\ r # <<>> /\ \A i \in 1 .. Len(s) : r[i + 1] = s[i]
  <2>1. r[1] = m
    BY <1>1, <1>3 DEF ConsFun
  <2>2. ASSUME NEW i \in 1 .. Len(s) PROVE r[i + 1] = s[i]
    <3>1. i + 1 \in 1 .. Len(s) + 1 /\ i + 1 # 1 /\ (i + 1) - 1 = i
      BY <1>1
    <3> QED BY <1>3, <3>1 DEF ConsFun
  <2> QED BY <1>1, <1>2, <1>4, <2>1, <2>2
<1>6. ASSUME NEW i \in 1 .. Len(r) PROVE g[r[i]] = IF i = Len(r) THEN Null ELSE r[i + 1]
  <2>1. CASE i = 1
    <3>1. g[r[1]] = IF s = <<>> THEN Null ELSE s[1]
      BY <1>5 DEF PathOf
    <3>2. CASE s = <<>>
      BY <1>1, <1>4, <2>1, <3>1, <3>2
    <3>3. CASE s # <<>>
      <4>1. 1 \in 1 .. Len(s)
        BY <1>1, <3>3
      <4>2. r[1 + 1] = s[1]
        BY <1>5, <4>1
      <4> QED BY <1>1, <1>4, <2>1, <3>1, <3>3, <4>2
    <3> QED BY <3>2, <3>3
  <2>2. CASE i # 1
    <3> DEFINE j == i - 1
    <3>1. j \in 1 .. Len(s) /\ i = j + 1 /\ (j = Len(s) <=> i = Len(r))
      BY <1>1, <1>4, <2>2
    <3> HIDE DEF j
    <3>2. r[i] = s[j] /\ s[j] \in Range(s)
      BY <1>1, <1>5, <3>1 DEF Range
    <3>3. g[s[j]] = IF j = Len(s) THEN Null ELSE s[j + 1]
      BY <3>1, <3>2 DEF PathOf
    <3>4. j # Len(s) => s[j + 1] = r[i + 1]
      <4> SUFFICES ASSUME j # Len(s) PROVE s[j + 1] = r[i + 1]
        OBVIOUS
      <4>1. j + 1 \in 1 .. Len(s)
        BY <1>1, <3>1
      <4> QED BY <1>5, <3>1, <4>1
    <3> QED BY <3>1, <3>2, <3>3, <3>4
  <2> QED BY <2>1, <2>2
<1>7. PathOf(g, m, r)
  BY <1>2, <1>5, <1>6 DEF PathOf
<1>8. r[Len(r)] = IF s = <<>> THEN m ELSE s[Len(s)]
  BY <1>1, <1>4, <1>5
<1> QED BY <1>2, <1>4, <1>5, <1>7, <1>8 DEF r

\* The first buffer of a chain leaves it.
LEMMA PathRest ==
  ASSUME NEW next, NEW n, NEW s, PathOf(next, n, s), n # Null
  PROVE  LET r == Tail(s)
         IN  /\ PathOf(next, next[n], r) /\ Len(r) = Len(s) - 1 /\ Len(s) \in Nat /\ s # <<>>
             /\ n = s[1] /\ n \in Node /\ n \notin Range(r) /\ Range(s) = Range(r) \cup {n}
             /\ s[Len(s)] = IF r = <<>> THEN n ELSE r[Len(r)]
             /\ s[Len(s)] = n <=> r = <<>>
<1> DEFINE r == Tail(s)
<1>1. /\ s \in Seq(Node) /\ Len(s) \in Nat /\ (s = <<>> <=> Len(s) = 0) /\ IsInjective(s) /\ s # <<>>
      /\ n = s[1] /\ DOMAIN s = 1 .. Len(s)
  BY DEF PathOf
<1>2. /\ r \in Seq(Node) /\ Len(r) = Len(s) - 1 /\ Len(r) \in Nat /\ DOMAIN r = 1 .. Len(r)
      /\ (r = <<>> <=> Len(r) = 0) /\ Len(s) = Len(r) + 1
  <2>1. r \in Seq(Node) /\ Len(r) = Len(s) - 1
    BY ONLY <1>1
  <2> HIDE DEF r
  <2>2. Len(r) \in Nat /\ DOMAIN r = 1 .. Len(r) /\ (r = <<>> <=> Len(r) = 0)
    BY ONLY <2>1
  <2> QED BY ONLY <1>1, <2>1, <2>2
<1>3. \A i \in 1 .. Len(r) : i \in 1 .. Len(s) /\ i + 1 \in 1 .. Len(s) /\ r[i] = s[i + 1]
  BY <1>1, <1>2
<1>4. \A i \in 1 .. Len(s) : i = 1 \/ (i - 1 \in 1 .. Len(r) /\ s[i] = r[i - 1])
  <2> SUFFICES ASSUME NEW i \in 1 .. Len(s), i # 1 PROVE i - 1 \in 1 .. Len(r) /\ s[i] = r[i - 1]
    OBVIOUS
  <2>1. i - 1 \in 1 .. Len(r) /\ (i - 1) + 1 = i
    BY <1>1, <1>2
  <2> QED BY <1>3, <2>1
<1> HIDE DEF r
<1>5. 1 \in 1 .. Len(s) /\ n \in Node
  BY <1>1
<1>6. \A i \in 1 .. Len(r) : r[i] # n
  BY <1>1, <1>3, <1>5 DEF IsInjective
<1>7. n \notin Range(r)
  BY <1>2, <1>6 DEF Range
<1>8. IsInjective(r)
  <2> SUFFICES ASSUME NEW i \in 1 .. Len(r), NEW j \in 1 .. Len(r), r[i] = r[j] PROVE i = j
    BY <1>2 DEF IsInjective
  <2>1. s[i + 1] = s[j + 1] /\ i + 1 \in 1 .. Len(s) /\ j + 1 \in 1 .. Len(s)
    BY <1>3
  <2>2. i + 1 = j + 1
    BY <1>1, <2>1 DEF IsInjective
  <2> QED BY <2>2
<1>9. Range(s) = Range(r) \cup {n}
  <2>1. ASSUME NEW x \in Range(s) PROVE x \in Range(r) \cup {n}
    <3>1. PICK i \in 1 .. Len(s) : x = s[i]
      BY <1>1 DEF Range
    <3>2. CASE i = 1
      BY <1>1, <3>1, <3>2
    <3>3. CASE i # 1
      BY <1>2, <1>4, <3>1, <3>3 DEF Range
    <3> QED BY <3>2, <3>3
  <2>2. \A x \in Range(r) : x \in Range(s)
    BY <1>1, <1>2, <1>3 DEF Range
  <2>3. n \in Range(s)
    BY <1>1, <1>5 DEF Range
  <2> QED BY <2>1, <2>2, <2>3
<1>10. next[n] = IF r = <<>> THEN Null ELSE r[1]
  <2>1. next[s[1]] = IF 1 = Len(s) THEN Null ELSE s[1 + 1]
    BY <1>5 DEF PathOf
  <2>2. CASE r = <<>>
    BY <1>1, <1>2, <2>1, <2>2
  <2>3. CASE r # <<>>
    <3>1. 1 \in 1 .. Len(r) /\ Len(s) # 1
      BY <1>1, <1>2, <2>3
    <3> QED BY <1>1, <1>3, <2>1, <2>3, <3>1
  <2> QED BY <2>2, <2>3
<1>11. ASSUME NEW i \in 1 .. Len(r) PROVE next[r[i]] = IF i = Len(r) THEN Null ELSE r[i + 1]
  <2>1. next[s[i + 1]] = IF i + 1 = Len(s) THEN Null ELSE s[(i + 1) + 1]
    BY <1>3 DEF PathOf
  <2>2. CASE i = Len(r)
    BY <1>1, <1>2, <1>3, <2>1, <2>2
  <2>3. CASE i # Len(r)
    <3>0. Len(s) = Len(r) + 1 /\ Len(r) \in Nat
      BY <1>2
    <3>1. i + 1 \in 1 .. Len(r) /\ i + 1 # Len(s)
      BY ONLY <2>3, <3>0, i \in 1 .. Len(r)
    <3> QED BY <1>3, <2>1, <2>3, <3>1
  <2> QED BY <2>2, <2>3
<1>12. PathOf(next, next[n], r)
  BY <1>2, <1>8, <1>10, <1>11 DEF PathOf
<1>13. s[Len(s)] = IF r = <<>> THEN n ELSE r[Len(r)]
  <2>1. CASE r = <<>>
    <3>0. Len(s) = Len(r) + 1 /\ Len(r) = 0
      BY <1>2, <2>1
    <3>1. Len(s) = 1
      BY ONLY <3>0
    <3> QED BY <1>1, <2>1, <3>1
  <2>2. CASE r # <<>>
    <3>1. Len(r) \in 1 .. Len(r) /\ Len(r) + 1 = Len(s)
      BY <1>1, <1>2, <2>2
    <3> QED BY <1>3, <2>2, <3>1
  <2> QED BY <2>1, <2>2
<1>14. s[Len(s)] = n <=> r = <<>>
  <2>1. r # <<>> => Len(r) \in 1 .. Len(r)
    BY <1>2
  <2> QED BY <1>6, <1>13, <2>1
<1> QED BY <1>1, <1>2, <1>5, <1>7, <1>9, <1>12, <1>13, <1>14 DEF r

\* A buffer comes behind a chain.
LEMMA PathBack ==
  ASSUME NEW next, NEW n, NEW s, PathOf(next, n, s), NEW m \in Node, m \notin Range(s),
         NEW g, g[m] = Null, s # <<>> => g[s[Len(s)]] = m,
         \A x \in Range(s) : x = s[Len(s)] \/ g[x] = next[x]
  PROVE  LET r == Append(s, m)
         IN  /\ PathOf(g, IF s = <<>> THEN m ELSE n, r) /\ Range(r) = Range(s) \cup {m}
             /\ Len(r) = Len(s) + 1 /\ r # <<>> /\ r[Len(r)] = m
<1> DEFINE r == Append(s, m)
<1>1. /\ s \in Seq(Node) /\ Len(s) \in Nat /\ (s = <<>> <=> Len(s) = 0) /\ IsInjective(s)
      /\ DOMAIN s = 1 .. Len(s)
  BY DEF PathOf
<1>2. /\ r \in Seq(Node) /\ Len(r) = Len(s) + 1 /\ r # <<>> /\ r[Len(r)] = m /\ DOMAIN r = 1 .. Len(r)
      /\ \A i \in 1 .. Len(s) : r[i] = s[i]
  <2>1. r \in Seq(Node) /\ Len(r) = Len(s) + 1 /\ r[Len(s) + 1] = m
    BY ONLY <1>1, m \in Node
  <2>2. \A i \in 1 .. Len(s) : r[i] = s[i]
    BY ONLY <1>1
  <2> HIDE DEF r
  <2>3. DOMAIN r = 1 .. Len(r) /\ r # <<>>
    BY ONLY <1>1, <2>1
  <2> QED BY <2>1, <2>2, <2>3
<1>3. Range(r) = Range(s) \cup {m} /\ IsInjective(r)
  BY <1>1, RangeAppend
<1> HIDE DEF r
<1>4. ASSUME NEW i \in 1 .. Len(r) PROVE g[r[i]] = IF i = Len(r) THEN Null ELSE r[i + 1]
  <2>1. CASE i = Len(r)
    BY <1>2, <2>1
  <2>2. CASE i # Len(r)
    <3>1. i \in 1 .. Len(s) /\ r[i] = s[i] /\ s[i] \in Range(s)
      BY <1>1, <1>2, <2>2 DEF Range
    <3>2. CASE i = Len(s)
      <4>1. i + 1 = Len(r) /\ s # <<>>
        BY <1>1, <1>2, <3>1, <3>2
      <4>2. g[r[i]] = m
        BY <3>1, <3>2, <4>1
      <4> QED BY <1>2, <2>2, <4>1, <4>2
    <3>3. CASE i # Len(s)
      <4>1. i + 1 \in 1 .. Len(s) /\ Len(s) \in 1 .. Len(s)
        BY <1>1, <3>1, <3>3
      <4>2. s[i] # s[Len(s)]
        BY <1>1, <3>1, <3>3, <4>1 DEF IsInjective
      <4>3. g[s[i]] = next[s[i]]
        BY <3>1, <4>2
      <4>4. next[s[i]] = s[i + 1]
        BY <3>1, <3>3 DEF PathOf
      <4> QED BY <1>2, <2>2, <3>1, <4>1, <4>3, <4>4
    <3> QED BY <3>2, <3>3
  <2> QED BY <2>1, <2>2
<1>5. (IF s = <<>> THEN m ELSE n) = r[1]
  <2>1. CASE s = <<>>
    BY <1>1, <1>2, <2>1
  <2>2. CASE s # <<>>
    <3>1. 1 \in 1 .. Len(s)
      BY <1>1, <2>2
    <3> QED BY <1>2, <2>2, <3>1 DEF PathOf
  <2> QED BY <2>1, <2>2
<1>6. PathOf(g, IF s = <<>> THEN m ELSE n, r)
  BY <1>2, <1>3, <1>4, <1>5 DEF PathOf
<1> QED BY <1>2, <1>3, <1>6 DEF r

-----------------------------------------------------------------------------
(* The buffers of a message queue, in its two chains or in the hands in H *)

MqPlaces(us, fs, H) ==
  /\ Range(us) \cap Range(fs) = {} /\ Range(us) \cap H = {} /\ Range(fs) \cap H = {}
  /\ Range(us) \cup Range(fs) \cup H = Node

MqShape(q, us, fs, H) ==
  /\ q \in MqType /\ PathOf(q.next, q.head, us) /\ PathOf(q.next, q.free, fs)
  /\ Len(us) = q.entry /\ q.tail = IF us = <<>> THEN Null ELSE us[Len(us)]
  /\ MqPlaces(us, fs, H)

\* what the calls do to the queue
MqTaken(q)         == [q EXCEPT !.free = q.next[q.free]]
MqWritten(q, n, m) == [q EXCEPT !.data[n] = m]
MqFilled(q, n, m)  == [q EXCEPT !.next[n] = Null, !.data[n] = m]
MqFreed(q, n)      == [q EXCEPT !.next[n] = q.free, !.free = n]
MqUnlinked(q)      == [q EXCEPT !.head = q.next[q.head],
                                !.tail = IF @ = q.head THEN Null ELSE @,
                                !.entry = @ - 1]

MsgsOf(q, us) == [i \in 1 .. Len(us) |-> q.data[us[i]]]

\* what a step does not change: what is linked behind the buffers that are in
\* somebody's hands, and what is in the buffers, but for n
MqLeaves(q, v, H, n) ==
  /\ \A x \in H : x = n \/ v.next[x] = q.next[x]
  /\ \A x \in Node : x = n \/ v.data[x] = q.data[x]

LEMMA ShapeFacts ==
  ASSUME NEW q, NEW us, NEW fs, NEW H, MqShape(q, us, fs, H)
  PROVE  /\ q \in MqType /\ q.next \in NextType /\ q.data \in [Node -> Msg \cup {Nil}]
         /\ q.entry \in Nat /\ q.entry <= MaxMsgs /\ Len(us) = q.entry
         /\ us \in Seq(Node) /\ fs \in Seq(Node) /\ H \subseteq Node
         /\ Range(us) \subseteq Node /\ Range(fs) \subseteq Node
         /\ (us = <<>> <=> q.entry = 0) /\ (us = <<>> <=> q.head = Null)
         /\ (us # <<>> => us[Len(us)] \in Range(us))
<1>1. q \in MqType /\ us \in Seq(Node) /\ fs \in Seq(Node) /\ MqPlaces(us, fs, H) /\ Len(us) = q.entry
  BY DEF MqShape, PathOf
<1>2. q.entry \in Nat /\ q.entry <= MaxMsgs /\ q.next \in NextType /\ q.data \in [Node -> Msg \cup {Nil}]
  BY <1>1, NodeFacts DEF MqType, NextType
<1>3. (us = <<>> <=> q.entry = 0) /\ (us # <<>> => 1 \in 1 .. Len(us) /\ Len(us) \in 1 .. Len(us))
  BY <1>1
<1>4. us = <<>> <=> q.head = Null
  <2>1. q.head = IF us = <<>> THEN Null ELSE us[1]
    BY DEF MqShape, PathOf
  <2>2. us # <<>> => us[1] \in Node
    BY <1>1, <1>3
  <2> QED BY <2>1, <2>2, NodeFacts
<1>5. us # <<>> => us[Len(us)] \in Range(us)
  BY <1>1, <1>3 DEF Range
<1>6. H \subseteq Node /\ Range(us) \subseteq Node /\ Range(fs) \subseteq Node
  BY <1>1 DEF MqPlaces
<1> QED BY <1>1, <1>2, <1>3, <1>4, <1>5, <1>6

\* What the messages are does not depend on the buffers in the hands.
LEMMA MsgsKept ==
  ASSUME NEW q, NEW us \in Seq(Node), NEW v, \A x \in Range(us) : v.data[x] = q.data[x]
  PROVE  MsgsOf(v, us) = MsgsOf(q, us)
<1>1. \A i \in 1 .. Len(us) : us[i] \in Range(us)
  BY DEF Range
<1> QED BY <1>1 DEF MsgsOf

LEMMA ShapeTake ==
  ASSUME NEW q, NEW us, NEW fs, NEW H, MqShape(q, us, fs, H), q.free # Null,
         NEW v, v = MqTaken(q)
  PROVE  /\ MqShape(v, us, Tail(fs), H \cup {q.free}) /\ q.free \in Node /\ q.free \notin H
         /\ v.data = q.data /\ v.next = q.next /\ v.entry = q.entry /\ MsgsOf(v, us) = MsgsOf(q, us)
<1> DEFINE n == q.free
           r == Tail(fs)
<1>0. q \in MqType /\ q.next \in NextType /\ MqPlaces(us, fs, H)
  BY ShapeFacts DEF MqShape
<1>1. PathOf(q.next, n, fs) /\ n # Null
  BY DEF MqShape
<1> HIDE DEF n
<1>2. /\ PathOf(q.next, q.next[n], r) /\ n \in Node /\ n \notin Range(r)
      /\ Range(fs) = Range(r) \cup {n}
  BY <1>1, PathRest
<1> HIDE DEF r
<1>3. /\ v.head = q.head /\ v.tail = q.tail /\ v.free = q.next[n] /\ v.next = q.next
      /\ v.data = q.data /\ v.entry = q.entry /\ v \in MqType
  <2>1. q.next[n] \in Node \cup {Null}
    BY <1>0, <1>2 DEF NextType
  <2> QED BY <1>0, <2>1 DEF MqType, n, MqTaken
<1>4. MqPlaces(us, r, H \cup {n}) /\ n \notin H
  BY <1>0, <1>2 DEF MqPlaces
<1>5. MqShape(v, us, r, H \cup {n})
  BY <1>2, <1>3, <1>4 DEF MqShape
<1> QED BY <1>2, <1>3, <1>4, <1>5 DEF n, r, MsgsOf

LEMMA ShapeData ==
  ASSUME NEW q, NEW us, NEW fs, NEW H, MqShape(q, us, fs, H), NEW n \in H, NEW m \in Msg \cup {Nil},
         NEW v, v = MqWritten(q, n, m)
  PROVE  /\ MqShape(v, us, fs, H) /\ v.data[n] = m /\ v.next = q.next /\ v.entry = q.entry
         /\ MqLeaves(q, v, H, n) /\ MsgsOf(v, us) = MsgsOf(q, us)
<1>0. /\ q \in MqType /\ q.data \in [Node -> Msg \cup {Nil}] /\ H \subseteq Node /\ us \in Seq(Node)
      /\ n \notin Range(us) /\ n \in Node /\ Range(us) \subseteq Node
  BY ShapeFacts DEF MqShape, MqPlaces
<1>1. /\ v.head = q.head /\ v.tail = q.tail /\ v.free = q.free /\ v.next = q.next
      /\ v.data = [q.data EXCEPT ![n] = m] /\ v.entry = q.entry /\ v \in MqType
  BY <1>0 DEF MqType, MqWritten
<1>2. MqShape(v, us, fs, H)
  BY <1>1 DEF MqShape
<1>3. v.data[n] = m /\ \A x \in Node : x = n \/ v.data[x] = q.data[x]
  BY <1>0, <1>1
<1>4. MsgsOf(v, us) = MsgsOf(q, us)
  BY <1>0, <1>3, MsgsKept
<1> QED BY <1>1, <1>2, <1>3, <1>4 DEF MqLeaves

LEMMA ShapeFill ==
  ASSUME NEW q, NEW us, NEW fs, NEW H, MqShape(q, us, fs, H), NEW n \in H, NEW m \in Msg \cup {Nil},
         NEW v, v = MqFilled(q, n, m)
  PROVE  /\ MqShape(v, us, fs, H) /\ v.data[n] = m /\ v.next[n] = Null /\ v.entry = q.entry
         /\ MqLeaves(q, v, H, n) /\ MsgsOf(v, us) = MsgsOf(q, us)
<1>0. /\ q \in MqType /\ q.data \in [Node -> Msg \cup {Nil}] /\ H \subseteq Node /\ us \in Seq(Node)
      /\ q.next \in NextType /\ fs \in Seq(Node) /\ Range(fs) \subseteq Node
      /\ n \notin Range(us) /\ n \notin Range(fs) /\ n \in Node /\ Range(us) \subseteq Node
  BY ShapeFacts DEF MqShape, MqPlaces
<1> DEFINE g == [q.next EXCEPT ![n] = Null]
<1>1. /\ v.head = q.head /\ v.tail = q.tail /\ v.free = q.free /\ v.next = g
      /\ v.data = [q.data EXCEPT ![n] = m] /\ v.entry = q.entry /\ v \in MqType
  BY <1>0 DEF MqType, MqFilled
<1>2. g[n] = Null /\ \A x \in Node : x = n \/ g[x] = q.next[x]
  BY <1>0 DEF NextType
<1> HIDE DEF g
<1>3. PathOf(g, q.head, us) /\ PathOf(g, q.free, fs)
  <2>1. PathOf(q.next, q.head, us) /\ PathOf(q.next, q.free, fs)
    BY DEF MqShape
  <2>2. (\A x \in Range(us) : g[x] = q.next[x]) /\ \A x \in Range(fs) : g[x] = q.next[x]
    BY <1>0, <1>2
  <2> QED BY <2>1, <2>2, PathKept
<1>4. MqShape(v, us, fs, H)
  BY <1>1, <1>3 DEF MqShape
<1>5. v.data[n] = m /\ \A x \in Node : x = n \/ v.data[x] = q.data[x]
  BY <1>0, <1>1
<1>6. MsgsOf(v, us) = MsgsOf(q, us)
  BY <1>0, <1>5, MsgsKept
<1> QED BY <1>0, <1>1, <1>2, <1>4, <1>5, <1>6 DEF MqLeaves

\* A buffer goes to the free chain.
\* n went from somebody's hands into the free chain.
MqGivenBack(q, v, us, fs, H, n) ==
  /\ MqShape(v, us, <<n>> \o fs, H \ {n}) /\ v.data = q.data /\ v.entry = q.entry
  /\ MqLeaves(q, v, H, n) /\ MsgsOf(v, us) = MsgsOf(q, us)

LEMMA ShapeFree ==
  ASSUME NEW q, NEW us, NEW fs, NEW H, MqShape(q, us, fs, H), NEW n \in H,
         NEW v, v = MqFreed(q, n)
  PROVE  MqGivenBack(q, v, us, fs, H, n)
<1>0. /\ q \in MqType /\ H \subseteq Node /\ us \in Seq(Node) /\ MqPlaces(us, fs, H)
      /\ q.next \in NextType /\ fs \in Seq(Node) /\ Range(fs) \subseteq Node
      /\ n \notin Range(us) /\ n \notin Range(fs) /\ n \in Node /\ Range(us) \subseteq Node
  BY ShapeFacts DEF MqShape, MqPlaces
<1> DEFINE g == [q.next EXCEPT ![n] = q.free]
           r == <<n>> \o fs
<1>1. /\ v.head = q.head /\ v.tail = q.tail /\ v.free = n /\ v.next = g
      /\ v.data = q.data /\ v.entry = q.entry /\ v \in MqType
  BY <1>0 DEF MqType, MqFreed
<1>2. g[n] = q.free /\ \A x \in Node : x = n \/ g[x] = q.next[x]
  BY <1>0 DEF NextType
<1> HIDE DEF g
<1>3. PathOf(q.next, q.head, us) /\ PathOf(q.next, q.free, fs)
  BY DEF MqShape
<1>4. (\A x \in Range(us) : g[x] = q.next[x]) /\ \A x \in Range(fs) : g[x] = q.next[x]
  BY <1>0, <1>2
<1>5. PathOf(g, q.head, us)
  BY <1>3, <1>4, PathKept
<1>6. PathOf(g, n, r) /\ Range(r) = Range(fs) \cup {n}
  BY <1>0, <1>2, <1>3, <1>4, PathFront
<1> HIDE DEF r
<1>7. MqPlaces(us, r, H \ {n})
  BY <1>0, <1>6 DEF MqPlaces
<1>8. MqShape(v, us, r, H \ {n})
  BY <1>1, <1>5, <1>6, <1>7 DEF MqShape
<1> QED BY <1>0, <1>1, <1>2, <1>8 DEF r, MqLeaves, MsgsOf, MqGivenBack

\* A round of rt_mq_control.
LEMMA ShapeGive ==
  ASSUME NEW q, NEW us, NEW fs, NEW H, MqShape(q, us, fs, H), NEW n \in H
  PROVE  /\ MqShape(MqGive(q, n), us, <<n>> \o fs, H \ {n})
         /\ MqLeaves(q, MqGive(q, n), H, n)
<1> DEFINE w == MqWritten(q, n, Nil)
           v == MqFreed(w, n)
           g == [q.next EXCEPT ![n] = q.free]
           d == [q.data EXCEPT ![n] = Nil]
           r == [head |-> q.head, tail |-> q.tail, free |-> n, next |-> g, data |-> d,
                 entry |-> q.entry]
<1>0. q \in MqType
  BY ShapeFacts
<1>1. MqGive(q, n) = r
  <2>1. MqGive(q, n) = [q EXCEPT !.next = g, !.free = n, !.data = d]
    BY DEF MqGive
  <2> HIDE DEF g, d
  <2> QED BY ONLY <1>0, <2>1 DEF MqType, r
<1>2. v = r
  <2>1. w = [head |-> q.head, tail |-> q.tail, free |-> q.free, next |-> q.next, data |-> d,
             entry |-> q.entry]
    BY <1>0 DEF MqWritten, MqType
  <2>2. v = [w EXCEPT !.next = [w.next EXCEPT ![n] = w.free], !.free = n]
    BY DEF MqFreed
  <2> HIDE DEF w, v, d
  <2>3. w.next = q.next /\ w.free = q.free
    BY <2>1
  <2>4. v = [w EXCEPT !.next = g, !.free = n]
    BY <2>2, <2>3
  <2> HIDE DEF g
  <2> QED BY <2>1, <2>4
<1>3. Nil \in Msg \cup {Nil}
  OBVIOUS
<1> HIDE DEF r, v
<1>4. MqShape(w, us, fs, H) /\ w.next = q.next /\ MqLeaves(q, w, H, n)
  BY <1>3, ShapeData
<1> HIDE DEF w
<1>5. MqShape(v, us, <<n>> \o fs, H \ {n}) /\ v.data = w.data /\ MqLeaves(w, v, H, n)
  <2>1. MqGivenBack(w, v, us, fs, H, n)
    BY <1>4, ShapeFree DEF v
  <2> QED BY <2>1 DEF MqGivenBack
<1>6. MqLeaves(q, v, H, n)
  BY <1>4, <1>5 DEF MqLeaves
<1> QED BY <1>1, <1>2, <1>5, <1>6

\* There is room for a buffer that is in somebody's hands.
LEMMA ShapeRoom ==
  ASSUME NEW q, NEW us, NEW fs, NEW H, MqShape(q, us, fs, H), NEW n \in H
  PROVE  q.entry < MaxMsgs
<1>0. /\ us \in Seq(Node) /\ H \subseteq Node /\ Range(us) \subseteq Node /\ n \notin Range(us)
      /\ IsInjective(us) /\ Len(us) = q.entry
  BY ShapeFacts DEF MqShape, MqPlaces, PathOf
<1>1. IsFiniteSet(Range(us)) /\ Cardinality(Range(us)) = Len(us)
  BY <1>0, InjectiveLength
<1> DEFINE R == Range(us) \cup {n}
<1>2. IsFiniteSet(R) /\ Cardinality(R) = Len(us) + 1
  BY <1>0, <1>1, FS_AddElement
<1>3. R \subseteq Node
  BY <1>0
<1> HIDE DEF R
<1>4. Cardinality(R) <= Cardinality(Node)
  BY <1>3, NodeFacts, FS_Subset
<1> QED BY <1>0, <1>2, <1>4, NodeFacts

\* n went from somebody's hands into the chain of messages, which is vs now.
MqAdded(q, v, us, vs, fs, H, n) ==
  /\ MqShape(v, vs, fs, H \ {n}) /\ v.data = q.data /\ v.entry = q.entry + 1
  /\ MqLeaves(q, v, H, n) /\ Len(MsgsOf(q, us)) < MaxMsgs

MqAppended(q, v, us, vs, n)  == MsgsOf(v, vs) = Append(MsgsOf(q, us), q.data[n])
MqPrepended(q, v, us, vs, n) == MsgsOf(v, vs) = <<q.data[n]>> \o MsgsOf(q, us)

\* n becomes the last message.
LEMMA ShapeLast ==
  ASSUME NEW q, NEW us, NEW fs, NEW H, MqShape(q, us, fs, H), NEW n \in H, q.next[n] = Null,
         NEW v, v = MqLinked(q, n), NEW vs, vs = Append(us, n)
  PROVE  MqAdded(q, v, us, vs, fs, H, n) /\ MqAppended(q, v, us, vs, n)
<1>0. /\ q \in MqType /\ H \subseteq Node /\ us \in Seq(Node) /\ MqPlaces(us, fs, H)
      /\ q.next \in NextType /\ fs \in Seq(Node) /\ Range(fs) \subseteq Node /\ Len(us) \in Nat
      /\ n \notin Range(us) /\ n \notin Range(fs) /\ n \in Node /\ Range(us) \subseteq Node
      /\ q.entry \in Nat /\ Len(us) = q.entry /\ Range(us) \cap Range(fs) = {}
      /\ (us = <<>> <=> q.head = Null) /\ (us # <<>> => us[Len(us)] \in Range(us))
      /\ Range(us) \cap H = {} /\ q.data \in [Node -> Msg \cup {Nil}]
  BY ShapeFacts, Zenon DEF MqShape, MqPlaces
<1>1. /\ PathOf(q.next, q.head, us) /\ PathOf(q.next, q.free, fs)
      /\ q.tail = IF us = <<>> THEN Null ELSE us[Len(us)]
  BY DEF MqShape
<1>2. q.entry < MaxMsgs /\ MaxMsgs \in Nat
  BY ShapeRoom, NodeFacts
<1>3. q.tail = Null <=> us = <<>>
  BY <1>0, <1>1, NodeFacts
<1> DEFINE g == IF q.tail = Null THEN q.next ELSE [q.next EXCEPT ![q.tail] = n]
           r == Append(us, n)
           h == IF q.head = Null THEN n ELSE q.head
<1>4. g \in NextType /\ \A x \in Node : (us # <<>> /\ x = us[Len(us)]) \/ g[x] = q.next[x]
  BY <1>0, <1>1, <1>3 DEF NextType
<1>5. us # <<>> => g[us[Len(us)]] = n
  BY <1>0, <1>1, <1>3 DEF NextType
<1>6. /\ v.head = h /\ v.tail = n /\ v.free = q.free /\ v.next = g /\ v.data = q.data
      /\ v.entry = q.entry + 1
  BY <1>0 DEF MqType, MqLinked
<1>7. v \in MqType
  <2>1. v = [head |-> h, tail |-> n, free |-> q.free, next |-> g, data |-> q.data, entry |-> q.entry + 1]
    <3>1. v = [q EXCEPT !.next = g, !.tail = n, !.head = h, !.entry = q.entry + 1]
      BY <1>0 DEF MqLinked, MqType
    <3> HIDE DEF g, h
    <3> QED BY ONLY <1>0, <3>1 DEF MqType
  <2>2. h \in Node \cup {Null} /\ q.entry + 1 \in 0 .. MaxMsgs /\ q.free \in Node \cup {Null}
    BY <1>0, <1>2 DEF MqType
  <2> HIDE DEF g, h
  <2> QED BY ONLY <1>0, <1>4, <2>1, <2>2 DEF MqType, NextType
<1>8. g[n] = Null
  BY <1>0, <1>4
<1>9. h = IF us = <<>> THEN n ELSE q.head
  BY <1>0
<1> HIDE DEF g, h
<1>10. /\ PathOf(g, h, r) /\ Range(r) = Range(us) \cup {n} /\ Len(r) = Len(us) + 1
       /\ r # <<>> /\ r[Len(r)] = n
  <2>1. \A x \in Range(us) : x = us[Len(us)] \/ g[x] = q.next[x]
    BY <1>0, <1>4
  <2> QED BY <1>0, <1>1, <1>5, <1>8, <1>9, <2>1, PathBack
<1>11. PathOf(g, q.free, fs)
  <2>1. \A x \in Range(fs) : g[x] = q.next[x]
    BY <1>0, <1>4
  <2> QED BY <1>1, <2>1, PathKept
<1>12. MsgsOf(v, r) = Append(MsgsOf(q, us), q.data[n])
  <2> DEFINE s == MsgsOf(q, us)
  <2>1. s \in Seq(Msg \cup {Nil}) /\ Len(s) = Len(us)
    <3>1. \A i \in 1 .. Len(us) : q.data[us[i]] \in Msg \cup {Nil}
      BY <1>0
    <3> QED BY <1>0, <3>1 DEF MsgsOf
  <2>2. q.data[n] \in Msg \cup {Nil}
    BY <1>0
  <2>3. \A i \in 1 .. Len(us) : s[i] = q.data[us[i]]
    BY <1>0 DEF MsgsOf
  <2> HIDE DEF s
  <2>4. Append(s, q.data[n]) = AppendFun(s, q.data[n])
    BY <2>1, <2>2, AppendIs
  <2>5. \A i \in 1 .. Len(us) + 1 : r[i] = IF i = Len(us) + 1 THEN n ELSE us[i]
    BY <1>0
  <2>6. \A i \in 1 .. Len(us) : i # Len(us) + 1
    BY <1>0
  <2> HIDE DEF r
  <2>7. MsgsOf(v, r) = [i \in 1 .. Len(us) + 1 |-> q.data[r[i]]]
    BY <1>6, <1>10 DEF MsgsOf
  <2>8. AppendFun(s, q.data[n]) = [i \in 1 .. Len(us) + 1 |-> IF i = Len(us) + 1 THEN q.data[n] ELSE s[i]]
    BY <2>1 DEF AppendFun
  <2>9. ASSUME NEW i \in 1 .. Len(us) + 1
        PROVE  q.data[r[i]] = IF i = Len(us) + 1 THEN q.data[n] ELSE s[i]
    <3>1. i # Len(us) + 1 => i \in 1 .. Len(us)
      BY <1>0
    <3> QED BY <2>3, <2>5, <3>1
  <2>10. MsgsOf(v, r) = AppendFun(s, q.data[n])
    BY <2>7, <2>8, <2>9
  <2> QED BY <2>4, <2>10 DEF s
<1>13. Len(MsgsOf(q, us)) < MaxMsgs
  <2>1. Len(MsgsOf(q, us)) = Len(us)
    BY <1>0 DEF MsgsOf
  <2> QED BY <1>0, <1>2, <2>1
<1> HIDE DEF r
<1>14. MqPlaces(r, fs, H \ {n})
  BY <1>0, <1>10 DEF MqPlaces
<1>15. MqShape(v, r, fs, H \ {n})
  BY <1>0, <1>6, <1>7, <1>10, <1>11, <1>14 DEF MqShape
<1>16. MqLeaves(q, v, H, n)
  BY <1>0, <1>4, <1>6 DEF MqLeaves
<1>17. r = vs
  BY DEF r
<1> QED BY <1>6, <1>12, <1>13, <1>15, <1>16, <1>17 DEF MqAdded, MqAppended

\* n becomes the first message.
LEMMA ShapeFirst ==
  ASSUME NEW q, NEW us, NEW fs, NEW H, MqShape(q, us, fs, H), NEW n \in H,
         NEW v, v = MqLinkedFirst(q, n), NEW vs, vs = <<n>> \o us
  PROVE  MqAdded(q, v, us, vs, fs, H, n) /\ MqPrepended(q, v, us, vs, n)
<1>0. /\ q \in MqType /\ H \subseteq Node /\ us \in Seq(Node) /\ MqPlaces(us, fs, H)
      /\ q.next \in NextType /\ fs \in Seq(Node) /\ Range(fs) \subseteq Node /\ Len(us) \in Nat
      /\ n \notin Range(us) /\ n \notin Range(fs) /\ n \in Node /\ Range(us) \subseteq Node
      /\ q.entry \in Nat /\ Len(us) = q.entry
      /\ q.data \in [Node -> Msg \cup {Nil}]
  <2>1. /\ q \in MqType /\ H \subseteq Node /\ us \in Seq(Node) /\ q.next \in NextType /\ fs \in Seq(Node)
        /\ Range(us) \subseteq Node /\ Range(fs) \subseteq Node /\ q.entry \in Nat /\ Len(us) = q.entry
        /\ q.data \in [Node -> Msg \cup {Nil}]
    BY ShapeFacts
  <2>2. MqPlaces(us, fs, H)
    BY DEF MqShape
  <2>3. n \notin Range(us) /\ n \notin Range(fs) /\ n \in Node
    BY <2>1, <2>2 DEF MqPlaces
  <2> QED BY <2>1, <2>2, <2>3
<1>1. /\ PathOf(q.next, q.head, us) /\ PathOf(q.next, q.free, fs)
      /\ q.tail = IF us = <<>> THEN Null ELSE us[Len(us)]
  BY DEF MqShape
<1>2. q.entry < MaxMsgs /\ MaxMsgs \in Nat
  BY ShapeRoom, NodeFacts
<1> DEFINE g == [q.next EXCEPT ![n] = q.head]
           r == <<n>> \o us
           w == IF q.tail = Null THEN n ELSE q.tail
<1>3. g \in NextType /\ g[n] = q.head /\ \A x \in Node : x = n \/ g[x] = q.next[x]
  BY <1>0 DEF NextType, MqType
<1> DEFINE u == [head |-> n, tail |-> w, free |-> q.free, next |-> g, data |-> q.data, entry |-> q.entry + 1]
<1>4a. v = u
  <2>0. q = [head |-> q.head, tail |-> q.tail, free |-> q.free, next |-> q.next, data |-> q.data, entry |-> q.entry]
    BY <1>0 DEF MqType
  <2>1. v = [q EXCEPT !.next = g, !.head = n, !.tail = w, !.entry = q.entry + 1]
    <3>1. MqLinkedFirst(q, n) = [q EXCEPT !.next = g, !.head = n, !.tail = w, !.entry = q.entry + 1]
      BY ONLY <2>0 DEF MqLinkedFirst
    <3> QED BY <3>1
  <2> HIDE DEF g, w
  <2> QED BY ONLY <2>0, <2>1
<1>4. /\ v.head = n /\ v.tail = w /\ v.free = q.free /\ v.next = g /\ v.data = q.data
      /\ v.entry = q.entry + 1
  <2> HIDE DEF g, w
  <2> QED BY ONLY <1>4a
<1>5. v \in MqType
  <2>1. v = u
    BY <1>4a
  <2>2. w \in Node \cup {Null} /\ q.entry + 1 \in 0 .. MaxMsgs /\ q.free \in Node \cup {Null}
    BY <1>0, <1>2 DEF MqType
  <2> HIDE DEF g, w
  <2> QED BY ONLY <1>0, <1>3, <2>1, <2>2 DEF MqType, NextType
<1> HIDE DEF g
<1>6. /\ PathOf(g, n, r) /\ Range(r) = Range(us) \cup {n} /\ Len(r) = Len(us) + 1
      /\ r # <<>> /\ r[Len(r)] = IF us = <<>> THEN n ELSE us[Len(us)]
  <2>1. \A x \in Range(us) : g[x] = q.next[x]
    BY <1>0, <1>3
  <2> QED BY <1>0, <1>1, <1>3, <2>1, PathFront
<1>7. PathOf(g, q.free, fs)
  <2>1. \A x \in Range(fs) : g[x] = q.next[x]
    BY <1>0, <1>3
  <2> QED BY <1>1, <2>1, PathKept
<1>8. w = r[Len(r)]
  <2>1. us # <<>> => us[Len(us)] \in Node
    BY <1>0, ShapeFacts
  <2> QED BY <1>1, <1>6, <2>1, NodeFacts
<1>9. MsgsOf(v, r) = <<q.data[n]>> \o MsgsOf(q, us)
  <2> DEFINE s == MsgsOf(q, us)
  <2>1. s \in Seq(Msg \cup {Nil}) /\ Len(s) = Len(us)
    <3>1. \A i \in 1 .. Len(us) : q.data[us[i]] \in Msg \cup {Nil}
      BY <1>0
    <3>2. Len(us) \in Nat
      BY <1>0
    <3> QED BY ONLY <3>1, <3>2 DEF MsgsOf
  <2>2. q.data[n] \in Msg \cup {Nil}
    BY <1>0
  <2>3. \A i \in 1 .. Len(us) : s[i] = q.data[us[i]]
    BY <1>0 DEF MsgsOf
  <2> HIDE DEF s
  <2>4. <<q.data[n]>> \o s = ConsFun(q.data[n], s)
    BY <2>1, <2>2, ConsIs
  <2>5. r = ConsFun(n, us)
    BY <1>0, ConsIs
  <2> HIDE DEF r
  <2>6. MsgsOf(v, r) = [i \in 1 .. Len(us) + 1 |-> q.data[r[i]]]
    BY <1>4, <1>6 DEF MsgsOf
  <2>7. ConsFun(q.data[n], s) = [i \in 1 .. Len(us) + 1 |-> IF i = 1 THEN q.data[n] ELSE s[i - 1]]
    BY <2>1 DEF ConsFun
  <2>8. ASSUME NEW i \in 1 .. Len(us) + 1
        PROVE  q.data[r[i]] = IF i = 1 THEN q.data[n] ELSE s[i - 1]
    <3>1. i # 1 => i - 1 \in 1 .. Len(us)
      BY <1>0
    <3>2. r[i] = IF i = 1 THEN n ELSE us[i - 1]
      BY <2>5 DEF ConsFun
    <3> QED BY <2>3, <3>1, <3>2
  <2>9. MsgsOf(v, r) = ConsFun(q.data[n], s)
    BY <2>6, <2>7, <2>8
  <2> QED BY <2>4, <2>9 DEF s
<1>10. Len(MsgsOf(q, us)) < MaxMsgs
  <2>1. Len(MsgsOf(q, us)) = Len(us)
    BY <1>0 DEF MsgsOf
  <2> QED BY <1>0, <1>2, <2>1
<1> HIDE DEF r, w
<1>11. MqPlaces(r, fs, H \ {n})
  BY <1>0, <1>6 DEF MqPlaces
<1>12. MqShape(v, r, fs, H \ {n})
  BY <1>0, <1>4, <1>5, <1>6, <1>7, <1>8, <1>11 DEF MqShape
<1>13. MqLeaves(q, v, H, n)
  BY <1>0, <1>3, <1>4 DEF MqLeaves
<1>14. r = vs
  BY DEF r
<1> QED BY <1>4, <1>9, <1>10, <1>12, <1>13, <1>14 DEF MqAdded, MqPrepended

\* The recursion of Chain, for any links.
ChainBody(next, f, d) ==
  [n \in Node \cup {Null} |-> IF n = Null \/ d = 0 THEN <<>> ELSE <<n>> \o f[d - 1][next[n]]]

ChainsOf(next) == CHOOSE f : f = [d \in 0 .. MaxMsgs |-> ChainBody(next, f, d)]

LEMMA ChainsExist ==
  ASSUME NEW next
  PROVE  ChainsOf(next) = [d \in 0 .. MaxMsgs |-> ChainBody(next, ChainsOf(next), d)]
<1> DEFINE P == {n \in 0 .. MaxMsgs : \E g : g = [d \in 0 .. n |-> ChainBody(next, g, d)]}
<1>0. MaxMsgs \in Nat
  BY NodeFacts
<1>1. 0 \in P
  <2> DEFINE g == [d \in 0 .. 0 |-> [n \in Node \cup {Null} |-> <<>>]]
  <2>1. g = [d \in 0 .. 0 |-> ChainBody(next, g, d)]
    <3>1. \A d \in 0 .. 0 : d = 0
      OBVIOUS
    <3>2. ChainBody(next, g, 0) = [n \in Node \cup {Null} |-> <<>>]
      BY DEF ChainBody
    <3> QED BY <3>1, <3>2
  <2> HIDE DEF g
  <2> QED BY <1>0, <2>1
<1>2. ASSUME NEW n \in 0 .. MaxMsgs - 1, n \in P PROVE n + 1 \in P
  <2>1. PICK g : g = [d \in 0 .. n |-> ChainBody(next, g, d)]
    BY <1>2
  <2> DEFINE h == [d \in 0 .. n + 1 |-> IF d = n + 1 THEN ChainBody(next, g, d) ELSE g[d]]
  <2>0. n \in Nat
    BY <1>0
  <2>2. ASSUME NEW d \in 0 .. n + 1 PROVE h[d] = ChainBody(next, h, d)
    <3>1. h[d] = ChainBody(next, g, d)
      <4>1. CASE d = n + 1
        BY <4>1
      <4>2. CASE d # n + 1
        <5>1. d \in 0 .. n
          BY <2>0, <4>2
        <5> HIDE DEF ChainBody
        <5> QED BY <2>1, <4>2, <5>1
      <4> QED BY <4>1, <4>2
    <3>2. d = 0 \/ (d - 1 \in 0 .. n /\ d - 1 \in 0 .. n + 1 /\ d - 1 # n + 1)
      BY <2>0
    <3>3. d = 0 \/ h[d - 1] = g[d - 1]
      BY <3>2
    <3> HIDE DEF h
    <3>4. ChainBody(next, g, d) = ChainBody(next, h, d)
      BY <3>3 DEF ChainBody
    <3> QED BY <3>1, <3>4
  <2>3. h = [d \in 0 .. n + 1 |-> h[d]]
    OBVIOUS
  <2> HIDE DEF h
  <2>4. h = [d \in 0 .. n + 1 |-> ChainBody(next, h, d)]
    BY <2>2, <2>3, Zenon
  <2>5. n + 1 \in 0 .. MaxMsgs
    BY <1>0
  <2> QED BY <2>4, <2>5
<1>3. MaxMsgs \in P
  <2> HIDE DEF P
  <2>1. \A i \in 0 .. MaxMsgs : i \in P
    BY <1>0, <1>1, <1>2, UpTo
  <2> QED BY <1>0, <2>1
<1>4. PICK g : g = [d \in 0 .. MaxMsgs |-> ChainBody(next, g, d)]
  BY <1>3
<1> QED BY <1>4, Zenon DEF ChainsOf

LEMMA ChainIs ==
  ASSUME NEW next, NEW n \in Node \cup {Null}, NEW s, PathOf(next, n, s), Len(s) <= MaxMsgs
  PROVE  ChainsOf(next)[MaxMsgs][n] = s
<1> DEFINE f == ChainsOf(next)
           Right(d) == \A x \in Node \cup {Null} : \A r \in Seq(Node) :
                         PathOf(next, x, r) /\ Len(r) <= d => f[d][x] = r
           P == {d \in 0 .. MaxMsgs : Right(d)}
<1>0. MaxMsgs \in Nat /\ Null \notin Node
  BY NodeFacts
<1>1. \A d \in 0 .. MaxMsgs : f[d] = ChainBody(next, f, d)
  BY ChainsExist
<1> HIDE DEF f
<1>2. Right(0)
  <2> SUFFICES ASSUME NEW x \in Node \cup {Null}, NEW r \in Seq(Node), PathOf(next, x, r), Len(r) <= 0
               PROVE  f[0][x] = r
    OBVIOUS
  <2>1. r = <<>>
    OBVIOUS
  <2>2. f[0][x] = <<>>
    <3>1. f[0] = ChainBody(next, f, 0)
      BY <1>0, <1>1
    <3>2. ChainBody(next, f, 0)[x] = <<>>
      BY DEF ChainBody
    <3> QED BY <3>1, <3>2
  <2> QED BY <2>1, <2>2
<1>3. ASSUME NEW d \in 0 .. MaxMsgs - 1, Right(d) PROVE Right(d + 1)
  <2> SUFFICES ASSUME NEW x \in Node \cup {Null}, NEW r \in Seq(Node), PathOf(next, x, r), Len(r) <= d + 1
               PROVE  f[d + 1][x] = r
    OBVIOUS
  <2>0. d \in Nat /\ d + 1 \in 0 .. MaxMsgs /\ d + 1 # 0 /\ (d + 1) - 1 = d
    BY <1>0
  <2>1. f[d + 1][x] = IF x = Null THEN <<>> ELSE <<x>> \o f[d][next[x]]
    <3>1. f[d + 1] = ChainBody(next, f, d + 1)
      BY <1>1, <2>0
    <3>2. ChainBody(next, f, d + 1)[x] = IF x = Null THEN <<>> ELSE <<x>> \o f[d][next[x]]
      BY <2>0 DEF ChainBody
    <3> QED BY <3>1, <3>2
  <2>2. CASE x = Null
    <3>1. r = <<>>
      <4>1. r # <<>> => 1 \in 1 .. Len(r) /\ r[1] \in Node
        OBVIOUS
      <4> QED BY <1>0, <2>2, <4>1 DEF PathOf
    <3> QED BY <2>1, <2>2, <3>1
  <2>3. CASE x # Null
    <3> DEFINE q == Tail(r)
    <3>1. PathOf(next, next[x], q) /\ Len(q) = Len(r) - 1 /\ Len(r) \in Nat /\ r # <<>> /\ x = r[1]
      BY <2>3, PathRest
    <3>2. q \in Seq(Node) /\ r = <<x>> \o q
      BY <3>1
    <3> HIDE DEF q
    <3>3. Len(q) <= d
      BY <2>0, <3>1
    <3>4. next[x] \in Node \cup {Null}
      <4>1. q # <<>> => q[1] \in Node
        BY <3>2
      <4> QED BY <3>1, <4>1 DEF PathOf
    <3>5. f[d][next[x]] = q
      BY <1>3, <3>1, <3>2, <3>3, <3>4
    <3> QED BY <2>1, <2>3, <3>2, <3>5
  <2> QED BY <2>2, <2>3
<1> HIDE DEF Right
<1>4. \A i \in 0 .. MaxMsgs : i \in P
  <2>1. 0 \in P
    BY <1>0, <1>2
  <2>2. ASSUME NEW d \in 0 .. MaxMsgs - 1, d \in P PROVE d + 1 \in P
    <3>1. d + 1 \in 0 .. MaxMsgs
      BY <1>0
    <3> QED BY <1>3, <2>2, <3>1
  <2> HIDE DEF P
  <2> QED BY <1>0, <2>1, <2>2, UpTo
<1>5. Right(MaxMsgs)
  BY <1>0, <1>4
<1> QED BY <1>5 DEF Right, f, PathOf

\* The chains of the model are those of the shape.
LEMMA ChainHere ==
  ASSUME NEW n \in Node \cup {Null}, NEW s, PathOf(mq.next, n, s), Len(s) <= MaxMsgs
  PROVE  Chain(n) = s
<1>1. ChainUpTo = ChainsOf(mq.next)
  BY Zenon DEF ChainUpTo, ChainsOf, ChainBody
<1> QED BY <1>1, ChainIs DEF Chain

LEMMA ChainNext ==
  ASSUME NEW n \in Node \cup {Null}, NEW s, PathOf(mq'.next, n, s), Len(s) <= MaxMsgs
  PROVE  Chain(n)' = s
<1>1. ChainUpTo' = ChainsOf(mq'.next)
  BY Zenon DEF ChainUpTo, ChainsOf, ChainBody
<1> QED BY <1>1, ChainIs DEF Chain

\* The first message leaves.
\* The first buffer went from the chain of messages into somebody's hands.
MqRemoved(q, v, us, fs, H) ==
  /\ MqShape(v, Tail(us), fs, H \cup {q.head}) /\ q.head \in Node /\ q.head \notin H
  /\ v.data = q.data /\ v.next = q.next /\ v.entry = q.entry - 1
  /\ MsgsOf(q, us) # <<>> /\ Head(MsgsOf(q, us)) = q.data[q.head]
  /\ MsgsOf(v, Tail(us)) = Tail(MsgsOf(q, us))

LEMMA ShapeUnlink ==
  ASSUME NEW q, NEW us, NEW fs, NEW H, MqShape(q, us, fs, H), q.entry # 0,
         NEW v, v = MqUnlinked(q)
  PROVE  MqRemoved(q, v, us, fs, H)
<1> DEFINE n == q.head
           r == Tail(us)
           w == IF q.tail = n THEN Null ELSE q.tail
<1>0. /\ q \in MqType /\ q.next \in NextType /\ q.data \in [Node -> Msg \cup {Nil}]
      /\ us \in Seq(Node) /\ q.entry \in Nat /\ q.entry <= MaxMsgs /\ Len(us) = q.entry
      /\ us # <<>> /\ n # Null
  BY ShapeFacts
<1>1. /\ PathOf(q.next, n, us) /\ PathOf(q.next, q.free, fs) /\ MqPlaces(us, fs, H)
      /\ q.tail = us[Len(us)]
  BY <1>0 DEF MqShape
<1>2. /\ PathOf(q.next, q.next[n], r) /\ Len(r) = Len(us) - 1 /\ n = us[1] /\ n \in Node
      /\ n \notin Range(r) /\ Range(us) = Range(r) \cup {n}
      /\ us[Len(us)] = IF r = <<>> THEN n ELSE r[Len(r)]
      /\ (us[Len(us)] = n <=> r = <<>>)
  BY <1>0, <1>1, PathRest
<1>3. w = IF r = <<>> THEN Null ELSE r[Len(r)]
  BY <1>1, <1>2
<1>4. q.next[n] \in Node \cup {Null}
  BY <1>0, <1>2 DEF NextType
<1>5. \A i \in 1 .. Len(r) : i + 1 \in 1 .. Len(us) /\ r[i] = us[i + 1]
  BY <1>0, <1>2
<1>6. /\ v.head = q.next[n] /\ v.tail = w /\ v.free = q.free /\ v.next = q.next /\ v.data = q.data
      /\ v.entry = q.entry - 1
  BY <1>0 DEF MqType, MqUnlinked
<1>7. v \in MqType
  <2> DEFINE e == q.entry - 1
             y == q.next[n]
  <2>1. v = [head |-> y, tail |-> w, free |-> q.free, next |-> q.next, data |-> q.data, entry |-> e]
    <3>1. q = [head |-> n, tail |-> q.tail, free |-> q.free, next |-> q.next, data |-> q.data, entry |-> q.entry]
      BY <1>0 DEF MqType
    <3>2. MqUnlinked(q) = [q EXCEPT !.head = y, !.tail = w, !.entry = e]
      BY ONLY <3>1 DEF MqUnlinked
    <3> HIDE DEF n, w, e, y
    <3> QED BY ONLY <3>1, <3>2, v = MqUnlinked(q)
  <2>2. w \in Node \cup {Null} /\ e \in 0 .. MaxMsgs /\ q.free \in Node \cup {Null}
    BY <1>0, NodeFacts DEF MqType
  <2> HIDE DEF w, e, y
  <2> QED BY ONLY <1>0, <1>4, <2>1, <2>2 DEF MqType, NextType, y
<1> HIDE DEF w
<1>8. MsgsOf(q, us) # <<>> /\ Head(MsgsOf(q, us)) = q.data[n] /\ MsgsOf(v, r) = Tail(MsgsOf(q, us))
  <2> DEFINE s == MsgsOf(q, us)
  <2>1. s \in Seq(Msg \cup {Nil}) /\ Len(s) = Len(us)
    <3>1. \A i \in 1 .. Len(us) : us[i] \in Node
      BY <1>0
    <3>2. \A i \in 1 .. Len(us) : q.data[us[i]] \in Msg \cup {Nil}
      BY <1>0, <3>1
    <3> QED BY <1>0, <3>2 DEF MsgsOf
  <2>2. \A i \in 1 .. Len(us) : s[i] = q.data[us[i]]
    BY <1>0 DEF MsgsOf
  <2> HIDE DEF s
  <2>3. 1 \in 1 .. Len(us) /\ Len(us) >= 1
    BY <1>0
  <2>4. s # <<>> /\ Head(s) = s[1]
    BY <2>1, <2>3
  <2>5. Tail(s) = TailFun(s)
    BY <2>1, <2>4, TailIs
  <2> HIDE DEF r
  <2>6. MsgsOf(v, r) = [i \in 1 .. Len(us) - 1 |-> q.data[r[i]]]
    BY <1>2, <1>6 DEF MsgsOf
  <2>7. TailFun(s) = [i \in 1 .. Len(us) - 1 |-> s[i + 1]]
    BY <2>1 DEF TailFun
  <2>8. \A i \in 1 .. Len(us) - 1 : q.data[r[i]] = s[i + 1]
    BY <1>2, <1>5, <2>2
  <2> QED BY <1>2, <2>2, <2>3, <2>4, <2>5, <2>6, <2>7, <2>8 DEF s
<1> HIDE DEF r
<1>9. MqPlaces(r, fs, H \cup {n}) /\ n \notin H
  BY <1>1, <1>2 DEF MqPlaces
<1>10. MqShape(v, r, fs, H \cup {n})
  <2>1. Len(r) = v.entry
    BY <1>0, <1>2, <1>6
  <2> QED BY <1>1, <1>2, <1>3, <1>6, <1>7, <1>9, <2>1 DEF MqShape
<1> QED BY <1>2, <1>6, <1>8, <1>9, <1>10 DEF r, MqRemoved

LEMMA MqRounds ==
  ASSUME NEW s, NEW q \in Seq(Node)
  PROVE  \E f : /\ f[0] = s
                /\ \A i \in 1 .. Len(q) : f[i] = MqGive(f[i - 1], q[i])
                /\ FoldLeft(MqGive, s, q) = f[Len(q)]
<1> DEFINE Body(g, z) == IF z = {} THEN s ELSE MqGive(g[z \ {Max(z)}], q[Max(z)])
           P == {n \in 0 .. Len(q) : \E g : g = [z \in SUBSET (1 .. n) |-> Body(g, z)]}
           It == CHOOSE g : g = [z \in SUBSET (1 .. Len(q)) |-> Body(g, z)]
<1>0. Len(q) \in Nat /\ DOMAIN q = 1 .. Len(q)
  OBVIOUS
<1>1. FoldLeft(MqGive, s, q) = It[1 .. Len(q)]
  <2>1. FoldLeft(MqGive, s, q) =
          (CHOOSE g : g = [z \in SUBSET (DOMAIN q) |->
                             IF z = {} THEN s ELSE MqGive(g[z \ {Max(z)}], q[Max(z)])])
          [DOMAIN q]
    BY Zenon DEF FoldLeft, MapThenFoldSet
  <2>2. It = CHOOSE g : g = [z \in SUBSET (1 .. Len(q)) |->
                               IF z = {} THEN s ELSE MqGive(g[z \ {Max(z)}], q[Max(z)])]
    BY Zenon
  <2> HIDE DEF It
  <2> QED BY <1>0, <2>1, <2>2, Zenon
<1>2. 0 \in P
  <2> DEFINE g == [z \in SUBSET (1 .. 0) |-> s]
  <2>1. SUBSET (1 .. 0) = {{}}
    OBVIOUS
  <2>2. g = [z \in SUBSET (1 .. 0) |-> Body(g, z)]
    BY <2>1
  <2>3. 0 \in 0 .. Len(q)
    BY <1>0
  <2> HIDE DEF Body, g
  <2> QED BY <2>2, <2>3
<1>3. ASSUME NEW n \in 0 .. Len(q) - 1, n \in P PROVE n + 1 \in P
  <2>1. PICK g : g = [z \in SUBSET (1 .. n) |-> Body(g, z)]
    BY <1>3
  <2> DEFINE h == [z \in SUBSET (1 .. n + 1) |->
                     IF n + 1 \notin z THEN g[z] ELSE MqGive(g[z \ {n + 1}], q[n + 1])]
  <2>2. ASSUME NEW z \in SUBSET (1 .. n + 1) PROVE h[z] = Body(h, z)
    <3>1. CASE n + 1 \notin z
      <4>1. z \in SUBSET (1 .. n)
        BY <3>1
      <4>2. h[z] = Body(g, z)
        BY <2>1, <3>1, <4>1
      <4>3. CASE z = {}
        BY <4>2, <4>3
      <4>4. CASE z # {}
        <5>0. n \in Nat
          BY <1>0
        <5>1. Max(z) \in z
          BY <4>1, <4>4, <5>0, MaxUpTo
        <5> DEFINE y == z \ {Max(z)}
        <5>2. y \in SUBSET (1 .. n) /\ y \in SUBSET (1 .. n + 1) /\ n + 1 \notin y
          BY <3>1, <4>1
        <5>3. h[y] = g[y]
          BY <5>2
        <5> HIDE DEF y, h
        <5> QED BY <4>2, <4>4, <5>3 DEF y
      <4> QED BY <4>3, <4>4
    <3>2. CASE n + 1 \in z
      <4>1. Max(z) = n + 1
        <5>1. n + 1 \in Nat /\ z # {}
          BY <3>2
        <5>2. Max(z) \in z /\ \A x \in z : Max(z) >= x
          BY <5>1, MaxUpTo
        <5>3. PICK a \in 1 .. n + 1 : a = Max(z) /\ a >= n + 1
          BY <3>2, <5>2
        <5> QED BY <5>3
      <4> DEFINE y == z \ {n + 1}
      <4>2. y \in SUBSET (1 .. n) /\ y \in SUBSET (1 .. n + 1) /\ n + 1 \notin y
        OBVIOUS
      <4>3. h[y] = g[y]
        BY <4>2
      <4>4. h[z] = MqGive(g[y], q[n + 1])
        BY <3>2
      <4> HIDE DEF y, h
      <4>5. z # {}
        BY <3>2
      <4> QED BY <4>1, <4>3, <4>4, <4>5 DEF y
    <3> QED BY <3>1, <3>2
  <2>3. h = [z \in SUBSET (1 .. n + 1) |-> h[z]]
    OBVIOUS
  <2> HIDE DEF h, Body
  <2>4. h = [z \in SUBSET (1 .. n + 1) |-> Body(h, z)]
    BY <2>2, <2>3, Zenon
  <2>5. n + 1 \in 0 .. Len(q)
    BY <1>0
  <2> QED BY <2>4, <2>5
<1>4. Len(q) \in P
  <2> HIDE DEF P
  <2>1. \A i \in 0 .. Len(q) : i \in P
    BY <1>0, <1>2, <1>3, UpTo
  <2> QED BY <1>0, <2>1
<1>5. It = [z \in SUBSET (1 .. Len(q)) |-> Body(It, z)]
  <2>1. PICK g : g = [z \in SUBSET (1 .. Len(q)) |-> Body(g, z)]
    BY <1>4
  <2> HIDE DEF Body
  <2> QED BY <2>1, Zenon
<1> HIDE DEF It
<1> DEFINE f == [i \in 0 .. Len(q) |-> It[1 .. i]]
<1>6. f[0] = s
  <2>1. 1 .. 0 = {} /\ {} \in SUBSET (1 .. Len(q)) /\ 0 \in 0 .. Len(q)
    BY <1>0
  <2>2. It[{}] = Body(It, {})
    BY <1>5, <2>1, Zenon
  <2> QED BY <2>1, <2>2
<1>7. ASSUME NEW i \in 1 .. Len(q) PROVE f[i] = MqGive(f[i - 1], q[i])
  <2>1. 1 .. i \in SUBSET (1 .. Len(q)) /\ i \in 1 .. i /\ i \in Nat
    BY <1>0
  <2>2. It[1 .. i] = Body(It, 1 .. i)
    BY <1>5, <2>1, Zenon
  <2>3. Max(1 .. i) = i
    <3>1. Max(1 .. i) \in 1 .. i /\ \A y \in 1 .. i : Max(1 .. i) >= y
      BY <2>1, MaxUpTo
    <3>2. PICK a \in 1 .. i : a = Max(1 .. i) /\ a >= i
      BY <2>1, <3>1
    <3> QED BY <3>2
  <2>4. (1 .. i) \ {i} = 1 .. (i - 1) /\ 1 .. i # {}
    <3>1. \A x \in 1 .. i : x # i => x \in 1 .. (i - 1)
      BY <2>1
    <3>2. \A x \in 1 .. (i - 1) : x \in 1 .. i /\ x # i
      BY <2>1
    <3> QED BY <2>1, <3>1, <3>2
  <2>5. It[1 .. i] = MqGive(It[1 .. (i - 1)], q[i])
    BY <2>2, <2>3, <2>4
  <2>6. f[i] = It[1 .. i] /\ f[i - 1] = It[1 .. (i - 1)]
    BY <1>0
  <2> QED BY <2>5, <2>6
<1>8. FoldLeft(MqGive, s, q) = f[Len(q)]
  BY <1>0, <1>1
<1> HIDE DEF f
<1> QED BY <1>6, <1>7, <1>8

LEMMA ShapeEmpty == \E fs : MqShape(MqEmpty, <<>>, fs, {})
<1> DEFINE fs == [i \in 1 .. MaxMsgs |-> MaxMsgs - i + 1]
           g == [n \in Node |-> n - 1]
<1>0. MaxMsgs \in Nat /\ MaxMsgs >= 1 /\ Node = 1 .. MaxMsgs /\ Null = 0
  BY NodeFacts
<1>1. \A i \in 1 .. MaxMsgs : fs[i] \in Node /\ fs[i] = MaxMsgs - i + 1
  BY <1>0
<1>2. fs \in Seq(Node) /\ Len(fs) = MaxMsgs /\ DOMAIN fs = 1 .. MaxMsgs
  <2> HIDE DEF fs
  <2>1. fs = [i \in 1 .. MaxMsgs |-> fs[i]]
    BY DEF fs
  <2>2. fs = [i \in 1 .. MaxMsgs |-> MaxMsgs - i + 1]
    BY DEF fs
  <2>3. fs \in [1 .. MaxMsgs -> Node]
    BY <1>1, <2>1
  <2> QED BY ONLY <1>0, <2>3
<1>3. \A n \in Node : g[n] = n - 1 /\ g[n] \in Node \cup {Null}
  BY <1>0
<1>4. g \in NextType
  BY <1>3 DEF NextType
<1> HIDE DEF fs, g
<1>5. IsInjective(fs)
  BY <1>0, <1>1, <1>2 DEF IsInjective
<1>6. Range(fs) = Node
  <2>1. ASSUME NEW n \in Node PROVE n \in Range(fs)
    <3>1. MaxMsgs - n + 1 \in 1 .. MaxMsgs /\ MaxMsgs - (MaxMsgs - n + 1) + 1 = n
      BY <1>0
    <3>2. fs[MaxMsgs - n + 1] = n
      BY <1>1, <3>1
    <3> QED BY <1>2, <3>1, <3>2 DEF Range
  <2>2. \A n \in Range(fs) : n \in Node
    BY <1>1, <1>2 DEF Range
  <2> QED BY <2>1, <2>2
<1>7. PathOf(g, MaxMsgs, fs)
  <2>1. fs # <<>> /\ fs[1] = MaxMsgs
    BY <1>0, <1>1, <1>2
  <2>2. ASSUME NEW i \in 1 .. Len(fs) PROVE g[fs[i]] = IF i = Len(fs) THEN Null ELSE fs[i + 1]
    <3>1. i \in 1 .. MaxMsgs /\ g[fs[i]] = (MaxMsgs - i + 1) - 1
      BY <1>1, <1>2, <1>3
    <3>2. CASE i = MaxMsgs
      BY <1>0, <1>2, <3>1, <3>2
    <3>3. CASE i # MaxMsgs
      <4>1. i + 1 \in 1 .. MaxMsgs /\ MaxMsgs - (i + 1) + 1 = (MaxMsgs - i + 1) - 1
        BY <1>0, <3>1, <3>3
      <4>2. fs[i + 1] = MaxMsgs - (i + 1) + 1
        BY <1>1, <4>1
      <4> QED BY <1>2, <3>1, <3>3, <4>1, <4>2
    <3> QED BY <3>2, <3>3
  <2> QED BY <1>2, <1>5, <2>1, <2>2 DEF PathOf
<1>8. PathOf(g, Null, <<>>)
  BY DEF PathOf, IsInjective
<1>9. MqEmpty = [head |-> Null, tail |-> Null, free |-> MaxMsgs, next |-> g,
                 data |-> [n \in Node |-> Nil], entry |-> 0]
  BY DEF MqEmpty, g
<1>10. MqEmpty \in MqType
  BY <1>0, <1>4, <1>9 DEF MqType, NextType
<1>11. Range(<<>>) = {}
  BY DEF Range
<1>12. MqPlaces(<<>>, fs, {})
  BY <1>6, <1>11 DEF MqPlaces
<1> QED BY <1>7, <1>8, <1>9, <1>10, <1>12 DEF MqShape

MqCleared(q) == [q EXCEPT !.head = Null, !.tail = Null, !.entry = 0]

\* The messages are dropped: their buffers are where the call has them.
LEMMA ShapeClear ==
  ASSUME NEW q, NEW us, NEW fs, NEW H, MqShape(q, us, fs, H)
  PROVE  /\ MqShape(MqCleared(q), <<>>, fs, H \cup Range(us))
         /\ MqCleared(q).next = q.next /\ MqCleared(q).data = q.data
<1> DEFINE v == MqCleared(q)
<1>0. q \in MqType /\ PathOf(q.next, q.free, fs) /\ MqPlaces(us, fs, H)
  BY DEF MqShape
<1>1. /\ v.head = Null /\ v.tail = Null /\ v.free = q.free /\ v.next = q.next /\ v.data = q.data
      /\ v.entry = 0 /\ v \in MqType
  <2>1. v = [head |-> Null, tail |-> Null, free |-> q.free, next |-> q.next, data |-> q.data, entry |-> 0]
    <3>1. q = [head |-> q.head, tail |-> q.tail, free |-> q.free, next |-> q.next, data |-> q.data,
               entry |-> q.entry]
      BY <1>0 DEF MqType
    <3>2. MqCleared(q) = [q EXCEPT !.head = Null, !.tail = Null, !.entry = 0]
      BY DEF MqCleared
    <3>3. MqCleared(q) = [head |-> Null, tail |-> Null, free |-> q.free, next |-> q.next,
                          data |-> q.data, entry |-> 0]
      BY ONLY <3>1, <3>2
    <3> QED BY <3>3
  <2>2. 0 \in 0 .. MaxMsgs
    BY NodeFacts
  <2> HIDE DEF v
  <2> QED BY ONLY <1>0, <2>1, <2>2 DEF MqType
<1> HIDE DEF v
<1>2. PathOf(q.next, Null, <<>>) /\ Range(<<>>) = {}
  BY DEF PathOf, IsInjective, Range
<1>3. MqPlaces(<<>>, fs, H \cup Range(us))
  BY <1>0, <1>2 DEF MqPlaces
<1>4. MqShape(v, <<>>, fs, H \cup Range(us))
  BY <1>0, <1>1, <1>2, <1>3 DEF MqShape
<1> QED BY <1>1, <1>4 DEF v

\* rt_mq_control: every message goes to the free chain.
LEMMA ShapeReset ==
  ASSUME NEW q, NEW us, NEW fs, NEW H, MqShape(q, us, fs, H)
  PROVE  LET v == FoldLeft(MqGive, MqCleared(q), us)
         IN  /\ \E gs : MqShape(v, <<>>, gs, H)
             /\ \A x \in H : v.next[x] = q.next[x] /\ v.data[x] = q.data[x]
<1> DEFINE w == MqCleared(q)
           v == FoldLeft(MqGive, w, us)
<1>0. us \in Seq(Node) /\ Len(us) \in Nat /\ MqPlaces(us, fs, H) /\ H \subseteq Node /\ IsInjective(us)
      /\ DOMAIN us = 1 .. Len(us)
  BY ShapeFacts DEF MqShape, PathOf
<1>1. MqShape(w, <<>>, fs, H \cup Range(us)) /\ w.next = q.next /\ w.data = q.data
  BY ShapeClear
<1> HIDE DEF w
<1>2. PICK f : /\ f[0] = w
               /\ \A i \in 1 .. Len(us) : f[i] = MqGive(f[i - 1], us[i])
               /\ v = f[Len(us)]
  BY <1>0, MqRounds
<1> HIDE DEF v
<1> DEFINE Rest(i) == {us[j] : j \in i + 1 .. Len(us)}
           Good(i) == /\ \E gs : MqShape(f[i], <<>>, gs, H \cup Rest(i))
                      /\ \A x \in H : f[i].next[x] = q.next[x] /\ f[i].data[x] = q.data[x]
           P == {i \in 0 .. Len(us) : Good(i)}
<1>3. Good(0)
  <2>1. Rest(0) = Range(us)
    BY <1>0 DEF Range
  <2> HIDE DEF Rest
  <2> QED BY <1>1, <1>2, <2>1
<1>4. ASSUME NEW i \in 0 .. Len(us) - 1, Good(i) PROVE Good(i + 1)
  <2> DEFINE n == us[i + 1]
  <2>0. i + 1 \in 1 .. Len(us) /\ (i + 1) - 1 = i /\ i \in Nat
    BY <1>0
  <2>1. f[i + 1] = MqGive(f[i], n)
    BY <1>2, <2>0
  <2>2. PICK gs : MqShape(f[i], <<>>, gs, H \cup Rest(i))
    BY <1>4
  <2>3. n \in Rest(i) /\ n \notin H
    <3>1. n \in Range(us) /\ i + 1 \in i + 1 .. Len(us)
      BY <1>0, <2>0 DEF Range
    <3> QED BY <1>0, <3>1 DEF MqPlaces
  <2>4. (H \cup Rest(i)) \ {n} = H \cup Rest(i + 1)
    <3>1. ASSUME NEW x \in Rest(i), x # n PROVE x \in Rest(i + 1)
      <4>1. PICK j \in i + 1 .. Len(us) : x = us[j]
        OBVIOUS
      <4>2. j \in (i + 1) + 1 .. Len(us)
        BY <1>0, <2>0, <3>1, <4>1
      <4> QED BY <4>1, <4>2
    <3>2. ASSUME NEW x \in Rest(i + 1) PROVE x \in Rest(i) /\ x # n
      <4>1. PICK j \in (i + 1) + 1 .. Len(us) : x = us[j]
        OBVIOUS
      <4>2. j \in i + 1 .. Len(us) /\ j # i + 1 /\ j \in 1 .. Len(us)
        BY <1>0, <2>0
      <4>3. us[j] # us[i + 1]
        BY <1>0, <2>0, <4>2 DEF IsInjective
      <4> QED BY <4>1, <4>2, <4>3
    <3> HIDE DEF Rest
    <3> QED BY <2>3, <3>1, <3>2
  <2> HIDE DEF Rest, n
  <2>5. n \in H \cup Rest(i)
    BY <2>3
  <2>6. /\ MqShape(MqGive(f[i], n), <<>>, <<n>> \o gs, (H \cup Rest(i)) \ {n})
        /\ MqLeaves(f[i], MqGive(f[i], n), H \cup Rest(i), n)
    BY <2>2, <2>5, ShapeGive
  <2>7. MqShape(f[i + 1], <<>>, <<n>> \o gs, H \cup Rest(i + 1))
    BY <2>1, <2>4, <2>6
  <2>8. \A x \in H : f[i + 1].next[x] = f[i].next[x] /\ f[i + 1].data[x] = f[i].data[x]
    BY <1>0, <2>1, <2>3, <2>6 DEF MqLeaves
  <2> QED BY <1>4, <2>7, <2>8
<1> HIDE DEF Good
<1>5. \A i \in 0 .. Len(us) : i \in P
  <2>1. 0 \in P
    BY <1>0, <1>3
  <2>2. ASSUME NEW i \in 0 .. Len(us) - 1, i \in P PROVE i + 1 \in P
    <3>1. i + 1 \in 0 .. Len(us)
      BY <1>0
    <3> QED BY <1>4, <2>2, <3>1
  <2> HIDE DEF P
  <2> QED BY <1>0, <2>1, <2>2, UpTo
<1>6. Good(Len(us))
  BY <1>0, <1>5
<1>7. H \cup Rest(Len(us)) = H
  <2>1. Len(us) + 1 .. Len(us) = {}
    BY <1>0
  <2> QED BY <2>1
<1> HIDE DEF Rest
<1>8. \E gs : MqShape(v, <<>>, gs, H)
  BY <1>2, <1>6, <1>7 DEF Good
<1>9. \A x \in H : v.next[x] = q.next[x] /\ v.data[x] = q.data[x]
  BY <1>2, <1>6 DEF Good
<1> QED BY <1>8, <1>9 DEF v, w

LEMMA DisjointUnion ==
  ASSUME NEW S, IsFiniteSet(S), NEW T, IsFiniteSet(T), S \cap T = {}
  PROVE  /\ IsFiniteSet(S \cup T) /\ Cardinality(S \cup T) = Cardinality(S) + Cardinality(T)
         /\ Cardinality(S) \in Nat /\ Cardinality(T) \in Nat
<1>1. Cardinality(S) \in Nat /\ Cardinality(T) \in Nat /\ Cardinality({}) = 0
  BY FS_CardinalityType, FS_EmptySet
<1>2. IsFiniteSet(S \cup T) /\ Cardinality(S \cup T) = Cardinality(S) + Cardinality(T) - Cardinality(S \cap T)
  BY FS_Union
<1>3. Cardinality(S) + Cardinality(T) - 0 = Cardinality(S) + Cardinality(T)
  BY ONLY <1>1
<1>4. Cardinality(S \cap T) = 0
  BY <1>1
<1> QED BY <1>1, <1>2, <1>3, <1>4

LEMMA ShapeChains ==
  ASSUME NEW us, NEW fs, NEW H, MqShape(mq, us, fs, H)
  PROVE  /\ Chain(mq.head) = us /\ Chain(mq.free) = fs /\ MqMessages = MsgsOf(mq, us)
         /\ Len(us) + Len(fs) + Cardinality(H) = MaxMsgs
<1>0. /\ mq \in MqType /\ us \in Seq(Node) /\ fs \in Seq(Node) /\ MqPlaces(us, fs, H)
      /\ Len(us) = mq.entry /\ PathOf(mq.next, mq.head, us) /\ PathOf(mq.next, mq.free, fs)
      /\ H \subseteq Node /\ Range(us) \subseteq Node /\ Range(fs) \subseteq Node
      /\ IsInjective(us) /\ IsInjective(fs)
  BY ShapeFacts DEF MqShape, PathOf
<1>1. mq.head \in Node \cup {Null} /\ mq.free \in Node \cup {Null}
  BY <1>0 DEF MqType
<1>2. /\ IsFiniteSet(Range(us)) /\ Cardinality(Range(us)) = Len(us) /\ IsFiniteSet(Range(fs))
      /\ Cardinality(Range(fs)) = Len(fs) /\ IsFiniteSet(H) /\ Cardinality(H) \in Nat
      /\ Len(us) \in Nat /\ Len(fs) \in Nat
  <2>1. IsFiniteSet(Range(us)) /\ Cardinality(Range(us)) = Len(us)
    BY <1>0, InjectiveLength
  <2>2. IsFiniteSet(Range(fs)) /\ Cardinality(Range(fs)) = Len(fs)
    BY <1>0, InjectiveLength
  <2>3. IsFiniteSet(H)
    BY <1>0, NodeFacts, FS_Subset
  <2>4. Cardinality(H) \in Nat
    BY <2>3, FS_CardinalityType
  <2> QED BY <1>0, <2>1, <2>2, <2>3, <2>4
<1>3. Len(us) + Len(fs) + Cardinality(H) = MaxMsgs
  <2> DEFINE Us == Range(us)
             Fs == Range(fs)
             A == Us \cup Fs
  <2>1. IsFiniteSet(A) /\ Cardinality(A) = Len(us) + Len(fs)
    <3>1. Us \cap Fs = {} /\ IsFiniteSet(Us) /\ IsFiniteSet(Fs)
      BY <1>0, <1>2 DEF MqPlaces
    <3>2. Cardinality(Us) = Len(us) /\ Cardinality(Fs) = Len(fs)
      BY <1>2
    <3> HIDE DEF Us, Fs
    <3> QED BY <3>1, <3>2, DisjointUnion
  <2>2. A \cap H = {} /\ A \cup H = Node
    BY <1>0 DEF MqPlaces
  <2> HIDE DEF A
  <2>3. Cardinality(A \cup H) = Cardinality(A) + Cardinality(H)
    BY <1>2, <2>1, <2>2, DisjointUnion
  <2> QED BY <2>1, <2>2, <2>3, NodeFacts
<1>4. Len(us) <= MaxMsgs /\ Len(fs) <= MaxMsgs
  BY ONLY <1>2, <1>3, NodeFacts
<1>5. Chain(mq.head) = us /\ Chain(mq.free) = fs
  BY <1>0, <1>1, <1>4, ChainHere
<1> QED BY <1>0, <1>3, <1>5 DEF MqMessages, MsgsOf

LEMMA ShapeNext ==
  ASSUME NEW us, NEW fs, NEW H, MqShape(mq', us, fs, H)
  PROVE  MqMessages' = MsgsOf(mq', us)
<1>0. /\ mq' \in MqType /\ us \in Seq(Node) /\ Len(us) = mq'.entry /\ mq'.entry <= MaxMsgs
      /\ PathOf(mq'.next, mq'.head, us)
  BY ShapeFacts DEF MqShape, PathOf
<1>1. mq'.head \in Node \cup {Null}
  BY <1>0 DEF MqType
<1>2. \A n \in Node \cup {Null} : n = mq'.head => Chain(n)' = us
  BY <1>0, ChainNext
<1>3. ChainUpTo' = ChainsOf(mq'.next)
  BY Zenon DEF ChainUpTo, ChainsOf, ChainBody
<1>4. Chain(mq.head)' = ChainsOf(mq'.next)[MaxMsgs][mq'.head]
  BY <1>3 DEF Chain
<1>5. ChainsOf(mq'.next)[MaxMsgs][mq'.head] = us
  BY <1>0, <1>1, ChainIs
<1> QED BY <1>0, <1>4, <1>5 DEF MqMessages, MsgsOf

\* rt_mq_send of an interrupt handler.
MqSent(q, n, m) == MqLinked([q EXCEPT !.free = q.next[n], !.next[n] = Null, !.data[n] = m], n)

MqSendDone(q, v, us, fs, H, n, m) ==
  /\ MqShape(v, Append(us, n), Tail(fs), H) /\ v.entry = q.entry + 1
  /\ \A x \in H : v.next[x] = q.next[x] /\ v.data[x] = q.data[x]
  /\ Len(MsgsOf(q, us)) < MaxMsgs /\ MsgsOf(v, Append(us, n)) = Append(MsgsOf(q, us), m)

LEMMA ShapeSend ==
  ASSUME NEW q, NEW us, NEW fs, NEW H, MqShape(q, us, fs, H), NEW n, n = q.free, n # Null,
         NEW m \in Msg,
         NEW v, v = MqSent(q, n, m)
  PROVE  MqSendDone(q, v, us, fs, H, n, m)
<1> DEFINE w == [q EXCEPT !.free = q.next[n], !.next[n] = Null, !.data[n] = m]
           u == MqTaken(q)
           z == MqFilled(u, n, m)
           K == H \cup {n}
<1>0. q \in MqType /\ H \subseteq Node /\ us \in Seq(Node)
  BY ShapeFacts
<1>1. w = z
  <2> DEFINE g == [q.next EXCEPT ![n] = Null]
             d == [q.data EXCEPT ![n] = m]
             f == q.next[n]
  <2>1. q = [head |-> q.head, tail |-> q.tail, free |-> q.free, next |-> q.next, data |-> q.data,
             entry |-> q.entry]
    BY <1>0 DEF MqType
  <2>2. w = [q EXCEPT !.free = f, !.next = g, !.data = d]
    OBVIOUS
  <2>3. u = [q EXCEPT !.free = f]
    BY DEF MqTaken
  <2> HIDE DEF f, w, u
  <2>4. u = [head |-> q.head, tail |-> q.tail, free |-> f, next |-> q.next, data |-> q.data,
             entry |-> q.entry]
    BY ONLY <2>1, <2>3
  <2>5. z = [u EXCEPT !.next = [u.next EXCEPT ![n] = Null], !.data = [u.data EXCEPT ![n] = m]]
    BY DEF MqFilled
  <2>6. u.next = q.next /\ u.data = q.data
    BY ONLY <2>4
  <2> HIDE DEF z
  <2>7. z = [u EXCEPT !.next = g, !.data = d]
    BY <2>5, <2>6
  <2> HIDE DEF g, d
  <2>8. z = [head |-> q.head, tail |-> q.tail, free |-> f, next |-> g, data |-> d, entry |-> q.entry]
    BY ONLY <2>4, <2>7
  <2>9. w = [head |-> q.head, tail |-> q.tail, free |-> f, next |-> g, data |-> d, entry |-> q.entry]
    BY ONLY <2>1, <2>2
  <2> QED BY <2>8, <2>9
<1>2. v = MqLinked(w, n)
  BY DEF MqSent
<1> HIDE DEF w, K
<1>3. /\ MqShape(u, us, Tail(fs), K) /\ n \in Node /\ n \notin H
      /\ u.data = q.data /\ u.next = q.next /\ u.entry = q.entry /\ MsgsOf(u, us) = MsgsOf(q, us)
  BY ShapeTake DEF K
<1>4. n \in K /\ m \in Msg \cup {Nil} /\ K \ {n} = H
  BY <1>3 DEF K
<1> HIDE DEF u
<1>5. /\ MqShape(z, us, Tail(fs), K) /\ z.data[n] = m /\ z.next[n] = Null /\ z.entry = u.entry
      /\ MqLeaves(u, z, K, n) /\ MsgsOf(z, us) = MsgsOf(u, us)
  BY <1>3, <1>4, ShapeFill
<1> HIDE DEF z
<1>6. v = MqLinked(z, n)
  BY <1>1, <1>2
<1>7. /\ MqShape(v, Append(us, n), Tail(fs), K \ {n}) /\ v.data = z.data /\ v.entry = z.entry + 1
      /\ MqLeaves(z, v, K, n)
      /\ Len(MsgsOf(z, us)) < MaxMsgs /\ MsgsOf(v, Append(us, n)) = Append(MsgsOf(z, us), z.data[n])
  <2> DEFINE vs == Append(us, n)
  <2>1. vs = Append(us, n)
    OBVIOUS
  <2> HIDE DEF vs
  <2>2. MqAdded(z, v, us, vs, Tail(fs), K, n) /\ MqAppended(z, v, us, vs, n)
    BY <1>4, <1>5, <1>6, <2>1, ShapeLast
  <2> QED BY <2>2 DEF MqAdded, MqAppended, vs
<1>8. \A x \in H : v.next[x] = q.next[x] /\ v.data[x] = q.data[x]
  BY <1>0, <1>3, <1>5, <1>7 DEF MqLeaves, K
<1> QED BY <1>3, <1>4, <1>5, <1>7, <1>8 DEF MqSendDone

-----------------------------------------------------------------------------
(* The message queue *)

\* The threads that are between the two interrupt locks of a call, and the
\* buffers they have.
Hands         == {t \in Thread : op[t].pc \in HandPC}
HandNodes     == {loc[t].node : t \in Hands}
OtherNodes(c) == {loc[t].node : t \in Hands \ {c}}

\* What is in the buffer that t has.
MqHand(t) ==
  /\ op[t].pc \in {"mq_fill", "mq_link", "mq_ufill", "mq_ulink"} => loc[t].msg \in Msg
  /\ op[t].pc = "mq_link" => mq.next[loc[t].node] = Null
  /\ op[t].pc \in {"mq_link", "mq_ulink"} => mq.data[loc[t].node] = loc[t].msg

MqApart == \A t, u \in Hands : loc[t].node = loc[u].node => t = u

MqLoc(t) == op[t].on = "mq" /\ Blocked(t) => Clock(t)

MqCount == "mq" \in alive /\ Awaited("mq") => mq.entry <= Cardinality(Coming("mq"))

MqShaped == \E us, fs : MqShape(mq, us, fs, HandNodes)

MqInv ==
  /\ MqShaped /\ MqCount /\ MqApart
  /\ "mq" \notin alive => mq = MqEmpty
  /\ \A t \in Thread : MqLoc(t) /\ MqHand(t)

MqCalls == [c \in Thread |-> MqCall(c)]

MqAbsStep == [MqAbstract!Next]_<<MqMessages, MqCalls>>

MqStep == OwnStep({"mq"}) /\ MqInv' /\ MqAbsStep

\* Nobody but c takes part.
OnlyOf(c)    == \A t \in Thread : t = c \/ (op'[t] = op[t] /\ loc'[t] = loc[t])
MqKeeps(c)   == \A x \in OtherNodes(c) : mq'.next[x] = mq.next[x] /\ mq'.data[x] = mq.data[x]
OthersSay(c) == \A t \in Thread : t = c \/ MqCall(t)' = MqCall(t)

LEMMA MqNodes ==
  ASSUME NEW c \in Thread, OnlyOf(c)
  PROVE  /\ op[c].pc \in HandPC => HandNodes = OtherNodes(c) \cup {loc[c].node}
         /\ op[c].pc \notin HandPC => HandNodes = OtherNodes(c)
         /\ op'[c].pc \in HandPC => HandNodes' = OtherNodes(c) \cup {loc'[c].node}
         /\ op'[c].pc \notin HandPC => HandNodes' = OtherNodes(c)
         /\ OtherNodes(c)' = OtherNodes(c)
         /\ MqApart /\ op[c].pc \in HandPC => loc[c].node \notin OtherNodes(c)
<1>1. Hands \ {c} = Hands' \ {c}
  BY DEF Hands, OnlyOf
<1>2. \A t \in Hands \ {c} : loc'[t] = loc[t]
  BY DEF Hands, OnlyOf
<1>3. OtherNodes(c)' = OtherNodes(c)
  BY <1>1, <1>2 DEF OtherNodes
<1>4. Hands = (Hands \ {c}) \cup IF op[c].pc \in HandPC THEN {c} ELSE {}
  BY DEF Hands
<1>5. Hands' = (Hands' \ {c}) \cup IF op'[c].pc \in HandPC THEN {c} ELSE {}
  BY DEF Hands
<1>6. HandNodes = OtherNodes(c) \cup IF op[c].pc \in HandPC THEN {loc[c].node} ELSE {}
  BY <1>4 DEF HandNodes, OtherNodes
<1>7. HandNodes' = OtherNodes(c)' \cup IF op'[c].pc \in HandPC THEN {loc'[c].node} ELSE {}
  BY <1>5 DEF HandNodes, OtherNodes
<1>8. MqApart /\ op[c].pc \in HandPC => loc[c].node \notin OtherNodes(c)
  BY DEF MqApart, Hands, OtherNodes
<1> QED BY <1>3, <1>6, <1>7, <1>8

LEMMA MqOthers ==
  ASSUME NEW c \in Thread, OnlyOf(c), MqKeeps(c)
  PROVE  OthersSay(c) /\ \A t \in Thread \ {c} : MqHand(t) => MqHand(t)'
<1>1. ASSUME NEW t \in Thread \ {c}
      PROVE  /\ op'[t] = op[t] /\ loc'[t] = loc[t]
             /\ op[t].pc \in HandPC => /\ mq'.next[loc[t].node] = mq.next[loc[t].node]
                                       /\ mq'.data[loc[t].node] = mq.data[loc[t].node]
  BY DEF OnlyOf, MqKeeps, OtherNodes, Hands
<1>2. \A t \in Thread \ {c} : MqHand(t) => MqHand(t)'
  BY <1>1 DEF MqHand, HandPC
<1>3. ASSUME NEW t \in Thread \ {c} PROVE MqCall(t)' = MqCall(t)
  <2>1. Blocked(t)' <=> Blocked(t)
    BY <1>1 DEF Blocked
  <2>2. "mq_copy" \in HandPC
    BY DEF HandPC
  <2>3. op[t].pc = "mq_copy" => mq'.data[loc[t].node] = mq.data[loc[t].node]
    BY <1>1, <2>2
  <2> QED BY <1>1, <2>1, <2>3 DEF MqCall
<1> QED BY <1>2, <1>3 DEF OthersSay

\* A step of c alone.
LEMMA MqMove ==
  ASSUME Base, MqInv, NEW c \in Thread, OnlyOf(c), alive' = alive, "mq" \in alive,
         \A t \in Thread : t = c \/ (Timed(k', t) => Timed(k, t) /\ k'.tmo[t] = k.tmo[t]),
         MqKeeps(c), MqShaped', MqCount', MqHand(c)', MqLoc(c)',
         op'[c].pc \in HandPC => loc'[c].node \notin OtherNodes(c)
  PROVE  MqInv' /\ OthersSay(c)
<1>1. OthersSay(c) /\ \A t \in Thread : MqHand(t)'
  <2>1. OthersSay(c) /\ \A t \in Thread \ {c} : MqHand(t) => MqHand(t)'
    BY MqOthers
  <2> QED BY <2>1 DEF MqInv
<1>2. \A t \in Thread : MqLoc(t)'
  <2> SUFFICES ASSUME NEW t \in Thread, t # c PROVE MqLoc(t)'
    OBVIOUS
  <2>1. MqLoc(t) /\ op'[t] = op[t] /\ loc'[t] = loc[t]
    BY DEF MqInv, OnlyOf
  <2>2. Clock(t) => Clock(t)'
    BY <2>1, KeptClock
  <2> QED BY <2>1, <2>2 DEF MqLoc, Blocked
<1>3. MqApart'
  <2> SUFFICES ASSUME NEW t \in Hands', NEW u \in Hands', loc'[t].node = loc'[u].node PROVE t = u
    BY DEF MqApart
  <2>1. t \in Thread /\ u \in Thread
    BY DEF Hands
  <2>2. ASSUME NEW x \in Hands', x # c PROVE x \in Hands /\ loc'[x] = loc[x] /\ loc'[x].node \in OtherNodes(c)
    BY <2>2 DEF Hands, OnlyOf, OtherNodes
  <2>3. CASE t # c /\ u # c
    BY <2>2, <2>3 DEF MqInv, MqApart
  <2>4. CASE t = c \/ u = c
    <3>1. c \in Hands' => loc'[c].node \notin OtherNodes(c)
      BY DEF Hands
    <3> QED BY <2>2, <2>4, <3>1
  <2> QED BY <2>3, <2>4
<1> QED BY <1>1, <1>2, <1>3 DEF MqInv

LEMMA MqCountQuiet ==
  ASSUME Base, "mq" \in alive, alive' = alive, MqCount, NEW c, c \notin Coming("mq"),
         NEW W, NEW e, KStep({c}, W, e), mq'.entry <= mq.entry, mq.entry \in Nat, mq'.entry \in Nat
  PROVE  MqCount'
<1>0. "mq" \in Obj
  BY ObjNames
<1>1. /\ Awaited("mq")' => Awaited("mq")
      /\ Cardinality(Coming("mq")') >= Cardinality(Coming("mq"))
  BY <1>0, StepCount
<1>2. Cardinality(Coming("mq")) \in Nat /\ Cardinality(Coming("mq")') \in Nat
  BY Subsets DEF Coming
<1> QED BY <1>1, <1>2 DEF MqCount

LEMMA MqCountLess ==
  ASSUME Base, "mq" \in alive, alive' = alive, MqCount, NEW c,
         NEW W, NEW e, KStep({c}, W, e), mq'.entry = mq.entry - 1, mq.entry \in Nat
  PROVE  MqCount'
<1>0. "mq" \in Obj
  BY ObjNames
<1>1. /\ Awaited("mq")' => Awaited("mq")
      /\ Cardinality(Coming("mq")') >= Cardinality(Coming("mq")) - 1
  BY <1>0, StepCount
<1>2. Cardinality(Coming("mq")) \in Nat /\ Cardinality(Coming("mq")') \in Nat
  BY Subsets DEF Coming
<1> QED BY <1>1, <1>2 DEF MqCount

LEMMA MqCountMore ==
  ASSUME Base, "mq" \in alive, alive' = alive, MqCount, NEW A, NEW c, A \subseteq {c},
         c \notin Coming("mq") \/ A = {},
         WakeStep(A, "mq"), mq'.entry = mq.entry + 1, mq.entry \in Nat
  PROVE  MqCount'
<1>0. "mq" \in Obj
  BY ObjNames
<1>1. PICK W : KStep(A, W, "EOK")
  BY DEF WakeStep
<1>2. Awaited("mq")' => Awaited("mq")
  BY <1>0, <1>1, StepCount
<1>3. Awaited("mq")' => Cardinality(Coming("mq")') >= Cardinality(Coming("mq")) + 1
  BY <1>0, WakeCount
<1>4. Cardinality(Coming("mq")) \in Nat /\ Cardinality(Coming("mq")') \in Nat
  BY Subsets DEF Coming
<1> QED BY <1>2, <1>3, <1>4 DEF MqCount

LEMMA MqCallsOne ==
  ASSUME NEW c \in Thread, OthersSay(c)
  PROVE  MqCalls' = [MqCalls EXCEPT ![c] = MqCall(c)'] /\ MqCalls[c] = MqCall(c)
BY DEF MqCalls, OthersSay

LEMMA MqStutter ==
  ASSUME NEW c \in Thread, OthersSay(c), MqMessages' = MqMessages, MqCall(c)' = MqCall(c)
  PROVE  MqAbsStep
<1>1. MqCalls' = MqCalls
  BY MqCallsOne DEF MqCalls
<1> QED BY <1>1 DEF MqAbsStep

LEMMA MqAbsPut ==
  ASSUME NEW c \in Thread, OthersSay(c), NEW m \in Msg, MqCall(c)' = <<"sent">>,
         Len(MqMessages) < MaxMsgs,
         \/ MqCall(c) = <<"send", m>> /\ MqMessages' = Append(MqMessages, m)
         \/ MqCall(c) = <<"urgent", m>> /\ MqMessages' = <<m>> \o MqMessages
  PROVE  MqAbsStep
<1>1. MqAbstract!Put(c, m)
  BY MqCallsOne DEF MqAbstract!Put, MqAbstract!Out, MqAbstract!Send, MqAbstract!Urgent, MqAbstract!Sent,
     MqAbstract!Become, MqCalls
<1> QED BY <1>1 DEF MqAbsStep, MqAbstract!Next, MqCalls

LEMMA MqAbsPutIsr ==
  ASSUME NEW c \in Thread, OthersSay(c), MqCall(c)' = MqCall(c), NEW m \in Msg,
         Len(MqMessages) < MaxMsgs, MqMessages' = Append(MqMessages, m)
  PROVE  MqAbsStep
<1>1. MqCalls' = MqCalls
  BY MqCallsOne DEF MqCalls
<1>2. MqAbstract!PutIsr(m)
  BY <1>1 DEF MqAbstract!PutIsr, MqCalls
<1> QED BY <1>2 DEF MqAbsStep, MqAbstract!Next, MqCalls

LEMMA MqAbsTake ==
  ASSUME NEW c \in Thread, OthersSay(c),
         MqCall(c) \in {<<"out">>, <<"recv">>}, MqCall(c)' = <<"got", Head(MqMessages)>>,
         MqMessages # <<>>, MqMessages' = Tail(MqMessages)
  PROVE  MqAbsStep
<1>1. MqAbstract!Take(c)
  BY MqCallsOne DEF MqAbstract!Take, MqAbstract!Out, MqAbstract!Recv, MqAbstract!Got,
     MqAbstract!Become, MqCalls
<1> QED BY <1>1 DEF MqAbsStep, MqAbstract!Next, MqCalls

LEMMA MqAbsBegin ==
  ASSUME NEW c \in Thread, OthersSay(c), NEW m, MqCall(c) = <<"out">>, MqMessages' = MqMessages,
         \/ m \in Msg /\ MqCall(c)' \in {<<"send", m>>, <<"urgent", m>>}
         \/ MqMessages = <<>> /\ MqCall(c)' = <<"recv">>
  PROVE  MqAbsStep
<1>0. MsgOf[idle] \in Msg
  BY RetryAssumption, KernelAssumption
<1>1. MqAbstract!Begin(c)
  BY <1>0, MqCallsOne DEF MqAbstract!Begin, MqAbstract!Out, MqAbstract!Recv, MqAbstract!Send,
     MqAbstract!Urgent, MqAbstract!Become, MqCalls
<1> QED BY <1>1 DEF MqAbsStep, MqAbstract!Next, MqCalls

LEMMA MqAbsEnd ==
  ASSUME NEW c \in Thread, OthersSay(c), MqCall(c)' \in {<<"out">>, MqCall(c)}, MqMessages' = MqMessages
  PROVE  MqAbsStep
<1>1. CASE MqCall(c)' = MqCall(c)
  BY <1>1, MqStutter
<1>2. CASE MqCall(c)' # MqCall(c)
  <2>1. MqAbstract!End(c)
    BY <1>2, MqCallsOne DEF MqAbstract!End, MqAbstract!Out, MqAbstract!Become, MqCalls
  <2> QED BY <2>1 DEF MqAbsStep, MqAbstract!Next, MqCalls
<1> QED BY <1>1, <1>2

LEMMA MqAbsReset ==
  ASSUME NEW c \in Thread, OthersSay(c), MqCall(c)' = MqCall(c), MqMessages' = <<>>
  PROVE  MqAbsStep
<1>0. MqCalls' = MqCalls
  BY MqCallsOne DEF MqCalls
<1>1. MqAbstract!Reset
  BY <1>0 DEF MqAbstract!Reset, MqCalls
<1> QED BY <1>1 DEF MqAbsStep, MqAbstract!Next, MqCalls

LEMMA MqAlive ==
  ASSUME Base, "mq" \in alive
  PROVE  alive = {"mq"} /\ "mq" \in Obj /\ NoObj \notin Obj /\ IpcInv /\ DetachInv /\ IpcTypeOK
         /\ loc \in LocType
BY ObjNames DEF Base, AliveOK, MbObj, IpcInv

\* c is in its caller's code, or just woken.
LEMMA MqOutside ==
  ASSUME Base, NEW c \in User, NEW from, At(c, from)
  PROVE  /\ c \in Thread /\ op[c].pc = from
         /\ from \in HandPC => op[c].on = "mq" /\ c \notin Coming("mq")
         /\ from = "run" => op[c].on = NoObj /\ MqCall(c) = <<"out">> /\ c \notin Coming("mq")
<1>0. c \in Thread /\ IpcInv /\ "mq" \in Obj /\ NoObj \notin Obj /\ CallOK(c)
  BY ObjNames DEF Base, User
<1>1. op[c].pc = from
  BY DEF At
<1>2. from = "run" => op[c].on = NoObj
  BY <1>0, AtFacts
<1>3. from = "run" => MqCall(c) = <<"out">>
  BY <1>2 DEF MqCall, NoObj
<1>4. from \in HandPC => op[c].on = "mq" /\ c \notin Coming("mq")
  BY <1>0, <1>1 DEF CallOK, Coming, Woken, Blocked, HandPC
<1> QED BY <1>0, <1>1, <1>2, <1>3, <1>4 DEF Coming

\* rt_mq_send and rt_mq_urgent take a free buffer.
LEMMA MqTakeInv ==
  ASSUME Base, MqInv, NEW c \in User, NEW pc \in {"mq_fill", "mq_ufill"}, MqTake(c, MsgOf[c], pc)
  PROVE  MqStep
<1> DEFINE m == MsgOf[c]
           n == mq.free
           r == [Idle EXCEPT !.msg = m, !.node = n]
<1>0. /\ At(c, "run") /\ "mq" \in alive /\ n # Null /\ mq' = MqTaken(mq) /\ Call(c, pc, "mq")
      /\ loc' = [loc EXCEPT ![c] = r] /\ k' = k /\ alive' = alive
  BY DEF MqTake, MqTaken
<1>1. /\ alive = {"mq"} /\ "mq" \in Obj /\ NoObj \notin Obj /\ IpcInv /\ DetachInv /\ IpcTypeOK
      /\ loc \in LocType
  BY <1>0, MqAlive
<1>2. /\ c \in Thread /\ op[c].pc = "run" /\ op[c].on = NoObj /\ MqCall(c) = <<"out">>
      /\ c \notin Coming("mq") /\ m \in Msg
  BY <1>0, MqOutside, RetryAssumption
<1>3. KStep({c}, {}, "EOK") /\ op'[c].pc = pc /\ op'[c].on = "mq"
  <2>1. pc \in IpcPC \ (WaitPC \cup ResumePC \cup {"assert"}) /\ (pc = "run" => "mq" = NoObj)
    BY DEF IpcPC, WaitPC, ResumePC
  <2> QED BY <1>0, <1>1, <2>1, QuietStep
<1>4. PICK us, fs : MqShape(mq, us, fs, HandNodes)
  BY DEF MqInv, MqShaped
<1>5. /\ MqShape(mq', us, Tail(fs), HandNodes \cup {n}) /\ n \in Node /\ n \notin HandNodes
      /\ mq'.data = mq.data /\ mq'.next = mq.next /\ mq'.entry = mq.entry
      /\ MsgsOf(mq', us) = MsgsOf(mq, us) /\ mq.entry \in Nat
  <2>1. mq.entry \in Nat
    BY <1>4, ShapeFacts
  <2>2. mq.free # Null /\ mq' = MqTaken(mq)
    BY <1>0
  <2> QED BY <1>4, <2>1, <2>2, ShapeTake
<1>6. r \in LocRec /\ r.msg = m /\ r.node = n
  BY <1>2, <1>5, IdleType DEF LocRec, Idle
<1> HIDE DEF r, n
<1>7. loc' \in LocType /\ loc'[c] = r /\ \A t \in Thread : t \in {c} \/ loc'[t] = loc[t]
  BY <1>0, <1>1, <1>2, <1>6 DEF LocType
<1>8. OnlyOf(c) /\ \A t \in Thread : t = c \/ (Timed(k', t) => Timed(k, t) /\ k'.tmo[t] = k.tmo[t])
  BY <1>3, <1>7, KStepThread DEF OnlyOf
<1>9. OwnStep({"mq"})
  <2>1. op'[c].pc \notin SleepPC /\ (op'[c].pc \in HandPC => op'[c].on = "mq") /\ op'[c].pc # "mp_time"
    BY <1>3 DEF SleepPC
  <2>2. op[c].on \in alive \cup {NoObj} /\ op'[c].on \in alive \cup {NoObj}
    BY <1>0, <1>2, <1>3
  <2> DEFINE O == {"mq"}
  <2>3. alive = O
    BY <1>1
  <2> HIDE DEF O
  <2>4. OwnStep(O)
    BY <1>0, <1>2, <1>3, <1>7, <2>1, <2>2, <2>3, OwnAlone
  <2> QED BY <2>4 DEF O
<1>10. HandNodes = OtherNodes(c) /\ HandNodes' = OtherNodes(c) \cup {n}
  <2>1. op[c].pc \notin HandPC /\ op'[c].pc \in HandPC
    BY <1>2, <1>3 DEF HandPC
  <2> QED BY <1>2, <1>6, <1>7, <1>8, <2>1, MqNodes
<1>11. MqShaped' /\ MqKeeps(c) /\ loc'[c].node \notin OtherNodes(c)
  BY <1>5, <1>6, <1>7, <1>10 DEF MqShaped, MqKeeps
<1>12. MqHand(c)' /\ MqLoc(c)'
  BY <1>2, <1>3, <1>6, <1>7 DEF MqHand, MqLoc, Blocked
<1>13. MqCount'
  BY <1>0, <1>2, <1>3, <1>5, MqCountQuiet DEF MqInv
<1>14. MqInv' /\ OthersSay(c)
  BY <1>0, <1>2, <1>8, <1>11, <1>12, <1>13, MqMove
<1>15. MqMessages' = MqMessages
  BY <1>4, <1>5, ShapeChains, ShapeNext
<1>16. MqAbsStep
  <2>1. MqCall(c)' \in {<<"send", m>>, <<"urgent", m>>}
    <3>1. loc'[c].msg = m /\ ~Blocked(c)'
      BY <1>3, <1>6, <1>7 DEF Blocked
    <3> HIDE DEF m
    <3>2. CASE pc = "mq_fill"
      BY <1>3, <3>1, <3>2 DEF MqCall
    <3>3. CASE pc = "mq_ufill"
      BY <1>3, <3>1, <3>3 DEF MqCall
    <3> QED BY <3>2, <3>3
  <2> QED BY <1>2, <1>14, <1>15, <2>1, MqAbsBegin
<1> QED BY <1>9, <1>14, <1>16 DEF MqStep

\* A step of a call that has a buffer in hand, outside the interrupt locks.
LEMMA MqHandStep ==
  ASSUME Base, MqInv, NEW c \in User, NEW from \in HandPC, At(c, from),
         NEW pc \in {"mq_link", "mq_ulink", "mq_free"}, Goto(c, pc), k' = k, alive' = alive,
         loc' \in LocType, \A t \in Thread : t \in {c} \/ loc'[t] = loc[t],
         loc'[c].node = loc[c].node, MqHand(c)',
         \A us, fs : MqShape(mq, us, fs, HandNodes) =>
           MqShape(mq', us, fs, HandNodes) /\ MsgsOf(mq', us) = MsgsOf(mq, us),
         mq'.entry = mq.entry, MqLeaves(mq, mq', HandNodes, loc[c].node),
         MqCall(c)' = MqCall(c)
  PROVE  MqStep
<1>1. c \in Thread /\ op[c].pc = from /\ op[c].on = "mq" /\ c \notin Coming("mq")
  BY MqOutside
<1>2. "mq" \in alive
  <2>1. CallOK(c) /\ from \notin ResumePC /\ ~Blocked(c) /\ "mq" \in Obj
    BY <1>1, ObjNames DEF Base, HandPC, ResumePC, Blocked
  <2> QED BY <1>1, <2>1 DEF CallOK
<1>3. /\ alive = {"mq"} /\ "mq" \in Obj /\ NoObj \notin Obj /\ IpcInv /\ DetachInv /\ IpcTypeOK
  BY <1>2, MqAlive
<1>4. KStep({c}, {}, "EOK") /\ op'[c].pc = pc /\ op'[c].on = "mq"
  <2>1. pc \in IpcPC \ (WaitPC \cup ResumePC \cup {"assert"}) /\ (pc = "run" => "mq" = NoObj)
    BY DEF IpcPC, WaitPC, ResumePC
  <2>2. Call(c, pc, "mq")
    BY <1>1, <1>3, GotoCall
  <2>3. from \notin {"wait_sched", "sleep_sched"}
    BY DEF HandPC
  <2> QED BY <1>3, <2>1, <2>2, <2>3, QuietStep, Zenon
<1>5. PICK us, fs : MqShape(mq, us, fs, HandNodes)
  BY DEF MqInv, MqShaped
<1>6. /\ MqShape(mq', us, fs, HandNodes) /\ MsgsOf(mq', us) = MsgsOf(mq, us) /\ mq.entry \in Nat
      /\ HandNodes \subseteq Node
  BY <1>5, ShapeFacts
<1>7. OnlyOf(c) /\ \A t \in Thread : t = c \/ (Timed(k', t) => Timed(k, t) /\ k'.tmo[t] = k.tmo[t])
  BY <1>4, KStepThread DEF OnlyOf
<1>8. op'[c].pc \in HandPC
  BY <1>4 DEF HandPC
<1>9. OwnStep({"mq"})
  <2>1. op'[c].pc \notin SleepPC /\ op'[c].pc # "mp_time"
    BY <1>4 DEF SleepPC
  <2>2. op[c].on \in alive \cup {NoObj} /\ op'[c].on \in alive \cup {NoObj}
    BY <1>1, <1>2, <1>4
  <2> DEFINE O == {"mq"}
  <2>3. alive = O
    BY <1>3
  <2> HIDE DEF O
  <2>4. OwnStep(O)
    BY <1>1, <1>4, <2>1, <2>2, <2>3, OwnAlone
  <2> QED BY <2>4 DEF O
<1>10. /\ HandNodes = OtherNodes(c) \cup {loc[c].node} /\ HandNodes' = HandNodes
       /\ loc[c].node \notin OtherNodes(c)
  BY <1>1, <1>7, <1>8, MqNodes DEF MqInv
<1>11. MqShaped'
  <2>1. MqShape(mq', us, fs, HandNodes')
    BY <1>6, <1>10
  <2> QED BY <2>1 DEF MqShaped
<1>12. MqKeeps(c)
  BY <1>6, <1>10 DEF MqKeeps, MqLeaves
<1>13. MqLoc(c)'
  BY <1>4 DEF MqLoc, Blocked
<1>14. MqCount'
  BY <1>1, <1>2, <1>4, <1>6, MqCountQuiet DEF MqInv
<1>15. MqInv' /\ OthersSay(c)
  BY <1>1, <1>2, <1>7, <1>10, <1>11, <1>12, <1>13, <1>14, MqMove
<1>16. MqMessages' = MqMessages
  <2>1. MqShape(mq', us, fs, HandNodes')
    BY <1>6, <1>10
  <2> QED BY <1>5, <1>6, <2>1, ShapeChains, ShapeNext
<1>17. MqAbsStep
  BY <1>1, <1>15, <1>16, MqStutter
<1> QED BY <1>9, <1>15, <1>17 DEF MqStep

LEMMA MqHandNode ==
  ASSUME NEW c \in Thread, op[c].pc \in HandPC
  PROVE  loc[c].node \in HandNodes
BY DEF HandNodes, Hands

LEMMA MqFillInv ==
  ASSUME Base, MqInv, NEW c \in User, MqFill(c)
  PROVE  MqStep
<1> DEFINE n == loc[c].node
           m == loc[c].msg
<1>0. /\ At(c, "mq_fill") /\ mq' = MqFilled(mq, n, m) /\ Goto(c, "mq_link")
      /\ k' = k /\ alive' = alive /\ loc' = loc /\ loc \in LocType /\ IpcTypeOK
  BY DEF MqFill, MqFilled, Base, IpcInv
<1>1. c \in Thread /\ op[c].pc = "mq_fill" /\ op[c].on = "mq" /\ "mq_fill" \in HandPC
  BY <1>0, MqOutside DEF HandPC
<1>2. n \in HandNodes /\ m \in Msg \cup {Nil} /\ m \in Msg
  BY <1>1, MqHandNode DEF MqInv, MqHand
<1>3. op'[c].pc = "mq_link" /\ op'[c].on = "mq"
  BY <1>0, <1>1 DEF Goto, IpcTypeOK
<1>4. ASSUME NEW us, NEW fs, MqShape(mq, us, fs, HandNodes)
      PROVE  /\ MqShape(mq', us, fs, HandNodes) /\ MsgsOf(mq', us) = MsgsOf(mq, us)
             /\ mq'.data[n] = m /\ mq'.next[n] = Null /\ mq'.entry = mq.entry
             /\ MqLeaves(mq, mq', HandNodes, n)
  <2> HIDE DEF n, m
  <2> QED BY <1>0, <1>2, <1>4, ShapeFill
<1>5. /\ mq'.data[n] = m /\ mq'.next[n] = Null /\ mq'.entry = mq.entry
      /\ MqLeaves(mq, mq', HandNodes, n)
  BY <1>4 DEF MqInv, MqShaped
<1>6. MqHand(c)'
  BY <1>0, <1>2, <1>3, <1>5 DEF MqHand
<1>7. MqCall(c)' = MqCall(c)
  <2>0. loc'[c].msg = m /\ ~Blocked(c)'
    BY <1>0, <1>3 DEF Blocked
  <2>1. MqCall(c) = <<"send", m>>
    BY <1>1 DEF MqCall, Blocked
  <2> HIDE DEF m
  <2>2. MqCall(c)' = <<"send", m>>
    BY <1>3, <2>0 DEF MqCall
  <2> QED BY <2>1, <2>2
<1>8. \A t \in Thread : t \in {c} \/ loc'[t] = loc[t]
  BY <1>0
<1>9. loc' \in LocType /\ loc'[c].node = n /\ "mq_link" \in {"mq_link", "mq_ulink", "mq_free"}
  BY <1>0
<1>10. \A us, fs : MqShape(mq, us, fs, HandNodes) =>
         MqShape(mq', us, fs, HandNodes) /\ MsgsOf(mq', us) = MsgsOf(mq, us)
  BY <1>4
<1> QED BY <1>0, <1>1, <1>5, <1>6, <1>7, <1>8, <1>9, <1>10, MqHandStep

LEMMA MqUrgentFillInv ==
  ASSUME Base, MqInv, NEW c \in User, MqUrgentFill(c)
  PROVE  MqStep
<1> DEFINE n == loc[c].node
           m == loc[c].msg
<1>0. /\ At(c, "mq_ufill") /\ mq' = MqWritten(mq, n, m) /\ Goto(c, "mq_ulink")
      /\ k' = k /\ alive' = alive /\ loc' = loc /\ loc \in LocType /\ IpcTypeOK
  BY DEF MqUrgentFill, MqWritten, Base, IpcInv
<1>1. c \in Thread /\ op[c].pc = "mq_ufill" /\ op[c].on = "mq" /\ "mq_ufill" \in HandPC
  BY <1>0, MqOutside DEF HandPC
<1>2. n \in HandNodes /\ m \in Msg \cup {Nil} /\ m \in Msg
  BY <1>1, MqHandNode DEF MqInv, MqHand
<1>3. op'[c].pc = "mq_ulink" /\ op'[c].on = "mq"
  BY <1>0, <1>1 DEF Goto, IpcTypeOK
<1>4. ASSUME NEW us, NEW fs, MqShape(mq, us, fs, HandNodes)
      PROVE  /\ MqShape(mq', us, fs, HandNodes) /\ MsgsOf(mq', us) = MsgsOf(mq, us)
             /\ mq'.data[n] = m /\ mq'.entry = mq.entry
             /\ MqLeaves(mq, mq', HandNodes, n)
  <2> HIDE DEF n, m
  <2> QED BY <1>0, <1>2, <1>4, ShapeData
<1>5. /\ mq'.data[n] = m /\ mq'.entry = mq.entry
      /\ MqLeaves(mq, mq', HandNodes, n)
  BY <1>4 DEF MqInv, MqShaped
<1>6. MqHand(c)'
  BY <1>0, <1>2, <1>3, <1>5 DEF MqHand
<1>7. MqCall(c)' = MqCall(c)
  <2>0. loc'[c].msg = m /\ ~Blocked(c)'
    BY <1>0, <1>3 DEF Blocked
  <2>1. MqCall(c) = <<"urgent", m>>
    BY <1>1 DEF MqCall, Blocked
  <2> HIDE DEF m
  <2>2. MqCall(c)' = <<"urgent", m>>
    BY <1>3, <2>0 DEF MqCall
  <2> QED BY <2>1, <2>2
<1>8. \A t \in Thread : t \in {c} \/ loc'[t] = loc[t]
  BY <1>0
<1>9. loc' \in LocType /\ loc'[c].node = n /\ "mq_ulink" \in {"mq_link", "mq_ulink", "mq_free"}
  BY <1>0
<1>10. \A us, fs : MqShape(mq, us, fs, HandNodes) =>
         MqShape(mq', us, fs, HandNodes) /\ MsgsOf(mq', us) = MsgsOf(mq, us)
  BY <1>4
<1> QED BY <1>0, <1>1, <1>5, <1>6, <1>7, <1>8, <1>9, <1>10, MqHandStep

\* The receiver copies the message.
LEMMA MqCopyInv ==
  ASSUME Base, MqInv, NEW c \in User, MqCopy(c)
  PROVE  MqStep
<1> DEFINE n == loc[c].node
           m == mq.data[n]
           r == [loc[c] EXCEPT !.msg = m]
<1>0. /\ At(c, "mq_copy") /\ mq' = MqWritten(mq, n, Nil) /\ Goto(c, "mq_free")
      /\ k' = k /\ alive' = alive /\ loc' = [loc EXCEPT ![c] = r] /\ loc \in LocType /\ IpcTypeOK
  BY DEF MqCopy, MqWritten, Base, IpcInv
<1>1. c \in Thread /\ op[c].pc = "mq_copy" /\ op[c].on = "mq" /\ "mq_copy" \in HandPC
  BY <1>0, MqOutside DEF HandPC
<1>2. n \in HandNodes /\ Nil \in Msg \cup {Nil}
  BY <1>1, MqHandNode
<1>3. op'[c].pc = "mq_free" /\ op'[c].on = "mq"
  BY <1>0, <1>1 DEF Goto, IpcTypeOK
<1>4. ASSUME NEW us, NEW fs, MqShape(mq, us, fs, HandNodes)
      PROVE  /\ MqShape(mq', us, fs, HandNodes) /\ MsgsOf(mq', us) = MsgsOf(mq, us)
             /\ mq'.entry = mq.entry /\ m \in Msg \cup {Nil}
             /\ MqLeaves(mq, mq', HandNodes, n)
  <2>1. m \in Msg \cup {Nil}
    BY <1>2, <1>4, ShapeFacts
  <2> HIDE DEF n, m
  <2> QED BY <1>0, <1>2, <1>4, <2>1, ShapeData
<1>5. /\ m \in Msg \cup {Nil} /\ mq'.entry = mq.entry
      /\ MqLeaves(mq, mq', HandNodes, n)
  BY <1>4 DEF MqInv, MqShaped
<1>6. MqHand(c)'
  BY <1>3 DEF MqHand
<1>7. r \in LocRec /\ r.node = n /\ r.msg = m
  <2>1. loc[c] \in LocRec
    BY <1>0, <1>1 DEF LocType
  <2> QED BY <1>5, <2>1 DEF LocRec
<1> HIDE DEF r
<1>8. loc' \in LocType /\ loc'[c] = r /\ \A t \in Thread : t \in {c} \/ loc'[t] = loc[t]
  BY <1>0, <1>1, <1>7 DEF LocType
<1>9. MqCall(c)' = MqCall(c)
  <2>1. MqCall(c) = <<"got", m>>
    BY <1>1 DEF MqCall, Blocked
  <2>2. MqCall(c)' = <<"got", m>>
    BY <1>3, <1>7, <1>8 DEF MqCall, Blocked
  <2> QED BY <2>1, <2>2
<1>10. loc'[c].node = n /\ "mq_free" \in {"mq_link", "mq_ulink", "mq_free"}
  BY <1>7, <1>8
<1>11. \A us, fs : MqShape(mq, us, fs, HandNodes) =>
         MqShape(mq', us, fs, HandNodes) /\ MsgsOf(mq', us) = MsgsOf(mq, us)
  BY <1>4
<1> QED BY <1>0, <1>1, <1>5, <1>6, <1>8, <1>9, <1>10, <1>11, MqHandStep

\* A sender puts its buffer into the chain of messages and wakes a receiver.
MqPuts(from, n, us, vs) ==
  /\ mq'.data = mq.data /\ mq'.entry = mq.entry + 1 /\ MqLeaves(mq, mq', HandNodes, n)
  /\ Len(MsgsOf(mq, us)) < MaxMsgs
  /\ \/ from = "mq_link"  /\ MsgsOf(mq', vs) = Append(MsgsOf(mq, us), mq.data[n])
     \/ from = "mq_ulink" /\ MsgsOf(mq', vs) = <<mq.data[n]>> \o MsgsOf(mq, us)

LEMMA MqLinkOwn ==
  ASSUME Base, MqInv, NEW c \in User, NEW from \in {"mq_link", "mq_ulink"}, At(c, from),
         MqWake(c), loc' = [loc EXCEPT ![c] = Idle], alive' = alive,
         NEW n, n = loc[c].node,
         NEW us, NEW fs, MqShape(mq, us, fs, HandNodes),
         NEW vs, MqShape(mq', vs, fs, HandNodes \ {n}), MqPuts(from, n, us, vs)
  PROVE  MqStep
<1>1. /\ c \in Thread /\ op[c].pc = from /\ op[c].on = "mq" /\ c \notin Coming("mq") /\ from \in HandPC
      /\ from \notin {"wait_sched", "sleep_sched"}
  BY MqOutside DEF HandPC
<1>2. "mq" \in alive
  <2>1. CallOK(c) /\ from \notin ResumePC /\ ~Blocked(c) /\ "mq" \in Obj
    BY <1>1, ObjNames DEF Base, HandPC, ResumePC, Blocked
  <2> QED BY <1>1, <2>1 DEF CallOK
<1>3. /\ alive = {"mq"} /\ "mq" \in Obj /\ NoObj \notin Obj /\ IpcInv /\ DetachInv /\ IpcTypeOK
      /\ loc \in LocType
  BY <1>2, MqAlive
<1>4. WakeStep({c}, "mq") /\ op'[c].pc \in {"sched", "return"} /\ op'[c].on = "mq"
  <2>1. IF Waiters("mq") # <<>>
        THEN k' = IpcListResume(k, "mq") /\ Call(c, "sched", "mq")
        ELSE Call(c, "return", "mq") /\ k' = k
    BY DEF MqWake
  <2>2. "mq" \in Obj \cup {NoObj}
    BY <1>3
  <2> QED BY <1>1, <1>2, <1>3, <2>1, <2>2, WakeCall
<1>5. PICK W : KStep({c}, W, "EOK")
  BY <1>4 DEF WakeStep
<1>6. loc' \in LocType /\ loc'[c] = Idle /\ \A t \in Thread : t \in {c} \/ loc'[t] = loc[t]
  BY <1>1, <1>3, IdleType DEF LocType
<1>7. OnlyOf(c) /\ \A t \in Thread : t = c \/ (Timed(k', t) => Timed(k, t) /\ k'.tmo[t] = k.tmo[t])
  BY <1>5, <1>6, KStepThread DEF OnlyOf
<1>8. OwnStep({"mq"})
  <2>1. op'[c].pc \notin SleepPC \cup HandPC \cup {"mp_time"}
    BY <1>4 DEF SleepPC, HandPC
  <2>2. op[c].on \in alive \cup {NoObj} /\ op'[c].on \in alive \cup {NoObj}
    BY <1>1, <1>2, <1>4
  <2> DEFINE O == {"mq"}
  <2>3. alive = O
    BY <1>3
  <2> HIDE DEF O
  <2>4. OwnStep(O)
    BY <1>1, <1>5, <1>6, <2>1, <2>2, <2>3, OwnAlone
  <2> QED BY <2>4 DEF O
<1>9. HandNodes' = HandNodes \ {n} /\ HandNodes' = OtherNodes(c) /\ OtherNodes(c) \subseteq HandNodes \ {n}
  <2>1. op'[c].pc \notin HandPC
    BY <1>4 DEF HandPC
  <2> QED BY <1>1, <1>7, <2>1, MqNodes DEF MqInv
<1>10. HandNodes \subseteq Node /\ mq.entry \in Nat
  BY ShapeFacts
<1>11. MqShaped'
  <2>1. MqShape(mq', vs, fs, HandNodes')
    BY <1>9
  <2> QED BY <2>1 DEF MqShaped
<1>12. MqKeeps(c)
  BY <1>9, <1>10 DEF MqKeeps, MqPuts, MqLeaves
<1>13. MqLoc(c)' /\ MqHand(c)' /\ op'[c].pc \notin HandPC
  BY <1>4 DEF MqLoc, MqHand, Blocked, HandPC
<1>14. MqCount'
  <2>1. mq'.entry = mq.entry + 1 /\ MqCount
    BY DEF MqPuts, MqInv
  <2>2. {c} \subseteq {c}
    OBVIOUS
  <2> DEFINE A == {c}
  <2>3. A \subseteq {c} /\ WakeStep(A, "mq")
    BY <1>4
  <2> HIDE DEF A
  <2> QED BY <1>1, <1>2, <1>10, <2>1, <2>3, MqCountMore
<1>15. MqInv' /\ OthersSay(c)
  BY <1>1, <1>2, <1>7, <1>11, <1>12, <1>13, <1>14, MqMove
<1>16. MqMessages = MsgsOf(mq, us) /\ MqMessages' = MsgsOf(mq', vs)
  <2>1. MqMessages = MsgsOf(mq, us)
    BY ShapeChains
  <2>2. MqMessages' = MsgsOf(mq', vs)
    BY ShapeNext
  <2> QED BY <2>1, <2>2
<1>17. mq.data[n] \in Msg /\ loc[c].msg = mq.data[n]
  <2>1. MqHand(c)
    BY <1>1 DEF MqInv
  <2> QED BY <1>1, <2>1 DEF MqHand
<1>18. MqCall(c)' = <<"sent">>
  BY <1>4 DEF MqCall, Blocked
<1>19. CASE from = "mq_link"
  <2>1. MqCall(c) = <<"send", mq.data[n]>>
    BY <1>1, <1>17, <1>19 DEF MqCall, Blocked
  <2>2. MqMessages' = Append(MqMessages, mq.data[n]) /\ Len(MqMessages) < MaxMsgs
    BY <1>16, <1>19 DEF MqPuts
  <2>3. MqAbsStep
    BY <1>1, <1>15, <1>17, <1>18, <2>1, <2>2, MqAbsPut
  <2> QED BY <1>8, <1>15, <2>3 DEF MqStep
<1>20. CASE from = "mq_ulink"
  <2>1. MqCall(c) = <<"urgent", mq.data[n]>>
    BY <1>1, <1>17, <1>20 DEF MqCall, Blocked
  <2>2. MqMessages' = <<mq.data[n]>> \o MqMessages /\ Len(MqMessages) < MaxMsgs
    BY <1>16, <1>20 DEF MqPuts
  <2>3. MqAbsStep
    BY <1>1, <1>15, <1>17, <1>18, <2>1, <2>2, MqAbsPut
  <2> QED BY <1>8, <1>15, <2>3 DEF MqStep
<1> QED BY <1>19, <1>20

LEMMA MqLinkInv ==
  ASSUME Base, MqInv, NEW c \in User, MqLink(c)
  PROVE  MqStep
<1> DEFINE n == loc[c].node
<1>0. /\ At(c, "mq_link") /\ mq' = MqLinked(mq, n) /\ MqWake(c)
      /\ loc' = [loc EXCEPT ![c] = Idle] /\ alive' = alive
  BY DEF MqLink
<1>1. c \in Thread /\ op[c].pc = "mq_link" /\ "mq_link" \in HandPC
  BY <1>0, MqOutside DEF HandPC
<1>2. n \in HandNodes /\ mq.next[n] = Null
  BY <1>1, MqHandNode DEF MqInv, MqHand
<1>3. PICK us, fs : MqShape(mq, us, fs, HandNodes)
  BY DEF MqInv, MqShaped
<1> DEFINE vs == Append(us, n)
           N == n
<1>4. N = loc[c].node /\ N \in HandNodes /\ mq.next[N] = Null /\ mq' = MqLinked(mq, N) /\ vs = Append(us, N)
  BY <1>0, <1>2
<1> HIDE DEF N, vs
<1>5. MqAdded(mq, mq', us, vs, fs, HandNodes, N) /\ MqAppended(mq, mq', us, vs, N)
  BY <1>3, <1>4, ShapeLast
<1>6. MqPuts("mq_link", N, us, vs)
  BY <1>5 DEF MqPuts, MqAdded, MqAppended, MqPrepended
<1>7. "mq_link" \in {"mq_link", "mq_ulink"}
  OBVIOUS
<1>8. MqShape(mq', vs, fs, HandNodes \ {N})
  BY <1>5 DEF MqAdded
<1> QED BY <1>0, <1>3, <1>4, <1>6, <1>7, <1>8, MqLinkOwn

LEMMA MqUrgentLinkInv ==
  ASSUME Base, MqInv, NEW c \in User, MqUrgentLink(c)
  PROVE  MqStep
<1> DEFINE n == loc[c].node
<1>0. /\ At(c, "mq_ulink") /\ mq' = MqLinkedFirst(mq, n) /\ MqWake(c)
      /\ loc' = [loc EXCEPT ![c] = Idle] /\ alive' = alive
  BY DEF MqUrgentLink
<1>1. c \in Thread /\ op[c].pc = "mq_ulink" /\ "mq_ulink" \in HandPC
  BY <1>0, MqOutside DEF HandPC
<1>2. n \in HandNodes
  BY <1>1, MqHandNode
<1>3. PICK us, fs : MqShape(mq, us, fs, HandNodes)
  BY DEF MqInv, MqShaped
<1> DEFINE vs == <<n>> \o us
           N == n
<1>4. N = loc[c].node /\ N \in HandNodes /\ mq' = MqLinkedFirst(mq, N) /\ vs = <<N>> \o us
  BY <1>0, <1>2
<1> HIDE DEF N, vs
<1>5. MqAdded(mq, mq', us, vs, fs, HandNodes, N) /\ MqPrepended(mq, mq', us, vs, N)
  BY <1>3, <1>4, ShapeFirst
<1>6. MqPuts("mq_ulink", N, us, vs)
  BY <1>5 DEF MqPuts, MqAdded, MqAppended, MqPrepended
<1>7. "mq_ulink" \in {"mq_link", "mq_ulink"}
  OBVIOUS
<1>8. MqShape(mq', vs, fs, HandNodes \ {N})
  BY <1>5 DEF MqAdded
<1> QED BY <1>0, <1>3, <1>4, <1>6, <1>7, <1>8, MqLinkOwn

LEMMA MqIsrInv ==
  ASSUME Base, MqInv, MqIsrSend(MsgOf[idle])
  PROVE  MqStep
<1> DEFINE m == MsgOf[idle]
           n == mq.free
           c == idle
<1>0. "mq" \in alive
  BY DEF MqIsrSend
<1>1. /\ alive = {"mq"} /\ "mq" \in Obj /\ NoObj \notin Obj /\ IpcInv /\ DetachInv /\ m \in Msg
      /\ c \in Thread /\ loc \in LocType
  BY <1>0, MqAlive, RetryAssumption, KernelAssumption
<1>2. /\ n # Null /\ alive' = alive /\ op' = op /\ loc' = loc
      /\ mq' = MqLinked([mq EXCEPT !.free = mq.next[n], !.next[n] = Null, !.data[n] = m], n)
      /\ k' = IF Waiters("mq") # <<>> THEN Schedule(IpcListResume(k, "mq")) ELSE k
  BY DEF MqIsrSend
<1>3. PICK us, fs : MqShape(mq, us, fs, HandNodes)
  BY DEF MqInv, MqShaped
<1>4. /\ MqShape(mq', Append(us, n), Tail(fs), HandNodes) /\ mq'.entry = mq.entry + 1
      /\ \A x \in HandNodes : mq'.next[x] = mq.next[x] /\ mq'.data[x] = mq.data[x]
      /\ Len(MsgsOf(mq, us)) < MaxMsgs /\ MsgsOf(mq', Append(us, n)) = Append(MsgsOf(mq, us), m)
  <2> DEFINE N == n
             M == m
  <2>1. N = mq.free /\ N # Null /\ M \in Msg /\ mq' = MqSent(mq, N, M)
    BY <1>1, <1>2 DEF MqSent
  <2> HIDE DEF N, M
  <2>2. MqSendDone(mq, mq', us, fs, HandNodes, N, M)
    BY <1>3, <2>1, ShapeSend
  <2> QED BY <2>2 DEF N, M, MqSendDone
<1>5. mq.entry \in Nat
  BY <1>3, ShapeFacts
<1> HIDE DEF c, m, n
<1>6. WakeStep({}, "mq")
  BY <1>0, <1>1, <1>2, WakeIsr
<1>7. PICK W : KStep({}, W, "EOK")
  BY <1>6 DEF WakeStep
<1>8. OwnStep({"mq"})
  BY <1>1, <1>2, <1>7, OwnKStep DEF Base
<1>9. OnlyOf(c) /\ \A t \in Thread : t = c \/ (Timed(k', t) => Timed(k, t) /\ k'.tmo[t] = k.tmo[t])
  BY <1>2, <1>7, KStepThread DEF OnlyOf
<1>10. HandNodes' = HandNodes /\ OtherNodes(c) \subseteq HandNodes
  BY <1>2 DEF HandNodes, Hands, OtherNodes
<1>11. MqShaped'
  <2>1. MqShape(mq', Append(us, n), Tail(fs), HandNodes')
    BY <1>4, <1>10
  <2> QED BY <2>1 DEF MqShaped
<1>12. MqKeeps(c)
  BY <1>4, <1>10 DEF MqKeeps
<1>13. MqHand(c)'
  <2>1. MqHand(c)
    BY <1>1 DEF MqInv
  <2>2. op[c].pc \in HandPC => loc[c].node \in HandNodes
    BY <1>1, MqHandNode
  <2> QED BY <1>2, <1>4, <2>1, <2>2 DEF MqHand, HandPC
<1>14. MqLoc(c)'
  <2>1. MqLoc(c)
    BY <1>1 DEF MqInv
  <2>2. Timed(k', c) => Timed(k, c) /\ k'.tmo[c] = k.tmo[c]
    <3>1. c \notin {}
      OBVIOUS
    <3> QED BY <1>1, <1>7, <3>1, KStepThread
  <2>3. Clock(c) => Clock(c)'
    BY <1>2, <2>2, KeptClock
  <2> QED BY <1>2, <2>1, <2>3 DEF MqLoc, Blocked
<1>15. MqCount'
  <2> DEFINE A == {}
  <2>1. A \subseteq {c} /\ WakeStep(A, "mq") /\ A = {}
    BY <1>6
  <2> HIDE DEF A
  <2>2. MqCount
    BY DEF MqInv
  <2> QED BY <1>0, <1>2, <1>4, <1>5, <2>1, <2>2, MqCountMore
<1>16. op'[c].pc \in HandPC => loc'[c].node \notin OtherNodes(c)
  BY <1>1, <1>2, <1>9, MqNodes DEF MqInv
<1>17. MqInv' /\ OthersSay(c)
  BY <1>0, <1>1, <1>2, <1>9, <1>11, <1>12, <1>13, <1>14, <1>15, <1>16, MqMove
<1>18. MqMessages' = Append(MqMessages, m) /\ Len(MqMessages) < MaxMsgs
  <2>1. MqMessages = MsgsOf(mq, us)
    BY <1>3, ShapeChains
  <2>2. MqMessages' = MsgsOf(mq', Append(us, n))
    BY <1>4, ShapeNext
  <2> QED BY <1>4, <2>1, <2>2
<1>19. MqCall(c)' = MqCall(c)
  <2>1. op[c].pc = "mq_copy" => loc[c].node \in HandNodes
    BY <1>1, MqHandNode DEF HandPC
  <2>2. op[c].pc = "mq_copy" => mq'.data[loc[c].node] = mq.data[loc[c].node]
    BY <1>4, <2>1
  <2> QED BY <1>2, <2>2 DEF MqCall, Blocked
<1>20. MqAbsStep
  BY <1>1, <1>17, <1>18, <1>19, MqAbsPutIsr
<1> QED BY <1>8, <1>17, <1>20 DEF MqStep

\* A receiver takes the first buffer.
LEMMA MqUnlinkOwn ==
  ASSUME Base, MqInv, NEW c \in User, NEW from \in {"run", "wait_return"}, At(c, from),
         "mq" \in alive, mq.entry # 0, MqCall(c) \in {<<"out">>, <<"recv">>},
         op[c].on \in {NoObj, "mq"}, MqUnlink(c), alive' = alive
  PROVE  MqStep
<1> DEFINE n == mq.head
           r == [Idle EXCEPT !.node = n]
<1>0. /\ mq' = MqUnlinked(mq) /\ Call(c, "mq_copy", "mq") /\ loc' = [loc EXCEPT ![c] = r] /\ k' = k
  BY DEF MqUnlink, MqUnlinked
<1>1. /\ alive = {"mq"} /\ "mq" \in Obj /\ NoObj \notin Obj /\ IpcInv /\ DetachInv /\ IpcTypeOK
      /\ loc \in LocType
  BY MqAlive
<1>2. c \in Thread /\ op[c].pc = from /\ from \notin HandPC
  BY MqOutside DEF HandPC
<1>3. KStep({c}, {}, "EOK") /\ op'[c].pc = "mq_copy" /\ op'[c].on = "mq"
  <2>1. "mq_copy" \in IpcPC \ (WaitPC \cup ResumePC \cup {"assert"}) /\ ("mq_copy" = "run" => "mq" = NoObj)
    BY DEF IpcPC, WaitPC, ResumePC
  <2>2. from \notin {"wait_sched", "sleep_sched"} /\ "mq" \in Obj \cup {NoObj}
    BY <1>1
  <2> QED BY <1>0, <1>1, <2>1, <2>2, QuietStep
<1>4. PICK us, fs : MqShape(mq, us, fs, HandNodes)
  BY DEF MqInv, MqShaped
<1>5. /\ MqShape(mq', Tail(us), fs, HandNodes \cup {n}) /\ n \in Node /\ n \notin HandNodes
      /\ mq'.data = mq.data /\ mq'.next = mq.next /\ mq'.entry = mq.entry - 1
      /\ MsgsOf(mq, us) # <<>> /\ Head(MsgsOf(mq, us)) = mq.data[n]
      /\ MsgsOf(mq', Tail(us)) = Tail(MsgsOf(mq, us)) /\ mq.entry \in Nat
  <2>1. mq.entry \in Nat
    BY <1>4, ShapeFacts
  <2>2. MqRemoved(mq, mq', us, fs, HandNodes)
    BY <1>0, <1>4, ShapeUnlink
  <2> QED BY <2>1, <2>2 DEF MqRemoved
<1>6. r \in LocRec /\ r.node = n
  BY <1>5, IdleType DEF LocRec, Idle
<1> HIDE DEF r, n
<1>7. loc' \in LocType /\ loc'[c] = r /\ \A t \in Thread : t \in {c} \/ loc'[t] = loc[t]
  BY <1>0, <1>1, <1>2, <1>6 DEF LocType
<1>8. OnlyOf(c) /\ \A t \in Thread : t = c \/ (Timed(k', t) => Timed(k, t) /\ k'.tmo[t] = k.tmo[t])
  BY <1>3, <1>7, KStepThread DEF OnlyOf
<1>9. OwnStep({"mq"})
  <2>1. op'[c].pc \notin SleepPC /\ (op'[c].pc \in HandPC => op'[c].on = "mq") /\ op'[c].pc # "mp_time"
    BY <1>3 DEF SleepPC
  <2>2. op[c].on \in alive \cup {NoObj} /\ op'[c].on \in alive \cup {NoObj}
    BY <1>3
  <2> DEFINE O == {"mq"}
  <2>3. alive = O
    BY <1>1
  <2> HIDE DEF O
  <2>4. OwnStep(O)
    BY <1>2, <1>3, <1>7, <2>1, <2>2, <2>3, OwnAlone
  <2> QED BY <2>4 DEF O
<1>10. HandNodes = OtherNodes(c) /\ HandNodes' = OtherNodes(c) \cup {n}
  <2>1. op[c].pc \notin HandPC /\ op'[c].pc \in HandPC
    BY <1>2, <1>3 DEF HandPC
  <2> QED BY <1>2, <1>6, <1>7, <1>8, <2>1, MqNodes
<1>11. MqShaped' /\ MqKeeps(c) /\ loc'[c].node \notin OtherNodes(c)
  BY <1>5, <1>6, <1>7, <1>10 DEF MqShaped, MqKeeps
<1>12. MqHand(c)' /\ MqLoc(c)'
  BY <1>3 DEF MqHand, MqLoc, Blocked
<1>13. MqCount'
  BY <1>0, <1>3, <1>5, MqCountLess DEF MqInv
<1>14. MqInv' /\ OthersSay(c)
  BY <1>0, <1>2, <1>8, <1>11, <1>12, <1>13, MqMove
<1>15. MqMessages = MsgsOf(mq, us) /\ MqMessages' = MsgsOf(mq', Tail(us))
  <2>1. MqMessages = MsgsOf(mq, us)
    BY <1>4, ShapeChains
  <2>2. MqShape(mq', Tail(us), fs, HandNodes \cup {n})
    BY <1>5
  <2>3. MqMessages' = MsgsOf(mq', Tail(us))
    BY <2>2, ShapeNext
  <2> QED BY <2>1, <2>3
<1>16. MqAbsStep
  <2>1. MqCall(c)' = <<"got", Head(MqMessages)>>
    <3>1. loc'[c].node = n /\ ~Blocked(c)' /\ mq'.data[n] = mq.data[n]
      BY <1>3, <1>5, <1>6, <1>7 DEF Blocked
    <3>2. MqCall(c)' = <<"got", mq'.data[n]>>
      BY <1>3, <3>1 DEF MqCall
    <3> QED BY <1>5, <1>15, <3>1, <3>2
  <2>2. MqMessages # <<>> /\ MqMessages' = Tail(MqMessages)
    BY <1>5, <1>15
  <2> QED BY <1>2, <1>14, <2>1, <2>2, MqAbsTake
<1> QED BY <1>9, <1>14, <1>16 DEF MqStep

\* c goes to sleep: the queue is empty.
LEMMA MqSleepOwn ==
  ASSUME Base, MqInv, NEW c \in User, "mq" \in alive, alive' = alive,
         NEW d, Sleeps(c, "mq", d), op[c].on \in {NoObj, "mq"}, op[c].pc \in {"run", "wait_return"},
         loc' \in LocType, \A t \in Thread : t = c \/ loc'[t] = loc[t],
         Clock(c)', mq.entry = 0, mq' = mq,
         MqCall(c) = <<"out">> \/ MqCall(c) = <<"recv">>
  PROVE  MqStep
<1>1. /\ alive = {"mq"} /\ "mq" \in Obj /\ NoObj \notin Obj /\ c \in Thread
  BY MqAlive DEF User
<1>2. /\ \A t \in Thread : t = c \/ Kept(t)
      /\ op'[c].pc = "wait_sched" /\ op'[c].on = "mq"
  BY DEF Sleeps
<1>3. OnlyOf(c) /\ \A t \in Thread : t = c \/ (Timed(k', t) => Timed(k, t) /\ k'.tmo[t] = k.tmo[t])
  BY <1>2 DEF OnlyOf, Kept, SameLinks
<1>4. OwnStep({"mq"})
  <2> DEFINE O == {"mq"}
  <2>1. alive \subseteq O /\ op[c].on \in alive \cup {NoObj}
    BY <1>1
  <2> HIDE DEF O
  <2>2. OwnStep(O)
    BY <1>1, <2>1, OwnSleeps
  <2> QED BY <2>2 DEF O
<1>5. PICK us, fs : MqShape(mq, us, fs, HandNodes)
  BY DEF MqInv, MqShaped
<1>6. HandNodes' = HandNodes /\ op'[c].pc \notin HandPC
  <2>1. op[c].pc \notin HandPC /\ op'[c].pc \notin HandPC
    BY <1>2 DEF HandPC
  <2> QED BY <1>1, <1>3, <2>1, MqNodes
<1>7. MqShape(mq', us, fs, HandNodes')
  BY <1>5, <1>6
<1>8. MqShaped' /\ MqKeeps(c)
  BY <1>7 DEF MqShaped, MqKeeps
<1>9. MqHand(c)' /\ MqLoc(c)'
  BY <1>2 DEF MqHand, MqLoc
<1>10. MqCount'
  <2>1. Cardinality(Coming("mq")') \in Nat
    BY Subsets DEF Coming
  <2> QED BY <2>1 DEF MqCount
<1>11. MqInv' /\ OthersSay(c)
  BY <1>1, <1>3, <1>6, <1>8, <1>9, <1>10, MqMove
<1>12. MqMessages = MsgsOf(mq, us) /\ MqMessages' = MsgsOf(mq, us) /\ MqMessages = <<>>
  <2>1. MqMessages = MsgsOf(mq, us)
    BY <1>5, ShapeChains
  <2>2. MqMessages' = MsgsOf(mq', us)
    BY <1>7, ShapeNext
  <2>3. MqMessages = <<>>
    BY DEF MqMessages
  <2> QED BY <2>1, <2>2, <2>3
<1>13. MqCall(c)' = <<"recv">>
  BY <1>2 DEF MqCall, Blocked
<1>14. MqAbsStep
  <2>1. CASE MqCall(c) = <<"out">>
    BY <1>1, <1>11, <1>12, <1>13, <2>1, MqAbsBegin
  <2>2. CASE MqCall(c) = <<"recv">>
    BY <1>1, <1>11, <1>12, <1>13, <2>2, MqStutter
  <2> QED BY <2>1, <2>2
<1> QED BY <1>4, <1>11, <1>14 DEF MqStep

\* The waiting time is over: the call returns -RT_ETIMEOUT.
LEMMA MqLeaveOwn ==
  ASSUME Base, MqInv, NEW c \in User, Retry(c, "mq"), Leave(c), k' = k, alive' = alive,
         mq.entry = 0, mq' = mq
  PROVE  MqStep
<1>0. /\ At(c, "wait_return") /\ op[c].on = "mq" /\ op[c].pc = "wait_return" /\ "mq" \in alive
      /\ c \in Thread
  BY RetryFacts, ObjNames
<1>1. /\ alive = {"mq"} /\ "mq" \in Obj /\ NoObj \notin Obj
  BY <1>0, MqAlive
<1>2. /\ KStep({c}, {}, "EOK") /\ op'[c].pc = "run" /\ op'[c].on = NoObj
      /\ loc' \in LocType /\ \A t \in Thread : t \in {c} \/ loc'[t] = loc[t]
  <2>1. "wait_return" \notin {"wait_sched", "sleep_sched"}
    OBVIOUS
  <2> QED BY <1>0, <2>1, LeaveQuiet
<1>3. OnlyOf(c) /\ \A t \in Thread : t = c \/ (Timed(k', t) => Timed(k, t) /\ k'.tmo[t] = k.tmo[t])
  BY <1>2, KStepThread DEF OnlyOf
<1>4. OwnStep({"mq"})
  <2>1. op'[c].pc \notin SleepPC \cup HandPC \cup {"mp_time"}
    BY <1>2 DEF SleepPC, HandPC
  <2>2. op[c].on \in alive \cup {NoObj} /\ op'[c].on \in alive \cup {NoObj}
    BY <1>0, <1>2
  <2> DEFINE O == {"mq"}
  <2>3. alive = O
    BY <1>1
  <2> HIDE DEF O
  <2>4. OwnStep(O)
    BY <1>0, <1>2, <2>1, <2>2, <2>3, OwnAlone
  <2> QED BY <2>4 DEF O
<1>5. PICK us, fs : MqShape(mq, us, fs, HandNodes)
  BY DEF MqInv, MqShaped
<1>6. HandNodes' = HandNodes /\ op'[c].pc \notin HandPC
  <2>1. op[c].pc \notin HandPC /\ op'[c].pc \notin HandPC
    BY <1>0, <1>2 DEF HandPC
  <2> QED BY <1>0, <1>3, <2>1, MqNodes
<1>7. MqShape(mq', us, fs, HandNodes')
  BY <1>5, <1>6
<1>8. MqShaped' /\ MqKeeps(c)
  BY <1>7 DEF MqShaped, MqKeeps
<1>9. MqHand(c)' /\ MqLoc(c)'
  BY <1>2 DEF MqHand, MqLoc, Blocked
<1>10. MqCount'
  <2>1. Cardinality(Coming("mq")') \in Nat
    BY Subsets DEF Coming
  <2> QED BY <2>1 DEF MqCount
<1>11. MqInv' /\ OthersSay(c)
  BY <1>0, <1>3, <1>6, <1>8, <1>9, <1>10, MqMove
<1>12. MqMessages' = MqMessages
  <2>1. MqMessages = MsgsOf(mq, us)
    BY <1>5, ShapeChains
  <2>2. MqMessages' = MsgsOf(mq', us)
    BY <1>7, ShapeNext
  <2> QED BY <2>1, <2>2
<1>13. MqCall(c)' = <<"out">>
  BY <1>2 DEF MqCall, NoObj
<1>14. MqAbsStep
  BY <1>0, <1>11, <1>12, <1>13, MqAbsEnd
<1> QED BY <1>4, <1>11, <1>14 DEF MqStep

LEMMA MqRecvInv ==
  ASSUME Base, MqInv, NEW c \in User, NEW d \in TimeOf[c] \cup {0}, rt_mq_recv(c, d)
  PROVE  MqStep
<1>0. At(c, "run") /\ "mq" \in alive /\ alive' = alive
  BY DEF rt_mq_recv
<1>1. c \in Thread /\ op[c].pc = "run" /\ op[c].on = NoObj /\ MqCall(c) = <<"out">>
  BY <1>0, MqOutside
<1>2. CASE mq.entry # 0
  <2>1. MqUnlink(c) /\ "run" \in {"run", "wait_return"}
    BY <1>2 DEF rt_mq_recv
  <2>2. MqCall(c) \in {<<"out">>, <<"recv">>} /\ op[c].on \in {NoObj, "mq"}
    BY <1>1
  <2> QED BY <1>0, <1>2, <2>1, <2>2, MqUnlinkOwn
<1>3. CASE mq.entry = 0
  <2>1. Begin(c, "mq", d, Nil) /\ mq' = mq /\ Nil \in Msg \cup {Nil}
    BY <1>3 DEF rt_mq_recv
  <2>2. /\ Sleeps(c, "mq", d) /\ loc' \in LocType
        /\ \A t \in Thread : t = c \/ loc'[t] = loc[t]
        /\ Clock(c)'
    BY <1>0, <2>1, BeginSleeps
  <2>3. op[c].on \in {NoObj, "mq"} /\ op[c].pc \in {"run", "wait_return"}
    BY <1>1
  <2> QED BY <1>0, <1>1, <1>3, <2>1, <2>2, <2>3, MqSleepOwn
<1> QED BY <1>2, <1>3

LEMMA MqRecvRetryInv ==
  ASSUME Base, MqInv, NEW c \in User, MqRecvRetry(c)
  PROVE  MqStep
<1>0. Retry(c, "mq") /\ alive' = alive
  BY DEF MqRecvRetry
<1>1. /\ c \in Thread /\ At(c, "wait_return") /\ op[c].on = "mq" /\ op[c].pc = "wait_return"
      /\ Blocked(c) /\ "mq" \in alive
  BY <1>0, RetryFacts, ObjNames
<1>2. Clock(c) /\ MqCall(c) = <<"recv">>
  <2>1. MqLoc(c)
    BY <1>1 DEF MqInv
  <2> QED BY <1>1, <2>1 DEF MqLoc, MqCall
<1>3. mq.entry \in Nat
  <2>1. PICK us, fs : MqShape(mq, us, fs, HandNodes)
    BY DEF MqInv, MqShaped
  <2> QED BY <2>1, ShapeFacts
<1>4. CASE mq.entry > 0
  <2>1. MqUnlink(c) /\ "wait_return" \in {"run", "wait_return"} /\ mq.entry # 0
    BY <1>3, <1>4 DEF MqRecvRetry
  <2>2. MqCall(c) \in {<<"out">>, <<"recv">>} /\ op[c].on \in {NoObj, "mq"}
    BY <1>1, <1>2
  <2> QED BY <1>0, <1>1, <2>1, <2>2, MqUnlinkOwn
<1>5. CASE mq.entry = 0 /\ Remaining(c) = 0
  <2>1. Leave(c) /\ k' = k /\ mq' = mq
    BY <1>5 DEF MqRecvRetry
  <2> QED BY <1>0, <1>5, <2>1, MqLeaveOwn
<1>6. CASE mq.entry = 0 /\ Remaining(c) # 0
  <2>1. Again(c) /\ mq' = mq
    BY <1>6 DEF MqRecvRetry
  <2>2. /\ \E d : Sleeps(c, "mq", d)
        /\ loc' \in LocType
        /\ \A t \in Thread : t = c \/ loc'[t] = loc[t]
        /\ loc'[c].msg = loc[c].msg /\ Clock(c)'
    BY <1>0, <1>1, <1>2, <2>1, AgainSleeps
  <2>3. PICK d : Sleeps(c, "mq", d)
    BY <2>2
  <2>4. op[c].on \in {NoObj, "mq"} /\ op[c].pc \in {"run", "wait_return"}
    BY <1>1
  <2> QED BY <1>0, <1>1, <1>2, <1>6, <2>1, <2>2, <2>3, <2>4, MqSleepOwn
<1> QED BY <1>3, <1>4, <1>5, <1>6

\* The receiver gives its buffer back.
LEMMA MqFreeInv ==
  ASSUME Base, MqInv, NEW c \in User, MqFree(c)
  PROVE  MqStep
<1> DEFINE n == loc[c].node
<1>0. At(c, "mq_free") /\ mq' = MqFreed(mq, n) /\ Leave(c) /\ k' = k /\ alive' = alive
  BY DEF MqFree, MqFreed
<1>1. /\ c \in Thread /\ op[c].pc = "mq_free" /\ op[c].on = "mq" /\ c \notin Coming("mq")
      /\ "mq_free" \in HandPC
  BY <1>0, MqOutside DEF HandPC
<1>2. "mq" \in alive
  <2>1. CallOK(c) /\ "mq_free" \notin ResumePC /\ ~Blocked(c) /\ "mq" \in Obj
    BY <1>1, ObjNames DEF Base, ResumePC, Blocked
  <2> QED BY <1>1, <2>1 DEF CallOK
<1>3. alive = {"mq"} /\ "mq" \in Obj /\ NoObj \notin Obj
  BY <1>2, MqAlive
<1>4. /\ KStep({c}, {}, "EOK") /\ op'[c].pc = "run" /\ op'[c].on = NoObj
      /\ loc' \in LocType /\ \A t \in Thread : t \in {c} \/ loc'[t] = loc[t]
  <2>1. "mq_free" \notin {"wait_sched", "sleep_sched"}
    OBVIOUS
  <2> QED BY <1>0, <2>1, LeaveQuiet
<1>5. OnlyOf(c) /\ \A t \in Thread : t = c \/ (Timed(k', t) => Timed(k, t) /\ k'.tmo[t] = k.tmo[t])
  BY <1>4, KStepThread DEF OnlyOf
<1>6. OwnStep({"mq"})
  <2>1. op'[c].pc \notin SleepPC \cup HandPC \cup {"mp_time"}
    BY <1>4 DEF SleepPC, HandPC
  <2>2. op[c].on \in alive \cup {NoObj} /\ op'[c].on \in alive \cup {NoObj}
    BY <1>1, <1>2, <1>4
  <2> DEFINE O == {"mq"}
  <2>3. alive = O
    BY <1>3
  <2> HIDE DEF O
  <2>4. OwnStep(O)
    BY <1>0, <1>1, <1>4, <2>1, <2>2, <2>3, OwnAlone
  <2> QED BY <2>4 DEF O
<1>7. PICK us, fs : MqShape(mq, us, fs, HandNodes)
  BY DEF MqInv, MqShaped
<1>8. n \in HandNodes /\ HandNodes \subseteq Node /\ mq.entry \in Nat
  BY <1>1, <1>7, MqHandNode, ShapeFacts
<1> HIDE DEF n
<1>9. /\ MqShape(mq', us, <<n>> \o fs, HandNodes \ {n}) /\ mq'.data = mq.data /\ mq'.entry = mq.entry
      /\ MqLeaves(mq, mq', HandNodes, n) /\ MsgsOf(mq', us) = MsgsOf(mq, us)
  <2>1. MqGivenBack(mq, mq', us, fs, HandNodes, n)
    BY <1>0, <1>7, <1>8, ShapeFree
  <2> QED BY <2>1 DEF MqGivenBack
<1>10. HandNodes' = HandNodes \ {n} /\ HandNodes' = OtherNodes(c) /\ op'[c].pc \notin HandPC
  <2>1. op'[c].pc \notin HandPC
    BY <1>4 DEF HandPC
  <2> QED BY <1>1, <1>5, <2>1, MqNodes DEF MqInv, n
<1>11. MqShape(mq', us, <<n>> \o fs, HandNodes')
  BY <1>9, <1>10
<1>12. MqShaped' /\ MqKeeps(c)
  <2>1. \A x \in OtherNodes(c) : x \in HandNodes /\ x # n /\ x \in Node
    BY <1>8, <1>10
  <2> QED BY <1>9, <1>11, <2>1 DEF MqShaped, MqKeeps, MqLeaves
<1>13. MqHand(c)' /\ MqLoc(c)'
  BY <1>4 DEF MqHand, MqLoc, Blocked
<1>14. MqCount'
  BY <1>0, <1>1, <1>2, <1>4, <1>8, <1>9, MqCountQuiet DEF MqInv
<1>15. MqInv' /\ OthersSay(c)
  BY <1>0, <1>1, <1>2, <1>5, <1>10, <1>12, <1>13, <1>14, MqMove
<1>16. MqMessages' = MqMessages
  <2>1. MqMessages = MsgsOf(mq, us)
    BY <1>7, ShapeChains
  <2>2. MqMessages' = MsgsOf(mq', us)
    BY <1>11, ShapeNext
  <2> QED BY <1>9, <2>1, <2>2
<1>17. MqCall(c)' = <<"out">>
  BY <1>4 DEF MqCall, NoObj
<1>18. MqAbsStep
  BY <1>1, <1>15, <1>16, <1>17, MqAbsEnd
<1> QED BY <1>6, <1>15, <1>18 DEF MqStep

\* Every waiter is told that the queue was reset.
LEMMA MqControlInv ==
  ASSUME Base, MqInv, NEW c \in User, rt_mq_control(c)
  PROVE  MqStep
<1>0. /\ At(c, "run") /\ "mq" \in alive /\ alive' = alive /\ loc' = loc /\ Call(c, "sched", NoObj)
      /\ k' = ResumeAll(k, "mq")
  BY DEF rt_mq_control
<1>1. /\ alive = {"mq"} /\ "mq" \in Obj /\ NoObj \notin Obj /\ IpcInv /\ DetachInv /\ loc \in LocType
  BY <1>0, MqAlive
<1>2. c \in Thread /\ op[c].pc = "run" /\ op[c].on = NoObj /\ MqCall(c) = <<"out">>
  BY <1>0, MqOutside
<1> DEFINE W == Range(Waiters("mq"))
<1>3. Resumed(k', {"mq"}, W, "ERROR") /\ k'.list[Wait("mq")] = <<>> /\ k'.cur = k.cur
  BY <1>0, <1>1, AllResumed
<1> HIDE DEF W
<1>4. KStep({c}, W, "ERROR") /\ op'[c].pc = "sched" /\ op'[c].on = NoObj
  <2> DEFINE O == {"mq"}
  <2>1. O \subseteq alive /\ Resumed(k', O, W, "ERROR")
    BY <1>1, <1>3
  <2> HIDE DEF O
  <2> QED BY <1>0, <1>1, <1>3, <2>1, SchedCall
<1>5. OnlyOf(c) /\ \A t \in Thread : t = c \/ (Timed(k', t) => Timed(k, t) /\ k'.tmo[t] = k.tmo[t])
  BY <1>0, <1>4, KStepThread DEF OnlyOf
<1>6. OwnStep({"mq"})
  <2>1. op'[c].pc \notin SleepPC \cup HandPC \cup {"mp_time"}
    BY <1>4 DEF SleepPC, HandPC
  <2>2. op[c].on \in alive \cup {NoObj} /\ op'[c].on \in alive \cup {NoObj}
    BY <1>2, <1>4
  <2> DEFINE O == {"mq"}
  <2>3. alive = O /\ loc' \in LocType /\ \A t \in Thread : t \in {c} \/ loc'[t] = loc[t]
    BY <1>0, <1>1
  <2> HIDE DEF O
  <2>4. OwnStep(O)
    BY <1>0, <1>2, <1>4, <2>1, <2>2, <2>3, OwnAlone
  <2> QED BY <2>4 DEF O
<1>7. HandNodes' = HandNodes /\ OtherNodes(c) = HandNodes /\ op'[c].pc \notin HandPC
  <2>1. op[c].pc \notin HandPC /\ op'[c].pc \notin HandPC
    BY <1>2, <1>4 DEF HandPC
  <2> QED BY <1>2, <1>5, <2>1, MqNodes
<1>8. PICK us, fs : MqShape(mq, us, fs, HandNodes)
  BY DEF MqInv, MqShaped
<1>9. /\ \E gs : MqShape(mq', <<>>, gs, HandNodes)
      /\ \A x \in HandNodes : mq'.next[x] = mq.next[x] /\ mq'.data[x] = mq.data[x]
  <2>1. Chain(mq.head) = us
    BY <1>8, ShapeChains
  <2>2. mq \in MqType /\ us \in Seq(Node) /\ mq.tail = IF us = <<>> THEN Null ELSE us[Len(us)]
    BY <1>8, ShapeFacts DEF MqShape
  <2>3. us # <<>> => mq.tail \in Range(us)
    BY <2>2 DEF Range
  <2>4. (IF mq.tail \in Range(us) THEN Null ELSE mq.tail) = Null
    BY <2>2, <2>3
  <2>5. /\ mq' = FoldLeft(MqGive, [mq EXCEPT !.head = Null, !.entry = 0,
                                  !.tail = IF mq.tail \in Range(us) THEN Null ELSE mq.tail], us)
    BY <2>1 DEF rt_mq_control
  <2>6. MqCleared(mq) = [mq EXCEPT !.head = Null, !.entry = 0, !.tail = Null]
    BY <2>2 DEF MqCleared, MqType
  <2>7. mq' = FoldLeft(MqGive, MqCleared(mq), us)
    BY <2>4, <2>5, <2>6
  <2> QED BY <1>8, <2>7, ShapeReset
<1>10. PICK gs : MqShape(mq', <<>>, gs, HandNodes)
  BY <1>9
<1>11. MqShape(mq', <<>>, gs, HandNodes')
  BY <1>7, <1>10
<1>12. MqShaped' /\ MqKeeps(c)
  BY <1>7, <1>9, <1>11 DEF MqShaped, MqKeeps
<1>13. MqHand(c)' /\ MqLoc(c)'
  BY <1>4 DEF MqHand, MqLoc, Blocked
<1>14. MqCount'
  <2>1. ~Awaited("mq")'
    BY <1>3 DEF Awaited, Linked, Range
  <2> QED BY <2>1 DEF MqCount
<1>15. MqInv' /\ OthersSay(c)
  BY <1>0, <1>2, <1>5, <1>7, <1>12, <1>13, <1>14, MqMove
<1>16. MqMessages' = <<>>
  <2>1. MqMessages' = MsgsOf(mq', <<>>)
    BY <1>11, ShapeNext
  <2> QED BY <2>1 DEF MsgsOf
<1>17. MqCall(c)' = MqCall(c)
  BY <1>2, <1>4 DEF MqCall, NoObj
<1>18. MqAbsStep
  BY <1>2, <1>15, <1>16, <1>17, MqAbsReset
<1> QED BY <1>6, <1>15, <1>18 DEF MqStep

LEMMA MqInitInv ==
  ASSUME Base, MqInv, NEW c \in User, rt_mq_init(c)
  PROVE  MqStep
<1>1. Create(c, {"mq"}) /\ mq' = mq
  BY DEF rt_mq_init
<1>2. /\ OwnStep({"mq"}) /\ alive = {} /\ alive' = {"mq"} /\ k' = k /\ op' = op /\ loc' = loc
      /\ \A t \in Thread : op[t].on = NoObj
      /\ \A t \in Thread, o \in Obj : ~Linked(k, t, Wait(o))
  <2> DEFINE O == {"mq"}
  <2>1. O \in {MbObj, {"mq"}, {"ev"}, {"mp"}} /\ Create(c, O)
    BY <1>1
  <2> HIDE DEF O
  <2>2. /\ OwnStep(O) /\ alive = {} /\ alive' = O /\ k' = k /\ op' = op /\ loc' = loc
        /\ \A t \in Thread : op[t].on = NoObj
        /\ \A t \in Thread, o \in Obj : ~Linked(k, t, Wait(o))
    BY <2>1, OwnCreate
  <2> QED BY <2>2 DEF O
<1>3. MqCount'
  BY <1>2, ObjNames DEF MqCount, Awaited
<1>4. \A t \in Thread : MqLoc(t)' /\ MqHand(t)'
  BY <1>1, <1>2, ObjNames DEF MqLoc, MqHand, MqInv
<1>5. MqShaped' /\ MqApart'
  BY <1>1, <1>2 DEF MqInv, MqShaped, MqApart, HandNodes, Hands
<1>6. "mq" \in alive'
  BY <1>2
<1>7. MqInv'
  BY <1>3, <1>4, <1>5, <1>6 DEF MqInv
<1>8. MqAbsStep
  <2>1. ChainUpTo' = ChainUpTo
    BY <1>1 DEF ChainUpTo
  <2>2. MqMessages' = MqMessages /\ MqCalls' = MqCalls
    BY <1>1, <1>2, <2>1 DEF MqMessages, MqCalls, MqCall, Blocked, Chain
  <2> QED BY <2>2 DEF MqAbsStep
<1> QED BY <1>2, <1>7, <1>8 DEF MqStep

\* rt_mq_detach: nobody has a buffer in hand, and those inside wait for ever.
LEMMA MqDetachInv ==
  ASSUME Base, MqInv, NEW c \in User, rt_mq_detach(c)
  PROVE  MqStep
<1>1. Detach(c, {"mq"}, "mq") /\ mq' = MqEmpty
  BY DEF rt_mq_detach
<1>2. /\ OwnStep({"mq"}) /\ alive = {"mq"} /\ alive' = {} /\ k' = k /\ loc' = loc
      /\ op[c].pc = "run" /\ op[c].on = NoObj /\ op'[c].pc = "resume_test" /\ op'[c].on = "mq"
      /\ \A t \in Thread \ {c} : op'[t] = op[t]
      /\ \A t \in Thread : op[t].on = "mq" => Blocked(t)
  <2> DEFINE O == {"mq"}
  <2>1. O \in {MbObj, {"mq"}, {"ev"}, {"mp"}} /\ Detach(c, O, "mq") /\ "mq" \in O
    BY <1>1
  <2>2. O = {"mq", After("mq")} \cap Obj
    BY ObjNames DEF After
  <2>3. O = {"mq"}
    OBVIOUS
  <2> HIDE DEF O
  <2>4. /\ OwnStep(O) /\ alive = O /\ alive' = {} /\ k' = k /\ loc' = loc
        /\ op[c].pc = "run" /\ op[c].on = NoObj /\ op'[c].pc = "resume_test" /\ op'[c].on = "mq"
        /\ \A t \in Thread \ {c} : op'[t] = op[t]
        /\ \A t \in Thread : op[t].on \in O => Blocked(t) /\ ~Timed(k, t) /\ ~Woken(t)
    BY <2>1, <2>2, OwnDetach
  <2> QED BY <2>3, <2>4
<1>3. c \in Thread
  BY DEF User
<1>4. /\ \A t \in Thread : op[t].pc \notin HandPC /\ op'[t].pc \notin HandPC
      /\ Hands' = {} /\ HandNodes' = {}
  <2>1. ASSUME NEW t \in Thread PROVE op[t].pc \notin HandPC
    BY <1>2 DEF Base, CallOK, Blocked, HandPC
  <2>2. ASSUME NEW t \in Thread PROVE op'[t].pc \notin HandPC
    BY <1>2, <2>1 DEF HandPC
  <2> QED BY <2>1, <2>2 DEF Hands, HandNodes
<1>5. PICK fs : MqShape(mq', <<>>, fs, HandNodes')
  <2>1. PICK fs : MqShape(MqEmpty, <<>>, fs, {})
    BY ShapeEmpty
  <2>2. MqShape(mq', <<>>, fs, HandNodes')
    BY <1>1, <1>4, <2>1
  <2> QED BY <2>2
<1>6. \A t \in Thread : MqLoc(t)' /\ MqHand(t)'
  <2> SUFFICES ASSUME NEW t \in Thread PROVE MqLoc(t)' /\ MqHand(t)'
    OBVIOUS
  <2>1. MqHand(t)'
    BY <1>4 DEF MqHand, HandPC
  <2>2. CASE t = c
    BY <1>2, <2>1, <2>2 DEF MqLoc, Blocked
  <2>3. CASE t # c
    <3>1. MqLoc(t) /\ op'[t] = op[t]
      BY <1>2, <2>3 DEF MqInv
    <3>2. Clock(t) => Clock(t)'
      BY <1>2, KeptClock DEF Timed
    <3> QED BY <2>1, <3>1, <3>2 DEF MqLoc, Blocked
  <2> QED BY <2>2, <2>3
<1>7. MqShaped' /\ MqApart' /\ MqCount'
  BY <1>2, <1>4, <1>5 DEF MqShaped, MqApart, MqCount
<1>8. MqInv'
  BY <1>1, <1>6, <1>7 DEF MqInv
<1>9. MqMessages' = <<>>
  <2>1. MqMessages' = MsgsOf(mq', <<>>)
    BY <1>5, ShapeNext
  <2> QED BY <2>1 DEF MsgsOf
<1>10. OthersSay(c) /\ MqCall(c)' = MqCall(c)
  <2>1. ASSUME NEW t \in Thread, t # c PROVE MqCall(t)' = MqCall(t)
    <3>1. op'[t] = op[t] /\ loc'[t] = loc[t] /\ op[t].pc # "mq_copy"
      BY <1>2, <1>4, <2>1 DEF HandPC
    <3> QED BY <3>1 DEF MqCall, Blocked
  <2>2. MqCall(c)' = MqCall(c)
    BY <1>2 DEF MqCall, NoObj, Blocked
  <2> QED BY <2>1, <2>2 DEF OthersSay
<1>11. MqAbsStep
  BY <1>3, <1>9, <1>10, MqAbsReset
<1> QED BY <1>2, <1>8, <1>11 DEF MqStep

LEMMA MqNextInv ==
  ASSUME Base, MqInv, MqNext
  PROVE  MqStep
<1>1. ASSUME NEW c \in User, rt_mq_send(c, MsgOf[c]) \/ rt_mq_urgent(c, MsgOf[c])
      PROVE  MqStep
  <2>1. CASE rt_mq_send(c, MsgOf[c])
    <3>1. MqTake(c, MsgOf[c], "mq_fill") /\ "mq_fill" \in {"mq_fill", "mq_ufill"}
      BY <2>1 DEF rt_mq_send
    <3> QED BY <3>1, MqTakeInv
  <2>2. CASE rt_mq_urgent(c, MsgOf[c])
    <3>1. MqTake(c, MsgOf[c], "mq_ufill") /\ "mq_ufill" \in {"mq_fill", "mq_ufill"}
      BY <2>2 DEF rt_mq_urgent
    <3> QED BY <3>1, MqTakeInv
  <2> QED BY <1>1, <2>1, <2>2
<1>2. ASSUME NEW c \in User, NEW d \in TimeOf[c] \cup {0}, rt_mq_recv(c, d) PROVE MqStep
  BY <1>2, MqRecvInv
<1>3. ASSUME NEW c \in User,
             \/ MqFill(c) \/ MqUrgentFill(c) \/ MqLink(c) \/ MqUrgentLink(c)
             \/ MqRecvRetry(c) \/ MqCopy(c) \/ MqFree(c)
             \/ rt_mq_control(c) \/ rt_mq_init(c) \/ rt_mq_detach(c)
      PROVE  MqStep
  BY <1>3, MqFillInv, MqUrgentFillInv, MqLinkInv, MqUrgentLinkInv, MqRecvRetryInv, MqCopyInv, MqFreeInv,
     MqControlInv, MqInitInv, MqDetachInv
<1> QED BY <1>1, <1>2, <1>3, MqIsrInv DEF MqNext

\* A step of another object.
LEMMA MqForeign ==
  ASSUME Base, MqInv, NEW O, OwnStep(O), "mq" \notin O, mq' = mq
  PROVE  MqInv' /\ MqAbsStep
<1>1. "mq" \notin alive /\ "mq" \notin alive' /\ Base' /\ "mq" \in Obj /\ "mq" # NoObj
  BY ObjNames DEF OwnStep
<1>2. Hands = {} /\ Hands' = {}
  <2>1. ASSUME NEW t \in Thread PROVE op[t].pc \notin HandPC
    BY <1>1 DEF Base, CallOK, Blocked, HandPC, ResumePC
  <2>2. ASSUME NEW t \in Thread PROVE op'[t].pc \notin HandPC
    <3>1. CallOK(t)'
      BY <1>1 DEF Base
    <3> QED BY <1>1, <3>1 DEF CallOK, Blocked, HandPC, ResumePC
  <2> QED BY <2>1, <2>2 DEF Hands
<1>3. HandNodes' = HandNodes
  BY <1>2 DEF HandNodes
<1>4. MqShaped' /\ MqApart' /\ MqCount'
  BY <1>1, <1>2, <1>3 DEF MqInv, MqShaped, MqApart, MqCount
<1>5. \A t \in Thread : MqLoc(t)' /\ MqHand(t)' /\ MqCall(t)' = MqCall(t)
  <2> SUFFICES ASSUME NEW t \in Thread PROVE MqLoc(t)' /\ MqHand(t)' /\ MqCall(t)' = MqCall(t)
    OBVIOUS
  <2>1. op[t].pc \notin HandPC /\ op'[t].pc \notin HandPC
    BY <1>2 DEF Hands
  <2>2. MqHand(t)'
    BY <2>1 DEF MqHand, HandPC
  <2>3. MqLoc(t)
    BY DEF MqInv
  <2>4. CASE Kept(t) /\ loc'[t] = loc[t]
    <3>1. op'[t] = op[t] /\ op[t].pc # "mq_copy"
      BY <2>1, <2>4 DEF Kept, HandPC
    <3>2. Clock(t) => Clock(t)'
      BY <2>4, KeptClock DEF Kept, SameLinks
    <3>3. MqCall(t)' = MqCall(t)
      BY <2>4, <3>1 DEF MqCall, Blocked
    <3> QED BY <2>2, <2>3, <3>1, <3>2, <3>3 DEF MqLoc, Blocked
  <2>5. CASE op[t].on \in O \cup {NoObj} /\ op'[t].on \in O \cup {NoObj}
    <3>1. op[t].on # "mq" /\ op'[t].on # "mq"
      BY <1>1, <2>5
    <3> QED BY <2>2, <3>1 DEF MqLoc, MqCall
  <2> QED BY <2>4, <2>5 DEF OwnStep
<1>6. MqAbsStep
  <2>1. ChainUpTo' = ChainUpTo
    BY DEF ChainUpTo
  <2>2. MqMessages' = MqMessages /\ MqCalls' = MqCalls
    BY <1>5, <2>1 DEF MqMessages, MqCalls, Chain
  <2> QED BY <2>2 DEF MqAbsStep
<1> QED BY <1>1, <1>4, <1>5, <1>6 DEF MqInv

\* A step that belongs to no object.
LEMMA MqAside ==
  ASSUME Base, MqInv, RetryNext, mq' = mq
  PROVE  MqInv' /\ MqAbsStep
<1>1. alive' = alive /\ (\A t \in Thread : Aside(t)) /\ "mq" \in Obj
  BY RetryAside, ObjNames
<1>2. MqCount'
  BY <1>1, AsideCount DEF MqInv, MqCount
<1>3. ASSUME NEW t \in Thread
      PROVE  op[t].pc \in HandPC \/ op'[t].pc \in HandPC => op'[t] = op[t] /\ loc'[t] = loc[t]
  <2>1. Aside(t) /\ op \in [Thread -> [pc : IpcPC, on : Obj \cup {NoObj}]]
        /\ op' \in [Thread -> [pc : IpcPC, on : Obj \cup {NoObj}]]
    BY <1>1, RetryAside DEF Base, IpcInv, IpcTypeOK
  <2>2. CASE op'[t].pc = "run" /\ op[t].pc \notin HandPC
    BY <2>2 DEF HandPC
  <2>3. CASE op[t].pc \in ResumePC /\ op'[t].pc \in ResumePC
    BY <2>3 DEF HandPC, ResumePC
  <2>4. CASE op'[t].on = op[t].on /\ loc'[t] = loc[t] /\ op'[t].pc = op[t].pc
    BY <2>1, <2>4
  <2>5. CASE Blocked(t) /\ Blocked(t)'
    BY <2>5 DEF Blocked, HandPC
  <2> QED BY <2>1, <2>2, <2>3, <2>4, <2>5 DEF Aside
<1>4. HandNodes' = HandNodes /\ Hands' = Hands
  BY <1>3 DEF HandNodes, Hands
<1>5. MqShaped' /\ MqApart'
  BY <1>3, <1>4 DEF MqInv, MqShaped, MqApart, Hands
<1>6. \A t \in Thread : MqLoc(t)' /\ MqHand(t)'
  <2> SUFFICES ASSUME NEW t \in Thread PROVE MqLoc(t)' /\ MqHand(t)'
    OBVIOUS
  <2>1. MqLoc(t) /\ MqHand(t) /\ Aside(t)
    BY <1>1 DEF MqInv
  <2>2. MqHand(t)'
    BY <1>3, <2>1 DEF MqHand, HandPC
  <2>3. CASE op'[t].pc = "run" \/ op'[t].pc \in ResumePC
    BY <2>2, <2>3 DEF MqLoc, Blocked, ResumePC
  <2>4. CASE op'[t].on = op[t].on /\ loc'[t] = loc[t] /\ (op'[t].pc = op[t].pc \/ (Blocked(t) /\ Blocked(t)'))
    <3>1. Clock(t) => Clock(t)'
      BY <2>1, <2>4, KeptClock DEF Aside
    <3> QED BY <2>1, <2>2, <2>4, <3>1 DEF MqLoc, Blocked
  <2> QED BY <2>1, <2>3, <2>4 DEF Aside
<1>7. MqMessages' = MqMessages
  <2>1. ChainUpTo' = ChainUpTo
    BY DEF ChainUpTo
  <2> QED BY <2>1 DEF MqMessages, Chain
<1>8. ASSUME NEW t \in Thread PROVE MqCall(t)' \in {<<"out">>, MqCall(t)}
  <2>1. CASE op'[t].pc = "run" /\ op'[t].on = NoObj
    BY <2>1 DEF MqCall, NoObj
  <2>2. CASE op'[t].pc \in ResumePC
    BY <2>2 DEF MqCall, Blocked, ResumePC
  <2>3. CASE op'[t].on = op[t].on /\ loc'[t] = loc[t] /\ (op'[t].pc = op[t].pc \/ (Blocked(t) /\ Blocked(t)'))
    <3>1. (Blocked(t)' <=> Blocked(t)) /\ (Blocked(t) \/ op'[t].pc = op[t].pc)
      BY <2>3 DEF Blocked
    <3> QED BY <2>3, <3>1 DEF MqCall, Blocked
  <2> QED BY <1>1, <2>1, <2>2, <2>3 DEF Aside
<1>9. MqAbsStep
  <2>1. CASE op' = op /\ loc' = loc
    <3>1. MqCalls' = MqCalls
      BY <2>1 DEF MqCalls, MqCall, Blocked
    <3> QED BY <1>7, <3>1 DEF MqAbsStep
  <2>2. CASE \E c \in Thread : \A t \in Thread : t = c \/ (op'[t] = op[t] /\ loc'[t] = loc[t])
    <3>1. PICK c \in Thread : \A t \in Thread : t = c \/ (op'[t] = op[t] /\ loc'[t] = loc[t])
      BY <2>2
    <3>2. OthersSay(c)
      BY <3>1 DEF OthersSay, MqCall, Blocked
    <3> QED BY <1>7, <1>8, <3>2, MqAbsEnd
  <2> QED BY <2>1, <2>2, RetryOne
<1> QED BY <1>1, <1>2, <1>5, <1>6, <1>9 DEF MqInv

-----------------------------------------------------------------------------
(* The objects together *)

\* The inductive invariant: the kernel structures and the calls, and what each of
\* the objects keeps.
ObjectsInv == Base /\ MbInv /\ MqInv /\ EvInv /\ MpInv

LEMMA ObjectsInitInv ==
  ASSUME Init
  PROVE  ObjectsInv /\ MbAbstract!Init /\ MqAbstract!Init
<1>0. /\ IpcStart /\ alive = {} /\ loc = [t \in Thread |-> Idle]
      /\ mb = MbEmpty /\ mq = MqEmpty /\ ev = EvEmpty /\ mp = MpFull
  BY DEF Init, MbInit, MqInit, EvInit, MpInit
<1>1. IpcInv /\ DetachInv /\ \A o \in Obj : Waiters(o) = <<>>
  BY <1>0, StartInv
<1>2. \A t \in Thread : op[t].pc = "run" /\ op[t].on = NoObj
  BY <1>0 DEF IpcStart
<1>3. \A t \in Thread : ~Blocked(t) /\ ~Woken(t) /\ op[t].pc \notin HandPC
  BY <1>2 DEF Blocked, Woken, HandPC
<1>4. \A o \in Obj : \A t \in Thread : ~Linked(k, t, Wait(o))
  BY <1>1, NoWaiters
<1>5. Base
  <2>1. loc \in LocType
    BY <1>0, IdleType DEF LocType
  <2>2. ASSUME NEW t \in Thread PROVE CallOK(t)
    <3>1. op[t].pc \notin SleepPC
      BY <1>2 DEF SleepPC
    <3>2. op[t].on \notin Obj
      BY <1>2, ObjNames
    <3> QED BY <1>2, <1>3, <3>1, <3>2 DEF CallOK
  <2> QED BY <1>0, <1>1, <2>1, <2>2 DEF Base, AliveOK
<1>6. MbInv /\ MbMails = <<>>
  <2>1. MbSize \in Nat \ {0} /\ 0 \in 0 .. MbSize - 1 /\ 0 \in 0 .. MbSize /\ (0 + 0) % MbSize = 0
    BY MbAssumption
  <2>2. mb.in = 0 /\ mb.out = 0 /\ mb.entry = 0 /\ mb \in MbType
    BY <1>0, <2>1 DEF MbEmpty, MbType
  <2>3. MbMails = <<>>
    BY <2>2 DEF MbMails
  <2>4. \A t \in Thread : MbLoc(t)
    BY <1>3 DEF MbLoc
  <2>5. "mb" \notin alive
    BY <1>0
  <2> QED BY <1>0, <2>1, <2>2, <2>3, <2>4, <2>5 DEF MbInv, MbRing, MbCount
<1>7. MqInv /\ MqMessages = <<>>
  <2>1. Hands = {}
    BY <1>3 DEF Hands
  <2>2. HandNodes = {}
    BY <2>1 DEF HandNodes
  <2>3. PICK fs : MqShape(mq, <<>>, fs, {})
    BY <1>0, ShapeEmpty
  <2>4. MqMessages = MsgsOf(mq, <<>>)
    BY <2>3, ShapeChains
  <2>5. MqMessages = <<>>
    BY <2>4 DEF MsgsOf
  <2>6. \A t \in Thread : MqLoc(t) /\ MqHand(t)
    BY <1>2, <1>3 DEF MqLoc, MqHand
  <2>7. MqShaped
    BY <2>2, <2>3 DEF MqShaped
  <2>8. MqApart
    BY <2>1 DEF MqApart
  <2> QED BY <1>0, <2>5, <2>6, <2>7, <2>8 DEF MqInv, MqCount
<1>8. EvInv
  <2>1. ev \in EvType
    BY <1>0 DEF EvEmpty, EvType, NoCall, NoOption, Option
  <2>2. \A t \in Thread : EvWaits(t) /\ EvTold(t)
    BY <1>2, <1>4, ObjNames DEF EvWaits, EvTold, EvIn
  <2> QED BY <2>1, <2>2 DEF EvInv
<1>9. MpInv
  BY <1>0, MpFullBlocks DEF MpInv, MpBlocks, MpCount
<1>10. \A t \in Thread : MbCall(t) = <<"out">> /\ MqCall(t) = <<"out">>
  BY <1>2, ObjNames DEF MbCall, MqCall
<1>11. MbAbstract!Init /\ MqAbstract!Init
  BY <1>6, <1>7, <1>10 DEF MbAbstract!Init, MbAbstract!Out, MqAbstract!Init, MqAbstract!Out
<1> QED BY <1>5, <1>6, <1>7, <1>8, <1>9, <1>11 DEF ObjectsInv

\* nothing changes
LEMMA ObjectsStutter ==
  ASSUME ObjectsInv, UNCHANGED vars
  PROVE  ObjectsInv' /\ MbAbsStep /\ MqAbsStep /\ EvTaken /\ MpSpare
<1>1. k' = k /\ op' = op /\ alive' = alive /\ loc' = loc /\ mb' = mb /\ mq' = mq /\ ev' = ev /\ mp' = mp
  BY DEF vars
<1>2. \A t \in Thread : (Woken(t)' <=> Woken(t)) /\ (Blocked(t)' <=> Blocked(t)) /\ (Clock(t)' <=> Clock(t))
  BY <1>1 DEF Woken, Blocked, Clock
<1>3. Base'
  <2>1. IpcInv' /\ DetachInv'
    BY <1>1 DEF ObjectsInv, Base, IpcInv, IpcTypeOK, CallerOK, Blocked, DetachInv,
                ResumeAllFindsWaiter, Leaving, Waiters
  <2>2. \A t \in Thread : CallOK(t)'
    BY <1>1, <1>2 DEF ObjectsInv, Base, CallOK
  <2> QED BY <1>1, <2>1, <2>2 DEF ObjectsInv, Base, AliveOK
<1>4. \A o : Coming(o)' = Coming(o) /\ (Awaited(o)' <=> Awaited(o))
  BY <1>1, <1>2 DEF Coming, Awaited
<1>5. MbInv'
  BY <1>1, <1>2, <1>4 DEF ObjectsInv, MbInv, MbRing, MbCount, MbLoc
<1>6. MqInv'
  <2>1. Hands' = Hands
    BY <1>1 DEF Hands
  <2>2. HandNodes' = HandNodes
    BY <1>1, <2>1 DEF HandNodes
  <2>3. MqShaped' /\ MqApart' /\ MqCount'
    BY <1>1, <1>4, <2>1, <2>2 DEF ObjectsInv, MqInv, MqShaped, MqApart, MqCount
  <2>4. \A t \in Thread : MqLoc(t)' /\ MqHand(t)'
    BY <1>1, <1>2 DEF ObjectsInv, MqInv, MqLoc, MqHand
  <2> QED BY <1>1, <2>3, <2>4 DEF ObjectsInv, MqInv
<1>7. EvInv' /\ \A t \in Thread : t \notin EvToldNow
  BY <1>1, <1>2 DEF ObjectsInv, EvInv, EvWaits, EvTold, EvIn, EvToldNow
<1>8. MpInv' /\ MpSpare
  <2>1. MpWaits' = MpWaits
    BY <1>1 DEF MpWaits
  <2>2. MpInv'
    BY <1>1, <1>4, <2>1 DEF ObjectsInv, MpInv, MpBlocks, MpCount
  <2>3. Spare' = Spare
    BY <1>1, <2>1 DEF Spare
  <2>4. "mp" \in alive' <=> "mp" \in alive
    BY <1>1
  <2> QED BY <2>2, <2>3, <2>4, MpSpareKept DEF ObjectsInv, MpSpare
<1>9. MbAbsStep /\ MqAbsStep
  <2>1. MbMails' = MbMails /\ MbCalls' = MbCalls
    BY <1>1, <1>2 DEF MbMails, MbCalls, MbCall
  <2>2. ChainUpTo' = ChainUpTo
    BY <1>1 DEF ChainUpTo
  <2>3. MqMessages' = MqMessages /\ MqCalls' = MqCalls
    BY <1>1, <1>2, <2>2 DEF MqMessages, Chain, MqCalls, MqCall
  <2> QED BY <2>1, <2>3 DEF MbAbsStep, MqAbsStep
<1>10. EvTaken
  <2>1. EvToldNow \subseteq Thread
    BY EvAssumption DEF EvToldNow, User
  <2>2. EvToldNow = {} /\ ev.set \ ev'.set = {}
    BY <1>1, <1>7, <2>1
  <2> QED BY <2>2 DEF EvTaken
<1> QED BY <1>3, <1>5, <1>6, <1>7, <1>8, <1>9, <1>10 DEF ObjectsInv

\* One step: the invariant holds again, the queues of BoundedQueue take a step or
\* none, the bits that an event lost were handed out, and the count of a pool goes
\* astray by timeouts only.
LEMMA ObjectsNextInv ==
  ASSUME ObjectsInv, [Next]_vars
  PROVE  ObjectsInv' /\ MbAbsStep /\ MqAbsStep /\ EvTaken /\ MpSpare
<1>0. Base /\ MbInv /\ MqInv /\ EvInv /\ MpInv
  BY DEF ObjectsInv
<1> DEFINE O1 == {"mq"}
           O2 == {"ev"}
           O3 == {"mp"}
<1>1. /\ "mq" \notin MbObj /\ "ev" \notin MbObj /\ "mp" \notin MbObj
      /\ "mb" \notin O1 /\ "mb_sender" \notin O1 /\ "ev" \notin O1 /\ "mp" \notin O1
      /\ "mb" \notin O2 /\ "mb_sender" \notin O2 /\ "mq" \notin O2 /\ "mp" \notin O2
      /\ "mb" \notin O3 /\ "mb_sender" \notin O3 /\ "mq" \notin O3 /\ "ev" \notin O3
  BY DEF MbObj
<1>2. CASE MbNext /\ UNCHANGED <<mq, ev, mp>>
  <2>1. OwnStep(MbObj) /\ MbInv' /\ MbAbsStep
    BY <1>0, <1>2, MbNextInv DEF MbStep
  <2>2. MqInv' /\ MqAbsStep
    BY <1>0, <1>1, <1>2, <2>1, MqForeign
  <2>3. EvInv' /\ EvTaken
    BY <1>0, <1>1, <1>2, <2>1, EvForeign
  <2>4. MpInv' /\ MpSpare
    BY <1>0, <1>1, <1>2, <2>1, MpForeign
  <2> QED BY <2>1, <2>2, <2>3, <2>4 DEF ObjectsInv, OwnStep
<1>3. CASE MqNext /\ UNCHANGED <<mb, ev, mp>>
  <2>1. OwnStep(O1) /\ MqInv' /\ MqAbsStep
    BY <1>0, <1>3, MqNextInv DEF MqStep
  <2> HIDE DEF O1
  <2>2. MbInv' /\ MbAbsStep
    BY <1>0, <1>1, <1>3, <2>1, MbForeign
  <2>3. EvInv' /\ EvTaken
    BY <1>0, <1>1, <1>3, <2>1, EvForeign
  <2>4. MpInv' /\ MpSpare
    BY <1>0, <1>1, <1>3, <2>1, MpForeign
  <2> QED BY <2>1, <2>2, <2>3, <2>4 DEF ObjectsInv, OwnStep
<1>4. CASE EvNext /\ UNCHANGED <<mb, mq, mp>>
  <2>1. OwnStep(O2) /\ EvInv' /\ EvTaken
    BY <1>0, <1>4, EvNextInv DEF EvStep
  <2> HIDE DEF O2
  <2>2. MbInv' /\ MbAbsStep
    BY <1>0, <1>1, <1>4, <2>1, MbForeign
  <2>3. MqInv' /\ MqAbsStep
    BY <1>0, <1>1, <1>4, <2>1, MqForeign
  <2>4. MpInv' /\ MpSpare
    BY <1>0, <1>1, <1>4, <2>1, MpForeign
  <2> QED BY <2>1, <2>2, <2>3, <2>4 DEF ObjectsInv, OwnStep
<1>5. CASE MpNext /\ UNCHANGED <<mb, mq, ev>>
  <2>1. OwnStep(O3) /\ MpInv' /\ MpSpare
    BY <1>0, <1>5, MpNextInv DEF MpStep
  <2> HIDE DEF O3
  <2>2. MbInv' /\ MbAbsStep
    BY <1>0, <1>1, <1>5, <2>1, MbForeign
  <2>3. MqInv' /\ MqAbsStep
    BY <1>0, <1>1, <1>5, <2>1, MqForeign
  <2>4. EvInv' /\ EvTaken
    BY <1>0, <1>1, <1>5, <2>1, EvForeign
  <2> QED BY <2>1, <2>2, <2>3, <2>4 DEF ObjectsInv, OwnStep
<1>6. CASE RetryNext /\ EvForget /\ UNCHANGED <<mb, mq, mp>>
  <2>1. Base'
    BY <1>0, <1>6, RetryAside
  <2>2. MbInv' /\ MbAbsStep
    BY <1>0, <1>6, MbAside
  <2>3. MqInv' /\ MqAbsStep
    BY <1>0, <1>6, MqAside
  <2>4. EvInv' /\ EvTaken
    BY <1>0, <1>6, EvAside
  <2>5. MpInv' /\ MpSpare
    BY <1>0, <1>6, MpAside
  <2> QED BY <2>1, <2>2, <2>3, <2>4, <2>5 DEF ObjectsInv
<1>7. CASE UNCHANGED vars
  BY <1>7, ObjectsStutter
<1> QED BY <1>2, <1>3, <1>4, <1>5, <1>6, <1>7 DEF Next

\* Every suspend list is a sequence of threads, none of them twice.
LEMMA WaitersSeq ==
  ASSUME Base, NEW o \in Obj
  PROVE  /\ Waiters(o) \in Seq(Thread) /\ IsInjective(Waiters(o))
         /\ \A t : t \in Range(Waiters(o)) <=> t \in Thread /\ Linked(k, t, Wait(o))
<1>1. k \in KState /\ OneList(k)
  BY DEF Base, IpcInv, Sane, KInv
<1>2. Wait(o) \in ListHead
  BY HeadFacts
<1>3. k.list[Wait(o)] \in Seq(Thread) /\ IsInjective(k.list[Wait(o)])
  BY <1>1, <1>2 DEF OneList, KState
<1>4. Range(k.list[Wait(o)]) \subseteq Thread
  BY <1>3 DEF Range
<1> QED BY <1>3, <1>4 DEF Waiters, Linked

LEMMA ObjectsInvSound == ObjectsInv => ObjectsSound
<1> SUFFICES ASSUME ObjectsInv PROVE ObjectsSound
  OBVIOUS
<1>1. op \in [Thread -> [pc : IpcPC, on : Obj \cup {NoObj}]] /\ alive \subseteq Obj /\ KInv(k) /\ StaleBits(k) = {}
  BY DEF ObjectsInv, Base, IpcInv, IpcTypeOK, Sane
<1>2. mq \in MqType
  BY DEF ObjectsInv, MqInv, MqShaped, MqShape
<1>3. mp.list \in Seq(MpBlock) /\ IsInjective(mp.list) /\ mp.free = Len(mp.list) /\ mp.susp \in Nat
  BY DEF ObjectsInv, MpInv, MpBlocks
<1>4. mp.free \in 0 .. Cardinality(MpBlock)
  <2>1. Cardinality(Range(mp.list)) = mp.free /\ mp.free \in Nat
    BY <1>3, InjectiveLength
  <2>2. Range(mp.list) \subseteq MpBlock
    BY <1>3 DEF Range
  <2>3. Cardinality(Range(mp.list)) <= Cardinality(MpBlock) /\ Cardinality(MpBlock) \in Nat
    BY <2>2, MpAssumption, FS_Subset, FS_CardinalityType
  <2> QED BY <2>1, <2>3
<1> QED BY <1>1, <1>2, <1>3, <1>4 DEF ObjectsSound, ObjectsInv, MbInv, MbRing, EvInv

LEMMA ObjectsInvMail == ObjectsInv => NoMailStranded
<1> SUFFICES ASSUME ObjectsInv PROVE NoMailStranded
  OBVIOUS
<1>1. IpcInv /\ MbCount /\ "mb" \in Obj /\ "mb_sender" \in Obj
  BY ObjNames DEF ObjectsInv, Base, MbInv
<1>2. (Waiters("mb") # <<>> => Awaited("mb")) /\ (Waiters("mb_sender") # <<>> => Awaited("mb_sender"))
  BY <1>1, NoWaiters DEF Awaited
<1> QED BY <1>1, <1>2 DEF MbCount, Coming, NoMailStranded

LEMMA ObjectsInvDeadline == ObjectsInv => DeadlineKept
<1> SUFFICES ASSUME ObjectsInv, NEW c \in Thread, Timed(k, c), op[c].on \in {"mb", "mb_sender", "mq"}
             PROVE  k.tmo[c] = loc[c].due
  BY DEF DeadlineKept
<1>1. IpcInv /\ CallOK(c) /\ MbLoc(c) /\ MqLoc(c)
  BY DEF ObjectsInv, Base, MbInv, MqInv
<1>2. k.stat[c] = "SUSPEND"
  BY <1>1 DEF IpcInv, Sane, KInv, ListsAgree
<1>3. Blocked(c)
  BY <1>1, <1>2 DEF IpcInv, CallerOK, CallOK, Blocked, WaitPC
<1> QED BY <1>1, <1>3 DEF MbLoc, MqLoc, MbObj, Clock

LEMMA ObjectsInvMessage == ObjectsInv => NoMessageStranded
<1> SUFFICES ASSUME ObjectsInv PROVE NoMessageStranded
  OBVIOUS
<1>1. IpcInv /\ MqCount /\ "mq" \in Obj
  BY ObjNames DEF ObjectsInv, Base, MqInv
<1>2. Waiters("mq") # <<>> => Awaited("mq")
  BY <1>1, NoWaiters DEF Awaited
<1> QED BY <1>1, <1>2 DEF MqCount, Coming, NoMessageStranded

LEMMA ObjectsInvBlock == ObjectsInv => NoBlockStranded
<1> SUFFICES ASSUME ObjectsInv PROVE NoBlockStranded
  OBVIOUS
<1>1. IpcInv /\ MpCount /\ "mp" \in Obj
  BY ObjNames DEF ObjectsInv, Base, MpInv
<1>2. Waiters("mp") # <<>> => Awaited("mp")
  BY <1>1, NoWaiters DEF Awaited
<1> QED BY <1>1, <1>2 DEF MpCount, Coming, NoBlockStranded

\* The threads that wait are those in the list.
SurplusIsSpare == Surplus = Spare

LEMMA ObjectsInvSurplus == ObjectsInv => SurplusIsSpare
<1> SUFFICES ASSUME ObjectsInv PROVE SurplusIsSpare
  OBVIOUS
<1>1. /\ Waiters("mp") \in Seq(Thread) /\ IsInjective(Waiters("mp"))
      /\ \A t : t \in Range(Waiters("mp")) <=> t \in Thread /\ Linked(k, t, Wait("mp"))
  BY WaitersSeq, ObjNames DEF ObjectsInv
<1>2. Range(Waiters("mp")) = MpWaits
  BY <1>1 DEF MpWaits
<1>3. Cardinality(Range(Waiters("mp"))) = Len(Waiters("mp"))
  BY <1>1, InjectiveLength
<1> QED BY <1>2, <1>3 DEF SurplusIsSpare, Surplus, Spare

LEMMA ObjectsInvPool == ObjectsInv => PoolCounts
<1> SUFFICES ASSUME ObjectsInv PROVE PoolCounts
  OBVIOUS
<1>1. mp.free = Len(mp.list) /\ IsInjective(mp.list)
  BY DEF ObjectsInv, MpInv, MpBlocks
<1>2. "mp" \in alive => Spare >= 0
  BY MpNumbers DEF ObjectsInv, Spare
<1> QED BY <1>1, <1>2, ObjectsInvSurplus DEF PoolCounts, SurplusIsSpare

LEMMA ObjectsInvServed == ObjectsInv => ReceiversServed
<1> SUFFICES ASSUME ObjectsInv PROVE ReceiversServed
  OBVIOUS
<1>1. \A t \in Thread : EvWaits(t) /\ EvTold(t)
  BY DEF ObjectsInv, EvInv
<1>2. \A t : t \in Range(Waiters("ev")) <=> t \in Thread /\ Linked(k, t, Wait("ev"))
  BY WaitersSeq, ObjNames DEF ObjectsInv
<1> QED BY <1>1, <1>2 DEF EvWaits, EvTold, EvIn, ReceiversServed

LEMMA ObjectsInvBuffers == ObjectsInv => BuffersAccounted
<1> SUFFICES ASSUME ObjectsInv PROVE BuffersAccounted
  OBVIOUS
<1>1. PICK us, fs : MqShape(mq, us, fs, HandNodes)
  BY DEF ObjectsInv, MqInv, MqShaped
<1>2. Chain(mq.head) = us /\ Chain(mq.free) = fs /\ Len(us) + Len(fs) + Cardinality(HandNodes) = MaxMsgs
  BY <1>1, ShapeChains
<1>3. /\ us \in Seq(Node) /\ Len(us) = mq.entry /\ mq.tail = IF us = <<>> THEN Null ELSE us[Len(us)]
      /\ PathOf(mq.next, mq.head, us) /\ Range(us) \cup Range(fs) \cup HandNodes = Node
  BY <1>1 DEF MqShape, MqPlaces, PathOf
<1>4. us # <<>> => mq.next[mq.tail] = Null
  <2> SUFFICES ASSUME us # <<>> PROVE mq.next[mq.tail] = Null
    OBVIOUS
  <2>1. Len(us) \in 1 .. Len(us) /\ mq.tail = us[Len(us)]
    BY <1>3
  <2> QED BY <1>3, <2>1 DEF PathOf
<1>5. Cardinality(Hands) = Cardinality(HandNodes)
  <2> DEFINE f == [t \in Hands |-> loc[t].node]
  <2>1. f \in Bijection(Hands, HandNodes)
    BY DEF ObjectsInv, MqInv, MqApart, HandNodes, Bijection, Injection, Surjection, IsInjective
  <2>2. IsFiniteSet(Hands)
    BY FiniteThread, FS_Subset DEF Hands
  <2>3. ExistsBijection(Hands, HandNodes)
    BY <2>1 DEF ExistsBijection
  <2> QED BY <2>2, <2>3, FS_Bijection
<1>6. Hands = {c \in Thread : op[c].pc \in {"mq_fill", "mq_link", "mq_ufill", "mq_ulink", "mq_copy", "mq_free"}}
  BY DEF Hands, HandPC
<1>7. us # <<>> => Last(us) = us[Len(us)]
  BY DEF Last
<1> QED BY <1>2, <1>3, <1>4, <1>5, <1>6, <1>7 DEF BuffersAccounted, HandNodes

-----------------------------------------------------------------------------
(* The theorems *)

\* The inductive invariant: with any number of threads, priorities, slots, buffers,
\* bits and blocks, no call of ipc.c and mempool.c, interrupt or timeout breaks it.
THEOREM ObjectsInvariance == Spec => []ObjectsInv
<1>1. Init => ObjectsInv
  BY ObjectsInitInv
<1>2. ObjectsInv /\ [Next]_vars => ObjectsInv'
  BY ObjectsNextInv
<1> QED BY <1>1, <1>2, PTL DEF Spec

\* ObjectsSound: the ready queues, suspend lists, timer list and bitmap stay
\* consistent through every call on the four objects of ipc.c and mempool.c.
THEOREM ObjectsKernelSound == Spec => []ObjectsSound
BY ObjectsInvariance, ObjectsInvSound, PTL

\* NoMailStranded: rt_mb_send_wait and rt_mb_recv wake as many receivers and
\* senders as there are mails and free slots for those that wait.
THEOREM MailNeverStranded == Spec => []NoMailStranded
BY ObjectsInvariance, ObjectsInvMail, PTL

\* DeadlineKept: what rt_mb_send_wait, rt_mb_recv and rt_mq_recv subtract from
\* timeout with every wake-up leaves the tick at which the call gives up.
THEOREM DeadlineAlwaysKept == Spec => []DeadlineKept
BY ObjectsInvariance, ObjectsInvDeadline, PTL

\* NoMessageStranded: rt_mq_send and rt_mq_urgent wake a receiver for every message
\* that they link while one waits.
THEOREM MessageNeverStranded == Spec => []NoMessageStranded
BY ObjectsInvariance, ObjectsInvMessage, PTL

\* BuffersAccounted: the calls on a message queue, which fill and copy buffers with
\* interrupts enabled, neither lose a buffer nor have one in two places.
THEOREM BuffersAlwaysAccounted == Spec => []BuffersAccounted
BY ObjectsInvariance, ObjectsInvBuffers, PTL

\* ReceiversServed: the loop of rt_event_send serves every receiver that the bits
\* it leaves satisfy, and tells the others nothing.
THEOREM ReceiversAlwaysServed == Spec => []ReceiversServed
BY ObjectsInvariance, ObjectsInvServed, PTL

\* PoolCounts: rt_mp_alloc and rt_mp_free keep block_free_count at the number of
\* free blocks, and suspend_thread_count never misses a thread that waits, also when
\* others have timed out.
THEOREM PoolAlwaysCounts == Spec => []PoolCounts
BY ObjectsInvariance, ObjectsInvPool, PTL

\* OnlyTimeoutsLeak: suspend_thread_count starts exact, and no call of rt_mp_alloc or
\* rt_mp_free, from a thread or an interrupt, changes what it holds beyond the
\* threads that wait: only a caller of rt_mp_alloc that times out adds to that.
THEOREM PoolLeaksByTimeouts == Spec => OnlyTimeoutsLeak
<1>1. ObjectsInv => SurplusIsSpare
  BY ObjectsInvSurplus
<1>2. ObjectsInv /\ [Next]_vars /\ SurplusIsSpare /\ SurplusIsSpare' =>
        [ "mp" \in alive' =>
            IF "mp" \in alive
            THEN /\ Surplus' >= Surplus
                 /\ Surplus' > Surplus => \E t \in Thread : TimedOut(t)
            ELSE Surplus' = 0 ]_<<k, alive, mp>>
  BY ObjectsNextInv DEF SurplusIsSpare, MpSpare
<1> QED BY <1>1, <1>2, ObjectsInvariance, PTL DEF Spec, OnlyTimeoutsLeak

\* NoBlockStranded: rt_mp_free wakes a thread for every block that it returns while
\* one waits, also when others have timed out: suspend_thread_count is never too low.
THEOREM BlockNeverStranded == Spec => []NoBlockStranded
BY ObjectsInvariance, ObjectsInvBlock, PTL

\* MailboxIsQueue: the ring of rt_mb_send_wait, rt_mb_recv and rt_mb_control
\* implements the bounded queue of module BoundedQueue, step by step.
THEOREM MailboxRefinement == Spec => MailboxIsQueue
<1>1. Init => MbAbstract!Init
  BY ObjectsInitInv
<1>2. ObjectsInv /\ [Next]_vars => [MbAbstract!Next]_<<MbMails, [c \in Thread |-> MbCall(c)]>>
  BY ObjectsNextInv DEF MbAbsStep, MbCalls
<1> QED BY <1>1, <1>2, ObjectsInvariance, PTL DEF Spec, MailboxIsQueue, MbAbstract!Spec

\* MessageQueueIsQueue: the two chains of rt_mq_send, rt_mq_urgent and rt_mq_recv
\* implement the bounded queue of module BoundedQueue, step by step.
THEOREM MessageQueueRefinement == Spec => MessageQueueIsQueue
<1>1. Init => MqAbstract!Init
  BY ObjectsInitInv
<1>2. ObjectsInv /\ [Next]_vars => [MqAbstract!Next]_<<MqMessages, [c \in Thread |-> MqCall(c)]>>
  BY ObjectsNextInv DEF MqAbsStep, MqCalls
<1> QED BY <1>1, <1>2, ObjectsInvariance, PTL DEF Spec, MessageQueueIsQueue, MqAbstract!Spec

\* TakenBitsDelivered: the bits that rt_event_send and rt_event_recv take out of an
\* event go to a receiver that clears, those of one rt_event_send to no two.
THEOREM TakenBitsAlwaysDelivered == Spec => TakenBitsDelivered
<1>1. ObjectsInv /\ [Next]_vars =>
        [ LET in(c) == op[c].on = "ev" /\ (Woken(c) \/ op[c].pc = "return")
              told  == {c \in EvReceiver : ~in(c) /\ in(c)' /\ ev'.call[c].opt.clear}
          IN  \/ /\ \A b \in ev.set \ ev'.set : \E c \in told : b \in ev'.call[c].want
                 /\ \A c, d \in told : c # d => ev'.call[c].want \cap ev'.call[d].want = {}
              \/ \E c \in User : rt_event_control(c) \/ rt_event_detach(c)
        ]_<<k, op, alive, loc, ev>>
  BY ObjectsNextInv DEF EvTaken, EvToldNow, EvIn
<1> QED BY <1>1, ObjectsInvariance, PTL DEF Spec, TakenBitsDelivered
=============================================================================
