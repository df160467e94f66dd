--------------------------- MODULE RtMutexProofs ---------------------------
(***************************************************************************)
(* Theorems about the mutexes.  MutexInv, which says who owns a mutex and  *)
(* who believes so, is inductive for callers that hold several mutexes at  *)
(* a time; PrioInv, which is about priority inheritance, for callers that  *)
(* hold one.                                                               *)
(***************************************************************************)
EXTENDS RtMutex, RtIpcProofs

LEMMA MutexAfter == AfterOK /\ (\A o \in Obj : After(o) = NoObj) /\ \A o, x \in Obj : After(x) # o
BY MutexAssumption, IpcAssumption DEF AfterOK, After

LEMMA MutexConstants == NoThread \notin Thread /\ NoPrio \notin Prio /\ HoldMax \in Nat /\ 1 <= HoldMax
BY MutexAssumption, KernelAssumption DEF NoPrio, Prio
-----------------------------------------------------------------------------
(* A change of priority *)

LEMMA ChangePriorityFrame ==
  ASSUME NEW s, KInv(s), NEW t \in Thread, NEW p \in Prio
  PROVE  LET u == ChangePriority(s, t, p)
         IN  u.err = s.err /\ \A o \in Obj : u.list[Wait(o)] = s.list[Wait(o)]
<1>0. s \in KState /\ OneList(s)
  BY DEF KInv
<1>1. CASE s.stat[t] # "READY"
  BY <1>0, <1>1 DEF ChangePriority, SetPrio, KState
<1>2. CASE s.stat[t] = "READY"
  <2> DEFINE r == RemoveReady(s, t)
             l == [h \in ListHead |-> RemoveFirst(s.list[h], t)]
  <2>1. r.err = s.err /\ r.list = l
    <3>1. Unlink(s, t).err = s.err /\ Unlink(s, t).list = l
      BY <1>0 DEF Unlink, KState
    <3> HIDE DEF l
    <3> QED BY <1>0, <3>1 DEF RemoveReady, Unlink, KState
  <2>2. \A o \in Obj : t \notin Range(s.list[Wait(o)])
    BY <1>2 DEF KInv, ListsAgree, Linked
  <2>3. \A o \in Obj : Wait(o) \in ListHead /\ s.list[Wait(o)] \in Seq(Thread)
    BY <1>0, HeadFacts DEF KState
  <2>4. \A o \in Obj : l[Wait(o)] = s.list[Wait(o)]
    BY <2>2, <2>3, RemoveAbsent
  <2>5. r \in KState /\ r.prio = s.prio
    BY <1>0, RemoveReadyProps
  <2> HIDE DEF r, l
  <2> DEFINE v == SetPrio(r, t, p)
  <2>6. v.err = r.err /\ v.list = r.list /\ v.prio[t] = p /\ v \in KState
    BY <2>5 DEF SetPrio, KState
  <2> HIDE DEF v
  <2>7. /\ InsertReady(v, t).err = v.err
        /\ \A o \in Obj : InsertReady(v, t).list[Wait(o)] = v.list[Wait(o)]
    BY <2>6, HeadFacts DEF InsertReady, KState
  <2>8. ChangePriority(s, t, p) = InsertReady(v, t)
    BY <1>2 DEF ChangePriority, r, v
  <2> QED BY <2>1, <2>4, <2>6, <2>7, <2>8
<1> QED BY <1>1, <1>2

\* The priority of one thread changes; nobody wakes up and no suspend list moves.
Reprio(s, u, t, p) ==
  /\ Woke(s, u, {})
  /\ \A o \in Obj : u.list[Wait(o)] = s.list[Wait(o)]
  /\ u.prio = [s.prio EXCEPT ![t] = p]
  /\ u.err = s.err /\ u.cur = s.cur /\ u.isr = s.isr

LEMMA ChangePriorityWoke ==
  ASSUME NEW s, Sane(s), NEW t \in Thread, t # idle, NEW p \in Prio
  PROVE  Reprio(s, ChangePriority(s, t, p), t, p)
<1> DEFINE u == ChangePriority(s, t, p)
<1>0. KInv(s) /\ (s.stat[t] = "READY" => Linked(s, t, Ready(s.prio[t]))) /\ s \in KState
  BY DEF Sane, KInv
<1>1. /\ KInv(u) /\ StaleBits(u) \subseteq StaleBits(s)
      /\ u.prio = [s.prio EXCEPT ![t] = p]
      /\ u.stat = s.stat /\ u.timers = s.timers
      /\ u.cur = s.cur /\ u.lock = s.lock /\ u.isr = s.isr
      /\ \A x \in Thread \ {t}, h \in ListHead : Linked(u, x, h) <=> Linked(s, x, h)
      /\ s.stat[t] = "READY" => Linked(u, t, Ready(p))
  BY <1>0, ChangePriorityInv
<1>2. u.err = s.err /\ \A o \in Obj : u.list[Wait(o)] = s.list[Wait(o)]
  BY <1>0, ChangePriorityFrame
<1> HIDE DEF u
<1>3. \A x \in Thread : x # t => u.prio[x] = s.prio[x] /\ s.prio[x] \in Prio
  BY <1>0, <1>1 DEF KState
<1>4. u.prio[t] = p
  BY <1>0, <1>1 DEF KState
<1>5. \A x \in Thread : u.stat[x] = "READY" => Linked(u, x, Ready(u.prio[x]))
  <2> SUFFICES ASSUME NEW x \in Thread, u.stat[x] = "READY"
               PROVE  Linked(u, x, Ready(u.prio[x]))
    OBVIOUS
  <2>1. CASE x = t
    BY <1>1, <1>4, <2>1
  <2>2. CASE x # t
    BY <1>1, <1>3, <2>2, HeadFacts DEF Sane
  <2> QED BY <2>1, <2>2
<1>6. Sane(u)
  BY <1>1, <1>5 DEF Sane
<1>7. \A x \in Thread, o \in Obj : Linked(u, x, Wait(o)) <=> Linked(s, x, Wait(o))
  BY <1>2 DEF Linked
<1>8. Woke(s, u, {})
  BY <1>1, <1>6, <1>7, WokeNobody
<1> QED BY <1>1, <1>2, <1>8 DEF Reprio, u
-----------------------------------------------------------------------------
(* Who owns a mutex and who believes so *)

Shape(o) ==
  \/ m[o] = Free /\ Waiters(o) = <<>>
  \/ /\ m[o].value = 0 /\ m[o].owner \in User /\ m[o].hold > 0 /\ m[o].orig \in Prio
     /\ o \in alive

\* what c believes about o, and what it will be told when its call returns
Belief(c, o) ==
  /\ held[c][o] > 0 => m[o].owner = c /\ m[o].hold = held[c][o]
  /\ m[o].owner = c => held[c][o] = m[o].hold \/ HandedOver(c, o)
  /\ HandedOver(c, o) => m[o].owner = c /\ m[o].hold = 1
  /\ Blocked(c) /\ op[c].on = o => held[c][o] = 0

MutexType == m \in [Obj -> Mutex] /\ held \in [Thread -> [Obj -> 0 .. HoldMax]]

MutexInv ==
  /\ IpcInv /\ DetachInv
  /\ MutexType
  /\ \A o \in Obj : Shape(o)
  /\ \A c \in Thread, o \in Obj : Belief(c, o)

\* nobody is handed a mutex and nobody blocks
SameHands ==
  \A t \in Thread :
    /\ \A o \in Obj : HandedOver(t, o)' <=> HandedOver(t, o)
    /\ op'[t].pc \in WaitPC => Blocked(t) /\ op'[t].on = op[t].on

\* the three ways in which the call of a thread goes on
OpGoes(t) ==
  \/ op'[t] = op[t]
  \/ Blocked(t) /\ op'[t].pc \in WaitPC /\ op'[t].on = op[t].on
  \/ ~Blocked(t) /\ op'[t].pc \notin WaitPC

LEMMA OneHand ==
  ASSUME NEW t \in Thread, OpGoes(t),
         \A o \in Obj : Linked(k', t, Wait(o)) <=> Linked(k, t, Wait(o)),
         ~Blocked(t) \/ k'.err[t] = k.err[t]
  PROVE  /\ \A o \in Obj : HandedOver(t, o)' <=> HandedOver(t, o)
         /\ op'[t].pc \in WaitPC => Blocked(t) /\ op'[t].on = op[t].on
<1>1. /\ Blocked(t) <=> op[t].pc \in WaitPC
      /\ op'[t].pc \in WaitPC <=> op[t].pc \in WaitPC
      /\ Blocked(t) => op'[t].on = op[t].on
  BY DEF Blocked, WaitPC, OpGoes
<1>2. CASE op[t].pc \in WaitPC
  BY <1>1, <1>2 DEF HandedOver, Blocked, WaitPC
<1>3. CASE op[t].pc \notin WaitPC
  BY <1>1, <1>3 DEF HandedOver, Blocked, WaitPC
<1> QED BY <1>2, <1>3

LEMMA StillHands ==
  ASSUME Still, \A t \in Thread : OpGoes(t)
  PROVE  SameHands
<1>1. ASSUME NEW t \in Thread
      PROVE  /\ \A o \in Obj : HandedOver(t, o)' <=> HandedOver(t, o)
             /\ op'[t].pc \in WaitPC => Blocked(t) /\ op'[t].on = op[t].on
  <2>1. \A o \in Obj : Linked(k', t, Wait(o)) <=> Linked(k, t, Wait(o))
    BY DEF Still, Linked
  <2>2. k'.err[t] = k.err[t]
    BY DEF Still
  <2> QED BY <2>1, <2>2, OneHand
<1> QED BY <1>1 DEF SameHands

\* A thread that times out, or whose mutex is detached, is handed nothing.
LEMMA WakesHands ==
  ASSUME IpcInv, NEW w \in Thread, NEW e, e # "EOK", Wakes(w, e), op'[w] = op[w],
         \A t \in Thread : OpGoes(t)
  PROVE  SameHands
<1>0. k.err \in [Thread -> Err] /\ k.stat[w] = "SUSPEND"
  BY DEF IpcInv, IpcTypeOK, KState, Wakes
<1>1. ASSUME NEW t \in Thread, t # w
      PROVE  /\ \A o \in Obj : HandedOver(t, o)' <=> HandedOver(t, o)
             /\ op'[t].pc \in WaitPC => Blocked(t) /\ op'[t].on = op[t].on
  <2>1. \A o \in Obj : Linked(k', t, Wait(o)) <=> Linked(k, t, Wait(o))
    BY <1>1 DEF Wakes, Woke
  <2>2. k'.err[t] = k.err[t]
    BY <1>0, <1>1 DEF Wakes
  <2> QED BY <2>1, <2>2, OneHand
<1>2. \A o \in Obj : ~HandedOver(w, o)
  BY <1>0 DEF IpcInv, CallerOK, HandedOver
<1>3. k'.err[w] = e
  BY <1>0 DEF Wakes
<1>4. \A o \in Obj : ~HandedOver(w, o)'
  BY <1>3 DEF HandedOver
<1>5. op'[w].pc \in WaitPC => Blocked(w) /\ op'[w].on = op[w].on
  BY DEF Blocked, WaitPC
<1> QED BY <1>1, <1>2, <1>4, <1>5 DEF SameHands

\* Nothing happens to the mutexes.
LEMMA BeliefKept ==
  ASSUME MutexInv, SameHands, m' = m, held' = held,
         \A o \in Obj : k.list[Wait(o)] = <<>> => k'.list[Wait(o)] = <<>>,
         \A o \in alive : m[o].owner # NoThread => o \in alive'
  PROVE  MutexType' /\ (\A o \in Obj : Shape(o)') /\ \A c \in Thread, o \in Obj : Belief(c, o)'
<1>1. MutexType'
  BY DEF MutexInv, MutexType
<1>2. ASSUME NEW o \in Obj PROVE Shape(o)'
  <2>1. User \subseteq Thread /\ NoThread \notin Thread
    BY MutexConstants DEF User
  <2> QED BY <2>1 DEF MutexInv, Shape, Waiters
<1>3. ASSUME NEW c \in Thread, NEW o \in Obj PROVE Belief(c, o)'
  <2>1. Belief(c, o)
    BY DEF MutexInv
  <2>2. HandedOver(c, o)' <=> HandedOver(c, o)
    BY DEF SameHands
  <2>3. Blocked(c)' /\ op'[c].on = o => Blocked(c) /\ op[c].on = o
    BY DEF SameHands, Blocked, WaitPC
  <2> QED BY <2>1, <2>2, <2>3 DEF Belief
<1> QED BY <1>1, <1>2, <1>3

\* A step of the owner, or of the thread that becomes the owner, of o: x is the
\* new mutex and n what c believes.
OwnStep(c, o, x, n) ==
  /\ SameHands /\ ~Blocked(c) /\ m[o].owner \in {c, NoThread}
  /\ x \in Mutex /\ m' = [m EXCEPT ![o] = x]
  /\ n \in 0 .. HoldMax /\ held' = [held EXCEPT ![c][o] = n]
  /\ \/ x.owner = c /\ n > 0 /\ x.hold = n /\ x.value = 0 /\ x.orig \in Prio
     \/ x = Free /\ n = 0 /\ k'.list[Wait(o)] = <<>>
  /\ o \in alive /\ alive' = alive
  /\ \A y \in Obj : k'.list[Wait(y)] = k.list[Wait(y)]

LEMMA BeliefOn ==
  ASSUME MutexInv, NEW c \in User, NEW o \in Obj, NEW x, NEW n, OwnStep(c, o, x, n)
  PROVE  MutexType' /\ (\A y \in Obj : Shape(y)') /\ \A t \in Thread, y \in Obj : Belief(t, y)'
<1>0. c \in Thread /\ NoThread \notin Thread /\ User \subseteq Thread /\ x.owner \in {c, NoThread}
  BY MutexConstants DEF User, OwnStep, Free
<1>1. MutexType /\ (\A y \in Obj : Shape(y)) /\ \A t \in Thread, y \in Obj : Belief(t, y)
  BY DEF MutexInv
<1>2. MutexType'
  BY <1>0, <1>1 DEF MutexType, OwnStep
<1>3. m'[o] = x /\ \A y \in Obj : y # o => m'[y] = m[y]
  BY <1>1 DEF MutexType, OwnStep
<1>4. /\ held'[c][o] = n
      /\ \A t \in Thread, y \in Obj : t # c \/ y # o => held'[t][y] = held[t][y]
  BY <1>0, <1>1 DEF MutexType, OwnStep
<1>5. \A t \in Thread : ~HandedOver(t, o)
  BY <1>0, <1>1 DEF Belief, HandedOver, OwnStep
<1>6. ASSUME NEW y \in Obj PROVE Shape(y)'
  <2>1. CASE y = o
    BY <1>0, <1>3, <2>1 DEF Shape, Waiters, OwnStep
  <2>2. CASE y # o
    BY <1>1, <1>3, <2>2 DEF Shape, Waiters, OwnStep
  <2> QED BY <2>1, <2>2
<1>7. ASSUME NEW t \in Thread, NEW y \in Obj PROVE Belief(t, y)'
  <2>1. HandedOver(t, y)' <=> HandedOver(t, y)
    BY DEF OwnStep, SameHands
  <2>2. Blocked(t)' /\ op'[t].on = y => Blocked(t) /\ op[t].on = y
    BY DEF OwnStep, SameHands, Blocked, WaitPC
  <2>3. Belief(t, y)
    BY <1>1
  <2>4. CASE y # o
    BY <1>3, <1>4, <2>1, <2>2, <2>3, <2>4 DEF Belief
  <2>5. CASE y = o /\ t # c
    <3>1. held[t][o] = 0
      <4>1. held[t][o] \in 0 .. HoldMax /\ m[o].owner # t
        BY <1>0, <1>1, <2>5 DEF MutexType, OwnStep
      <4> QED BY <2>3, <2>5, <4>1, MutexConstants DEF Belief
    <3>2. held'[t][o] = 0 /\ m'[o].owner # t
      BY <1>0, <1>3, <1>4, <2>5, <3>1
    <3> QED BY <1>5, <2>1, <2>5, <3>2 DEF Belief
  <2>6. CASE y = o /\ t = c
    <3>1. n > 0 => x.owner = c /\ x.hold = n
      BY DEF OwnStep
    <3>2. x.owner = c => n = x.hold
      BY <1>0 DEF OwnStep, Free
    <3>3. ~Blocked(c)
      BY DEF OwnStep
    <3> QED BY <1>3, <1>4, <1>5, <2>1, <2>2, <2>6, <3>1, <3>2, <3>3 DEF Belief
  <2> QED BY <2>4, <2>5, <2>6
<1> QED BY <1>2, <1>6, <1>7
-----------------------------------------------------------------------------
(* What is lent and paid back *)

Owned(t) == \E o \in Obj : m[o].owner = t

OneOwned == \A o, x \in Obj : m[o].owner # NoThread /\ m[o].owner = m[x].owner => o = x

OrigIs == \A o \in Obj : m[o].owner # NoThread => m[o].orig = InitPrio[m[o].owner]

\* a thread that waits has nothing that another one could wait for
WaitersOwnNothing ==
  \A o, x \in Obj : m[o].owner # NoThread => ~Linked(k, m[o].owner, Wait(x))

Inherited ==
  \A o \in Obj : Flag[o] = "PRIO" /\ m[o].owner # NoThread =>
    \A t \in Range(k.list[Wait(o)]) : k.prio[m[o].owner] <= k.prio[t]

PrioInv == OneOwned /\ OrigIs /\ WaitersOwnNothing /\ InOrder /\ PriorityRestored /\ Inherited

\* The owners and the priorities stay, and no suspend list gets a new thread.
LEMMA PrioKept ==
  ASSUME PrioInv, \A o \in Obj : m'[o].owner = m[o].owner /\ m'[o].orig = m[o].orig,
         k'.prio = k.prio, InOrder',
         \A o \in Obj : Range(k'.list[Wait(o)]) \subseteq Range(k.list[Wait(o)])
  PROVE  PrioInv'
<1>1. OneOwned' /\ OrigIs'
  BY DEF PrioInv, OneOwned, OrigIs
<1>2. WaitersOwnNothing'
  BY DEF PrioInv, WaitersOwnNothing, Linked
<1>3. PriorityRestored'
  BY DEF PrioInv, PriorityRestored
<1>4. Inherited'
  BY DEF PrioInv, Inherited
<1> QED BY <1>1, <1>2, <1>3, <1>4 DEF PrioInv

\* Nothing happens to the mutexes while a thread runs, or wakes up.
LEMMA MutexStill ==
  ASSUME MutexInv, IpcInv', DetachInv', Still, SameHands, m' = m, held' = held,
         \A o \in alive : m[o].owner # NoThread => o \in alive'
  PROVE  MutexInv' /\ (PrioInv => PrioInv')
<1>1. \A o \in Obj : k'.list[Wait(o)] = k.list[Wait(o)]
  BY DEF Still
<1>2. MutexInv'
  BY <1>1, BeliefKept DEF MutexInv
<1>3. ASSUME PrioInv PROVE PrioInv'
  <2>1. InOrder'
    BY <1>3, StillOrder DEF PrioInv
  <2> QED BY <1>1, <1>3, <2>1, PrioKept DEF Still
<1> QED BY <1>2, <1>3

LEMMA MutexWakes ==
  ASSUME MutexInv, IpcInv', DetachInv', NEW w \in Thread, NEW e, Wakes(w, e), SameHands,
         m' = m, held' = held, alive' = alive
  PROVE  MutexInv' /\ (PrioInv => PrioInv')
<1>0. IpcInv /\ \A o \in Obj : k.list[Wait(o)] \in Seq(Thread)
  BY HeadFacts DEF MutexInv, IpcInv, IpcTypeOK, KState
<1>1. \A o \in Obj : k'.list[Wait(o)] = RemoveFirst(k.list[Wait(o)], w)
  BY DEF Wakes
<1>2. \A o \in Obj : k.list[Wait(o)] = <<>> => k'.list[Wait(o)] = <<>>
  <2>1. w \notin Range(<<>>)
    BY DEF Range
  <2> QED BY <1>0, <1>1, <2>1, RemoveAbsent
<1>3. MutexInv'
  BY <1>2, BeliefKept DEF MutexInv
<1>4. ASSUME PrioInv PROVE PrioInv'
  <2>1. InOrder'
    BY <1>0, <1>4, WakesOrder DEF PrioInv
  <2>2. \A o \in Obj : Range(k'.list[Wait(o)]) \subseteq Range(k.list[Wait(o)])
    <3>1. \A o \in Obj : k'.list[Wait(o)] \in Seq(Thread)
      BY HeadFacts DEF IpcInv, IpcTypeOK, KState
    <3>2. \A o \in Obj : Range(k'.list[Wait(o)]) \subseteq Thread
      BY <3>1 DEF Range
    <3>3. \A t \in Thread, o \in Obj : Linked(k', t, Wait(o)) => Linked(k, t, Wait(o))
      BY DEF Wakes, Woke
    <3> QED BY <3>2, <3>3 DEF Linked
  <2> QED BY <1>4, <2>1, <2>2, PrioKept DEF Wakes
<1> QED BY <1>3, <1>4
-----------------------------------------------------------------------------
(* The steps of rt_mutex_take *)

\* The caller's error is set and nothing else of the kernel changes.
LEMMA ErrStep ==
  ASSUME IpcInv, DetachInv, NEW c \in User, At(c, "run"), NEW e \in Err,
         k' = [k EXCEPT !.err[c] = e], op' = op, alive' = alive
  PROVE  /\ IpcInv' /\ DetachInv' /\ SameHands /\ ~Blocked(c) /\ k'.prio = k.prio
         /\ \A o \in Obj : k'.list[Wait(o)] = k.list[Wait(o)]
         /\ k.stat[c] = "READY"
<1>0. c \in Thread /\ k.cur = c /\ op[c].pc = "run" /\ k.stat[c] = "READY" /\ Sane(k) /\ IpcTypeOK
  BY AtFacts DEF User
<1>1. k \in KState /\ k.err \in [Thread -> Err]
  BY <1>0 DEF IpcTypeOK, KState
<1>2. Woke(k, k', {})
  BY <1>0, SetErrWoke
<1>3. /\ k'.err = [k.err EXCEPT ![c] = e] /\ k'.list = k.list /\ k'.prio = k.prio
      /\ k'.cur = k.cur /\ k'.stat = k.stat /\ k'.timers = k.timers
  BY <1>1 DEF KState
<1>4. \A t \in Thread \ {c} : k'.err[t] = k.err[t]
  BY <1>0, <1>1, <1>3
<1>5. IpcInv'
  <2>1. OpType /\ alive' \subseteq Obj /\ \A t \in Thread : Moves(t)
    BY <1>0 DEF IpcTypeOK, OpType, Moves
  <2>2. \A t \in Thread : k.stat[t] = "SUSPEND" /\ t \notin {} => k'.err[t] = k.err[t]
    BY <1>0, <1>4
  <2> QED BY <1>0, <1>2, <1>3, <2>1, <2>2, WokeStep
<1>6. DetachInv'
  <2>1. IpcTypeOK'
    BY <1>5 DEF IpcInv
  <2> QED BY <1>0, <1>3, <2>1, DetachKept DEF Timed
<1>7. ~Blocked(c)
  BY <1>0 DEF Blocked
<1>8. SameHands
  <2>1. ASSUME NEW t \in Thread
        PROVE  /\ \A o \in Obj : HandedOver(t, o)' <=> HandedOver(t, o)
               /\ op'[t].pc \in WaitPC => Blocked(t) /\ op'[t].on = op[t].on
    <3>1. OpGoes(t) /\ (\A o \in Obj : Linked(k', t, Wait(o)) <=> Linked(k, t, Wait(o)))
      BY <1>3 DEF OpGoes, Linked
    <3>2. ~Blocked(t) \/ k'.err[t] = k.err[t]
      BY <1>4, <1>7
    <3> QED BY <3>1, <3>2, OneHand
  <2> QED BY <2>1 DEF SameHands
<1> QED BY <1>0, <1>3, <1>5, <1>6, <1>7, <1>8

LEMMA ErrType == {"EOK", "ETIMEOUT", "ERROR", "EINTR"} \subseteq Err
BY DEF Err

\* The lists and the priorities stay; the owners do not change.
LEMMA PrioSame ==
  ASSUME PrioInv, \A o \in Obj : m'[o].owner = m[o].owner /\ m'[o].orig = m[o].orig,
         k'.prio = k.prio, \A o \in Obj : k'.list[Wait(o)] = k.list[Wait(o)]
  PROVE  PrioInv'
<1>1. InOrder'
  BY DEF PrioInv, InOrder
<1> QED BY <1>1, PrioKept

LEMMA TakeNestedStep ==
  ASSUME MutexInv, NEW c \in User, NEW o \in Obj, TakeNested(c, o)
  PROVE  MutexInv' /\ (PrioInv => PrioInv')
<1>0. /\ At(c, "run") /\ o \in alive /\ m[o].owner = c /\ m[o].hold < HoldMax
      /\ m' = [m EXCEPT ![o].hold = @ + 1] /\ k' = [k EXCEPT !.err[c] = "EOK"]
      /\ held' = [held EXCEPT ![c][o] = @ + 1] /\ op' = op /\ alive' = alive
      /\ c \in Thread /\ NoThread \notin Thread
  BY MutexConstants DEF TakeNested, Hold, User
<1>1. /\ IpcInv' /\ DetachInv' /\ SameHands /\ ~Blocked(c) /\ k'.prio = k.prio
      /\ \A y \in Obj : k'.list[Wait(y)] = k.list[Wait(y)]
  BY <1>0, ErrType, ErrStep DEF MutexInv
<1>2. MutexType /\ Shape(o) /\ Belief(c, o)
  BY <1>0 DEF MutexInv
<1>3. /\ m[o] \in Mutex /\ m[o].value = 0 /\ m[o].orig \in Prio /\ m[o].hold \in 0 .. HoldMax
      /\ held[c][o] \in 0 .. HoldMax
  BY <1>0, <1>2 DEF MutexType, Shape, Free, Mutex
<1>4. held[c][o] = m[o].hold
  BY <1>0, <1>1, <1>2 DEF Belief, HandedOver
<1> DEFINE x == [m[o] EXCEPT !.hold = @ + 1]
           n == held[c][o] + 1
<1>5. n \in 0 .. HoldMax /\ n > 0
  BY <1>0, <1>3, <1>4, MutexConstants
<1>6. x \in Mutex /\ x.owner = c /\ x.orig = m[o].orig /\ x.value = 0 /\ x.hold = n
  BY <1>0, <1>3, <1>4, <1>5 DEF Mutex
<1>7. m' = [m EXCEPT ![o] = x] /\ held' = [held EXCEPT ![c][o] = n]
  BY <1>0, <1>2 DEF MutexType
<1> HIDE DEF x, n
<1>8. MutexInv'
  <2>1. OwnStep(c, o, x, n)
    BY <1>0, <1>1, <1>3, <1>5, <1>6, <1>7 DEF OwnStep
  <2>2. MutexType' /\ (\A y \in Obj : Shape(y)') /\ \A t \in Thread, y \in Obj : Belief(t, y)'
    BY <2>1, BeliefOn, Zenon
  <2> QED BY <1>1, <2>2 DEF MutexInv
<1>9. \A y \in Obj : m'[y].owner = m[y].owner /\ m'[y].orig = m[y].orig
  BY <1>0, <1>2, <1>6, <1>7 DEF MutexType
<1> QED BY <1>1, <1>8, <1>9, PrioSame

\* A thread that holds no mutex other than o owns none while it runs.
LEMMA OwnsNone ==
  ASSUME MutexInv, NEW c \in Thread, NEW o \in Obj, ~Blocked(c), OneMutex(c, o), m[o].owner # c
  PROVE  \A x \in Obj : m[x].owner # c
<1> SUFFICES ASSUME NEW x \in Obj, m[x].owner = c PROVE FALSE
  OBVIOUS
<1>1. x # o /\ held[c][x] = 0
  BY DEF OneMutex
<1>2. Shape(x) /\ Belief(c, x) /\ NoThread \notin Thread
  BY MutexConstants DEF MutexInv
<1>3. m[x].hold > 0
  BY <1>2 DEF Shape, Free
<1> QED BY <1>1, <1>2, <1>3 DEF Belief, HandedOver

LEMMA TakeFreeStep ==
  ASSUME MutexInv, NEW c \in User, NEW o \in Obj, TakeFree(c, o)
  PROVE  MutexInv' /\ (PrioInv /\ OneMutex(c, o) => PrioInv')
<1>0. /\ At(c, "run") /\ o \in alive /\ m[o].value > 0
      /\ m' = [m EXCEPT ![o] = Own(c, k.prio[c])] /\ k' = [k EXCEPT !.err[c] = "EOK"]
      /\ held' = [held EXCEPT ![c][o] = @ + 1] /\ op' = op /\ alive' = alive
      /\ c \in Thread /\ NoThread \notin Thread /\ User \subseteq Thread
  BY MutexConstants DEF TakeFree, Hold, User
<1>1. /\ IpcInv' /\ DetachInv' /\ SameHands /\ ~Blocked(c) /\ k'.prio = k.prio
      /\ \A y \in Obj : k'.list[Wait(y)] = k.list[Wait(y)]
      /\ k.stat[c] = "READY"
  BY <1>0, ErrType, ErrStep DEF MutexInv
<1>2. MutexType /\ Shape(o) /\ Belief(c, o) /\ Sane(k) /\ k \in KState
  BY <1>0 DEF MutexInv, IpcInv, IpcTypeOK
<1>3. m[o] = Free /\ Waiters(o) = <<>>
  BY <1>0, <1>2 DEF Shape
<1>4. m[o].owner = NoThread
  BY <1>3 DEF Free
<1>5. held[c][o] = 0
  <2>1. held[c][o] \in 0 .. HoldMax
    BY <1>0, <1>2 DEF MutexType
  <2> QED BY <1>0, <1>2, <1>4, <2>1, MutexConstants DEF Belief
<1> DEFINE x == Own(c, k.prio[c])
<1>6. k.prio[c] \in Prio
  BY <1>0, <1>2 DEF KState
<1>7. x \in Mutex /\ x.owner = c /\ x.orig = k.prio[c] /\ x.value = 0 /\ x.hold = 1
  BY <1>0, <1>6, MutexConstants DEF Mutex, Own
<1>8. m' = [m EXCEPT ![o] = x] /\ held' = [held EXCEPT ![c][o] = 1] /\ 1 \in 0 .. HoldMax
  BY <1>0, <1>2, <1>5, MutexConstants DEF MutexType
<1> HIDE DEF x
<1>9. MutexInv'
  <2>1. OwnStep(c, o, x, 1)
    <3>1. /\ x.owner = c /\ 1 > 0 /\ x.hold = 1 /\ x.value = 0 /\ x.orig \in Prio
          /\ m[o].owner \in {c, NoThread}
      BY <1>4, <1>6, <1>7
    <3> QED BY <1>0, <1>1, <1>7, <1>8, <3>1 DEF OwnStep
  <2>2. MutexType' /\ (\A y \in Obj : Shape(y)') /\ \A t \in Thread, y \in Obj : Belief(t, y)'
    BY <2>1, BeliefOn, Zenon
  <2> QED BY <1>1, <2>2 DEF MutexInv
<1>10. ASSUME PrioInv, OneMutex(c, o) PROVE PrioInv'
  <2>1. \A y \in Obj : m[y].owner # c
    BY <1>0, <1>1, <1>4, <1>10, OwnsNone
  <2>2. k.prio[c] = InitPrio[c]
    BY <1>0, <1>10, <2>1 DEF PrioInv, PriorityRestored
  <2>3. m'[o] = x /\ \A y \in Obj : y # o => m'[y] = m[y]
    BY <1>2, <1>8 DEF MutexType
  <2>4. OneOwned' /\ OrigIs'
    BY <1>7, <1>10, <2>1, <2>2, <2>3 DEF PrioInv, OneOwned, OrigIs
  <2>5. \A y \in Obj : ~Linked(k, c, Wait(y))
    BY <1>0, <1>1, <1>2, WaiterFacts DEF Sane
  <2>6. WaitersOwnNothing'
    BY <1>1, <1>7, <1>10, <2>3, <2>5 DEF PrioInv, WaitersOwnNothing, Linked
  <2>7. InOrder'
    BY <1>1, <1>10 DEF PrioInv, InOrder
  <2>8. PriorityRestored'
    <3>1. ASSUME NEW t \in Thread, \A y \in Obj : m'[y].owner # t
          PROVE  k'.prio[t] = InitPrio[t]
      <4>1. \A y \in Obj : m[y].owner # t
        BY <1>0, <1>4, <2>3, <3>1
      <4> QED BY <1>1, <1>10, <4>1 DEF PrioInv, PriorityRestored
    <3> QED BY <3>1 DEF PriorityRestored
  <2>9. Inherited'
    <3>1. Range(k.list[Wait(o)]) = {}
      BY <1>3 DEF Waiters, Range
    <3> QED BY <1>1, <1>10, <2>3, <3>1 DEF PrioInv, Inherited
  <2> QED BY <2>4, <2>6, <2>7, <2>8, <2>9 DEF PrioInv
<1> QED BY <1>9, <1>10

\* A step that sets the error of its caller and nothing else.
LEMMA OnlyErrStep ==
  ASSUME MutexInv, NEW c \in User, At(c, "run"), NEW e \in Err,
         k' = [k EXCEPT !.err[c] = e], op' = op, alive' = alive, m' = m, held' = held
  PROVE  MutexInv' /\ (PrioInv => PrioInv')
<1>1. /\ IpcInv' /\ DetachInv' /\ SameHands /\ k'.prio = k.prio
      /\ \A y \in Obj : k'.list[Wait(y)] = k.list[Wait(y)]
  BY ErrStep DEF MutexInv
<1>2. MutexInv'
  BY <1>1, BeliefKept DEF MutexInv
<1> QED BY <1>1, <1>2, PrioSame

\* the state s in which the caller blocks, after the owner w inherited its priority
Raised(s, c, w) ==
  /\ Woke(k, s, {}) /\ s.err = k.err /\ s.cur = k.cur
  /\ \A y \in Obj : s.list[Wait(y)] = k.list[Wait(y)]
  /\ \A t \in Thread : t # w => s.prio[t] = k.prio[t]
  /\ s.prio[w] <= k.prio[w] /\ s.prio[w] <= k.prio[c]

LEMMA RaiseFacts ==
  ASSUME IpcInv, NEW c \in Thread, NEW o \in Obj, m[o].owner \in User
  PROVE  Raised(Raise(k, c, o), c, m[o].owner)
<1> DEFINE w == m[o].owner
           s == Raise(k, c, o)
<1>0. w \in Thread /\ w # idle /\ Sane(k) /\ k.prio \in [Thread -> Prio]
  BY DEF User, IpcInv, IpcTypeOK, KState
<1>1. k.prio[c] \in Int /\ k.prio[w] \in Int /\ k.prio[c] \in Prio
  BY <1>0, KernelAssumption DEF Prio
<1>2. CASE k.prio[c] < k.prio[w]
  <2>1. s = ChangePriority(k, w, k.prio[c])
    BY <1>2 DEF Raise
  <2>2. Reprio(k, ChangePriority(k, w, k.prio[c]), w, k.prio[c])
    BY <1>0, <1>1, ChangePriorityWoke
  <2>3. Reprio(k, s, w, k.prio[c])
    BY <2>1, <2>2
  <2> HIDE DEF w, s
  <2>4. s.prio = [k.prio EXCEPT ![w] = k.prio[c]]
    BY <2>3 DEF Reprio
  <2>5. s.prio[w] = k.prio[c] /\ \A t \in Thread : t # w => s.prio[t] = k.prio[t]
    BY <1>0, <2>4
  <2>6. s.prio[w] <= k.prio[w] /\ s.prio[w] <= k.prio[c]
    BY <1>1, <1>2, <2>5
  <2>7. Raised(s, c, w)
    BY <2>3, <2>5, <2>6 DEF Raised, Reprio
  <2> QED BY <2>7 DEF s, w
<1>3. CASE ~(k.prio[c] < k.prio[w])
  <2>1. s = k
    BY <1>3 DEF Raise
  <2>2. Woke(k, k, {})
    BY <1>0, WokeNobody
  <2>3. k.prio[w] <= k.prio[w] /\ k.prio[w] <= k.prio[c]
    BY <1>1, <1>3
  <2>4. Raised(k, c, w)
    BY <2>2, <2>3 DEF Raised
  <2> QED BY <2>1, <2>4
<1> QED BY <1>2, <1>3

\* The order of a list is about the priorities of the threads in it.
LEMMA SortedAgree ==
  ASSUME NEW q, NEW pr, NEW ps, Sorted(q, pr), \A t \in Range(q) : ps[t] = pr[t]
  PROVE  Sorted(q, ps)
BY DEF Sorted, Range

LEMMA TakeWaitStep ==
  ASSUME MutexInv, NEW c \in User, NEW o \in Obj, NEW d \in Time, TakeWait(c, o, d)
  PROVE  MutexInv' /\ (PrioInv /\ OneMutex(c, o) => PrioInv')
<1> DEFINE w == m[o].owner
           s == Raise(k, c, o)
<1>0. /\ IpcInv /\ DetachInv /\ c \in Thread /\ At(c, "run") /\ o \in alive
      /\ w # c /\ m[o].value = 0
      /\ k' = Block(s, o, c, d) /\ Call(c, "wait_sched", o) /\ alive' = alive
      /\ m' = m /\ held' = held /\ NoThread \notin Thread /\ User \subseteq Thread
  BY MutexConstants DEF MutexInv, User, TakeWait
<1>1. d > 0 => d \in Nat
  <2>1. d = -1 \/ d \in 1 .. Half - 1
    BY IpcAssumption
  <2> QED BY <2>1
<1>2. /\ k.cur = c /\ k.stat[c] = "READY" /\ ~Blocked(c) /\ Sane(k)
      /\ \A x \in Obj : ~Linked(k, c, Wait(x))
  <2>1. k.cur = c /\ op[c].pc = "run" /\ k.stat[c] = "READY" /\ Sane(k)
    BY <1>0, AtFacts
  <2>2. \A x \in Obj : ~Linked(k, c, Wait(x))
    BY <1>0, <2>1, WaiterFacts DEF Sane
  <2> QED BY <2>1, <2>2 DEF Blocked
<1>3. MutexType /\ (\A y \in Obj : Shape(y)) /\ \A t \in Thread, y \in Obj : Belief(t, y)
  BY DEF MutexInv
<1>4. w \in User
  BY <1>0, <1>3 DEF Shape, Free
<1>5. Raised(s, c, w)
  BY <1>0, <1>4, RaiseFacts
<1> HIDE DEF s
<1>6. /\ IpcInv' /\ Slept(k, k', c, o)
      /\ \A x \in Obj : x # o => k'.list[Wait(x)] = k.list[Wait(x)]
      /\ k'.err = [k.err EXCEPT ![c] = "EOK"] /\ k'.prio = s.prio
      /\ Flag[o] = "PRIO" /\ Sorted(k.list[Wait(o)], s.prio) => Sorted(k'.list[Wait(o)], s.prio)
      /\ op'[c] = [pc |-> "wait_sched", on |-> o]
      /\ \A t \in Thread \ {c} : op'[t] = op[t]
  <2>1. /\ Woke(k, s, {}) /\ s.err = k.err /\ s.cur = k.cur
        /\ \A y \in Obj : s.list[Wait(y)] = k.list[Wait(y)]
    BY <1>5 DEF Raised
  <2> QED BY <1>0, <1>1, <1>2, <2>1, BlockStep
<1>7. DetachInv'
  <2>1. op'[c].pc \notin ResumePC \cup {"assert"}
    BY <1>6 DEF ResumePC
  <2> QED BY <1>0, <1>2, <1>6, <2>1, SleptDetach
<1>8. Linked(k', c, Wait(o)) /\ \A t \in Thread \ {c}, x \in Obj :
                                   Linked(k', t, Wait(x)) <=> Linked(k, t, Wait(x))
  BY <1>0, <1>6 DEF Slept
<1>9. ASSUME NEW t \in Thread, NEW y \in Obj
      PROVE  /\ HandedOver(t, y)' <=> HandedOver(t, y)
             /\ Blocked(t)' /\ op'[t].on = y => (Blocked(t) /\ op[t].on = y) \/ (t = c /\ y = o)
  <2>1. CASE t = c
    <3>1. ~HandedOver(t, y)
      BY <1>2, <2>1 DEF HandedOver
    <3>2. ~HandedOver(t, y)'
      BY <1>6, <1>8, <2>1 DEF HandedOver
    <3>3. op'[t].on = y => y = o
      BY <1>6, <2>1
    <3> QED BY <2>1, <3>1, <3>2, <3>3
  <2>2. CASE t # c
    <3>1. k.err \in [Thread -> Err]
      BY <1>0 DEF IpcInv, IpcTypeOK, KState
    <3>2. k'.err[t] = k.err[t] /\ op'[t] = op[t]
      BY <1>6, <2>2, <3>1
    <3> QED BY <1>8, <2>2, <3>2 DEF HandedOver, Blocked
  <2> QED BY <2>1, <2>2
<1>10. held[c][o] = 0
  <2>1. held[c][o] \in 0 .. HoldMax /\ Belief(c, o)
    BY <1>0, <1>3 DEF MutexType
  <2> QED BY <1>0, <2>1, MutexConstants DEF Belief
<1>11. MutexInv'
  <2>1. MutexType'
    BY <1>0, <1>3 DEF MutexType
  <2>2. ASSUME NEW y \in Obj PROVE Shape(y)'
    <3>1. Shape(y)
      BY <1>3
    <3>2. CASE y = o
      BY <1>0, <1>4, <3>1, <3>2 DEF Shape, Free
    <3>3. CASE y # o
      BY <1>0, <1>6, <3>1, <3>3 DEF Shape, Waiters
    <3> QED BY <3>2, <3>3
  <2>3. ASSUME NEW t \in Thread, NEW y \in Obj PROVE Belief(t, y)'
    <3>1. Belief(t, y)
      BY <1>3
    <3> QED BY <1>0, <1>9, <1>10, <3>1 DEF Belief
  <2> QED BY <1>6, <1>7, <2>1, <2>2, <2>3 DEF MutexInv
<1>12. ASSUME PrioInv, OneMutex(c, o) PROVE PrioInv'
  <2>1. \A y \in Obj : m[y].owner # c
    BY <1>0, <1>2, <1>12, OwnsNone
  <2>2. OneOwned' /\ OrigIs'
    BY <1>0, <1>12 DEF PrioInv, OneOwned, OrigIs
  <2>3. WaitersOwnNothing'
    <3> SUFFICES ASSUME NEW x \in Obj, NEW y \in Obj, m[x].owner # NoThread
                 PROVE  ~Linked(k', m[x].owner, Wait(y))
      BY <1>0 DEF WaitersOwnNothing
    <3>1. m[x].owner \in Thread \ {c}
      BY <1>3, <2>1, <1>0 DEF Shape, Free
    <3>2. ~Linked(k, m[x].owner, Wait(y))
      BY <1>12 DEF PrioInv, WaitersOwnNothing
    <3> QED BY <1>8, <3>1, <3>2
  <2>4. \A t \in Thread : t # w => k'.prio[t] = k.prio[t]
    BY <1>5, <1>6 DEF Raised
  <2>5. \A y \in Obj : w \notin Range(k.list[Wait(y)]) /\ Range(k.list[Wait(y)]) \subseteq Thread
    <3>1. \A y \in Obj : w \notin Range(k.list[Wait(y)])
      BY <1>0, <1>4, <1>12 DEF PrioInv, WaitersOwnNothing, Linked
    <3>2. \A y \in Obj : k.list[Wait(y)] \in Seq(Thread)
      BY <1>0, HeadFacts DEF IpcInv, IpcTypeOK, KState
    <3> QED BY <3>1, <3>2 DEF Range
  <2>6. \A y \in Obj : \A t \in Range(k.list[Wait(y)]) : k'.prio[t] = k.prio[t]
    BY <2>4, <2>5
  <2>7. InOrder'
    <3> SUFFICES ASSUME NEW y \in Obj, Flag[y] = "PRIO"
                 PROVE  Sorted(k'.list[Wait(y)], k'.prio)
      BY DEF InOrder
    <3>1. Sorted(k.list[Wait(y)], k.prio)
      BY <1>12 DEF PrioInv, InOrder
    <3>2. Sorted(k.list[Wait(y)], k'.prio)
      BY <2>6, <3>1, SortedAgree
    <3> QED BY <1>6, <3>2
  <2>8. PriorityRestored'
    <3> SUFFICES ASSUME NEW t \in Thread, \A y \in Obj : m[y].owner # t
                 PROVE  k'.prio[t] = InitPrio[t]
      BY <1>0 DEF PriorityRestored
    <3>1. t # w
      OBVIOUS
    <3> QED BY <1>12, <2>4, <3>1 DEF PrioInv, PriorityRestored
  <2>9. Inherited'
    <3> SUFFICES ASSUME NEW y \in Obj, Flag[y] = "PRIO", m[y].owner # NoThread,
                        NEW t \in Range(k'.list[Wait(y)])
                 PROVE  k'.prio[m[y].owner] <= k'.prio[t]
      BY <1>0 DEF Inherited
    <3>1. t \in Thread
      <4>1. k'.list[Wait(y)] \in Seq(Thread)
        BY <1>6, HeadFacts DEF IpcInv, IpcTypeOK, KState
      <4> QED BY <4>1 DEF Range
    <3>2. m[y].owner \in Thread
      BY <1>0, <1>3 DEF Shape, Free
    <3>3. k.prio \in [Thread -> Prio] /\ Prio \subseteq Int /\ k'.prio \in [Thread -> Prio]
      <4>1. k.prio \in [Thread -> Prio] /\ k'.prio \in [Thread -> Prio]
        BY <1>0, <1>6 DEF IpcInv, IpcTypeOK, KState
      <4>2. Prio \subseteq Int
        BY KernelAssumption DEF Prio
      <4> QED BY <4>1, <4>2
    <3>4. CASE t = c
      <4>1. y = o
        BY <1>2, <1>6, <3>4 DEF Linked
      <4>2. k'.prio[w] <= k.prio[c] /\ k'.prio[c] = k.prio[c]
        BY <1>0, <1>5, <1>6, <2>4 DEF Raised
      <4> QED BY <3>4, <4>1, <4>2
    <3>5. CASE t # c
      <4>1. t \in Range(k.list[Wait(y)])
        BY <1>8, <3>1, <3>5 DEF Linked
      <4>2. k.prio[m[y].owner] <= k.prio[t] /\ k'.prio[t] = k.prio[t]
        BY <1>12, <2>6, <4>1 DEF PrioInv, Inherited
      <4>3. k'.prio[m[y].owner] <= k.prio[m[y].owner]
        <5>1. CASE m[y].owner = w
          BY <1>5, <1>6, <5>1 DEF Raised
        <5>2. CASE m[y].owner # w
          <6>1. k'.prio[m[y].owner] = k.prio[m[y].owner] /\ k.prio[m[y].owner] \in Int
            BY <2>4, <3>2, <3>3, <5>2
          <6> QED BY <6>1
        <5> QED BY <5>1, <5>2
      <4>4. /\ k'.prio[m[y].owner] \in Int /\ k.prio[m[y].owner] \in Int
            /\ k.prio[t] \in Int
        BY <3>1, <3>2, <3>3
      <4> QED BY <4>2, <4>3, <4>4
    <3> QED BY <3>4, <3>5
  <2> QED BY <2>2, <2>3, <2>7, <2>8, <2>9 DEF PrioInv
<1> QED BY <1>11, <1>12

\* The call returns: who was handed the mutex now knows.
LEMMA TakeReturnStep ==
  ASSUME MutexInv, NEW c \in User, TakeReturn(c)
  PROVE  MutexInv' /\ (PrioInv => PrioInv')
<1> DEFINE o == op[c].on
<1>0. /\ IpcInv /\ DetachInv /\ c \in Thread /\ At(c, "wait_return") /\ Call(c, "run", NoObj)
      /\ k' = k /\ alive' = alive /\ m' = m /\ NoThread \notin Thread
      /\ IF k.err[c] = "EOK" THEN held' = [held EXCEPT ![c][o] = @ + 1] ELSE held' = held
  BY MutexConstants DEF MutexInv, User, TakeReturn, Return, Hold
<1>1. /\ k.cur = c /\ k.stat[c] = "READY" /\ Sane(k) /\ op[c].pc = "wait_return"
      /\ o \in Obj /\ IpcTypeOK
  <2>1. "wait_return" \in WaitPC /\ "wait_return" \notin {"wait_sched", "sleep_sched"}
    BY DEF WaitPC
  <2> QED BY <1>0, <2>1, AtFacts
<1>2. /\ OpType /\ op'[c].pc = "run" /\ op'[c].on = NoObj
      /\ \A t \in Thread \ {c} : op'[t] = op[t]
  BY <1>0, <1>1, CallFacts DEF IpcPC
<1>3. IpcInv' /\ Still
  <2>1. alive' \subseteq Obj
    BY <1>0, <1>1 DEF IpcTypeOK
  <2> QED BY <1>0, <1>1, <1>2, <2>1, GoesOn DEF WaitPC
<1>4. DetachInv'
  BY <1>0, <1>2, <1>3, StillDetach DEF ResumePC
<1>5. ~Linked(k, c, Wait(o))
  BY <1>0, <1>1, WaiterFacts DEF Sane
<1> HIDE DEF o
<1>6. \A y \in Obj : HandedOver(c, y) <=> y = o /\ k.err[c] = "EOK"
  BY <1>1, <1>5 DEF HandedOver, Blocked, o
<1>7. \A y \in Obj : ~HandedOver(c, y)'
  BY <1>2 DEF HandedOver, Blocked
<1>8. \A t \in Thread \ {c}, y \in Obj : HandedOver(t, y)' <=> HandedOver(t, y)
  BY <1>0, <1>2 DEF HandedOver, Blocked
<1>9. MutexType /\ (\A y \in Obj : Shape(y)) /\ (\A t \in Thread, y \in Obj : Belief(t, y))
  BY DEF MutexInv
<1>10. held[c][o] = 0
  BY <1>0, <1>1, <1>9 DEF Belief, Blocked, o
<1>11. IF k.err[c] = "EOK" THEN held' = [held EXCEPT ![c][o] = 1] ELSE held' = held
  BY <1>0, <1>1, <1>9, <1>10 DEF MutexType, o
<1>12. MutexType'
  BY <1>0, <1>9, <1>11, MutexConstants DEF MutexType
<1>13. /\ k.err[c] = "EOK" => held'[c][o] = 1
       /\ \A t \in Thread, y \in Obj : t # c \/ y # o \/ k.err[c] # "EOK" => held'[t][y] = held[t][y]
  BY <1>0, <1>1, <1>9, <1>11 DEF MutexType
<1>14. ASSUME NEW t \in Thread, NEW y \in Obj PROVE Belief(t, y)'
  <2>0. Belief(t, y)
    BY <1>9
  <2>1. CASE t # c
    BY <1>0, <1>2, <1>8, <1>13, <2>0, <2>1 DEF Belief, Blocked
  <2>2. CASE t = c /\ (y # o \/ k.err[c] # "EOK")
    <3>1. ~HandedOver(c, y) /\ ~HandedOver(c, y)' /\ ~Blocked(c)' /\ held'[c][y] = held[c][y]
      BY <1>2, <1>6, <1>7, <1>13, <2>2 DEF Blocked
    <3> QED BY <1>0, <2>0, <2>2, <3>1 DEF Belief
  <2>3. CASE t = c /\ y = o /\ k.err[c] = "EOK"
    <3>1. HandedOver(c, y) /\ held'[c][y] = 1
      BY <1>6, <1>13, <2>3
    <3>2. ~HandedOver(c, y)' /\ ~Blocked(c)'
      BY <1>2, <1>7 DEF Blocked
    <3> QED BY <1>0, <2>0, <2>3, <3>1, <3>2 DEF Belief
  <2> QED BY <2>1, <2>2, <2>3
<1>15. \A y \in Obj : Shape(y)'
  BY <1>0, <1>9 DEF Shape, Waiters
<1>16. MutexInv'
  BY <1>3, <1>4, <1>12, <1>14, <1>15 DEF MutexInv
<1>17. PrioInv => PrioInv'
  BY <1>0, PrioSame
<1> QED BY <1>16, <1>17
-----------------------------------------------------------------------------
(* The steps of rt_mutex_release *)

LEMMA ReleaseNestedStep ==
  ASSUME MutexInv, NEW c \in User, NEW o \in Obj, ReleaseNested(c, o)
  PROVE  MutexInv' /\ (PrioInv => PrioInv')
<1>0. /\ IpcInv /\ DetachInv /\ At(c, "run") /\ o \in alive /\ m[o].owner = c /\ m[o].hold > 1
      /\ m' = [m EXCEPT ![o].hold = @ - 1] /\ k' = k
      /\ held' = [held EXCEPT ![c][o] = @ + (-1)] /\ op' = op /\ alive' = alive
      /\ c \in Thread /\ NoThread \notin Thread
  BY MutexConstants DEF ReleaseNested, Hold, User, MutexInv
<1>1. Still /\ ~Blocked(c) /\ SameHands
  <2>1. Still
    BY <1>0, SameKernel
  <2>2. op[c].pc = "run"
    BY <1>0 DEF At
  <2>3. \A t \in Thread : OpGoes(t)
    BY <1>0 DEF OpGoes
  <2> QED BY <2>1, <2>2, <2>3, StillHands DEF Blocked
<1>2. IpcInv'
  BY <1>0 DEF IpcInv, IpcTypeOK, CallerOK, Blocked
<1>3. DetachInv'
  BY <1>0, <1>1, <1>2, StillDetach
<1>4. MutexType /\ Shape(o) /\ Belief(c, o)
  BY <1>0 DEF MutexInv
<1>5. /\ m[o] \in Mutex /\ m[o].value = 0 /\ m[o].orig \in Prio /\ m[o].hold \in 0 .. HoldMax
      /\ held[c][o] \in 0 .. HoldMax
  BY <1>0, <1>4 DEF MutexType, Shape, Free, Mutex
<1>6. held[c][o] = m[o].hold
  BY <1>0, <1>1, <1>4 DEF Belief, HandedOver
<1> DEFINE x == [m[o] EXCEPT !.hold = @ - 1]
           n == held[c][o] - 1
<1>7. n \in 0 .. HoldMax /\ n > 0
  BY <1>0, <1>5, <1>6, MutexConstants
<1>8. x \in Mutex /\ x.owner = c /\ x.orig = m[o].orig /\ x.value = 0 /\ x.hold = n
  BY <1>0, <1>5, <1>6, <1>7 DEF Mutex
<1>9. m' = [m EXCEPT ![o] = x] /\ held' = [held EXCEPT ![c][o] = n]
  <2>1. held[c][o] + (-1) = n
    BY <1>5
  <2> QED BY <1>0, <1>4, <2>1 DEF MutexType
<1> HIDE DEF x, n
<1>10. MutexInv'
  <2>1. OwnStep(c, o, x, n)
    BY <1>0, <1>1, <1>5, <1>7, <1>8, <1>9 DEF OwnStep
  <2>2. MutexType' /\ (\A y \in Obj : Shape(y)') /\ \A t \in Thread, y \in Obj : Belief(t, y)'
    BY <2>1, BeliefOn, Zenon
  <2> QED BY <1>2, <1>3, <2>2 DEF MutexInv
<1>11. \A y \in Obj : m'[y].owner = m[y].owner /\ m'[y].orig = m[y].orig
  BY <1>0, <1>4, <1>8, <1>9 DEF MutexType
<1> QED BY <1>0, <1>10, <1>11, PrioSame

\* the owner has the priority back with which it took the mutex
LEMMA RestoreFacts ==
  ASSUME IpcInv, NEW c \in User, NEW o \in Obj, m[o].orig \in Prio
  PROVE  Reprio(k, Restore(k, c, o), c, m[o].orig)
<1>0. c \in Thread /\ c # idle /\ Sane(k) /\ k.prio \in [Thread -> Prio]
  BY DEF User, IpcInv, IpcTypeOK, KState
<1>1. CASE m[o].orig # k.prio[c]
  BY <1>0, <1>1, ChangePriorityWoke DEF Restore
<1>2. CASE m[o].orig = k.prio[c]
  <2>1. Restore(k, c, o) = k
    BY <1>2 DEF Restore
  <2>2. Woke(k, k, {})
    BY <1>0, WokeNobody
  <2>3. k.prio = [k.prio EXCEPT ![c] = m[o].orig]
    BY <1>0, <1>2
  <2>4. Reprio(k, k, c, m[o].orig)
    BY <2>2, <2>3 DEF Reprio
  <2> QED BY <2>1, <2>4
<1> QED BY <1>1, <1>2

\* What the last release does to the priorities: of the threads that own a mutex
\* afterwards none has another priority than before.
LEMMA PrioReleased ==
  ASSUME MutexInv, PrioInv, NEW c \in User, NEW o \in Obj, m[o].owner = c,
         k'.prio = [k.prio EXCEPT ![c] = m[o].orig],
         \A y \in Obj : ~Linked(k, c, Wait(y)),
         \A y \in Obj : y # o => m'[y] = m[y]
  PROVE  /\ k'.prio[c] = InitPrio[c]
         /\ \A t \in Thread : t # c => k'.prio[t] = k.prio[t]
         /\ \A y \in Obj : y # o => m'[y].owner # c
         /\ \A y \in Obj : \A t \in Range(k.list[Wait(y)]) : t \in Thread /\ k'.prio[t] = k.prio[t]
<1>0. c \in Thread /\ k.prio \in [Thread -> Prio] /\ NoThread \notin Thread
  BY MutexConstants DEF User, MutexInv, IpcInv, IpcTypeOK, KState
<1>1. k'.prio[c] = InitPrio[c] /\ \A t \in Thread : t # c => k'.prio[t] = k.prio[t]
  BY <1>0 DEF PrioInv, OrigIs
<1>2. \A y \in Obj : y # o => m'[y].owner # c
  BY <1>0 DEF PrioInv, OneOwned
<1>3. \A y \in Obj : k.list[Wait(y)] \in Seq(Thread)
  BY HeadFacts DEF MutexInv, IpcInv, IpcTypeOK, KState
<1>4. \A y \in Obj : \A t \in Range(k.list[Wait(y)]) : t \in Thread /\ t # c
  BY <1>3 DEF Linked, Range
<1> QED BY <1>1, <1>2, <1>4

\* what rt_mutex_release finds in the last release
LEMMA ReleaseLastFacts ==
  ASSUME MutexInv, NEW c \in User, NEW o \in Obj, At(c, "run"), m[o].owner = c, m[o].hold = 1
  PROVE  /\ IpcInv /\ DetachInv /\ c \in Thread /\ NoThread \notin Thread /\ MutexType
         /\ k.cur = c /\ op[c].pc = "run" /\ k.stat[c] = "READY" /\ Sane(k) /\ IpcTypeOK
         /\ ~Blocked(c) /\ m[o].orig \in Prio /\ held[c][o] = 1
         /\ \A y \in Obj : ~Linked(k, c, Wait(y))
         /\ Reprio(k, Restore(k, c, o), c, m[o].orig)
<1>1. IpcInv /\ DetachInv /\ c \in Thread /\ NoThread \notin Thread /\ MutexType
  BY MutexConstants DEF MutexInv, User
<1>2. k.cur = c /\ op[c].pc = "run" /\ k.stat[c] = "READY" /\ Sane(k) /\ IpcTypeOK
  BY <1>1, AtFacts
<1>3. Shape(o) /\ Belief(c, o)
  BY <1>1 DEF MutexInv
<1>4. m[o].orig \in Prio
  BY <1>1, <1>3 DEF Shape, Free
<1>5. ~Blocked(c)
  BY <1>2 DEF Blocked
<1>6. held[c][o] = 1
  BY <1>3, <1>5 DEF Belief, HandedOver
<1>7. \A y \in Obj : ~Linked(k, c, Wait(y))
  BY <1>1, <1>2, WaiterFacts DEF Sane
<1> QED BY <1>1, <1>2, <1>4, <1>5, <1>6, <1>7, RestoreFacts

LEMMA ReleaseFreeStep ==
  ASSUME MutexInv, NEW c \in User, NEW o \in Obj, ReleaseLast(c, o), Waiters(o) = <<>>
  PROVE  MutexInv' /\ (PrioInv => PrioInv')
<1>0. /\ At(c, "run") /\ o \in alive /\ m[o].owner = c /\ m[o].hold = 1
      /\ m' = [m EXCEPT ![o] = Free] /\ k' = Restore(k, c, o) /\ op' = op /\ alive' = alive
      /\ held' = [held EXCEPT ![c][o] = @ + (-1)]
  BY DEF ReleaseLast, Hold
<1>1. /\ IpcInv /\ DetachInv /\ c \in Thread /\ NoThread \notin Thread /\ MutexType
      /\ k.cur = c /\ op[c].pc = "run" /\ k.stat[c] = "READY" /\ Sane(k) /\ IpcTypeOK
      /\ ~Blocked(c) /\ m[o].orig \in Prio /\ held[c][o] = 1
      /\ \A y \in Obj : ~Linked(k, c, Wait(y))
      /\ Reprio(k, k', c, m[o].orig)
  BY <1>0, ReleaseLastFacts
<1>2. /\ Woke(k, k', {}) /\ k'.err = k.err /\ k'.cur = k.cur
      /\ k'.prio = [k.prio EXCEPT ![c] = m[o].orig]
      /\ \A y \in Obj : k'.list[Wait(y)] = k.list[Wait(y)]
  BY <1>1 DEF Reprio
<1>3. IpcInv'
  <2>1. OpType /\ alive' \subseteq Obj /\ \A t \in Thread : Moves(t)
    BY <1>0, <1>1 DEF IpcTypeOK, OpType, Moves
  <2>2. \A t \in Thread : k.stat[t] = "SUSPEND" /\ t \notin {} => k'.err[t] = k.err[t]
    BY <1>2
  <2> QED BY <1>0, <1>1, <1>2, <2>1, <2>2, WokeStep
<1>4. DetachInv'
  <2>1. IpcTypeOK' /\ \A t : Timed(k', t) => Timed(k, t)
    BY <1>2, <1>3 DEF IpcInv, Woke, Timed
  <2>2. \A t \in Thread : Leaving(t) \subseteq Obj
    BY DEF Leaving
  <2> QED BY <1>0, <1>1, <1>2, <2>1, <2>2, DetachKept
<1>5. SameHands
  <2>1. ASSUME NEW t \in Thread
        PROVE  /\ \A y \in Obj : HandedOver(t, y)' <=> HandedOver(t, y)
               /\ op'[t].pc \in WaitPC => Blocked(t) /\ op'[t].on = op[t].on
    <3>1. OpGoes(t) /\ (\A y \in Obj : Linked(k', t, Wait(y)) <=> Linked(k, t, Wait(y)))
      BY <1>0, <1>2 DEF OpGoes, Linked
    <3> QED BY <1>2, <3>1, OneHand
  <2> QED BY <2>1 DEF SameHands
<1>6. Free \in Mutex /\ 0 \in 0 .. HoldMax
  BY MutexConstants DEF Free, Mutex
<1>7. held' = [held EXCEPT ![c][o] = 0]
  <2>1. held[c][o] + (-1) = 0
    BY <1>1
  <2> QED BY <1>0, <1>1, <2>1 DEF MutexType
<1>8. MutexInv'
  <2>1. OwnStep(c, o, Free, 0)
    BY <1>0, <1>1, <1>2, <1>5, <1>6, <1>7 DEF OwnStep, Waiters
  <2>2. MutexType' /\ (\A y \in Obj : Shape(y)') /\ \A t \in Thread, y \in Obj : Belief(t, y)'
    BY <2>1, BeliefOn, Zenon
  <2> QED BY <1>3, <1>4, <2>2 DEF MutexInv
<1>9. ASSUME PrioInv PROVE PrioInv'
  <2>1. m'[o].owner = NoThread /\ \A y \in Obj : y # o => m'[y] = m[y]
    BY <1>0, <1>1 DEF MutexType, Free
  <2>2. /\ k'.prio[c] = InitPrio[c]
        /\ \A t \in Thread : t # c => k'.prio[t] = k.prio[t]
        /\ \A y \in Obj : y # o => m'[y].owner # c
        /\ \A y \in Obj : \A t \in Range(k.list[Wait(y)]) : t \in Thread /\ k'.prio[t] = k.prio[t]
    BY <1>0, <1>1, <1>2, <1>9, <2>1, PrioReleased
  <2>3. OneOwned' /\ OrigIs'
    BY <1>9, <2>1 DEF PrioInv, OneOwned, OrigIs
  <2>4. WaitersOwnNothing'
    BY <1>2, <1>9, <2>1 DEF PrioInv, WaitersOwnNothing, Linked
  <2>5. InOrder'
    <3> SUFFICES ASSUME NEW y \in Obj, Flag[y] = "PRIO"
                 PROVE  Sorted(k'.list[Wait(y)], k'.prio)
      BY DEF InOrder
    <3>1. Sorted(k.list[Wait(y)], k.prio)
      BY <1>9 DEF PrioInv, InOrder
    <3>2. \A t \in Range(k.list[Wait(y)]) : k'.prio[t] = k.prio[t]
      BY <2>2
    <3>3. Sorted(k.list[Wait(y)], k'.prio)
      BY <3>1, <3>2, SortedAgree
    <3> QED BY <1>2, <3>3
  <2>6. PriorityRestored'
    <3> SUFFICES ASSUME NEW t \in Thread, \A y \in Obj : m'[y].owner # t
                 PROVE  k'.prio[t] = InitPrio[t]
      BY DEF PriorityRestored
    <3>1. CASE t = c
      BY <2>2, <3>1
    <3>2. CASE t # c
      <4>1. \A y \in Obj : m[y].owner # t
        BY <1>0, <2>1, <3>2
      <4> QED BY <1>9, <2>2, <3>2, <4>1 DEF PrioInv, PriorityRestored
    <3> QED BY <3>1, <3>2
  <2>7. Inherited'
    <3> SUFFICES ASSUME NEW y \in Obj, Flag[y] = "PRIO", m'[y].owner # NoThread,
                        NEW t \in Range(k'.list[Wait(y)])
                 PROVE  k'.prio[m'[y].owner] <= k'.prio[t]
      BY DEF Inherited
    <3>1. y # o /\ m'[y] = m[y]
      BY <2>1
    <3>2. m[y].owner \in Thread /\ m[y].owner # c
      <4>1. Shape(y) /\ User \subseteq Thread
        BY DEF MutexInv, User
      <4> QED BY <2>2, <3>1, <4>1 DEF Shape, Free
    <3>3. k.prio[m[y].owner] <= k.prio[t]
      BY <1>2, <1>9, <3>1 DEF PrioInv, Inherited
    <3> QED BY <1>2, <2>2, <3>1, <3>2, <3>3
  <2> QED BY <2>3, <2>4, <2>5, <2>6, <2>7 DEF PrioInv
<1> QED BY <1>8, <1>9

\* The head of a list in order comes first.
LEMMA HeadLeast ==
  ASSUME NEW q \in Seq(Thread), q # <<>>, NEW pr \in [Thread -> Prio], Sorted(q, pr)
  PROVE  \A t \in Range(q) : pr[Head(q)] <= pr[t]
<1> SUFFICES ASSUME NEW t \in Range(q) PROVE pr[Head(q)] <= pr[t]
  OBVIOUS
<1>1. PICK i \in DOMAIN q : t = q[i]
  BY DEF Range
<1>2. i \in 1 .. Len(q) /\ Head(q) = q[1] /\ q[1] \in Thread /\ 1 \in DOMAIN q
  OBVIOUS
<1>3. CASE i = 1
  <2>1. pr[q[1]] \in Int
    BY <1>2, KernelAssumption DEF Prio
  <2> QED BY <1>1, <1>2, <1>3, <2>1
<1>4. CASE i # 1
  BY <1>1, <1>2, <1>4 DEF Sorted
<1> QED BY <1>3, <1>4

LEMMA HandOverStep ==
  ASSUME MutexInv, NEW c \in User, NEW o \in Obj, ReleaseLast(c, o), Waiters(o) # <<>>
  PROVE  MutexInv' /\ (PrioInv => PrioInv')
<1> DEFINE s == Restore(k, c, o)
<1>0. /\ At(c, "run") /\ o \in alive /\ m[o].owner = c /\ m[o].hold = 1
      /\ m' = [m EXCEPT ![o] = Own(Head(Waiters(o)), s.prio[Head(Waiters(o))])]
      /\ k' = IpcListResume(s, o) /\ Call(c, "sched", o) /\ alive' = alive
      /\ held' = [held EXCEPT ![c][o] = @ + (-1)]
  BY DEF ReleaseLast, Hold
<1>1. /\ IpcInv /\ DetachInv /\ c \in Thread /\ NoThread \notin Thread /\ MutexType
      /\ k.cur = c /\ op[c].pc = "run" /\ k.stat[c] = "READY" /\ Sane(k) /\ IpcTypeOK
      /\ ~Blocked(c) /\ m[o].orig \in Prio /\ held[c][o] = 1
      /\ \A y \in Obj : ~Linked(k, c, Wait(y))
      /\ Reprio(k, s, c, m[o].orig)
  BY <1>0, ReleaseLastFacts
<1> HIDE DEF s
<1>2. /\ Woke(k, s, {}) /\ s.err = k.err /\ s.cur = k.cur /\ Sane(s)
      /\ s.prio = [k.prio EXCEPT ![c] = m[o].orig]
      /\ \A y \in Obj : s.list[Wait(y)] = k.list[Wait(y)]
      /\ \A t \in Thread : s.stat[t] = k.stat[t]
  BY <1>1 DEF Reprio, Woke
<1>3. PICK w \in Thread : /\ w = Head(k.list[Wait(o)]) /\ Linked(k, w, Wait(o))
                          /\ k.stat[w] = "SUSPEND" /\ w # idle
  BY <1>1, HeadFactsOf DEF Waiters
<1>4. k' = Resume(s, w) /\ m' = [m EXCEPT ![o] = Own(w, s.prio[w])] /\ w # c /\ s.stat[w] = "SUSPEND"
  BY <1>0, <1>1, <1>2, <1>3 DEF IpcListResume, Waiters
<1>5. /\ Woke(s, k', {w})
      /\ \A y \in Obj : k'.list[Wait(y)] = RemoveFirst(s.list[Wait(y)], w)
      /\ k'.err = s.err /\ k'.prio = s.prio /\ k'.cur = s.cur
  <2> DEFINE u == Resume(s, w)
  <2>1. /\ Woke(s, u, {w})
        /\ \A y \in Obj : u.list[Wait(y)] = RemoveFirst(s.list[Wait(y)], w)
        /\ u.err = s.err /\ u.prio = s.prio /\ u.cur = s.cur
    BY <1>2, <1>4, ResumeWoke, Zenon
  <2> QED BY <1>4, <2>1
<1>6. /\ Woke(k, k', {w}) /\ k'.err = k.err /\ k'.cur = c
      /\ k'.prio = [k.prio EXCEPT ![c] = m[o].orig]
      /\ \A y \in Obj : k'.list[Wait(y)] = RemoveFirst(k.list[Wait(y)], w)
  <2>1. Woke(k, k', {} \cup {w})
    BY <1>2, <1>5, WokeTwice
  <2>2. {} \cup {w} = {w}
    OBVIOUS
  <2> QED BY <1>1, <1>2, <1>5, <2>1, <2>2
<1>7. /\ OpType /\ op'[c].pc = "sched" /\ op'[c].on = o
      /\ \A t \in Thread \ {c} : op'[t] = op[t]
  BY <1>0, <1>1, CallFacts DEF IpcPC
<1>8. IpcInv'
  <2>1. alive' \subseteq Obj /\ \A t \in Thread : Moves(t)
    BY <1>0, <1>1, <1>7 DEF IpcTypeOK, Moves, WaitPC, User
  <2>2. k'.stat[k'.cur] = "READY"
    BY <1>1, <1>6 DEF Woke
  <2> QED BY <1>1, <1>6, <1>7, <2>1, <2>2, WokeStep
<1>9. Blocked(w) /\ op[w].on = o /\ k.err[w] = "EOK"
  BY <1>1, <1>3 DEF IpcInv, CallerOK
<1>10. \A y \in Obj : y # o => k'.list[Wait(y)] = k.list[Wait(y)]
  <2> SUFFICES ASSUME NEW y \in Obj, y # o PROVE k'.list[Wait(y)] = k.list[Wait(y)]
    OBVIOUS
  <2>1. ~Linked(k, w, Wait(y))
    BY <1>1, <1>3, OneWait
  <2>2. k.list[Wait(y)] \in Seq(Thread)
    BY <1>1, HeadFacts DEF IpcTypeOK, KState
  <2> QED BY <1>6, <2>1, <2>2, RemoveAbsent DEF Linked
<1>11. DetachInv'
  <2>1. \A t \in Thread : op'[t] = op[t] \/ op'[t].pc \notin ResumePC \cup {"assert"}
    BY <1>7 DEF ResumePC
  <2>2. \A t \in Thread : o \notin Leaving(t) /\ Leaving(t) \subseteq Obj
    BY <1>0, <1>1 DEF DetachInv, Leaving
  <2>3. \A t \in Thread : \A x \in Leaving(t) : k'.list[Wait(x)] = k.list[Wait(x)]
    BY <1>10, <2>2
  <2>4. \A t : Timed(k', t) => Timed(k, t)
    BY <1>6 DEF Woke, Timed
  <2>5. IpcTypeOK'
    BY <1>8 DEF IpcInv
  <2> QED BY <1>0, <1>1, <2>1, <2>3, <2>4, <2>5, DetachKept
<1>12. /\ \A t \in Thread, y \in Obj : t # w => (HandedOver(t, y)' <=> HandedOver(t, y))
       /\ \A y \in Obj : HandedOver(w, y)' <=> y = o
       /\ \A t \in Thread : Blocked(t)' => Blocked(t) /\ op'[t].on = op[t].on
  <2>1. ASSUME NEW t \in Thread, t # w
        PROVE  /\ \A y \in Obj : HandedOver(t, y)' <=> HandedOver(t, y)
               /\ op'[t].pc \in WaitPC => Blocked(t) /\ op'[t].on = op[t].on
    <3>1. OpGoes(t)
      BY <1>1, <1>7 DEF OpGoes, WaitPC
    <3>2. \A y \in Obj : Linked(k', t, Wait(y)) <=> Linked(k, t, Wait(y))
      BY <1>6, <2>1 DEF Woke
    <3> QED BY <1>6, <3>1, <3>2, OneHand
  <2>2. op'[w] = op[w]
    BY <1>4, <1>7
  <2>3. ~Linked(k', w, Wait(o))
    BY <1>6 DEF Woke
  <2>4. \A y \in Obj : HandedOver(w, y)' <=> y = o
    BY <1>6, <1>9, <2>2, <2>3 DEF HandedOver, Blocked
  <2> QED BY <2>1, <2>2, <2>4 DEF Blocked, WaitPC
<1>13. held' = [held EXCEPT ![c][o] = 0]
  <2>1. held[c][o] + (-1) = 0
    BY <1>1
  <2> QED BY <1>0, <1>1, <2>1 DEF MutexType
<1>14. /\ held'[c][o] = 0
       /\ \A t \in Thread, y \in Obj : t # c \/ y # o => held'[t][y] = held[t][y]
  BY <1>1, <1>13 DEF MutexType
<1>15. /\ m'[o] = Own(w, k.prio[w]) /\ (\A y \in Obj : y # o => m'[y] = m[y])
       /\ k.prio[w] \in Prio /\ k.prio \in [Thread -> Prio]
  <2>1. k.prio \in [Thread -> Prio]
    BY <1>1 DEF IpcTypeOK, KState
  <2>2. s.prio[w] = k.prio[w]
    BY <1>2, <1>4, <2>1
  <2> QED BY <1>1, <1>4, <2>1, <2>2 DEF MutexType
<1>16. m'[o].owner = w /\ m'[o].hold = 1 /\ m'[o].value = 0 /\ m'[o].orig = k.prio[w]
  BY <1>15 DEF Own
<1>17. MutexInv'
  <2>1. MutexType'
    <3>1. Own(w, k.prio[w]) \in Mutex
      BY <1>15, MutexConstants DEF Own, Mutex
    <3>2. m' = [m EXCEPT ![o] = Own(w, k.prio[w])]
      BY <1>1, <1>4, <1>15 DEF MutexType
    <3> QED BY <1>1, <1>13, <3>1, <3>2, MutexConstants DEF MutexType
  <2>2. ASSUME NEW y \in Obj PROVE Shape(y)'
    <3>1. Shape(y)
      BY DEF MutexInv
    <3>2. CASE y = o
      BY <1>0, <1>3, <1>15, <1>16, <3>2 DEF Shape, User
    <3>3. CASE y # o
      BY <1>0, <1>10, <1>15, <3>1, <3>3 DEF Shape, Waiters
    <3> QED BY <3>2, <3>3
  <2>3. ASSUME NEW t \in Thread, NEW y \in Obj PROVE Belief(t, y)'
    <3>1. Belief(t, y)
      BY DEF MutexInv
    <3>2. Blocked(t)' /\ op'[t].on = y => Blocked(t) /\ op[t].on = y
      BY <1>12
    <3>3. CASE y # o
      <4>1. HandedOver(t, y)' <=> HandedOver(t, y)
        BY <1>9, <1>12, <3>3 DEF HandedOver
      <4> QED BY <1>14, <1>15, <3>1, <3>2, <3>3, <4>1 DEF Belief
    <3>4. CASE y = o /\ t = w
      <4>1. held[w][o] = 0 /\ held'[w][o] = 0
        BY <1>4, <1>9, <1>14, <3>1, <3>4 DEF Belief
      <4>2. HandedOver(t, y)'
        BY <1>12, <3>4
      <4> QED BY <1>16, <3>4, <4>1, <4>2 DEF Belief
    <3>5. CASE y = o /\ t # w
      <4>1. held'[t][o] = 0
        <5>1. CASE t = c
          BY <1>14, <5>1
        <5>2. CASE t # c
          <6>1. held[t][o] \in 0 .. HoldMax /\ m[o].owner # t
            BY <1>0, <1>1, <5>2 DEF MutexType
          <6>2. held[t][o] = 0
            BY <3>1, <3>5, <6>1, MutexConstants DEF Belief
          <6> QED BY <1>14, <5>2, <6>2
        <5> QED BY <5>1, <5>2
      <4>2. ~HandedOver(t, y)
        BY <1>0, <1>1, <3>1, <3>5 DEF Belief, HandedOver
      <4>3. ~HandedOver(t, y)'
        BY <1>12, <3>5, <4>2
      <4> QED BY <1>16, <3>5, <4>1, <4>3 DEF Belief
    <3> QED BY <3>3, <3>4, <3>5
  <2> QED BY <1>8, <1>11, <2>1, <2>2, <2>3 DEF MutexInv
<1>18. ASSUME PrioInv PROVE PrioInv'
  <2>1. /\ k'.prio[c] = InitPrio[c]
        /\ \A t \in Thread : t # c => k'.prio[t] = k.prio[t]
        /\ \A y \in Obj : y # o => m'[y].owner # c
        /\ \A y \in Obj : \A t \in Range(k.list[Wait(y)]) : t \in Thread /\ k'.prio[t] = k.prio[t]
    BY <1>0, <1>1, <1>6, <1>15, <1>18, PrioReleased
  <2>2. \A y \in Obj : m[y].owner # w
    BY <1>1, <1>3, <1>18 DEF PrioInv, WaitersOwnNothing
  <2>3. k.prio[w] = InitPrio[w]
    BY <1>18, <2>2 DEF PrioInv, PriorityRestored
  <2>4. OneOwned' /\ OrigIs'
    BY <1>15, <1>16, <1>18, <2>2, <2>3 DEF PrioInv, OneOwned, OrigIs
  <2>5. \A y \in Obj : Range(k'.list[Wait(y)]) \subseteq Range(k.list[Wait(y)])
    <3>1. \A y \in Obj : k'.list[Wait(y)] \in Seq(Thread)
      BY <1>8, HeadFacts DEF IpcInv, IpcTypeOK, KState
    <3>2. \A y \in Obj : Range(k'.list[Wait(y)]) \subseteq Thread
      BY <3>1 DEF Range
    <3>3. \A t \in Thread, y \in Obj : Linked(k', t, Wait(y)) => Linked(k, t, Wait(y))
      BY <1>6 DEF Woke
    <3> QED BY <3>2, <3>3 DEF Linked
  <2>6. WaitersOwnNothing'
    <3>1. \A y \in Obj : ~Linked(k', w, Wait(y))
      BY <1>6 DEF Woke
    <3>2. \A x, y \in Obj : m[x].owner # NoThread => ~Linked(k', m[x].owner, Wait(y))
      BY <1>18, <2>5 DEF PrioInv, WaitersOwnNothing, Linked
    <3> QED BY <1>15, <1>16, <3>1, <3>2 DEF WaitersOwnNothing
  <2>7. InOrder'
    <3> SUFFICES ASSUME NEW y \in Obj, Flag[y] = "PRIO"
                 PROVE  Sorted(k'.list[Wait(y)], k'.prio)
      BY DEF InOrder
    <3>1. Sorted(k.list[Wait(y)], k.prio)
      BY <1>18 DEF PrioInv, InOrder
    <3>2. \A t \in Range(k.list[Wait(y)]) : k'.prio[t] = k.prio[t]
      BY <2>1
    <3>3. Sorted(k.list[Wait(y)], k'.prio)
      BY <3>1, <3>2, SortedAgree
    <3>4. k.list[Wait(y)] \in Seq(Thread)
      BY <1>1, HeadFacts DEF IpcTypeOK, KState
    <3>5. Sorted(RemoveFirst(k.list[Wait(y)], w), k'.prio)
      BY <3>3, <3>4, SortedRemoveFirst
    <3> QED BY <1>6, <3>5
  <2>8. PriorityRestored'
    <3> SUFFICES ASSUME NEW t \in Thread, \A y \in Obj : m'[y].owner # t
                 PROVE  k'.prio[t] = InitPrio[t]
      BY DEF PriorityRestored
    <3>1. CASE t = c
      BY <2>1, <3>1
    <3>2. CASE t # c
      <4>1. \A y \in Obj : m[y].owner # t
        BY <1>0, <1>15, <3>2
      <4> QED BY <1>18, <2>1, <3>2, <4>1 DEF PrioInv, PriorityRestored
    <3> QED BY <3>1, <3>2
  <2>9. Inherited'
    <3> SUFFICES ASSUME NEW y \in Obj, Flag[y] = "PRIO", m'[y].owner # NoThread,
                        NEW t \in Range(k'.list[Wait(y)])
                 PROVE  k'.prio[m'[y].owner] <= k'.prio[t]
      BY DEF Inherited
    <3>1. t \in Range(k.list[Wait(y)]) /\ t \in Thread /\ k'.prio[t] = k.prio[t]
      BY <2>1, <2>5
    <3>2. CASE y # o
      <4>1. m'[y] = m[y] /\ m[y].owner # c
        BY <1>15, <2>1, <3>2
      <4>2. m[y].owner \in Thread
        <5>1. Shape(y) /\ User \subseteq Thread
          BY DEF MutexInv, User
        <5> QED BY <4>1, <5>1 DEF Shape, Free
      <4>3. k.prio[m[y].owner] <= k.prio[t]
        BY <1>18, <3>1, <4>1 DEF PrioInv, Inherited
      <4> QED BY <2>1, <3>1, <4>1, <4>2, <4>3
    <3>3. CASE y = o
      <4>1. k.list[Wait(o)] \in Seq(Thread) /\ k.list[Wait(o)] # <<>>
        BY <1>1, HeadFacts DEF IpcTypeOK, KState, Waiters
      <4>2. Sorted(k.list[Wait(o)], k.prio)
        BY <1>18, <3>3 DEF PrioInv, InOrder
      <4>3. k.prio[w] <= k.prio[t]
        BY <1>3, <1>15, <3>1, <3>3, <4>1, <4>2, HeadLeast
      <4>4. k'.prio[w] = k.prio[w]
        BY <1>4, <2>1
      <4> QED BY <1>16, <3>1, <3>3, <4>3, <4>4
    <3> QED BY <3>2, <3>3
  <2> QED BY <2>4, <2>6, <2>7, <2>8, <2>9 DEF PrioInv
<1> QED BY <1>17, <1>18
-----------------------------------------------------------------------------
(* The other steps *)

LEMMA SleepStep ==
  ASSUME MutexInv, NEW c \in User, Sleep(c), m' = m, held' = held
  PROVE  MutexInv' /\ (PrioInv => PrioInv')
<1>1. IpcInv' /\ DetachInv' /\ Apart(c)
  BY SleepInv DEF MutexInv
<1>2. /\ alive' = alive /\ k'.prio = k.prio
      /\ \A o \in Obj : k'.list[Wait(o)] = k.list[Wait(o)]
  BY <1>1 DEF Apart
<1>3. SameHands
  <2>1. ASSUME NEW t \in Thread
        PROVE  /\ \A o \in Obj : HandedOver(t, o)' <=> HandedOver(t, o)
               /\ op'[t].pc \in WaitPC => Blocked(t) /\ op'[t].on = op[t].on
    <3>1. OpGoes(t) /\ (~Blocked(t) \/ k'.err[t] = k.err[t])
      BY <1>1 DEF OpGoes, Apart
    <3>2. \A o \in Obj : Linked(k', t, Wait(o)) <=> Linked(k, t, Wait(o))
      BY <1>2 DEF Linked
    <3> QED BY <3>1, <3>2, OneHand
  <2> QED BY <2>1 DEF SameHands
<1>4. MutexInv'
  BY <1>1, <1>2, <1>3, BeliefKept DEF MutexInv
<1> QED BY <1>2, <1>4, PrioSame

LEMMA InitStep ==
  ASSUME MutexInv, NEW c \in User, NEW o \in Obj, rt_mutex_init(c, o)
  PROVE  MutexInv' /\ (PrioInv => PrioInv')
<1>0. /\ IpcInv /\ DetachInv /\ ObjInit(c, o) /\ o \notin alive
      /\ m' = [m EXCEPT ![o] = Free] /\ held' = held /\ MutexType /\ Shape(o)
  BY DEF MutexInv, rt_mutex_init, ObjInit
<1>1. IpcInv' /\ Still /\ op' = op /\ alive' = alive \cup {o}
  BY <1>0, ObjInv
<1>2. DetachInv'
  BY <1>0, <1>1, MutexAfter, ObjInitDetach
<1>3. m' = m
  BY <1>0 DEF Shape, MutexType
<1>4. SameHands
  BY <1>1, StillHands DEF OpGoes
<1> QED BY <1>0, <1>1, <1>2, <1>3, <1>4, MutexStill

LEMMA DetachOpStep ==
  ASSUME MutexInv, NEW c \in User, NEW o \in Obj, rt_mutex_detach(c, o)
  PROVE  MutexInv' /\ (PrioInv => PrioInv')
<1>0. /\ IpcInv /\ DetachInv /\ c \in Thread /\ ObjDetach(c, o) /\ ObjDetachAny(c, o)
      /\ At(c, "run") /\ m[o].owner = NoThread /\ m' = m /\ held' = held
  BY DEF MutexInv, User, rt_mutex_detach, ObjDetach, ObjDetachAny
<1>1. /\ IpcInv' /\ Still /\ op'[c] = [pc |-> "resume_test", on |-> o] /\ alive' = alive \ {o}
      /\ \A t \in Thread \ {c} : op'[t] = op[t]
  BY <1>0, ObjInv
<1>2. DetachInv'
  BY <1>0, <1>1, MutexAfter, ObjDetachInv
<1>3. ~Blocked(c) /\ op'[c].pc \notin WaitPC
  BY <1>0, <1>1 DEF At, Blocked, WaitPC
<1>4. SameHands
  BY <1>1, <1>3, StillHands DEF OpGoes
<1> QED BY <1>0, <1>1, <1>2, <1>4, MutexStill

\* The steps that a mutex shares with every other object.
LEMMA SharedStep ==
  ASSUME MutexInv, IpcNext, m' = m, held' = held
  PROVE  MutexInv' /\ (PrioInv => PrioInv')
<1>0. IpcInv /\ DetachInv
  BY DEF MutexInv
<1>1. ASSUME NEW c \in User, WaitSchedule(c) \/ SchedReturn(c)
      PROVE  MutexInv' /\ (PrioInv => PrioInv')
  <2>1. /\ IpcInv' /\ Still /\ alive' = alive /\ c \in Thread
        /\ \A t \in Thread \ {c} : op'[t] = op[t]
    BY <1>0, <1>1, SchedInv DEF User
  <2>2. IpcTypeOK
    BY <1>0 DEF IpcInv
  <2>3. \/ op[c].pc = "wait_sched" /\ op'[c].pc = "wait_return" /\ op'[c].on = op[c].on
        \/ op[c].pc = "sched" /\ op'[c].pc = "run"
    <3>1. "wait_return" \in IpcPC /\ "run" \in IpcPC
      BY DEF IpcPC
    <3>2. CASE WaitSchedule(c)
      BY <2>1, <2>2, <3>1, <3>2, GotoFacts DEF WaitSchedule, At
    <3>3. CASE SchedReturn(c)
      BY <2>1, <2>2, <3>1, <3>3, CallFacts DEF SchedReturn, At, Return
    <3> QED BY <1>1, <3>2, <3>3
  <2>4. \A t \in Thread : op'[t] = op[t] \/ op'[t].pc \notin ResumePC \cup {"assert"}
    BY <2>1, <2>3 DEF ResumePC
  <2>5. DetachInv'
    BY <1>0, <2>1, <2>4, StillDetach
  <2>6. SameHands
    BY <2>1, <2>3, StillHands DEF OpGoes, Blocked, WaitPC
  <2> QED BY <2>1, <2>5, <2>6, MutexStill
<1>2. ASSUME NEW c \in User, ResumeTest(c)
      PROVE  MutexInv' /\ (PrioInv => PrioInv')
  <2>1. /\ IpcInv' /\ DetachInv' /\ Still /\ alive' = alive /\ op'[c].pc \notin WaitPC /\ c \in Thread
        /\ \A t \in Thread \ {c} : op'[t] = op[t]
    BY <1>0, <1>2, MutexAfter, ResumeTestInv DEF User
  <2>2. ~Blocked(c)
    BY <1>2 DEF ResumeTest, At, Blocked
  <2>3. SameHands
    BY <2>1, <2>2, StillHands DEF OpGoes
  <2> QED BY <2>1, <2>3, MutexStill
<1>3. ASSUME NEW c \in User, ResumeOne(c)
      PROVE  MutexInv' /\ (PrioInv => PrioInv')
  <2>1. /\ IpcInv' /\ DetachInv' /\ c \in Thread /\ alive' = alive
        /\ \E t \in Thread : Wakes(t, "ERROR") /\ Linked(k, t, Wait(op[c].on))
        /\ op[c].pc = "resume_one" /\ op'[c].pc = "resume_test"
        /\ \A t \in Thread \ {c} : op'[t] = op[t]
    BY <1>0, <1>3, ResumeOneInv DEF User
  <2>2. PICK w \in Thread : Wakes(w, "ERROR") /\ Linked(k, w, Wait(op[c].on))
    BY <2>1
  <2>3. op[c].on \in Obj
    BY <1>0, <2>1 DEF DetachInv, ResumePC
  <2>4. w # c
    BY <1>0, <2>1, <2>2, <2>3 DEF IpcInv, CallerOK, Blocked
  <2>5. SameHands
    <3>1. \A t \in Thread : OpGoes(t)
      BY <2>1 DEF OpGoes, Blocked, WaitPC
    <3> QED BY <1>0, <2>1, <2>2, <2>4, <3>1, WakesHands
  <2> QED BY <2>1, <2>2, <2>5, MutexWakes
<1>4. ASSUME rt_tick_increase
      PROVE  MutexInv' /\ (PrioInv => PrioInv')
  <2>1. IpcInv' /\ Still /\ alive' = alive /\ op' = op
    BY <1>0, <1>4, TickInv
  <2>2. DetachInv'
    BY <1>0, <2>1, StillDetach
  <2>3. SameHands
    BY <2>1, StillHands DEF OpGoes
  <2> QED BY <2>1, <2>2, <2>3, MutexStill
<1>5. ASSUME rt_timer_check
      PROVE  MutexInv' /\ (PrioInv => PrioInv')
  <2>1. /\ IpcInv' /\ alive' = alive /\ op' = op
        /\ Still \/ \E t \in Thread : Timed(k, t) /\ Wakes(t, "ETIMEOUT")
    BY <1>0, <1>5, TimerInv
  <2>2. \A t \in Thread : OpGoes(t)
    BY <2>1 DEF OpGoes
  <2>3. CASE Still
    <3>1. DetachInv'
      BY <1>0, <2>1, <2>3, StillDetach
    <3>2. SameHands
      BY <2>2, <2>3, StillHands
    <3> QED BY <2>1, <2>3, <3>1, <3>2, MutexStill
  <2>4. CASE \E t \in Thread : Timed(k, t) /\ Wakes(t, "ETIMEOUT")
    <3>1. PICK w \in Thread : Timed(k, w) /\ Wakes(w, "ETIMEOUT")
      BY <2>4
    <3>2. DetachInv'
      BY <1>0, <2>1, <3>1, TimedDetach
    <3>3. SameHands
      BY <1>0, <2>1, <2>2, <3>1, WakesHands
    <3> QED BY <2>1, <3>1, <3>2, <3>3, MutexWakes
  <2> QED BY <2>1, <2>3, <2>4
<1> QED BY <1>1, <1>2, <1>3, <1>4, <1>5 DEF IpcNext
-----------------------------------------------------------------------------
(* The theorems *)

LEMMA MutexInit == Init => MutexInv /\ PrioInv
<1> SUFFICES ASSUME Init PROVE MutexInv /\ PrioInv
  OBVIOUS
<1>1. /\ IpcInv /\ DetachInv /\ (\A o \in Obj : Waiters(o) = <<>>) /\ k.prio = InitPrio
  BY StartInv DEF Init, IpcInit
<1>2. Free \in Mutex /\ 0 \in 0 .. HoldMax /\ Free.owner = NoThread /\ NoThread \notin Thread
  BY MutexConstants DEF Free, Mutex
<1>3. (\A o \in Obj : m[o] = Free) /\ \A c \in Thread, o \in Obj : held[c][o] = 0
  BY DEF Init
<1>4. MutexType
  BY <1>2 DEF Init, MutexType
<1>5. \A c \in Thread : ~Blocked(c)
  BY DEF Init, IpcInit, IpcStart, Blocked
<1>6. \A c \in Thread, o \in Obj : Belief(c, o)
  BY <1>2, <1>3, <1>5 DEF Belief, HandedOver
<1>7. MutexInv
  BY <1>1, <1>3, <1>4, <1>6 DEF MutexInv, Shape
<1>8. InOrder
  BY <1>1 DEF InOrder, Sorted, Waiters
<1>9. PrioInv
  BY <1>1, <1>2, <1>3, <1>8
     DEF PrioInv, OneOwned, OrigIs, WaitersOwnNothing, PriorityRestored, Inherited
<1> QED BY <1>7, <1>9

LEMMA ReleaseStep ==
  ASSUME MutexInv, NEW c \in User, NEW o \in Obj, Release(c, o)
  PROVE  MutexInv' /\ (PrioInv => PrioInv')
<1>1. CASE ReleaseNotOwner(c, o)
  BY <1>1, ErrType, OnlyErrStep DEF ReleaseNotOwner
<1>2. CASE ReleaseNested(c, o)
  BY <1>2, ReleaseNestedStep
<1>3. CASE ReleaseLast(c, o)
  BY <1>3, ReleaseFreeStep, HandOverStep
<1> QED BY <1>1, <1>2, <1>3 DEF Release

LEMMA TakeStep ==
  ASSUME MutexInv, NEW c \in User, NEW o \in Obj, Take(c, o)
  PROVE  MutexInv' /\ (PrioInv /\ OneMutex(c, o) => PrioInv')
<1>1. CASE TakeNested(c, o)
  BY <1>1, TakeNestedStep
<1>2. CASE TakeFree(c, o)
  BY <1>2, TakeFreeStep
<1>3. CASE TakeNoWait(c, o)
  BY <1>3, ErrType, OnlyErrStep DEF TakeNoWait
<1>4. CASE \E d \in Time : TakeWait(c, o, d)
  BY <1>4, TakeWaitStep
<1> QED BY <1>1, <1>2, <1>3, <1>4 DEF Take

LEMMA MutexNext == MutexInv /\ [Next]_vars => MutexInv' /\ (PrioInv => PrioInv')
<1> SUFFICES ASSUME MutexInv, [Next]_vars PROVE MutexInv' /\ (PrioInv => PrioInv')
  OBVIOUS
<1>1. CASE Next
  <2>1. ASSUME NEW c \in User, NEW o \in Obj,
               \/ OneMutex(c, o) /\ Take(c, o)
               \/ Release(c, o)
               \/ rt_mutex_init(c, o)
               \/ rt_mutex_detach(c, o)
        PROVE  MutexInv' /\ (PrioInv => PrioInv')
    BY <2>1, TakeStep, ReleaseStep, InitStep, DetachOpStep
  <2>2. ASSUME NEW c \in User, TakeReturn(c) PROVE MutexInv' /\ (PrioInv => PrioInv')
    BY <2>2, TakeReturnStep
  <2>3. ASSUME NEW c \in User, Sleep(c) /\ UNCHANGED <<m, held>>
        PROVE  MutexInv' /\ (PrioInv => PrioInv')
    BY <2>3, SleepStep
  <2>4. ASSUME IpcNext /\ UNCHANGED <<m, held>> PROVE MutexInv' /\ (PrioInv => PrioInv')
    BY <2>4, SharedStep
  <2> QED BY <1>1, <2>1, <2>2, <2>3, <2>4 DEF Next
<1>2. CASE UNCHANGED vars
  <2>1. k' = k /\ op' = op /\ alive' = alive /\ m' = m /\ held' = held
    BY <1>2 DEF vars
  <2>2. MutexInv'
    BY <2>1 DEF MutexInv, IpcInv, IpcTypeOK, CallerOK, Blocked, DetachInv, ResumeAllFindsWaiter,
                Leaving, Waiters, MutexType, Shape, Belief, HandedOver
  <2>3. PrioInv => PrioInv'
    BY <2>1, PrioSame
  <2> QED BY <2>2, <2>3
<1> QED BY <1>1, <1>2

\* With callers that hold several mutexes at a time.
LEMMA MutexNextNested == MutexInv /\ [NextNested]_vars => MutexInv'
<1> SUFFICES ASSUME MutexInv, [NextNested]_vars PROVE MutexInv'
  OBVIOUS
<1>1. ASSUME NEW c \in User, NEW o \in Obj, Take(c, o) PROVE MutexInv'
  BY <1>1, TakeStep
<1> QED BY <1>1, MutexNext DEF NextNested

\* The ownership invariant, for callers that hold any number of mutexes.
THEOREM MutexInvariance == SpecNested => []MutexInv
<1>1. Init => MutexInv
  BY MutexInit
<1> QED BY <1>1, MutexNextNested, PTL DEF SpecNested

LEMMA NestedCovers == Spec => SpecNested
<1>1. [Next]_vars => [NextNested]_vars
  BY DEF NextNested
<1> QED BY <1>1, PTL DEF Spec, SpecNested

\* MutexSound: rt_mutex_take and rt_mutex_release keep the kernel structures and
\* the fields of every mutex consistent, with inheritance, timeouts and nesting.
THEOREM MutexIsSound == SpecNested => []MutexSound
<1>1. MutexInv => MutexSound
  <2> SUFFICES ASSUME MutexInv PROVE MutexSound
    OBVIOUS
  <2>1. IpcTypeOK /\ KInv(k) /\ StaleBits(k) = {}
    BY DEF MutexInv, IpcInv, Sane
  <2>2. ASSUME NEW o \in Obj
        PROVE  \/ m[o] = Free /\ Waiters(o) = <<>>
               \/ m[o].value = 0 /\ m[o].owner # NoThread /\ m[o].hold > 0 /\ m[o].orig # NoPrio
    <3>1. Shape(o) /\ User \subseteq Thread
      BY DEF MutexInv, User
    <3> QED BY <3>1, MutexConstants DEF Shape
  <2>3. m \in [Obj -> Mutex] /\ held \in [Thread -> [Obj -> 0 .. HoldMax]]
    BY DEF MutexInv, MutexType
  <2> QED BY <2>1, <2>2, <2>3 DEF MutexSound
<1> QED BY <1>1, MutexInvariance, PTL

\* HolderIsOwner: a thread that rt_mutex_take told RT_EOK is the owner, and the
\* only one.
THEOREM HolderOwns == SpecNested => []HolderIsOwner
<1>1. MutexInv => HolderIsOwner
  BY DEF MutexInv, Belief, HolderIsOwner
<1> QED BY <1>1, MutexInvariance, PTL

\* OwnerIsHolder: rt_mutex_release does not hand a mutex to a thread whose call of
\* rt_mutex_take reports a timeout.
THEOREM OwnerHolds == SpecNested => []OwnerIsHolder
<1>1. MutexInv => OwnerIsHolder
  BY DEF MutexInv, Belief, OwnerIsHolder
<1> QED BY <1>1, MutexInvariance, PTL

\* The same and the priorities, for callers that hold one mutex at a time.
THEOREM PrioInvariance == Spec => [](MutexInv /\ PrioInv)
<1>1. Init => MutexInv /\ PrioInv
  BY MutexInit
<1>2. MutexInv /\ PrioInv /\ [Next]_vars => MutexInv' /\ PrioInv'
  BY MutexNext
<1> QED BY <1>1, <1>2, PTL DEF Spec

\* NoInversion: the owner of a mutex runs at the priority of its most urgent
\* waiter at least, whoever comes, times out or is handed the mutex.
THEOREM MutexNoInversion == Spec => []NoInversion
<1>1. MutexInv /\ PrioInv => NoInversion
  BY DEF MutexInv, IpcInv, IpcTypeOK, PrioInv, Inherited, NoInversion, Waiters
<1> QED BY <1>1, PrioInvariance, PTL

\* PriorityRestored: rt_mutex_release pays the loan back.
THEOREM MutexPriorityRestored == Spec => []PriorityRestored
<1>1. MutexInv /\ PrioInv => PriorityRestored
  BY DEF PrioInv
<1> QED BY <1>1, PrioInvariance, PTL
=============================================================================
