---------------------------- MODULE RtSemProofs ----------------------------
(***************************************************************************)
(* Theorems about the semaphores.  SemInv is inductive, and under it every *)
(* step of RtSem is a step of the counting semaphore of module Semaphore   *)
(* or leaves avail and call as they are.                                   *)
(***************************************************************************)
EXTENDS RtSem, RtIpcProofs

SemInv ==
  /\ IpcInv /\ DetachInv /\ InOrder
  /\ value \in [Obj -> 0 .. ValueMod - 1]
  /\ NoTokenStranded

\* the abstract state that the program's state stands for
ToldAll == [c \in Thread |-> Told(c)]
AbsStep == [Abstract!Next]_<<value, ToldAll>>
-----------------------------------------------------------------------------
(* A semaphore has one suspend list *)

LEMMA SemAfter == AfterOK /\ \A o \in Obj : After(o) = NoObj
BY SemAssumption DEF AfterOK, After

LEMMA NoObjAfter == \A o \in Obj : \A x \in Obj : After(x) # o
BY SemAfter, IpcAssumption
-----------------------------------------------------------------------------
(* What the abstract steps need *)

LEMMA AbsStutter ==
  ASSUME value' = value, \A t \in Thread : Told(t)' = Told(t)
  PROVE  AbsStep
BY DEF AbsStep, ToldAll

LEMMA AbsTake ==
  ASSUME NEW t \in Thread, NEW o \in Obj, Told(t) = <<"out">>, value[o] > 0,
         value' = [value EXCEPT ![o] = @ - 1], \A x \in Thread : Told(x)' = Told(x)
  PROVE  AbsStep
<1>1. ToldAll[t] = <<"out">> /\ ToldAll' = ToldAll
  BY DEF ToldAll
<1>2. Abstract!Take(t, o)
  BY <1>1 DEF Abstract!Take, Abstract!Out, ToldAll
<1> QED BY <1>2 DEF AbsStep, Abstract!Next

\* the call of one thread changes
LEMMA ToldOne ==
  ASSUME NEW t \in Thread, \A x \in Thread \ {t} : Told(x)' = Told(x)
  PROVE  /\ ToldAll' = [ToldAll EXCEPT ![t] = Told(t)']
         /\ ToldAll[t] = Told(t)
BY DEF ToldAll

LEMMA AbsBlock ==
  ASSUME NEW t \in Thread, NEW o \in Obj, Told(t) = <<"out">>, value[o] = 0,
         Told(t)' = <<"waiting", o>>, value' = value,
         \A x \in Thread \ {t} : Told(x)' = Told(x)
  PROVE  AbsStep
<1>1. Abstract!Block(t, o)
  BY ToldOne DEF Abstract!Block, Abstract!Out, Abstract!Wait, ToldAll
<1> QED BY <1>1 DEF AbsStep, Abstract!Next

LEMMA AbsReturn ==
  ASSUME NEW t \in Thread, Told(t) \in {<<"granted">>, <<"refused">>},
         Told(t)' = <<"out">>, value' = value, \A x \in Thread \ {t} : Told(x)' = Told(x)
  PROVE  AbsStep
<1>1. Abstract!Return(t)
  BY ToldOne DEF Abstract!Return, Abstract!Out, Abstract!Granted, Abstract!Refused, ToldAll
<1> QED BY <1>1 DEF AbsStep, Abstract!Next

LEMMA AbsRefuse ==
  ASSUME NEW t \in Thread, NEW o \in Obj, Told(t) = <<"waiting", o>>,
         Told(t)' = <<"refused">>, value' = value, \A x \in Thread \ {t} : Told(x)' = Told(x)
  PROVE  AbsStep
<1>1. Abstract!Refuse(t)
  BY ToldOne DEF Abstract!Refuse, Abstract!Wait, Abstract!Refused, ToldAll
<1> QED BY <1>1 DEF AbsStep, Abstract!Next

\* a token for a waiter
LEMMA AbsGrant ==
  ASSUME NEW t \in Thread, NEW o \in Obj, Told(t) = <<"waiting", o>>,
         Told(t)' = <<"granted">>, value' = value, \A x \in Thread \ {t} : Told(x)' = Told(x)
  PROVE  AbsStep
<1>1. Abstract!Release(o)
  BY ToldOne DEF Abstract!Release, Abstract!Wait, Abstract!Granted, ToldAll
<1> QED BY <1>1 DEF AbsStep, Abstract!Next

\* a token that nobody waits for
LEMMA AbsCount ==
  ASSUME NEW o \in Obj, \A t \in Thread : Told(t) # <<"waiting", o>>,
         value' = [value EXCEPT ![o] = (@ + 1) % ValueMod],
         \A x \in Thread : Told(x)' = Told(x)
  PROVE  AbsStep
<1>1. Abstract!Release(o)
  BY DEF Abstract!Release, Abstract!Wait, ToldAll
<1> QED BY <1>1 DEF AbsStep, Abstract!Next

LEMMA AbsReset ==
  ASSUME NEW o \in Obj, NEW v \in 0 .. ValueMod - 1, value' = [value EXCEPT ![o] = v],
         \A t \in Thread : Told(t)' = IF Told(t) = <<"waiting", o>> THEN <<"refused">> ELSE Told(t)
  PROVE  AbsStep
<1>1. Abstract!Reset(o, v)
  BY DEF Abstract!Reset, Abstract!Wait, Abstract!Refused, ToldAll
<1> QED BY <1>1 DEF AbsStep, Abstract!Next
-----------------------------------------------------------------------------
(* What a step of the program tells the threads *)

LEMMA ToldCases ==
  ASSUME IpcInv, NEW t \in Thread
  PROVE  /\ ~Blocked(t) => Told(t) = <<"out">>
         /\ \A o \in Obj : Linked(k, t, Wait(o)) => Told(t) = <<"waiting", o>>
         /\ \A o \in Obj : Told(t) = <<"waiting", o>> => Linked(k, t, Wait(o)) /\ op[t].on = o
<1>1. \A o \in Obj : Linked(k, t, Wait(o)) => Blocked(t) /\ op[t].on = o
  BY DEF IpcInv, CallerOK
<1>2. <<"out">> # <<"granted">> /\ \A o : /\ <<"waiting", o>> # <<"out">>
                                          /\ <<"waiting", o>> # <<"granted">>
                                          /\ <<"waiting", o>> # <<"refused">>
  OBVIOUS
<1>3. \A o : <<"waiting", o>> = <<"waiting", op[t].on>> => o = op[t].on
  OBVIOUS
<1> QED BY <1>1, <1>2, <1>3 DEF Told

\* A thread whose call, place in the lists and error stay is told nothing new.
LEMMA ToldKept ==
  ASSUME NEW t \in Thread,
         \/ op'[t] = op[t]
         \/ Blocked(t) /\ op'[t].pc \in WaitPC /\ op'[t].on = op[t].on
         \/ ~Blocked(t) /\ op'[t].pc \notin WaitPC,
         Blocked(t) => op[t].on \in Obj,
         \A o \in Obj : Linked(k', t, Wait(o)) <=> Linked(k, t, Wait(o)),
         k'.err[t] = k.err[t]
  PROVE  Told(t)' = Told(t)
<1>1. /\ Blocked(t) <=> op[t].pc \in WaitPC
      /\ op'[t].pc \in WaitPC <=> op[t].pc \in WaitPC
      /\ Blocked(t) => op'[t].on = op[t].on
  BY DEF Blocked, WaitPC
<1>2. CASE op[t].pc \in WaitPC
  BY <1>1, <1>2 DEF Told, Blocked, WaitPC
<1>3. CASE op[t].pc \notin WaitPC
  BY <1>1, <1>3 DEF Told, Blocked, WaitPC
<1> QED BY <1>2, <1>3

LEMMA StillTold ==
  ASSUME IpcInv, Still, NEW t \in Thread,
         \/ op'[t] = op[t]
         \/ Blocked(t) /\ op'[t].pc \in WaitPC /\ op'[t].on = op[t].on
         \/ ~Blocked(t) /\ op'[t].pc \notin WaitPC
  PROVE  Told(t)' = Told(t)
<1>1. Blocked(t) => op[t].on \in Obj
  BY DEF IpcInv, CallerOK
<1>2. \A o \in Obj : Linked(k', t, Wait(o)) <=> Linked(k, t, Wait(o))
  BY DEF Still, Linked
<1>3. k'.err[t] = k.err[t]
  BY DEF Still
<1> QED BY <1>1, <1>2, <1>3, ToldKept

\* The other threads when w wakes up.
LEMMA WakesToldOthers ==
  ASSUME IpcInv, NEW w \in Thread, NEW e, Wakes(w, e), NEW t \in Thread, t # w,
         \/ op'[t] = op[t]
         \/ ~Blocked(t) /\ op'[t].pc \notin WaitPC
  PROVE  Told(t)' = Told(t)
<1>1. Blocked(t) => op[t].on \in Obj
  BY DEF IpcInv, CallerOK
<1>2. \A o \in Obj : Linked(k', t, Wait(o)) <=> Linked(k, t, Wait(o))
  BY DEF Wakes, Woke
<1>3. k.err \in [Thread -> Err]
  BY DEF IpcInv, IpcTypeOK, KState
<1>4. k'.err[t] = k.err[t]
  BY <1>3 DEF Wakes
<1> QED BY <1>1, <1>2, <1>4, ToldKept

\* The thread that wakes up: it has left the list of the object of its call, and
\* is told what its error says.  A thread that slept waits for nothing.
LEMMA WakesTold ==
  ASSUME IpcInv, NEW w \in Thread, NEW e, Wakes(w, e), op'[w] = op[w]
  PROVE  /\ ~Blocked(w) => Told(w)' = Told(w)
         /\ Blocked(w) => /\ \E o \in Obj : Told(w) = <<"waiting", o>>
                          /\ Told(w)' = IF e = "EOK" THEN <<"granted">> ELSE <<"refused">>
<1>1. k.err \in [Thread -> Err] /\ k.stat[w] = "SUSPEND"
  BY DEF IpcInv, IpcTypeOK, KState, Wakes
<1>2. k'.err[w] = e
  BY <1>1 DEF Wakes
<1>3. \A o \in Obj : ~Linked(k', w, Wait(o))
  BY DEF Wakes, Woke
<1>4. Blocked(w) => op[w].on \in Obj /\ Linked(k, w, Wait(op[w].on))
  BY <1>1 DEF IpcInv, CallerOK
<1>5. Blocked(w)' <=> Blocked(w)
  BY DEF Blocked
<1>6. ASSUME ~Blocked(w) PROVE Told(w)' = Told(w)
  BY <1>6 DEF Told, Blocked
<1>7. ASSUME Blocked(w)
      PROVE  /\ \E o \in Obj : Told(w) = <<"waiting", o>>
             /\ Told(w)' = IF e = "EOK" THEN <<"granted">> ELSE <<"refused">>
  <2>1. Told(w) = <<"waiting", op[w].on>>
    BY <1>4, <1>7, ToldCases
  <2>2. ~Linked(k', w, Wait(op[w].on))
    BY <1>3, <1>4, <1>7
  <2>3. Told(w)' = IF k'.err[w] = "EOK" THEN <<"granted">> ELSE <<"refused">>
    BY <1>7, <2>2 DEF Told, Blocked
  <2> QED BY <1>2, <1>4, <1>7, <2>1, <2>3
<1> QED BY <1>6, <1>7
-----------------------------------------------------------------------------
(* The steps *)

LEMMA SemStill ==
  ASSUME SemInv, IpcInv', DetachInv', Still, value' = value
  PROVE  SemInv'
<1>1. InOrder'
  BY StillOrder DEF SemInv
<1>2. NoTokenStranded'
  BY DEF SemInv, NoTokenStranded, Waiters, Still
<1> QED BY <1>1, <1>2 DEF SemInv

LEMMA SemWakes ==
  ASSUME SemInv, IpcInv', DetachInv', NEW t, NEW e, Wakes(t, e), value' = value
  PROVE  SemInv'
<1>1. InOrder' /\ \A o \in Obj : k.list[Wait(o)] = <<>> => k'.list[Wait(o)] = <<>>
  BY WakesOrder DEF SemInv
<1>2. NoTokenStranded'
  BY <1>1 DEF SemInv, NoTokenStranded, Waiters
<1> QED BY <1>1, <1>2 DEF SemInv

LEMMA TakeStep ==
  ASSUME SemInv, NEW c \in User, NEW o \in Obj, rt_sem_take(c, o)
  PROVE  SemInv' /\ AbsStep
<1>0. IpcInv /\ DetachInv /\ c \in Thread /\ op' = op /\ k' = k /\ alive' = alive
  BY DEF SemInv, User, rt_sem_take
<1>1. Still
  BY <1>0, SameKernel
<1>2. IpcInv'
  BY <1>0 DEF IpcInv, IpcTypeOK, CallerOK, Blocked
<1>3. DetachInv'
  BY <1>0, <1>1, <1>2, StillDetach
<1>4. InOrder'
  BY <1>1, StillOrder DEF SemInv
<1>5. /\ value' \in [Obj -> 0 .. ValueMod - 1]
      /\ \A x \in Obj : value'[x] > 0 => value[x] > 0
  BY SemAssumption DEF SemInv, rt_sem_take
<1>6. NoTokenStranded'
  BY <1>0, <1>5 DEF SemInv, NoTokenStranded, Waiters
<1>7. Told(c) = <<"out">>
  BY <1>0 DEF rt_sem_take, At, Told, Blocked
<1>8. \A t \in Thread : Told(t)' = Told(t)
  BY <1>0, <1>1, StillTold
<1>9. AbsStep
  BY <1>0, <1>7, <1>8, AbsTake DEF rt_sem_take
<1> QED BY <1>2, <1>3, <1>4, <1>5, <1>6, <1>9 DEF SemInv

LEMMA TakeWaitStep ==
  ASSUME SemInv, NEW c \in User, NEW o \in Obj, NEW d \in Time, TakeWait(c, o, d)
  PROVE  SemInv' /\ AbsStep
<1>0. /\ IpcInv /\ DetachInv /\ c \in Thread /\ At(c, "run") /\ o \in alive /\ value[o] = 0
      /\ k' = Block(k, o, c, d) /\ Call(c, "wait_sched", o) /\ alive' = alive /\ value' = value
  BY DEF SemInv, User, TakeWait
<1>1. d > 0 => d \in Nat
  <2>1. d = -1 \/ d \in 1 .. Half - 1
    BY IpcAssumption
  <2> QED BY <2>1
<1>2. /\ k.cur = c /\ k.stat[c] = "READY" /\ ~Blocked(c) /\ Sane(k)
      /\ \A x \in Obj : ~Linked(k, c, Wait(x))
  <2>1. k.cur = c /\ op[c].pc = "run" /\ k.stat[c] = "READY" /\ Sane(k)
    BY <1>0, AtFacts
  <2>2. \A x \in Obj : ~Linked(k, c, Wait(x))
    BY <1>0, <2>1, WaiterFacts DEF Sane
  <2> QED BY <2>1, <2>2 DEF Blocked
<1>3. Woke(k, k, {})
  BY <1>2, WokeNobody
<1>4. /\ IpcInv' /\ Slept(k, k', c, o)
      /\ \A x \in Obj : x # o => k'.list[Wait(x)] = k.list[Wait(x)]
      /\ k'.err = [k.err EXCEPT ![c] = "EOK"] /\ k'.prio = k.prio
      /\ Flag[o] = "PRIO" /\ Sorted(k.list[Wait(o)], k.prio) => Sorted(k'.list[Wait(o)], k.prio)
      /\ op'[c] = [pc |-> "wait_sched", on |-> o]
      /\ \A t \in Thread \ {c} : op'[t] = op[t]
  BY <1>0, <1>1, <1>2, <1>3, BlockStep
<1>5. DetachInv'
  <2>1. op'[c].pc \notin ResumePC \cup {"assert"}
    BY <1>4 DEF ResumePC
  <2> QED BY <1>0, <1>2, <1>4, <2>1, SleptDetach
<1>6. InOrder'
  BY <1>4, BlockOrder DEF SemInv
<1>7. NoTokenStranded'
  BY <1>0, <1>4 DEF SemInv, NoTokenStranded, Waiters
<1>8. Told(c) = <<"out">>
  BY <1>2 DEF Told
<1>9. Told(c)' = <<"waiting", o>>
  <2>1. Linked(k', c, Wait(o))
    BY <1>0, <1>4 DEF Slept
  <2> QED BY <1>4, <2>1 DEF Told, Blocked
<1>10. ASSUME NEW t \in Thread \ {c} PROVE Told(t)' = Told(t)
  <2>1. Blocked(t) => op[t].on \in Obj
    BY <1>0 DEF IpcInv, CallerOK
  <2>2. \A x \in Obj : Linked(k', t, Wait(x)) <=> Linked(k, t, Wait(x))
    BY <1>4 DEF Slept
  <2>3. k.err \in [Thread -> Err]
    BY <1>0 DEF IpcInv, IpcTypeOK, KState
  <2>4. k'.err[t] = k.err[t]
    BY <1>4, <2>3
  <2> QED BY <1>4, <2>1, <2>2, <2>4, ToldKept
<1>11. AbsStep
  BY <1>0, <1>8, <1>9, <1>10, AbsBlock
<1> QED BY <1>0, <1>4, <1>5, <1>6, <1>7, <1>11 DEF SemInv

LEMMA TakeReturnStep ==
  ASSUME SemInv, NEW c \in User, TakeReturn(c)
  PROVE  SemInv' /\ AbsStep
<1>0. /\ IpcInv /\ DetachInv /\ c \in Thread /\ At(c, "wait_return") /\ Call(c, "run", NoObj)
      /\ k' = k /\ alive' = alive /\ value' = value
  BY DEF SemInv, User, TakeReturn, Return
<1>1. /\ k.cur = c /\ k.stat[c] = "READY" /\ Sane(k) /\ op[c].pc = "wait_return"
      /\ op[c].on \in Obj /\ IpcTypeOK
  <2>1. "wait_return" \in WaitPC /\ "wait_return" \notin {"wait_sched", "sleep_sched"}
    BY DEF WaitPC
  <2> QED BY <1>0, <2>1, AtFacts
<1>2. /\ OpType /\ op'[c].pc = "run" /\ op'[c].on = NoObj
      /\ \A t \in Thread \ {c} : op'[t] = op[t]
  <2>1. "run" \in IpcPC /\ NoObj \in Obj \cup {NoObj}
    BY DEF IpcPC
  <2>2. IpcTypeOK /\ c \in Thread /\ Call(c, "run", NoObj)
    BY <1>0, <1>1
  <2> QED BY <2>1, <2>2, CallFacts
<1>3. IpcInv' /\ Still
  <2>1. alive' \subseteq Obj
    BY <1>0, <1>1 DEF IpcTypeOK
  <2> QED BY <1>0, <1>1, <1>2, <2>1, GoesOn DEF WaitPC
<1>4. DetachInv'
  BY <1>0, <1>2, <1>3, StillDetach DEF ResumePC
<1>5. SemInv'
  BY <1>0, <1>3, <1>4, SemStill
<1>6. ~Linked(k, c, Wait(op[c].on))
  BY <1>0, <1>1, WaiterFacts DEF Sane
<1>7. Told(c) \in {<<"granted">>, <<"refused">>}
  BY <1>1, <1>6 DEF Told, Blocked
<1>8. Told(c)' = <<"out">>
  BY <1>2 DEF Told, Blocked
<1>9. \A t \in Thread \ {c} : Told(t)' = Told(t)
  BY <1>0, <1>2, <1>3, StillTold
<1>10. AbsStep
  BY <1>0, <1>7, <1>8, <1>9, AbsReturn
<1> QED BY <1>5, <1>10

\* A release that finds nobody waiting counts the token.
LEMMA CountStep ==
  ASSUME SemInv, NEW o \in Obj, Waiters(o) = <<>>, k' = k, op' = op, alive' = alive,
         value' = [value EXCEPT ![o] = (@ + 1) % ValueMod]
  PROVE  SemInv' /\ AbsStep
<1>0. IpcInv /\ DetachInv
  BY DEF SemInv
<1>1. Still
  BY <1>0, SameKernel
<1>2. IpcInv'
  BY <1>0 DEF IpcInv, IpcTypeOK, CallerOK, Blocked
<1>3. DetachInv' /\ InOrder'
  BY <1>0, <1>1, <1>2, StillDetach, StillOrder DEF SemInv
<1>4. value' \in [Obj -> 0 .. ValueMod - 1]
  <2>1. \A n \in Nat : n % ValueMod \in 0 .. ValueMod - 1
    BY SemAssumption
  <2>2. value[o] + 1 \in Nat
    BY SemAssumption DEF SemInv
  <2>3. (value[o] + 1) % ValueMod \in 0 .. ValueMod - 1
    BY <2>1, <2>2
  <2> HIDE SemAssumption
  <2> QED BY <2>3 DEF SemInv
<1>5. NoTokenStranded'
  <2>1. \A x \in Obj : x # o => value'[x] = value[x]
    BY DEF SemInv
  <2> QED BY <2>1 DEF SemInv, NoTokenStranded, Waiters
<1>6. \A t \in Thread : Told(t) # <<"waiting", o>>
  BY <1>0, ToldCases DEF Linked, Waiters, Range
<1>7. \A t \in Thread : Told(t)' = Told(t)
  BY <1>0, <1>1, StillTold
<1>8. AbsStep
  BY <1>6, <1>7, AbsCount
<1> QED BY <1>2, <1>3, <1>4, <1>5, <1>8 DEF SemInv

\* A release with a waiter hands the token over, whoever is current afterwards.
LEMMA GrantStep ==
  ASSUME SemInv, IpcInv', NEW o \in alive, NEW w \in Thread, Wakes(w, "EOK"),
         Linked(k, w, Wait(o)), alive' = alive, value' = value,
         \A t \in Thread : \/ op'[t] = op[t]
                           \/ t # w /\ ~Blocked(t) /\ op'[t].pc = "sched"
  PROVE  SemInv' /\ AbsStep
<1>0. IpcInv /\ DetachInv /\ o \in Obj
  BY DEF SemInv, IpcInv, IpcTypeOK
<1>1. DetachInv'
  BY <1>0, AliveDetach DEF ResumePC
<1>2. SemInv'
  BY <1>1, SemWakes
<1>3. Told(w) = <<"waiting", o>> /\ Blocked(w)
  BY <1>0, ToldCases DEF IpcInv, CallerOK
<1>4. Told(w)' = <<"granted">>
  BY <1>0, <1>3, WakesTold
<1>5. \A t \in Thread \ {w} : Told(t)' = Told(t)
  BY <1>0, WakesToldOthers DEF WaitPC
<1>6. AbsStep
  BY <1>0, <1>3, <1>4, <1>5, AbsGrant
<1> QED BY <1>2, <1>6

LEMMA ReleaseStep ==
  ASSUME SemInv, NEW c \in User, NEW o \in Obj, rt_sem_release(c, o)
  PROVE  SemInv' /\ AbsStep
<1>0. IpcInv /\ c \in Thread /\ At(c, "run") /\ o \in alive /\ alive' = alive
  BY DEF SemInv, User, rt_sem_release
<1>1. CASE Waiters(o) = <<>>
  BY <1>0, <1>1, CountStep DEF rt_sem_release
<1>2. CASE Waiters(o) # <<>>
  <2> DEFINE w == Head(Waiters(o))
  <2>1. k' = IpcListResume(k, o) /\ Call(c, "sched", o) /\ value' = value
    BY <1>2 DEF rt_sem_release
  <2>2. Wakes(w, "EOK") /\ Linked(k, w, Wait(o)) /\ k'.cur = k.cur
    BY <1>0, <1>2, <2>1, ResumeHead
  <2> HIDE DEF w
  <2>3. w \in Thread /\ k.stat[w] = "SUSPEND"
    BY <2>2 DEF Wakes
  <2>4. k.cur = c /\ op[c].pc = "run" /\ k.stat[c] = "READY" /\ IpcTypeOK
    BY <1>0, AtFacts
  <2>5. /\ OpType /\ op'[c].pc = "sched" /\ op'[c].on = o
        /\ \A t \in Thread \ {c} : op'[t] = op[t]
    BY <1>0, <2>1, <2>4, CallFacts DEF IpcPC
  <2>6. IpcInv'
    <3>1. \A t \in Thread : Moves(t)
      BY <2>4, <2>5 DEF Moves, WaitPC, User
    <3>2. CurOK
      <4>1. k'.stat[c] = "READY"
        BY <1>0, <2>2, <2>4 DEF Wakes, Woke
      <4> QED BY <2>2, <2>4, <4>1 DEF CurOK
    <3> QED BY <1>0, <2>2, <2>4, <2>5, <3>1, <3>2, WakesInv DEF IpcTypeOK
  <2>7. \A t \in Thread : \/ op'[t] = op[t]
                          \/ t # w /\ ~Blocked(t) /\ op'[t].pc = "sched"
    BY <2>3, <2>4, <2>5 DEF Blocked
  <2> QED BY <1>0, <2>1, <2>2, <2>3, <2>6, <2>7, GrantStep
<1> QED BY <1>1, <1>2

LEMMA IsrReleaseStep ==
  ASSUME SemInv, NEW o \in Obj, IsrRelease(o)
  PROVE  SemInv' /\ AbsStep
<1>0. IpcInv /\ o \in alive /\ alive' = alive /\ op' = op
  BY DEF SemInv, IsrRelease
<1>1. CASE Waiters(o) = <<>>
  BY <1>0, <1>1, CountStep DEF IsrRelease
<1>2. CASE Waiters(o) # <<>>
  <2> DEFINE w == Head(Waiters(o))
             s == Resume(k, w)
  <2>1. k' = Schedule(s) /\ value' = value
    BY <1>2 DEF IsrRelease, IpcListResume, Waiters
  <2>2. w \in Thread /\ Linked(k, w, Wait(o)) /\ k.stat[w] = "SUSPEND" /\ Sane(k)
    BY <1>0, <1>2, HeadFactsOf DEF Waiters, IpcInv
  <2>3. /\ Woke(k, s, {w})
        /\ \A x \in Obj : s.list[Wait(x)] = RemoveFirst(k.list[Wait(x)], w)
        /\ s.err = k.err /\ s.prio = k.prio
        /\ \A x \in Thread \ {w} : s.tmo[x] = k.tmo[x]
    BY <2>2, ResumeWoke
  <2> HIDE DEF w, s
  <2>4. Sane(s)
    BY <2>3 DEF Woke
  <2>5. /\ Woke(s, k', {}) /\ k'.stat[k'.cur] = "READY"
        /\ k'.list = s.list /\ k'.err = s.err /\ k'.prio = s.prio /\ k'.tmo = s.tmo
    BY <2>1, <2>4, ScheduleWoke
  <2>6. k.err[w] = "EOK" /\ k.err \in [Thread -> Err]
    BY <1>0, <2>2 DEF IpcInv, CallerOK, IpcTypeOK, KState
  <2>7. Wakes(w, "EOK")
    <3>1. Woke(k, k', {w} \cup {})
      BY <2>3, <2>5, WokeTwice
    <3>2. Woke(k, k', {w})
      BY <3>1
    <3>3. k'.err = [k.err EXCEPT ![w] = "EOK"]
      BY <2>3, <2>5, <2>6
    <3> QED BY <2>2, <2>3, <2>5, <3>2, <3>3 DEF Wakes
  <2>8. IpcInv'
    BY <1>0, <2>5, <2>7, WakesInv DEF CurOK, Moves, OpType, IpcInv, IpcTypeOK
  <2> QED BY <1>0, <2>1, <2>2, <2>7, <2>8, GrantStep
<1> QED BY <1>1, <1>2

LEMMA ControlStep ==
  ASSUME SemInv, NEW c \in User, NEW o \in Obj, NEW v \in InitValue, rt_sem_control(c, o, v)
  PROVE  SemInv' /\ AbsStep
<1> DEFINE W == Range(k.list[Wait(o)])
<1>0. /\ IpcInv /\ DetachInv /\ c \in Thread /\ At(c, "run") /\ o \in alive
      /\ k' = ResumeAll(k, o) /\ Call(c, "sched", o) /\ alive' = alive
      /\ value' = [value EXCEPT ![o] = v]
  BY DEF SemInv, User, rt_sem_control
<1>1. /\ k.cur = c /\ op[c].pc = "run" /\ k.stat[c] = "READY" /\ Sane(k) /\ IpcTypeOK
  BY <1>0, AtFacts
<1>2. /\ Woke(k, k', W)
      /\ k'.list[Wait(o)] = <<>>
      /\ \A x \in Obj : x # o => k'.list[Wait(x)] = k.list[Wait(x)]
      /\ \A t \in Thread : k'.err[t] = IF t \in W THEN "ERROR" ELSE k.err[t]
      /\ k'.prio = k.prio /\ k'.cur = k.cur
  BY <1>0, <1>1, ResumeAllWoke
<1>3. \A t \in Thread : t \in W <=> Linked(k, t, Wait(o))
  BY DEF Linked
<1> HIDE DEF W
<1>4. /\ OpType /\ op'[c].pc = "sched" /\ op'[c].on = o
      /\ \A t \in Thread \ {c} : op'[t] = op[t]
  BY <1>0, <1>1, CallFacts DEF IpcPC
<1>5. IpcInv'
  <2>1. \A t \in Thread : Moves(t)
    BY <1>1, <1>4 DEF Moves, WaitPC, User
  <2>2. k'.stat[k'.cur] = "READY"
    BY <1>0, <1>1, <1>2 DEF Woke
  <2> QED BY <1>0, <1>1, <1>2, <1>4, <2>1, <2>2, WokeStep DEF IpcTypeOK
<1>6. DetachInv'
  <2>1. \A t \in Thread : op'[t] = op[t] \/ op'[t].pc \notin ResumePC \cup {"assert"}
    BY <1>4 DEF ResumePC
  <2>2. \A t \in Thread : o \notin Leaving(t) /\ Leaving(t) \subseteq Obj
    BY <1>0 DEF DetachInv, Leaving
  <2>3. \A t \in Thread : \A x \in Leaving(t) : k'.list[Wait(x)] = k.list[Wait(x)]
    BY <1>2, <2>2
  <2>4. \A t : Timed(k', t) => Timed(k, t)
    BY <1>2 DEF Woke, Timed
  <2>5. IpcTypeOK'
    BY <1>5 DEF IpcInv
  <2> QED BY <1>0, <1>1, <2>1, <2>3, <2>4, <2>5, DetachKept
<1>7. InOrder'
  <2>1. Sorted(<<>>, k.prio)
    BY DEF Sorted
  <2>2. Sorted(k'.list[Wait(o)], k.prio)
    BY <1>2, <2>1
  <2> QED BY <1>2, <2>2, BlockOrder DEF SemInv
<1>8. v \in 0 .. ValueMod - 1 /\ value' \in [Obj -> 0 .. ValueMod - 1]
  BY <1>0, SemAssumption DEF SemInv
<1>9. NoTokenStranded'
  <2>1. \A x \in Obj : x # o => value'[x] = value[x]
    BY <1>0 DEF SemInv
  <2> QED BY <1>2, <2>1 DEF SemInv, NoTokenStranded, Waiters
<1>10. ASSUME NEW t \in Thread
       PROVE  Told(t)' = IF Told(t) = <<"waiting", o>> THEN <<"refused">> ELSE Told(t)
  <2>1. CASE t \in W
    <3>1. Linked(k, t, Wait(o)) /\ Told(t) = <<"waiting", o>> /\ Blocked(t) /\ op[t].on = o
      BY <1>0, <1>3, <2>1, ToldCases DEF IpcInv, CallerOK
    <3>2. t # c /\ op'[t] = op[t]
      BY <1>1, <1>4, <3>1 DEF Blocked
    <3>3. ~Linked(k', t, Wait(o)) /\ k'.err[t] = "ERROR"
      BY <1>2, <2>1 DEF Woke
    <3>4. Told(t)' = <<"refused">>
      BY <3>1, <3>2, <3>3 DEF Told, Blocked
    <3> QED BY <3>1, <3>4
  <2>2. CASE t \notin W
    <3>1. Told(t) # <<"waiting", o>>
      BY <1>0, <1>3, <2>2, ToldCases
    <3>2. Blocked(t) => op[t].on \in Obj
      BY <1>0 DEF IpcInv, CallerOK
    <3>3. \A x \in Obj : Linked(k', t, Wait(x)) <=> Linked(k, t, Wait(x))
      BY <1>2, <2>2 DEF Woke
    <3>4. \/ op'[t] = op[t]
          \/ ~Blocked(t) /\ op'[t].pc \notin WaitPC
      BY <1>1, <1>4 DEF Blocked, WaitPC
    <3>5. k'.err[t] = k.err[t]
      BY <1>2, <2>2
    <3>6. Told(t)' = Told(t)
      BY <3>2, <3>3, <3>4, <3>5, ToldKept
    <3> QED BY <3>1, <3>6
  <2> QED BY <2>1, <2>2
<1>11. AbsStep
  BY <1>0, <1>8, <1>10, AbsReset
<1> QED BY <1>5, <1>6, <1>7, <1>8, <1>9, <1>11 DEF SemInv

\* Nobody is inside a call on a semaphore that is initialised.
LEMMA InitStep ==
  ASSUME SemInv, NEW c \in User, NEW o \in Obj, NEW v \in InitValue, rt_sem_init(c, o, v)
  PROVE  SemInv' /\ AbsStep
<1>0. /\ IpcInv /\ DetachInv /\ c \in Thread /\ ObjInit(c, o) /\ k' = k
      /\ (\A t \in Thread : op[t].on # o) /\ value' = [value EXCEPT ![o] = v]
  BY DEF SemInv, User, rt_sem_init, ObjInit, Unused
<1>1. IpcInv' /\ Still /\ op' = op /\ alive' = alive \cup {o}
  BY <1>0, ObjInv
<1>2. DetachInv'
  BY <1>0, <1>1, NoObjAfter, ObjInitDetach
<1>3. InOrder'
  BY <1>1, StillOrder DEF SemInv
<1>4. v \in 0 .. ValueMod - 1 /\ value' \in [Obj -> 0 .. ValueMod - 1]
  BY <1>0, SemAssumption DEF SemInv
<1>5. Waiters(o) = <<>>
  <2>1. k.list[Wait(o)] \in Seq(Thread)
    BY <1>0, HeadFacts DEF IpcInv, IpcTypeOK, KState
  <2>2. \A t \in Thread : ~Linked(k, t, Wait(o))
    BY <1>0 DEF IpcInv, CallerOK
  <2>3. Range(k.list[Wait(o)]) = {}
    BY <2>1, <2>2 DEF Linked, Range
  <2> QED BY <2>1, <2>3, EmptyRange DEF Waiters
<1>6. NoTokenStranded'
  <2>1. \A x \in Obj : x # o => value'[x] = value[x]
    BY <1>0 DEF SemInv
  <2> QED BY <1>0, <1>5, <2>1 DEF SemInv, NoTokenStranded, Waiters
<1>7. \A t \in Thread : Told(t)' = Told(t) /\ Told(t) # <<"waiting", o>>
  BY <1>0, <1>1, StillTold, ToldCases
<1>8. AbsStep
  BY <1>0, <1>4, <1>7, AbsReset
<1> QED BY <1>1, <1>2, <1>3, <1>4, <1>6, <1>8 DEF SemInv

LEMMA DetachOpStep ==
  ASSUME SemInv, NEW c \in User, NEW o \in Obj, rt_sem_detach(c, o)
  PROVE  SemInv' /\ AbsStep
<1>0. /\ IpcInv /\ DetachInv /\ c \in Thread /\ ObjDetach(c, o) /\ ObjDetachAny(c, o)
      /\ At(c, "run") /\ value' = value
  BY DEF SemInv, User, rt_sem_detach, ObjDetach, ObjDetachAny
<1>1. /\ IpcInv' /\ Still /\ op'[c] = [pc |-> "resume_test", on |-> o] /\ alive' = alive \ {o}
      /\ \A t \in Thread \ {c} : op'[t] = op[t]
  BY <1>0, ObjInv
<1>2. DetachInv'
  BY <1>0, <1>1, SemAfter, ObjDetachInv
<1>3. SemInv'
  BY <1>0, <1>1, <1>2, SemStill
<1>4. ~Blocked(c) /\ op'[c].pc \notin WaitPC
  BY <1>0, <1>1 DEF At, Blocked, WaitPC
<1>5. \A t \in Thread : Told(t)' = Told(t)
  BY <1>0, <1>1, <1>4, StillTold
<1> QED BY <1>0, <1>3, <1>5, AbsStutter

\* The steps that a semaphore shares with every other object.
LEMMA SharedStep ==
  ASSUME SemInv, IpcNext, value' = value
  PROVE  SemInv' /\ AbsStep
<1>0. IpcInv /\ DetachInv
  BY DEF SemInv
<1>1. ASSUME NEW c \in User, WaitSchedule(c) \/ SchedReturn(c)
      PROVE  SemInv' /\ AbsStep
  <2>1. /\ IpcInv' /\ Still /\ alive' = alive /\ c \in Thread
        /\ \A t \in Thread \ {c} : op'[t] = op[t]
    BY <1>0, <1>1, SchedInv DEF User
  <2>2. IpcTypeOK
    BY <1>0 DEF IpcInv
  <2>3. \/ op[c].pc = "wait_sched" /\ op'[c].pc = "wait_return" /\ op'[c].on = op[c].on
        \/ op[c].pc = "sched" /\ op'[c].pc = "run"
    <3>1. "wait_return" \in IpcPC /\ "run" \in IpcPC
      BY DEF IpcPC
    <3>2. CASE WaitSchedule(c)
      BY <2>1, <2>2, <3>1, <3>2, GotoFacts DEF WaitSchedule, At
    <3>3. CASE SchedReturn(c)
      BY <2>1, <2>2, <3>1, <3>3, CallFacts DEF SchedReturn, At, Return
    <3> QED BY <1>1, <3>2, <3>3
  <2>4. \A t \in Thread : op'[t] = op[t] \/ op'[t].pc \notin ResumePC \cup {"assert"}
    BY <2>1, <2>3 DEF ResumePC
  <2>5. DetachInv'
    BY <1>0, <2>1, <2>4, StillDetach
  <2>6. \A t \in Thread : Told(t)' = Told(t)
    <3>1. Told(c)' = Told(c)
      BY <1>0, <2>1, <2>3, StillTold DEF Blocked, WaitPC
    <3>2. \A t \in Thread \ {c} : Told(t)' = Told(t)
      BY <1>0, <2>1, StillTold
    <3> QED BY <3>1, <3>2
  <2> QED BY <2>1, <2>5, <2>6, SemStill, AbsStutter
<1>2. ASSUME NEW c \in User, ResumeTest(c)
      PROVE  SemInv' /\ AbsStep
  <2>1. /\ IpcInv' /\ DetachInv' /\ Still /\ op'[c].pc \notin WaitPC /\ c \in Thread
        /\ \A t \in Thread \ {c} : op'[t] = op[t]
    BY <1>0, <1>2, SemAfter, ResumeTestInv DEF User
  <2>2. ~Blocked(c)
    BY <1>2 DEF ResumeTest, At, Blocked
  <2>3. \A t \in Thread : Told(t)' = Told(t)
    BY <1>0, <2>1, <2>2, StillTold
  <2> QED BY <2>1, <2>3, SemStill, AbsStutter
<1>3. ASSUME NEW c \in User, ResumeOne(c)
      PROVE  SemInv' /\ AbsStep
  <2>1. /\ IpcInv' /\ DetachInv' /\ c \in Thread
        /\ \E t \in Thread : Wakes(t, "ERROR") /\ Linked(k, t, Wait(op[c].on))
        /\ op[c].pc = "resume_one" /\ op'[c].pc = "resume_test"
        /\ \A t \in Thread \ {c} : op'[t] = op[t]
    BY <1>0, <1>3, ResumeOneInv DEF User
  <2>2. PICK w \in Thread : Wakes(w, "ERROR") /\ Linked(k, w, Wait(op[c].on))
    BY <2>1
  <2>3. SemInv'
    BY <2>1, <2>2, SemWakes
  <2>4. op[c].on \in Obj
    BY <1>0, <2>1 DEF DetachInv, ResumePC
  <2>5. Blocked(w) /\ Told(w) = <<"waiting", op[c].on>> /\ w # c
    BY <1>0, <2>1, <2>2, <2>4, ToldCases DEF IpcInv, CallerOK, Blocked
  <2>6. Told(w)' = <<"refused">>
    BY <1>0, <2>1, <2>2, <2>5, WakesTold
  <2>7. \A t \in Thread \ {w} : Told(t)' = Told(t)
    BY <1>0, <2>1, <2>2, WakesToldOthers DEF Blocked, WaitPC
  <2> QED BY <2>3, <2>4, <2>5, <2>6, <2>7, AbsRefuse
<1>4. ASSUME rt_tick_increase
      PROVE  SemInv' /\ AbsStep
  <2>1. IpcInv' /\ Still /\ alive' = alive /\ op' = op
    BY <1>0, <1>4, TickInv
  <2>2. DetachInv'
    BY <1>0, <2>1, StillDetach
  <2>3. \A t \in Thread : Told(t)' = Told(t)
    BY <1>0, <2>1, StillTold
  <2> QED BY <2>1, <2>2, <2>3, SemStill, AbsStutter
<1>5. ASSUME rt_timer_check
      PROVE  SemInv' /\ AbsStep
  <2>1. /\ IpcInv' /\ alive' = alive /\ op' = op
        /\ Still \/ \E t \in Thread : Timed(k, t) /\ Wakes(t, "ETIMEOUT")
    BY <1>0, <1>5, TimerInv
  <2>2. CASE Still
    <3>1. DetachInv'
      BY <1>0, <2>1, <2>2, StillDetach
    <3>2. \A t \in Thread : Told(t)' = Told(t)
      BY <1>0, <2>1, <2>2, StillTold
    <3> QED BY <2>1, <2>2, <3>1, <3>2, SemStill, AbsStutter
  <2>3. CASE \E t \in Thread : Timed(k, t) /\ Wakes(t, "ETIMEOUT")
    <3>1. PICK w \in Thread : Timed(k, w) /\ Wakes(w, "ETIMEOUT")
      BY <2>3
    <3>2. DetachInv'
      BY <1>0, <2>1, <3>1, TimedDetach
    <3>3. SemInv'
      BY <2>1, <3>1, <3>2, SemWakes
    <3>4. \A t \in Thread \ {w} : Told(t)' = Told(t)
      BY <1>0, <2>1, <3>1, WakesToldOthers
    <3>5. /\ ~Blocked(w) => Told(w)' = Told(w)
          /\ Blocked(w) => /\ \E o \in Obj : Told(w) = <<"waiting", o>>
                           /\ Told(w)' = <<"refused">>
      BY <1>0, <2>1, <3>1, WakesTold
    <3>6. AbsStep
      BY <3>4, <3>5, AbsRefuse, AbsStutter
    <3> QED BY <3>3, <3>6
  <2> QED BY <2>1, <2>2, <2>3
<1> QED BY <1>1, <1>2, <1>3, <1>4, <1>5 DEF IpcNext
-----------------------------------------------------------------------------
(* The theorems *)

LEMMA SemInitInv == Init => SemInv /\ Abstract!Init
<1> SUFFICES ASSUME Init PROVE SemInv /\ Abstract!Init
  OBVIOUS
<1>1. IpcInv /\ DetachInv /\ (\A o \in Obj : Waiters(o) = <<>>)
  BY StartInv DEF Init, IpcInit
<1>2. InOrder
  BY <1>1 DEF InOrder, Sorted, Waiters
<1>3. value \in [Obj -> 0 .. ValueMod - 1]
  BY SemAssumption DEF Init
<1>4. \A t \in Thread : ~Blocked(t)
  BY DEF Init, IpcInit, IpcStart, Blocked
<1>5. Abstract!Init
  BY <1>3, <1>4 DEF Abstract!Init, Abstract!Out, Told
<1> QED BY <1>1, <1>2, <1>3, <1>5 DEF SemInv, NoTokenStranded

\* One step from a state of the invariant: it holds again, and the counting
\* semaphore has taken a step or none.
LEMMA SemNextInv == SemInv /\ [Next]_vars => SemInv' /\ AbsStep
<1> SUFFICES ASSUME SemInv, [Next]_vars PROVE SemInv' /\ AbsStep
  OBVIOUS
<1>1. CASE Next
  <2>1. ASSUME NEW c \in User, NEW o \in Obj,
               \/ rt_sem_take(c, o)
               \/ \E d \in Time : TakeWait(c, o, d)
               \/ rt_sem_release(c, o)
               \/ \E v \in InitValue : rt_sem_control(c, o, v) \/ rt_sem_init(c, o, v)
               \/ rt_sem_detach(c, o)
        PROVE  SemInv' /\ AbsStep
    BY <2>1, TakeStep, TakeWaitStep, ReleaseStep, ControlStep, InitStep, DetachOpStep
  <2>2. ASSUME NEW c \in User, TakeReturn(c) PROVE SemInv' /\ AbsStep
    BY <2>2, TakeReturnStep
  <2>3. ASSUME NEW o \in Obj, IsrRelease(o) PROVE SemInv' /\ AbsStep
    BY <2>3, IsrReleaseStep
  <2>4. ASSUME IpcNext /\ UNCHANGED value PROVE SemInv' /\ AbsStep
    BY <2>4, SharedStep
  <2> QED BY <1>1, <2>1, <2>2, <2>3, <2>4 DEF Next
<1>2. CASE UNCHANGED vars
  <2>1. k' = k /\ op' = op /\ alive' = alive /\ value' = value
    BY <1>2 DEF vars
  <2>2. SemInv'
    BY <2>1 DEF SemInv, IpcInv, IpcTypeOK, CallerOK, Blocked, DetachInv, ResumeAllFindsWaiter,
                Leaving, Waiters, InOrder, NoTokenStranded
  <2>3. \A t \in Thread : Told(t)' = Told(t)
    BY <2>1 DEF Told, Blocked
  <2> QED BY <2>1, <2>2, <2>3, AbsStutter
<1> QED BY <1>1, <1>2

\* The invariant of the semaphores: with any number of threads, semaphores,
\* priorities and ticks, no release, timeout, reset or detach breaks it.
THEOREM SemInvariance == Spec => []SemInv
<1>1. Init => SemInv
  BY SemInitInv
<1>2. SemInv /\ [Next]_vars => SemInv'
  BY SemNextInv
<1> QED BY <1>1, <1>2, PTL DEF Spec

\* KernelSound: the ready queues, the suspend lists, the timer list and the bitmap
\* of scheduler.c stay consistent whatever the threads do with their semaphores.
THEOREM SemKernelSound == Spec => []KernelSound
<1>1. SemInv => KernelSound
  BY DEF SemInv, KernelSound, TypeOK, IpcInv, Sane
<1> QED BY <1>1, SemInvariance, PTL

\* WaitersBlocked: a thread is in the suspend list of ipc.c of the semaphore it is
\* blocked on, and in no other.
THEOREM SemWaitersBlocked == Spec => []WaitersBlocked
<1>1. SemInv => WaitersBlocked
  BY DEF SemInv, IpcInv, CallerOK, WaitersBlocked
<1> QED BY <1>1, SemInvariance, PTL

\* ResumeAllFindsWaiter: the waiter that the loop of rt_ipc_list_resume_all saw
\* outside the interrupt lock is still there inside it.
THEOREM SemResumeAllFindsWaiter == Spec => []ResumeAllFindsWaiter
<1>1. SemInv => ResumeAllFindsWaiter
  BY DEF SemInv, DetachInv
<1> QED BY <1>1, SemInvariance, PTL

\* WaitersOrdered: rt_ipc_list_suspend keeps the waiters in the order of their
\* priorities.
THEOREM SemWaitersOrdered == Spec => []WaitersOrdered
<1>1. SemInv => WaitersOrdered
  BY InOrderMeans DEF SemInv
<1> QED BY <1>1, SemInvariance, PTL

\* NoTokenStranded: rt_sem_release never leaves a token next to a waiter.
THEOREM SemNoTokenStranded == Spec => []NoTokenStranded
<1>1. SemInv => NoTokenStranded
  BY DEF SemInv
<1> QED BY <1>1, SemInvariance, PTL

\* CountingSemaphore: rt_sem_take and rt_sem_release implement the counting
\* semaphore of module Semaphore, step by step.
THEOREM SemRefinement == Spec => CountingSemaphore
<1>1. Init => Abstract!Init
  BY SemInitInv
<1>2. SemInv /\ [Next]_vars => [Abstract!Next]_<<value, ToldAll>>
  BY SemNextInv DEF AbsStep
<1>3. SemInv /\ [Next]_vars => [Abstract!Next]_<<value, [c \in Thread |-> Told(c)]>>
  BY <1>2 DEF ToldAll
<1> QED BY <1>1, <1>3, SemInvariance, PTL DEF Spec, CountingSemaphore, Abstract!Spec
=============================================================================
