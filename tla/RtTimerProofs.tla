--------------------------- MODULE RtTimerProofs ---------------------------
(***************************************************************************)
(* Theorems about the timers of timer.c: the flag that rt_timer_stop       *)
(* trusts against the lists, and the punctuality of hard timers.           *)
(***************************************************************************)
EXTENDS RtTimer, SequenceTheorems, WellFoundedInduction, TLAPS

-----------------------------------------------------------------------------
(* The sequences that stand for the kernel's linked lists: which threads a *)
(* list holds, and that none is in it twice, after the insertions and      *)
(* removals of rt_list_t.                                                  *)

\* A non-empty set of naturals has a least element, which Min chooses: the
\* lowest bit that rt_schedule finds, the place where a sorted insertion stops.
LEMMA MinOfNats ==
  ASSUME NEW S \in SUBSET Nat, S # {}
  PROVE  Min(S) \in S /\ \A y \in S : Min(S) <= y
<1> DEFINE R == {ss \in Nat \X Nat : ss[1] < ss[2]}
<1>0. R = OpToRel(<, Nat)
  BY Zenon DEF OpToRel
<1>1. PICK x \in S : \A y \in S : ~(<<y, x>> \in R)
  <2>1. IsWellFoundedOn(R, Nat)
    BY <1>0, NatLessThanWellFounded, Zenon
  <2> QED BY <2>1, WFMin, Zenon
<1>2. \A y \in S : x <= y
  <2> SUFFICES ASSUME NEW y \in S PROVE x <= y OBVIOUS
  <2>1. ~(<<y,x>> \in R) BY <1>1
  <2>2. y \in Nat /\ x \in Nat OBVIOUS
  <2> QED BY <2>1, <2>2
<1> QED BY <1>2 DEF Min

\* The nodes of a list after one was removed at a place, in their order.
LEMMA RemoveAtNodes ==
  ASSUME NEW S, NEW s \in Seq(S), NEW n \in 1 .. Len(s)
  PROVE  LET r == RemoveAt(s, n)
         IN  /\ r \in Seq(S)
             /\ Len(r) = Len(s) - 1
             /\ \A i \in 1 .. Len(s) - 1 : r[i] = IF i < n THEN s[i] ELSE s[i + 1]
<1> DEFINE r == RemoveAt(s, n)
<1> DEFINE a == SubSeq(s, 1, n - 1)
           b == SubSeq(s, n + 1, Len(s))
<1>1. /\ a \in Seq(S) /\ Len(a) = n - 1
      /\ \A i \in 1 .. n - 1 : a[i] = s[i]
  OBVIOUS
<1>2. /\ b \in Seq(S) /\ Len(b) = Len(s) - n
      /\ \A i \in 1 .. Len(s) - n : b[i] = s[n + i]
  OBVIOUS
<1>3. r = a \o b
  BY DEF RemoveAt
<1> HIDE DEF a, b, r
<1>4. /\ r \in Seq(S) /\ Len(r) = Len(s) - 1
      /\ \A i \in 1 .. Len(s) - 1 :
           r[i] = IF i <= n - 1 THEN a[i] ELSE b[i - (n - 1)]
  <2>1. /\ a \o b \in Seq(S) /\ Len(a \o b) = Len(a) + Len(b)
        /\ \A i \in 1 .. Len(a) + Len(b) :
             (a \o b)[i] = IF i <= Len(a) THEN a[i] ELSE b[i - Len(a)]
    BY <1>1, <1>2, ConcatProperties
  <2>2. Len(a) + Len(b) = Len(s) - 1
    BY <1>1, <1>2
  <2> QED BY <2>1, <2>2, <1>1, <1>3
<1>5. ASSUME NEW i \in 1 .. Len(s) - 1
      PROVE  r[i] = IF i < n THEN s[i] ELSE s[i + 1]
  <2>1. CASE i < n
    BY <2>1, <1>1, <1>4
  <2>2. CASE ~(i < n)
    <3>1. i - (n - 1) \in 1 .. Len(s) - n /\ n + (i - (n - 1)) = i + 1
      BY <2>2
    <3>2. b[i - (n - 1)] = s[i + 1]
      BY <3>1, <1>2
    <3> QED BY <2>2, <3>2, <1>4
  <2> QED BY <2>1, <2>2
<1> QED BY <1>4, <1>5 DEF r

\* Removing the node at a place removes its thread and nothing else.
LEMMA RangeRemoveAt ==
  ASSUME NEW S, NEW s \in Seq(S), NEW n \in 1 .. Len(s), IsInjective(s)
  PROVE  /\ RemoveAt(s, n) \in Seq(S)
         /\ Range(RemoveAt(s, n)) = Range(s) \ {s[n]}
         /\ IsInjective(RemoveAt(s, n))
<1> DEFINE r == RemoveAt(s, n)
<1>1. /\ r \in Seq(S)
      /\ Len(r) = Len(s) - 1
      /\ \A i \in 1 .. Len(s) - 1 : r[i] = IF i < n THEN s[i] ELSE s[i + 1]
  BY RemoveAtNodes
<1> HIDE DEF r
<1>2. DOMAIN s = 1 .. Len(s) /\ DOMAIN r = 1 .. Len(s) - 1
  BY <1>1
<1>3. \A i, j \in 1 .. Len(s) : s[i] = s[j] => i = j
  BY <1>2 DEF IsInjective
<1>4. \A i, j \in 1 .. Len(s) - 1 : r[i] = r[j] => i = j
  BY <1>1, <1>3
<1>5. Range(r) = Range(s) \ {s[n]}
  <2>1. ASSUME NEW i \in 1 .. Len(s) - 1 PROVE r[i] \in Range(s) \ {s[n]}
    <3>1. PICK j \in 1 .. Len(s) : r[i] = s[j] /\ j # n
      <4>1. CASE i < n BY <4>1, <1>1
      <4>2. CASE ~(i < n)
        <5>1. i + 1 \in 1 .. Len(s) /\ i + 1 # n /\ r[i] = s[i + 1] BY <4>2, <1>1
        <5> QED BY <5>1
      <4> QED BY <4>1, <4>2
    <3>2. s[j] # s[n] BY <3>1, <1>3
    <3> QED BY <3>1, <3>2, <1>2 DEF Range
  <2>2. ASSUME NEW i \in 1 .. Len(s), i # n PROVE s[i] \in Range(r)
    <3>1. CASE i < n BY <3>1, <1>1, <1>2 DEF Range
    <3>2. CASE i > n
      <4>1. i - 1 \in 1 .. Len(s) - 1 /\ r[i-1] = s[i] BY <3>2, <1>1
      <4> QED BY <4>1, <1>2 DEF Range
    <3> QED BY <3>1, <3>2, <2>2
  <2> QED BY <2>1, <2>2, <1>2 DEF Range
<1> QED BY <1>1, <1>2, <1>4, <1>5 DEF r, IsInjective

\* rt_list_remove(n): the thread leaves the list, the others stay.
LEMMA RangeRemoveFirst ==
  ASSUME NEW S, NEW s \in Seq(S), NEW e, IsInjective(s)
  PROVE  /\ RemoveFirst(s, e) \in Seq(S)
         /\ Range(RemoveFirst(s, e)) = Range(s) \ {e}
         /\ IsInjective(RemoveFirst(s, e))
<1> DEFINE I == {i \in 1 .. Len(s) : s[i] = e}
<1>1. CASE I = {}
  <2>1. RemoveFirst(s, e) = s BY <1>1 DEF RemoveFirst
  <2>2. e \notin Range(s) BY <1>1 DEF Range
  <2> QED BY <2>1, <2>2
<1>2. CASE I # {}
  <2>0. I \in SUBSET Nat OBVIOUS
  <2> HIDE DEF I
  <2>1. Min(I) \in I BY <1>2, <2>0, MinOfNats
  <2> USE DEF I
  <2>2. RemoveFirst(s, e) = RemoveAt(s, Min(I))
    BY <1>2 DEF RemoveFirst, SelectInSeq
  <2>3. PICK n \in 1 .. Len(s) : s[n] = e /\ RemoveFirst(s, e) = RemoveAt(s, n)
    BY <2>1, <2>2
  <2>4. /\ RemoveAt(s, n) \in Seq(S)
        /\ Range(RemoveAt(s, n)) = Range(s) \ {s[n]}
        /\ IsInjective(RemoveAt(s, n))
    BY RangeRemoveAt
  <2> QED BY <2>3, <2>4
<1> QED BY <1>1, <1>2

\* The nodes of a list after one was inserted at a place, in their order.
LEMMA InsertAtNodes ==
  ASSUME NEW S, NEW s \in Seq(S), NEW n \in 1 .. Len(s) + 1, NEW e \in S
  PROVE  LET r == InsertAt(s, n, e)
         IN  /\ r \in Seq(S)
             /\ Len(r) = Len(s) + 1
             /\ \A i \in 1 .. Len(s) + 1 :
                  r[i] = IF i < n THEN s[i] ELSE IF i = n THEN e ELSE s[i - 1]
<1> DEFINE r == InsertAt(s, n, e)
<1> DEFINE a == SubSeq(s, 1, n - 1)
           m == a \o <<e>>
           b == SubSeq(s, n, Len(s))
<1>1. /\ a \in Seq(S) /\ Len(a) = n - 1
      /\ \A i \in 1 .. n - 1 : a[i] = s[i]
  OBVIOUS
<1>2. /\ b \in Seq(S) /\ Len(b) = Len(s) - n + 1
      /\ \A i \in 1 .. Len(s) - n + 1 : b[i] = s[n + i - 1]
  OBVIOUS
<1>3. r = m \o b
  BY DEF InsertAt
<1> HIDE DEF a, b
<1>4. /\ m \in Seq(S) /\ Len(m) = n /\ m[n] = e
      /\ \A i \in 1 .. n - 1 : m[i] = s[i]
  BY <1>1
<1> HIDE DEF m, r
<1>5. /\ r \in Seq(S) /\ Len(r) = Len(s) + 1
      /\ \A i \in 1 .. Len(s) + 1 :
           r[i] = IF i <= n THEN m[i] ELSE b[i - n]
  <2>1. /\ m \o b \in Seq(S) /\ Len(m \o b) = Len(m) + Len(b)
        /\ \A i \in 1 .. Len(m) + Len(b) :
             (m \o b)[i] = IF i <= Len(m) THEN m[i] ELSE b[i - Len(m)]
    BY <1>2, <1>4, ConcatProperties
  <2>2. Len(m) + Len(b) = Len(s) + 1
    BY <1>2, <1>4
  <2> QED BY <2>1, <2>2, <1>3, <1>4
<1>6. ASSUME NEW i \in 1 .. Len(s) + 1
      PROVE  r[i] = IF i < n THEN s[i] ELSE IF i = n THEN e ELSE s[i - 1]
  <2>1. CASE i < n
    BY <2>1, <1>4, <1>5
  <2>2. CASE i = n
    BY <2>2, <1>4, <1>5
  <2>3. CASE i > n
    <3>1. i - n \in 1 .. Len(s) - n + 1 /\ n + (i - n) - 1 = i - 1
      BY <2>3
    <3>2. b[i - n] = s[i - 1]
      BY <3>1, <1>2
    <3> QED BY <2>3, <3>2, <1>5
  <2> QED BY <2>1, <2>2, <2>3
<1> QED BY <1>5, <1>6 DEF r

\* Sorted insertion, as in rt_timer_start and rt_ipc_list_suspend.
LEMMA RangeInsertAt ==
  ASSUME NEW S, NEW s \in Seq(S), NEW n \in 1 .. Len(s) + 1, NEW e \in S,
         IsInjective(s), e \notin Range(s)
  PROVE  /\ InsertAt(s, n, e) \in Seq(S)
         /\ Range(InsertAt(s, n, e)) = Range(s) \cup {e}
         /\ IsInjective(InsertAt(s, n, e))
<1> DEFINE r == InsertAt(s, n, e)
<1>1. /\ r \in Seq(S)
      /\ Len(r) = Len(s) + 1
      /\ \A i \in 1 .. Len(s) + 1 :
           r[i] = IF i < n THEN s[i] ELSE IF i = n THEN e ELSE s[i - 1]
  BY InsertAtNodes
<1> HIDE DEF r
<1>2. DOMAIN s = 1 .. Len(s) /\ DOMAIN r = 1 .. Len(s) + 1
  BY <1>1
<1>3. \A i, j \in 1 .. Len(s) : s[i] = s[j] => i = j
  BY <1>2 DEF IsInjective
<1>4. \A i \in 1 .. Len(s) : s[i] # e
  BY <1>2 DEF Range
<1>5. \A i, j \in 1 .. Len(s) + 1 : r[i] = r[j] => i = j
  <2> DEFINE old(i) == IF i < n THEN i ELSE i - 1
  <2>1. ASSUME NEW i \in 1 .. Len(s) + 1, i # n
        PROVE  old(i) \in 1 .. Len(s) /\ r[i] = s[old(i)]
    BY <2>1, <1>1
  <2>2. r[n] = e
    BY <1>1
  <2> SUFFICES ASSUME NEW i \in 1 .. Len(s) + 1, NEW j \in 1 .. Len(s) + 1,
                      r[i] = r[j]
               PROVE  i = j
    OBVIOUS
  <2>3. CASE i = n \/ j = n
    BY <2>1, <2>2, <2>3, <1>4
  <2>4. CASE i # n /\ j # n
    <3>1. old(i) = old(j)
      BY <2>1, <2>4, <1>3
    <3> QED BY <3>1, <2>4
  <2> QED BY <2>3, <2>4
<1>6. Range(r) = Range(s) \cup {e}
  <2>1. ASSUME NEW i \in 1 .. Len(s) + 1 PROVE r[i] \in Range(s) \cup {e}
    <3>1. CASE i < n BY <3>1, <1>1, <1>2 DEF Range
    <3>2. CASE i = n BY <3>2, <1>1
    <3>3. CASE i > n
      <4>1. i - 1 \in 1 .. Len(s) /\ r[i] = s[i - 1] BY <3>3, <1>1
      <4> QED BY <4>1, <1>2 DEF Range
    <3> QED BY <3>1, <3>2, <3>3
  <2>2. ASSUME NEW i \in 1 .. Len(s) PROVE s[i] \in Range(r)
    <3>1. CASE i < n BY <3>1, <1>1, <1>2 DEF Range
    <3>2. CASE i >= n
      <4>1. i + 1 \in 1 .. Len(s) + 1 /\ r[i+1] = s[i] BY <3>2, <1>1
      <4> QED BY <4>1, <1>2 DEF Range
    <3> QED BY <3>1, <3>2
  <2>3. e \in Range(r) BY <1>1, <1>2 DEF Range
  <2> QED BY <2>1, <2>2, <2>3, <1>2 DEF Range
<1> QED BY <1>1, <1>2, <1>5, <1>6 DEF r, IsInjective

\* Taking the first node off a list.
LEMMA RangeHeadTail ==
  ASSUME NEW S, NEW s \in Seq(S), s # <<>>, IsInjective(s)
  PROVE  /\ Head(s) \in Range(s) /\ Head(s) \in S
         /\ Tail(s) \in Seq(S)
         /\ Range(Tail(s)) = Range(s) \ {Head(s)}
         /\ IsInjective(Tail(s))
<1>1. Tail(s) = RemoveAt(s, 1) /\ 1 \in 1..Len(s) /\ Head(s) = s[1]
  BY DEF RemoveAt
<1>2. Head(s) \in Range(s) /\ Head(s) \in S BY <1>1 DEF Range
<1>3. /\ RemoveAt(s, 1) \in Seq(S)
      /\ Range(RemoveAt(s, 1)) = Range(s) \ {s[1]}
      /\ IsInjective(RemoveAt(s, 1))
  BY <1>1, RangeRemoveAt
<1> QED BY <1>1, <1>2, <1>3

\* the list s is sorted by pr: the nodes are in the order of their keys
Sorted(s, pr) == \A i, j \in DOMAIN s : i < j => pr[s[i]] <= pr[s[j]]

\* Removing a node leaves a sorted list sorted.
LEMMA SortedRemoveFirst ==
  ASSUME NEW S, NEW s \in Seq(S), NEW e, NEW pr, Sorted(s, pr)
  PROVE  Sorted(RemoveFirst(s, e), pr)
<1> DEFINE I == {i \in 1 .. Len(s) : s[i] = e}
<1>1. CASE I = {}
  BY <1>1 DEF RemoveFirst
<1>2. CASE I # {}
  <2>0. I \in SUBSET Nat
    OBVIOUS
  <2> HIDE DEF I
  <2>1. Min(I) \in I
    BY <1>2, <2>0, MinOfNats
  <2> USE DEF I
  <2>2. RemoveFirst(s, e) = RemoveAt(s, Min(I))
    BY <1>2 DEF RemoveFirst, SelectInSeq
  <2>3. PICK n \in 1 .. Len(s) : RemoveFirst(s, e) = RemoveAt(s, n)
    BY <2>1, <2>2
  <2> DEFINE r == RemoveAt(s, n)
  <2>4. /\ r \in Seq(S) /\ Len(r) = Len(s) - 1
        /\ \A i \in 1 .. Len(s) - 1 : r[i] = IF i < n THEN s[i] ELSE s[i + 1]
    BY RemoveAtNodes
  <2> HIDE DEF r
  <2>5. \A i, j \in 1 .. Len(s) : i < j => pr[s[i]] <= pr[s[j]]
    BY DEF Sorted
  <2>6. DOMAIN r = 1 .. Len(s) - 1
    BY <2>4
  <2> DEFINE old(i) == IF i < n THEN i ELSE i + 1
  <2>7. \A i \in 1 .. Len(s) - 1 : old(i) \in 1 .. Len(s) /\ r[i] = s[old(i)]
    BY <2>4
  <2>8. \A i, j \in 1 .. Len(s) - 1 : i < j => old(i) < old(j)
    OBVIOUS
  <2> HIDE DEF old
  <2>9. Sorted(r, pr)
    BY <2>5, <2>6, <2>7, <2>8 DEF Sorted
  <2> QED BY <2>3, <2>9 DEF r
<1> QED BY <1>1, <1>2

\* Inserting before the first node that is strictly later leaves it sorted.
LEMMA SortedInsertAt ==
  ASSUME NEW S, NEW s \in Seq(S), NEW e \in S, NEW pr \in [S -> Int], Sorted(s, pr),
         NEW n \in 1 .. Len(s) + 1,
         \A i \in 1 .. Len(s) : i < n => pr[s[i]] <= pr[e],
         \A i \in 1 .. Len(s) : i >= n => pr[e] <= pr[s[i]]
  PROVE  Sorted(InsertAt(s, n, e), pr)
<1> DEFINE r == InsertAt(s, n, e)
<1>1. /\ r \in Seq(S) /\ Len(r) = Len(s) + 1
      /\ \A i \in 1 .. Len(s) + 1 :
           r[i] = IF i < n THEN s[i] ELSE IF i = n THEN e ELSE s[i - 1]
  BY InsertAtNodes
<1> HIDE DEF r
<1>2. \A i, j \in 1 .. Len(s) : i < j => pr[s[i]] <= pr[s[j]]
  BY DEF Sorted
<1>3. DOMAIN r = 1 .. Len(s) + 1
  BY <1>1
<1> SUFFICES ASSUME NEW i \in 1 .. Len(s) + 1, NEW j \in 1 .. Len(s) + 1, i < j
             PROVE  pr[r[i]] <= pr[r[j]]
  BY <1>3 DEF Sorted, r
<1>4. CASE i # n /\ j # n
  <2> DEFINE old(x) == IF x < n THEN x ELSE x - 1
  <2>1. ASSUME NEW x \in 1 .. Len(s) + 1, x # n
        PROVE  old(x) \in 1 .. Len(s) /\ r[x] = s[old(x)]
    <3>0. Len(s) \in Nat /\ n \in Int /\ x \in Int
      OBVIOUS
    <3>1. r[x] = IF x < n THEN s[x] ELSE IF x = n THEN e ELSE s[x - 1]
      BY <1>1
    <3>2. CASE x < n
      <4>1. x \in 1 .. Len(s)
        BY <3>0, <3>2
      <4> QED BY <3>1, <3>2, <4>1
    <3>3. CASE ~(x < n)
      <4>1. x - 1 \in 1 .. Len(s)
        BY <2>1, <3>0, <3>3
      <4> QED BY <2>1, <3>1, <3>3, <4>1
    <3> QED BY <3>2, <3>3
  <2>2. old(i) < old(j)
    BY <1>4
  <2> HIDE DEF old
  <2> QED BY <1>2, <1>4, <2>1, <2>2
<1>5. CASE i = n
  <2>1. r[i] = e /\ r[j] = s[j - 1] /\ j - 1 \in 1 .. Len(s) /\ j - 1 >= n
    BY <1>1, <1>5
  <2> QED BY <2>1
<1>6. CASE j = n
  <2>1. r[j] = e /\ r[i] = s[i] /\ i \in 1 .. Len(s) /\ i < n
    BY <1>1, <1>6
  <2> QED BY <2>1
<1> QED BY <1>4, <1>5, <1>6
-----------------------------------------------------------------------------
Timers == Timer \cup {Delay}

\* what every part of rt_timer_start and rt_timer_stop preserves
Lists(s) ==
  /\ s \in WType
  /\ Range(s.soft) \subseteq Soft
  /\ Range(s.hard) \subseteq (Timer \ Soft) \cup {Delay}
  /\ IsInjective(s.hard) /\ IsInjective(s.soft)

\* where the user thread has taken a timer out of its list
UserOff == {"start_time", "start_on", "stop_flag", "init"}
\* where the timer thread has
ThreadOff == {"callback", "start_time", "start_on"}

CallTypes ==
  /\ isr \in BOOLEAN
  /\ user \in [pc : UserOff \cup {"run", "start_wake", "stop_off"}, t : Timer \cup {End}]
  /\ thread \in [ pc : ThreadOff \cup {"loop", "suspend", "delay", "check", "next"},
                  left : Tick, cur : Tick, n : Soft \cup {End}, t : Soft \cup {End} ]

\* nobody is between the list and the flag of t
Settled(t) == t # thread.t /\ (t = user.t => user.pc \notin UserOff)

\* The user thread moves only while the timer thread sleeps, and that one sleeps
\* with no timer in hand: whoever has a timer in hand has it alone, except that a
\* soft timer may fire between the test of rt_timer_stop and its removal.
CallInv ==
  /\ IF user.pc = "run" THEN user.t = End ELSE user.t \in Timer /\ Owner[user.t] = User
  /\ user.pc \in UserOff => ~InList(w, user.t) /\ user.t # thread.t
  /\ thread.pc \in ThreadOff <=> thread.t # End
  /\ thread.t # End => ~InList(w, thread.t)
  /\ ~w.awake => thread.pc = "check"
  /\ thread.n # End => InList(w, thread.n) /\ thread.pc \in ThreadOff \cup {"next"}

FlagInv ==
  /\ Lists(w) /\ CallTypes /\ CallInv
  /\ \A t \in Timers : Settled(t) => (w.tm[t].act <=> InList(w, t))
-----------------------------------------------------------------------------
(* What one part of an operation on t does: it touches no other timer. *)

Touch(s, u, t) ==
  /\ Lists(u) /\ u.tick = s.tick
  /\ \A x \in Timers \ {t} : u.tm[x] = s.tm[x] /\ (InList(u, x) <=> InList(s, x))

LEMMA Constants ==
  /\ TickMod \in Nat /\ Half \in Nat /\ Half >= 2 /\ 2 * Half <= TickMod - 1 /\ TickMod >= 5
  /\ MaxLate \in Nat /\ MaxLate + 1 < Half
  /\ Delay \in Timers /\ Delay \notin Soft /\ Timer \subseteq Timers /\ Soft \subseteq Timer
  /\ End \notin Timers /\ Delay \notin Timer
<1>1. TickMod \in Nat /\ MaxLate \in Nat /\ MaxLate + 1 < Half
  BY TimerAssumption
<1>2. Half = (TickMod - 1) \div 2
  BY DEF Half, TickMax
<1>3. Half \in Int
  BY <1>1, <1>2
<1>4. Half \in Nat /\ Half >= 2 /\ 2 * Half <= TickMod - 1 /\ TickMod >= 5
  BY <1>1, <1>2, <1>3
<1> QED BY <1>1, <1>4, TimerAssumption DEF Timers

LEMMA TouchAgain ==
  ASSUME NEW s, NEW u, NEW v, NEW t, Touch(s, u, t), Touch(u, v, t)
  PROVE  Touch(s, v, t)
BY DEF Touch

LEMMA InSeq ==
  ASSUME NEW s, Lists(s)
  PROVE  /\ s.hard \in Seq((Timer \ Soft) \cup {Delay}) /\ s.soft \in Seq(Soft)
<1>1. s.hard \in Seq(Timer \cup {Delay}) /\ s.soft \in Seq(Timer)
  BY DEF Lists, WType
<1>2. \A i \in 1 .. Len(s.hard) : s.hard[i] \in Range(s.hard)
  BY <1>1 DEF Range
<1>3. \A i \in 1 .. Len(s.soft) : s.soft[i] \in Range(s.soft)
  BY <1>1 DEF Range
<1>4. s.hard \in Seq((Timer \ Soft) \cup {Delay})
  <2>1. \A i \in 1 .. Len(s.hard) : s.hard[i] \in (Timer \ Soft) \cup {Delay}
    BY <1>2 DEF Lists
  <2> QED BY <1>1, <2>1, SeqDef
<1>5. s.soft \in Seq(Soft)
  <2>1. \A i \in 1 .. Len(s.soft) : s.soft[i] \in Soft
    BY <1>3 DEF Lists
  <2> QED BY <1>1, <2>1, SeqDef
<1> QED BY <1>4, <1>5

LEMMA UnlistTouch ==
  ASSUME NEW s, Lists(s), NEW t \in Timers
  PROVE  LET u == Unlist(s, t)
         IN  /\ Touch(s, u, t) /\ ~InList(u, t) /\ u.awake = s.awake
             /\ u.tm[t] = [s.tm[t] EXCEPT !.at = 0]
             /\ u.hard = RemoveFirst(s.hard, t)
<1> DEFINE u == Unlist(s, t)
<1>1. s \in WType /\ s.tm \in [Timers -> TimerType]
  BY DEF Lists, WType, Timers
<1>2. /\ u.hard = RemoveFirst(s.hard, t) /\ u.soft = RemoveFirst(s.soft, t)
      /\ u.tick = s.tick /\ u.awake = s.awake
      /\ u.tm = [s.tm EXCEPT ![t] = [s.tm[t] EXCEPT !.at = 0]]
  BY <1>1 DEF Unlist, WType
<1>w. ASSUME u.hard \in Seq(Timers), u.soft \in Seq(Timer), u.tm \in [Timers -> TimerType]
      PROVE  u \in WType
  <2>1. u = [[[s EXCEPT !.hard = u.hard] EXCEPT !.soft = u.soft] EXCEPT !.tm = u.tm]
    BY <1>1, <1>2 DEF Unlist, WType
  <2> QED BY <1>w, <1>1, <2>1 DEF WType, Timers
<1> HIDE DEF u
<1>3. 0 \in Tick
  BY Constants DEF Tick, TickMax
<1>4. u.tm[t] = [s.tm[t] EXCEPT !.at = 0] /\ \A x \in Timers \ {t} : u.tm[x] = s.tm[x]
  BY <1>1, <1>2
<1>5. u.tm \in [Timers -> TimerType]
  <2>1. [s.tm[t] EXCEPT !.at = 0] \in TimerType
    BY <1>1, <1>3 DEF TimerType
  <2> QED BY <1>1, <1>2, <2>1
<1>6. /\ u.hard \in Seq(Timers) /\ Range(u.hard) = Range(s.hard) \ {t} /\ IsInjective(u.hard)
  <2>1. s.hard \in Seq(Timers) /\ IsInjective(s.hard)
    BY DEF Lists, WType, Timers
  <2> QED BY <2>1, <1>2, RangeRemoveFirst
<1>7. /\ u.soft \in Seq(Timer) /\ Range(u.soft) = Range(s.soft) \ {t} /\ IsInjective(u.soft)
  <2>1. s.soft \in Seq(Timer) /\ IsInjective(s.soft)
    BY DEF Lists, WType
  <2> QED BY <2>1, <1>2, RangeRemoveFirst
<1>8. Lists(u)
  <2>1. u \in WType
    BY <1>w, <1>5, <1>6, <1>7
  <2> QED BY <2>1, <1>6, <1>7 DEF Lists
<1>9. ~InList(u, t) /\ \A x \in Timers \ {t} : InList(u, x) <=> InList(s, x)
  BY <1>6, <1>7 DEF InList
<1> QED BY <1>2, <1>4, <1>8, <1>9 DEF Touch, u

\* The timer's own fields.
LEMMA FieldTouch ==
  ASSUME NEW s, Lists(s), NEW t \in Timers, NEW r \in TimerType
  PROVE  LET u == [s EXCEPT !.tm[t] = r]
         IN  /\ Touch(s, u, t) /\ (InList(u, t) <=> InList(s, t)) /\ u.awake = s.awake
             /\ u.tm[t] = r /\ u.hard = s.hard
<1> DEFINE u == [s EXCEPT !.tm[t] = r]
<1>1. s \in WType /\ s.tm \in [Timers -> TimerType]
  BY DEF Lists, WType, Timers
<1>2. /\ u.hard = s.hard /\ u.soft = s.soft /\ u.tick = s.tick /\ u.awake = s.awake
      /\ u.tm = [s.tm EXCEPT ![t] = r]
      /\ u = [s EXCEPT !.tm = u.tm]
  BY <1>1 DEF WType
<1> HIDE DEF u
<1>3. u.tm \in [Timers -> TimerType] /\ u.tm[t] = r /\ \A x \in Timers \ {t} : u.tm[x] = s.tm[x]
  BY <1>1, <1>2
<1>4. u \in WType
  BY <1>1, <1>2, <1>3 DEF WType, Timers
<1>5. \A x \in Timers : InList(u, x) <=> InList(s, x)
  BY <1>2 DEF InList
<1>6. Lists(u)
  BY <1>2, <1>4 DEF Lists
<1> QED BY <1>2, <1>3, <1>5, <1>6 DEF Touch, u

LEMMA ActiveTouch ==
  ASSUME NEW s, Lists(s), NEW t \in Timers, NEW b \in BOOLEAN
  PROVE  LET u == SetActive(s, t, b)
         IN  /\ Touch(s, u, t) /\ (InList(u, t) <=> InList(s, t)) /\ u.awake = s.awake
             /\ u.tm[t] = [s.tm[t] EXCEPT !.act = b] /\ u.hard = s.hard
<1>1. s.tm \in [Timers -> TimerType] /\ s \in WType
  BY DEF Lists, WType, Timers
<1>2. [s.tm[t] EXCEPT !.act = b] \in TimerType
  BY <1>1 DEF TimerType
<1>3. SetActive(s, t, b) = [s EXCEPT !.tm[t] = [s.tm[t] EXCEPT !.act = b]]
  BY <1>1 DEF SetActive, WType
<1> QED BY <1>2, <1>3, FieldTouch

LEMMA TimeTouch ==
  ASSUME NEW s, Lists(s), NEW t \in Timers, NEW d \in Nat
  PROVE  LET u == TimeIn(s, t, d)
         IN  /\ Touch(s, u, t) /\ (InList(u, t) <=> InList(s, t)) /\ u.awake = s.awake
             /\ u.tm[t] = [s.tm[t] EXCEPT !.at = (s.tick + d) % TickMod] /\ u.hard = s.hard
<1>1. s.tm \in [Timers -> TimerType] /\ s \in WType /\ s.tick \in Tick
  BY DEF Lists, WType, Timers
<1>0. (s.tick + d) % TickMod \in Tick
  <2>1. s.tick + d \in Nat
    BY <1>1, Constants DEF Tick, TickMax
  <2> QED BY <2>1, Constants DEF Tick, TickMax
<1>2. [s.tm[t] EXCEPT !.at = (s.tick + d) % TickMod] \in TimerType
  BY <1>0, <1>1 DEF TimerType
<1> DEFINE r == [s.tm[t] EXCEPT !.at = (s.tick + d) % TickMod]
<1>3. TimeIn(s, t, d) = [s EXCEPT !.tm[t] = r]
  BY <1>1 DEF TimeIn, WType
<1>4. r \in TimerType
  BY <1>2
<1> HIDE DEF r
<1>5. LET u == [s EXCEPT !.tm[t] = r]
      IN  /\ Touch(s, u, t) /\ (InList(u, t) <=> InList(s, t)) /\ u.awake = s.awake
          /\ u.tm[t] = r /\ u.hard = s.hard
  BY <1>4, FieldTouch
<1> QED BY <1>3, <1>5 DEF r

\* the place at which rt_timer_start inserts
LEMMA PlacedAt ==
  ASSUME NEW s, NEW S, NEW l \in Seq(S), NEW t
  PROVE  \E n \in 1 .. Len(l) + 1 :
           /\ Placed(s, l, t) = InsertAt(l, n, t)
           /\ \A i \in 1 .. Len(l) :
                i < n => Since(s.tm[l[i]].at, s.tm[t].at) \notin 1 .. Half - 1
           /\ n <= Len(l) => Since(s.tm[l[n]].at, s.tm[t].at) \in 1 .. Half - 1
<1> DEFINE later == {i \in DOMAIN l : Since(s.tm[l[i]].at, s.tm[t].at) \in 1 .. Half - 1}
           pos   == CHOOSE i \in later \cup {Len(l) + 1} : \A j \in later : i <= j
<1>1. later \subseteq 1 .. Len(l) /\ later \in SUBSET Nat
  OBVIOUS
<1>2. \E i \in later \cup {Len(l) + 1} : \A j \in later : i <= j
  <2> HIDE DEF later
  <2>1. CASE later = {}
    BY <2>1
  <2>2. CASE later # {}
    BY <1>1, <2>2, MinOfNats
  <2> QED BY <2>1, <2>2
<1>3. pos \in later \cup {Len(l) + 1} /\ \A j \in later : pos <= j
  <2> HIDE DEF later
  <2> QED BY <1>2
<1>4. Placed(s, l, t) = InsertAt(l, pos, t)
  BY DEF Placed
<1>5. \A i \in 1 .. Len(l) : i \in later <=> Since(s.tm[l[i]].at, s.tm[t].at) \in 1 .. Half - 1
  OBVIOUS
<1> HIDE DEF later, pos
<1>6. pos \in 1 .. Len(l) + 1
  BY <1>1, <1>3
<1>7. pos <= Len(l) => pos \in later /\ pos \in 1 .. Len(l)
  BY <1>1, <1>3
<1>8. \A i \in 1 .. Len(l) : i < pos => i \notin later
  BY <1>1, <1>3, <1>6
<1> QED BY <1>4, <1>5, <1>6, <1>7, <1>8

LEMMA OnTouch ==
  ASSUME NEW s, Lists(s), NEW t \in Timers, ~InList(s, t)
  PROVE  LET u == StartOn(s, t)
         IN  /\ Touch(s, u, t) /\ InList(u, t) /\ u.awake = s.awake
             /\ u.tm[t] = [s.tm[t] EXCEPT !.act = TRUE]
             /\ u.hard = IF t \in Soft THEN s.hard ELSE Placed(s, s.hard, t)
<1> DEFINE v == IF t \in Soft THEN [s EXCEPT !.soft = Placed(s, s.soft, t)]
                ELSE [s EXCEPT !.hard = Placed(s, s.hard, t)]
           u == StartOn(s, t)
<1>0. s \in WType /\ u = SetActive(v, t, TRUE)
  BY DEF Lists, WType, StartOn
<1> HIDE DEF u
<1>1. s.hard \in Seq((Timer \ Soft) \cup {Delay}) /\ s.soft \in Seq(Soft)
  BY InSeq
<1>2. CASE t \in Soft
  <2>1. PICK n \in 1 .. Len(s.soft) + 1 : Placed(s, s.soft, t) = InsertAt(s.soft, n, t)
    BY <1>1, PlacedAt
  <2>2. t \notin Range(s.soft) /\ IsInjective(s.soft)
    BY <1>2 DEF InList, Lists
  <2>3. /\ Placed(s, s.soft, t) \in Seq(Soft)
        /\ Range(Placed(s, s.soft, t)) = Range(s.soft) \cup {t}
        /\ IsInjective(Placed(s, s.soft, t))
    BY <1>1, <1>2, <2>1, <2>2, RangeInsertAt
  <2>4. /\ v.soft = Placed(s, s.soft, t) /\ v.hard = s.hard /\ v.tick = s.tick
        /\ v.tm = s.tm /\ v.awake = s.awake
        /\ v = [s EXCEPT !.soft = v.soft]
    BY <1>0, <1>2 DEF WType
  <2> HIDE DEF v
  <2>5. v.soft \in Seq(Timer)
    <3>1. Soft \subseteq Timer
      BY Constants
    <3> QED BY <2>3, <2>4, <3>1
  <2>6. v \in WType
    BY <1>0, <2>4, <2>5 DEF WType
  <2>7. Lists(v)
    BY <2>3, <2>4, <2>6, <1>2 DEF Lists
  <2>8. InList(v, t) /\ \A x \in Timers \ {t} : InList(v, x) <=> InList(s, x)
    BY <2>3, <2>4, <1>2 DEF InList
  <2>9. Touch(s, v, t)
    BY <2>4, <2>7, <2>8 DEF Touch
  <2>10. /\ Touch(v, u, t) /\ (InList(u, t) <=> InList(v, t)) /\ u.awake = v.awake
         /\ u.tm[t] = [v.tm[t] EXCEPT !.act = TRUE] /\ u.hard = v.hard
    BY <1>0, <2>7, ActiveTouch
  <2>11. Touch(s, u, t)
    BY <2>9, <2>10, TouchAgain
  <2> QED BY <1>2, <2>4, <2>8, <2>10, <2>11 DEF u
<1>3. CASE t \notin Soft
  <2>0. t \in (Timer \ Soft) \cup {Delay}
    BY <1>3 DEF Timers
  <2>1. PICK n \in 1 .. Len(s.hard) + 1 : Placed(s, s.hard, t) = InsertAt(s.hard, n, t)
    BY <1>1, PlacedAt
  <2>2. t \notin Range(s.hard) /\ IsInjective(s.hard)
    BY <1>3 DEF InList, Lists
  <2>3. /\ Placed(s, s.hard, t) \in Seq((Timer \ Soft) \cup {Delay})
        /\ Range(Placed(s, s.hard, t)) = Range(s.hard) \cup {t}
        /\ IsInjective(Placed(s, s.hard, t))
    BY <1>1, <2>0, <2>1, <2>2, RangeInsertAt
  <2>4. /\ v.hard = Placed(s, s.hard, t) /\ v.soft = s.soft /\ v.tick = s.tick
        /\ v.tm = s.tm /\ v.awake = s.awake
        /\ v = [s EXCEPT !.hard = v.hard]
    BY <1>0, <1>3 DEF WType
  <2> HIDE DEF v
  <2>5. v.hard \in Seq(Timer \cup {Delay})
    BY <2>3, <2>4
  <2>6. v \in WType
    BY <1>0, <2>4, <2>5 DEF WType
  <2>7. Lists(v)
    BY <2>0, <2>3, <2>4, <2>6, <1>3 DEF Lists
  <2>8. InList(v, t) /\ \A x \in Timers \ {t} : InList(v, x) <=> InList(s, x)
    BY <2>3, <2>4, <1>3 DEF InList
  <2>9. Touch(s, v, t)
    BY <2>4, <2>7, <2>8 DEF Touch
  <2>10. /\ Touch(v, u, t) /\ (InList(u, t) <=> InList(v, t)) /\ u.awake = v.awake
         /\ u.tm[t] = [v.tm[t] EXCEPT !.act = TRUE] /\ u.hard = v.hard
    BY <1>0, <2>7, ActiveTouch
  <2>11. Touch(s, u, t)
    BY <2>9, <2>10, TouchAgain
  <2> QED BY <1>3, <2>4, <2>8, <2>10, <2>11 DEF u
<1> QED BY <1>2, <1>3

LEMMA OffTouch ==
  ASSUME NEW s, Lists(s), NEW t \in Timers
  PROVE  LET u == StartOff(s, t)
         IN  /\ Touch(s, u, t) /\ ~InList(u, t) /\ u.awake = s.awake
             /\ u.tm[t] = [s.tm[t] EXCEPT !.at = 0, !.act = FALSE]
             /\ u.hard = RemoveFirst(s.hard, t)
<1> DEFINE v == Unlist(s, t)
           u == StartOff(s, t)
<1>1. /\ Touch(s, v, t) /\ ~InList(v, t) /\ v.awake = s.awake
      /\ v.tm[t] = [s.tm[t] EXCEPT !.at = 0] /\ v.hard = RemoveFirst(s.hard, t)
  BY UnlistTouch
<1>2. u = SetActive(v, t, FALSE)
  BY DEF StartOff
<1> HIDE DEF v, u
<1>3. Lists(v)
  BY <1>1 DEF Touch
<1>4. /\ Touch(v, u, t) /\ (InList(u, t) <=> InList(v, t)) /\ u.awake = v.awake
      /\ u.tm[t] = [v.tm[t] EXCEPT !.act = FALSE] /\ u.hard = v.hard
  BY <1>2, <1>3, ActiveTouch
<1>5. Touch(s, u, t)
  BY <1>1, <1>4, TouchAgain
<1>6. [v.tm[t] EXCEPT !.act = FALSE] = [s.tm[t] EXCEPT !.at = 0, !.act = FALSE]
  BY <1>1
<1> QED BY <1>1, <1>4, <1>5, <1>6 DEF u

\* rt_timer_start and rt_timer_stop with interrupts disabled by the caller
LEMMA StartTouch ==
  ASSUME NEW s, Lists(s), NEW t \in Timers
  PROVE  LET u == Start(s, t)
         IN  Touch(s, u, t) /\ InList(u, t) /\ u.tm[t].act /\ u.awake = s.awake
<1> DEFINE v == StartOff(s, t)
           x == StartTime(v, t)
           u == Start(s, t)
<1>1. Touch(s, v, t) /\ ~InList(v, t) /\ v.awake = s.awake
  BY OffTouch
<1>2. u = StartOn(x, t)
  BY DEF Start
<1> HIDE DEF v, u
<1>3. Lists(v)
  BY <1>1 DEF Touch
<1>4. x = TimeIn(v, t, v.tm[t].init) /\ v.tm[t].init \in Nat
  <2>1. v.tm \in [Timers -> TimerType]
    BY <1>3 DEF Lists, WType, Timers
  <2>2. v.tm[t].init \in Tick
    BY <2>1 DEF TimerType
  <2>3. Tick \subseteq Nat
    BY Constants DEF Tick, TickMax
  <2> QED BY <2>2, <2>3 DEF StartTime
<1> HIDE DEF x
<1>5. Touch(v, x, t) /\ (InList(x, t) <=> InList(v, t)) /\ x.awake = v.awake
  BY <1>3, <1>4, TimeTouch
<1>6. Lists(x) /\ ~InList(x, t)
  BY <1>1, <1>5 DEF Touch
<1>7. /\ Touch(x, u, t) /\ InList(u, t) /\ u.awake = x.awake
      /\ u.tm[t] = [x.tm[t] EXCEPT !.act = TRUE]
  BY <1>2, <1>6, OnTouch
<1>8. u.tm[t].act
  <2>1. x.tm[t] \in TimerType
    BY <1>6 DEF Lists, WType, Timers
  <2> QED BY <1>7, <2>1 DEF TimerType
<1>9. Touch(s, u, t)
  BY <1>1, <1>5, <1>7, TouchAgain
<1> QED BY <1>1, <1>5, <1>7, <1>8, <1>9 DEF u

LEMMA StopTouch ==
  ASSUME NEW s, Lists(s), NEW t \in Timers, s.tm[t].act <=> InList(s, t)
  PROVE  LET u == Stop(s, t)
         IN  Touch(s, u, t) /\ ~InList(u, t) /\ ~u.tm[t].act /\ u.awake = s.awake
<1>1. CASE s.tm[t].act
  <2> DEFINE u == StartOff(s, t)
  <2>1. Stop(s, t) = u
    BY <1>1 DEF Stop, StartOff
  <2>2. /\ Touch(s, u, t) /\ ~InList(u, t) /\ u.awake = s.awake
        /\ u.tm[t] = [s.tm[t] EXCEPT !.at = 0, !.act = FALSE]
    BY OffTouch
  <2>3. s.tm[t] \in TimerType
    BY DEF Lists, WType, Timers
  <2>4. ~u.tm[t].act
    BY <2>2, <2>3 DEF TimerType
  <2> HIDE DEF u
  <2> QED BY <2>1, <2>2, <2>4
<1>2. CASE ~s.tm[t].act
  BY <1>2 DEF Stop, Touch
<1> QED BY <1>1, <1>2
-----------------------------------------------------------------------------
(* The flag and the list *)

LEMMA FlagInit == Init => FlagInv
<1> SUFFICES ASSUME Init PROVE FlagInv
  OBVIOUS
<1>1. 0 \in Tick /\ \A n \in 0 .. Half - 1 : n \in Tick
  BY Constants DEF Tick, TickMax
<1>2. \A t \in Timer : (CHOOSE kind \in Kinds[t] : TRUE) \in (1 .. Half - 1) \X BOOLEAN
  <2> SUFFICES ASSUME NEW t \in Timer
               PROVE  (CHOOSE kind \in Kinds[t] : TRUE) \in (1 .. Half - 1) \X BOOLEAN
    OBVIOUS
  <2>1. Kinds[t] \in (SUBSET ((1 .. Half - 1) \X BOOLEAN)) \ {{}}
    BY TimerAssumption
  <2>2. \E kind \in Kinds[t] : TRUE
    BY <2>1
  <2>3. (CHOOSE kind \in Kinds[t] : TRUE) \in Kinds[t]
    BY <2>2
  <2> QED BY <2>1, <2>3
<1>3. \A t \in Timers :
        LET kind == IF t = Delay THEN <<0, FALSE>> ELSE CHOOSE kind \in Kinds[t] : TRUE
        IN  kind[1] \in Tick /\ kind[2] \in BOOLEAN
  <2> SUFFICES ASSUME NEW t \in Timers
               PROVE  LET kind == IF t = Delay THEN <<0, FALSE>> ELSE CHOOSE kind \in Kinds[t] : TRUE
                      IN  kind[1] \in Tick /\ kind[2] \in BOOLEAN
    OBVIOUS
  <2>1. CASE t = Delay
    BY <1>1, <2>1
  <2>2. CASE t # Delay
    <3> DEFINE c == CHOOSE kind \in Kinds[t] : TRUE
    <3>1. c \in (1 .. Half - 1) \X BOOLEAN
      BY <1>2, <2>2 DEF Timers
    <3> HIDE DEF c
    <3>2. c[1] \in 1 .. Half - 1 /\ c[2] \in BOOLEAN
      BY <3>1
    <3>3. c[1] \in 0 .. Half - 1
      BY <3>2, Constants
    <3> QED BY <1>1, <2>2, <3>2, <3>3 DEF c
  <2> QED BY <2>1, <2>2
<1> DEFINE kindOf(t) == IF t = Delay THEN <<0, FALSE>> ELSE CHOOSE kind \in Kinds[t] : TRUE
<1>4. w.tm = [t \in Timers |-> Stopped(kindOf(t))]
  BY DEF Init, Timers
<1>5. \A t \in Timers : kindOf(t)[1] \in Tick /\ kindOf(t)[2] \in BOOLEAN
  BY <1>3
<1> HIDE DEF kindOf
<1>6. \A t \in Timers : Stopped(kindOf(t)) \in TimerType /\ ~Stopped(kindOf(t)).act
  BY <1>1, <1>5 DEF Stopped, TimerType
<1>7. w.tm \in [Timers -> TimerType] /\ \A t \in Timers : ~w.tm[t].act
  BY <1>4, <1>6
<1>8. w.hard = <<>> /\ w.soft = <<>> /\ w.tick = 0 /\ w.awake = TRUE
  BY DEF Init
<1>9. w = [tick |-> 0, hard |-> <<>>, soft |-> <<>>, awake |-> TRUE, tm |-> w.tm]
  BY DEF Init
<1>10. Range(w.hard) = {} /\ Range(w.soft) = {} /\ IsInjective(w.hard) /\ IsInjective(w.soft)
  BY <1>8 DEF Range, IsInjective
<1>11. Lists(w)
  <2>1. w \in WType
    <3>1. <<>> \in Seq(Timer \cup {Delay}) /\ <<>> \in Seq(Timer)
      OBVIOUS
    <3>2. PICK f \in [Timer \cup {Delay} -> TimerType] :
                 w = [tick |-> 0, hard |-> <<>>, soft |-> <<>>, awake |-> TRUE, tm |-> f]
      BY <1>7, <1>9 DEF Timers
    <3> QED BY <1>1, <3>1, <3>2 DEF WType
  <2> QED BY <2>1, <1>10 DEF Lists
<1>12. CallTypes /\ CallInv
  <2>1. /\ isr = FALSE /\ user = [pc |-> "run", t |-> End]
        /\ thread = [pc |-> "loop", left |-> 0, cur |-> 0, n |-> End, t |-> End]
    BY DEF Init
  <2> QED BY <2>1, <1>1, <1>8 DEF CallTypes, CallInv, UserOff, ThreadOff
<1>13. \A t \in Timers : ~InList(w, t)
  BY <1>10 DEF InList
<1> QED BY <1>7, <1>11, <1>12, <1>13 DEF FlagInv

\* A step that touches one timer.
LEMMA FlagStep ==
  ASSUME FlagInv, NEW t \in Timers, Touch(w, w', t), CallTypes', CallInv',
         \A x \in Timers \ {t} : Settled(x)' => Settled(x),
         Settled(t)' => (w'.tm[t].act <=> InList(w', t))
  PROVE  FlagInv'
<1>1. Lists(w')
  BY DEF Touch
<1>2. ASSUME NEW x \in Timers, Settled(x)'
      PROVE  w'.tm[x].act <=> InList(w', x)
  <2>1. CASE x = t
    BY <1>2, <2>1
  <2>2. CASE x # t
    BY <1>2, <2>2 DEF Touch, FlagInv
  <2> QED BY <2>1, <2>2
<1>3. \A x \in Timers : Settled(x)' => (w'.tm[x].act <=> InList(w', x))
  BY <1>2
<1>4. Lists(w)' /\ \A x \in Timers : InList(w, x)' = InList(w', x)
  BY <1>1 DEF Lists, WType, InList, TimerType
<1> QED BY <1>3, <1>4 DEF FlagInv

\* A step of the user thread on the timer t, while the timer thread sleeps.
LEMMA UserStep ==
  ASSUME FlagInv, ~w.awake, NEW t \in Timer, Owner[t] = User, Touch(w, w', t), w'.awake = w.awake,
         thread' = thread, isr' = isr, user.t \in {End, t},
         user' \in [pc : UserOff \cup {"run", "start_wake", "stop_off"}, t : Timer \cup {End}],
         user'.t = IF user'.pc = "run" THEN End ELSE t,
         user'.pc \in UserOff => ~InList(w', t),
         user'.pc \notin UserOff => (w'.tm[t].act <=> InList(w', t))
  PROVE  FlagInv'
<1>0. t \in Timers /\ End \notin Timers
  BY Constants
<1>1. CallTypes'
  BY DEF FlagInv, CallTypes
<1>2. thread.pc = "check" /\ thread.t = End /\ thread.n = End
  BY DEF FlagInv, CallInv, ThreadOff
<1>3. CallInv'
  <2>1. (IF user.pc = "run" THEN user.t = End ELSE user.t \in Timer /\ Owner[user.t] = User)'
    <3>1. CASE user'.pc = "run"
      BY <3>1
    <3>2. CASE user'.pc # "run"
      BY <3>2
    <3> QED BY <3>1, <3>2
  <2>2. (user.pc \in UserOff => ~InList(w, user.t) /\ user.t # thread.t)'
    BY <1>0, <1>2 DEF InList, UserOff
  <2>3. (thread.pc \in ThreadOff <=> thread.t # End)'
    BY <1>2 DEF ThreadOff
  <2>4. (thread.t # End => ~InList(w, thread.t))'
    BY <1>2
  <2>5. (~w.awake => thread.pc = "check")'
    BY <1>2
  <2>6. (thread.n # End => InList(w, thread.n) /\ thread.pc \in ThreadOff \cup {"next"})'
    BY <1>2
  <2> QED BY <2>1, <2>2, <2>3, <2>4, <2>5, <2>6 DEF CallInv
<1>4. ASSUME NEW x \in Timers \ {t}, Settled(x)' PROVE Settled(x)
  <2>1. x # thread.t
    BY <1>4 DEF Settled
  <2>2. x # user.t
    BY <1>0
  <2> QED BY <2>1, <2>2 DEF Settled
<1>5. Settled(t)' => (w'.tm[t].act <=> InList(w', t))
  <2>1. user'.pc \in UserOff => user'.t = t
    BY DEF UserOff
  <2> QED BY <2>1 DEF Settled
<1> QED BY <1>0, <1>1, <1>3, <1>4, <1>5, FlagStep

\* Where the user thread is, when it runs.
LEMMA UserRuns ==
  ASSUME FlagInv, NEW pc, UserAt(pc)
  PROVE  /\ ~w.awake /\ Lists(w) /\ user.pc = pc
         /\ pc = "run" => user.t = End
         /\ pc # "run" => user.t \in Timer /\ user.t \in Timers /\ Owner[user.t] = User
         /\ pc \in UserOff => ~InList(w, user.t)
         /\ \A t \in Timer : pc = "run" \/ (user.t = t /\ pc \notin UserOff) =>
              (w.tm[t].act <=> InList(w, t))
<1>1. ~w.awake /\ Lists(w) /\ user.pc = pc
  BY DEF FlagInv, UserAt
<1>2. /\ pc = "run" => user.t = End
      /\ pc # "run" => user.t \in Timer /\ Owner[user.t] = User
      /\ pc \in UserOff => ~InList(w, user.t)
  BY <1>1 DEF FlagInv, CallInv
<1>3. Timer \subseteq Timers /\ End \notin Timers
  BY Constants
<1>4. thread.t = End
  BY <1>1 DEF FlagInv, CallInv, ThreadOff
<1>5. ASSUME NEW t \in Timer, pc = "run" \/ (user.t = t /\ pc \notin UserOff)
      PROVE  w.tm[t].act <=> InList(w, t)
  <2>1. Settled(t)
    BY <1>1, <1>2, <1>3, <1>4, <1>5 DEF Settled
  <2> QED BY <1>3, <2>1 DEF FlagInv
<1> QED BY <1>1, <1>2, <1>3, <1>5

LEMMA UserInv ==
  ASSUME FlagInv, UserNext
  PROVE  FlagInv'
<1>0. Timer \subseteq Timers /\ Tick \subseteq Nat
  BY Constants DEF Tick, TickMax
<1>1. ASSUME NEW t \in Timer, Owner[t] = User, rt_timer_start(t) PROVE FlagInv'
  <2>1. /\ UserAt("run") /\ w' = StartOff(w, t) /\ user' = [pc |-> "start_time", t |-> t]
        /\ isr' = isr /\ thread' = thread
    BY <1>1 DEF rt_timer_start, UserGoto
  <2>2. Touch(w, w', t) /\ ~InList(w', t) /\ w'.awake = w.awake
    BY <1>0, <2>1, UserRuns, OffTouch
  <2>3. ~w.awake /\ user.t = End
    BY <2>1, UserRuns
  <2> QED BY <1>1, <2>1, <2>2, <2>3, UserStep DEF UserOff
<1>2. ASSUME UserStartTime PROVE FlagInv'
  <2> DEFINE t == user.t
  <2>1. /\ UserAt("start_time") /\ w' = StartTime(w, t) /\ user' = [pc |-> "start_on", t |-> t]
        /\ isr' = isr /\ thread' = thread
    BY <1>2 DEF UserStartTime, UserGoto
  <2>2. /\ t \in Timer /\ t \in Timers /\ Owner[t] = User /\ ~InList(w, t) /\ ~w.awake /\ Lists(w)
    BY <2>1, UserRuns DEF UserOff
  <2>3. w.tm[t].init \in Nat /\ w' = TimeIn(w, t, w.tm[t].init)
    <3>1. w.tm \in [Timers -> TimerType]
      BY <2>2 DEF Lists, WType, Timers
    <3>2. w.tm[t].init \in Tick
      BY <2>2, <3>1 DEF TimerType
    <3> QED BY <1>0, <2>1, <3>2 DEF StartTime
  <2> HIDE DEF t
  <2>4. Touch(w, w', t) /\ ~InList(w', t) /\ w'.awake = w.awake
    BY <2>2, <2>3, TimeTouch
  <2>5. user.t \in {End, t}
    BY DEF t
  <2> QED BY <2>1, <2>2, <2>4, <2>5, UserStep DEF UserOff
<1>3. ASSUME UserStartOn PROVE FlagInv'
  <2> DEFINE t == user.t
  <2>1. /\ UserAt("start_on") /\ w' = StartOn(w, t)
        /\ user' = IF t \in Soft THEN [pc |-> "start_wake", t |-> t] ELSE [pc |-> "run", t |-> End]
        /\ isr' = isr /\ thread' = thread
    BY <1>3 DEF UserStartOn, UserGoto
  <2>2. /\ t \in Timer /\ t \in Timers /\ Owner[t] = User /\ ~InList(w, t) /\ ~w.awake /\ Lists(w)
    BY <2>1, UserRuns DEF UserOff
  <2>5. user.t \in {End, t}
    OBVIOUS
  <2> HIDE DEF t
  <2>3. /\ Touch(w, w', t) /\ InList(w', t) /\ w'.awake = w.awake
        /\ w'.tm[t] = [w.tm[t] EXCEPT !.act = TRUE]
    BY <2>1, <2>2, OnTouch
  <2>4. w'.tm[t].act
    <3>1. w.tm[t] \in TimerType
      BY <2>2 DEF Lists, WType, Timers
    <3> QED BY <2>3, <3>1 DEF TimerType
  <2>6. /\ user' \in [pc : UserOff \cup {"run", "start_wake", "stop_off"}, t : Timer \cup {End}]
        /\ user'.t = IF user'.pc = "run" THEN End ELSE t
        /\ user'.pc \notin UserOff
    BY <2>1, <2>2 DEF UserOff
  <2> QED BY <2>1, <2>2, <2>3, <2>4, <2>5, <2>6, UserStep
<1>4. ASSUME NEW t \in Timer, Owner[t] = User, rt_timer_stop(t) PROVE FlagInv'
  <2>1. /\ UserAt("run") /\ w' = w /\ user' = [pc |-> "stop_off", t |-> t]
        /\ isr' = isr /\ thread' = thread
    BY <1>4 DEF rt_timer_stop, UserGoto
  <2>2. Lists(w) /\ ~w.awake /\ user.t = End /\ (w.tm[t].act <=> InList(w, t))
    BY <2>1, UserRuns
  <2>3. Touch(w, w', t)
    BY <2>1, <2>2 DEF Touch
  <2> QED BY <1>4, <2>1, <2>2, <2>3, UserStep DEF UserOff
<1>5. ASSUME UserStopOff PROVE FlagInv'
  <2> DEFINE t == user.t
  <2>1. /\ UserAt("stop_off") /\ w' = Unlist(w, t) /\ user' = [pc |-> "stop_flag", t |-> t]
        /\ isr' = isr /\ thread' = thread
    BY <1>5 DEF UserStopOff, UserGoto
  <2>2. /\ t \in Timer /\ t \in Timers /\ Owner[t] = User /\ ~w.awake /\ Lists(w) /\ user.t \in {End, t}
    BY <2>1, UserRuns
  <2> HIDE DEF t
  <2>3. Touch(w, w', t) /\ ~InList(w', t) /\ w'.awake = w.awake
    BY <2>1, <2>2, UnlistTouch
  <2> QED BY <2>1, <2>2, <2>3, UserStep DEF UserOff
<1>6. ASSUME UserStopFlag PROVE FlagInv'
  <2> DEFINE t == user.t
  <2>1. /\ UserAt("stop_flag") /\ w' = SetActive(w, t, FALSE) /\ user' = [pc |-> "run", t |-> End]
        /\ isr' = isr /\ thread' = thread
    BY <1>6 DEF UserStopFlag, UserGoto
  <2>2. /\ t \in Timer /\ t \in Timers /\ Owner[t] = User /\ ~InList(w, t) /\ ~w.awake /\ Lists(w)
        /\ user.t \in {End, t}
    BY <2>1, UserRuns DEF UserOff
  <2> HIDE DEF t
  <2>3. /\ Touch(w, w', t) /\ ~InList(w', t) /\ w'.awake = w.awake
        /\ w'.tm[t] = [w.tm[t] EXCEPT !.act = FALSE]
    BY <2>1, <2>2, ActiveTouch
  <2>4. ~w'.tm[t].act
    <3>1. w.tm[t] \in TimerType
      BY <2>2 DEF Lists, WType, Timers
    <3> QED BY <2>3, <3>1 DEF TimerType
  <2> QED BY <2>1, <2>2, <2>3, <2>4, UserStep DEF UserOff
<1>k. \A t \in Timer : \A kind \in Kinds[t] :
        /\ kind[1] \in Tick /\ kind[2] \in BOOLEAN /\ kind[1] \in 1 .. Half - 1
        /\ Stopped(kind) \in TimerType
  <2> SUFFICES ASSUME NEW t \in Timer, NEW kind \in Kinds[t]
               PROVE  /\ kind[1] \in Tick /\ kind[2] \in BOOLEAN /\ kind[1] \in 1 .. Half - 1
                      /\ Stopped(kind) \in TimerType
    OBVIOUS
  <2>1. Kinds[t] \in (SUBSET ((1 .. Half - 1) \X BOOLEAN)) \ {{}}
    BY TimerAssumption
  <2>2. kind[1] \in 1 .. Half - 1 /\ kind[2] \in BOOLEAN
    BY <2>1
  <2>3. kind[1] \in Tick /\ 0 \in Tick
    BY <2>2, Constants DEF Tick, TickMax
  <2> QED BY <2>2, <2>3 DEF Stopped, TimerType
<1>7. ASSUME NEW t \in Timer, Owner[t] = User, NEW kind \in Kinds[t], rt_timer_control(t, kind)
      PROVE  FlagInv'
  <2>1. /\ UserAt("run") /\ user' = [pc |-> "run", t |-> End] /\ isr' = isr /\ thread' = thread
        /\ w' = [w EXCEPT !.tm[t].init = kind[1], !.tm[t].per = kind[2]]
    BY <1>7 DEF rt_timer_control, UserGoto
  <2>2. Lists(w) /\ ~w.awake /\ user.t = End /\ (w.tm[t].act <=> InList(w, t))
    BY <2>1, UserRuns
  <2> DEFINE r == [w.tm[t] EXCEPT !.init = kind[1], !.per = kind[2]]
  <2>3. t \in Timers /\ w \in WType /\ w.tm \in [Timers -> TimerType] /\ w.tm[t] \in TimerType
    BY <1>0, <2>2 DEF Lists, WType, Timers
  <2>4. r \in TimerType /\ r.act = w.tm[t].act
    BY <1>k, <1>7, <2>3 DEF TimerType
  <2>5. w' = [w EXCEPT !.tm[t] = r]
    BY <2>1, <2>3 DEF WType
  <2> HIDE DEF r
  <2>6. /\ Touch(w, w', t) /\ (InList(w', t) <=> InList(w, t)) /\ w'.awake = w.awake
        /\ w'.tm[t] = r
    BY <2>2, <2>3, <2>4, <2>5, FieldTouch
  <2> QED BY <1>7, <2>1, <2>2, <2>4, <2>6, UserStep DEF UserOff
<1>8. ASSUME NEW t \in Timer, Owner[t] = User, rt_timer_detach(t) PROVE FlagInv'
  <2>1. /\ UserAt("run") /\ w' = Unlist(w, t) /\ user' = [pc |-> "init", t |-> t]
        /\ isr' = isr /\ thread' = thread
    BY <1>8 DEF rt_timer_detach, UserGoto
  <2>2. Touch(w, w', t) /\ ~InList(w', t) /\ w'.awake = w.awake
    BY <1>0, <2>1, UserRuns, UnlistTouch
  <2>3. ~w.awake /\ user.t = End
    BY <2>1, UserRuns
  <2> QED BY <1>8, <2>1, <2>2, <2>3, UserStep DEF UserOff
<1>9. ASSUME NEW t \in Timer \cap {user.t}, NEW kind \in Kinds[t], rt_timer_init(kind)
      PROVE  FlagInv'
  <2>1. /\ UserAt("init") /\ user' = [pc |-> "run", t |-> End] /\ isr' = isr /\ thread' = thread
        /\ w' = [w EXCEPT !.tm[t] = Stopped(kind)]
    BY <1>9 DEF rt_timer_init, UserGoto
  <2>2. /\ t \in Timer /\ t \in Timers /\ Owner[t] = User /\ ~InList(w, t) /\ ~w.awake /\ Lists(w)
        /\ user.t \in {End, t}
    BY <2>1, UserRuns DEF UserOff
  <2> DEFINE r == Stopped(kind)
  <2>3. r \in TimerType /\ ~r.act
    BY <1>k, <2>2 DEF Stopped
  <2> HIDE DEF r
  <2>4. /\ Touch(w, w', t) /\ (InList(w', t) <=> InList(w, t)) /\ w'.awake = w.awake
        /\ w'.tm[t] = r
    BY <2>1, <2>2, <2>3, FieldTouch DEF r
  <2> QED BY <2>1, <2>2, <2>3, <2>4, UserStep DEF UserOff
<1>10. ASSUME UserStartWake PROVE FlagInv'
  <2>1. /\ UserAt("start_wake") /\ w' = Wake(w) /\ user' = [pc |-> "run", t |-> End]
        /\ isr' = isr /\ thread' = thread
    BY <1>10 DEF UserStartWake, UserGoto
  <2>2. ~w.awake /\ Lists(w) /\ user.pc = "start_wake" /\ user.t \in Timer
    BY <2>1, UserRuns
  <2>3. Delay \in Timers /\ Delay \notin Timer /\ End \notin Timers
    BY Constants
  <2>4. thread.pc = "check" /\ thread.t = End /\ thread.n = End
    BY <2>2 DEF FlagInv, CallInv, ThreadOff
  <2>5. w.tm[Delay].act <=> InList(w, Delay)
    <3>1. Settled(Delay)
      BY <2>2, <2>3, <2>4 DEF Settled
    <3> QED BY <2>3, <3>1 DEF FlagInv
  <2> DEFINE v == Stop(w, Delay)
  <2>6. Touch(w, v, Delay) /\ ~InList(v, Delay) /\ ~v.tm[Delay].act
    BY <2>2, <2>3, <2>5, StopTouch
  <2>7. w' = [v EXCEPT !.awake = TRUE]
    BY <2>1, <2>2 DEF Wake
  <2> HIDE DEF v
  <2>8. Lists(v) /\ v \in WType
    BY <2>6 DEF Touch, Lists
  <2>9. w' \in WType /\ w'.hard = v.hard /\ w'.soft = v.soft /\ w'.tm = v.tm /\ w'.tick = v.tick
        /\ w'.awake = TRUE
    BY <2>7, <2>8 DEF WType
  <2>10. Touch(w, w', Delay) /\ ~InList(w', Delay) /\ ~w'.tm[Delay].act
    BY <2>6, <2>8, <2>9 DEF Touch, Lists, InList
  <2>11. CallTypes'
    BY <2>1 DEF FlagInv, CallTypes
  <2>12. CallInv'
    BY <2>1, <2>4, <2>9 DEF CallInv, ThreadOff, UserOff
  <2>13. ASSUME NEW x \in Timers \ {Delay}, Settled(x)' PROVE Settled(x)
    BY <2>1, <2>2, <2>13 DEF Settled, UserOff
  <2> QED BY <2>3, <2>10, <2>11, <2>12, <2>13, FlagStep
<1> QED BY <1>1, <1>2, <1>3, <1>4, <1>5, <1>6, <1>7, <1>8, <1>9, <1>10
        DEF UserNext, UserRest

\* A step of the timer thread on the timer t.
LEMMA ThreadStep ==
  ASSUME FlagInv, NEW t \in Timers, Touch(w, w', t), user' = user, isr' = isr,
         user.pc \in UserOff => user.t # t,
         thread' \in [ pc : ThreadOff \cup {"loop", "suspend", "delay", "check", "next"},
                       left : Tick, cur : Tick, n : Soft \cup {End}, t : Soft \cup {End} ],
         thread'.pc \in ThreadOff <=> thread'.t # End,
         thread'.t # End => thread'.t = t /\ ~InList(w', t),
         thread.t # End => thread.t = t,
         thread'.t = End => (w'.tm[t].act <=> InList(w', t)),
         ~w'.awake => thread'.pc = "check",
         thread'.n # End => InList(w', thread'.n) /\ thread'.pc \in ThreadOff \cup {"next"}
  PROVE  FlagInv'
<1>0. End \notin Timers /\ Timer \subseteq Timers
  BY Constants
<1>1. CallTypes'
  BY DEF FlagInv, CallTypes
<1>2. CallInv'
  <2>1. (IF user.pc = "run" THEN user.t = End ELSE user.t \in Timer /\ Owner[user.t] = User)'
    BY DEF FlagInv, CallInv
  <2>2. (user.pc \in UserOff => ~InList(w, user.t) /\ user.t # thread.t)'
    <3> SUFFICES ASSUME user.pc \in UserOff
                 PROVE  ~InList(w', user.t) /\ user.t # thread'.t
      BY DEF InList
    <3>1. user.t \in Timers /\ user.t # t /\ ~InList(w, user.t)
      BY <1>0 DEF FlagInv, CallInv, UserOff
    <3> QED BY <1>0, <3>1 DEF Touch
  <2>3. (thread.t # End => ~InList(w, thread.t))'
    BY DEF InList
  <2>4. (thread.n # End => InList(w, thread.n) /\ thread.pc \in ThreadOff \cup {"next"})'
    BY DEF InList
  <2> QED BY <2>1, <2>2, <2>3, <2>4 DEF CallInv
<1>3. ASSUME NEW x \in Timers \ {t}, Settled(x)' PROVE Settled(x)
  BY <1>0, <1>3 DEF Settled
<1>4. Settled(t)' => (w'.tm[t].act <=> InList(w', t))
  BY DEF Settled
<1> QED BY <1>1, <1>2, <1>3, <1>4, FlagStep

\* the timer behind t in a list
LEMMA NextInList ==
  ASSUME NEW l \in Seq(Soft), IsInjective(l), NEW t \in Range(l)
  PROVE  Next1(l, t) = End \/ (Next1(l, t) \in Range(l) /\ Next1(l, t) # t)
<1> DEFINE i == CHOOSE i \in DOMAIN l : l[i] = t
           r == SubSeq(l, i + 1, Len(l))
<1>1. \E j \in DOMAIN l : l[j] = t
  BY DEF Range
<1>2. i \in DOMAIN l /\ l[i] = t
  BY <1>1
<1>3. Next1(l, t) = First(r)
  BY DEF Next1
<1> HIDE DEF i
<1>4. i \in 1 .. Len(l)
  BY <1>2
<1>5. CASE i = Len(l)
  <2>1. r = <<>>
    BY <1>4, <1>5
  <2> QED BY <1>3, <2>1 DEF First
<1>6. CASE i < Len(l)
  <2>1. r \in Seq(Soft) /\ Len(r) = Len(l) - i /\ r[1] = l[i + 1] /\ r # <<>>
    BY <1>4, <1>6
  <2>2. Head(r) = l[i + 1]
    BY <2>1
  <2>3. i + 1 \in DOMAIN l /\ i + 1 # i
    BY <1>4, <1>6
  <2>4. l[i + 1] \in Range(l) /\ l[i + 1] # t
    BY <1>2, <2>3 DEF Range, IsInjective
  <2> HIDE DEF r
  <2> QED BY <1>3, <2>1, <2>2, <2>4 DEF First
<1> QED BY <1>4, <1>5, <1>6

LEMMA ThreadInv ==
  ASSUME FlagInv, ThreadNext
  PROVE  FlagInv'
<1> DEFINE TT == [ pc : ThreadOff \cup {"loop", "suspend", "delay", "check", "next"},
                   left : Tick, cur : Tick, n : Soft \cup {End}, t : Soft \cup {End} ]
<1>0. /\ Delay \in Timers /\ Delay \notin Timer /\ End \notin Timers
      /\ Soft \subseteq Timers /\ Tick \subseteq Nat /\ 0 \in Tick
  BY Constants DEF Tick, TickMax
<1>1. /\ Lists(w) /\ thread \in TT /\ w \in WType /\ w.tick \in Tick
      /\ w.tm \in [Timers -> TimerType]
  BY DEF FlagInv, CallTypes, Lists, WType, Timers
<1>2. /\ thread.pc \in ThreadOff <=> thread.t # End
      /\ thread.t # End => ~InList(w, thread.t) /\ thread.t \in Timers /\ thread.t \in Soft
      /\ thread.n # End => InList(w, thread.n) /\ thread.pc \in ThreadOff \cup {"next"}
      /\ user.pc \in UserOff => user.t \in Timer /\ user.t # thread.t /\ ~InList(w, user.t)
  BY <1>0, <1>1 DEF FlagInv, CallInv, UserOff
<1>3. \A x \in Timers : thread.t = End /\ InList(w, x) => w.tm[x].act
  <2> SUFFICES ASSUME NEW x \in Timers, thread.t = End, InList(w, x) PROVE w.tm[x].act
    OBVIOUS
  <2>1. Settled(x)
    BY <1>0, <1>2 DEF Settled
  <2> QED BY <2>1 DEF FlagInv
<1>4. thread.t = End => (w.tm[Delay].act <=> InList(w, Delay))
  <2> SUFFICES ASSUME thread.t = End PROVE w.tm[Delay].act <=> InList(w, Delay)
    OBVIOUS
  <2>1. Settled(Delay)
    BY <1>0, <1>2 DEF Settled
  <2> QED BY <1>0, <2>1 DEF FlagInv
<1>5. user.pc \in UserOff => user.t # Delay
  BY <1>0, <1>2
<1>6. Touch(w, w, Delay)
  BY <1>1 DEF Touch
<1>7. ASSUME ThreadLoop PROVE FlagInv'
  <2>1. w' = w /\ user' = user /\ isr' = isr /\ thread.pc = "loop" /\ w.awake
    BY <1>7 DEF ThreadLoop, ThreadAt, ThreadGoto, ThreadIs
  <2>2. thread.t = End /\ thread.n = End
    BY <1>2, <2>1 DEF ThreadOff
  <2>3. thread' \in TT /\ thread'.pc \in {"suspend", "delay", "check"} /\ thread'.t = End /\ thread'.n = End
    <3> DEFINE left == Since(NextTimeout, w.tick)
    <3>1. \/ \E pc \in {"suspend", "check"} : thread' = [thread EXCEPT !.pc = pc]
          \/ left < Half /\ thread' = [thread EXCEPT !.pc = "delay", !.left = left]
      BY <1>7 DEF ThreadLoop, ThreadGoto, ThreadIs
    <3>2. left \in Tick
      <4>1. NextTimeout \in Tick
        <5>1. CASE w.soft = <<>>
          BY <5>1, Constants DEF NextTimeout, Tick, TickMax
        <5>2. CASE w.soft # <<>>
          <6>1. w.soft \in Seq(Soft)
            BY <1>1, InSeq
          <6>2. Head(w.soft) \in Soft
            BY <5>2, <6>1
          <6>3. w.tm[Head(w.soft)] \in TimerType
            BY <1>0, <1>1, <6>2
          <6>4. w.tm[Head(w.soft)].at \in Tick
            BY <6>3 DEF TimerType
          <6> QED BY <5>2, <6>4 DEF NextTimeout
        <5> QED BY <5>1, <5>2
      <4> DEFINE a == NextTimeout
      <4>2. a \in Int /\ w.tick \in Int
        <5>1. \A x \in Tick : x \in Int
          BY <1>0
        <5>2. w.tick \in Tick
          BY <1>1
        <5> QED BY <4>1, <5>1, <5>2, Zenon
      <4> HIDE DEF a
      <4>3. (a - w.tick) % TickMod \in 0 .. TickMod - 1
        BY <4>2, Constants
      <4> QED BY <4>3 DEF a, Since, Tick, TickMax
    <3> HIDE DEF left
    <3> QED BY <1>1, <2>2, <3>1, <3>2 DEF ThreadOff
  <2> HIDE DEF TT
  <2>4. Touch(w, w', Delay) /\ (w'.tm[Delay].act <=> InList(w', Delay)) /\ w'.awake
    BY <1>4, <1>6, <2>1, <2>2
  <2>5. thread'.pc \notin ThreadOff
    BY <2>3 DEF ThreadOff
  <2> QED BY <1>0, <1>5, <2>1, <2>2, <2>3, <2>4, <2>5, ThreadStep DEF TT
<1>8. ASSUME ThreadSuspend PROVE FlagInv'
  <2>1. /\ w' = [w EXCEPT !.awake = FALSE] /\ user' = user /\ isr' = isr /\ thread.pc = "suspend"
        /\ thread' = [thread EXCEPT !.pc = "check"]
    BY <1>8 DEF ThreadSuspend, ThreadAt, ThreadGoto, ThreadIs
  <2>2. thread.t = End /\ thread.n = End
    BY <1>2, <2>1 DEF ThreadOff
  <2>3. thread' \in TT /\ thread'.pc = "check" /\ thread'.t = End /\ thread'.n = End
    BY <1>1, <2>1, <2>2
  <2>4. /\ w'.hard = w.hard /\ w'.soft = w.soft /\ w'.tm = w.tm /\ w'.tick = w.tick /\ w' \in WType
    BY <1>1, <2>1 DEF WType
  <2>5. Touch(w, w', Delay) /\ (w'.tm[Delay].act <=> InList(w', Delay))
    BY <1>1, <1>4, <2>2, <2>4 DEF Touch, Lists, InList
  <2> HIDE DEF TT
  <2>6. thread'.pc \notin ThreadOff
    BY <2>3 DEF ThreadOff
  <2> QED BY <1>0, <1>5, <2>1, <2>2, <2>3, <2>5, <2>6, ThreadStep DEF TT
<1>9. ASSUME ThreadDelay PROVE FlagInv'
  <2> DEFINE a == StartOff(w, Delay)
             b == TimeIn(a, Delay, thread.left)
             c == StartOn(b, Delay)
  <2>1. /\ w' = [c EXCEPT !.awake = FALSE] /\ user' = user /\ isr' = isr /\ thread.pc = "delay"
        /\ thread' = [thread EXCEPT !.pc = "check", !.left = 0]
    BY <1>9 DEF ThreadDelay, ThreadAt, ThreadIs
  <2>2. thread.t = End /\ thread.n = End /\ thread.left \in Nat
    BY <1>0, <1>1, <1>2, <2>1 DEF ThreadOff
  <2>3. thread' \in TT /\ thread'.pc = "check" /\ thread'.t = End /\ thread'.n = End
    BY <1>0, <1>1, <2>1, <2>2
  <2>4. Touch(w, a, Delay) /\ ~InList(a, Delay) /\ Lists(a)
    BY <1>0, <1>1, OffTouch DEF Touch
  <2> HIDE DEF a
  <2>5. Touch(a, b, Delay) /\ ~InList(b, Delay) /\ Lists(b)
    <3>1. Touch(a, b, Delay) /\ (InList(b, Delay) <=> InList(a, Delay))
      BY <1>0, <2>2, <2>4, TimeTouch
    <3>2. Lists(b)
      BY <3>1 DEF Touch
    <3> QED BY <2>4, <3>1, <3>2
  <2> HIDE DEF b
  <2>6. /\ Touch(b, c, Delay) /\ InList(c, Delay) /\ Lists(c)
        /\ c.tm[Delay] = [b.tm[Delay] EXCEPT !.act = TRUE]
    BY <1>0, <2>5, OnTouch DEF Touch
  <2> HIDE DEF c
  <2>7. c.tm[Delay].act
    <3>1. b.tm[Delay] \in TimerType
      BY <1>0, <2>5 DEF Lists, WType, Timers
    <3> QED BY <2>6, <3>1 DEF TimerType
  <2>8. Touch(w, c, Delay)
    BY <2>4, <2>5, <2>6, TouchAgain
  <2>9. c \in WType
    BY <2>6 DEF Lists
  <2>10. /\ w'.hard = c.hard /\ w'.soft = c.soft /\ w'.tm = c.tm /\ w'.tick = c.tick /\ w' \in WType
    BY <2>1, <2>9 DEF WType
  <2>11. Touch(w, w', Delay) /\ w'.tm[Delay].act /\ InList(w', Delay)
    BY <2>6, <2>7, <2>8, <2>10 DEF Touch, Lists, InList
  <2> HIDE DEF TT
  <2>12. thread'.pc \notin ThreadOff
    BY <2>3 DEF ThreadOff
  <2> QED BY <1>0, <1>5, <2>1, <2>2, <2>3, <2>11, <2>12, ThreadStep DEF TT
<1>10. ASSUME SoftCheck PROVE FlagInv'
  <2>1. /\ w' = w /\ user' = user /\ isr' = isr /\ thread.pc = "check" /\ w.awake
        /\ thread' = [thread EXCEPT !.pc = "next", !.cur = w.tick, !.n = First(w.soft)]
    BY <1>10 DEF SoftCheck, ThreadAt, ThreadIs
  <2>2. thread.t = End
    BY <1>2, <2>1 DEF ThreadOff
  <2>3. First(w.soft) = End \/ (First(w.soft) \in Soft /\ InList(w, First(w.soft)))
    <3>1. CASE w.soft = <<>>
      BY <3>1 DEF First
    <3>2. CASE w.soft # <<>>
      <4>1. w.soft \in Seq(Soft) /\ IsInjective(w.soft)
        BY <1>1, InSeq DEF Lists
      <4>2. Head(w.soft) \in Range(w.soft) /\ Head(w.soft) \in Soft
        BY <3>2, <4>1, RangeHeadTail
      <4> QED BY <3>2, <4>2 DEF First, InList
    <3> QED BY <3>1, <3>2
  <2>4. thread' \in TT /\ thread'.pc = "next" /\ thread'.t = End /\ thread'.n = First(w.soft)
    BY <1>1, <2>1, <2>2, <2>3
  <2>5. Touch(w, w', Delay) /\ (w'.tm[Delay].act <=> InList(w', Delay)) /\ w'.awake
    BY <1>4, <1>6, <2>1, <2>2
  <2>6. thread'.n # End => InList(w', thread'.n)
    BY <2>1, <2>3, <2>4
  <2> HIDE DEF TT
  <2>7. thread'.pc \notin ThreadOff
    BY <2>4 DEF ThreadOff
  <2> QED BY <1>0, <1>5, <2>1, <2>2, <2>4, <2>5, <2>6, <2>7, ThreadStep DEF TT
<1>11. ASSUME SoftNext PROVE FlagInv'
  <2> DEFINE t == thread.n
  <2>1. /\ user' = user /\ isr' = isr /\ thread.pc = "next" /\ w.awake
    BY <1>11 DEF SoftNext, ThreadAt, ThreadIs
  <2>2. thread.t = End
    BY <1>2, <2>1 DEF ThreadOff
  <2>3. CASE t # End /\ Expired(thread.cur, t)
    <3>1. /\ w' = Unlist(w, t)
          /\ thread' = [thread EXCEPT !.pc = "callback", !.n = Next1(w.soft, t), !.t = t]
      BY <1>11, <2>3 DEF SoftNext, ThreadIs
    <3>2. t \in Soft /\ t \in Timers /\ InList(w, t) /\ t \in Range(w.soft)
      <4>1. t \in Soft /\ InList(w, t)
        BY <1>1, <1>2, <2>3
      <4> QED BY <1>0, <4>1 DEF InList
    <3> HIDE DEF t
    <3>3. w.soft \in Seq(Soft) /\ IsInjective(w.soft)
      BY <1>1, InSeq DEF Lists
    <3>4. Touch(w, w', t) /\ ~InList(w', t) /\ w'.awake = w.awake
      BY <1>1, <3>1, <3>2, UnlistTouch
    <3> DEFINE n == Next1(w.soft, t)
    <3>5. n = End \/ (n \in Range(w.soft) /\ n # t)
      BY <3>2, <3>3, NextInList
    <3>6. n = End \/ (n \in Soft /\ InList(w', n))
      <4> SUFFICES ASSUME n # End PROVE n \in Soft /\ InList(w', n)
        OBVIOUS
      <4>1. n \in Soft /\ n \in Timers \ {t} /\ InList(w, n)
        BY <1>0, <1>1, <3>5 DEF Lists, InList
      <4> HIDE DEF n
      <4> QED BY <3>4, <4>1 DEF Touch
    <3>7. thread' \in TT /\ thread'.pc = "callback" /\ thread'.t = t /\ thread'.n = n
      BY <1>1, <3>1, <3>2, <3>6 DEF ThreadOff
    <3> HIDE DEF n, TT
    <3>8. t # End /\ "callback" \in ThreadOff
      BY <1>0, <3>2 DEF ThreadOff
    <3>9. user.pc \in UserOff => user.t # t
      BY <1>2, <3>2
    <3> QED BY <1>0, <2>1, <2>2, <3>2, <3>4, <3>6, <3>7, <3>8, <3>9, ThreadStep DEF TT
  <2>4. CASE ~(t # End /\ Expired(thread.cur, t))
    <3>1. w' = w /\ thread' = [thread EXCEPT !.pc = "loop", !.n = End, !.cur = 0]
      BY <1>11, <2>4 DEF SoftNext, ThreadIs
    <3>2. thread' \in TT /\ thread'.pc = "loop" /\ thread'.t = End /\ thread'.n = End
      BY <1>0, <1>1, <2>2, <3>1
    <3>3. Touch(w, w', Delay) /\ (w'.tm[Delay].act <=> InList(w', Delay)) /\ w'.awake
      BY <1>4, <1>6, <2>1, <2>2, <3>1
    <3> HIDE DEF TT
    <3>4. thread'.pc \notin ThreadOff
      BY <3>2 DEF ThreadOff
    <3> QED BY <1>0, <1>5, <2>1, <2>2, <3>2, <3>3, <3>4, ThreadStep DEF TT
  <2> QED BY <2>3, <2>4
<1> DEFINE t == thread.t
<1>12. ASSUME thread.pc \in ThreadOff
       PROVE  /\ t \in Soft /\ t \in Timers /\ t # End /\ ~InList(w, t) /\ w.tm[t] \in TimerType
              /\ w.awake /\ (user.pc \in UserOff => user.t # t)
              /\ thread.n # End => thread.n \in Soft /\ thread.n \in Timers /\ thread.n # t /\ InList(w, thread.n)
  <2>1. t \in Soft /\ t \in Timers /\ t # End /\ ~InList(w, t) /\ w.tm[t] \in TimerType
    BY <1>0, <1>1, <1>2, <1>12
  <2>2. w.awake
    BY <1>12 DEF FlagInv, CallInv, ThreadOff
  <2>3. thread.n # End => thread.n \in Soft /\ thread.n \in Timers /\ thread.n # t /\ InList(w, thread.n)
    BY <1>0, <1>1, <1>2, <2>1
  <2> QED BY <1>2, <2>1, <2>2, <2>3
<1>13. ASSUME SoftCallback PROVE FlagInv'
  <2>1. /\ user' = user /\ isr' = isr /\ thread.pc = "callback" /\ thread.pc \in ThreadOff
        /\ w' = SetActive(w, t, FALSE)
    BY <1>13 DEF SoftCallback, ThreadAt, ThreadIs, ThreadOff
  <2>2. \/ thread' = [thread EXCEPT !.cur = w.tick, !.pc = "start_time"]
        \/ thread' = [thread EXCEPT !.cur = w.tick, !.pc = "next", !.t = End]
    BY <1>13 DEF SoftCallback, ThreadIs
  <2>3. /\ t \in Soft /\ t \in Timers /\ t # End /\ ~InList(w, t) /\ w.tm[t] \in TimerType
        /\ w.awake /\ (user.pc \in UserOff => user.t # t)
        /\ thread.n # End => thread.n \in Timers /\ thread.n # t /\ InList(w, thread.n)
    BY <1>12, <2>1
  <2>4. /\ thread' \in TT /\ thread'.n = thread.n
        /\ \/ thread'.pc = "start_time" /\ thread'.t = t
           \/ thread'.pc = "next" /\ thread'.t = End
    BY <1>1, <2>2 DEF ThreadOff
  <2> HIDE DEF t, TT
  <2>5. /\ Touch(w, w', t) /\ (InList(w', t) <=> InList(w, t)) /\ w'.awake = w.awake
        /\ w'.tm[t] = [w.tm[t] EXCEPT !.act = FALSE]
    BY <1>1, <2>1, <2>3, ActiveTouch
  <2>6. ~w'.tm[t].act /\ ~InList(w', t)
    BY <2>3, <2>5 DEF TimerType
  <2>7. thread'.n # End => InList(w', thread'.n)
    BY <2>3, <2>4, <2>5 DEF Touch
  <2>8. (thread'.pc \in ThreadOff <=> thread'.t # End) /\ thread'.pc \in ThreadOff \cup {"next"}
    BY <2>3, <2>4 DEF ThreadOff
  <2>9. thread.t # End => thread.t = t
    BY DEF t
  <2> QED BY <2>1, <2>3, <2>4, <2>5, <2>6, <2>7, <2>8, <2>9, ThreadStep DEF TT
<1>14. ASSUME SoftStartTime PROVE FlagInv'
  <2> DEFINE a == StartOff(w, t)
  <2>1. /\ user' = user /\ isr' = isr /\ thread.pc = "start_time" /\ thread.pc \in ThreadOff
        /\ w' = StartTime(a, t) /\ thread' = [thread EXCEPT !.pc = "start_on"]
    BY <1>14 DEF SoftStartTime, ThreadAt, ThreadGoto, ThreadIs, ThreadOff
  <2>2. /\ t \in Soft /\ t \in Timers /\ t # End /\ ~InList(w, t) /\ w.tm[t] \in TimerType
        /\ w.awake /\ (user.pc \in UserOff => user.t # t)
        /\ thread.n # End => thread.n \in Timers /\ thread.n # t /\ InList(w, thread.n)
    BY <1>12, <2>1
  <2>3. /\ thread' \in TT /\ thread'.n = thread.n /\ thread'.pc = "start_on" /\ thread'.t = t
    BY <1>1, <2>1 DEF ThreadOff
  <2>9. thread.t # End => thread.t = t
    OBVIOUS
  <2> HIDE DEF t, TT
  <2>4. Touch(w, a, t) /\ ~InList(a, t) /\ a.awake = w.awake /\ Lists(a)
    BY <1>1, <2>2, OffTouch DEF Touch
  <2> HIDE DEF a
  <2>5. a.tm[t].init \in Nat /\ w' = TimeIn(a, t, a.tm[t].init)
    <3>1. a.tm[t] \in TimerType
      BY <2>2, <2>4 DEF Lists, WType, Timers
    <3> QED BY <1>0, <2>1, <3>1 DEF StartTime, TimerType
  <2>6. Touch(a, w', t) /\ ~InList(w', t) /\ w'.awake
    BY <2>2, <2>4, <2>5, TimeTouch
  <2>7. Touch(w, w', t)
    BY <2>4, <2>6, TouchAgain
  <2>8. thread'.n # End => InList(w', thread'.n)
    BY <2>2, <2>3, <2>7 DEF Touch
  <2>10. thread'.pc \in ThreadOff
    BY <2>3 DEF ThreadOff
  <2> QED BY <2>1, <2>2, <2>3, <2>6, <2>7, <2>8, <2>9, <2>10, ThreadStep DEF TT
<1>15. ASSUME SoftStartOn PROVE FlagInv'
  <2>1. /\ user' = user /\ isr' = isr /\ thread.pc = "start_on" /\ thread.pc \in ThreadOff
        /\ w' = StartOn(w, t) /\ thread' = [thread EXCEPT !.pc = "next", !.t = End]
    BY <1>15 DEF SoftStartOn, ThreadAt, ThreadIs, ThreadOff
  <2>2. /\ t \in Soft /\ t \in Timers /\ t # End /\ ~InList(w, t) /\ w.tm[t] \in TimerType
        /\ w.awake /\ (user.pc \in UserOff => user.t # t)
        /\ thread.n # End => thread.n \in Timers /\ thread.n # t /\ InList(w, thread.n)
    BY <1>12, <2>1
  <2>3. /\ thread' \in TT /\ thread'.n = thread.n /\ thread'.pc = "next" /\ thread'.t = End
    BY <1>1, <2>1
  <2>9. thread.t # End => thread.t = t
    OBVIOUS
  <2> HIDE DEF t, TT
  <2>4. /\ Touch(w, w', t) /\ InList(w', t) /\ w'.awake = w.awake
        /\ w'.tm[t] = [w.tm[t] EXCEPT !.act = TRUE]
    BY <1>1, <2>1, <2>2, OnTouch
  <2>5. w'.tm[t].act
    BY <2>2, <2>4 DEF TimerType
  <2>6. thread'.n # End => InList(w', thread'.n)
    BY <2>2, <2>3, <2>4 DEF Touch
  <2>7. thread'.pc \notin ThreadOff
    BY <2>3 DEF ThreadOff
  <2> QED BY <2>1, <2>2, <2>3, <2>4, <2>5, <2>6, <2>7, <2>9, ThreadStep DEF TT
<1> QED BY <1>7, <1>8, <1>9, <1>10, <1>11, <1>13, <1>14, <1>15 DEF ThreadNext

\* A step of the tick interrupt that operates hard timers only: none of them is
\* in the hands of a thread that has taken it out of its list.
LEMMA IsrStep ==
  ASSUME FlagInv, Lists(w'), user' = user, thread' = thread, isr' \in BOOLEAN, NEW T \in SUBSET Timers,
         \A x \in Timers \ T : w'.tm[x] = w.tm[x] /\ (InList(w', x) <=> InList(w, x)),
         T \cap Soft = {}, user.pc \in UserOff => user.t \notin T,
         \A x \in T : w'.tm[x].act <=> InList(w', x),
         w.awake => w'.awake
  PROVE  FlagInv'
<1>0. End \notin Timers /\ Timer \subseteq Timers /\ Soft \subseteq Timer
  BY Constants
<1>1. CallTypes'
  BY DEF FlagInv, CallTypes
<1>2. thread.t \in Soft \cup {End} /\ thread.n \in Soft \cup {End}
  BY DEF FlagInv, CallTypes
<1>3. CallInv'
  <2>1. (IF user.pc = "run" THEN user.t = End ELSE user.t \in Timer /\ Owner[user.t] = User)'
    BY DEF FlagInv, CallInv
  <2>2. (user.pc \in UserOff => ~InList(w, user.t) /\ user.t # thread.t)'
    <3> SUFFICES ASSUME user.pc \in UserOff PROVE ~InList(w', user.t) /\ user.t # thread.t
      BY DEF InList
    <3>1. user.t \in Timers \ T /\ ~InList(w, user.t) /\ user.t # thread.t
      BY <1>0 DEF FlagInv, CallInv, UserOff
    <3> QED BY <3>1
  <2>3. (thread.t # End => ~InList(w, thread.t))'
    <3> SUFFICES ASSUME thread.t # End PROVE ~InList(w', thread.t)
      BY DEF InList
    <3>1. thread.t \in Timers \ T /\ ~InList(w, thread.t)
      BY <1>0, <1>2 DEF FlagInv, CallInv
    <3> QED BY <3>1
  <2>4. (thread.n # End => InList(w, thread.n) /\ thread.pc \in ThreadOff \cup {"next"})'
    <3> SUFFICES ASSUME thread.n # End
                 PROVE  InList(w', thread.n) /\ thread.pc \in ThreadOff \cup {"next"}
      BY DEF InList
    <3>1. thread.n \in Timers \ T /\ InList(w, thread.n) /\ thread.pc \in ThreadOff \cup {"next"}
      BY <1>0, <1>2 DEF FlagInv, CallInv
    <3> QED BY <3>1
  <2>5. (thread.pc \in ThreadOff <=> thread.t # End)' /\ (~w.awake => thread.pc = "check")'
    <3>1. (thread.pc \in ThreadOff <=> thread.t # End) /\ (~w.awake => thread.pc = "check")
      BY DEF FlagInv, CallInv
    <3> QED BY <3>1
  <2> QED BY <2>1, <2>2, <2>3, <2>4, <2>5 DEF CallInv
<1>4. ASSUME NEW x \in Timers, Settled(x)' PROVE w'.tm[x].act <=> InList(w', x)
  <2>1. CASE x \in T
    BY <2>1
  <2>2. CASE x \notin T
    <3>1. Settled(x)
      BY <1>4 DEF Settled
    <3> QED BY <2>2, <3>1 DEF FlagInv
  <2> QED BY <2>1, <2>2
<1>5. Lists(w)' /\ \A x \in Timers : InList(w, x)' = InList(w', x)
  BY DEF Lists, WType, InList, TimerType
<1> QED BY <1>1, <1>3, <1>4, <1>5 DEF FlagInv

LEMMA ListsStay ==
  ASSUME FlagInv, Lists(w'), user' = user, thread' = thread, isr' \in BOOLEAN, w'.awake = w.awake,
         \A x \in Timers : w'.tm[x] = w.tm[x] /\ (InList(w', x) <=> InList(w, x))
  PROVE  FlagInv'
<1> DEFINE T == {}
<1>1. /\ T \in SUBSET Timers /\ T \cap Soft = {} /\ user.t \notin T
      /\ \A x \in T : w'.tm[x].act <=> InList(w', x)
      /\ \A x \in Timers \ T : w'.tm[x] = w.tm[x] /\ (InList(w', x) <=> InList(w, x))
  OBVIOUS
<1> HIDE DEF T
<1> QED BY <1>1, IsrStep

LEMMA TickInv ==
  ASSUME FlagInv, rt_tick_increase
  PROVE  FlagInv'
<1>1. /\ w' = [w EXCEPT !.tick = (w.tick + 1) % TickMod] /\ isr' = TRUE
      /\ user' = user /\ thread' = thread
  BY DEF rt_tick_increase, FlagInv, Lists, WType
<1>2. w \in WType /\ Lists(w)
  BY DEF FlagInv, Lists
<1>3. (w.tick + 1) % TickMod \in Tick
  <2>1. w.tick \in Nat
    BY <1>2, Constants DEF WType, Tick, TickMax
  <2>2. w.tick + 1 \in Nat
    BY <2>1
  <2> QED BY <2>2, Constants DEF Tick, TickMax
<1>4. /\ w' \in WType /\ w'.hard = w.hard /\ w'.soft = w.soft /\ w'.tm = w.tm /\ w'.awake = w.awake
  BY <1>1, <1>2, <1>3 DEF WType
<1>5. Lists(w') /\ \A x \in Timers : w'.tm[x] = w.tm[x] /\ (InList(w', x) <=> InList(w, x))
  BY <1>2, <1>4 DEF Lists, InList
<1> QED BY <1>1, <1>4, <1>5, ListsStay

\* what a callback of t leaves behind, and rt_timer_check behind it
LEMMA CallbackInv ==
  ASSUME NEW s, Lists(s), NEW t \in Timer \ Soft, ~InList(s, t),
         NEW v \in Callback(s, t),
         \A x \in Timer : Owner[x] = t => (s.tm[x].act <=> InList(s, x))
  PROVE  LET u == Again(v, t)
         IN  /\ Lists(u) /\ u.tick = s.tick /\ u.awake = s.awake
             /\ u.tm[t].act <=> InList(u, t)
             /\ \A x \in Timer : Owner[x] = t => (u.tm[x].act <=> InList(u, x))
             /\ \A x \in Timers : x # t /\ (x = Delay \/ Owner[x] # t) =>
                  u.tm[x] = s.tm[x] /\ (InList(u, x) <=> InList(s, x))
<1>0. Timer \subseteq Timers /\ Delay \notin Timer
  BY Constants
<1>1. \A x \in Timer : Owner[x] # x
  BY TimerAssumption
<1>2. /\ Lists(v) /\ v.tick = s.tick /\ v.awake = s.awake /\ ~InList(v, t)
      /\ \A x \in Timer : Owner[x] = t => (v.tm[x].act <=> InList(v, x))
      /\ \A x \in Timers : x = t \/ x = Delay \/ Owner[x] # t =>
           v.tm[x] = s.tm[x] /\ (InList(v, x) <=> InList(s, x))
  <2>1. CASE v = s
    BY <2>1
  <2>2. ASSUME NEW y \in Timer, Owner[y] = t, v = Start(s, y) \/ v = Stop(s, y)
        PROVE  /\ Lists(v) /\ v.tick = s.tick /\ v.awake = s.awake /\ ~InList(v, t)
               /\ \A x \in Timer : Owner[x] = t => (v.tm[x].act <=> InList(v, x))
               /\ \A x \in Timers : x = t \/ x = Delay \/ Owner[x] # t =>
                    v.tm[x] = s.tm[x] /\ (InList(v, x) <=> InList(s, x))
    <3>1. y \in Timers /\ y # t /\ y # Delay
      BY <1>0, <1>1, <2>2
    <3>2. Touch(s, v, y) /\ (v.tm[y].act <=> InList(v, y)) /\ v.awake = s.awake
      <4>1. CASE v = Start(s, y)
        BY <3>1, <4>1, StartTouch
      <4>2. CASE v = Stop(s, y)
        BY <2>2, <3>1, <4>2, StopTouch
      <4> QED BY <2>2, <4>1, <4>2
    <3>3. Lists(v) /\ v.tick = s.tick
      BY <3>2 DEF Touch
    <3>4. \A x \in Timers \ {y} : v.tm[x] = s.tm[x] /\ (InList(v, x) <=> InList(s, x))
      BY <3>2 DEF Touch
    <3>5. ASSUME NEW x \in Timer, Owner[x] = t PROVE v.tm[x].act <=> InList(v, x)
      BY <1>0, <3>2, <3>4, <3>5
    <3>6. ~InList(v, t)
      BY <1>0, <3>1, <3>4
    <3>7. ASSUME NEW x \in Timers, x = t \/ x = Delay \/ Owner[x] # t
          PROVE  v.tm[x] = s.tm[x] /\ (InList(v, x) <=> InList(s, x))
      <4>1. x # y
        BY <2>2, <3>1, <3>7
      <4> QED BY <3>4, <4>1
    <3> QED BY <3>2, <3>3, <3>5, <3>6, <3>7
  <2>3. v = s \/ \E y \in Timer : Owner[y] = t /\ (v = Start(s, y) \/ v = Stop(s, y))
    BY DEF Callback
  <2> QED BY <2>1, <2>2, <2>3
<1> DEFINE u == Again(v, t)
<1>3. Touch(v, u, t) /\ u.awake = v.awake /\ (u.tm[t].act <=> InList(u, t))
  <2>1. CASE v.tm[t].per /\ v.tm[t].act
    <3>1. u = Start(v, t)
      BY <2>1 DEF Again
    <3> HIDE DEF u
    <3> QED BY <1>0, <1>2, <3>1, StartTouch
  <2>2. CASE ~(v.tm[t].per /\ v.tm[t].act)
    <3>1. u = SetActive(v, t, FALSE)
      BY <2>2 DEF Again
    <3> HIDE DEF u
    <3>2. /\ Touch(v, u, t) /\ (InList(u, t) <=> InList(v, t)) /\ u.awake = v.awake
          /\ u.tm[t] = [v.tm[t] EXCEPT !.act = FALSE]
      BY <1>0, <1>2, <3>1, ActiveTouch
    <3>3. v.tm[t] \in TimerType
      BY <1>0, <1>2 DEF Lists, WType, Timers
    <3>4. ~u.tm[t].act
      BY <3>2, <3>3 DEF TimerType
    <3> QED BY <1>2, <3>2, <3>4
  <2> QED BY <2>1, <2>2
<1> HIDE DEF u
<1>4. Lists(u) /\ u.tick = s.tick /\ u.awake = s.awake
  BY <1>2, <1>3 DEF Touch
<1>5. \A x \in Timers \ {t} : u.tm[x] = v.tm[x] /\ (InList(u, x) <=> InList(v, x))
  BY <1>3 DEF Touch
<1>6. \A x \in Timer : Owner[x] = t => (u.tm[x].act <=> InList(u, x))
  BY <1>0, <1>2, <1>3, <1>5
<1>7. \A x \in Timers : x # t /\ (x = Delay \/ Owner[x] # t) =>
        u.tm[x] = s.tm[x] /\ (InList(u, x) <=> InList(s, x))
  BY <1>2, <1>5
<1> QED BY <1>3, <1>4, <1>6, <1>7 DEF u

LEMMA HardInv ==
  ASSUME FlagInv, HardTimeout
  PROVE  FlagInv'
<1> DEFINE t == Head(w.hard)
           v == Unlist(w, t)
<1>0. /\ Timer \subseteq Timers /\ Delay \notin Timer /\ Delay \in Timers /\ Soft \subseteq Timer
      /\ End \notin Timers /\ Delay \notin Soft
  BY Constants
<1>1. /\ user' = user /\ thread' = thread /\ isr' \in BOOLEAN /\ w.hard # <<>>
      /\ IF t = Delay THEN w' = SetActive([v EXCEPT !.awake = TRUE], t, FALSE)
                      ELSE \E s \in Callback(v, t) : w' = Again(s, t)
  BY DEF HardTimeout, HardDue, FlagInv, CallTypes
<1>2. Lists(w) /\ thread.t \in Soft \cup {End}
  BY DEF FlagInv, CallTypes
<1>3. t \in Timers /\ t \notin Soft /\ InList(w, t)
  <2>1. w.hard \in Seq((Timer \ Soft) \cup {Delay}) /\ IsInjective(w.hard)
    BY <1>2, InSeq DEF Lists
  <2>2. t \in Range(w.hard) /\ t \in (Timer \ Soft) \cup {Delay}
    BY <1>1, <2>1, RangeHeadTail
  <2> QED BY <1>0, <2>2 DEF InList
<1>4. user.pc \in UserOff => user.t # t /\ user.t \in Timer /\ Owner[user.t] = User
  BY <1>3 DEF FlagInv, CallInv, UserOff
<1> HIDE DEF t
<1>5. /\ Touch(w, v, t) /\ ~InList(v, t) /\ v.awake = w.awake
  BY <1>2, <1>3, UnlistTouch
<1> HIDE DEF v
<1>6. Lists(v) /\ v \in WType
  BY <1>5 DEF Touch, Lists
<1>7. CASE t = Delay
  <2> DEFINE s == [v EXCEPT !.awake = TRUE]
  <2>1. w' = SetActive(s, t, FALSE)
    BY <1>1, <1>7
  <2>2. /\ s \in WType /\ s.hard = v.hard /\ s.soft = v.soft /\ s.tm = v.tm /\ s.tick = v.tick
        /\ s.awake = TRUE
    BY <1>6 DEF WType
  <2> HIDE DEF s
  <2>3. Lists(s) /\ \A x \in Timers : InList(s, x) <=> InList(v, x)
    BY <1>6, <2>2 DEF Lists, InList
  <2>4. /\ Touch(s, w', t) /\ (InList(w', t) <=> InList(s, t)) /\ w'.awake = s.awake
        /\ w'.tm[t] = [s.tm[t] EXCEPT !.act = FALSE]
    BY <1>3, <2>1, <2>3, ActiveTouch
  <2>5. ~w'.tm[t].act /\ ~InList(w', t)
    <3>1. s.tm[t] \in TimerType
      BY <1>3, <2>3 DEF Lists, WType, Timers
    <3> QED BY <1>3, <1>5, <2>3, <2>4, <3>1 DEF TimerType
  <2>6. Lists(w') /\ \A x \in Timers \ {t} : w'.tm[x] = w.tm[x] /\ (InList(w', x) <=> InList(w, x))
    BY <1>5, <2>2, <2>3, <2>4 DEF Touch
  <2> DEFINE T == {t}
  <2>7. /\ T \in SUBSET Timers /\ T \cap Soft = {} /\ (user.pc \in UserOff => user.t \notin T)
        /\ \A x \in T : w'.tm[x].act <=> InList(w', x)
        /\ \A x \in Timers \ T : w'.tm[x] = w.tm[x] /\ (InList(w', x) <=> InList(w, x))
    BY <1>3, <1>4, <2>5, <2>6
  <2> HIDE DEF T
  <2> QED BY <1>1, <2>2, <2>4, <2>6, <2>7, IsrStep
<1>8. CASE t # Delay
  <2>0. t \in Timer \ Soft
    BY <1>3, <1>8 DEF Timers
  <2>1. PICK s \in Callback(v, t) : w' = Again(s, t)
    BY <1>1, <1>8
  <2>2. \A x \in Timer : Owner[x] = t => x \notin Soft /\ x # user.t /\ x # t
    <3>1. t # User /\ \A x \in Timer : Owner[x] # x /\ (x \in Soft => Owner[x] = User)
      BY <2>0, TimerAssumption
    <3>2. user.t = End \/ Owner[user.t] = User
      BY DEF FlagInv, CallInv
    <3> QED BY <1>0, <2>0, <3>1, <3>2
  <2>3. ASSUME NEW x \in Timer, Owner[x] = t PROVE v.tm[x].act <=> InList(v, x)
    <3>1. x \in Timers \ {t} /\ Settled(x)
      BY <1>0, <1>2, <2>2, <2>3 DEF Settled
    <3> QED BY <1>5, <3>1 DEF Touch, FlagInv
  <2>4. /\ Lists(w') /\ w'.awake = v.awake
        /\ w'.tm[t].act <=> InList(w', t)
        /\ \A x \in Timer : Owner[x] = t => (w'.tm[x].act <=> InList(w', x))
        /\ \A x \in Timers : x # t /\ (x = Delay \/ Owner[x] # t) =>
             w'.tm[x] = v.tm[x] /\ (InList(w', x) <=> InList(v, x))
    BY <1>5, <1>6, <2>0, <2>1, <2>3, CallbackInv
  <2> DEFINE T == {t} \cup {x \in Timer : Owner[x] = t}
  <2>5. T \in SUBSET Timers /\ T \cap Soft = {} /\ (user.pc \in UserOff => user.t \notin T)
    BY <1>0, <1>3, <1>4, <2>2
  <2>6. \A x \in T : w'.tm[x].act <=> InList(w', x)
    BY <2>4
  <2>7. ASSUME NEW x \in Timers \ T PROVE w'.tm[x] = w.tm[x] /\ (InList(w', x) <=> InList(w, x))
    <3>1. x # t /\ (x = Delay \/ Owner[x] # t)
      BY <2>7 DEF Timers
    <3> QED BY <1>5, <2>4, <3>1 DEF Touch
  <2> HIDE DEF T
  <2> QED BY <1>1, <1>5, <2>4, <2>5, <2>6, <2>7, IsrStep
<1> QED BY <1>7, <1>8

LEMMA FlagNext ==
  ASSUME FlagInv, [Next]_vars
  PROVE  FlagInv'
<1>1. ASSUME w' = w, user' = user, thread' = thread, isr' \in BOOLEAN PROVE FlagInv'
  <2>1. Lists(w') /\ \A x \in Timers : w'.tm[x] = w.tm[x] /\ (InList(w', x) <=> InList(w, x))
    BY <1>1 DEF FlagInv
  <2> QED BY <1>1, <2>1, ListsStay
<1>2. CASE CheckLeave
  BY <1>1, <1>2 DEF CheckLeave
<1>3. CASE UNCHANGED vars
  BY <1>1, <1>3 DEF vars, FlagInv, CallTypes
<1>4. CASE rt_tick_increase
  BY <1>4, TickInv
<1>5. CASE HardTimeout
  BY <1>5, HardInv
<1>6. CASE UserNext
  BY <1>6, UserInv
<1>7. CASE ThreadNext
  BY <1>7, ThreadInv
<1> QED BY <1>2, <1>3, <1>4, <1>5, <1>6, <1>7 DEF Next

\* Which timers have the flag of rt_timer_stop, at every place of every call.
THEOREM FlagInvariance == Spec => []FlagInv
<1>1. Init => FlagInv
  BY FlagInit
<1>2. FlagInv /\ [Next]_vars => FlagInv'
  BY FlagNext
<1> QED BY <1>1, <1>2, PTL DEF Spec

\* The types, one place in one list for each timer, and RT_TIMER_FLAG_ACTIVATED
\* on exactly the timers in a list that nobody has in hand.
THEOREM FlagIsTrue == Spec => []FlagTellsList
<1>1. FlagInv => FlagTellsList
  <2> SUFFICES ASSUME FlagInv PROVE FlagTellsList
    OBVIOUS
  <2>1. w.tick \in Tick /\ w.tm \in [Timer \cup {Delay} -> TimerType]
    BY DEF FlagInv, Lists, WType
  <2>2. \A t \in Timer \cup {Delay} : t \notin InHand => (w.tm[t].act <=> InList(w, t))
    BY DEF FlagInv, InHand, Settled, Timers
  <2> QED BY <2>1, <2>2 DEF FlagTellsList, FlagInv, Lists
<1> QED BY <1>1, FlagInvariance, PTL
-----------------------------------------------------------------------------
(* Punctuality.  The ticks until a timer is due are counted from e ticks   *)
(* ago, the earliest at which a timer in the list may have been due.       *)

DueOf(s, e) == [t \in Timers |-> (s.tm[t].at - s.tick + e) % TickMod]

\* the hard timers are in the order in which they are due, the last in b ticks
DueOK(s, e, b) ==
  /\ Lists(s)
  /\ Sorted(s.hard, DueOf(s, e))
  /\ \A t \in Range(s.hard) : DueOf(s, e)[t] <= b
  /\ \A t \in Timer : s.tm[t].init \in Nat /\ s.tm[t].init + MaxLate < Half

Spare == IF isr THEN MaxLate + 1 ELSE MaxLate

\* The tick is read by rt_timer_start within MaxLate ticks of the insertion, and
\* the delay of the timer thread leaves as much to spare.
DueInv ==
  /\ DueOK(w, Spare, IF isr THEN Half ELSE Half - 1)
  /\ user.pc = "start_on" =>
       DueOf(w, Spare)[user.t] <= Half - 1 /\ (isr => DueOf(w, Spare)[user.t] # 0)
  /\ thread.pc = "delay" => thread.left + MaxLate < Half

\* Either no tick comes between reading the tick and inserting the timer, or
\* RT_USING_TIMER_SOFT is off, as in the configuration of the application.
Exact == Soft = {} \/ MaxLate = 0

LEMMA Wrap ==
  ASSUME NEW n \in Int, -TickMod <= n, n < 2 * TickMod
  PROVE  n % TickMod = IF n < 0 THEN n + TickMod ELSE IF n < TickMod THEN n ELSE n - TickMod
<1>0. TickMod \in Nat /\ TickMod >= 5
  BY Constants
<1>1. CASE n < 0
  BY <1>0, <1>1
<1>2. CASE 0 <= n /\ n < TickMod
  BY <1>0, <1>2
<1>3. CASE n >= TickMod
  <2>1. n - TickMod \in 0 .. TickMod - 1
    BY <1>0, <1>3
  <2> QED BY <1>0, <1>3, <2>1
<1> QED BY <1>0, <1>1, <1>2, <1>3

\* the distance of a tick
LEMMA Distance ==
  ASSUME NEW a \in Tick, NEW now \in Tick, NEW e \in 0 .. Half
  PROVE  /\ (a - now + e) % TickMod \in 0 .. TickMod - 1
         /\ (a - now + e) % TickMod = IF a - now + e < 0 THEN a - now + e + TickMod
                                      ELSE IF a - now + e < TickMod THEN a - now + e
                                      ELSE a - now + e - TickMod
<1>0. /\ TickMod \in Nat /\ TickMod >= 5 /\ Half \in Nat /\ 2 * Half <= TickMod - 1
      /\ a \in 0 .. TickMod - 1 /\ now \in 0 .. TickMod - 1
  BY Constants DEF Tick, TickMax
<1>1. a - now + e \in Int /\ -TickMod <= a - now + e /\ a - now + e < 2 * TickMod
  BY <1>0
<1>2. (a - now + e) % TickMod = IF a - now + e < 0 THEN a - now + e + TickMod
                                ELSE IF a - now + e < TickMod THEN a - now + e
                                ELSE a - now + e - TickMod
  <2> DEFINE n == a - now + e
  <2>1. n \in Int /\ -TickMod <= n /\ n < 2 * TickMod
    BY <1>1
  <2> HIDE DEF n
  <2>2. n % TickMod = IF n < 0 THEN n + TickMod ELSE IF n < TickMod THEN n ELSE n - TickMod
    BY <2>1, Wrap
  <2>3. CASE n < 0
    BY <2>2, <2>3 DEF n
  <2>4. CASE n >= 0 /\ n < TickMod
    <3>1. ~(n < 0)
      BY <2>1, <2>4
    <3>2. n % TickMod = n
      BY <2>2, <2>4, <3>1
    <3> QED BY <2>4, <3>1, <3>2 DEF n
  <2>5. CASE n >= TickMod
    <3>1. ~(n < 0) /\ ~(n < TickMod)
      BY <1>0, <2>1, <2>5
    <3>2. n % TickMod = n - TickMod
      BY <2>2, <3>1
    <3> QED BY <1>0, <3>1, <3>2 DEF n
  <2> QED BY <1>0, <2>1, <2>3, <2>4, <2>5
<1> QED BY <1>0, <1>1, <1>2

LEMMA SinceIs ==
  ASSUME NEW a \in Tick, NEW c \in Tick
  PROVE  Since(a, c) = IF a < c THEN a - c + TickMod ELSE a - c
<1>0. /\ TickMod \in Nat /\ TickMod >= 5 /\ a \in 0 .. TickMod - 1 /\ c \in 0 .. TickMod - 1
  BY Constants DEF Tick, TickMax
<1>1. a - c \in Int /\ -TickMod <= a - c /\ a - c < 2 * TickMod
  BY <1>0
<1>2. (a - c) % TickMod = IF a - c < 0 THEN a - c + TickMod
                          ELSE IF a - c < TickMod THEN a - c ELSE a - c - TickMod
  BY <1>1, Wrap
<1> QED BY <1>0, <1>2 DEF Since

\* The comparison of rt_timer_start is the one of the distances.
LEMMA Compare ==
  ASSUME NEW a \in Tick, NEW c \in Tick, NEW now \in Tick, NEW e \in 0 .. Half, NEW x, NEW d,
         x = (a - now + e) % TickMod, d = (c - now + e) % TickMod,
         x <= Half, d <= Half, x - d < Half
  PROVE  Since(a, c) \in 1 .. Half - 1 <=> d < x
<1>0. /\ TickMod \in Nat /\ TickMod >= 5 /\ Half \in Nat /\ 2 * Half <= TickMod - 1
      /\ a \in 0 .. TickMod - 1 /\ c \in 0 .. TickMod - 1 /\ now \in 0 .. TickMod - 1
  BY Constants DEF Tick, TickMax
<1>1. /\ x \in 0 .. TickMod - 1
      /\ x = IF a - now + e < 0 THEN a - now + e + TickMod
             ELSE IF a - now + e < TickMod THEN a - now + e ELSE a - now + e - TickMod
  BY Distance
<1>2. /\ d \in 0 .. TickMod - 1
      /\ d = IF c - now + e < 0 THEN c - now + e + TickMod
             ELSE IF c - now + e < TickMod THEN c - now + e ELSE c - now + e - TickMod
  BY Distance
<1>3. Since(a, c) = IF a < c THEN a - c + TickMod ELSE a - c
  BY SinceIs
<1>4. x - d \in {a - c, a - c + TickMod, a - c - TickMod, a - c + 2 * TickMod, a - c - 2 * TickMod}
  BY <1>0, <1>1, <1>2
<1>5. -Half <= x - d /\ x - d < Half /\ x - d \in Int
  BY <1>0, <1>1, <1>2
<1>6. Since(a, c) \in 0 .. TickMod - 1 /\ Since(a, c) \in {a - c, a - c + TickMod}
  BY <1>0, <1>3
<1>7. Since(a, c) = IF x - d < 0 THEN x - d + TickMod ELSE x - d
  BY <1>0, <1>4, <1>5, <1>6
<1> QED BY <1>0, <1>1, <1>2, <1>5, <1>7

\* rt_timer_start: due d ticks after the tick that was read
LEMMA StartedIn ==
  ASSUME NEW now \in Tick, NEW e \in 0 .. Half, NEW d \in Nat, d <= Half, d + e <= Half
  PROVE  (((now + d) % TickMod) - now + e) % TickMod = d + e /\ (now + d) % TickMod \in Tick
<1>0. /\ TickMod \in Nat /\ TickMod >= 5 /\ Half \in Nat /\ 2 * Half <= TickMod - 1
      /\ now \in 0 .. TickMod - 1
  BY Constants DEF Tick, TickMax
<1> DEFINE a == (now + d) % TickMod
<1>1. a = IF now + d < TickMod THEN now + d ELSE now + d - TickMod
  <2>1. now + d \in Int /\ -TickMod <= now + d /\ now + d < 2 * TickMod
    BY <1>0
  <2> QED BY <1>0, <2>1, Wrap
<1> HIDE DEF a
<1>2. a \in Tick
  BY <1>0, <1>1 DEF Tick, TickMax
<1>3. (a - now + e) % TickMod = IF a - now + e < 0 THEN a - now + e + TickMod
                                ELSE IF a - now + e < TickMod THEN a - now + e
                                ELSE a - now + e - TickMod
  BY <1>2, Distance
<1>4. (a - now + e) % TickMod = d + e
  BY <1>0, <1>1, <1>3
<1> QED BY <1>2, <1>4 DEF a

\* The tick interrupt comes: the distances stay when one more tick is to spare.
LEMMA NextTick ==
  ASSUME NEW a \in Tick, NEW now \in Tick, NEW e \in 0 .. Half - 1
  PROVE  (a - ((now + 1) % TickMod) + (e + 1)) % TickMod = (a - now + e) % TickMod
<1>0. /\ TickMod \in Nat /\ TickMod >= 5 /\ Half \in Nat /\ 2 * Half <= TickMod - 1
      /\ a \in 0 .. TickMod - 1 /\ now \in 0 .. TickMod - 1
  BY Constants DEF Tick, TickMax
<1> DEFINE u == (now + 1) % TickMod
<1>1. u = IF now + 1 < TickMod THEN now + 1 ELSE now + 1 - TickMod
  <2>1. now + 1 \in Int /\ -TickMod <= now + 1 /\ now + 1 < 2 * TickMod
    BY <1>0
  <2> QED BY <1>0, <2>1, Wrap
<1> HIDE DEF u
<1>2. u \in Tick /\ e \in 0 .. Half /\ e + 1 \in 0 .. Half
  BY <1>0, <1>1 DEF Tick, TickMax
<1>3. (a - u + (e + 1)) % TickMod = IF a - u + (e + 1) < 0 THEN a - u + (e + 1) + TickMod
                                ELSE IF a - u + (e + 1) < TickMod THEN a - u + (e + 1)
                                ELSE a - u + (e + 1) - TickMod
  BY <1>2, Distance
<1>4. (a - now + e) % TickMod = IF a - now + e < 0 THEN a - now + e + TickMod
                                ELSE IF a - now + e < TickMod THEN a - now + e
                                ELSE a - now + e - TickMod
  BY <1>2, Distance
<1>5. (a - u + (e + 1)) % TickMod = (a - now + e) % TickMod
  BY <1>0, <1>1, <1>3, <1>4
<1> QED BY <1>5 DEF u

\* rt_timer_check: a timer is overdue when its distance is spent, and otherwise
\* the distance from one tick later is one less.
LEMMA Overdue ==
  ASSUME NEW a \in Tick, NEW now \in Tick, NEW e \in Nat, e + 1 < Half, NEW x,
         x = (a - now + (e + 1)) % TickMod, x <= Half
  PROVE  /\ x \in 0 .. Half
         /\ Since(now, a) < Half <=> x <= e + 1
         /\ x # 0 => (a - now + e) % TickMod = x - 1
         /\ x > e + 1 => Since(a, now) = x - e - 1
<1>0. /\ TickMod \in Nat /\ TickMod >= 5 /\ Half \in Nat /\ 2 * Half <= TickMod - 1
      /\ a \in 0 .. TickMod - 1 /\ now \in 0 .. TickMod - 1
  BY Constants DEF Tick, TickMax
<1>1. e \in 0 .. Half /\ e + 1 \in 0 .. Half
  BY <1>0
<1>2. /\ x \in 0 .. TickMod - 1
      /\ x = IF a - now + (e + 1) < 0 THEN a - now + (e + 1) + TickMod
             ELSE IF a - now + (e + 1) < TickMod THEN a - now + (e + 1)
             ELSE a - now + (e + 1) - TickMod
  BY <1>1, Distance
<1>3. (a - now + e) % TickMod = IF a - now + e < 0 THEN a - now + e + TickMod
                                ELSE IF a - now + e < TickMod THEN a - now + e
                                ELSE a - now + e - TickMod
  BY <1>1, Distance
<1>4. /\ Since(now, a) = IF now < a THEN now - a + TickMod ELSE now - a
      /\ Since(a, now) = IF a < now THEN a - now + TickMod ELSE a - now
  BY SinceIs
<1>5. x \in 0 .. Half
  BY <1>0, <1>2
<1>6. Since(now, a) < Half <=> x <= e + 1
  BY <1>0, <1>2, <1>4
<1>7. x # 0 => (a - now + e) % TickMod = x - 1
  BY <1>0, <1>2, <1>3
<1>8. x > e + 1 => Since(a, now) = x - e - 1
  BY <1>0, <1>2, <1>4
<1> QED BY <1>5, <1>6, <1>7, <1>8
-----------------------------------------------------------------------------
(* The order through the parts of an operation *)

LEMMA DueTypes ==
  ASSUME NEW s, Lists(s), NEW e \in 0 .. Half
  PROVE  /\ s.tick \in Tick /\ \A t \in Timers : s.tm[t].at \in Tick
         /\ DueOf(s, e) \in [Timers -> Int]
         /\ \A t \in Timers : /\ DueOf(s, e)[t] = (s.tm[t].at - s.tick + e) % TickMod
                              /\ DueOf(s, e)[t] \in 0 .. TickMod - 1
<1>1. s.tick \in Tick /\ \A t \in Timers : s.tm[t] \in TimerType
  BY DEF Lists, WType, Timers
<1>2. \A t \in Timers : s.tm[t].at \in Tick
  BY <1>1 DEF TimerType
<1>3. \A t \in Timers : /\ DueOf(s, e)[t] = (s.tm[t].at - s.tick + e) % TickMod
                        /\ DueOf(s, e)[t] \in 0 .. TickMod - 1
  <2> SUFFICES ASSUME NEW t \in Timers
               PROVE  /\ DueOf(s, e)[t] = (s.tm[t].at - s.tick + e) % TickMod
                      /\ DueOf(s, e)[t] \in 0 .. TickMod - 1
    OBVIOUS
  <2>1. DueOf(s, e)[t] = (s.tm[t].at - s.tick + e) % TickMod
    BY DEF DueOf
  <2>2. (s.tm[t].at - s.tick + e) % TickMod \in 0 .. TickMod - 1
    BY <1>1, <1>2, Distance
  <2> QED BY <2>1, <2>2
<1>4. DueOf(s, e) \in [Timers -> Int]
  <2>1. DueOf(s, e) = [t \in Timers |-> DueOf(s, e)[t]]
    BY DEF DueOf
  <2>2. \A t \in Timers : DueOf(s, e)[t] \in Int
    BY <1>3, Constants
  <2> HIDE DEF DueOf
  <2> QED BY <2>1, <2>2
<1> QED BY <1>1, <1>2, <1>3, <1>4

\* The order depends on the list and the ticks of the timers in it only.
LEMMA SortedAlike ==
  ASSUME NEW s, NEW p, NEW q, Sorted(s, p), \A t \in Range(s) : p[t] = q[t]
  PROVE  Sorted(s, q)
<1>1. \A i \in DOMAIN s : s[i] \in Range(s)
  BY DEF Range
<1> QED BY <1>1 DEF Sorted

LEMMA HardTimers ==
  ASSUME NEW s, Lists(s)
  PROVE  Range(s.hard) \subseteq Timers
BY DEF Lists, Timers

\* Another timer, or another field of the timer.
LEMMA DueSame ==
  ASSUME NEW s, NEW u, NEW e, NEW b, NEW t \in Timers, DueOK(s, e, b), Touch(s, u, t), u.hard = s.hard,
         t \in Range(s.hard) => u.tm[t].at = s.tm[t].at,
         t \in Timer => u.tm[t].init \in Nat /\ u.tm[t].init + MaxLate < Half
  PROVE  DueOK(u, e, b)
<1>1. Lists(u) /\ Range(s.hard) \subseteq Timers
  BY HardTimers DEF Touch, DueOK
<1>2. \A x \in Range(s.hard) : u.tm[x].at = s.tm[x].at /\ u.tick = s.tick
  BY <1>1 DEF Touch
<1>3. \A x \in Range(s.hard) : DueOf(s, e)[x] = DueOf(u, e)[x]
  BY <1>1, <1>2 DEF DueOf
<1>4. Sorted(u.hard, DueOf(u, e))
  <2>1. Sorted(s.hard, DueOf(s, e))
    BY DEF DueOK
  <2> HIDE DEF DueOf, Sorted
  <2> QED BY <1>3, <2>1, SortedAlike
<1>5. \A x \in Range(u.hard) : DueOf(u, e)[x] <= b
  BY <1>3 DEF DueOK
<1>6. ASSUME NEW x \in Timer PROVE u.tm[x].init \in Nat /\ u.tm[x].init + MaxLate < Half
  <2>1. CASE x = t
    BY <2>1
  <2>2. CASE x # t
    <3>1. x \in Timers \ {t}
      BY <2>2 DEF Timers
    <3> QED BY <3>1 DEF Touch, DueOK
  <2> QED BY <2>1, <2>2
<1> QED BY <1>1, <1>4, <1>5, <1>6 DEF DueOK

LEMMA DueRemove ==
  ASSUME NEW s, NEW u, NEW e, NEW b, NEW t \in Timers, DueOK(s, e, b), Touch(s, u, t),
         u.hard = RemoveFirst(s.hard, t), u.tm[t].init = s.tm[t].init
  PROVE  DueOK(u, e, b)
<1>1. Lists(s) /\ Lists(u) /\ s.hard \in Seq(Timers) /\ IsInjective(s.hard)
  BY DEF Touch, DueOK, Lists, WType, Timers
<1>2. Range(u.hard) = Range(s.hard) \ {t} /\ Range(s.hard) \subseteq Timers
  BY <1>1, RangeRemoveFirst, HardTimers
<1>3. \A x \in Range(u.hard) : DueOf(s, e)[x] = DueOf(u, e)[x]
  <2>1. \A x \in Range(u.hard) : x \in Timers /\ u.tm[x] = s.tm[x] /\ u.tick = s.tick
    BY <1>2 DEF Touch
  <2> QED BY <2>1 DEF DueOf
<1>4. Sorted(u.hard, DueOf(u, e))
  <2>1. Sorted(s.hard, DueOf(s, e))
    BY DEF DueOK
  <2> HIDE DEF DueOf, Sorted
  <2>2. Sorted(u.hard, DueOf(s, e))
    BY <1>1, <2>1, SortedRemoveFirst
  <2> QED BY <1>3, <2>2, SortedAlike
<1>5. \A x \in Range(u.hard) : DueOf(u, e)[x] <= b
  BY <1>2, <1>3 DEF DueOK
<1>6. ASSUME NEW x \in Timer PROVE u.tm[x].init \in Nat /\ u.tm[x].init + MaxLate < Half
  <2>1. CASE x = t
    BY <2>1 DEF DueOK
  <2>2. CASE x # t
    <3>1. x \in Timers \ {t}
      BY <2>2 DEF Timers
    <3> QED BY <3>1 DEF Touch, DueOK
  <2> QED BY <2>1, <2>2
<1> QED BY <1>1, <1>4, <1>5, <1>6 DEF DueOK

\* The place of rt_timer_start, across the wrap and for a timer that is late.
LEMMA DueInsert ==
  ASSUME NEW s, NEW u, NEW e \in 0 .. Half, NEW b \in Int, NEW t \in Timers \ Soft, DueOK(s, e, b),
         Touch(s, u, t), ~InList(s, t), u.hard = Placed(s, s.hard, t),
         u.tm[t].at = s.tm[t].at, u.tm[t].init = s.tm[t].init,
         b <= Half, DueOf(s, e)[t] <= b, b - DueOf(s, e)[t] < Half
  PROVE  DueOK(u, e, b)
<1> DEFINE pr == DueOf(s, e)
           l  == s.hard
<1>0. Half \in Nat /\ TickMod \in Nat
  BY Constants
<1>1. Lists(s) /\ Lists(u) /\ l \in Seq(Timers) /\ IsInjective(l) /\ Range(l) \subseteq Timers
  BY HardTimers DEF Touch, DueOK, Lists, WType, Timers
<1>2. /\ s.tick \in Tick /\ \A x \in Timers : s.tm[x].at \in Tick
      /\ pr \in [Timers -> Int]
      /\ \A x \in Timers : pr[x] = (s.tm[x].at - s.tick + e) % TickMod /\ pr[x] \in 0 .. TickMod - 1
  BY <1>1, DueTypes
<1>3. Sorted(l, pr) /\ \A x \in Range(l) : pr[x] <= b
  BY DEF DueOK
<1>4. PICK n \in 1 .. Len(l) + 1 :
        /\ Placed(s, l, t) = InsertAt(l, n, t)
        /\ \A i \in 1 .. Len(l) : i < n => Since(s.tm[l[i]].at, s.tm[t].at) \notin 1 .. Half - 1
        /\ n <= Len(l) => Since(s.tm[l[n]].at, s.tm[t].at) \in 1 .. Half - 1
  <2> HIDE DEF l
  <2> QED BY <1>1, PlacedAt
<1>5. t \notin Range(l)
  BY DEF InList
<1>6. \A i \in 1 .. Len(l) : l[i] \in Range(l) /\ l[i] \in Timers
  BY <1>1 DEF Range
<1>8. pr[t] <= b /\ b - pr[t] < Half
  OBVIOUS
<1> HIDE DEF pr, l
<1>7. \A i \in 1 .. Len(l) : Since(s.tm[l[i]].at, s.tm[t].at) \in 1 .. Half - 1 <=> pr[t] < pr[l[i]]
  <2> SUFFICES ASSUME NEW i \in 1 .. Len(l)
               PROVE  Since(s.tm[l[i]].at, s.tm[t].at) \in 1 .. Half - 1 <=> pr[t] < pr[l[i]]
    OBVIOUS
  <2> DEFINE x == l[i]
  <2>1. x \in Timers /\ pr[x] <= b
    BY <1>3, <1>6
  <2> HIDE DEF x
  <2>2. pr[x] \in Int /\ pr[t] \in Int
    BY <1>2, <2>1
  <2>3. pr[x] <= Half /\ pr[t] <= Half /\ pr[x] - pr[t] < Half
    BY <1>0, <1>8, <2>1, <2>2
  <2>4. /\ pr[x] = (s.tm[x].at - s.tick + e) % TickMod
        /\ pr[t] = (s.tm[t].at - s.tick + e) % TickMod
        /\ s.tm[x].at \in Tick /\ s.tm[t].at \in Tick /\ s.tick \in Tick
    BY <1>2, <2>1
  <2>5. Since(s.tm[x].at, s.tm[t].at) \in 1 .. Half - 1 <=> pr[t] < pr[x]
    BY <2>3, <2>4, Compare
  <2> QED BY <2>5 DEF x
<1>9. /\ \A i \in 1 .. Len(l) : i < n => pr[l[i]] <= pr[t]
      /\ \A i \in 1 .. Len(l) : i >= n => pr[t] <= pr[l[i]]
  <2>1. \A i \in 1 .. Len(l) : pr[l[i]] \in Int /\ pr[t] \in Int
    BY <1>2, <1>6
  <2>2. ASSUME NEW i \in 1 .. Len(l), i < n PROVE pr[l[i]] <= pr[t]
    BY <1>4, <1>7, <2>1, <2>2
  <2>3. ASSUME NEW i \in 1 .. Len(l), i >= n PROVE pr[t] <= pr[l[i]]
    <3>0. Len(l) \in Nat
      BY <1>1
    <3>1. n \in 1 .. Len(l) /\ n <= Len(l)
      BY <2>3, <3>0
    <3>2. pr[t] < pr[l[n]]
      BY <1>4, <1>7, <3>1
    <3>3. n < i => pr[l[n]] <= pr[l[i]]
      <4>1. DOMAIN l = 1 .. Len(l)
        BY <1>1
      <4> QED BY <1>3, <3>1, <4>1 DEF Sorted
    <3>4. n = i \/ n < i
      BY <2>3, <3>1
    <3> QED BY <2>1, <3>1, <3>2, <3>3, <3>4
  <2> QED BY <2>2, <2>3
<1>10. Sorted(InsertAt(l, n, t), pr)
  BY <1>1, <1>2, <1>3, <1>9, SortedInsertAt
<1>11. u.hard = InsertAt(l, n, t)
  BY <1>4 DEF l
<1>12. Range(u.hard) = Range(l) \cup {t} /\ Range(u.hard) \subseteq Timers
  BY <1>1, <1>5, <1>11, RangeInsertAt
<1>13. \A x \in Range(u.hard) : pr[x] = DueOf(u, e)[x]
  <2>1. \A x \in Range(u.hard) : x \in Timers /\ u.tm[x].at = s.tm[x].at /\ u.tick = s.tick
    BY <1>12 DEF Touch
  <2> QED BY <2>1 DEF DueOf, pr
<1>14. Sorted(u.hard, DueOf(u, e))
  <2> HIDE DEF DueOf, Sorted
  <2> QED BY <1>10, <1>11, <1>13, SortedAlike
<1>15. \A x \in Range(u.hard) : DueOf(u, e)[x] <= b
  BY <1>3, <1>8, <1>12, <1>13
<1>16. ASSUME NEW x \in Timer PROVE u.tm[x].init \in Nat /\ u.tm[x].init + MaxLate < Half
  <2>1. CASE x = t
    BY <2>1 DEF DueOK
  <2>2. CASE x # t
    <3>1. x \in Timers \ {t}
      BY <2>2 DEF Timers
    <3> QED BY <3>1 DEF Touch, DueOK
  <2> QED BY <2>1, <2>2
<1> QED BY <1>1, <1>14, <1>15, <1>16 DEF DueOK
-----------------------------------------------------------------------------
(* The parts of the operations *)

LEMMA DueUnlist ==
  ASSUME NEW s, NEW e, NEW b, NEW t \in Timers, DueOK(s, e, b)
  PROVE  DueOK(Unlist(s, t), e, b) /\ Unlist(s, t).tm[t].init = s.tm[t].init
<1> DEFINE u == Unlist(s, t)
<1>1. Lists(s) /\ s.tm[t] \in TimerType
  BY DEF DueOK, Lists, WType, Timers
<1>2. /\ Touch(s, u, t) /\ u.tm[t] = [s.tm[t] EXCEPT !.at = 0] /\ u.hard = RemoveFirst(s.hard, t)
  BY <1>1, UnlistTouch
<1> HIDE DEF u
<1>3. u.tm[t].init = s.tm[t].init
  BY <1>1, <1>2 DEF TimerType
<1>4. DueOK(u, e, b)
  BY <1>2, <1>3, DueRemove
<1> QED BY <1>3, <1>4 DEF u

LEMMA DueActive ==
  ASSUME NEW s, NEW e, NEW b, NEW t \in Timers, NEW a \in BOOLEAN, DueOK(s, e, b)
  PROVE  DueOK(SetActive(s, t, a), e, b) /\ SetActive(s, t, a).tm[t].init = s.tm[t].init
<1> DEFINE u == SetActive(s, t, a)
<1>1. Lists(s) /\ s.tm[t] \in TimerType
  BY DEF DueOK, Lists, WType, Timers
<1>2. /\ Touch(s, u, t) /\ u.tm[t] = [s.tm[t] EXCEPT !.act = a] /\ u.hard = s.hard
  BY <1>1, ActiveTouch
<1> HIDE DEF u
<1>3. u.tm[t].init = s.tm[t].init /\ u.tm[t].at = s.tm[t].at
  BY <1>1, <1>2 DEF TimerType
<1>4. t \in Timer => u.tm[t].init \in Nat /\ u.tm[t].init + MaxLate < Half
  BY <1>3 DEF DueOK
<1>5. DueOK(u, e, b)
  BY <1>2, <1>3, <1>4, DueSame
<1> QED BY <1>3, <1>5 DEF u

LEMMA DueOff ==
  ASSUME NEW s, NEW e, NEW b, NEW t \in Timers, DueOK(s, e, b)
  PROVE  DueOK(StartOff(s, t), e, b) /\ StartOff(s, t).tm[t].init = s.tm[t].init
<1> DEFINE u == Unlist(s, t)
<1>1. DueOK(u, e, b) /\ u.tm[t].init = s.tm[t].init
  BY DueUnlist
<1>2. StartOff(s, t) = SetActive(u, t, FALSE)
  BY DEF StartOff
<1> HIDE DEF u
<1> QED BY <1>1, <1>2, DueActive

LEMMA DueStop ==
  ASSUME NEW s, NEW e, NEW b, NEW t \in Timers, DueOK(s, e, b)
  PROVE  DueOK(Stop(s, t), e, b)
<1>1. CASE s.tm[t].act
  <2>1. Stop(s, t) = StartOff(s, t)
    BY <1>1 DEF Stop, StartOff
  <2> QED BY <2>1, DueOff
<1>2. CASE ~s.tm[t].act
  BY <1>2 DEF Stop
<1> QED BY <1>1, <1>2

\* while the timer is in no list
LEMMA DueTime ==
  ASSUME NEW s, NEW e \in 0 .. Half, NEW b, NEW t \in Timers, NEW d \in Nat, DueOK(s, e, b),
         ~InList(s, t), d + e <= Half
  PROVE  LET u == TimeIn(s, t, d)
         IN  /\ DueOK(u, e, b) /\ u.tm[t].init = s.tm[t].init /\ DueOf(u, e)[t] = d + e
             /\ Touch(s, u, t) /\ ~InList(u, t)
<1> DEFINE u == TimeIn(s, t, d)
<1>1. Lists(s) /\ s.tm[t] \in TimerType /\ s.tick \in Tick
  BY DEF DueOK, Lists, WType, Timers
<1>2. /\ Touch(s, u, t) /\ (InList(u, t) <=> InList(s, t)) /\ u.hard = s.hard
      /\ u.tm[t] = [s.tm[t] EXCEPT !.at = (s.tick + d) % TickMod]
  BY <1>1, TimeTouch
<1> HIDE DEF u
<1>3. u.tm[t].init = s.tm[t].init /\ u.tm[t].at = (s.tick + d) % TickMod /\ u.tick = s.tick
  BY <1>1, <1>2 DEF TimerType, Touch
<1>4. t \notin Range(s.hard)
  <2>1. t \in Soft => Range(s.hard) \cap Soft = {}
    BY <1>1, Constants DEF Lists
  <2> QED BY <2>1 DEF InList
<1>5. t \in Timer => u.tm[t].init \in Nat /\ u.tm[t].init + MaxLate < Half
  BY <1>3 DEF DueOK
<1>6. DueOK(u, e, b)
  BY <1>2, <1>4, <1>5, DueSame
<1>7. DueOf(u, e)[t] = d + e
  <2>1. d <= Half
    BY Constants
  <2>2. (((s.tick + d) % TickMod) - s.tick + e) % TickMod = d + e
    BY <1>1, <2>1, StartedIn
  <2> QED BY <1>3, <2>2 DEF DueOf
<1> QED BY <1>2, <1>3, <1>6, <1>7 DEF u

LEMMA DueOn ==
  ASSUME NEW s, NEW e \in 0 .. Half, NEW b \in Int, NEW t \in Timers, DueOK(s, e, b), ~InList(s, t),
         b <= Half, t \notin Soft => DueOf(s, e)[t] <= b /\ b - DueOf(s, e)[t] < Half
  PROVE  DueOK(StartOn(s, t), e, b)
<1> DEFINE u == StartOn(s, t)
<1>1. Lists(s) /\ s.tm[t] \in TimerType
  BY DEF DueOK, Lists, WType, Timers
<1>2. /\ Touch(s, u, t) /\ u.tm[t] = [s.tm[t] EXCEPT !.act = TRUE]
      /\ u.hard = IF t \in Soft THEN s.hard ELSE Placed(s, s.hard, t)
  BY <1>1, OnTouch
<1> HIDE DEF u
<1>3. u.tm[t].init = s.tm[t].init /\ u.tm[t].at = s.tm[t].at
  BY <1>1, <1>2 DEF TimerType
<1>4. t \in Timer => u.tm[t].init \in Nat /\ u.tm[t].init + MaxLate < Half
  BY <1>3 DEF DueOK
<1>5. CASE t \in Soft
  <2>1. u.hard = s.hard
    BY <1>2, <1>5
  <2>2. DueOK(u, e, b)
    BY <1>2, <1>3, <1>4, <2>1, DueSame
  <2> QED BY <2>2 DEF u
<1>6. CASE t \notin Soft
  <2>1. u.hard = Placed(s, s.hard, t) /\ t \in Timers \ Soft
    BY <1>2, <1>6
  <2>2. DueOK(u, e, b)
    BY <1>2, <1>3, <1>6, <2>1, DueInsert
  <2> QED BY <2>2 DEF u
<1> QED BY <1>5, <1>6

\* rt_timer_start with interrupts disabled
LEMMA DueStartIn ==
  ASSUME NEW s, NEW e \in 0 .. Half, NEW b \in Int, NEW t \in Timers, NEW d \in Nat, DueOK(s, e, b),
         b <= Half, d + e <= b, b - (d + e) < Half
  PROVE  LET u == StartOn(TimeIn(StartOff(s, t), t, d), t) IN DueOK(u, e, b) /\ Touch(s, u, t)
<1> DEFINE v == StartOff(s, t)
           u == TimeIn(v, t, d)
<1>1. DueOK(v, e, b)
  BY DueOff
<1>2. Touch(s, v, t) /\ ~InList(v, t)
  BY OffTouch DEF DueOK
<1> HIDE DEF v
<1>0. d + e <= Half
  BY Constants
<1>3. DueOK(u, e, b) /\ DueOf(u, e)[t] = d + e /\ Touch(v, u, t) /\ ~InList(u, t)
  BY <1>0, <1>1, <1>2, DueTime
<1> HIDE DEF u
<1>4. DueOK(StartOn(u, t), e, b)
  BY <1>3, DueOn
<1>5. Touch(u, StartOn(u, t), t)
  BY <1>3, OnTouch DEF DueOK
<1>6. Touch(s, StartOn(u, t), t)
  BY <1>2, <1>3, <1>5, TouchAgain
<1> QED BY <1>4, <1>6 DEF u, v

LEMMA DueStart ==
  ASSUME NEW s, NEW t \in Timer, DueOK(s, MaxLate + 1, Half)
  PROVE  DueOK(Start(s, t), MaxLate + 1, Half)
<1> DEFINE d == s.tm[t].init
           e == MaxLate + 1
<1>1. d \in Nat /\ d + MaxLate < Half
  BY DEF DueOK
<1>2. StartOff(s, t).tm[t].init = d /\ t \in Timers
  BY DueOff, Constants
<1>3. Start(s, t) = StartOn(TimeIn(StartOff(s, t), t, d), t)
  BY <1>2 DEF Start, StartTime
<1> HIDE DEF d
<1>4. Half \in Int /\ Half <= Half /\ e \in 0 .. Half /\ d + e <= Half /\ Half - (d + e) < Half
  BY <1>1, Constants
<1>5. DueOK(s, e, Half)
  OBVIOUS
<1> HIDE DEF e
<1>6. DueOK(Start(s, t), e, Half)
  BY <1>1, <1>2, <1>3, <1>4, <1>5, DueStartIn
<1> QED BY <1>6 DEF e
-----------------------------------------------------------------------------
(* The interrupt *)

LEMMA DueInit == Init => DueInv
<1> SUFFICES ASSUME Init PROVE DueInv
  OBVIOUS
<1>1. Lists(w)
  BY FlagInit DEF FlagInv
<1>2. w.hard = <<>> /\ isr = FALSE /\ user.pc = "run" /\ thread.pc = "loop"
  BY DEF Init
<1>3. Range(w.hard) = {} /\ Sorted(w.hard, DueOf(w, MaxLate))
  BY <1>2 DEF Range, Sorted
<1>4. ASSUME NEW t \in Timer PROVE w.tm[t].init \in Nat /\ w.tm[t].init + MaxLate < Half
  <2> DEFINE kind == CHOOSE k \in Kinds[t] : TRUE
  <2>1. kind \in Kinds[t] /\ Kinds[t] \subseteq (1 .. Half - 1) \X BOOLEAN
    <3>1. Kinds[t] \in (SUBSET ((1 .. Half - 1) \X BOOLEAN)) \ {{}}
      BY TimerAssumption
    <3> QED BY <3>1
  <2>2. w.tm[t].init = kind[1]
    <3>1. t \in Timer \cup {Delay} /\ t # Delay
      BY Constants
    <3>2. w.tm[t] = Stopped(kind)
      BY <3>1 DEF Init
    <3> QED BY <3>2 DEF Stopped
  <2> HIDE DEF kind
  <2>3. kind[1] + MaxLate < Half /\ kind[1] \in Nat
    BY <2>1, TimerAssumption
  <2> QED BY <2>2, <2>3
<1>5. DueOK(w, MaxLate, Half - 1)
  BY <1>1, <1>3, <1>4 DEF DueOK
<1> QED BY <1>2, <1>5 DEF DueInv, Spare

\* A timer in the hand of the user thread that is due in the earliest tick.
LEMMA JustLate ==
  ASSUME NEW a \in Tick, NEW now \in Tick, (a - now + MaxLate) % TickMod = 0
  PROVE  Since(now, a) = MaxLate
<1>0. /\ TickMod \in Nat /\ TickMod >= 5 /\ Half \in Nat /\ 2 * Half <= TickMod - 1
      /\ a \in 0 .. TickMod - 1 /\ now \in 0 .. TickMod - 1
      /\ MaxLate \in Nat /\ MaxLate + 1 < Half /\ MaxLate \in 0 .. Half
  BY Constants DEF Tick, TickMax
<1>1. 0 = IF a - now + MaxLate < 0 THEN a - now + MaxLate + TickMod
          ELSE IF a - now + MaxLate < TickMod THEN a - now + MaxLate
          ELSE a - now + MaxLate - TickMod
  BY <1>0, Distance
<1>2. Since(now, a) = IF now < a THEN now - a + TickMod ELSE now - a
  BY SinceIs
<1> QED BY <1>0, <1>1, <1>2

LEMMA DueTick ==
  ASSUME FlagInv, DueInv, rt_tick_increase
  PROVE  DueInv'
<1>0. MaxLate \in 0 .. Half - 1 /\ MaxLate \in 0 .. Half /\ MaxLate + 1 \in 0 .. Half /\ Half \in Nat
  BY Constants
<1>1. /\ w' = [w EXCEPT !.tick = (w.tick + 1) % TickMod] /\ isr = FALSE /\ isr' = TRUE
      /\ user' = user /\ thread' = thread /\ Punctual
  BY DEF rt_tick_increase, FlagInv, CallTypes
<1>2. Lists(w) /\ Lists(w') /\ w \in WType
  BY TickInv DEF FlagInv, Lists
<1>3. w'.hard = w.hard /\ w'.tm = w.tm /\ w'.tick = (w.tick + 1) % TickMod
  BY <1>1, <1>2 DEF WType
<1>4. DueOK(w, MaxLate, Half - 1)
  BY <1>1 DEF DueInv, Spare
<1>5. w.tick \in Tick /\ \A t \in Timers : w.tm[t].at \in Tick
  BY <1>0, <1>2, DueTypes
<1>6. ASSUME NEW t \in Timers PROVE DueOf(w, MaxLate)[t] = DueOf(w', MaxLate + 1)[t]
  <2>1. (w.tm[t].at - ((w.tick + 1) % TickMod) + (MaxLate + 1)) % TickMod
          = (w.tm[t].at - w.tick + MaxLate) % TickMod
    BY <1>0, <1>5, NextTick
  <2> QED BY <1>3, <2>1 DEF DueOf
<1>7. Range(w.hard) \subseteq Timers
  BY <1>2, HardTimers
<1>8. DueOK(w', MaxLate + 1, Half)
  <2>1. Sorted(w'.hard, DueOf(w', MaxLate + 1))
    <3>1. Sorted(w.hard, DueOf(w, MaxLate))
      BY <1>4 DEF DueOK
    <3>2. \A t \in Range(w.hard) : DueOf(w, MaxLate)[t] = DueOf(w', MaxLate + 1)[t]
      BY <1>6, <1>7
    <3> HIDE DEF DueOf, Sorted
    <3>3. Sorted(w.hard, DueOf(w', MaxLate + 1))
      BY <3>1, <3>2, SortedAlike
    <3> QED BY <1>3, <3>3
  <2>2. ASSUME NEW t \in Range(w'.hard) PROVE DueOf(w', MaxLate + 1)[t] <= Half
    <3>1. t \in Range(w.hard) /\ t \in Timers
      BY <1>3, <1>7
    <3>2. DueOf(w, MaxLate)[t] <= Half - 1 /\ DueOf(w, MaxLate)[t] \in Int
      BY <1>0, <1>2, <1>4, <3>1, DueTypes DEF DueOK
    <3> QED BY <1>0, <1>6, <3>1, <3>2
  <2> QED BY <1>2, <1>3, <1>4, <2>1, <2>2 DEF DueOK
<1>9. ASSUME user'.pc = "start_on"
      PROVE  DueOf(w', MaxLate + 1)[user'.t] <= Half - 1 /\ DueOf(w', MaxLate + 1)[user'.t] # 0
  <2> DEFINE t == user.t
  <2>1. user.pc = "start_on" /\ t \in Timers /\ user'.t = t
    BY <1>1, <1>9, Constants DEF FlagInv, CallInv
  <2>2. DueOf(w, MaxLate)[t] <= Half - 1
    BY <1>1, <2>1 DEF DueInv, Spare
  <2>3. Since(w.tick, w.tm[t].at) # MaxLate
    BY <1>1, <2>1 DEF Punctual
  <2> HIDE DEF t
  <2>4. DueOf(w, MaxLate)[t] # 0
    <3>1. DueOf(w, MaxLate)[t] = (w.tm[t].at - w.tick + MaxLate) % TickMod
      BY <2>1 DEF DueOf
    <3> QED BY <1>5, <2>1, <2>3, <3>1, JustLate
  <2> QED BY <1>6, <2>1, <2>2, <2>4
<1>10. thread'.pc = "delay" => thread'.left + MaxLate < Half
  BY <1>1 DEF DueInv
<1>11. Spare' = MaxLate + 1
  BY <1>1 DEF Spare
<1> QED BY <1>1, <1>8, <1>9, <1>10, <1>11 DEF DueInv

\* When the head of the list is not overdue no timer in it is.
LEMMA NoneDue ==
  ASSUME FlagInv, DueInv, isr, ~HardDue
  PROVE  \A t \in Range(w.hard) : DueOf(w, MaxLate + 1)[t] > MaxLate + 1
<1>0. MaxLate \in Nat /\ MaxLate + 1 < Half /\ MaxLate + 1 \in 0 .. Half /\ Half \in Nat
  BY Constants
<1>1. Lists(w) /\ Range(w.hard) \subseteq Timers /\ w.hard \in Seq(Timers)
  BY HardTimers DEF FlagInv, Lists, WType, Timers
<1>2. DueOK(w, MaxLate + 1, Half)
  BY DEF DueInv, Spare
<1>3. w.tick \in Tick /\ \A t \in Timers : w.tm[t].at \in Tick
  BY <1>0, <1>1, DueTypes
<1> SUFFICES ASSUME NEW t \in Range(w.hard) PROVE DueOf(w, MaxLate + 1)[t] > MaxLate + 1
  OBVIOUS
<1>4. PICK i \in DOMAIN w.hard : t = w.hard[i]
  BY DEF Range
<1>5. i \in 1 .. Len(w.hard) /\ 1 \in DOMAIN w.hard /\ w.hard # <<>> /\ Head(w.hard) = w.hard[1]
  BY <1>1, <1>4
<1> DEFINE h == w.hard[1]
           x == DueOf(w, MaxLate + 1)[h]
           y == DueOf(w, MaxLate + 1)[t]
<1>6. h \in Range(w.hard) /\ h \in Timers /\ t \in Timers
  BY <1>1, <1>5 DEF Range
<1>7. ~(Since(w.tick, w.tm[h].at) < Half)
  BY <1>5 DEF HardDue, Expired
<1>8. x = (w.tm[h].at - w.tick + (MaxLate + 1)) % TickMod /\ x <= Half /\ x \in Int /\ y \in Int
  <2>1. \A z \in Timers : /\ DueOf(w, MaxLate + 1)[z] = (w.tm[z].at - w.tick + (MaxLate + 1)) % TickMod
                          /\ DueOf(w, MaxLate + 1)[z] \in 0 .. TickMod - 1
    BY <1>0, <1>1, DueTypes
  <2>2. x <= Half
    BY <1>2, <1>6 DEF DueOK
  <2> HIDE DEF DueOf, h
  <2>3. x \in 0 .. TickMod - 1 /\ y \in 0 .. TickMod - 1
    BY <1>6, <2>1
  <2>4. x \in Int /\ y \in Int
    BY <2>3, Constants
  <2> QED BY <1>6, <2>1, <2>2, <2>4
<1>9. i = 1 \/ x <= y
  BY <1>2, <1>4, <1>5 DEF DueOK, Sorted
<1>10. x = y \/ x <= y
  BY <1>4, <1>9
<1> HIDE DEF x, y, h
<1>11. ~(x <= MaxLate + 1)
  <2> DEFINE a   == w.tm[h].at
             now == w.tick
  <2>1. a \in Tick /\ now \in Tick
    BY <1>3, <1>6
  <2>2. x = (a - now + (MaxLate + 1)) % TickMod /\ x <= Half /\ ~(Since(now, a) < Half)
    BY <1>7, <1>8
  <2> HIDE DEF a, now
  <2>3. Since(now, a) < Half <=> x <= MaxLate + 1
    BY <1>0, <2>1, <2>2, Overdue
  <2> QED BY <2>2, <2>3
<1>12. y > MaxLate + 1
  BY <1>0, <1>8, <1>10, <1>11
<1> QED BY <1>12 DEF y

\* What is in the list is due later than now, and in less than half the range.
LEMMA LeavePunctual ==
  ASSUME FlagInv, DueInv, CheckLeave
  PROVE  /\ DueInv'
         /\ \A t \in Range(w'.hard) : Since(w'.tm[t].at, w'.tick) \in 1 .. Half - 1
<1>0. /\ MaxLate \in Nat /\ MaxLate + 1 < Half /\ MaxLate \in 0 .. Half /\ MaxLate + 1 \in 0 .. Half
      /\ Half \in Nat
  BY Constants
<1>1. w' = w /\ user' = user /\ thread' = thread /\ isr /\ isr' = FALSE /\ ~HardDue
  BY DEF CheckLeave
<1>2. Lists(w) /\ Range(w.hard) \subseteq Timers
  BY HardTimers DEF FlagInv
<1>3. DueOK(w, MaxLate + 1, Half)
  BY <1>1 DEF DueInv, Spare
<1>4. w.tick \in Tick /\ \A t \in Timers : w.tm[t].at \in Tick
  BY <1>0, <1>2, DueTypes
<1>5. \A t \in Range(w.hard) : DueOf(w, MaxLate + 1)[t] > MaxLate + 1
  BY <1>1, NoneDue
<1>6. ASSUME NEW t \in Timers, DueOf(w, MaxLate + 1)[t] <= Half
      PROVE  /\ DueOf(w, MaxLate + 1)[t] \in 0 .. Half
             /\ DueOf(w, MaxLate + 1)[t] # 0 => DueOf(w, MaxLate)[t] = DueOf(w, MaxLate + 1)[t] - 1
             /\ DueOf(w, MaxLate + 1)[t] > MaxLate + 1 =>
                  Since(w.tm[t].at, w.tick) = DueOf(w, MaxLate + 1)[t] - MaxLate - 1
  <2> DEFINE x == DueOf(w, MaxLate + 1)[t]
  <2>1. /\ x = (w.tm[t].at - w.tick + (MaxLate + 1)) % TickMod
        /\ DueOf(w, MaxLate)[t] = (w.tm[t].at - w.tick + MaxLate) % TickMod
        /\ x <= Half
    BY <1>6 DEF DueOf
  <2> HIDE DEF x
  <2>2. /\ x \in 0 .. Half
        /\ x # 0 => (w.tm[t].at - w.tick + MaxLate) % TickMod = x - 1
        /\ x > MaxLate + 1 => Since(w.tm[t].at, w.tick) = x - MaxLate - 1
    <3> DEFINE a   == w.tm[t].at
               now == w.tick
    <3>1. a \in Tick /\ now \in Tick
      BY <1>4, <1>6
    <3>2. x = (a - now + (MaxLate + 1)) % TickMod /\ x <= Half
      BY <2>1
    <3> HIDE DEF a, now
    <3>3. /\ x \in 0 .. Half
          /\ x # 0 => (a - now + MaxLate) % TickMod = x - 1
          /\ x > MaxLate + 1 => Since(a, now) = x - MaxLate - 1
      BY <1>0, <3>1, <3>2, Overdue
    <3> QED BY <3>3 DEF a, now
  <2> QED BY <2>1, <2>2 DEF x
<1>7. ASSUME NEW t \in Range(w.hard)
      PROVE  /\ DueOf(w, MaxLate + 1)[t] \in 0 .. Half /\ DueOf(w, MaxLate + 1)[t] > MaxLate + 1
             /\ DueOf(w, MaxLate)[t] = DueOf(w, MaxLate + 1)[t] - 1
             /\ Since(w.tm[t].at, w.tick) = DueOf(w, MaxLate + 1)[t] - MaxLate - 1
  <2>1. t \in Timers /\ DueOf(w, MaxLate + 1)[t] <= Half /\ DueOf(w, MaxLate + 1)[t] > MaxLate + 1
    BY <1>2, <1>3, <1>5 DEF DueOK
  <2>2. DueOf(w, MaxLate + 1)[t] # 0
    BY <1>0, <2>1
  <2> QED BY <1>6, <2>1, <2>2
<1>8. DueOK(w, MaxLate, Half - 1)
  <2>1. Sorted(w.hard, DueOf(w, MaxLate))
    <3>1. Sorted(w.hard, DueOf(w, MaxLate + 1))
      BY <1>3 DEF DueOK
    <3>2. \A i \in DOMAIN w.hard : w.hard[i] \in Range(w.hard)
      BY DEF Range
    <3> HIDE DEF DueOf
    <3> QED BY <1>7, <3>1, <3>2 DEF Sorted
  <2>2. \A t \in Range(w.hard) : DueOf(w, MaxLate)[t] <= Half - 1
    BY <1>0, <1>7
  <2> QED BY <1>3, <2>1, <2>2 DEF DueOK
<1>9. ASSUME user.pc = "start_on" PROVE DueOf(w, MaxLate)[user.t] <= Half - 1
  <2> DEFINE t == user.t
             x == DueOf(w, MaxLate + 1)[t]
  <2>1. t \in Timers /\ x <= Half - 1 /\ x # 0
    BY <1>1, <1>9, Constants DEF FlagInv, CallInv, DueInv, Spare
  <2>2. x \in Int
    BY <1>0, <1>2, <2>1, DueTypes
  <2> HIDE DEF x, t
  <2>3. x <= Half
    BY <1>0, <2>1, <2>2
  <2>4. DueOf(w, MaxLate)[t] = x - 1
    BY <1>6, <2>1, <2>3 DEF x
  <2>5. DueOf(w, MaxLate)[t] <= Half - 1
    BY <1>0, <2>1, <2>2, <2>4
  <2> QED BY <2>5 DEF t
<1>10. Spare' = MaxLate /\ (thread'.pc = "delay" => thread'.left + MaxLate < Half)
  BY <1>1 DEF Spare, DueInv
<1>11. DueInv'
  BY <1>1, <1>8, <1>9, <1>10 DEF DueInv
<1>12. \A t \in Range(w'.hard) : Since(w'.tm[t].at, w'.tick) \in 1 .. Half - 1
  BY <1>0, <1>1, <1>7
<1> QED BY <1>11, <1>12

LEMMA DueCallback ==
  ASSUME NEW s, NEW t \in Timer, NEW v \in Callback(s, t), DueOK(s, MaxLate + 1, Half)
  PROVE  DueOK(Again(v, t), MaxLate + 1, Half)
<1>0. Timer \subseteq Timers
  BY Constants
<1>1. v = s \/ \E y \in Timer : v = Start(s, y) \/ v = Stop(s, y)
  BY DEF Callback
<1>2. DueOK(v, MaxLate + 1, Half)
  <2>1. ASSUME NEW y \in Timer, v = Start(s, y) \/ v = Stop(s, y) PROVE DueOK(v, MaxLate + 1, Half)
    BY <1>0, <2>1, DueStart, DueStop
  <2> QED BY <1>1, <2>1
<1>3. CASE v.tm[t].per /\ v.tm[t].act
  <2>1. Again(v, t) = Start(v, t)
    BY <1>3 DEF Again
  <2> QED BY <1>2, <2>1, DueStart
<1>4. CASE ~(v.tm[t].per /\ v.tm[t].act)
  <2>1. Again(v, t) = SetActive(v, t, FALSE)
    BY <1>4 DEF Again
  <2> QED BY <1>0, <1>2, <2>1, DueActive
<1> QED BY <1>3, <1>4

\* A change that the timer thread or nobody else than the user thread notices.
LEMMA DueAwake ==
  ASSUME NEW s, NEW e, NEW b, NEW a \in BOOLEAN, DueOK(s, e, b)
  PROVE  LET u == [s EXCEPT !.awake = a]
         IN  DueOK(u, e, b) /\ Lists(u) /\ u.tm = s.tm /\ u.tick = s.tick /\ u.hard = s.hard
<1> DEFINE u == [s EXCEPT !.awake = a]
<1>1. Lists(s) /\ s \in WType /\ Delay \in Timers /\ Delay \notin Timer
  BY Constants DEF DueOK, Lists
<1>2. /\ u \in WType /\ u.hard = s.hard /\ u.soft = s.soft /\ u.tm = s.tm /\ u.tick = s.tick
  BY <1>1 DEF WType
<1> HIDE DEF u
<1>3. Lists(u) /\ Touch(s, u, Delay)
  BY <1>1, <1>2 DEF Lists, Touch, InList
<1>4. DueOK(u, e, b)
  BY <1>1, <1>2, <1>3, DueSame
<1> QED BY <1>2, <1>3, <1>4 DEF u

LEMMA DueHard ==
  ASSUME FlagInv, DueInv, HardTimeout
  PROVE  DueInv'
<1> DEFINE t == Head(w.hard)
           v == Unlist(w, t)
<1>0. /\ Timer \subseteq Timers /\ Delay \notin Timer /\ Delay \in Timers /\ Soft \subseteq Timer
      /\ End \notin Timers
  BY Constants
<1>1. /\ user' = user /\ thread' = thread /\ isr /\ isr' = isr /\ w.hard # <<>>
      /\ IF t = Delay THEN w' = SetActive([v EXCEPT !.awake = TRUE], t, FALSE)
                      ELSE \E s \in Callback(v, t) : w' = Again(s, t)
  BY DEF HardTimeout, HardDue
<1>2. DueOK(w, MaxLate + 1, Half) /\ Lists(w)
  BY <1>1 DEF DueInv, Spare, FlagInv
<1>3. t \in Timers /\ t \notin Soft /\ InList(w, t)
  <2>1. w.hard \in Seq((Timer \ Soft) \cup {Delay}) /\ IsInjective(w.hard)
    BY <1>2, InSeq DEF Lists
  <2>2. t \in Range(w.hard) /\ t \in (Timer \ Soft) \cup {Delay}
    BY <1>1, <2>1, RangeHeadTail
  <2> QED BY <1>0, <2>2, Constants DEF InList
<1>4. user.pc \in UserOff => user.t # t /\ user.t \in Timer /\ Owner[user.t] = User
  BY <1>3 DEF FlagInv, CallInv, UserOff
<1> HIDE DEF t
<1>5. Touch(w, v, t) /\ ~InList(v, t) /\ DueOK(v, MaxLate + 1, Half) /\ Lists(v)
  BY <1>2, <1>3, UnlistTouch, DueUnlist DEF DueOK
<1> HIDE DEF v
<1>6. /\ DueOK(w', MaxLate + 1, Half) /\ w'.tick = w.tick
      /\ user.pc \in UserOff => w'.tm[user.t] = w.tm[user.t]
  <2>1. CASE t = Delay
    <3> DEFINE s == [v EXCEPT !.awake = TRUE]
    <3>1. w' = SetActive(s, t, FALSE)
      BY <1>1, <2>1
    <3>2. DueOK(s, MaxLate + 1, Half) /\ Lists(s) /\ s.tm = v.tm /\ s.tick = v.tick
      BY <1>5, DueAwake
    <3> HIDE DEF s
    <3>3. DueOK(w', MaxLate + 1, Half)
      BY <1>3, <3>1, <3>2, DueActive
    <3>4. Touch(s, w', t)
      BY <1>3, <3>1, <3>2, ActiveTouch
    <3>5. w'.tick = w.tick
      BY <1>5, <3>2, <3>4 DEF Touch
    <3>6. user.pc \in UserOff => w'.tm[user.t] = w.tm[user.t]
      BY <1>0, <1>4, <1>5, <3>2, <3>4 DEF Touch
    <3> QED BY <3>3, <3>5, <3>6
  <2>2. CASE t # Delay
    <3>0. t \in Timer \ Soft
      BY <1>3, <2>2 DEF Timers
    <3>1. PICK s \in Callback(v, t) : w' = Again(s, t)
      BY <1>1, <2>2
    <3>2. DueOK(w', MaxLate + 1, Half)
      BY <1>5, <3>0, <3>1, DueCallback
    <3>3. \A x \in Timer : Owner[x] = t => x \notin Soft /\ x # user.t /\ x # t
      <4>1. t # User /\ \A x \in Timer : Owner[x] # x /\ (x \in Soft => Owner[x] = User)
        BY <3>0, TimerAssumption
      <4>2. user.t = End \/ Owner[user.t] = User
        BY DEF FlagInv, CallInv
      <4> QED BY <1>0, <3>0, <4>1, <4>2
    <3>4. ASSUME NEW x \in Timer, Owner[x] = t PROVE v.tm[x].act <=> InList(v, x)
      <4>1. thread.t \in Soft \cup {End}
        BY DEF FlagInv, CallTypes
      <4>2. x \in Timers \ {t} /\ Settled(x)
        BY <1>0, <3>3, <3>4, <4>1 DEF Settled
      <4> QED BY <1>5, <4>2 DEF Touch, FlagInv
    <3>5. /\ w'.tick = v.tick
          /\ \A x \in Timers : x # t /\ (x = Delay \/ Owner[x] # t) => w'.tm[x] = v.tm[x]
      BY <1>5, <3>0, <3>1, <3>4, CallbackInv
    <3>6. user.pc \in UserOff => w'.tm[user.t] = w.tm[user.t]
      <4> SUFFICES ASSUME user.pc \in UserOff PROVE w'.tm[user.t] = w.tm[user.t]
        OBVIOUS
      <4>1. user.t \in Timers \ {t} /\ Owner[user.t] # t
        BY <1>0, <1>4, <3>3
      <4> QED BY <1>5, <3>5, <4>1 DEF Touch
    <3>7. w'.tick = w.tick
      BY <1>5, <3>5 DEF Touch
    <3> QED BY <3>2, <3>6, <3>7
  <2> QED BY <2>1, <2>2
<1>7. Spare' = MaxLate + 1 /\ Spare = MaxLate + 1
  BY <1>1 DEF Spare
<1>8. ASSUME user.pc = "start_on" PROVE DueOf(w', MaxLate + 1)[user.t] = DueOf(w, MaxLate + 1)[user.t]
  <2>1. user.pc \in UserOff /\ user.t \in Timers
    BY <1>0, <1>4, <1>8 DEF UserOff
  <2> QED BY <1>6, <2>1 DEF DueOf
<1> QED BY <1>1, <1>6, <1>7, <1>8 DEF DueInv
-----------------------------------------------------------------------------
(* The threads *)

\* The user thread reads no tick.
LEMMA DueUserStep ==
  ASSUME DueInv, ~isr, isr' = isr, thread' = thread, DueOK(w', MaxLate, Half - 1),
         user'.pc = "start_on" => DueOf(w', MaxLate)[user'.t] <= Half - 1
  PROVE  DueInv'
BY DEF DueInv, Spare

LEMMA DueUser ==
  ASSUME FlagInv, DueInv, UserNext
  PROVE  DueInv'
<1>0. /\ Timer \subseteq Timers /\ MaxLate \in 0 .. Half /\ Half - 1 \in Int /\ Half - 1 <= Half
      /\ Half \in Nat /\ Delay \in Timers
  BY Constants
<1>1. ASSUME NEW pc, UserAt(pc) PROVE ~isr /\ DueOK(w, MaxLate, Half - 1)
  BY <1>1 DEF UserAt, DueInv, Spare
<1>2. ASSUME NEW t \in Timer, Owner[t] = User, rt_timer_start(t) PROVE DueInv'
  <2>1. /\ UserAt("run") /\ w' = StartOff(w, t) /\ user'.pc = "start_time"
        /\ isr' = isr /\ thread' = thread
    BY <1>2 DEF rt_timer_start, UserGoto
  <2>2. DueOK(w', MaxLate, Half - 1)
    BY <1>0, <1>1, <2>1, DueOff
  <2> QED BY <1>1, <2>1, <2>2, DueUserStep
<1>3. ASSUME UserStartTime PROVE DueInv'
  <2> DEFINE t == user.t
             d == w.tm[t].init
  <2>1. /\ UserAt("start_time") /\ w' = TimeIn(w, t, d) /\ user' = [pc |-> "start_on", t |-> t]
        /\ isr' = isr /\ thread' = thread
    BY <1>3 DEF UserStartTime, UserGoto, StartTime
  <2>2. t \in Timer /\ t \in Timers /\ ~InList(w, t)
    BY <2>1, UserRuns DEF UserOff
  <2> HIDE DEF t
  <2>3. d \in Nat /\ d + MaxLate < Half
    BY <1>1, <2>1, <2>2 DEF DueOK
  <2> HIDE DEF d
  <2>4. d + MaxLate <= Half /\ d + MaxLate <= Half - 1
    BY <1>0, <2>3
  <2>5. DueOK(w', MaxLate, Half - 1) /\ DueOf(w', MaxLate)[t] = d + MaxLate
    BY <1>0, <1>1, <2>1, <2>2, <2>3, <2>4, DueTime
  <2>6. user'.pc = "start_on" => DueOf(w', MaxLate)[user'.t] <= Half - 1
    BY <2>1, <2>4, <2>5
  <2> QED BY <1>1, <2>1, <2>5, <2>6, DueUserStep
<1>4. ASSUME UserStartOn PROVE DueInv'
  <2> DEFINE t == user.t
  <2>1. /\ UserAt("start_on") /\ w' = StartOn(w, t) /\ user'.pc \in {"start_wake", "run"}
        /\ isr' = isr /\ thread' = thread /\ user.pc = "start_on"
    BY <1>4 DEF UserStartOn, UserGoto, UserAt
  <2>2. t \in Timer /\ t \in Timers /\ ~InList(w, t) /\ Lists(w)
    BY <2>1, UserRuns DEF UserOff
  <2>3. DueOf(w, MaxLate)[t] <= Half - 1
    BY <1>1, <2>1 DEF DueInv, Spare
  <2> HIDE DEF t
  <2>4. DueOf(w, MaxLate)[t] \in 0 .. TickMod - 1
    BY <1>0, <2>2, DueTypes
  <2> DEFINE x == DueOf(w, MaxLate)[t]
  <2>5. x \in Int /\ x >= 0
    BY <2>4, Constants
  <2> HIDE DEF x
  <2>6. Half - 1 - x < Half
    BY <1>0, <2>5
  <2>7. DueOK(w', MaxLate, Half - 1)
    BY <1>0, <1>1, <2>1, <2>2, <2>3, <2>6, DueOn DEF x
  <2> QED BY <1>1, <2>1, <2>7, DueUserStep
<1>5. ASSUME UserStartWake PROVE DueInv'
  <2> DEFINE v == Stop(w, Delay)
  <2>1. /\ UserAt("start_wake") /\ (w' = w \/ w' = [v EXCEPT !.awake = TRUE]) /\ user'.pc = "run"
        /\ isr' = isr /\ thread' = thread
    BY <1>5 DEF UserStartWake, UserGoto, Wake
  <2>2. DueOK(v, MaxLate, Half - 1) /\ DueOK(w, MaxLate, Half - 1)
    BY <1>0, <1>1, <2>1, DueStop
  <2> HIDE DEF v
  <2>3. DueOK([v EXCEPT !.awake = TRUE], MaxLate, Half - 1)
    BY <2>2, DueAwake
  <2>4. DueOK(w', MaxLate, Half - 1)
    BY <2>1, <2>2, <2>3
  <2> QED BY <1>1, <2>1, <2>4, DueUserStep
<1>6. ASSUME NEW t \in Timer, Owner[t] = User, rt_timer_stop(t) PROVE DueInv'
  <2>1. /\ UserAt("run") /\ w' = w /\ user'.pc = "stop_off" /\ isr' = isr /\ thread' = thread
    BY <1>6 DEF rt_timer_stop, UserGoto
  <2> QED BY <1>1, <2>1, DueUserStep
<1>7. ASSUME UserStopOff PROVE DueInv'
  <2>1. /\ UserAt("stop_off") /\ w' = Unlist(w, user.t) /\ user'.pc = "stop_flag"
        /\ isr' = isr /\ thread' = thread
    BY <1>7 DEF UserStopOff, UserGoto
  <2>2. user.t \in Timers
    BY <2>1, UserRuns
  <2>3. DueOK(w', MaxLate, Half - 1)
    BY <1>1, <2>1, <2>2, DueUnlist
  <2> QED BY <1>1, <2>1, <2>3, DueUserStep
<1>8. ASSUME UserStopFlag PROVE DueInv'
  <2>1. /\ UserAt("stop_flag") /\ w' = SetActive(w, user.t, FALSE) /\ user'.pc = "run"
        /\ isr' = isr /\ thread' = thread
    BY <1>8 DEF UserStopFlag, UserGoto
  <2>2. user.t \in Timers
    BY <2>1, UserRuns
  <2>3. DueOK(w', MaxLate, Half - 1)
    BY <1>1, <2>1, <2>2, DueActive
  <2> QED BY <1>1, <2>1, <2>3, DueUserStep
<1>k. ASSUME NEW t \in Timer, NEW kind \in Kinds[t]
      PROVE  /\ kind[1] \in Tick /\ kind[2] \in BOOLEAN /\ kind[1] \in Nat /\ kind[1] + MaxLate < Half
             /\ Stopped(kind) \in TimerType
  <2>1. Kinds[t] \in (SUBSET ((1 .. Half - 1) \X BOOLEAN)) \ {{}} /\ kind[1] + MaxLate < Half
    BY TimerAssumption
  <2>2. kind[1] \in 1 .. Half - 1 /\ kind[2] \in BOOLEAN
    BY <2>1
  <2>3. kind[1] \in Tick /\ 0 \in Tick /\ kind[1] \in Nat
    BY <2>2, Constants DEF Tick, TickMax
  <2> QED BY <2>1, <2>2, <2>3 DEF Stopped, TimerType
<1>9. ASSUME NEW t \in Timer, Owner[t] = User, NEW kind \in Kinds[t], rt_timer_control(t, kind)
      PROVE  DueInv'
  <2>1. /\ UserAt("run") /\ user'.pc = "run" /\ isr' = isr /\ thread' = thread
        /\ w' = [w EXCEPT !.tm[t].init = kind[1], !.tm[t].per = kind[2]]
    BY <1>9 DEF rt_timer_control, UserGoto
  <2> DEFINE r == [w.tm[t] EXCEPT !.init = kind[1], !.per = kind[2]]
  <2>2. t \in Timers /\ Lists(w) /\ w \in WType /\ w.tm \in [Timers -> TimerType] /\ w.tm[t] \in TimerType
    BY <1>0 DEF FlagInv, Lists, WType, Timers
  <2>3. r \in TimerType /\ r.at = w.tm[t].at /\ r.init = kind[1]
    BY <1>k, <1>9, <2>2 DEF TimerType
  <2>4. w' = [w EXCEPT !.tm[t] = r]
    BY <2>1, <2>2 DEF WType
  <2> HIDE DEF r
  <2>5. Touch(w, w', t) /\ w'.tm[t] = r /\ w'.hard = w.hard
    BY <2>2, <2>3, <2>4, FieldTouch
  <2>6. w'.tm[t].init \in Nat /\ w'.tm[t].init + MaxLate < Half
    BY <1>k, <1>9, <2>3, <2>5
  <2>7. DueOK(w', MaxLate, Half - 1)
    BY <1>1, <2>1, <2>2, <2>3, <2>5, <2>6, DueSame
  <2> QED BY <1>1, <2>1, <2>7, DueUserStep
<1>10. ASSUME NEW t \in Timer, Owner[t] = User, rt_timer_detach(t) PROVE DueInv'
  <2>1. /\ UserAt("run") /\ w' = Unlist(w, t) /\ user'.pc = "init"
        /\ isr' = isr /\ thread' = thread
    BY <1>10 DEF rt_timer_detach, UserGoto
  <2>2. DueOK(w', MaxLate, Half - 1)
    BY <1>0, <1>1, <2>1, DueUnlist
  <2> QED BY <1>1, <2>1, <2>2, DueUserStep
<1>11. ASSUME NEW t \in Timer \cap {user.t}, NEW kind \in Kinds[t], rt_timer_init(kind)
       PROVE  DueInv'
  <2> DEFINE r == Stopped(kind)
  <2>1. /\ UserAt("init") /\ user'.pc = "run" /\ isr' = isr /\ thread' = thread
        /\ w' = [w EXCEPT !.tm[t] = r]
    BY <1>11 DEF rt_timer_init, UserGoto
  <2>2. t \in Timer /\ t \in Timers /\ ~InList(w, t) /\ Lists(w)
    BY <2>1, UserRuns DEF UserOff
  <2>3. r \in TimerType /\ r.init = kind[1]
    BY <1>k, <2>2 DEF Stopped
  <2> HIDE DEF r
  <2>4. Touch(w, w', t) /\ w'.tm[t] = r /\ w'.hard = w.hard
    BY <2>1, <2>2, <2>3, FieldTouch
  <2>5. w'.tm[t].init \in Nat /\ w'.tm[t].init + MaxLate < Half
    BY <1>k, <2>2, <2>3, <2>4
  <2>6. t \notin Range(w.hard)
    <3>1. t \in Soft => Range(w.hard) \cap Soft = {}
      BY <2>2, Constants DEF Lists
    <3> QED BY <2>2, <3>1 DEF InList
  <2>7. DueOK(w', MaxLate, Half - 1)
    BY <1>1, <2>1, <2>2, <2>4, <2>5, <2>6, DueSame
  <2> QED BY <1>1, <2>1, <2>7, DueUserStep
<1> QED BY <1>2, <1>3, <1>4, <1>5, <1>6, <1>7, <1>8, <1>9, <1>10, <1>11
        DEF UserNext, UserRest

\* The timer thread touches no timer that the user thread has taken out.
LEMMA DueThreadStep ==
  ASSUME FlagInv, DueInv, ~isr, isr' = isr, user' = user, DueOK(w', MaxLate, Half - 1),
         NEW t \in Timers, Touch(w, w', t), user.pc \in UserOff => user.t # t,
         thread'.pc = "delay" => thread'.left + MaxLate < Half
  PROVE  DueInv'
<1>1. Spare = MaxLate /\ Spare' = MaxLate
  BY DEF Spare
<1>2. ASSUME user.pc = "start_on" PROVE DueOf(w', MaxLate)[user.t] = DueOf(w, MaxLate)[user.t]
  <2>1. user.t \in Timers \ {t}
    BY <1>2, Constants DEF FlagInv, CallInv, UserOff
  <2>2. w'.tm[user.t] = w.tm[user.t] /\ w'.tick = w.tick
    BY <2>1 DEF Touch
  <2> QED BY <2>1, <2>2 DEF DueOf
<1> QED BY <1>1, <1>2 DEF DueInv

\* A soft timer is in the list of soft timers or in none.
LEMMA DueThread ==
  ASSUME Exact, FlagInv, DueInv, ThreadNext
  PROVE  DueInv'
<1>0. /\ Delay \in Timers /\ Delay \notin Timer /\ End \notin Timers /\ Soft \subseteq Timer
      /\ Timer \subseteq Timers /\ MaxLate \in 0 .. Half /\ MaxLate \in Nat
      /\ Half - 1 \in Int /\ Half - 1 <= Half /\ Half \in Nat
  BY Constants
<1>1. /\ ~isr /\ isr' = isr /\ user' = user
  BY DEF ThreadNext, ThreadLoop, ThreadSuspend, ThreadDelay, SoftCheck, SoftNext, SoftCallback,
         SoftStartTime, SoftStartOn, ThreadAt, ThreadIs, ThreadGoto
<1>2. DueOK(w, MaxLate, Half - 1) /\ Lists(w)
  BY <1>1 DEF DueInv, Spare, FlagInv
<1>3. /\ user.pc \in UserOff => user.t \in Timer /\ user.t # thread.t /\ ~InList(w, user.t)
      /\ thread.pc \in ThreadOff => thread.t \in Soft /\ thread.t \in Timers /\ ~InList(w, thread.t)
  BY <1>0 DEF FlagInv, CallInv, CallTypes, UserOff
<1>4. user.pc \in UserOff => user.t # Delay
  BY <1>0, <1>3
<1>5. Touch(w, w, Delay)
  BY <1>2 DEF Touch
<1>t. /\ thread.left \in Tick /\ thread \in [ pc : ThreadOff \cup {"loop", "suspend", "delay", "check", "next"},
                  left : Tick, cur : Tick, n : Soft \cup {End}, t : Soft \cup {End} ]
  BY DEF FlagInv, CallTypes
<1>6. ASSUME ThreadLoop PROVE DueInv'
  <2>1. w' = w
    BY <1>6 DEF ThreadLoop
  <2>2. thread'.pc = "delay" => thread'.left + MaxLate < Half
    <3> DEFINE left == Since(NextTimeout, w.tick)
    <3>1. \/ \E pc \in {"suspend", "check"} : thread' = [thread EXCEPT !.pc = pc]
          \/ NextTimeout # TickMax /\ left < Half /\ thread' = [thread EXCEPT !.pc = "delay", !.left = left]
      BY <1>6 DEF ThreadLoop, ThreadGoto, ThreadIs
    <3>2. NextTimeout # TickMax => Soft # {}
      <4> SUFFICES ASSUME NextTimeout # TickMax PROVE Soft # {}
        OBVIOUS
      <4>1. w.soft \in Seq(Soft) /\ w.soft # <<>>
        BY <1>2, InSeq DEF NextTimeout
      <4> QED BY <4>1
    <3>3. CASE \E pc \in {"suspend", "check"} : thread' = [thread EXCEPT !.pc = pc]
      BY <1>t, <3>3
    <3>4. CASE NextTimeout # TickMax /\ left < Half /\ thread' = [thread EXCEPT !.pc = "delay", !.left = left]
      <4>1. MaxLate = 0
        BY <3>2, <3>4 DEF Exact
      <4>2. thread'.left = left
        BY <1>t, <3>4
      <4>3. left \in Int
        <5>1. NextTimeout \in Int /\ w.tick \in Int
          <6>1. w.tick \in Tick /\ \A x \in Timers : w.tm[x].at \in Tick
            BY <1>0, <1>2, DueTypes
          <6>2. w.soft \in Seq(Soft) /\ w.soft # <<>>
            BY <1>2, <3>4, InSeq DEF NextTimeout
          <6>3. Head(w.soft) \in Soft
            BY <6>2
          <6>4. w.tm[Head(w.soft)].at \in Tick
            BY <1>0, <6>1, <6>3
          <6>5. NextTimeout \in Tick
            BY <6>2, <6>4 DEF NextTimeout
          <6> QED BY <6>1, <6>5, Constants DEF Tick, TickMax
        <5> DEFINE a == NextTimeout
        <5> HIDE DEF a
        <5>2. (a - w.tick) % TickMod \in Int
          BY <5>1, Constants DEF a
        <5> QED BY <5>2 DEF a, Since
      <4> HIDE DEF left
      <4> QED BY <3>4, <4>1, <4>2, <4>3
    <3> QED BY <3>1, <3>3, <3>4
  <2> QED BY <1>0, <1>1, <1>2, <1>4, <1>5, <2>1, <2>2, DueThreadStep
<1>7. ASSUME ThreadSuspend PROVE DueInv'
  <2>1. w' = [w EXCEPT !.awake = FALSE] /\ thread' = [thread EXCEPT !.pc = "check"]
    BY <1>7 DEF ThreadSuspend, ThreadGoto, ThreadIs
  <2>2. DueOK(w', MaxLate, Half - 1) /\ Lists(w') /\ w'.tm = w.tm /\ w'.tick = w.tick
    BY <1>2, <2>1, DueAwake
  <2>3. w'.hard = w.hard /\ w'.soft = w.soft /\ thread'.pc = "check"
    BY <1>2, <1>t, <2>1 DEF Lists, WType
  <2>4. Touch(w, w', Delay)
    BY <2>2, <2>3 DEF Touch, InList
  <2> QED BY <1>0, <1>1, <1>4, <2>2, <2>3, <2>4, DueThreadStep
<1>8. ASSUME ThreadDelay PROVE DueInv'
  <2> DEFINE d == thread.left
             c == StartOn(TimeIn(StartOff(w, Delay), Delay, d), Delay)
  <2>1. /\ w' = [c EXCEPT !.awake = FALSE] /\ thread.pc = "delay"
        /\ thread' = [thread EXCEPT !.pc = "check", !.left = 0]
    BY <1>8 DEF ThreadDelay, ThreadAt, ThreadIs
  <2>2. d \in Nat /\ d + MaxLate < Half
    <3>1. Tick \subseteq Nat
      BY Constants DEF Tick, TickMax
    <3> QED BY <1>t, <2>1, <3>1 DEF DueInv
  <2> HIDE DEF d
  <2>3. d + MaxLate <= Half - 1 /\ Half - 1 - (d + MaxLate) < Half
    BY <1>0, <2>2
  <2>4. DueOK(c, MaxLate, Half - 1) /\ Touch(w, c, Delay)
    BY <1>0, <1>2, <2>2, <2>3, DueStartIn
  <2> HIDE DEF c
  <2>5. DueOK(w', MaxLate, Half - 1) /\ Lists(w') /\ w'.tm = c.tm /\ w'.tick = c.tick
    BY <2>1, <2>4, DueAwake
  <2>6. w'.hard = c.hard /\ w'.soft = c.soft
    BY <2>1, <2>4 DEF Touch, Lists, WType
  <2>7. thread'.pc = "check"
    BY <1>t, <2>1
  <2>8. Touch(w, w', Delay)
    BY <2>4, <2>5, <2>6 DEF Touch, InList
  <2> QED BY <1>0, <1>1, <1>4, <2>5, <2>7, <2>8, DueThreadStep
<1>9. ASSUME SoftCheck PROVE DueInv'
  <2>1. w' = w /\ thread' = [thread EXCEPT !.pc = "next", !.cur = w.tick, !.n = First(w.soft)]
    BY <1>9 DEF SoftCheck, ThreadIs
  <2>2. thread'.pc = "next"
    BY <1>t, <2>1
  <2> QED BY <1>0, <1>1, <1>2, <1>4, <1>5, <2>1, <2>2, DueThreadStep
<1>10. ASSUME SoftNext PROVE DueInv'
  <2> DEFINE t == thread.n
  <2>1. CASE t # End /\ Expired(thread.cur, t)
    <3>1. w' = Unlist(w, t) /\ thread' = [thread EXCEPT !.pc = "callback", !.n = Next1(w.soft, t), !.t = t]
      BY <1>10, <2>1 DEF SoftNext, ThreadIs
    <3>2. t \in Timers /\ InList(w, t)
      BY <1>0, <1>t, <2>1 DEF FlagInv, CallInv
    <3>3. thread'.pc = "callback" /\ (user.pc \in UserOff => user.t # t)
      BY <1>3, <1>t, <3>1, <3>2
    <3> HIDE DEF t
    <3>4. DueOK(w', MaxLate, Half - 1)
      BY <1>2, <3>1, <3>2, DueUnlist
    <3>5. Touch(w, w', t)
      BY <1>2, <3>1, <3>2, UnlistTouch
    <3> QED BY <1>1, <3>2, <3>3, <3>4, <3>5, DueThreadStep
  <2>2. CASE ~(t # End /\ Expired(thread.cur, t))
    <3>1. w' = w /\ thread' = [thread EXCEPT !.pc = "loop", !.n = End, !.cur = 0]
      BY <1>10, <2>2 DEF SoftNext, ThreadIs
    <3>2. thread'.pc = "loop"
      BY <1>t, <3>1
    <3> QED BY <1>0, <1>1, <1>2, <1>4, <1>5, <3>1, <3>2, DueThreadStep
  <2> QED BY <2>1, <2>2
<1> DEFINE t == thread.t
<1>11. ASSUME SoftCallback PROVE DueInv'
  <2>1. /\ w' = SetActive(w, t, FALSE) /\ thread.pc \in ThreadOff
        /\ \/ thread' = [thread EXCEPT !.cur = w.tick, !.pc = "start_time"]
           \/ thread' = [thread EXCEPT !.cur = w.tick, !.pc = "next", !.t = End]
    BY <1>11 DEF SoftCallback, ThreadIs, ThreadAt, ThreadOff
  <2>2. thread'.pc # "delay" /\ t \in Timers /\ (user.pc \in UserOff => user.t # t)
    BY <1>3, <1>t, <2>1
  <2> HIDE DEF t
  <2>3. DueOK(w', MaxLate, Half - 1) /\ Touch(w, w', t)
    BY <1>2, <2>1, <2>2, DueActive, ActiveTouch
  <2> QED BY <1>1, <2>2, <2>3, DueThreadStep
<1>12. ASSUME SoftStartTime PROVE DueInv'
  <2> DEFINE a == StartOff(w, t)
             d == a.tm[t].init
  <2>1. /\ w' = TimeIn(a, t, d) /\ thread.pc \in ThreadOff
        /\ thread' = [thread EXCEPT !.pc = "start_on"]
    BY <1>12 DEF SoftStartTime, ThreadIs, ThreadGoto, ThreadAt, ThreadOff, StartTime
  <2>2. thread'.pc # "delay" /\ t \in Timers /\ t \in Timer /\ (user.pc \in UserOff => user.t # t)
    BY <1>0, <1>3, <1>t, <2>1
  <2> HIDE DEF t
  <2>3. DueOK(a, MaxLate, Half - 1) /\ Touch(w, a, t) /\ ~InList(a, t)
    BY <1>2, <2>2, DueOff, OffTouch
  <2> HIDE DEF a
  <2>4. d \in Nat /\ d + MaxLate < Half
    BY <2>2, <2>3 DEF DueOK
  <2> HIDE DEF d
  <2>5. d + MaxLate <= Half
    BY <1>0, <2>4
  <2>6. DueOK(w', MaxLate, Half - 1) /\ Touch(a, w', t)
    BY <1>0, <2>1, <2>2, <2>3, <2>4, <2>5, DueTime
  <2>7. Touch(w, w', t)
    BY <2>3, <2>6, TouchAgain
  <2> QED BY <1>1, <2>2, <2>6, <2>7, DueThreadStep
<1>13. ASSUME SoftStartOn PROVE DueInv'
  <2>1. /\ w' = StartOn(w, t) /\ thread.pc \in ThreadOff
        /\ thread' = [thread EXCEPT !.pc = "next", !.t = End]
    BY <1>13 DEF SoftStartOn, ThreadIs, ThreadAt, ThreadOff
  <2>2. /\ thread'.pc # "delay" /\ t \in Timers /\ t \in Soft /\ (user.pc \in UserOff => user.t # t)
        /\ ~InList(w, t)
    BY <1>0, <1>3, <1>t, <2>1
  <2> HIDE DEF t
  <2>3. DueOK(w', MaxLate, Half - 1)
    BY <1>0, <1>2, <2>1, <2>2, DueOn
  <2>4. Touch(w, w', t)
    BY <1>2, <2>1, <2>2, OnTouch
  <2> QED BY <1>1, <2>2, <2>3, <2>4, DueThreadStep
<1> QED BY <1>6, <1>7, <1>8, <1>9, <1>10, <1>11, <1>12, <1>13 DEF ThreadNext
-----------------------------------------------------------------------------
LEMMA DueNext ==
  ASSUME Exact, FlagInv, DueInv, [Next]_vars
  PROVE  DueInv'
<1>1. CASE UNCHANGED vars
  BY <1>1 DEF vars, DueInv, Spare
<1>2. CASE Next
  BY <1>2, DueTick, DueHard, LeavePunctual, DueUser, DueThread DEF Next
<1> QED BY <1>1, <1>2

\* The order of the hard timers, across the wrap of the tick and with a timer
\* that is inserted late, when no soft timer is used or rt_timer_start is not
\* interrupted between reading the tick and inserting the timer.
THEOREM DueInvariance == ASSUME Exact PROVE Spec => []DueInv
<1>1. Init => DueInv
  BY DueInit
<1>2. FlagInv /\ DueInv /\ [Next]_vars => DueInv'
  BY DueNext
<1> QED BY <1>1, <1>2, FlagInvariance, PTL DEF Spec

\* When rt_timer_check returns no hard timer is overdue, although it looks at the
\* head of the list only, whatever callbacks start and stop and however late
\* (up to MaxLate ticks) a thread goes on with rt_timer_start.
THEOREM HardOnTime == ASSUME Exact PROVE Spec => HardPunctual
<1>1. ASSUME FlagInv, DueInv, Next, isr, ~isr'
      PROVE  \A t \in Range(w'.hard) : Since(w'.tm[t].at, w'.tick) \in 1 .. Half - 1
  <2>1. CheckLeave
    <3>1. ~rt_tick_increase /\ ~HardTimeout
      BY <1>1 DEF rt_tick_increase, HardTimeout
    <3>2. ~UserNext
      BY <1>1 DEF UserNext, UserRest, rt_timer_start, rt_timer_stop, rt_timer_detach,
           rt_timer_control, rt_timer_init, UserStartTime, UserStartOn, UserStartWake,
           UserStopOff, UserStopFlag, UserAt
    <3>3. ~ThreadNext
      BY <1>1 DEF ThreadNext, ThreadLoop, ThreadSuspend, ThreadDelay, SoftCheck, SoftNext,
           SoftCallback, SoftStartTime, SoftStartOn, ThreadAt
    <3> QED BY <1>1, <3>1, <3>2, <3>3 DEF Next
  <2> QED BY <1>1, <2>1, LeavePunctual
<1>2. FlagInv /\ DueInv /\ [Next]_vars =>
        [isr /\ ~isr' => \A t \in Range(w'.hard) :
                           Since(w'.tm[t].at, w'.tick) \in 1 .. Half - 1]_vars
  BY <1>1
<1> QED BY <1>2, FlagInvariance, DueInvariance, PTL DEF Spec, HardPunctual
=============================================================================
