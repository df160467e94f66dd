--------------------------- MODULE RtKernelProofs ---------------------------
(***************************************************************************)
(* Every kernel primitive preserves KInv.                                  *)
(***************************************************************************)
EXTENDS RtKernel, SequenceTheorems, WellFoundedInduction, TLAPS

-----------------------------------------------------------------------------
(* The sequences that stand for the kernel's linked lists: which threads a *)
(* list holds, and that none is in it twice, after the insertions and      *)
(* removals of rt_list_t.                                                  *)

\* A non-empty set of naturals has a least element, which Min chooses: the
\* lowest bit that rt_schedule finds, the place where a sorted insertion stops.
LEMMA MinOfNats ==
  ASSUME NEW S \in SUBSET Nat, S # {}
  PROVE  Min(S) \in S /\ \A y \in S : Min(S) <= y
<1> DEFINE R == {ss \in Nat \X Nat : ss[1] < ss[2]}
<1>0. R = OpToRel(<, Nat)
  BY Zenon DEF OpToRel
<1>1. PICK x \in S : \A y \in S : ~(<<y, x>> \in R)
  <2>1. IsWellFoundedOn(R, Nat)
    BY <1>0, NatLessThanWellFounded, Zenon
  <2> QED BY <2>1, WFMin, Zenon
<1>2. \A y \in S : x <= y
  <2> SUFFICES ASSUME NEW y \in S PROVE x <= y OBVIOUS
  <2>1. ~(<<y,x>> \in R) BY <1>1
  <2>2. y \in Nat /\ x \in Nat OBVIOUS
  <2> QED BY <2>1, <2>2
<1> QED BY <1>2 DEF Min

\* A non-empty set of naturals up to n has a greatest element, which Max chooses.
LEMMA MaxUpTo ==
  ASSUME NEW n \in Nat, NEW S \in SUBSET (1 .. n), S # {}
  PROVE  Max(S) \in S /\ \A y \in S : Max(S) >= y
<1> DEFINE T == {n - y : y \in S}
<1>1. T \in SUBSET Nat /\ T # {}
  <2>1. ASSUME NEW y \in S PROVE n - y \in Nat
    <3>1. y \in 1 .. n
      OBVIOUS
    <3> QED BY <3>1
  <2>2. PICK y \in S : TRUE
    OBVIOUS
  <2>3. n - y \in T
    OBVIOUS
  <2> QED BY <2>1, <2>3
<1> HIDE DEF T
<1>2. Min(T) \in T /\ \A z \in T : Min(T) <= z
  BY <1>1, MinOfNats
<1> USE DEF T
<1>3. PICK x \in S : Min(T) = n - x
  BY <1>2
<1>4. \A y \in S : x >= y
  <2> SUFFICES ASSUME NEW y \in S PROVE x >= y
    OBVIOUS
  <2>1. n - y \in T
    OBVIOUS
  <2>2. n - x <= n - y
    BY <1>2, <1>3, <2>1
  <2>3. x \in Int /\ y \in Int
    OBVIOUS
  <2> QED BY <2>2, <2>3
<1> QED BY <1>4 DEF Max

\* rt_list_insert_before(head, n): n is added, and is in the list once if it
\* was not in it.
LEMMA RangeAppend ==
  ASSUME NEW S, NEW s \in Seq(S), NEW e \in S
  PROVE  /\ Append(s, e) \in Seq(S)
         /\ Range(Append(s, e)) = Range(s) \cup {e}
         /\ IsInjective(s) /\ e \notin Range(s) => IsInjective(Append(s, e))
<1>1. Append(s, e) \in Seq(S) OBVIOUS
<1>2. Range(Append(s, e)) = Range(s) \cup {e}
   <2>1. ASSUME NEW x \in Range(Append(s,e)) PROVE x \in Range(s) \cup {e}
     BY <2>1 DEF Range
   <2>2. ASSUME NEW x \in Range(s) PROVE x \in Range(Append(s,e))
     <3>1. PICK i \in 1..Len(s) : x = s[i] BY <2>2 DEF Range
     <3>2. i \in DOMAIN Append(s,e) /\ Append(s,e)[i] = x BY <3>1
     <3> QED BY <3>2 DEF Range
   <2>3. e \in Range(Append(s,e))
     <3>1. Len(s)+1 \in DOMAIN Append(s,e) /\ Append(s,e)[Len(s)+1] = e OBVIOUS
     <3> QED BY <3>1 DEF Range
   <2> QED BY <2>1, <2>2, <2>3
<1>3. IsInjective(s) /\ e \notin Range(s) => IsInjective(Append(s, e))
   BY DEF IsInjective, Range
<1> QED BY <1>1, <1>2, <1>3

\* The nodes of a list after one was removed at a place, in their order.
LEMMA RemoveAtNodes ==
  ASSUME NEW S, NEW s \in Seq(S), NEW n \in 1 .. Len(s)
  PROVE  LET r == RemoveAt(s, n)
         IN  /\ r \in Seq(S)
             /\ Len(r) = Len(s) - 1
             /\ \A i \in 1 .. Len(s) - 1 : r[i] = IF i < n THEN s[i] ELSE s[i + 1]
<1> DEFINE r == RemoveAt(s, n)
<1> DEFINE a == SubSeq(s, 1, n - 1)
           b == SubSeq(s, n + 1, Len(s))
<1>1. /\ a \in Seq(S) /\ Len(a) = n - 1
      /\ \A i \in 1 .. n - 1 : a[i] = s[i]
  OBVIOUS
<1>2. /\ b \in Seq(S) /\ Len(b) = Len(s) - n
      /\ \A i \in 1 .. Len(s) - n : b[i] = s[n + i]
  OBVIOUS
<1>3. r = a \o b
  BY DEF RemoveAt
<1> HIDE DEF a, b, r
<1>4. /\ r \in Seq(S) /\ Len(r) = Len(s) - 1
      /\ \A i \in 1 .. Len(s) - 1 :
           r[i] = IF i <= n - 1 THEN a[i] ELSE b[i - (n - 1)]
  <2>1. /\ a \o b \in Seq(S) /\ Len(a \o b) = Len(a) + Len(b)
        /\ \A i \in 1 .. Len(a) + Len(b) :
             (a \o b)[i] = IF i <= Len(a) THEN a[i] ELSE b[i - Len(a)]
    BY <1>1, <1>2, ConcatProperties
  <2>2. Len(a) + Len(b) = Len(s) - 1
    BY <1>1, <1>2
  <2> QED BY <2>1, <2>2, <1>1, <1>3
<1>5. ASSUME NEW i \in 1 .. Len(s) - 1
      PROVE  r[i] = IF i < n THEN s[i] ELSE s[i + 1]
  <2>1. CASE i < n
    BY <2>1, <1>1, <1>4
  <2>2. CASE ~(i < n)
    <3>1. i - (n - 1) \in 1 .. Len(s) - n /\ n + (i - (n - 1)) = i + 1
      BY <2>2
    <3>2. b[i - (n - 1)] = s[i + 1]
      BY <3>1, <1>2
    <3> QED BY <2>2, <3>2, <1>4
  <2> QED BY <2>1, <2>2
<1> QED BY <1>4, <1>5 DEF r

\* Removing the node at a place removes its thread and nothing else.
LEMMA RangeRemoveAt ==
  ASSUME NEW S, NEW s \in Seq(S), NEW n \in 1 .. Len(s), IsInjective(s)
  PROVE  /\ RemoveAt(s, n) \in Seq(S)
         /\ Range(RemoveAt(s, n)) = Range(s) \ {s[n]}
         /\ IsInjective(RemoveAt(s, n))
<1> DEFINE r == RemoveAt(s, n)
<1>1. /\ r \in Seq(S)
      /\ Len(r) = Len(s) - 1
      /\ \A i \in 1 .. Len(s) - 1 : r[i] = IF i < n THEN s[i] ELSE s[i + 1]
  BY RemoveAtNodes
<1> HIDE DEF r
<1>2. DOMAIN s = 1 .. Len(s) /\ DOMAIN r = 1 .. Len(s) - 1
  BY <1>1
<1>3. \A i, j \in 1 .. Len(s) : s[i] = s[j] => i = j
  BY <1>2 DEF IsInjective
<1>4. \A i, j \in 1 .. Len(s) - 1 : r[i] = r[j] => i = j
  BY <1>1, <1>3
<1>5. Range(r) = Range(s) \ {s[n]}
  <2>1. ASSUME NEW i \in 1 .. Len(s) - 1 PROVE r[i] \in Range(s) \ {s[n]}
    <3>1. PICK j \in 1 .. Len(s) : r[i] = s[j] /\ j # n
      <4>1. CASE i < n BY <4>1, <1>1
      <4>2. CASE ~(i < n)
        <5>1. i + 1 \in 1 .. Len(s) /\ i + 1 # n /\ r[i] = s[i + 1] BY <4>2, <1>1
        <5> QED BY <5>1
      <4> QED BY <4>1, <4>2
    <3>2. s[j] # s[n] BY <3>1, <1>3
    <3> QED BY <3>1, <3>2, <1>2 DEF Range
  <2>2. ASSUME NEW i \in 1 .. Len(s), i # n PROVE s[i] \in Range(r)
    <3>1. CASE i < n BY <3>1, <1>1, <1>2 DEF Range
    <3>2. CASE i > n
      <4>1. i - 1 \in 1 .. Len(s) - 1 /\ r[i-1] = s[i] BY <3>2, <1>1
      <4> QED BY <4>1, <1>2 DEF Range
    <3> QED BY <3>1, <3>2, <2>2
  <2> QED BY <2>1, <2>2, <1>2 DEF Range
<1> QED BY <1>1, <1>2, <1>4, <1>5 DEF r, IsInjective

\* rt_list_remove(n): the thread leaves the list, the others stay.
LEMMA RangeRemoveFirst ==
  ASSUME NEW S, NEW s \in Seq(S), NEW e, IsInjective(s)
  PROVE  /\ RemoveFirst(s, e) \in Seq(S)
         /\ Range(RemoveFirst(s, e)) = Range(s) \ {e}
         /\ IsInjective(RemoveFirst(s, e))
<1> DEFINE I == {i \in 1 .. Len(s) : s[i] = e}
<1>1. CASE I = {}
  <2>1. RemoveFirst(s, e) = s BY <1>1 DEF RemoveFirst
  <2>2. e \notin Range(s) BY <1>1 DEF Range
  <2> QED BY <2>1, <2>2
<1>2. CASE I # {}
  <2>0. I \in SUBSET Nat OBVIOUS
  <2> HIDE DEF I
  <2>1. Min(I) \in I BY <1>2, <2>0, MinOfNats
  <2> USE DEF I
  <2>2. RemoveFirst(s, e) = RemoveAt(s, Min(I))
    BY <1>2 DEF RemoveFirst, SelectInSeq
  <2>3. PICK n \in 1 .. Len(s) : s[n] = e /\ RemoveFirst(s, e) = RemoveAt(s, n)
    BY <2>1, <2>2
  <2>4. /\ RemoveAt(s, n) \in Seq(S)
        /\ Range(RemoveAt(s, n)) = Range(s) \ {s[n]}
        /\ IsInjective(RemoveAt(s, n))
    BY RangeRemoveAt
  <2> QED BY <2>3, <2>4
<1> QED BY <1>1, <1>2

\* The nodes of a list after one was inserted at a place, in their order.
LEMMA InsertAtNodes ==
  ASSUME NEW S, NEW s \in Seq(S), NEW n \in 1 .. Len(s) + 1, NEW e \in S
  PROVE  LET r == InsertAt(s, n, e)
         IN  /\ r \in Seq(S)
             /\ Len(r) = Len(s) + 1
             /\ \A i \in 1 .. Len(s) + 1 :
                  r[i] = IF i < n THEN s[i] ELSE IF i = n THEN e ELSE s[i - 1]
<1> DEFINE r == InsertAt(s, n, e)
<1> DEFINE a == SubSeq(s, 1, n - 1)
           m == a \o <<e>>
           b == SubSeq(s, n, Len(s))
<1>1. /\ a \in Seq(S) /\ Len(a) = n - 1
      /\ \A i \in 1 .. n - 1 : a[i] = s[i]
  OBVIOUS
<1>2. /\ b \in Seq(S) /\ Len(b) = Len(s) - n + 1
      /\ \A i \in 1 .. Len(s) - n + 1 : b[i] = s[n + i - 1]
  OBVIOUS
<1>3. r = m \o b
  BY DEF InsertAt
<1> HIDE DEF a, b
<1>4. /\ m \in Seq(S) /\ Len(m) = n /\ m[n] = e
      /\ \A i \in 1 .. n - 1 : m[i] = s[i]
  BY <1>1
<1> HIDE DEF m, r
<1>5. /\ r \in Seq(S) /\ Len(r) = Len(s) + 1
      /\ \A i \in 1 .. Len(s) + 1 :
           r[i] = IF i <= n THEN m[i] ELSE b[i - n]
  <2>1. /\ m \o b \in Seq(S) /\ Len(m \o b) = Len(m) + Len(b)
        /\ \A i \in 1 .. Len(m) + Len(b) :
             (m \o b)[i] = IF i <= Len(m) THEN m[i] ELSE b[i - Len(m)]
    BY <1>2, <1>4, ConcatProperties
  <2>2. Len(m) + Len(b) = Len(s) + 1
    BY <1>2, <1>4
  <2> QED BY <2>1, <2>2, <1>3, <1>4
<1>6. ASSUME NEW i \in 1 .. Len(s) + 1
      PROVE  r[i] = IF i < n THEN s[i] ELSE IF i = n THEN e ELSE s[i - 1]
  <2>1. CASE i < n
    BY <2>1, <1>4, <1>5
  <2>2. CASE i = n
    BY <2>2, <1>4, <1>5
  <2>3. CASE i > n
    <3>1. i - n \in 1 .. Len(s) - n + 1 /\ n + (i - n) - 1 = i - 1
      BY <2>3
    <3>2. b[i - n] = s[i - 1]
      BY <3>1, <1>2
    <3> QED BY <2>3, <3>2, <1>5
  <2> QED BY <2>1, <2>2, <2>3
<1> QED BY <1>5, <1>6 DEF r

\* Sorted insertion, as in rt_timer_start and rt_ipc_list_suspend.
LEMMA RangeInsertAt ==
  ASSUME NEW S, NEW s \in Seq(S), NEW n \in 1 .. Len(s) + 1, NEW e \in S,
         IsInjective(s), e \notin Range(s)
  PROVE  /\ InsertAt(s, n, e) \in Seq(S)
         /\ Range(InsertAt(s, n, e)) = Range(s) \cup {e}
         /\ IsInjective(InsertAt(s, n, e))
<1> DEFINE r == InsertAt(s, n, e)
<1>1. /\ r \in Seq(S)
      /\ Len(r) = Len(s) + 1
      /\ \A i \in 1 .. Len(s) + 1 :
           r[i] = IF i < n THEN s[i] ELSE IF i = n THEN e ELSE s[i - 1]
  BY InsertAtNodes
<1> HIDE DEF r
<1>2. DOMAIN s = 1 .. Len(s) /\ DOMAIN r = 1 .. Len(s) + 1
  BY <1>1
<1>3. \A i, j \in 1 .. Len(s) : s[i] = s[j] => i = j
  BY <1>2 DEF IsInjective
<1>4. \A i \in 1 .. Len(s) : s[i] # e
  BY <1>2 DEF Range
<1>5. \A i, j \in 1 .. Len(s) + 1 : r[i] = r[j] => i = j
  <2> DEFINE old(i) == IF i < n THEN i ELSE i - 1
  <2>1. ASSUME NEW i \in 1 .. Len(s) + 1, i # n
        PROVE  old(i) \in 1 .. Len(s) /\ r[i] = s[old(i)]
    BY <2>1, <1>1
  <2>2. r[n] = e
    BY <1>1
  <2> SUFFICES ASSUME NEW i \in 1 .. Len(s) + 1, NEW j \in 1 .. Len(s) + 1,
                      r[i] = r[j]
               PROVE  i = j
    OBVIOUS
  <2>3. CASE i = n \/ j = n
    BY <2>1, <2>2, <2>3, <1>4
  <2>4. CASE i # n /\ j # n
    <3>1. old(i) = old(j)
      BY <2>1, <2>4, <1>3
    <3> QED BY <3>1, <2>4
  <2> QED BY <2>3, <2>4
<1>6. Range(r) = Range(s) \cup {e}
  <2>1. ASSUME NEW i \in 1 .. Len(s) + 1 PROVE r[i] \in Range(s) \cup {e}
    <3>1. CASE i < n BY <3>1, <1>1, <1>2 DEF Range
    <3>2. CASE i = n BY <3>2, <1>1
    <3>3. CASE i > n
      <4>1. i - 1 \in 1 .. Len(s) /\ r[i] = s[i - 1] BY <3>3, <1>1
      <4> QED BY <4>1, <1>2 DEF Range
    <3> QED BY <3>1, <3>2, <3>3
  <2>2. ASSUME NEW i \in 1 .. Len(s) PROVE s[i] \in Range(r)
    <3>1. CASE i < n BY <3>1, <1>1, <1>2 DEF Range
    <3>2. CASE i >= n
      <4>1. i + 1 \in 1 .. Len(s) + 1 /\ r[i+1] = s[i] BY <3>2, <1>1
      <4> QED BY <4>1, <1>2 DEF Range
    <3> QED BY <3>1, <3>2
  <2>3. e \in Range(r) BY <1>1, <1>2 DEF Range
  <2> QED BY <2>1, <2>2, <2>3, <1>2 DEF Range
<1> QED BY <1>1, <1>2, <1>5, <1>6 DEF r, IsInjective

\* Taking the first node off a list.
LEMMA RangeHeadTail ==
  ASSUME NEW S, NEW s \in Seq(S), s # <<>>, IsInjective(s)
  PROVE  /\ Head(s) \in Range(s) /\ Head(s) \in S
         /\ Tail(s) \in Seq(S)
         /\ Range(Tail(s)) = Range(s) \ {Head(s)}
         /\ IsInjective(Tail(s))
<1>1. Tail(s) = RemoveAt(s, 1) /\ 1 \in 1..Len(s) /\ Head(s) = s[1]
  BY DEF RemoveAt
<1>2. Head(s) \in Range(s) /\ Head(s) \in S BY <1>1 DEF Range
<1>3. /\ RemoveAt(s, 1) \in Seq(S)
      /\ Range(RemoveAt(s, 1)) = Range(s) \ {s[1]}
      /\ IsInjective(RemoveAt(s, 1))
  BY <1>1, RangeRemoveAt
<1> QED BY <1>1, <1>2, <1>3

\* Induction over the naturals up to n, for a property given as a set.
LEMMA UpTo ==
  ASSUME NEW n \in Nat, NEW P, 0 \in P, \A i \in 0 .. n - 1 : i \in P => i + 1 \in P
  PROVE  \A i \in 0 .. n : i \in P
<1> DEFINE T == {i \in 0 .. n : i \notin P}
<1>1. ASSUME T # {} PROVE FALSE
  <2>0. T \in SUBSET Nat
    OBVIOUS
  <2> HIDE DEF T
  <2>1. Min(T) \in T /\ \A y \in T : Min(T) <= y
    BY <1>1, <2>0, MinOfNats
  <2> USE DEF T
  <2>2. PICK m \in 0 .. n : m \notin P /\ \A y \in T : m <= y
    BY <2>1
  <2>3. m # 0 /\ m - 1 \in 0 .. n - 1 /\ m - 1 \in 0 .. n
    BY <2>2
  <2>4. m - 1 \in P
    <3>1. ~(m <= m - 1)
      BY <2>3
    <3>2. m - 1 \notin T
      BY <3>1, <2>2
    <3> QED BY <3>2, <2>3
  <2>5. (m - 1) + 1 \in P
    BY <2>3, <2>4
  <2>6. (m - 1) + 1 = m
    OBVIOUS
  <2> QED BY <2>2, <2>5, <2>6
<1> QED BY <1>1

\* the list s is sorted by pr: the threads are in the order of their priorities
Sorted(s, pr) == \A i, j \in DOMAIN s : i < j => pr[s[i]] <= pr[s[j]]

\* Removing a node leaves a sorted list sorted.
LEMMA SortedRemoveFirst ==
  ASSUME NEW S, NEW s \in Seq(S), NEW e, NEW pr, Sorted(s, pr)
  PROVE  Sorted(RemoveFirst(s, e), pr)
<1> DEFINE I == {i \in 1 .. Len(s) : s[i] = e}
<1>1. CASE I = {}
  BY <1>1 DEF RemoveFirst
<1>2. CASE I # {}
  <2>0. I \in SUBSET Nat
    OBVIOUS
  <2> HIDE DEF I
  <2>1. Min(I) \in I
    BY <1>2, <2>0, MinOfNats
  <2> USE DEF I
  <2>2. RemoveFirst(s, e) = RemoveAt(s, Min(I))
    BY <1>2 DEF RemoveFirst, SelectInSeq
  <2>3. PICK n \in 1 .. Len(s) : RemoveFirst(s, e) = RemoveAt(s, n)
    BY <2>1, <2>2
  <2> DEFINE r == RemoveAt(s, n)
  <2>4. /\ r \in Seq(S) /\ Len(r) = Len(s) - 1
        /\ \A i \in 1 .. Len(s) - 1 : r[i] = IF i < n THEN s[i] ELSE s[i + 1]
    BY RemoveAtNodes
  <2> HIDE DEF r
  <2>5. \A i, j \in 1 .. Len(s) : i < j => pr[s[i]] <= pr[s[j]]
    BY DEF Sorted
  <2>6. DOMAIN r = 1 .. Len(s) - 1
    BY <2>4
  <2> DEFINE old(i) == IF i < n THEN i ELSE i + 1
  <2>7. \A i \in 1 .. Len(s) - 1 : old(i) \in 1 .. Len(s) /\ r[i] = s[old(i)]
    BY <2>4
  <2>8. \A i, j \in 1 .. Len(s) - 1 : i < j => old(i) < old(j)
    OBVIOUS
  <2> HIDE DEF old
  <2>9. Sorted(r, pr)
    BY <2>5, <2>6, <2>7, <2>8 DEF Sorted
  <2> QED BY <2>3, <2>9 DEF r
<1> QED BY <1>1, <1>2

\* Inserting before the first node that is strictly later leaves it sorted.
LEMMA SortedInsertAt ==
  ASSUME NEW S, NEW s \in Seq(S), NEW e \in S, NEW pr \in [S -> Int], Sorted(s, pr),
         NEW n \in 1 .. Len(s) + 1,
         \A i \in 1 .. Len(s) : i < n => pr[s[i]] <= pr[e],
         \A i \in 1 .. Len(s) : i >= n => pr[e] <= pr[s[i]]
  PROVE  Sorted(InsertAt(s, n, e), pr)
<1> DEFINE r == InsertAt(s, n, e)
<1>1. /\ r \in Seq(S) /\ Len(r) = Len(s) + 1
      /\ \A i \in 1 .. Len(s) + 1 :
           r[i] = IF i < n THEN s[i] ELSE IF i = n THEN e ELSE s[i - 1]
  BY InsertAtNodes
<1> HIDE DEF r
<1>2. \A i, j \in 1 .. Len(s) : i < j => pr[s[i]] <= pr[s[j]]
  BY DEF Sorted
<1>3. DOMAIN r = 1 .. Len(s) + 1
  BY <1>1
<1> SUFFICES ASSUME NEW i \in 1 .. Len(s) + 1, NEW j \in 1 .. Len(s) + 1, i < j
             PROVE  pr[r[i]] <= pr[r[j]]
  BY <1>3 DEF Sorted, r
<1>4. CASE i # n /\ j # n
  <2> DEFINE old(x) == IF x < n THEN x ELSE x - 1
  <2>1. ASSUME NEW x \in 1 .. Len(s) + 1, x # n
        PROVE  old(x) \in 1 .. Len(s) /\ r[x] = s[old(x)]
    <3>0. Len(s) \in Nat /\ n \in Int /\ x \in Int
      OBVIOUS
    <3>1. r[x] = IF x < n THEN s[x] ELSE IF x = n THEN e ELSE s[x - 1]
      BY <1>1
    <3>2. CASE x < n
      <4>1. x \in 1 .. Len(s)
        BY <3>0, <3>2
      <4> QED BY <3>1, <3>2, <4>1
    <3>3. CASE ~(x < n)
      <4>1. x - 1 \in 1 .. Len(s)
        BY <2>1, <3>0, <3>3
      <4> QED BY <2>1, <3>1, <3>3, <4>1
    <3> QED BY <3>2, <3>3
  <2>2. old(i) < old(j)
    BY <1>4
  <2> HIDE DEF old
  <2> QED BY <1>2, <1>4, <2>1, <2>2
<1>5. CASE i = n
  <2>1. r[i] = e /\ r[j] = s[j - 1] /\ j - 1 \in 1 .. Len(s) /\ j - 1 >= n
    BY <1>1, <1>5
  <2> QED BY <2>1
<1>6. CASE j = n
  <2>1. r[j] = e /\ r[i] = s[i] /\ i \in 1 .. Len(s) /\ i < n
    BY <1>1, <1>6
  <2> QED BY <2>1
<1> QED BY <1>4, <1>5, <1>6

\* A node that is in none of the places is not removed.
LEMMA RemoveAbsent ==
  ASSUME NEW S, NEW s \in Seq(S), NEW e, e \notin Range(s)
  PROVE  RemoveFirst(s, e) = s
<1>1. {i \in 1 .. Len(s) : s[i] = e} = {}
  BY DEF Range
<1> QED BY <1>1 DEF RemoveFirst
-----------------------------------------------------------------------------
\* The list heads are distinct: a ready queue is no suspend list, and neither
\* is the list of defunct threads.
LEMMA HeadFacts ==
  /\ \A p \in Prio : Ready(p) \in ListHead
  /\ \A o \in Obj : Wait(o) \in ListHead
  /\ Defunct \in ListHead
  /\ \A p, q : Ready(p) = Ready(q) => p = q
  /\ \A o, p : Wait(o) = Wait(p) => o = p
  /\ \A p, o : Ready(p) # Wait(o)
  /\ \A p : Ready(p) # Defunct
  /\ \A o : Wait(o) # Defunct
  /\ \A h \in ListHead : \/ \E p \in Prio : h = Ready(p)
                         \/ \E o \in Obj : h = Wait(o)
                         \/ h = Defunct
BY DEF Ready, Wait, Defunct, ListHead

\* rt_list_remove takes the node of t out of every list and moves no other.
LEMMA UnlinkProps ==
  ASSUME NEW k \in KState, OneList(k), NEW t \in Thread
  PROVE  /\ Unlink(k, t) \in KState
         /\ OneList(Unlink(k, t))
         /\ \A h \in ListHead : Range(Unlink(k, t).list[h]) = Range(k.list[h]) \ {t}
<1> DEFINE u == Unlink(k, t)
<1>1. \A h \in ListHead : k.list[h] \in Seq(Thread) /\ IsInjective(k.list[h])
  BY DEF KState, OneList
<1>2. \A h \in ListHead : /\ RemoveFirst(k.list[h], t) \in Seq(Thread)
                          /\ Range(RemoveFirst(k.list[h], t)) = Range(k.list[h]) \ {t}
                          /\ IsInjective(RemoveFirst(k.list[h], t))
  BY <1>1, RangeRemoveFirst
<1>3. u.list = [h \in ListHead |-> RemoveFirst(k.list[h], t)]
  BY DEF Unlink, KState
<1>4. u.list \in [ListHead -> Seq(Thread)]
  BY <1>2, <1>3
<1>5. u \in KState
  BY <1>3, <1>4 DEF Unlink, KState
<1>6. OneList(u)
  <2>1. u.timers = k.timers
    BY DEF Unlink, KState
  <2> QED BY <1>2, <1>3, <2>1 DEF OneList
<1> QED BY <1>2, <1>3, <1>5, <1>6

\* A list is empty when it holds nobody.
LEMMA EmptyRange ==
  ASSUME NEW S, NEW s \in Seq(S)
  PROVE  s = <<>> <=> Range(s) = {}
<1>1. CASE s = <<>>
  BY <1>1 DEF Range
<1>2. CASE s # <<>>
  <2>1. 1 \in DOMAIN s
    BY <1>2
  <2> QED BY <1>2, <2>1 DEF Range
<1> QED BY <1>1, <1>2

\* Unlinking leaves everything but the lists alone.
LEMMA UnlinkFrame ==
  ASSUME NEW k \in KState, NEW t \in Thread
  PROVE  LET u == Unlink(k, t)
         IN  /\ u.stat = k.stat /\ u.prio = k.prio /\ u.mask = k.mask /\ u.err = k.err
             /\ u.slice = k.slice /\ u.group = k.group /\ u.cur = k.cur /\ u.lock = k.lock
             /\ u.tick = k.tick /\ u.tmo = k.tmo /\ u.act = k.act /\ u.timers = k.timers
             /\ u.isr = k.isr
BY DEF Unlink, KState

\* Only the bit of a queue that the thread was in can become stale.
LEMMA UnlinkStale ==
  ASSUME NEW k \in KState, OneList(k), NEW t \in Thread
  PROVE  \A p \in StaleBits(Unlink(k, t)) : p \in StaleBits(k) \/ Linked(k, t, Ready(p))
<1> DEFINE u == Unlink(k, t)
<1> SUFFICES ASSUME NEW p \in StaleBits(u)
             PROVE  p \in StaleBits(k) \/ Linked(k, t, Ready(p))
  OBVIOUS
<1>1. u \in KState /\ Range(u.list[Ready(p)]) = Range(k.list[Ready(p)]) \ {t} /\ p \in k.group
      /\ p \in Prio
  <2>1. u \in KState /\ \A h \in ListHead : Range(u.list[h]) = Range(k.list[h]) \ {t}
    BY UnlinkProps
  <2>2. u.group = k.group
    BY UnlinkFrame
  <2>3. p \in k.group
    BY <2>2 DEF StaleBits
  <2>4. p \in Prio
    BY <2>3 DEF KState
  <2> QED BY <2>1, <2>3, <2>4, HeadFacts
<1>2. k.list[Ready(p)] \in Seq(Thread) /\ u.list[Ready(p)] \in Seq(Thread)
  BY <1>1, HeadFacts DEF KState
<1>3. Range(u.list[Ready(p)]) = {}
  BY <1>2, EmptyRange DEF StaleBits
<1>4. Range(k.list[Ready(p)]) = {} \/ t \in Range(k.list[Ready(p)])
  BY <1>1, <1>3
<1>5. Range(k.list[Ready(p)]) = {} => p \in StaleBits(k)
  BY <1>1, <1>2, EmptyRange DEF StaleBits
<1> QED BY <1>4, <1>5 DEF Linked

\* rt_list_remove on the node of any thread but idle.
LEMMA UnlinkInv ==
  ASSUME NEW k, KInv(k), NEW t \in Thread, t # idle
  PROVE  KInv(Unlink(k, t)) /\ Unlinked(Unlink(k, t), t)
<1> DEFINE u == Unlink(k, t)
<1>1. /\ u \in KState /\ OneList(u)
      /\ \A h \in ListHead : Range(u.list[h]) = Range(k.list[h]) \ {t}
  BY UnlinkProps DEF KInv
<1>2. /\ u.stat = k.stat /\ u.prio = k.prio /\ u.mask = k.mask /\ u.act = k.act
      /\ u.timers = k.timers /\ u.group = k.group
  BY UnlinkFrame DEF KInv
<1> HIDE DEF u
<1>3. \A s \in Thread, h \in ListHead : Linked(u, s, h) => Linked(k, s, h)
  BY <1>1 DEF Linked
<1>4. ListsAgree(u)
  BY <1>2, <1>3, HeadFacts DEF ListsAgree, KInv, Timed
<1>5. BitsCover(u)
  <2>1. ASSUME NEW p \in Prio, u.list[Ready(p)] # <<>> PROVE p \in u.group
    <3>1. Range(u.list[Ready(p)]) # {}
      BY <1>1, <2>1, EmptyRange, HeadFacts DEF KState
    <3>2. Range(k.list[Ready(p)]) # {}
      BY <3>1, <1>1, HeadFacts
    <3>3. k.list[Ready(p)] # <<>>
      BY <3>2, EmptyRange, HeadFacts DEF KState, KInv
    <3> QED BY <3>3, <1>2 DEF KInv, BitsCover
  <2>2. PrioMax - 1 \in Prio
    BY KernelAssumption DEF Prio
  <2>3. Linked(u, idle, Ready(PrioMax - 1))
    BY <1>1, <2>2, HeadFacts DEF KInv, BitsCover, Linked
  <2> QED BY <2>1, <2>3 DEF BitsCover
<1>6. Unlinked(u, t)
  BY <1>1 DEF Unlinked, Linked
<1> QED BY <1>1, <1>4, <1>5, <1>6 DEF KInv, u

\* rt_schedule_insert_thread on a node that is in no list.
LEMMA InsertReadyInv ==
  ASSUME NEW k, KInv(k), NEW t \in Thread, Unlinked(k, t), ~Timed(k, t),
         k.mask[t] = {k.prio[t]}
  PROVE  LET u == InsertReady(k, t)
         IN  /\ KInv(u)
             /\ u.stat = [k.stat EXCEPT ![t] = "READY"]
             /\ \A h \in ListHead : Range(u.list[h]) =
                  IF h = Ready(k.prio[t]) THEN Range(k.list[h]) \cup {t}
                                          ELSE Range(k.list[h])
             /\ StaleBits(u) \subseteq StaleBits(k) \ {k.prio[t]}
<1> DEFINE u == InsertReady(k, t)
           q == Ready(k.prio[t])
<1>0. k \in KState /\ k.prio[t] \in Prio /\ q \in ListHead
  BY HeadFacts DEF KInv, KState
<1>1. /\ u.stat = [k.stat EXCEPT ![t] = "READY"]
      /\ u.list = [k.list EXCEPT ![q] = Append(k.list[q], t)]
      /\ u.group = k.group \cup {k.prio[t]}
      /\ u.prio = k.prio /\ u.mask = k.mask /\ u.act = k.act /\ u.timers = k.timers
  BY <1>0 DEF InsertReady, KState
<1>2. k.list[q] \in Seq(Thread) /\ IsInjective(k.list[q]) /\ t \notin Range(k.list[q])
  BY <1>0 DEF KState, KInv, OneList, Unlinked, Linked
<1>3. /\ Append(k.list[q], t) \in Seq(Thread) /\ IsInjective(Append(k.list[q], t))
      /\ Range(Append(k.list[q], t)) = Range(k.list[q]) \cup {t}
  BY <1>2, RangeAppend
<1>4. u \in KState
  BY <1>0, <1>3 DEF InsertReady, KState, Stat
<1> HIDE DEF u
<1>5. \A h \in ListHead : u.list[h] = IF h = q THEN Append(k.list[q], t) ELSE k.list[h]
  BY <1>0, <1>1 DEF KState
<1>6. \A h \in ListHead : Range(u.list[h]) =
        IF h = q THEN Range(k.list[h]) \cup {t} ELSE Range(k.list[h])
  BY <1>3, <1>5
<1>7. OneList(u)
  <2>1. \A h \in ListHead : IsInjective(u.list[h])
    BY <1>3, <1>5 DEF KInv, OneList
  <2>2. \A h \in ListHead : t \notin Range(k.list[h])
    BY DEF Unlinked, Linked
  <2>3. \A g, h \in ListHead : g # h => Range(u.list[g]) \cap Range(u.list[h]) = {}
    BY <1>6, <2>2 DEF KInv, OneList
  <2> QED BY <1>1, <2>1, <2>3 DEF KInv, OneList
<1>8. ListsAgree(u)
  <2> SUFFICES ASSUME NEW s \in Thread
               PROVE  /\ \A p \in Prio : Linked(u, s, Ready(p)) => u.stat[s] = "READY" /\ u.prio[s] = p
                      /\ \A o \in Obj : Linked(u, s, Wait(o)) => u.stat[s] = "SUSPEND"
                      /\ Linked(u, s, Defunct) => u.stat[s] = "CLOSE"
                      /\ Timed(u, s) => u.stat[s] = "SUSPEND" /\ s \in u.act
                      /\ u.stat[s] \in {"READY", "SUSPEND"} => u.mask[s] = {u.prio[s]}
    BY DEF ListsAgree
  <2>0. u.stat[s] = IF s = t THEN "READY" ELSE k.stat[s]
    BY <1>0, <1>1 DEF KState
  <2>1. CASE s = t
    <3>1. \A h \in ListHead : Linked(u, t, h) => h = q
      BY <1>6 DEF Linked, Unlinked
    <3>2. ~Timed(u, t)
      BY <1>1 DEF Timed
    <3> QED BY <2>0, <2>1, <3>1, <3>2, <1>1, HeadFacts
  <2>2. CASE s # t
    <3>1. \A h \in ListHead : Linked(u, s, h) => Linked(k, s, h)
      BY <1>6, <2>2 DEF Linked
    <3> QED BY <2>0, <2>2, <3>1, <1>1, HeadFacts DEF KInv, ListsAgree, Timed
  <2> QED BY <2>1, <2>2
<1>9. BitsCover(u)
  <2>1. \A p \in Prio : u.list[Ready(p)] # <<>> => p \in u.group
    BY <1>1, <1>5, HeadFacts DEF KInv, BitsCover
  <2>2. PrioMax - 1 \in Prio
    BY KernelAssumption DEF Prio
  <2>3. Linked(u, idle, Ready(PrioMax - 1))
    BY <1>6, <2>2, HeadFacts DEF KInv, BitsCover, Linked
  <2> QED BY <2>1, <2>3 DEF BitsCover
<1>10. StaleBits(u) \subseteq StaleBits(k) \ {k.prio[t]}
  <2>1. u.list[q] # <<>>
    <3>1. t \in Range(u.list[q])
      BY <1>0, <1>6
    <3> QED BY <3>1 DEF Range
  <2> QED BY <2>1, <1>0, <1>1, <1>5, HeadFacts DEF StaleBits, KState
<1> QED BY <1>1, <1>4, <1>6, <1>7, <1>8, <1>9, <1>10 DEF KInv, u

\* Everything but stat, one queue and the bitmap is as before.
LEMMA InsertReadyFrame ==
  ASSUME NEW k \in KState, NEW t \in Thread
  PROVE  LET u == InsertReady(k, t)
         IN  /\ u.prio = k.prio /\ u.mask = k.mask /\ u.err = k.err /\ u.slice = k.slice
             /\ u.cur = k.cur /\ u.lock = k.lock /\ u.tick = k.tick /\ u.tmo = k.tmo
             /\ u.act = k.act /\ u.timers = k.timers /\ u.isr = k.isr
BY DEF InsertReady, KState

\* rt_timer_stop: the timer is out of the list afterwards.
LEMMA TimerStopInv ==
  ASSUME NEW k, KInv(k), NEW t \in Thread
  PROVE  LET u == TimerStop(k, t)
         IN  /\ KInv(u)
             /\ Range(u.timers) = Range(k.timers) \ {t}
             /\ u.stat = k.stat /\ u.prio = k.prio /\ u.mask = k.mask /\ u.list = k.list
             /\ u.group = k.group /\ u.cur = k.cur /\ u.lock = k.lock /\ u.isr = k.isr
             /\ u.err = k.err
<1> DEFINE u == TimerStop(k, t)
<1>1. CASE t \notin k.act
  <2>1. u = k
    BY <1>1 DEF TimerStop
  <2>2. ~Timed(k, t)
    BY <1>1 DEF KInv, ListsAgree
  <2> QED BY <2>1, <2>2 DEF Timed
<1>2. CASE t \in k.act
  <2>0. k \in KState /\ k.timers \in Seq(Thread) /\ IsInjective(k.timers)
    BY DEF KInv, KState, OneList
  <2>1. /\ RemoveFirst(k.timers, t) \in Seq(Thread)
        /\ Range(RemoveFirst(k.timers, t)) = Range(k.timers) \ {t}
        /\ IsInjective(RemoveFirst(k.timers, t))
    BY <2>0, RangeRemoveFirst
  <2>2. 0 \in Tick
    BY KernelAssumption DEF Tick
  <2>3. u \in KState
    BY <1>2, <2>0, <2>1, <2>2 DEF TimerStop, TimerRemove, KState
  <2>4. /\ u.timers = RemoveFirst(k.timers, t) /\ u.act = k.act \ {t}
        /\ u.stat = k.stat /\ u.prio = k.prio /\ u.mask = k.mask /\ u.list = k.list
        /\ u.group = k.group /\ u.cur = k.cur /\ u.lock = k.lock /\ u.isr = k.isr
        /\ u.err = k.err
    BY <1>2, <2>0 DEF TimerStop, TimerRemove, KState
  <2> HIDE DEF u
  <2>5. OneList(u)
    BY <2>1, <2>4 DEF KInv, OneList
  <2>6. ListsAgree(u)
    BY <2>1, <2>4 DEF KInv, ListsAgree, Linked, Timed
  <2>7. BitsCover(u)
    BY <2>4 DEF KInv, BitsCover, Linked
  <2> QED BY <2>1, <2>3, <2>4, <2>5, <2>6, <2>7 DEF KInv, u
<1> QED BY <1>1, <1>2

\* rt_schedule_remove_thread as far as it needs no agreement of stat and list.
LEMMA RemoveReadyProps ==
  ASSUME NEW k \in KState, OneList(k), NEW t \in Thread
  PROVE  LET u == RemoveReady(k, t)
         IN  /\ u \in KState /\ OneList(u)
             /\ u.list = Unlink(k, t).list
             /\ \A h \in ListHead : Range(u.list[h]) = Range(k.list[h]) \ {t}
             /\ u.group = IF u.list[Ready(k.prio[t])] = <<>> THEN k.group \ k.mask[t]
                                                            ELSE k.group
             /\ u.stat = k.stat /\ u.prio = k.prio /\ u.mask = k.mask /\ u.err = k.err
             /\ u.cur = k.cur /\ u.lock = k.lock /\ u.act = k.act
             /\ u.timers = k.timers /\ u.isr = k.isr /\ u.tmo = k.tmo /\ u.tick = k.tick
<1> DEFINE v == Unlink(k, t)
           u == RemoveReady(k, t)
<1>1. /\ v \in KState /\ OneList(v)
      /\ \A h \in ListHead : Range(v.list[h]) = Range(k.list[h]) \ {t}
  BY UnlinkProps
<1>2. /\ v.stat = k.stat /\ v.prio = k.prio /\ v.mask = k.mask /\ v.err = k.err
      /\ v.group = k.group /\ v.cur = k.cur /\ v.lock = k.lock /\ v.act = k.act
      /\ v.timers = k.timers /\ v.isr = k.isr /\ v.tmo = k.tmo /\ v.tick = k.tick
  BY UnlinkFrame
<1>3. u = IF v.list[Ready(k.prio[t])] = <<>> THEN [v EXCEPT !.group = @ \ k.mask[t]] ELSE v
  BY DEF RemoveReady
<1> HIDE DEF v, u
<1>4. /\ u \in KState /\ u.list = v.list /\ u.timers = v.timers
      /\ u.group = IF v.list[Ready(k.prio[t])] = <<>> THEN v.group \ k.mask[t] ELSE v.group
      /\ u.stat = v.stat /\ u.prio = v.prio /\ u.mask = v.mask /\ u.err = v.err
      /\ u.cur = v.cur /\ u.lock = v.lock /\ u.act = v.act /\ u.isr = v.isr
      /\ u.tmo = v.tmo /\ u.tick = v.tick
  BY <1>1, <1>3 DEF KState
<1>5. OneList(u)
  BY <1>1, <1>4 DEF OneList
<1> QED BY <1>1, <1>2, <1>4, <1>5 DEF u, v

\* rt_schedule_remove_thread clears the bit of a queue it empties and no other.
LEMMA RemoveReadyBits ==
  ASSUME NEW k \in KState, OneList(k), NEW t \in Thread, t # idle,
         BitsCover(k),
         k.mask[t] \subseteq {k.prio[t]},
         \A p \in Prio : Linked(k, t, Ready(p)) => k.mask[t] = {p} /\ k.prio[t] = p
  PROVE  /\ BitsCover(RemoveReady(k, t))
         /\ StaleBits(RemoveReady(k, t)) \subseteq StaleBits(k)
<1> DEFINE u == RemoveReady(k, t)
<1>1. /\ u \in KState
      /\ \A h \in ListHead : Range(u.list[h]) = Range(k.list[h]) \ {t}
      /\ u.group = IF u.list[Ready(k.prio[t])] = <<>> THEN k.group \ k.mask[t] ELSE k.group
  BY RemoveReadyProps
<1> HIDE DEF u
<1>2. \A p \in Prio : u.list[Ready(p)] = <<>> <=> Range(k.list[Ready(p)]) \ {t} = {}
  BY <1>1, EmptyRange, HeadFacts DEF KState
<1>3. \A p \in Prio : k.list[Ready(p)] = <<>> <=> Range(k.list[Ready(p)]) = {}
  BY EmptyRange, HeadFacts DEF KState
<1>4. k.prio[t] \in Prio /\ k.group \subseteq Prio
  BY DEF KState
<1>5. ASSUME NEW p \in Prio, u.list[Ready(p)] # <<>> PROVE p \in u.group
  <2>1. p \in k.group
    BY <1>2, <1>3, <1>5 DEF BitsCover
  <2>2. u.list[Ready(k.prio[t])] = <<>> => p \notin k.mask[t]
    BY <1>5
  <2> QED BY <1>1, <2>1, <2>2
<1>6. PrioMax - 1 \in Prio
  BY KernelAssumption DEF Prio
<1>7. Linked(u, idle, Ready(PrioMax - 1))
  BY <1>1, <1>6, HeadFacts DEF BitsCover, Linked
<1>8. ASSUME NEW p \in StaleBits(u) PROVE p \in StaleBits(k)
  <2>1. p \in Prio /\ p \in u.group /\ u.list[Ready(p)] = <<>> /\ p \in k.group
    BY <1>1, <1>4, <1>8 DEF StaleBits
  <2>2. ~Linked(k, t, Ready(p))
    <3> SUFFICES ASSUME Linked(k, t, Ready(p)) PROVE FALSE
      OBVIOUS
    <3>1. k.mask[t] = {p} /\ k.prio[t] = p
      BY <2>1
    <3>2. u.group = k.group \ {p}
      BY <1>1, <2>1, <3>1
    <3> QED BY <2>1, <3>2
  <2>3. Range(k.list[Ready(p)]) \ {t} = {}
    BY <2>1, <1>2
  <2>4. Range(k.list[Ready(p)]) = {}
    BY <2>2, <2>3 DEF Linked
  <2>5. k.list[Ready(p)] = <<>>
    BY <2>1, <2>4, <1>3
  <2> QED BY <2>1, <2>5 DEF StaleBits
<1> QED BY <1>5, <1>7, <1>8 DEF BitsCover, u

\* rt_schedule_remove_thread on a started thread.
LEMMA RemoveReadyInv ==
  ASSUME NEW k, KInv(k), NEW t \in Thread, t # idle,
         k.stat[t] \in {"READY", "SUSPEND"}
  PROVE  LET u == RemoveReady(k, t)
         IN  /\ KInv(u) /\ Unlinked(u, t)
             /\ StaleBits(u) \subseteq StaleBits(k)
<1> DEFINE u == RemoveReady(k, t)
<1>0. k \in KState /\ OneList(k) /\ BitsCover(k) /\ k.mask[t] = {k.prio[t]}
  BY DEF KInv, ListsAgree
<1>1. /\ u \in KState /\ OneList(u)
      /\ \A h \in ListHead : Range(u.list[h]) = Range(k.list[h]) \ {t}
      /\ u.stat = k.stat /\ u.prio = k.prio /\ u.mask = k.mask
      /\ u.act = k.act /\ u.timers = k.timers
  BY <1>0, RemoveReadyProps
<1>2. BitsCover(u) /\ StaleBits(u) \subseteq StaleBits(k)
  <2>1. \A p \in Prio : Linked(k, t, Ready(p)) => k.mask[t] = {p} /\ k.prio[t] = p
    BY <1>0 DEF KInv, ListsAgree
  <2> QED BY <1>0, <2>1, RemoveReadyBits
<1> HIDE DEF u
<1>3. ListsAgree(u)
  <2>1. \A s \in Thread, h \in ListHead : Linked(u, s, h) => Linked(k, s, h)
    BY <1>1 DEF Linked
  <2> QED BY <1>1, <2>1, HeadFacts DEF KInv, ListsAgree, Timed
<1>4. Unlinked(u, t)
  BY <1>1 DEF Unlinked, Linked
<1> QED BY <1>1, <1>2, <1>3, <1>4 DEF KInv, u

\* rt_thread_suspend: the thread ends in no list and without a timer.
LEMMA SuspendInv ==
  ASSUME NEW k, KInv(k), NEW t \in Thread, t # idle, k.stat[t] = "READY"
  PROVE  LET u == Suspend(k, t)
         IN  /\ KInv(u) /\ Unlinked(u, t)
             /\ StaleBits(u) \subseteq StaleBits(k)
             /\ \A h \in ListHead : Range(u.list[h]) = Range(k.list[h]) \ {t}
             /\ Range(u.timers) = Range(k.timers) \ {t}
             /\ u.stat = [k.stat EXCEPT ![t] = "SUSPEND"]
             /\ u.prio = k.prio /\ u.cur = k.cur /\ u.lock = k.lock /\ u.isr = k.isr
<1> DEFINE w == [k EXCEPT !.stat[t] = "SUSPEND"]
           v == RemoveReady(w, t)
           u == Suspend(k, t)
<1>0. k \in KState /\ k.mask[t] = {k.prio[t]}
  BY DEF KInv, ListsAgree
<1>1. /\ w \in KState /\ w.stat = [k.stat EXCEPT ![t] = "SUSPEND"]
      /\ w.list = k.list /\ w.timers = k.timers /\ w.prio = k.prio /\ w.mask = k.mask
      /\ w.group = k.group /\ w.act = k.act /\ w.cur = k.cur /\ w.lock = k.lock
      /\ w.isr = k.isr
  BY <1>0 DEF KState, Stat
<1> HIDE DEF w
<1>2. OneList(w) /\ BitsCover(w) /\ StaleBits(w) = StaleBits(k)
  BY <1>1 DEF KInv, OneList, BitsCover, Linked, StaleBits
<1>3. \A p \in Prio : Linked(w, t, Ready(p)) => w.mask[t] = {p} /\ w.prio[t] = p
  BY <1>0, <1>1 DEF KInv, ListsAgree, Linked
<1>4. BitsCover(v) /\ StaleBits(v) \subseteq StaleBits(k)
  <2>1. w.mask[t] \subseteq {w.prio[t]}
    BY <1>0, <1>1
  <2> QED BY <1>1, <1>2, <1>3, <2>1, RemoveReadyBits
<1>5. /\ v \in KState /\ OneList(v)
      /\ \A h \in ListHead : Range(v.list[h]) = Range(k.list[h]) \ {t}
      /\ v.stat = [k.stat EXCEPT ![t] = "SUSPEND"] /\ v.prio = k.prio /\ v.mask = k.mask
      /\ v.act = k.act /\ v.timers = k.timers /\ v.cur = k.cur /\ v.lock = k.lock
      /\ v.isr = k.isr
  <2>1. /\ v \in KState /\ OneList(v)
        /\ \A h \in ListHead : Range(v.list[h]) = Range(w.list[h]) \ {t}
        /\ v.stat = w.stat /\ v.prio = w.prio /\ v.mask = w.mask
        /\ v.act = w.act /\ v.timers = w.timers /\ v.cur = w.cur /\ v.lock = w.lock
        /\ v.isr = w.isr
    BY <1>1, <1>2, RemoveReadyProps
  <2> HIDE DEF v
  <2> QED BY <1>1, <2>1
<1> HIDE DEF v
<1>6. ListsAgree(v)
  <2>1. \A s \in Thread, h \in ListHead : Linked(v, s, h) => Linked(k, s, h) /\ s # t
    BY <1>5 DEF Linked
  <2>2. ~Timed(k, t)
    BY DEF KInv, ListsAgree
  <2>3. \A s \in Thread : v.stat[s] = IF s = t THEN "SUSPEND" ELSE k.stat[s]
    BY <1>0, <1>5 DEF KState
  <2> QED BY <1>0, <1>5, <2>1, <2>2, <2>3, HeadFacts DEF KInv, ListsAgree, Timed
<1>7. KInv(v)
  BY <1>4, <1>5, <1>6 DEF KInv
<1>8. u = TimerStop(v, t)
  BY DEF Suspend, SetStat, v, w
<1>9. /\ KInv(u) /\ u.list = v.list /\ u.stat = v.stat /\ u.prio = v.prio
      /\ u.group = v.group /\ u.cur = v.cur /\ u.lock = v.lock /\ u.isr = v.isr
      /\ Range(u.timers) = Range(v.timers) \ {t}
  BY <1>7, <1>8, TimerStopInv
<1> HIDE DEF u
<1>10. Unlinked(u, t)
  BY <1>5, <1>9 DEF Unlinked, Linked
<1>11. StaleBits(u) = StaleBits(v)
  BY <1>9 DEF StaleBits
<1> QED BY <1>4, <1>5, <1>9, <1>10, <1>11 DEF u

\* The first interrupt lock of rt_thread_resume.
LEMMA ResumeUnlinkInv ==
  ASSUME NEW k, KInv(k), NEW t \in Thread, t # idle
  PROVE  LET u == ResumeUnlink(k, t)
         IN  /\ KInv(u) /\ Unlinked(u, t) /\ ~Timed(u, t)
             /\ \A p \in StaleBits(u) : p \in StaleBits(k) \/ Linked(k, t, Ready(p))
             /\ \A h \in ListHead : Range(u.list[h]) = Range(k.list[h]) \ {t}
             /\ Range(u.timers) = Range(k.timers) \ {t}
             /\ u.stat = k.stat /\ u.prio = k.prio /\ u.mask = k.mask
             /\ u.cur = k.cur /\ u.lock = k.lock /\ u.isr = k.isr
<1> DEFINE v == Unlink(k, t)
           u == ResumeUnlink(k, t)
<1>1. KInv(v) /\ Unlinked(v, t)
  BY UnlinkInv
<1>2. /\ \A h \in ListHead : Range(v.list[h]) = Range(k.list[h]) \ {t}
      /\ v.stat = k.stat /\ v.prio = k.prio /\ v.mask = k.mask /\ v.group = k.group
      /\ v.timers = k.timers /\ v.cur = k.cur /\ v.lock = k.lock /\ v.isr = k.isr
  BY UnlinkProps, UnlinkFrame DEF KInv
<1>3. \A p \in StaleBits(v) : p \in StaleBits(k) \/ Linked(k, t, Ready(p))
  BY UnlinkStale DEF KInv
<1> HIDE DEF v
<1>4. u = TimerStop(v, t)
  BY DEF ResumeUnlink, v
<1>5. /\ KInv(u) /\ Range(u.timers) = Range(v.timers) \ {t}
      /\ u.list = v.list /\ u.stat = v.stat /\ u.prio = v.prio /\ u.mask = v.mask
      /\ u.group = v.group /\ u.cur = v.cur /\ u.lock = v.lock /\ u.isr = v.isr
  BY <1>1, <1>4, TimerStopInv
<1> HIDE DEF u
<1>6. Unlinked(u, t) /\ ~Timed(u, t) /\ StaleBits(u) = StaleBits(v)
  BY <1>1, <1>5 DEF Unlinked, Linked, Timed, StaleBits
<1> QED BY <1>2, <1>3, <1>5, <1>6 DEF u

\* Writing the priority of a thread that is in no ready queue.
LEMMA SetPrioInv ==
  ASSUME NEW k, KInv(k), NEW t \in Thread, NEW p \in Prio,
         \A q \in Prio : ~Linked(k, t, Ready(q))
  PROVE  LET u == SetPrio(k, t, p)
         IN  /\ KInv(u)
             /\ StaleBits(u) = StaleBits(k)
             /\ u.prio = [k.prio EXCEPT ![t] = p] /\ u.mask = [k.mask EXCEPT ![t] = {p}]
             /\ u.stat = k.stat /\ u.list = k.list /\ u.timers = k.timers
             /\ u.group = k.group /\ u.cur = k.cur /\ u.lock = k.lock /\ u.isr = k.isr
<1> DEFINE u == SetPrio(k, t, p)
<1>0. k \in KState
  BY DEF KInv
<1>1. /\ u \in KState
      /\ u.prio = [k.prio EXCEPT ![t] = p] /\ u.mask = [k.mask EXCEPT ![t] = {p}]
      /\ u.stat = k.stat /\ u.list = k.list /\ u.timers = k.timers /\ u.act = k.act
      /\ u.group = k.group /\ u.cur = k.cur /\ u.lock = k.lock /\ u.isr = k.isr
  BY <1>0 DEF SetPrio, KState
<1> HIDE DEF u
<1>2. \A s \in Thread : /\ u.prio[s] = IF s = t THEN p ELSE k.prio[s]
                        /\ u.mask[s] = IF s = t THEN {p} ELSE k.mask[s]
  BY <1>0, <1>1 DEF KState
<1>3. ListsAgree(u)
  BY <1>1, <1>2 DEF KInv, ListsAgree, Linked, Timed
<1>4. OneList(u) /\ BitsCover(u) /\ StaleBits(u) = StaleBits(k)
  BY <1>1 DEF KInv, OneList, BitsCover, Linked, StaleBits
<1> QED BY <1>1, <1>3, <1>4 DEF KInv, u

\* KInv reads only the fields of the threads, the lists and the timers.
LEMMA KInvFrame ==
  ASSUME NEW k, KInv(k), NEW u \in KState,
         u.stat = k.stat, u.prio = k.prio, u.mask = k.mask, u.list = k.list,
         u.group = k.group, u.timers = k.timers, u.act = k.act
  PROVE  KInv(u) /\ StaleBits(u) = StaleBits(k)
<1>1. OneList(u)
  BY DEF KInv, OneList
<1>2. ListsAgree(u)
  BY DEF KInv, ListsAgree, Linked, Timed
<1>3. BitsCover(u)
  BY DEF KInv, BitsCover, Linked
<1>4. StaleBits(u) = StaleBits(k)
  BY DEF StaleBits
<1> QED BY <1>1, <1>2, <1>3, <1>4 DEF KInv

\* RT_THREAD_CTRL_CHANGE_PRIORITY on a thread that is in its queue if ready.
LEMMA ChangePriorityInv ==
  ASSUME NEW k, KInv(k), NEW t \in Thread, t # idle, NEW p \in Prio,
         k.stat[t] = "READY" => Linked(k, t, Ready(k.prio[t]))
  PROVE  LET u == ChangePriority(k, t, p)
         IN  /\ KInv(u)
             /\ StaleBits(u) \subseteq StaleBits(k)
             /\ u.prio = [k.prio EXCEPT ![t] = p]
             /\ u.stat = k.stat /\ u.timers = k.timers
             /\ u.cur = k.cur /\ u.lock = k.lock /\ u.isr = k.isr
             /\ \A s \in Thread \ {t}, h \in ListHead : Linked(u, s, h) <=> Linked(k, s, h)
             /\ k.stat[t] = "READY" => Linked(u, t, Ready(p))
             /\ Unlinked(k, t) => Unlinked(u, t)
<1> DEFINE r == RemoveReady(k, t)
           v == SetPrio(r, t, p)
           u == ChangePriority(k, t, p)
<1>0. k \in KState /\ OneList(k) /\ p \in Prio /\ Ready(p) \in ListHead
  BY HeadFacts DEF KInv
<1>1. CASE k.stat[t] # "READY"
  <2>1. u = SetPrio(k, t, p)
    BY <1>1 DEF ChangePriority
  <2>2. \A q \in Prio : ~Linked(k, t, Ready(q))
    BY <1>1 DEF KInv, ListsAgree
  <2>3. /\ KInv(u) /\ StaleBits(u) = StaleBits(k)
        /\ u.prio = [k.prio EXCEPT ![t] = p]
        /\ u.stat = k.stat /\ u.timers = k.timers /\ u.list = k.list
        /\ u.cur = k.cur /\ u.lock = k.lock /\ u.isr = k.isr
    <3> DEFINE x == SetPrio(k, t, p)
    <3>1. /\ KInv(x) /\ StaleBits(x) = StaleBits(k)
          /\ x.prio = [k.prio EXCEPT ![t] = p] /\ x.mask = [k.mask EXCEPT ![t] = {p}]
          /\ x.stat = k.stat /\ x.list = k.list /\ x.timers = k.timers
          /\ x.cur = k.cur /\ x.lock = k.lock /\ x.isr = k.isr
      BY <2>2, SetPrioInv
    <3> HIDE DEF x
    <3>2. u = x
      BY <2>1 DEF x
    <3> QED BY <3>1, <3>2
  <2> QED BY <1>1, <2>3 DEF Linked, Unlinked
<1>2. CASE k.stat[t] = "READY"
  <2>1. KInv(r) /\ Unlinked(r, t) /\ StaleBits(r) \subseteq StaleBits(k)
    BY <1>2, RemoveReadyInv
  <2>2. /\ \A h \in ListHead : Range(r.list[h]) = Range(k.list[h]) \ {t}
        /\ r.stat = k.stat /\ r.prio = k.prio /\ r.timers = k.timers
        /\ r.cur = k.cur /\ r.lock = k.lock /\ r.isr = k.isr
    BY <1>0, RemoveReadyProps
  <2> HIDE DEF r
  <2>3. \A q \in Prio : ~Linked(r, t, Ready(q))
    BY <2>1, HeadFacts DEF Unlinked
  <2>4. /\ KInv(v) /\ StaleBits(v) = StaleBits(r)
        /\ v.prio = [r.prio EXCEPT ![t] = p] /\ v.mask = [r.mask EXCEPT ![t] = {p}]
        /\ v.stat = r.stat /\ v.list = r.list /\ v.timers = r.timers
        /\ v.cur = r.cur /\ v.lock = r.lock /\ v.isr = r.isr
    BY <2>1, <2>3, SetPrioInv
  <2> HIDE DEF v
  <2>5. v.prio[t] = p /\ v.mask[t] = {p}
    BY <2>1, <2>4 DEF KInv, KState
  <2>6. Unlinked(v, t) /\ ~Timed(v, t)
    BY <1>2, <2>1, <2>2, <2>4 DEF Unlinked, Linked, Timed, KInv, ListsAgree
  <2>7. u = InsertReady(v, t)
    BY <1>2 DEF ChangePriority, r, v
  <2>8. /\ KInv(u) /\ u.stat = [v.stat EXCEPT ![t] = "READY"]
        /\ \A h \in ListHead : Range(u.list[h]) =
             IF h = Ready(p) THEN Range(v.list[h]) \cup {t} ELSE Range(v.list[h])
        /\ StaleBits(u) \subseteq StaleBits(v)
    <3> DEFINE x == InsertReady(v, t)
    <3>1. /\ KInv(x) /\ x.stat = [v.stat EXCEPT ![t] = "READY"]
          /\ \A h \in ListHead : Range(x.list[h]) =
               IF h = Ready(v.prio[t]) THEN Range(v.list[h]) \cup {t} ELSE Range(v.list[h])
          /\ StaleBits(x) \subseteq StaleBits(v) \ {v.prio[t]}
      BY <2>4, <2>5, <2>6, InsertReadyInv
    <3> HIDE DEF x
    <3>2. u = x
      BY <2>7 DEF x
    <3> HIDE DEF u
    <3> QED BY <3>1, <3>2, <2>5
  <2>9. /\ u.prio = v.prio /\ u.cur = v.cur /\ u.lock = v.lock
        /\ u.timers = v.timers /\ u.isr = v.isr
    BY <2>4, <2>7, InsertReadyFrame DEF KInv
  <2> HIDE DEF u
  <2>10. u.stat = k.stat
    BY <1>0, <1>2, <2>2, <2>4, <2>8 DEF KState
  <2>11. \A s \in Thread \ {t}, h \in ListHead : Linked(u, s, h) <=> Linked(k, s, h)
    <3> SUFFICES ASSUME NEW s \in Thread \ {t}, NEW h \in ListHead
                 PROVE  s \in Range(u.list[h]) <=> s \in Range(k.list[h])
      BY DEF Linked
    <3>1. s \in Range(r.list[h]) <=> s \in Range(k.list[h])
      BY <2>2
    <3>2. s \in Range(u.list[h]) <=> s \in Range(v.list[h])
      BY <2>8
    <3> QED BY <3>1, <3>2, <2>4
  <2>12. Linked(u, t, Ready(p))
    BY <1>0, <2>8 DEF Linked
  <2>13. ~Unlinked(k, t)
    BY <1>0, <1>2, HeadFacts DEF Unlinked, KState
  <2> QED BY <2>1, <2>2, <2>4, <2>8, <2>9, <2>10, <2>11, <2>12, <2>13 DEF u
<1> QED BY <1>1, <1>2

\* rt_schedule on an exact bitmap: the new thread is at the head of the first
\* queue that has a thread in it.
LEMMA ScheduleInv ==
  ASSUME NEW k, KInv(k), k.lock = 0 => StaleBits(k) = {}
  PROVE  LET u == Schedule(k)
         IN  /\ KInv(u) /\ StaleBits(u) = StaleBits(k)
             /\ u.stat = k.stat /\ u.prio = k.prio /\ u.list = k.list
             /\ u.timers = k.timers /\ u.lock = k.lock /\ u.isr = k.isr
             /\ k.lock # 0 => u.cur = k.cur
             /\ k.lock = 0 => /\ Linked(u, u.cur, Ready(u.prio[u.cur]))
                              /\ \A t \in Thread : InReady(u, t) => u.prio[u.cur] <= u.prio[t]
<1> DEFINE u == Schedule(k)
<1>1. CASE k.lock # 0
  BY <1>1 DEF Schedule
<1>2. CASE k.lock = 0
  <2> DEFINE m == Min(k.group)
  <2>0. k \in KState /\ PrioMax - 1 \in Prio
    BY KernelAssumption DEF KInv, Prio
  <2>1. PrioMax - 1 \in k.group
    <3>1. k.list[Ready(PrioMax - 1)] # <<>>
      BY DEF KInv, BitsCover, Linked, Range
    <3> QED BY <2>0, <3>1 DEF KInv, BitsCover
  <2>2. m \in k.group /\ \A q \in k.group : m <= q
    <3>1. k.group \in SUBSET Nat
      BY <2>0 DEF KState, Prio
    <3> QED BY <2>1, <3>1, MinOfNats
  <2>3. m \in Prio
    BY <2>0, <2>2 DEF KState
  <2> HIDE DEF m
  <2>4. k.list[Ready(m)] \in Seq(Thread) /\ k.list[Ready(m)] # <<>> /\ IsInjective(k.list[Ready(m)])
    BY <1>2, <2>0, <2>2, <2>3, HeadFacts DEF StaleBits, KState, KInv, OneList
  <2>5. Head(k.list[Ready(m)]) \in Range(k.list[Ready(m)]) /\ Head(k.list[Ready(m)]) \in Thread
    BY <2>4, RangeHeadTail
  <2>6. /\ u.cur = Head(k.list[Ready(m)]) /\ u \in KState
        /\ u.stat = k.stat /\ u.prio = k.prio /\ u.list = k.list /\ u.mask = k.mask
        /\ u.timers = k.timers /\ u.lock = k.lock /\ u.isr = k.isr
        /\ u.group = k.group /\ u.act = k.act
    BY <1>2, <2>0, <2>5 DEF Schedule, KState, m
  <2> HIDE DEF u
  <2>7. KInv(u) /\ StaleBits(u) = StaleBits(k)
    BY <2>6, KInvFrame
  <2>8. Linked(u, u.cur, Ready(m)) /\ u.prio[u.cur] = m
    BY <2>3, <2>5, <2>6, <2>7 DEF Linked, KInv, ListsAgree
  <2>9. ASSUME NEW t \in Thread, InReady(u, t) PROVE m <= u.prio[t]
    <3>1. PICK p \in Prio : Linked(u, t, Ready(p))
      BY <2>9 DEF InReady
    <3>2. u.list[Ready(p)] # <<>> /\ u.prio[t] = p
      BY <3>1, <2>7 DEF Linked, Range, KInv, ListsAgree
    <3>3. p \in u.group
      BY <3>2, <2>7 DEF KInv, BitsCover
    <3> QED BY <3>2, <3>3, <2>2, <2>6
  <2> QED BY <1>2, <2>6, <2>7, <2>8, <2>9 DEF u
<1> QED BY <1>1, <1>2

\* Tick arithmetic stays within rt_tick_t.
LEMMA TickRange == \A n \in Nat : n % TickMod \in Tick
<1>1. TickMod \in Nat /\ TickMod > 0
  BY KernelAssumption
<1> SUFFICES ASSUME NEW n \in Nat PROVE n % TickMod \in 0 .. TickMod - 1
  BY DEF Tick
<1> QED BY <1>1

\* rt_timer_start on the timer of a suspended thread.
LEMMA TimerStartInv ==
  ASSUME NEW k, KInv(k), NEW t \in Thread, k.stat[t] = "SUSPEND", NEW d \in Nat
  PROVE  LET u == TimerStart(k, t, d)
         IN  /\ KInv(u) /\ StaleBits(u) = StaleBits(k)
             /\ Range(u.timers) = Range(k.timers) \cup {t}
             /\ u.stat = k.stat /\ u.prio = k.prio /\ u.list = k.list
             /\ u.cur = k.cur /\ u.lock = k.lock /\ u.isr = k.isr
<1> DEFINE v  == TimerRemove(k, t)
           at == (k.tick + d) % TickMod
           n  == TimerPos(v, at)
           u  == TimerStart(k, t, d)
<1>0. k \in KState /\ k.timers \in Seq(Thread) /\ IsInjective(k.timers)
  BY DEF KInv, KState, OneList
<1>1. at \in Tick
  <2>1. k.tick \in Tick
    BY <1>0 DEF KState
  <2>2. k.tick + d \in Nat
    BY <2>1, KernelAssumption DEF Tick
  <2> QED BY <2>2, TickRange
<1>2. /\ v.timers \in Seq(Thread) /\ IsInjective(v.timers)
      /\ Range(v.timers) = Range(k.timers) \ {t}
  <2>1. v.timers = RemoveFirst(k.timers, t)
    BY <1>0 DEF TimerRemove, KState
  <2> QED BY <1>0, <2>1, RangeRemoveFirst
<1>3. n \in 1 .. Len(v.timers) + 1
  <2> DEFINE later == { i \in DOMAIN v.timers :
                          Since(v.tmo[v.timers[i]], at) \in 1 .. Half - 1 }
  <2>1. n = IF later = {} THEN Len(v.timers) + 1 ELSE Min(later)
    BY DEF TimerPos
  <2>2. later \in SUBSET (1 .. Len(v.timers)) /\ later \in SUBSET Nat
    BY <1>2
  <2> HIDE DEF later, v, n
  <2>3. later # {} => Min(later) \in later
    BY <2>2, MinOfNats
  <2> QED BY <1>2, <2>1, <2>2, <2>3
<1>4. /\ u.timers = InsertAt(v.timers, n, t) /\ u.act = k.act \cup {t}
      /\ u.stat = k.stat /\ u.prio = k.prio /\ u.mask = k.mask /\ u.list = k.list
      /\ u.group = k.group /\ u.cur = k.cur /\ u.lock = k.lock /\ u.isr = k.isr
  BY <1>0 DEF TimerStart, TimerRemove, KState
<1>5. /\ InsertAt(v.timers, n, t) \in Seq(Thread)
      /\ Range(InsertAt(v.timers, n, t)) = Range(k.timers) \cup {t}
      /\ IsInjective(InsertAt(v.timers, n, t))
  <2> HIDE DEF v, n
  <2>1. t \notin Range(v.timers)
    BY <1>2
  <2>2. /\ InsertAt(v.timers, n, t) \in Seq(Thread)
        /\ Range(InsertAt(v.timers, n, t)) = Range(v.timers) \cup {t}
        /\ IsInjective(InsertAt(v.timers, n, t))
    BY <1>2, <1>3, <2>1, RangeInsertAt
  <2> QED BY <1>2, <2>2
<1>6. u \in KState
  <2>1. u = [v EXCEPT !.tmo[t] = at, !.timers = InsertAt(v.timers, n, t),
                      !.act = v.act \cup {t}]
    BY DEF TimerStart
  <2>2. v \in KState
    <3>1. 0 \in Tick
      BY KernelAssumption DEF Tick
    <3> QED BY <1>0, <1>2, <3>1 DEF TimerRemove, KState
  <2> HIDE DEF u, v, n, at
  <2> QED BY <1>1, <1>5, <2>1, <2>2 DEF KState
<1> HIDE DEF u, v, n
<1>7. OneList(u)
  BY <1>4, <1>5 DEF KInv, OneList
<1>8. ListsAgree(u)
  BY <1>4, <1>5 DEF KInv, ListsAgree, Linked, Timed
<1>9. BitsCover(u) /\ StaleBits(u) = StaleBits(k)
  BY <1>4 DEF KInv, BitsCover, Linked, StaleBits
<1> QED BY <1>4, <1>5, <1>6, <1>7, <1>8, <1>9 DEF KInv, u

\* The interrupt lock of rt_thread_yield: the thread goes to the end of its queue.
LEMMA RotateInv ==
  ASSUME NEW k, KInv(k), Shares(k), Linked(k, k.cur, Ready(k.prio[k.cur]))
  PROVE  LET w == Rotate(k)
         IN  /\ KInv(w) /\ StaleBits(w) = StaleBits(k)
             /\ w.stat = k.stat /\ w.prio = k.prio /\ w.timers = k.timers
             /\ w.lock = k.lock /\ w.isr = k.isr /\ w.cur = k.cur
             /\ \A h \in ListHead : Range(w.list[h]) = Range(k.list[h])
<1> DEFINE t == k.cur
           h == Ready(k.prio[t])
           w == Rotate(k)
<1>0. k \in KState /\ t \in Thread /\ h \in ListHead
      /\ k.list[h] \in Seq(Thread) /\ IsInjective(k.list[h]) /\ t \in Range(k.list[h])
  BY HeadFacts DEF KInv, KState, OneList, Linked
<1> DEFINE q == Append(RemoveFirst(k.list[h], t), t)
<1>1. q \in Seq(Thread) /\ IsInjective(q) /\ Range(q) = Range(k.list[h])
  <2>1. /\ RemoveFirst(k.list[h], t) \in Seq(Thread) /\ IsInjective(RemoveFirst(k.list[h], t))
        /\ Range(RemoveFirst(k.list[h], t)) = Range(k.list[h]) \ {t}
    BY <1>0, RangeRemoveFirst
  <2> HIDE DEF t, h
  <2>2. /\ q \in Seq(Thread) /\ IsInjective(q)
        /\ Range(q) = Range(RemoveFirst(k.list[h], t)) \cup {t}
    BY <1>0, <2>1, RangeAppend
  <2> HIDE DEF q
  <2> QED BY <1>0, <2>1, <2>2
<1>2. w = [k EXCEPT !.list[h] = q]
  BY <1>0 DEF KState, Rotate
<1> HIDE DEF q, h, t, w
<1>3. /\ w \in KState /\ w.list = [k.list EXCEPT ![h] = q]
      /\ w.stat = k.stat /\ w.prio = k.prio /\ w.mask = k.mask /\ w.group = k.group
      /\ w.timers = k.timers /\ w.act = k.act /\ w.lock = k.lock /\ w.isr = k.isr
      /\ w.cur = k.cur
  BY <1>0, <1>1, <1>2 DEF KState
<1>4. \A g \in ListHead : w.list[g] = IF g = h THEN q ELSE k.list[g]
  BY <1>0, <1>3 DEF KState
<1>5. \A g \in ListHead : Range(w.list[g]) = Range(k.list[g]) /\ IsInjective(w.list[g])
  BY <1>1, <1>4 DEF KInv, OneList
<1>6. \A g \in ListHead : w.list[g] = <<>> <=> k.list[g] = <<>>
  BY <1>0, <1>3, <1>5, EmptyRange DEF KState
<1>7. OneList(w)
  BY <1>3, <1>5 DEF KInv, OneList
<1>8. ListsAgree(w)
  <2>1. \A s \in Thread, g \in ListHead : Linked(w, s, g) <=> Linked(k, s, g)
    BY <1>5 DEF Linked
  <2> QED BY <1>3, <2>1, HeadFacts DEF KInv, ListsAgree, Timed
<1>9. BitsCover(w)
  <2>1. PrioMax - 1 \in Prio
    BY KernelAssumption DEF Prio
  <2> QED BY <1>3, <1>5, <1>6, <2>1, HeadFacts DEF KInv, BitsCover, Linked
<1>10. StaleBits(w) = StaleBits(k)
  BY <1>0, <1>3, <1>6, HeadFacts DEF StaleBits, KState
<1>11. KInv(w)
  BY <1>3, <1>7, <1>8, <1>9 DEF KInv
<1> QED BY <1>3, <1>5, <1>10, <1>11 DEF w

\* rt_thread_yield by a thread that is in its queue if ready.
LEMMA YieldInv ==
  ASSUME NEW k, KInv(k), k.lock = 0 => StaleBits(k) = {},
         k.stat[k.cur] = "READY" => Linked(k, k.cur, Ready(k.prio[k.cur]))
  PROVE  LET u == Yield(k)
         IN  /\ KInv(u) /\ StaleBits(u) = StaleBits(k)
             /\ u.stat = k.stat /\ u.prio = k.prio /\ u.timers = k.timers
             /\ u.lock = k.lock /\ u.isr = k.isr
             /\ \A h \in ListHead : Range(u.list[h]) = Range(k.list[h])
             /\ u.cur # k.cur =>
                  /\ k.lock = 0
                  /\ Linked(u, u.cur, Ready(u.prio[u.cur]))
                  /\ \A t \in Thread : InReady(u, t) => u.prio[u.cur] <= u.prio[t]
<1> DEFINE w == Rotate(k)
           u == Yield(k)
<1>1. CASE ~Shares(k)
  <2>1. u = k
    BY <1>1 DEF Yield
  <2> QED BY <2>1
<1>2. CASE Shares(k)
  <2>1. Linked(k, k.cur, Ready(k.prio[k.cur]))
    BY <1>2 DEF Shares
  <2>2. /\ KInv(w) /\ StaleBits(w) = StaleBits(k)
        /\ w.stat = k.stat /\ w.prio = k.prio /\ w.timers = k.timers
        /\ w.lock = k.lock /\ w.isr = k.isr /\ w.cur = k.cur
        /\ \A h \in ListHead : Range(w.list[h]) = Range(k.list[h])
    BY <1>2, <2>1, RotateInv
  <2>3. w.lock = 0 => StaleBits(w) = {}
    BY <2>2
  <2> HIDE DEF w
  <2> DEFINE x == Schedule(w)
  <2>4. /\ KInv(x) /\ StaleBits(x) = StaleBits(w)
        /\ x.stat = w.stat /\ x.prio = w.prio /\ x.list = w.list
        /\ x.timers = w.timers /\ x.lock = w.lock /\ x.isr = w.isr
        /\ w.lock # 0 => x.cur = w.cur
        /\ w.lock = 0 => /\ Linked(x, x.cur, Ready(x.prio[x.cur]))
                         /\ \A s \in Thread : InReady(x, s) => x.prio[x.cur] <= x.prio[s]
    BY <2>2, <2>3, ScheduleInv
  <2>5. u = x
    BY <1>2 DEF Yield, w
  <2> HIDE DEF x, u
  <2> QED BY <2>2, <2>4, <2>5 DEF u
<1> QED BY <1>1, <1>2

\* Writing the stat of a thread that is in no list and has no timer.
LEMMA SetStatInv ==
  ASSUME NEW k, KInv(k), NEW t \in Thread, Unlinked(k, t), ~Timed(k, t), NEW x \in Stat,
         x \in {"READY", "SUSPEND"} => k.mask[t] = {k.prio[t]}
  PROVE  LET u == SetStat(k, t, x)
         IN  /\ KInv(u) /\ StaleBits(u) = StaleBits(k)
             /\ u.stat = [k.stat EXCEPT ![t] = x]
             /\ u.prio = k.prio /\ u.mask = k.mask /\ u.list = k.list /\ u.timers = k.timers
             /\ u.cur = k.cur /\ u.lock = k.lock /\ u.isr = k.isr
<1> DEFINE u == SetStat(k, t, x)
<1>0. k \in KState
  BY DEF KInv
<1>1. /\ u \in KState /\ u.stat = [k.stat EXCEPT ![t] = x]
      /\ u.prio = k.prio /\ u.mask = k.mask /\ u.list = k.list /\ u.timers = k.timers
      /\ u.group = k.group /\ u.act = k.act
      /\ u.cur = k.cur /\ u.lock = k.lock /\ u.isr = k.isr
  BY <1>0 DEF SetStat, KState
<1> HIDE DEF u
<1>2. \A s \in Thread : u.stat[s] = IF s = t THEN x ELSE k.stat[s]
  BY <1>0, <1>1 DEF KState
<1>3. ListsAgree(u)
  BY <1>1, <1>2, HeadFacts DEF KInv, ListsAgree, Linked, Timed, Unlinked
<1>4. OneList(u) /\ BitsCover(u) /\ StaleBits(u) = StaleBits(k)
  BY <1>1 DEF KInv, OneList, BitsCover, Linked, StaleBits
<1> QED BY <1>1, <1>3, <1>4 DEF KInv, u

\* _rt_thread_init on a control block that is in no list.
LEMMA ThreadInitInv ==
  ASSUME NEW k, KInv(k), NEW t \in Thread, Unlinked(k, t), ~Timed(k, t)
  PROVE  LET u == ThreadInit(k, t)
         IN  /\ KInv(u) /\ StaleBits(u) = StaleBits(k)
             /\ u.stat = [k.stat EXCEPT ![t] = "INIT"]
             /\ u.prio = [k.prio EXCEPT ![t] = InitPrio[t]]
             /\ u.list = k.list /\ u.timers = k.timers
             /\ u.cur = k.cur /\ u.lock = k.lock /\ u.isr = k.isr
<1> DEFINE u == ThreadInit(k, t)
<1>0. k \in KState /\ InitPrio[t] \in Prio /\ InitTick[t] \in Nat \ {0}
  BY KernelAssumption DEF KInv
<1>1. /\ u.stat = [k.stat EXCEPT ![t] = "INIT"]
      /\ u.prio = [k.prio EXCEPT ![t] = InitPrio[t]]
      /\ u.mask = [k.mask EXCEPT ![t] = {}]
      /\ u.list = k.list /\ u.timers = k.timers /\ u.group = k.group
      /\ u.act = k.act \ {t}
      /\ u.cur = k.cur /\ u.lock = k.lock /\ u.isr = k.isr
  BY <1>0 DEF ThreadInit, KState
<1>2. u \in KState
  BY <1>0 DEF ThreadInit, KState, Stat, Err
<1> HIDE DEF u
<1>3. \A s \in Thread \ {t} : /\ u.stat[s] = k.stat[s] /\ u.prio[s] = k.prio[s]
                              /\ u.mask[s] = k.mask[s] /\ (s \in u.act <=> s \in k.act)
  BY <1>0, <1>1 DEF KState
<1>4. u.stat[t] = "INIT"
  BY <1>0, <1>1 DEF KState
<1>5. \A s \in Thread, h \in ListHead : Linked(u, s, h) => s # t /\ Linked(k, s, h)
  BY <1>1 DEF Linked, Unlinked
<1>6. \A s \in Thread : Timed(u, s) => s # t /\ Timed(k, s)
  BY <1>1 DEF Timed
<1>7. ListsAgree(u)
  BY <1>3, <1>4, <1>5, <1>6, HeadFacts DEF KInv, ListsAgree
<1>8. OneList(u) /\ BitsCover(u) /\ StaleBits(u) = StaleBits(k)
  BY <1>1 DEF KInv, OneList, BitsCover, Linked, StaleBits
<1> QED BY <1>1, <1>2, <1>7, <1>8 DEF KInv, u

\* rt_timer_detach of a timer that is not in the list.
LEMMA TimerDetachInv ==
  ASSUME NEW k, KInv(k), NEW t \in Thread
  PROVE  LET u == TimerDetach(k, t)
         IN  /\ KInv(u) /\ StaleBits(u) = StaleBits(k)
             /\ Range(u.timers) = Range(k.timers) \ {t}
             /\ u.stat = k.stat /\ u.prio = k.prio /\ u.list = k.list
             /\ u.cur = k.cur /\ u.lock = k.lock /\ u.isr = k.isr
<1> DEFINE u == TimerDetach(k, t)
<1>0. k \in KState /\ k.timers \in Seq(Thread) /\ IsInjective(k.timers)
  BY DEF KInv, KState, OneList
<1>1. /\ RemoveFirst(k.timers, t) \in Seq(Thread)
      /\ Range(RemoveFirst(k.timers, t)) = Range(k.timers) \ {t}
      /\ IsInjective(RemoveFirst(k.timers, t))
  BY <1>0, RangeRemoveFirst
<1>2. 0 \in Tick
  BY KernelAssumption DEF Tick
<1>3. u \in KState
  BY <1>0, <1>1, <1>2 DEF TimerDetach, TimerRemove, KState
<1>4. /\ u.timers = RemoveFirst(k.timers, t) /\ u.act = k.act
      /\ u.stat = k.stat /\ u.prio = k.prio /\ u.mask = k.mask /\ u.list = k.list
      /\ u.group = k.group /\ u.cur = k.cur /\ u.lock = k.lock /\ u.isr = k.isr
  BY <1>0 DEF TimerDetach, TimerRemove, KState
<1> HIDE DEF u
<1>5. OneList(u)
  BY <1>1, <1>4 DEF KInv, OneList
<1>6. ListsAgree(u)
  BY <1>1, <1>4 DEF KInv, ListsAgree, Linked, Timed
<1>7. BitsCover(u) /\ StaleBits(u) = StaleBits(k)
  BY <1>4 DEF KInv, BitsCover, Linked, StaleBits
<1> QED BY <1>1, <1>3, <1>4, <1>5, <1>6, <1>7 DEF KInv, u

\* One expired thread timer: rt_thread_timeout makes its thread ready.
LEMMA TimerFireInv ==
  ASSUME NEW k, KInv(k), k.lock = 0 => StaleBits(k) = {}, k.timers # <<>>
  PROVE  LET t == Head(k.timers)
             u == TimerFire(k)
         IN  /\ t \in Thread /\ t # idle /\ Timed(k, t)
             /\ KInv(u) /\ StaleBits(u) \subseteq StaleBits(k)
             /\ u.stat = [k.stat EXCEPT ![t] = "READY"] /\ u.prio = k.prio
             /\ Range(u.timers) = Range(k.timers) \ {t}
             /\ u.lock = k.lock /\ u.isr = k.isr
             /\ Linked(u, t, Ready(u.prio[t]))
             /\ \A s \in Thread \ {t}, h \in ListHead : Linked(u, s, h) <=> Linked(k, s, h)
             /\ k.lock # 0 => u.cur = k.cur
             /\ k.lock = 0 => /\ Linked(u, u.cur, Ready(u.prio[u.cur]))
                              /\ \A s \in Thread : InReady(u, s) => u.prio[u.cur] <= u.prio[s]
<1> DEFINE t == Head(k.timers)
           a == [k EXCEPT !.timers = Tail(@), !.tmo[t] = 0, !.act = @ \ {t},
                          !.err[t] = "ETIMEOUT"]
           b == Unlink(a, t)
           i == InsertReady(b, t)
           x == Schedule(i)
<1>0. k \in KState /\ k.timers \in Seq(Thread) /\ IsInjective(k.timers)
  BY DEF KInv, KState, OneList
<1>1. /\ t \in Thread /\ Timed(k, t) /\ Tail(k.timers) \in Seq(Thread)
      /\ Range(Tail(k.timers)) = Range(k.timers) \ {t} /\ IsInjective(Tail(k.timers))
  BY <1>0, RangeHeadTail DEF Timed
<1>2. x = TimerFire(k)
  BY DEF TimerFire
<1> HIDE DEF t
<1>3. /\ k.stat[t] = "SUSPEND" /\ k.mask[t] = {k.prio[t]} /\ k.prio[t] \in Prio
      /\ k.stat[idle] = "READY"
  <2>1. PrioMax - 1 \in Prio
    BY KernelAssumption DEF Prio
  <2>2. k.stat[t] = "SUSPEND" /\ k.mask[t] = {k.prio[t]} /\ k.prio[t] \in Prio
    BY <1>0, <1>1 DEF KInv, ListsAgree, KState
  <2> QED BY <2>1, <2>2, KernelAssumption DEF KInv, ListsAgree, BitsCover
<1>4. /\ a.timers = Tail(k.timers) /\ a.act = k.act \ {t}
      /\ a.stat = k.stat /\ a.prio = k.prio /\ a.mask = k.mask /\ a.list = k.list
      /\ a.group = k.group /\ a.cur = k.cur /\ a.lock = k.lock /\ a.isr = k.isr
  BY <1>0 DEF KState
<1>5. a \in KState
  <2>1. 0 \in Tick
    BY KernelAssumption DEF Tick
  <2> QED BY <1>0, <1>1, <2>1 DEF KState, Err
<1> HIDE DEF a
<1>6. KInv(a) /\ StaleBits(a) = StaleBits(k)
  <2>1. OneList(a)
    BY <1>1, <1>4 DEF KInv, OneList
  <2>2. ListsAgree(a)
    BY <1>1, <1>4 DEF KInv, ListsAgree, Linked, Timed
  <2>3. BitsCover(a) /\ StaleBits(a) = StaleBits(k)
    BY <1>4 DEF KInv, BitsCover, Linked, StaleBits
  <2> QED BY <1>5, <2>1, <2>2, <2>3 DEF KInv
<1>7. KInv(b) /\ Unlinked(b, t)
  BY <1>1, <1>3, <1>6, UnlinkInv
<1>8. /\ \A h \in ListHead : Range(b.list[h]) = Range(a.list[h]) \ {t}
      /\ b.stat = a.stat /\ b.prio = a.prio /\ b.mask = a.mask
      /\ b.timers = a.timers /\ b.cur = a.cur /\ b.lock = a.lock /\ b.isr = a.isr
  BY <1>1, <1>5, <1>6, UnlinkProps, UnlinkFrame DEF KInv
<1>9. StaleBits(b) \subseteq StaleBits(k)
  <2>1. \A p \in StaleBits(b) : p \in StaleBits(a) \/ Linked(a, t, Ready(p))
    BY <1>1, <1>5, <1>6, UnlinkStale DEF KInv
  <2>2. \A p \in StaleBits(b) : p \in Prio
    BY <1>7 DEF StaleBits, KInv, KState
  <2>3. \A p \in Prio : ~Linked(a, t, Ready(p))
    BY <1>1, <1>3, <1>4, <1>6 DEF KInv, ListsAgree
  <2> QED BY <2>1, <2>2, <2>3, <1>6
<1> HIDE DEF b
<1>10. ~Timed(b, t) /\ b.mask[t] = {b.prio[t]} /\ b.prio[t] = k.prio[t]
  BY <1>1, <1>3, <1>4, <1>8 DEF Timed
<1>11. /\ KInv(i) /\ i.stat = [b.stat EXCEPT ![t] = "READY"]
       /\ \A h \in ListHead : Range(i.list[h]) =
            IF h = Ready(b.prio[t]) THEN Range(b.list[h]) \cup {t} ELSE Range(b.list[h])
       /\ StaleBits(i) \subseteq StaleBits(b) \ {b.prio[t]}
  BY <1>1, <1>7, <1>10, InsertReadyInv
<1>12. /\ i.prio = b.prio /\ i.cur = b.cur /\ i.lock = b.lock
       /\ i.timers = b.timers /\ i.isr = b.isr
  BY <1>1, <1>7, InsertReadyFrame DEF KInv
<1> HIDE DEF i
<1>13. i.lock = k.lock /\ i.cur = k.cur /\ i.isr = k.isr /\ i.prio = k.prio
       /\ i.stat = [k.stat EXCEPT ![t] = "READY"]
       /\ Range(i.timers) = Range(k.timers) \ {t}
  BY <1>1, <1>4, <1>8, <1>11, <1>12
<1>14. StaleBits(i) \subseteq StaleBits(k) /\ (i.lock = 0 => StaleBits(i) = {})
  BY <1>9, <1>11, <1>13
<1>15. \A s \in Thread \ {t}, h \in ListHead : Linked(i, s, h) <=> Linked(k, s, h)
  <2> SUFFICES ASSUME NEW s \in Thread \ {t}, NEW h \in ListHead
               PROVE  s \in Range(i.list[h]) <=> s \in Range(k.list[h])
    BY DEF Linked
  <2>1. s \in Range(i.list[h]) <=> s \in Range(b.list[h])
    BY <1>11
  <2>2. s \in Range(b.list[h]) <=> s \in Range(a.list[h])
    BY <1>8
  <2> QED BY <2>1, <2>2, <1>4
<1>16. Linked(i, t, Ready(k.prio[t]))
  BY <1>3, <1>10, <1>11, HeadFacts DEF Linked
<1>17. /\ KInv(x) /\ StaleBits(x) = StaleBits(i)
       /\ x.stat = i.stat /\ x.prio = i.prio /\ x.list = i.list
       /\ x.timers = i.timers /\ x.lock = i.lock /\ x.isr = i.isr
       /\ i.lock # 0 => x.cur = i.cur
       /\ i.lock = 0 => /\ Linked(x, x.cur, Ready(x.prio[x.cur]))
                        /\ \A s \in Thread : InReady(x, s) => x.prio[x.cur] <= x.prio[s]
  BY <1>11, <1>14, ScheduleInv
<1> HIDE DEF x
<1>18. \A s \in Thread, h \in ListHead : Linked(x, s, h) <=> Linked(i, s, h)
  BY <1>17 DEF Linked
<1>19. Linked(x, t, Ready(x.prio[t]))
  BY <1>1, <1>3, <1>13, <1>16, <1>17, <1>18, HeadFacts
<1>20. t # idle
  BY <1>3
<1>21. \A s \in Thread \ {t}, h \in ListHead : Linked(x, s, h) <=> Linked(k, s, h)
  BY <1>15, <1>18
<1> DEFINE y == TimerFire(k)
<1>22. y = x
  BY <1>2
<1> HIDE DEF y
<1>23. /\ KInv(y) /\ StaleBits(y) \subseteq StaleBits(k)
       /\ y.stat = [k.stat EXCEPT ![t] = "READY"] /\ y.prio = k.prio
       /\ Range(y.timers) = Range(k.timers) \ {t}
       /\ y.lock = k.lock /\ y.isr = k.isr
       /\ Linked(y, t, Ready(y.prio[t]))
       /\ \A s \in Thread \ {t}, h \in ListHead : Linked(y, s, h) <=> Linked(k, s, h)
       /\ k.lock # 0 => y.cur = k.cur
       /\ k.lock = 0 => /\ Linked(y, y.cur, Ready(y.prio[y.cur]))
                        /\ \A s \in Thread : InReady(y, s) => y.prio[y.cur] <= y.prio[s]
  BY <1>13, <1>14, <1>17, <1>19, <1>21, <1>22
<1> QED BY <1>1, <1>20, <1>23 DEF t, y

\* rt_tick_increase up to rt_timer_check: at most a yield of the running thread.
LEMMA TickIncreaseInv ==
  ASSUME NEW k, KInv(k), k.lock = 0 => StaleBits(k) = {},
         k.stat[k.cur] = "READY" => Linked(k, k.cur, Ready(k.prio[k.cur]))
  PROVE  LET u == TickIncrease(k)
         IN  /\ KInv(u) /\ StaleBits(u) = StaleBits(k)
             /\ u.stat = k.stat /\ u.prio = k.prio /\ u.timers = k.timers
             /\ u.lock = k.lock
             /\ \A h \in ListHead : Range(u.list[h]) = Range(k.list[h])
             /\ u.cur # k.cur =>
                  /\ k.lock = 0
                  /\ Linked(u, u.cur, Ready(u.prio[u.cur]))
                  /\ \A s \in Thread : InReady(u, s) => u.prio[u.cur] <= u.prio[s]
<1> DEFINE t == k.cur
           n == IF k.slice[t] = 1 THEN InitTick[t] ELSE k.slice[t] - 1
           a == [k EXCEPT !.tick = (k.tick + 1) % TickMod, !.isr = TRUE, !.slice[t] = n]
           y == Yield(a)
           u == TickIncrease(k)
<1>0. k \in KState /\ t \in Thread /\ k.slice[t] \in Nat \ {0}
  BY DEF KInv, KState
<1>1. u = IF k.slice[t] = 1 THEN y ELSE a
  BY DEF TickIncrease
<1>2. n \in Nat \ {0}
  BY <1>0, KernelAssumption
<1>3. (k.tick + 1) % TickMod \in Tick
  <2>1. k.tick \in Tick
    BY <1>0 DEF KState
  <2>2. k.tick + 1 \in Nat
    BY <2>1, KernelAssumption DEF Tick
  <2> QED BY <2>2, TickRange
<1> HIDE DEF n
<1>4. /\ a.stat = k.stat /\ a.prio = k.prio /\ a.mask = k.mask /\ a.list = k.list
      /\ a.group = k.group /\ a.timers = k.timers /\ a.act = k.act
      /\ a.cur = k.cur /\ a.lock = k.lock
  BY <1>0 DEF KState
<1>5. a \in KState
  BY <1>0, <1>2, <1>3 DEF KState
<1> HIDE DEF a
<1>6. KInv(a) /\ StaleBits(a) = StaleBits(k)
  BY <1>4, <1>5, KInvFrame
<1>7. /\ a.lock = 0 => StaleBits(a) = {}
      /\ a.stat[a.cur] = "READY" => Linked(a, a.cur, Ready(a.prio[a.cur]))
  BY <1>4, <1>6 DEF Linked
<1>8. /\ KInv(y) /\ StaleBits(y) = StaleBits(a)
      /\ y.stat = a.stat /\ y.prio = a.prio /\ y.timers = a.timers
      /\ y.lock = a.lock /\ y.isr = a.isr
      /\ \A h \in ListHead : Range(y.list[h]) = Range(a.list[h])
      /\ y.cur # a.cur =>
           /\ a.lock = 0
           /\ Linked(y, y.cur, Ready(y.prio[y.cur]))
           /\ \A s \in Thread : InReady(y, s) => y.prio[y.cur] <= y.prio[s]
  BY <1>6, <1>7, YieldInv
<1> HIDE DEF y, u
<1>9. CASE k.slice[t] = 1
  BY <1>1, <1>9, <1>4, <1>6, <1>8 DEF u
<1>10. CASE k.slice[t] # 1
  BY <1>1, <1>10, <1>4, <1>6 DEF u
<1> QED BY <1>9, <1>10
-----------------------------------------------------------------------------
(* The timer list *)

\* The ticks until the timer of each thread is due, counted from the tick at
\* which rt_timer_check last returned.
DueIn(k) ==
  [t \in Thread |-> Since(k.tmo[t], IF k.isr THEN k.tick - 1 ELSE k.tick)]

\* The timers are in the order in which they are due, the last within half the
\* range of rt_tick_t.
Due(k) ==
  /\ Sorted(k.timers, DueIn(k))
  /\ \A t \in Thread : Timed(k, t) => DueIn(k)[t] < Half

\* the order of the integers behind the tick subtractions, across the wrap
LEMMA TickArithmetic ==
  ASSUME NEW x \in Tick, NEW now \in Tick
  PROVE  /\ Since(x, now) \in Tick
         /\ Since(x, now - 1) \in Tick
         /\ Since(x, ((now + 1) % TickMod) - 1) = Since(x, now)
         /\ \A d \in 0 .. Half - 1 :
              /\ Since((now + d) % TickMod, now) = d
              /\ Since(x, now) < Half =>
                   (Since(x, (now + d) % TickMod) \in 1 .. Half - 1 <=> d < Since(x, now))
         /\ Since(x, now - 1) < Half =>
              /\ Since(now, x) < Half <=> Since(x, now - 1) <= 1
              /\ Since(x, now - 1) > 1 => Since(x, now) = Since(x, now - 1) - 1
<1>0. /\ TickMod \in Nat /\ TickMod >= 5 /\ x \in 0 .. TickMod - 1 /\ now \in 0 .. TickMod - 1
      /\ Half \in Nat /\ 2 * Half <= TickMod - 1 /\ Half >= 2
  BY KernelAssumption DEF Half, Tick
<1>1. \A n \in 0 .. TickMod - 1 : n % TickMod = n
  BY <1>0
<1>2. \A n \in Int : -TickMod <= n /\ n < 0 => n % TickMod = n + TickMod
  BY <1>0
<1>3. \A n \in Int : TickMod <= n /\ n < 2 * TickMod => n % TickMod = n - TickMod
  BY <1>0
<1> HIDE DEF Half
<1>4. \A a, b \in Int : a \in 0 .. TickMod - 1 /\ b \in -1 .. TickMod - 1 =>
        Since(a, b) = IF a < b THEN a - b + TickMod
                      ELSE IF a - b < TickMod THEN a - b ELSE a - b - TickMod
  <2> SUFFICES ASSUME NEW a \in Int, NEW b \in Int,
                      a \in 0 .. TickMod - 1, b \in -1 .. TickMod - 1
               PROVE  Since(a, b) = IF a < b THEN a - b + TickMod
                                    ELSE IF a - b < TickMod THEN a - b ELSE a - b - TickMod
    OBVIOUS
  <2>1. CASE a < b
    <3>1. a - b \in Int /\ -TickMod <= a - b /\ a - b < 0
      BY <2>1, <1>0
    <3>2. (a - b) % TickMod = a - b + TickMod
      BY <3>1, <1>2
    <3> QED BY <2>1, <3>2 DEF Since
  <2>2. CASE a >= b /\ a - b < TickMod
    <3>1. a - b \in 0 .. TickMod - 1
      BY <2>2, <1>0
    <3>2. (a - b) % TickMod = a - b
      BY <3>1, <1>1
    <3> QED BY <2>2, <3>2, <1>0 DEF Since
  <2>3. CASE a - b >= TickMod
    <3>1. a - b \in Int /\ TickMod <= a - b /\ a - b < 2 * TickMod
      BY <2>3, <1>0
    <3>2. (a - b) % TickMod = a - b - TickMod
      BY <3>1, <1>3
    <3> QED BY <2>3, <3>2, <1>0 DEF Since
  <2> QED BY <2>1, <2>2, <2>3, <1>0
<1>5. \A d \in 0 .. Half - 1 :
        (now + d) % TickMod = IF now + d < TickMod THEN now + d ELSE now + d - TickMod
  <2> SUFFICES ASSUME NEW d \in 0 .. Half - 1
               PROVE (now + d) % TickMod = IF now + d < TickMod THEN now + d ELSE now + d - TickMod
    OBVIOUS
  <2>1. CASE now + d < TickMod
    <3>1. now + d \in 0 .. TickMod - 1
      BY <1>0, <2>1
    <3> QED BY <3>1, <1>1, <2>1
  <2>2. CASE now + d >= TickMod
    <3>1. now + d \in Int /\ TickMod <= now + d /\ now + d < 2 * TickMod
      BY <1>0, <2>2
    <3> QED BY <3>1, <1>3, <2>2, <1>0
  <2> QED BY <2>1, <2>2, <1>0
<1>6. (now + 1) % TickMod = IF now + 1 < TickMod THEN now + 1 ELSE 0
  <2>1. 1 \in 0 .. Half - 1
    BY <1>0
  <2>2. (now + 1) % TickMod = IF now + 1 < TickMod THEN now + 1 ELSE now + 1 - TickMod
    BY <1>5, <2>1
  <2> QED BY <2>2, <1>0
<1>7. /\ Since(x, now) = IF x < now THEN x - now + TickMod ELSE x - now
      /\ Since(now, x) = IF now < x THEN now - x + TickMod ELSE now - x
  BY <1>0, <1>4
<1>8. Since(x, now - 1) = IF x < now - 1 THEN x - now + 1 + TickMod
                          ELSE IF x - now + 1 < TickMod THEN x - now + 1 ELSE 0
  <2>1. now - 1 \in Int /\ now - 1 \in -1 .. TickMod - 1 /\ x \in Int
    BY <1>0
  <2>2. Since(x, now - 1) = IF x < now - 1 THEN x - (now - 1) + TickMod
                      ELSE IF x - (now - 1) < TickMod THEN x - (now - 1) ELSE x - (now - 1) - TickMod
    BY <1>0, <1>4, <2>1
  <2> QED BY <2>2, <1>0
<1>9. Since(x, ((now + 1) % TickMod) - 1) = Since(x, now)
  <2>1. CASE now + 1 < TickMod
    <3>1. ((now + 1) % TickMod) - 1 = now
      BY <1>6, <2>1, <1>0
    <3> QED BY <3>1
  <2>2. CASE now + 1 = TickMod
    <3>1. ((now + 1) % TickMod) - 1 = -1 /\ now = TickMod - 1
      BY <1>6, <2>2, <1>0
    <3>2. x \in Int /\ -1 \in Int /\ -1 \in -1 .. TickMod - 1
      BY <1>0
    <3>3. Since(x, -1) = IF x < -1 THEN x - (-1) + TickMod
                         ELSE IF x - (-1) < TickMod THEN x - (-1) ELSE x - (-1) - TickMod
      BY <1>0, <1>4, <3>2
    <3>4. Since(x, -1) = Since(x, now)
      BY <3>1, <3>3, <1>7, <1>0
    <3> QED BY <3>1, <3>4
  <2> QED BY <2>1, <2>2, <1>0
<1>10. ASSUME NEW d \in 0 .. Half - 1
       PROVE  /\ Since((now + d) % TickMod, now) = d
              /\ Since(x, now) < Half =>
                   (Since(x, (now + d) % TickMod) \in 1 .. Half - 1 <=> d < Since(x, now))
  <2> DEFINE at == (now + d) % TickMod
  <2>1. at = IF now + d < TickMod THEN now + d ELSE now + d - TickMod
    BY <1>5
  <2> HIDE DEF at
  <2>2. at \in 0 .. TickMod - 1
    BY <2>1, <1>0
  <2>3. /\ Since(at, now) = IF at < now THEN at - now + TickMod ELSE at - now
        /\ Since(x, at) = IF x < at THEN x - at + TickMod ELSE x - at
    BY <1>0, <1>4, <2>2
  <2>4. Since(at, now) = d
    BY <1>0, <2>1, <2>3
  <2>5. Since(x, now) < Half => (Since(x, at) \in 1 .. Half - 1 <=> d < Since(x, now))
    BY <1>0, <1>7, <2>1, <2>2, <2>3
  <2> QED BY <2>4, <2>5 DEF at
<1>11. Since(x, now) \in Tick /\ Since(x, now - 1) \in Tick
  BY <1>0, <1>7, <1>8 DEF Tick
<1>12. Since(x, now - 1) < Half =>
         /\ Since(now, x) < Half <=> Since(x, now - 1) <= 1
         /\ Since(x, now - 1) > 1 => Since(x, now) = Since(x, now - 1) - 1
  BY <1>0, <1>7, <1>8
<1> QED BY <1>9, <1>10, <1>11, <1>12

\* What the order means outside the tick interrupt.
LEMMA DueMeans ==
  ASSUME NEW k \in KState, Due(k), ~k.isr, NEW i \in DOMAIN k.timers, NEW j \in DOMAIN k.timers,
         i <= j
  PROVE  /\ Since(k.tmo[k.timers[i]], k.tick) <= Since(k.tmo[k.timers[j]], k.tick)
         /\ Since(k.tmo[k.timers[j]], k.tick) < Half
<1>1. k.timers \in Seq(Thread) /\ k.tmo \in [Thread -> Tick] /\ k.tick \in Tick
  BY DEF KState
<1>2. k.timers[i] \in Thread /\ k.timers[j] \in Thread /\ Timed(k, k.timers[j])
  BY <1>1 DEF Timed, Range
<1>3. \A t \in Thread : DueIn(k)[t] = Since(k.tmo[t], k.tick) /\ DueIn(k)[t] \in Tick
  BY <1>1, TickArithmetic DEF DueIn
<1>4. i < j => DueIn(k)[k.timers[i]] <= DueIn(k)[k.timers[j]]
  BY DEF Due, Sorted
<1>5. i \in Nat /\ j \in Nat
  BY <1>1
<1>6. DueIn(k)[k.timers[j]] < Half
  BY <1>2 DEF Due
<1>7. DueIn(k)[k.timers[i]] <= DueIn(k)[k.timers[j]]
  <2>1. CASE i < j
    BY <2>1, <1>4
  <2>2. CASE i = j
    <3>1. DueIn(k)[k.timers[i]] \in Int
      BY <1>2, <1>3 DEF Tick
    <3> QED BY <2>2, <3>1
  <2> QED BY <2>1, <2>2, <1>5
<1> QED BY <1>2, <1>3, <1>6, <1>7

\* The order depends on the list and the ticks of the timers in it only.
LEMMA SortedSame ==
  ASSUME NEW s, NEW p, NEW q, Sorted(s, p), \A t \in Range(s) : p[t] = q[t]
  PROVE  Sorted(s, q)
<1>1. \A i \in DOMAIN s : s[i] \in Range(s)
  BY DEF Range
<1> QED BY <1>1 DEF Sorted

LEMMA DueSame ==
  ASSUME NEW k \in KState, NEW u \in KState, Due(k),
         u.timers = k.timers, u.tmo = k.tmo, u.tick = k.tick, u.isr = k.isr
  PROVE  Due(u)
<1>1. DueIn(u) = DueIn(k)
  BY DEF DueIn
<1> QED BY <1>1 DEF Due, Timed

\* A timer that leaves the list.
LEMMA DueRemove ==
  ASSUME NEW k \in KState, NEW u \in KState, Due(k), IsInjective(k.timers), NEW t \in Thread,
         u.timers = RemoveFirst(k.timers, t), \A s \in Thread \ {t} : u.tmo[s] = k.tmo[s],
         u.tick = k.tick, u.isr = k.isr
  PROVE  Due(u)
<1>1. k.timers \in Seq(Thread)
  BY DEF KState
<1>2. Range(u.timers) = Range(k.timers) \ {t} /\ Range(u.timers) \subseteq Thread
  <2>1. Range(u.timers) = Range(k.timers) \ {t}
    BY <1>1, RangeRemoveFirst
  <2>2. Range(k.timers) \subseteq Thread
    BY <1>1 DEF Range
  <2> QED BY <2>1, <2>2
<1>3. \A s \in Thread \ {t} : DueIn(u)[s] = DueIn(k)[s]
  BY DEF DueIn
<1>4. Sorted(u.timers, DueIn(k))
  BY <1>1, SortedRemoveFirst DEF Due
<1>5. Sorted(u.timers, DueIn(u))
  <2>1. \A s \in Range(u.timers) : DueIn(k)[s] = DueIn(u)[s]
    BY <1>2, <1>3
  <2> HIDE DEF DueIn, Sorted
  <2> QED BY <1>4, <2>1, SortedSame
<1>6. \A s \in Thread : Timed(u, s) => DueIn(u)[s] < Half
  <2> SUFFICES ASSUME NEW s \in Thread, Timed(u, s) PROVE DueIn(u)[s] < Half
    OBVIOUS
  <2>1. s # t /\ Timed(k, s)
    BY <1>2 DEF Timed
  <2> QED BY <1>3, <2>1 DEF Due
<1> QED BY <1>5, <1>6 DEF Due

\* rt_timer_start: the place it inserts at keeps the order, wherever the tick
\* is in its range.
LEMMA DueStart ==
  ASSUME NEW k, KInv(k), Due(k), ~k.isr, NEW t \in Thread, k.stat[t] = "SUSPEND",
         NEW d \in 0 .. Half - 1
  PROVE  Due(TimerStart(k, t, d))
<1> DEFINE v  == TimerRemove(k, t)
           at == (k.tick + d) % TickMod
           n  == TimerPos(v, at)
           u  == TimerStart(k, t, d)
<1>0. /\ k \in KState /\ k.timers \in Seq(Thread) /\ IsInjective(k.timers)
      /\ k.tick \in Tick /\ k.tmo \in [Thread -> Tick] /\ Half \in Nat
  BY KernelAssumption DEF KInv, KState, OneList, Half
<1>1. v.timers = RemoveFirst(k.timers, t) /\ v.tmo = [k.tmo EXCEPT ![t] = 0]
  BY <1>0 DEF TimerRemove, KState
<1>2. /\ v.timers \in Seq(Thread) /\ IsInjective(v.timers)
      /\ Range(v.timers) = Range(k.timers) \ {t}
  BY <1>0, <1>1, RangeRemoveFirst
<1>3. /\ u.timers = InsertAt(v.timers, n, t) /\ u.tmo = [k.tmo EXCEPT ![t] = at]
      /\ u.tick = k.tick /\ u.isr = k.isr
  <2>1. /\ u.timers = InsertAt(v.timers, n, t) /\ u.tmo = [v.tmo EXCEPT ![t] = at]
        /\ u.tick = k.tick /\ u.isr = k.isr
    BY <1>0 DEF TimerStart, TimerRemove, KState
  <2>2. [v.tmo EXCEPT ![t] = at] = [k.tmo EXCEPT ![t] = at]
    BY <1>0, <1>1
  <2> QED BY <2>1, <2>2
<1> DEFINE later == { i \in DOMAIN v.timers :
                        Since(v.tmo[v.timers[i]], at) \in 1 .. Half - 1 }
<1>4. n = IF later = {} THEN Len(v.timers) + 1 ELSE Min(later)
  BY DEF TimerPos
<1>5. later \in SUBSET Nat /\ later \subseteq 1 .. Len(v.timers)
  BY <1>2
<1> HIDE DEF v, u
<1>6. \A s \in Thread : /\ DueIn(k)[s] = Since(k.tmo[s], k.tick) /\ DueIn(k)[s] \in Tick
                        /\ DueIn(u)[s] = IF s = t THEN d ELSE DueIn(k)[s]
  <2> SUFFICES ASSUME NEW s \in Thread
               PROVE  /\ DueIn(k)[s] = Since(k.tmo[s], k.tick) /\ DueIn(k)[s] \in Tick
                      /\ DueIn(u)[s] = IF s = t THEN d ELSE DueIn(k)[s]
    OBVIOUS
  <2>1. DueIn(k)[s] = Since(k.tmo[s], k.tick) /\ DueIn(u)[s] = Since(u.tmo[s], k.tick)
    BY <1>3 DEF DueIn
  <2>2. u.tmo[s] = IF s = t THEN at ELSE k.tmo[s]
    BY <1>0, <1>3
  <2>3. Since(at, k.tick) = d /\ Since(k.tmo[s], k.tick) \in Tick
    BY <1>0, TickArithmetic
  <2> HIDE DEF at
  <2> QED BY <2>1, <2>2, <2>3
<1>7. \A i \in 1 .. Len(v.timers) :
        /\ v.timers[i] \in Thread /\ v.timers[i] # t /\ Timed(k, v.timers[i])
        /\ i \in later <=> d < DueIn(k)[v.timers[i]]
  <2> SUFFICES ASSUME NEW i \in 1 .. Len(v.timers)
               PROVE  /\ v.timers[i] \in Thread /\ v.timers[i] # t /\ Timed(k, v.timers[i])
                      /\ i \in later <=> d < DueIn(k)[v.timers[i]]
    OBVIOUS
  <2>0. v.timers[i] \in Range(v.timers) /\ v.timers[i] \in Thread
    BY <1>2 DEF Range
  <2>1. v.timers[i] \in Thread /\ v.timers[i] # t /\ Timed(k, v.timers[i])
    BY <1>2, <2>0 DEF Timed
  <2>2. DueIn(k)[v.timers[i]] < Half
    BY <2>1 DEF Due
  <2>3. v.tmo[v.timers[i]] = k.tmo[v.timers[i]]
    BY <1>0, <1>1, <2>1
  <2>4. k.tmo[v.timers[i]] \in Tick
    BY <1>0, <2>1
  <2>5. Since(k.tmo[v.timers[i]], at) \in 1 .. Half - 1 <=> d < DueIn(k)[v.timers[i]]
    <3> DEFINE x == k.tmo[v.timers[i]]
    <3>1. DueIn(k)[v.timers[i]] = Since(x, k.tick)
      BY <1>6, <2>1
    <3>2. Since(x, k.tick) < Half =>
            (Since(x, (k.tick + d) % TickMod) \in 1 .. Half - 1 <=> d < Since(x, k.tick))
      <4> HIDE DEF x
      <4>1. x \in Tick /\ k.tick \in Tick
        BY <1>0, <2>4 DEF x
      <4> QED BY <4>1, TickArithmetic
    <3> QED BY <2>2, <3>1, <3>2
  <2>6. i \in DOMAIN v.timers
    BY <1>2
  <2> QED BY <2>1, <2>3, <2>5, <2>6
<1> HIDE DEF n, at, later
<1>8. /\ n \in 1 .. Len(v.timers) + 1
      /\ \A i \in 1 .. Len(v.timers) : i < n => i \notin later
      /\ n \in 1 .. Len(v.timers) => n \in later
  <2>1. CASE later = {}
    BY <1>2, <1>4, <2>1
  <2>2. CASE later # {}
    <3>1. Min(later) \in later /\ \A y \in later : Min(later) <= y
      BY <1>5, <2>2, MinOfNats
    <3>2. n \in later /\ \A y \in later : n <= y
      BY <1>4, <2>2, <3>1
    <3> QED BY <1>2, <1>5, <3>2
  <2> QED BY <2>1, <2>2
<1> DEFINE pr == DueIn(u)
<1>9. pr \in [Thread -> Int]
  <2>1. DOMAIN pr = Thread /\ pr = [s \in Thread |-> pr[s]]
    BY DEF DueIn
  <2>2. \A s \in Thread : pr[s] \in Int
    BY <1>6 DEF Tick
  <2> HIDE DEF pr
  <2> QED BY <2>1, <2>2
<1>10. Sorted(v.timers, DueIn(k))
  BY <1>0, <1>1, SortedRemoveFirst DEF Due
<1>11. Sorted(v.timers, pr)
  <2>1. \A s \in Range(v.timers) : DueIn(k)[s] = pr[s]
    <3>1. \A s \in Range(v.timers) : s \in Thread /\ s # t
      <4>1. Range(v.timers) \subseteq Thread
        BY <1>2 DEF Range
      <4> QED BY <4>1, <1>2
    <3> QED BY <3>1, <1>6
  <2> HIDE DEF pr, DueIn, Sorted
  <2> QED BY <1>10, <2>1, SortedSame
<1>12. /\ \A i \in 1 .. Len(v.timers) : i < n => pr[v.timers[i]] <= pr[t]
       /\ \A i \in 1 .. Len(v.timers) : i >= n => pr[t] <= pr[v.timers[i]]
  <2>1. pr[t] = d
    BY <1>6
  <2>2. \A i \in 1 .. Len(v.timers) : pr[v.timers[i]] = DueIn(k)[v.timers[i]] /\ pr[v.timers[i]] \in Int
    BY <1>6, <1>7 DEF Tick
  <2>3. \A i, j \in 1 .. Len(v.timers) : i < j => pr[v.timers[i]] <= pr[v.timers[j]]
    BY <1>2, <1>11 DEF Sorted
  <2> HIDE DEF pr
  <2>4. ASSUME NEW i \in 1 .. Len(v.timers), i < n PROVE pr[v.timers[i]] <= pr[t]
    BY <1>7, <1>8, <2>1, <2>2, <2>4
  <2>5. ASSUME NEW i \in 1 .. Len(v.timers), i >= n PROVE pr[t] <= pr[v.timers[i]]
    <3>1. n \in 1 .. Len(v.timers) /\ n \in later
      BY <1>2, <1>8, <2>5
    <3>2. d < pr[v.timers[n]]
      BY <3>1, <1>7, <2>2
    <3>3. n < i \/ n = i
      BY <1>2, <3>1, <2>5
    <3> QED BY <3>1, <3>2, <3>3, <2>1, <2>2, <2>3
  <2> QED BY <2>4, <2>5
<1>13. Sorted(u.timers, pr)
  <2> HIDE DEF pr
  <2>1. Sorted(InsertAt(v.timers, n, t), pr)
    BY <1>2, <1>8, <1>9, <1>11, <1>12, SortedInsertAt
  <2> QED BY <2>1, <1>3
<1>14. Range(u.timers) = Range(k.timers) \cup {t}
  <2>1. d \in Nat
    OBVIOUS
  <2> QED BY <2>1, TimerStartInv DEF u
<1>15. \A s \in Thread : Timed(u, s) => pr[s] < Half
  <2> SUFFICES ASSUME NEW s \in Thread, Timed(u, s) PROVE pr[s] < Half
    OBVIOUS
  <2>1. CASE s = t
    BY <2>1, <1>6, <1>0
  <2>2. CASE s # t
    BY <2>2, <1>6, <1>14 DEF Timed, Due
  <2> QED BY <2>1, <2>2
<1> QED BY <1>13, <1>15 DEF Due, u

\* The tick: until rt_timer_check returns, ticks count from the one before.
LEMMA DueTick ==
  ASSUME NEW k \in KState, NEW u \in KState, Due(k), ~k.isr,
         u.timers = k.timers, u.tmo = k.tmo, u.tick = (k.tick + 1) % TickMod, u.isr
  PROVE  Due(u)
<1>1. \A t \in Thread : DueIn(u)[t] = DueIn(k)[t]
  <2>1. k.tmo \in [Thread -> Tick] /\ k.tick \in Tick
    BY DEF KState
  <2>2. ASSUME NEW t \in Thread
        PROVE  Since(k.tmo[t], ((k.tick + 1) % TickMod) - 1) = Since(k.tmo[t], k.tick)
    <3> DEFINE x == k.tmo[t]
               now == k.tick
    <3>1. x \in Tick /\ now \in Tick
      BY <2>1
    <3> HIDE DEF x, now
    <3>2. Since(x, ((now + 1) % TickMod) - 1) = Since(x, now)
      BY <3>1, TickArithmetic
    <3> QED BY <3>2 DEF x, now
  <2> QED BY <2>2 DEF DueIn
<1>2. DueIn(u) = DueIn(k)
  BY <1>1 DEF DueIn
<1> QED BY <1>2 DEF Due, Timed

\* A timer that fires.
LEMMA DueFire ==
  ASSUME NEW k \in KState, NEW u \in KState, Due(k), k.timers # <<>>, IsInjective(k.timers),
         u.timers = Tail(k.timers), \A s \in Thread \ {Head(k.timers)} : u.tmo[s] = k.tmo[s],
         u.tick = k.tick, u.isr = k.isr
  PROVE  Due(u)
<1> DEFINE t == Head(k.timers)
<1>1. k.timers \in Seq(Thread)
  BY DEF KState
<1>2. Range(u.timers) = Range(k.timers) \ {t} /\ Range(u.timers) \subseteq Thread /\ t \in Thread
  <2>1. Range(u.timers) = Range(k.timers) \ {t} /\ t \in Thread
    BY <1>1, RangeHeadTail
  <2>2. Range(k.timers) \subseteq Thread
    BY <1>1 DEF Range
  <2> QED BY <2>1, <2>2
<1>3. \A s \in Thread \ {t} : DueIn(u)[s] = DueIn(k)[s]
  BY DEF DueIn
<1>4. Sorted(u.timers, DueIn(k))
  <2>1. \A i, j \in 1 .. Len(k.timers) : i < j => DueIn(k)[k.timers[i]] <= DueIn(k)[k.timers[j]]
    BY <1>1 DEF Due, Sorted
  <2>2. /\ Tail(k.timers) \in Seq(Thread) /\ DOMAIN Tail(k.timers) = 1 .. Len(k.timers) - 1
        /\ \A i \in 1 .. Len(k.timers) - 1 : Tail(k.timers)[i] = k.timers[i + 1]
    BY <1>1
  <2> HIDE DEF DueIn
  <2>3. ASSUME NEW i \in 1 .. Len(k.timers) - 1, NEW j \in 1 .. Len(k.timers) - 1, i < j
        PROVE  DueIn(k)[Tail(k.timers)[i]] <= DueIn(k)[Tail(k.timers)[j]]
    <3>1. i + 1 \in 1 .. Len(k.timers) /\ j + 1 \in 1 .. Len(k.timers) /\ i + 1 < j + 1
      BY <1>1, <2>3
    <3> QED BY <2>1, <2>2, <3>1
  <2> QED BY <2>2, <2>3 DEF Sorted
<1>5. Sorted(u.timers, DueIn(u))
  <2>1. \A s \in Range(u.timers) : DueIn(k)[s] = DueIn(u)[s]
    BY <1>2, <1>3
  <2> HIDE DEF DueIn, Sorted
  <2> QED BY <1>4, <2>1, SortedSame
<1>6. \A s \in Thread : Timed(u, s) => DueIn(u)[s] < Half
  <2> SUFFICES ASSUME NEW s \in Thread, Timed(u, s) PROVE DueIn(u)[s] < Half
    OBVIOUS
  <2>1. s # t /\ Timed(k, s)
    BY <1>2 DEF Timed
  <2> QED BY <1>3, <2>1 DEF Due
<1> QED BY <1>5, <1>6 DEF Due

\* rt_timer_check returns when the first timer is not due: no other is.
LEMMA DueLeave ==
  ASSUME NEW k \in KState, NEW u \in KState, Due(k), k.isr, ~Expired(k),
         u.timers = k.timers, u.tmo = k.tmo, u.tick = k.tick, ~u.isr
  PROVE  Due(u)
<1>1. k.timers \in Seq(Thread) /\ k.tmo \in [Thread -> Tick] /\ k.tick \in Tick
  BY DEF KState
<1>2. CASE k.timers = <<>>
  BY <1>2 DEF Due, Sorted, Timed, Range
<1>3. CASE k.timers # <<>>
  <2>1. \A t \in Thread : /\ DueIn(k)[t] = Since(k.tmo[t], k.tick - 1) /\ DueIn(k)[t] \in Tick
                          /\ DueIn(u)[t] = Since(k.tmo[t], k.tick)
    BY <1>1, TickArithmetic DEF DueIn
  <2>2. 1 \in DOMAIN k.timers /\ Head(k.timers) = k.timers[1] /\ k.timers[1] \in Thread
    BY <1>1, <1>3
  <2>3. \A i \in DOMAIN k.timers : /\ k.timers[i] \in Thread /\ Timed(k, k.timers[i])
                                   /\ DueIn(k)[k.timers[i]] < Half
    BY <1>1 DEF Timed, Range, Due
  <2>4. DueIn(k)[k.timers[1]] > 1
    <3>1. ~(Since(k.tick, k.tmo[k.timers[1]]) < Half)
      BY <1>3, <2>2 DEF Expired
    <3>2. ~(DueIn(k)[k.timers[1]] <= 1)
      <4> DEFINE x == k.tmo[k.timers[1]]
      <4>1. DueIn(k)[k.timers[1]] = Since(x, k.tick - 1) /\ Since(x, k.tick - 1) < Half
        BY <2>1, <2>2, <2>3
      <4>2. x \in Tick /\ k.tick \in Tick
        BY <1>1, <2>2
      <4>3. Since(x, k.tick - 1) < Half =>
              (Since(k.tick, x) < Half <=> Since(x, k.tick - 1) <= 1)
        <5> HIDE DEF x
        <5> QED BY <4>2, TickArithmetic
      <4> QED BY <3>1, <4>1, <4>3
    <3> QED BY <2>1, <2>2, <3>2 DEF Tick
  <2>5. \A i \in DOMAIN k.timers :
          DueIn(k)[k.timers[i]] > 1 /\ DueIn(u)[k.timers[i]] = DueIn(k)[k.timers[i]] - 1
    <3> SUFFICES ASSUME NEW i \in DOMAIN k.timers
                 PROVE  DueIn(k)[k.timers[i]] > 1 /\ DueIn(u)[k.timers[i]] = DueIn(k)[k.timers[i]] - 1
      OBVIOUS
    <3>1. 1 < i => DueIn(k)[k.timers[1]] <= DueIn(k)[k.timers[i]]
      BY <2>2 DEF Due, Sorted
    <3>2. DueIn(k)[k.timers[1]] \in Int /\ DueIn(k)[k.timers[i]] \in Int
      BY <2>1, <2>2, <2>3 DEF Tick
    <3>3. i = 1 \/ 1 < i
      BY <1>1
    <3>4. DueIn(k)[k.timers[i]] > 1
      BY <2>4, <3>1, <3>2, <3>3
    <3> DEFINE x == k.tmo[k.timers[i]]
    <3>5. /\ DueIn(k)[k.timers[i]] = Since(x, k.tick - 1) /\ Since(x, k.tick - 1) < Half
          /\ DueIn(u)[k.timers[i]] = Since(x, k.tick)
      BY <2>1, <2>3
    <3>6. x \in Tick /\ k.tick \in Tick
      BY <1>1, <2>3
    <3>7. Since(x, k.tick - 1) < Half /\ Since(x, k.tick - 1) > 1 =>
            Since(x, k.tick) = Since(x, k.tick - 1) - 1
      <4> HIDE DEF x
      <4> QED BY <3>6, TickArithmetic
    <3> QED BY <3>4, <3>5, <3>7
  <2>6. Sorted(u.timers, DueIn(u))
    <3> SUFFICES ASSUME NEW i \in DOMAIN k.timers, NEW j \in DOMAIN k.timers, i < j
                 PROVE  DueIn(u)[k.timers[i]] <= DueIn(u)[k.timers[j]]
      BY DEF Sorted
    <3>1. DueIn(k)[k.timers[i]] <= DueIn(k)[k.timers[j]]
      BY DEF Due, Sorted
    <3>2. DueIn(k)[k.timers[i]] \in Int /\ DueIn(k)[k.timers[j]] \in Int
      BY <2>1, <2>3 DEF Tick
    <3> QED BY <3>1, <3>2, <2>5
  <2>7. ASSUME NEW t \in Thread, Timed(u, t) PROVE DueIn(u)[t] < Half
    <3>1. PICK i \in DOMAIN k.timers : t = k.timers[i]
      BY <2>7 DEF Timed, Range
    <3>2. DueIn(k)[t] \in Int /\ Half \in Int
      BY <2>1, KernelAssumption DEF Tick, Half
    <3> QED BY <3>1, <3>2, <2>3, <2>5
  <2> QED BY <2>6, <2>7 DEF Due
<1> QED BY <1>2, <1>3
=============================================================================
