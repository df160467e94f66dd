----------------------------- MODULE Semaphore -----------------------------
(***************************************************************************)
(* What a counting semaphore promises its users.  A token is in avail, or  *)
(* has been granted to a caller; a caller that waits is either granted a   *)
(* token or refused, and what it has been told is what its call returns.   *)
(***************************************************************************)
EXTENDS Integers

CONSTANTS Thread, Obj, ValueMod

VARIABLES
  avail,   \* the tokens of each semaphore
  call     \* what each thread is told: out of any call, waiting, granted, refused

Out     == <<"out">>
Wait(o) == <<"waiting", o>>
Granted == <<"granted">>
Refused == <<"refused">>

Init ==
  /\ avail \in [Obj -> 0 .. ValueMod - 1]
  /\ call = [t \in Thread |-> Out]

\* a token is there
Take(t, o) ==
  /\ call[t] = Out
  /\ avail[o] > 0
  /\ avail' = [avail EXCEPT ![o] = @ - 1]
  /\ UNCHANGED call

Block(t, o) ==
  /\ call[t] = Out
  /\ avail[o] = 0
  /\ call' = [call EXCEPT ![t] = Wait(o)]
  /\ UNCHANGED avail

\* a token goes to a waiter if there is one
Release(o) ==
  \/ \E t \in Thread : /\ call[t] = Wait(o)
                       /\ call' = [call EXCEPT ![t] = Granted]
                       /\ UNCHANGED avail
  \/ /\ \A t \in Thread : call[t] # Wait(o)
     /\ avail' = [avail EXCEPT ![o] = (@ + 1) % ValueMod]
     /\ UNCHANGED call

\* timeout, or removal of the semaphore
Refuse(t) ==
  /\ \E o \in Obj : call[t] = Wait(o)
  /\ call' = [call EXCEPT ![t] = Refused]
  /\ UNCHANGED avail

\* every waiter is refused and the count starts again
Reset(o, v) ==
  /\ call' = [t \in Thread |-> IF call[t] = Wait(o) THEN Refused ELSE call[t]]
  /\ avail' = [avail EXCEPT ![o] = v]

Return(t) ==
  /\ call[t] \in {Granted, Refused}
  /\ call' = [call EXCEPT ![t] = Out]
  /\ UNCHANGED avail

Next ==
  \/ \E t \in Thread : Refuse(t) \/ Return(t) \/ \E o \in Obj : Take(t, o) \/ Block(t, o)
  \/ \E o \in Obj : Release(o) \/ \E v \in 0 .. ValueMod - 1 : Reset(o, v)

Spec == Init /\ [][Next]_<<avail, call>>
=============================================================================
