---------------------------- MODULE BoundedQueue ----------------------------
(***************************************************************************)
(* What a mailbox and a message queue promise their users: messages come   *)
(* out in the order they went in (an urgent one before the others), each   *)
(* once, at most Size of them are inside, and a call that sends puts its   *)
(* own message in once or not at all.                                      *)
(***************************************************************************)
EXTENDS Integers, Sequences

CONSTANTS Thread, Msg, Size

VARIABLES
  q,      \* the messages inside
  call    \* the call each thread is in

Out       == <<"out">>
Send(m)   == <<"send", m>>      \* m is not inside yet
Urgent(m) == <<"urgent", m>>
Sent      == <<"sent">>         \* it is, and the call will return
Recv      == <<"recv">>         \* waiting for a message
Got(m)    == <<"got", m>>       \* the call will return m

Become(t, x) == call' = [call EXCEPT ![t] = x]

Init == q = <<>> /\ call = [t \in Thread |-> Out]

\* a call that does not end at once
Begin(t) ==
  /\ call[t] = Out
  /\ \E m \in Msg : Become(t, Send(m)) \/ Become(t, Urgent(m)) \/ (q = <<>> /\ Become(t, Recv))
  /\ UNCHANGED q

Put(t, m) ==
  /\ Len(q) < Size
  /\ \/ call[t] \in {Out, Send(m)} /\ q' = Append(q, m)
     \/ call[t] = Urgent(m) /\ q' = <<m>> \o q
  /\ Become(t, Sent)

\* an interrupt handler sends
PutIsr(m) ==
  /\ Len(q) < Size
  /\ q' = Append(q, m)
  /\ UNCHANGED call

Take(t) ==
  /\ call[t] \in {Out, Recv}
  /\ q # <<>>
  /\ q' = Tail(q)
  /\ Become(t, Got(Head(q)))

\* the call returns: its message is in, it has one, or it gave up
End(t) == call[t] # Out /\ Become(t, Out) /\ UNCHANGED q

Reset == q' = <<>> /\ UNCHANGED call

\* what goes on outside
Other == UNCHANGED <<q, call>>

Next ==
  \/ Other
  \/ \E t \in Thread : Begin(t) \/ Take(t) \/ End(t) \/ \E m \in Msg : Put(t, m)
  \/ \E m \in Msg : PutIsr(m)
  \/ Reset

Spec == Init /\ [][Next]_<<q, call>>
=============================================================================
