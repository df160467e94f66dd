----------------------------- MODULE RtMsgQueue -----------------------------
(***************************************************************************)
(* The message queue of ipc.c: max_msgs buffers in a chain of messages     *)
(* (msg_queue_head, msg_queue_tail) and a chain of free ones.  A sender    *)
(* takes a free buffer in one interrupt lock, fills it with interrupts     *)
(* enabled and links it in a second one; a receiver unlinks, copies and    *)
(* frees in the same way.  Obj has its suspend list as "mq".               *)
(***************************************************************************)
EXTENDS RtRetry

CONSTANT MaxMsgs     \* mq->max_msgs

ASSUME MqAssumption ==
  /\ MaxMsgs \in Nat \ {0}
  /\ "mq" \in Obj

VARIABLE mq

Node == 1 .. MaxMsgs    \* the buffers; Null is RT_NULL

\* a buffer that was read is forgotten (Nil)
MqType ==
  [ head  : Node \cup {Null},                   \* mq->msg_queue_head
    tail  : Node \cup {Null},                   \* mq->msg_queue_tail
    free  : Node \cup {Null},                   \* mq->msg_queue_free
    next  : [Node -> Node \cup {Null}],         \* msg->next
    data  : [Node -> Msg \cup {Nil}],           \* what is behind the header
    entry : 0 .. MaxMsgs ]                      \* mq->entry

\* the loop of rt_mq_init links every buffer before the ones it linked so far
MqEmpty ==
  [ head |-> Null, tail |-> Null, free |-> MaxMsgs,
    next |-> [n \in Node |-> n - 1],
    data |-> [n \in Node |-> Nil],
    entry |-> 0 ]

\* the first buffers, at most depth of them, of the chain that begins with n
ChainUpTo[depth \in 0 .. MaxMsgs] ==
  [n \in Node \cup {Null} |->
     IF n = Null \/ depth = 0 THEN <<>> ELSE <<n>> \o ChainUpTo[depth - 1][mq.next[n]]]

\* the buffers of the chain that begins with n
Chain(n) == ChainUpTo[MaxMsgs][n]
-----------------------------------------------------------------------------
(* rt_mq_send, rt_mq_urgent *)

\* a free buffer; without one the call returns -RT_EFULL and nothing changes
MqTake(c, m, pc) ==
  /\ At(c, "run")
  /\ "mq" \in alive
  /\ mq.free # Null
  /\ mq' = [mq EXCEPT !.free = mq.next[mq.free]]
  /\ Call(c, pc, "mq")
  /\ loc' = [loc EXCEPT ![c] = [Idle EXCEPT !.msg = m, !.node = mq.free]]
  /\ UNCHANGED <<k, alive>>

rt_mq_send(c, m)   == MqTake(c, m, "mq_fill")
rt_mq_urgent(c, m) == MqTake(c, m, "mq_ufill")

\* interrupts are enabled
MqFill(c) ==
  LET n == loc[c].node
  IN  /\ At(c, "mq_fill")
      /\ mq' = [mq EXCEPT !.next[n] = Null, !.data[n] = loc[c].msg]
      /\ Goto(c, "mq_link")
      /\ UNCHANGED <<k, alive, loc>>

MqUrgentFill(c) ==
  /\ At(c, "mq_ufill")
  /\ mq' = [mq EXCEPT !.data[loc[c].node] = loc[c].msg]
  /\ Goto(c, "mq_ulink")
  /\ UNCHANGED <<k, alive, loc>>

\* mutation: the old tail is not linked to the new one
MqLinkedLoose(q, n) ==
  [q EXCEPT !.tail = n, !.head = IF @ = Null THEN n ELSE @, !.entry = @ + 1]

\* n becomes the last message
MqLinked(q, n) ==
  [q EXCEPT !.next = IF q.tail = Null THEN @ ELSE [@ EXCEPT ![q.tail] = n],
            !.tail = n,
            !.head = IF @ = Null THEN n ELSE @,
            !.entry = @ + 1]

\* n becomes the first message
MqLinkedFirst(q, n) ==
  [q EXCEPT !.next[n] = q.head,
            !.head = n,
            !.tail = IF @ = Null THEN n ELSE @,
            !.entry = @ + 1]

\* mutation: only the first message of an empty queue wakes a receiver
MqWakeFirst(c) ==
  IF Waiters("mq") # <<>> /\ mq.entry = 0
  THEN k' = IpcListResume(k, "mq") /\ Call(c, "sched", "mq")
  ELSE Call(c, "return", "mq") /\ UNCHANGED k

\* the first receiver that waits is resumed
MqWake(c) ==
  IF Waiters("mq") # <<>>
  THEN k' = IpcListResume(k, "mq") /\ Call(c, "sched", "mq")
  ELSE Call(c, "return", "mq") /\ UNCHANGED k

MqLink(c) ==
  /\ At(c, "mq_link")
  /\ mq' = MqLinked(mq, loc[c].node)
  /\ MqWake(c)
  /\ loc' = [loc EXCEPT ![c] = Idle]
  /\ UNCHANGED alive

MqUrgentLink(c) ==
  /\ At(c, "mq_ulink")
  /\ mq' = MqLinkedFirst(mq, loc[c].node)
  /\ MqWake(c)
  /\ loc' = [loc EXCEPT ![c] = Idle]
  /\ UNCHANGED alive

\* rt_mq_send called by an interrupt handler, which no thread interrupts
MqIsrSend(m) ==
  LET n == mq.free
  IN  /\ ~k.isr
      /\ "mq" \in alive
      /\ n # Null
      /\ mq' = MqLinked([mq EXCEPT !.free = mq.next[n], !.next[n] = Null, !.data[n] = m], n)
      /\ k' = IF Waiters("mq") # <<>> THEN Schedule(IpcListResume(k, "mq")) ELSE k
      /\ UNCHANGED <<op, alive, loc>>
-----------------------------------------------------------------------------
(* rt_mq_recv *)

\* mutation: the buffer is free before it is copied
MqUnlinkFreed(c) ==
  LET n == mq.head
  IN  /\ mq' = [mq EXCEPT !.head = mq.next[n],
                          !.tail = IF @ = n THEN Null ELSE @,
                          !.next[n] = mq.free,
                          !.free = n,
                          !.entry = @ - 1]
      /\ Call(c, "mq_copy", "mq")
      /\ loc' = [loc EXCEPT ![c] = [Idle EXCEPT !.node = n]]
      /\ UNCHANGED k

\* the first message leaves the chain
MqUnlink(c) ==
  LET n == mq.head
  IN  /\ mq' = [mq EXCEPT !.head = mq.next[n],
                          !.tail = IF @ = n THEN Null ELSE @,
                          !.entry = @ - 1]
      /\ Call(c, "mq_copy", "mq")
      /\ loc' = [loc EXCEPT ![c] = [Idle EXCEPT !.node = n]]
      /\ UNCHANGED k

\* with timeout 0 the call does nothing when there is no message
rt_mq_recv(c, d) ==
  /\ At(c, "run")
  /\ "mq" \in alive
  /\ IF mq.entry = 0
     THEN d # 0 /\ Begin(c, "mq", d, Nil) /\ UNCHANGED mq
     ELSE MqUnlink(c)
  /\ UNCHANGED alive

MqRecvRetry(c) ==
  /\ Retry(c, "mq")
  /\ IF mq.entry > 0 THEN MqUnlink(c)
     ELSE /\ UNCHANGED mq
          /\ IF Remaining(c) = 0 THEN Leave(c) /\ UNCHANGED k ELSE Again(c)
  /\ UNCHANGED alive

\* interrupts are enabled
MqCopy(c) ==
  LET n == loc[c].node
  IN  /\ At(c, "mq_copy")
      /\ loc' = [loc EXCEPT ![c].msg = mq.data[n]]
      /\ mq' = [mq EXCEPT !.data[n] = Nil]
      /\ Goto(c, "mq_free")
      /\ UNCHANGED <<k, alive>>

MqFree(c) ==
  LET n == loc[c].node
  IN  /\ At(c, "mq_free")
      /\ mq' = [mq EXCEPT !.next[n] = mq.free, !.free = n]
      /\ Leave(c)
      /\ UNCHANGED <<k, alive>>
-----------------------------------------------------------------------------
\* one round of the loop of rt_mq_control: n is the first free buffer
MqGive(q, n) == [q EXCEPT !.next[n] = q.free, !.free = n, !.data[n] = Nil]

\* rt_mq_control, RT_IPC_CMD_RESET: every message goes to the free chain, the
\* first one first; the tail is cleared when the loop comes to it
rt_mq_control(c) ==
  /\ At(c, "run")
  /\ "mq" \in alive
  /\ k' = ResumeAll(k, "mq")
  /\ mq' = FoldLeft(MqGive,
                    [mq EXCEPT !.head = Null, !.entry = 0,
                               !.tail = IF @ \in Range(Chain(mq.head)) THEN Null ELSE @],
                    Chain(mq.head))
  /\ Call(c, "sched", NoObj)
  /\ UNCHANGED <<alive, loc>>

\* rt_mq_init, rt_mq_create
rt_mq_init(c) == Create(c, {"mq"}) /\ UNCHANGED mq

\* rt_mq_detach, rt_mq_delete: what is left inside is forgotten
rt_mq_detach(c) == Detach(c, {"mq"}, "mq") /\ mq' = MqEmpty

MqInit == mq = MqEmpty

MqNext ==
  \/ \E c \in User : rt_mq_send(c, MsgOf[c]) \/ rt_mq_urgent(c, MsgOf[c])
  \/ \E c \in User : \E d \in TimeOf[c] \cup {0} : rt_mq_recv(c, d)
  \/ \E c \in User :
       \/ MqFill(c) \/ MqUrgentFill(c) \/ MqLink(c) \/ MqUrgentLink(c)
       \/ MqRecvRetry(c) \/ MqCopy(c) \/ MqFree(c)
       \/ rt_mq_control(c) \/ rt_mq_init(c) \/ rt_mq_detach(c)
  \/ MqIsrSend(MsgOf[idle])
-----------------------------------------------------------------------------
\* Every buffer is in one place: in the chain of messages, which ends at
\* msg_queue_tail and is as long as entry says, in the free chain, or in the
\* hands of one caller that is between its two interrupt locks.
BuffersAccounted ==
  LET used == Chain(mq.head)
      free == Chain(mq.free)
      hand == {c \in Thread : op[c].pc \in {"mq_fill", "mq_link", "mq_ufill", "mq_ulink",
                                            "mq_copy", "mq_free"}}
  IN  /\ Len(used) = mq.entry
      /\ mq.tail = IF used = <<>> THEN Null ELSE Last(used)
      /\ used # <<>> => mq.next[mq.tail] = Null
      /\ Len(used) + Len(free) + Cardinality(hand) = MaxMsgs
      /\ Range(used) \cup Range(free) \cup {loc[c].node : c \in hand} = Node

\* No wake-up is lost: while a receiver waits, every message in the queue has a
\* receiver that was woken for it and has not run yet.
NoMessageStranded ==
  "mq" \in alive /\ Waiters("mq") # <<>> =>
    mq.entry <= Cardinality({c \in Thread : Woken(c) /\ op[c].on = "mq"})

\* The messages inside and the calls, for the abstract queue.
MqMessages == [i \in 1 .. mq.entry |-> mq.data[Chain(mq.head)[i]]]

MqCall(c) ==
  IF op[c].on # "mq" THEN <<"out">>
  ELSE CASE op[c].pc \in {"mq_fill", "mq_link"} -> <<"send", loc[c].msg>>
         [] op[c].pc \in {"mq_ufill", "mq_ulink"} -> <<"urgent", loc[c].msg>>
         [] op[c].pc \in {"sched", "return"} -> <<"sent">>
         [] Blocked(c) -> <<"recv">>
         [] op[c].pc = "mq_copy" -> <<"got", mq.data[loc[c].node]>>
         [] op[c].pc = "mq_free" -> <<"got", loc[c].msg>>
         [] OTHER -> <<"out">>

MqAbstract == INSTANCE BoundedQueue WITH
  Size <- MaxMsgs, q <- MqMessages, call <- [c \in Thread |-> MqCall(c)]

\* The chains of rt_mq_send, rt_mq_urgent and rt_mq_recv are a bounded queue
\* with urgent messages: although buffers are filled and copied with interrupts
\* enabled, a receiver gets the oldest message, unchanged and once.
MessageQueueIsQueue == MqAbstract!Spec
=============================================================================
