----------------------------- MODULE RtMailbox -----------------------------
(***************************************************************************)
(* The mailbox of ipc.c: a ring of mails with a suspend list for the       *)
(* receivers ("mb", the one of the parent object) and one for the senders  *)
(* ("mb_sender").  op[c].on tells on which side of it a caller is.         *)
(***************************************************************************)
EXTENDS RtRetry

CONSTANT MbSize     \* mb->size

MbObj == {"mb", "mb_sender"}

ASSUME MbAssumption ==
  /\ MbSize \in Nat \ {0}
  /\ MbObj \subseteq Obj

VARIABLE mb

\* a slot that was read is forgotten (Nil)
MbType ==
  [ pool  : [0 .. MbSize - 1 -> Msg \cup {Nil}],   \* mb->msg_pool
    in    : 0 .. MbSize - 1,                       \* mb->in_offset
    out   : 0 .. MbSize - 1,                       \* mb->out_offset
    entry : 0 .. MbSize ]                          \* mb->entry

MbEmpty == [pool |-> [i \in 0 .. MbSize - 1 |-> Nil], in |-> 0, out |-> 0, entry |-> 0]

MbFull == mb.entry = MbSize
-----------------------------------------------------------------------------
\* mutation: in_offset does not wrap to the first slot
MbPutStuck(m) ==
  mb' = [mb EXCEPT !.pool[mb.in] = m,
                   !.in = IF @ + 1 < MbSize THEN @ + 1 ELSE @,
                   !.entry = @ + 1]

\* the end of rt_mb_send_wait, up to the test of the receivers
MbPut(m) ==
  mb' = [mb EXCEPT !.pool[mb.in] = m, !.in = (@ + 1) % MbSize, !.entry = @ + 1]

MbGet ==
  mb' = [mb EXCEPT !.pool[mb.out] = Nil, !.out = (@ + 1) % MbSize, !.entry = @ - 1]

\* mutation: only the first mail of an empty mailbox wakes a receiver
MbWakeFirst(c, self, other) ==
  IF Waiters(other) # <<>> /\ (other = "mb" => mb.entry = 0)
  THEN k' = IpcListResume(k, other) /\ Call(c, "sched", self)
  ELSE Call(c, "return", self) /\ UNCHANGED k

\* the first thread that waits on the other side is resumed
MbWake(c, self, other) ==
  IF Waiters(other) # <<>>
  THEN k' = IpcListResume(k, other) /\ Call(c, "sched", self)
  ELSE Call(c, "return", self) /\ UNCHANGED k

MbSendNow(c, m) ==
  /\ MbPut(m)
  /\ MbWake(c, "mb_sender", "mb")
  /\ loc' = [loc EXCEPT ![c] = Idle]

MbRecvNow(c) ==
  /\ MbGet
  /\ MbWake(c, "mb", "mb_sender")
  /\ loc' = [loc EXCEPT ![c] = [Idle EXCEPT !.msg = mb.pool[mb.out]]]

\* rt_mb_send_wait.  rt_mb_send is the call with timeout 0, which does nothing
\* when the mailbox is full.
rt_mb_send_wait(c, m, d) ==
  /\ At(c, "run")
  /\ "mb" \in alive
  /\ IF MbFull
     THEN d # 0 /\ Begin(c, "mb_sender", d, m) /\ UNCHANGED mb
     ELSE MbSendNow(c, m)
  /\ UNCHANGED alive

MbSendRetry(c) ==
  /\ Retry(c, "mb_sender")
  /\ IF ~MbFull THEN MbSendNow(c, loc[c].msg)
     ELSE /\ UNCHANGED mb
          /\ IF Remaining(c) = 0 THEN Leave(c) /\ UNCHANGED k ELSE Again(c)
  /\ UNCHANGED alive

\* rt_mb_send called by an interrupt handler
MbIsrSend(m) ==
  /\ ~k.isr
  /\ "mb" \in alive
  /\ ~MbFull
  /\ MbPut(m)
  /\ k' = IF Waiters("mb") # <<>> THEN Schedule(IpcListResume(k, "mb")) ELSE k
  /\ UNCHANGED <<op, alive, loc>>

\* rt_mb_recv; with timeout 0 it does nothing when the mailbox is empty
rt_mb_recv(c, d) ==
  /\ At(c, "run")
  /\ "mb" \in alive
  /\ IF mb.entry = 0
     THEN d # 0 /\ Begin(c, "mb", d, Nil) /\ UNCHANGED mb
     ELSE MbRecvNow(c)
  /\ UNCHANGED alive

MbRecvRetry(c) ==
  /\ Retry(c, "mb")
  /\ IF mb.entry > 0 THEN MbRecvNow(c)
     ELSE /\ UNCHANGED mb
          /\ IF Remaining(c) = 0
             THEN Leave(c) /\ UNCHANGED k     \* -RT_ETIMEOUT
             ELSE Again(c)
  /\ UNCHANGED alive

\* rt_mb_control, RT_IPC_CMD_RESET
rt_mb_control(c) ==
  /\ At(c, "run")
  /\ "mb" \in alive
  /\ k' = ResumeAll(ResumeAll(k, "mb"), "mb_sender")
  /\ mb' = MbEmpty
  /\ Call(c, "sched", NoObj)
  /\ UNCHANGED <<alive, loc>>

\* rt_mb_init, rt_mb_create
rt_mb_init(c) == Create(c, MbObj) /\ UNCHANGED mb

\* rt_mb_detach, rt_mb_delete: the mails that are left are forgotten
rt_mb_detach(c) == Detach(c, MbObj, "mb") /\ mb' = MbEmpty

MbInit == mb = MbEmpty

MbNext ==
  \/ \E c \in User :
       \/ \E d \in TimeOf[c] \cup {0} :
            \/ rt_mb_recv(c, d)
            \/ rt_mb_send_wait(c, MsgOf[c], d)
       \/ MbSendRetry(c) \/ MbRecvRetry(c)
       \/ rt_mb_control(c) \/ rt_mb_init(c) \/ rt_mb_detach(c)
  \/ MbIsrSend(MsgOf[idle])
-----------------------------------------------------------------------------
\* No wake-up is lost on either side: while a receiver waits, every mail in the
\* box has a receiver that was woken for it and has not run yet; while a sender
\* waits, every free slot has a sender on its way.
NoMailStranded ==
  LET coming(o) == Cardinality({c \in Thread : Woken(c) /\ op[c].on = o})
  IN  "mb" \in alive =>
        /\ Waiters("mb") # <<>> => mb.entry <= coming("mb")
        /\ Waiters("mb_sender") # <<>> => MbSize - mb.entry <= coming("mb_sender")

\* The mails inside, from out_offset on, and the calls, for the abstract queue.
MbMails == [i \in 1 .. mb.entry |-> mb.pool[(mb.out + i - 1) % MbSize]]

MbCall(c) ==
  IF op[c].on = "mb_sender"
  THEN IF Blocked(c) THEN <<"send", loc[c].msg>>
       ELSE IF op[c].pc \in {"sched", "return"} THEN <<"sent">> ELSE <<"out">>
  ELSE IF op[c].on = "mb"
  THEN IF Blocked(c) THEN <<"recv">>
       ELSE IF op[c].pc \in {"sched", "return"} THEN <<"got", loc[c].msg>> ELSE <<"out">>
  ELSE <<"out">>

MbAbstract == INSTANCE BoundedQueue WITH
  Size <- MbSize, q <- MbMails, call <- [c \in Thread |-> MbCall(c)]

\* The ring of rt_mb_send_wait and rt_mb_recv is a bounded queue: whatever
\* waits, times out and is woken in vain, mails are received in the order they
\* were sent, each once, and a mail of a sender that gave up is not in it.
MailboxIsQueue == MbAbstract!Spec
=============================================================================
