----------------------------- MODULE RtObjects -----------------------------
(***************************************************************************)
(* Mailbox, message queue, event and memory pool under one scheduler.  A   *)
(* thread creates one of them, threads and interrupt handlers use it, and  *)
(* a thread removes it before the next one is created.                     *)
(***************************************************************************)
EXTENDS RtMailbox, RtMsgQueue, RtEvent, RtMemPool

vars == <<k, op, alive, loc, mb, mq, ev, mp>>

Init ==
  /\ IpcStart
  /\ alive = {}
  /\ loc = [c \in Thread |-> Idle]
  /\ MbInit /\ MqInit /\ EvInit /\ MpInit

Next ==
  \/ MbNext /\ UNCHANGED <<mq, ev, mp>>
  \/ MqNext /\ UNCHANGED <<mb, ev, mp>>
  \/ EvNext /\ UNCHANGED <<mb, mq, mp>>
  \/ MpNext /\ UNCHANGED <<mb, mq, ev>>
  \/ RetryNext /\ EvForget /\ UNCHANGED <<mb, mq, mp>>

Spec == Init /\ [][Next]_vars
-----------------------------------------------------------------------------
\* The types, and the soundness of the kernel structures through every call:
\* each list node is in one list, and the lists agree with stat, priority and
\* bitmap.
ObjectsSound ==
  /\ op \in [Thread -> [pc : IpcPC, on : Obj \cup {NoObj}]]
  /\ alive \subseteq Obj
  /\ mb \in MbType /\ mq \in MqType /\ ev \in EvType
  /\ mp.list \in Seq(MpBlock) /\ mp.free \in 0 .. Cardinality(MpBlock) /\ mp.susp \in Nat
  /\ KInv(k) /\ StaleBits(k) = {}
=============================================================================
