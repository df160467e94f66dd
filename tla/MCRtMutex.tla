----------------------------- MODULE MCRtMutex -----------------------------
(* Three threads of different priorities. *)
EXTENDS RtMutex

CONSTANTS hi, mid, lo, m1, m2

MCThread   == {hi, mid, lo, idle}
MCInitPrio == hi :> 0 @@ mid :> 1 @@ lo :> 2 @@ idle :> 3
MCInitTick == [t \in MCThread |-> 1]
MCQueue    == 0 :> <<hi>> @@ 1 :> <<mid>> @@ 2 :> <<lo>> @@ 3 :> <<idle>>
MCFlag     == [o \in Obj |-> "PRIO"]
MCTime     == {-1} \cup 1 .. Half - 1
=============================================================================
