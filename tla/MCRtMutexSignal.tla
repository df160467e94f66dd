-------------------------- MODULE MCRtMutexSignal --------------------------
(* Two threads and one mutex. *)
EXTENDS RtMutexSignal

CONSTANTS hi, lo, m1

MCThread   == {hi, lo, idle}
MCInitPrio == hi :> 0 @@ lo :> 1 @@ idle :> 2
MCInitTick == [t \in MCThread |-> 1]
MCQueue    == 0 :> <<hi>> @@ 1 :> <<lo>> @@ 2 :> <<idle>>
MCFlag     == [o \in Obj |-> "PRIO"]
MCTime     == {-1} \cup 1 .. Half - 1
=============================================================================
