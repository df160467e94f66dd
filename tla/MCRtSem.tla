------------------------------ MODULE MCRtSem ------------------------------
(* Three threads, two of them of the same priority, and one semaphore. *)
EXTENDS RtSem

CONSTANTS hi, lo1, lo2, s1

MCThread   == {hi, lo1, lo2, idle}
MCInitPrio == hi :> 0 @@ lo1 :> 1 @@ lo2 :> 1 @@ idle :> 2
MCInitTick == [t \in MCThread |-> 1]
MCQueue    == [p \in Prio |-> CASE p = 0 -> <<hi>> [] p = 1 -> <<lo1, lo2>> [] p = 2 -> <<idle>>]
MCFlag     == [o \in Obj |-> "PRIO"]
MCTime     == {-1} \cup 1 .. Half - 1
=============================================================================
