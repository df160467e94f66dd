----------------------------- MODULE MCRtThread -----------------------------
(* main and one more thread over idle. *)
EXTENDS RtThread

CONSTANT t1

MCThread   == {main, t1, idle}
MCInitPrio == [t \in MCThread |-> IF t = idle THEN PrioMax - 1 ELSE PrioMax - 2]
MCInitTick == [t \in MCThread |-> IF t = main THEN 2 ELSE 1]
=============================================================================
