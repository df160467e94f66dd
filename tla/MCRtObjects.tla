---------------------------- MODULE MCRtObjects ----------------------------
(* Two threads of one priority below a third; all ticks counted from now. *)
EXTENDS RtObjects

CONSTANTS
  hi, lo1, lo2,
  SuspMax     \* bound on suspend_thread_count, which timeouts drive up

MCThread   == {hi, lo1, lo2, idle}
MCInitPrio == hi :> 0 @@ lo1 :> 1 @@ lo2 :> 1 @@ idle :> 2
MCInitTick == [t \in MCThread |-> 1]
MCQueue    == [p \in Prio |-> SelectSeq(<<hi, lo1, lo2, idle>>, LAMBDA t : InitPrio[t] = p)]
MCFlag     == [o \in Obj |-> "PRIO"]
MCTime     == {-1, 2}
MCTimeOf   == [t \in MCThread \ {idle} |-> IF t = lo2 THEN {2} ELSE {-1}]
MCMsgOf    == [t \in MCThread |-> IF t = lo1 THEN "m1" ELSE "m2"]
MCPoolTime == {-1, 2}
MCOption   == {[and |-> TRUE, clear |-> FALSE], [and |-> FALSE, clear |-> TRUE]}

\* The code only ever subtracts ticks, modulo TickMod: two states that differ in
\* the origin of time behave alike, and TLC explores one of them.  tick_delta is
\* read while there is time left only, and the blocks of a pool are alike.
Ahead(x) == Since(x, k.tick)
MCView ==
  LET timed(c) == loc[c].left > 0
  IN  << [k EXCEPT !.tick = 0,
                   !.tmo = [c \in Thread |-> IF Timed(k, c) THEN Ahead(k.tmo[c]) ELSE 0]],
         op, alive,
         [c \in Thread |-> IF timed(c) THEN [loc[c] EXCEPT !.from = Ahead(@), !.due = Ahead(@)]
                           ELSE [loc[c] EXCEPT !.from = 0]],
         mb, mq, ev,
         [mp EXCEPT !.list = <<Len(@), Cardinality(Range(@))>>] >>

\* lo2 is the one that waits with a timeout, for blocks too
MCBounds ==
  /\ mp'.susp <= SuspMax
  /\ \A t \in {hi, lo1} : op'[t].on = "mp" => ~Timed(k', t)

MCSpec == Init /\ [][Next /\ MCBounds]_vars
=============================================================================
