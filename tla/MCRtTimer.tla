----------------------------- MODULE MCRtTimer -----------------------------
(* Two soft timers, a hard timer, and a hard timer that the callback of the *)
(* other one starts and stops.                                             *)
EXTENDS RtTimer

CONSTANTS s1, s2, h1, h2

MCKinds ==
  [t \in Timer |-> CASE t = s1 -> {<<1, FALSE>>, <<2, TRUE>>} [] t = h1 -> {<<3, TRUE>>}
                    [] OTHER -> {<<2, FALSE>>}]
MCOwner == [t \in Timer |-> IF t = h2 THEN h1 ELSE User]
=============================================================================
