---------------------------- MODULE MCCollector ----------------------------
(* Constant values for checking Collector: t1 and t2 are requests of one agent, t3 *)
(* of another; the tool they use is not deleted.                                   *)
EXTENDS Collector

CONSTANTS t1, t2, t3, a1, a2

MCRefs(t) == IF t = t3 THEN {a2} ELSE {a1}
============================================================================
