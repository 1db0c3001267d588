----------------------------- MODULE MCSh4Sched -----------------------------
(* Instances of Sh4Sched for TLC: a word of a few dozen cycles instead of   *)
(* 2^32, so that the clock wraps and the end value -1 is hit.               *)
EXTENDS Sh4Sched
=============================================================================
