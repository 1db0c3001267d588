------------------------------- MODULE MCTmu -------------------------------
(* Instance of Tmu for TLC: one channel, prescalers of 2 and 8 cycles, and   *)
(* slices of 3, so that edges fall on every place in a slice.                *)
EXTENDS Tmu, TLC

MCShift == 0 :> 1 @@ 1 :> 3
=============================================================================
