----------------------------- MODULE MCHollyIntc -----------------------------
(* Instances of HollyIntc for TLC: two of the IRL levels, with the more      *)
(* urgent one first as in the code, and one source of the SH4.               *)
EXTENDS HollyIntc

MCRegs == {{1}}
MCField == [s \in {2} |-> 1]
MCIrlLevel == [s \in 0..1 |-> 2 - s]
=============================================================================
