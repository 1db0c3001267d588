------------------------------ MODULE MCGdRom ------------------------------
(* Instance of GdRom for TLC: a buffer of two sectors, sectors of two or      *)
(* three units, ticks of four.                                               *)
EXTENDS GdRom
=============================================================================
