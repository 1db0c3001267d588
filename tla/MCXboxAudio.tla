----------------------------- MODULE MCXboxAudio -----------------------------
(* Instances of XboxAudio for TLC. *)
EXTENDS XboxAudio
=============================================================================
