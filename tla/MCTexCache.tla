----------------------------- MODULE MCTexCache -----------------------------
(* Instance of TexCache for TLC: two pages; t1 covers both and uses the        *)
(* palette, t2 shares the second page with it, t3 does not fit in VRAM.        *)
EXTENDS TexCache, TLC

CONSTANTS t1, t2, t3

MCSpan == (t1 :> {1, 2}) @@ (t2 :> {2}) @@ (t3 :> {2})
=============================================================================
