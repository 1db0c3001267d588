---------------------------- MODULE MCBlockCache ----------------------------
(* Instances of BlockCache for TLC: three block addresses on two pages.  The *)
(* block at 1 spans both pages and ends in a static jump to 2; the one at 2  *)
(* lies on the second page and ends in a conditional jump or a computed one; *)
(* the one at 3 is on the first page, in the 64 KB that are never protected. *)
EXTENDS BlockCache, TLC

CONSTANTS p1, p2

Block(ps, es, d) == [pages |-> ps, exits |-> es, dyn |-> d]

MCDecode ==
    1 :> {Block({p1, p2}, {2}, FALSE)} @@
    2 :> {Block({p2}, {1, 2}, FALSE), Block({p2}, {}, TRUE)} @@
    3 :> {Block({p1}, {1}, FALSE), Block({p1}, {}, TRUE)}

Symmetry == Permutations(Blocks)
=============================================================================
