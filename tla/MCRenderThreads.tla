--------------------------- MODULE MCRenderThreads ---------------------------
(* Instances of RenderThreads for TLC. *)
EXTENDS RenderThreads, TLC

Symmetry == Permutations(Ctxs)
=============================================================================
