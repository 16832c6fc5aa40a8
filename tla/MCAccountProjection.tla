------------------------- MODULE MCAccountProjection -------------------------
(***************************************************************************)
(* AccountProjection on small instances.                                   *)
(***************************************************************************)
EXTENDS AccountProjection, TLC

HandlerSymmetry == Permutations(Handlers)
=============================================================================
