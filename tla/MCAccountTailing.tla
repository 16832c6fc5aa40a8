-------------------------- MODULE MCAccountTailing --------------------------
(***************************************************************************)
(* The refinement of AccountTailing on a small instance.                   *)
(***************************************************************************)
EXTENDS AccountTailing, TLC

HandlerAccountSymmetry == Permutations(Handlers) \cup Permutations(Accounts)
=============================================================================
