----------------------------- MODULE MCRelations -----------------------------
(***************************************************************************)
(* Relations on a small instance.                                          *)
(***************************************************************************)
EXTENDS Relations
=============================================================================
