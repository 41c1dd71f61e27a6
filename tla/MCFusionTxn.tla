---------------------------- MODULE MCFusionTxn ----------------------------
(***************************************************************************)
(* FusionTxn with rows that TLC may permute.                               *)
(***************************************************************************)
EXTENDS FusionTxn, TLC

Alike == Permutations(Write)

=============================================================================
