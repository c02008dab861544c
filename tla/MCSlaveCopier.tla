--------------------------- MODULE MCSlaveCopier ---------------------------
(***************************************************************************)
(* SlaveCopier for TLC.  The numbers of the slave's positions and orders   *)
(* are interchangeable: which free one a new copy gets plays no role.      *)
(***************************************************************************)
EXTENDS SlaveCopier, TLC

IdSymmetry == Permutations(Ids)
=============================================================================
