-------------------------- MODULE MCSnapshotFanout --------------------------
(***************************************************************************)
(* Two slaves contend for the on-connect callback while the EA pushes and  *)
(* one request thread toggles TCP and changes the role.                    *)
(***************************************************************************)
EXTENDS SnapshotFanout, TLC

\* Slaves are interchangeable: no definition tells one from another.
SlaveSymmetry == Permutations(Slaves)

\* Two lines are on the way at most, be it on one link or on two.
FewLines == \A s, t \in Slaves : s # t => Len(wire[s]) + Len(wire[t]) <= 2
=============================================================================
