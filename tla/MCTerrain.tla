------------------------------ MODULE MCTerrain ------------------------------
(* Small instances of Terrain for TLC. *)
EXTENDS Terrain, TLC

\* The players stand in three chunks in a row: at view distance 2 the outer
\* two do not see each other, and both have the middle one at the edge.
MCRow == {<<0, 0>>, <<2, 0>>, <<4, 0>>}

\* They dig in the middle one and in the one before it, which the last does not
\* see and the view of the first goes beyond.
MCSite == {<<1, 0>>, <<2, 0>>}

Symmetry == Permutations(Machine)

==============================================================================
