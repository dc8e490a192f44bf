---------------------------- MODULE MCStateMachine ----------------------------
(* Small instances of StateMachine for TLC. *)
EXTENDS StateMachine, TLC

\* Three chunks in a row: at view distance 1 the outer two see the middle one
\* and not each other; at 0 (a player that never sent settings) none is seen.
MCRow == {<<-1, 0>>, <<0, 0>>, <<1, 0>>}

\* A step along both axes at once, and back.
MCWalk == {<<0, 0>>, <<1, -1>>}

\* Everyone stays at the spawn point.
MCSpawnOnly == {<<0, 0>>}

\* An Int8 below the least view distance, and one in range.
MCRequested == {-1, 1}

Symmetry == Permutations(Machine) \cup Permutations(Name)

==============================================================================
