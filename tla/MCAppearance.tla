----------------------------- MODULE MCAppearance -----------------------------
(* Small instances of Appearance for TLC. *)
EXTENDS Appearance, TLC

\* One that stays at the spawn point sees the first chunk and not the second.
MCAway == {<<1, 0>>, <<2, 0>>}

Symmetry == Permutations(Machine)

==============================================================================
