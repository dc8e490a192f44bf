-------------------------------- MODULE MCMotion --------------------------------
(* A small instance of Motion for TLC. *)
EXTENDS Motion

\* Less than a unit apart, a few units, and the ends of the 16 bits.
MCCoordinate == {0, 1, 5, -4, 32767 * 3, 32767 * 3 + 1, -32768 * 3 - 1}

\* Within a turn, at its end, and beyond it on both sides.
MCYaw == {0, 1, 359, 400, -1, -450}

==============================================================================
