--------------------------------- MODULE MCBits ---------------------------------
(***************************************************************************)
(* Bits on coordinates where a bit is gained or lost, and on inputs with a *)
(* single bit set: packing is a union of shifts, bit by bit.               *)
(***************************************************************************)
EXTENDS Bits

\* Two's complement of 32 bits.
BitsOf(n) == {i \in 0 .. 30 : (n \div 2 ^ i) % 2 = 1} \cup (IF n < 0 THEN {31} ELSE {})
WordOf(coord) == [x |-> BitsOf(coord.x), y |-> BitsOf(coord.y), z |-> BitsOf(coord.z)]

\* The coordinates next to the limits of the 26 bits, and beyond them.
Edge == {0, 1, 15, 16, 2 ^ 24, 2 ^ 25 - 1}
Inside == Edge \cup {-e - 1 : e \in Edge}
Outside == {2 ^ 25, 2 ^ 26 + 5, -(2 ^ 25) - 1}
Height == {0, 1, 63, 255, 4095, 4096, -1, -64}
Coordinates == [x : Inside \cup Outside, y : Height, z : Inside \cup Outside]

Origin == [x |-> 0, y |-> 0, z |-> 0]
Zero == [n \in 0 .. 31 |-> {}]
Ones == [n \in 0 .. 31 |-> 0 .. 15]
SingleBits == {[Zero EXCEPT ![n] = {j}] : n \in 0 .. 31, j \in 0 .. 15}

VARIABLES coord, in

BitInit == coord = Origin /\ in = Zero

AtRest == coord = Origin /\ in = Zero

Locate == AtRest /\ coord' \in Coordinates /\ UNCHANGED in
Pack == AtRest /\ in' \in SingleBits \cup {Ones} /\ UNCHANGED coord

BitNext == Locate \/ Pack

bitVars == <<coord, in>>
------------------------------------------------------------------------------
(***************************************************************************)
(* A position survives the wire: x and z between -2^25 and 2^25 - 1 come   *)
(* back with their signs, whatever the other two are, in range or not.     *)
(* The height comes back without a sign: -1 is 4095 (types.hpp:71).        *)
(***************************************************************************)
PositionRoundTrip ==
  LET got == fromPosition(toPosition(WordOf(coord)))
  IN /\ coord.x \in Inside => got.x = BitsOf(coord.x)
     /\ coord.z \in Inside => got.z = BitsOf(coord.z)
     /\ got.y = BitsOf(coord.y % 4096)

(***************************************************************************)
(* The blocks of a section lie one after the other in 14 bits each, across *)
(* the ends of the words, and nothing of a block id wider than that gets   *)
(* into its neighbour: the table of bitpack16to14 is right in every entry. *)
(* Heights below 512 do so in 9 bits each, the last one across the word    *)
(* and the byte of bitpack16to9.                                           *)
(***************************************************************************)
Packed ==
  /\ Joined(bitpack16to14(in), 64)
       = UNION {{14 * n + j : j \in in[n] \cap (0 .. 13)} : n \in 0 .. 31}
  /\ (\A n \in 0 .. 7 : in[n] \subseteq 0 .. 8) =>
       LET packed == bitpack16to9(in)
       IN packed.lower \cup {64 + b : b \in packed.upper}
            = UNION {{9 * n + j : j \in in[n]} : n \in 0 .. 7}

==============================================================================
