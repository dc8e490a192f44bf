---------------------------------- MODULE Bits ----------------------------------
(***************************************************************************)
(* What the proxy packs bit by bit: block positions (proxyd/types.hpp),    *)
(* the blocks and the heights of a chunk (proxyd/bitpack.hpp).             *)
(*                                                                         *)
(* A machine word is the set of the numbers of the bits that are 1, so     *)
(* that `|` is the union, `&` the intersection and a shift adds to the     *)
(* numbers.                                                                *)
(***************************************************************************)
EXTENDS Integers

\* A word of n bits shifted to the left by k, to the right when k is negative.
ShiftBy(word, k, n) == {b + k : b \in word} \cap (0 .. n - 1)

\* An arithmetic shift to the right (common/bits.hpp): the sign moves in.
ashr(word, k, n) ==
  ShiftBy(word, -k, n) \cup (IF n - 1 \in word THEN n - k .. n - 1 ELSE {})
------------------------------------------------------------------------------
\* A mutant of XZBits: the bits above the lowest 26 stay.
XZBitsAll == 0 .. 31

XZBits == 0 .. 25   \* 0x3ff'ffff
YBits == 0 .. 11    \* 0xfff

\* toPosition of a coordinate of three words of 32 bits.
toPosition(coord) ==
  ShiftBy(coord.x \cap XZBits, 38, 64) \cup ShiftBy(coord.z \cap XZBits, 12, 64)
    \cup (coord.y \cap YBits)

\* fromPosition: x and z are signed, y is not; each is cut to an Int32.
fromPosition(position) ==
  [x |-> ashr(position, 38, 64) \cap (0 .. 31),
   y |-> position \cap YBits,
   z |-> ashr(ShiftBy(position, 26, 64), 38, 64) \cap (0 .. 31)]
------------------------------------------------------------------------------
\* The seven words bitpack16to14 makes of 32 inputs: which inputs go into each
\* and how far they are shifted.
Row14 ==
  << {<< 0,   0>>, << 1, 14>>, << 2, 28>>, << 3, 42>>, << 4, 56>>},
     {<< 4,  -8>>, << 5,  6>>, << 6, 20>>, << 7, 34>>, << 8, 48>>, << 9, 62>>},
     {<< 9,  -2>>, <<10, 12>>, <<11, 26>>, <<12, 40>>, <<13, 54>>},
     {<<13, -10>>, <<14,  4>>, <<15, 18>>, <<16, 32>>, <<17, 46>>, <<18, 60>>},
     {<<18,  -4>>, <<19, 10>>, <<20, 24>>, <<21, 38>>, <<22, 52>>},
     {<<22, -12>>, <<23,  2>>, <<24, 16>>, <<25, 30>>, <<26, 44>>, <<27, 58>>},
     {<<27,  -6>>, <<28,  8>>, <<29, 22>>, <<30, 36>>, <<31, 50>>} >>

\* A mutant of At14: the inputs are not cut to 14 bits.
At14Whole(in, n) == in[n]

\* AT(n) of bitpack16to14
At14(in, n) == in[n] \cap (0 .. 13)

\* bitpack16to14 on one round of 32 inputs: seven words.
bitpack16to14(in) ==
  [k \in 0 .. 6 |-> UNION {ShiftBy(At14(in, t[1]), t[2], 64) : t \in Row14[k + 1]}]

\* The ninth byte of bitpack16to9: what of the last input is not in the word.
Upper(word) == ShiftBy(word, -1, 8)

\* bitpack16to9 on one round of 8 inputs: a word and a byte.  The inputs are
\* not cut to 9 bits.
bitpack16to9(in) ==
  [lower |-> UNION {ShiftBy(in[n], 9 * n, 64) : n \in 0 .. 7},
   upper |-> Upper(in[7])]

\* The numbers of the bits of words of n bits, one after the other in memory.
Joined(words, n) == UNION {{n * k + b : b \in words[k]} : k \in DOMAIN words}

==============================================================================
