-------------------------------- MODULE VarInt --------------------------------
(***************************************************************************)
(* The variable-length integers of the protocol: the encoder               *)
(* (proxyd/serialize.hpp) and the decoder (proxyd/deserialize.hpp).  A     *)
(* value is an Int32, a byte a number below 256, a buffer a sequence.      *)
(***************************************************************************)
EXTENDS Integers, Sequences

Byte == 0 .. 255
MaxLength == 5    \* VARINT32_MAX_LENGTH

\* 128^i for the shifts by 7 * i.
Shift == <<1, 128, 16384, 2097152, 268435456>>

\* A mutant of wireSize: the limits of two and three bytes are one bit off.
wireSizeOff(value) ==
  CASE value < 0 -> 5
    [] 0 <= value /\ value < 128 -> 1
    [] 128 <= value /\ value < 32768 -> 2
    [] 32768 <= value /\ value < 2097152 -> 3
    [] 2097152 <= value /\ value < 268435456 -> 4
    [] OTHER -> 5

\* wireSizeVarInt32: by the number of leading zeros of the 32 bits.
wireSize(value) ==
  CASE value < 0 -> 5
    [] 0 <= value /\ value < 128 -> 1
    [] 128 <= value /\ value < 16384 -> 2
    [] 16384 <= value /\ value < 2097152 -> 3
    [] 2097152 <= value /\ value < 268435456 -> 4
    [] OTHER -> 5

\* Bits 7 * (i - 1) and up of the 32 bits: seven of them, four for i = 5.
Group(value, i) == (value \div Shift[i]) % (IF i = 5 THEN 16 ELSE 128)

\* encodeVarInt32
encodeVarInt(value) ==
  LET n == wireSize(value)
  IN [i \in 1 .. n |-> Group(value, i) + (IF i < n THEN 128 ELSE 0)]

\* The value of the first n groups; the shift of the fifth drops all but the
\* low four bits, the highest of which is the sign.
Combine(buf, n) ==
  LET group(i) == IF i <= n THEN buf[i] % 128 ELSE 0
      top == group(5) % 16
  IN group(1) + group(2) * Shift[2] + group(3) * Shift[3] + group(4) * Shift[4]
       + (IF top < 8 THEN top ELSE top - 16) * Shift[5]

\* A mutant of isLast: a byte with no value bits ends the number too.
isLastOff(byte) == byte <= 128

\* The top bit is not set: no byte follows.
isLast(byte) == byte < 128

\* deserializeVarInt on the bytes of buf: the status, and for "OK" the value
\* and the bytes consumed.
deserializeVarInt(buf) ==
  LET last == {i \in 1 .. MaxLength : i <= Len(buf) /\ isLast(buf[i])}
      n == CHOOSE i \in last : \A j \in last : i <= j
  IN CASE last # {} -> [status |-> "OK", value |-> Combine(buf, n), size |-> n]
       [] last = {} /\ Len(buf) >= MaxLength -> [status |-> "INVALID"]
       [] last = {} /\ Len(buf) < MaxLength -> [status |-> "INCOMPLETE"]

==============================================================================
