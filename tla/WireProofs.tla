------------------------------ MODULE WireProofs ------------------------------
(***************************************************************************)
(* Proofs about what goes over the wire: the variable-length integers for  *)
(* every Int32, the fields of packets for every value and whatever bytes   *)
(* follow, packets in their frames, positions for all their coordinates,   *)
(* and the bit packings for every input.                                   *)
(***************************************************************************)
EXTENDS MCVarInt, Framing, Fields, MCBits, DataFacts

Int32 == {v \in Int : -2147483648 <= v /\ v <= 2147483647}

(***************************************************************************)
(* The length of an encoding, and what it says of the number.              *)
(***************************************************************************)
LEMMA WireSize ==
  ASSUME NEW v \in Int32
  PROVE  /\ wireSize(v) \in 1 .. 5
         /\ wireSize(v) = 1 => 0 <= v /\ v < 128
         /\ wireSize(v) = 2 => 0 <= v /\ v < 16384
         /\ wireSize(v) = 3 => 0 <= v /\ v < 2097152
         /\ wireSize(v) = 4 => 0 <= v /\ v < 268435456
<1>0. v \in Int
  BY SMT DEF Int32
<1>1. CASE v < 0
  <2>1. wireSize(v) = 5
    BY SMT, <1>0, <1>1 DEF wireSize
  <2> QED BY SMT, <2>1
<1>2. CASE 0 <= v /\ v < 128
  <2>1. wireSize(v) = 1
    BY SMT, <1>0, <1>2 DEF wireSize
  <2> QED BY SMT, <1>2, <2>1
<1>3. CASE 128 <= v /\ v < 16384
  <2>1. wireSize(v) = 2
    BY SMT, <1>0, <1>3 DEF wireSize
  <2> QED BY SMT, <1>0, <1>3, <2>1
<1>4. CASE 16384 <= v /\ v < 2097152
  <2>1. wireSize(v) = 3
    BY SMT, <1>0, <1>4 DEF wireSize
  <2> QED BY SMT, <1>0, <1>4, <2>1
<1>5. CASE 2097152 <= v /\ v < 268435456
  <2>1. wireSize(v) = 4
    BY SMT, <1>0, <1>5 DEF wireSize
  <2> QED BY SMT, <1>0, <1>5, <2>1
<1>6. CASE 268435456 <= v
  <2>1. wireSize(v) = 5
    BY SMT, <1>0, <1>6 DEF wireSize
  <2> QED BY SMT, <2>1
<1> QED BY SMT, <1>0, <1>1, <1>2, <1>3, <1>4, <1>5, <1>6

\* Division as the shifts use it: by a power of two, of a number of any sign.
LEMMA Quotient ==
  ASSUME NEW d \in Nat \ {0}, NEW m \in Int, NEW q \in Int, NEW r \in Int,
         0 <= r, r < d, m = d * q + r
  PROVE  m \div d = q /\ m % d = r
<1>1. r \in 0 .. d - 1
  OBVIOUS
<1> QED BY <1>1, DivisionUnique

\* The seven lowest bits of a number, and the rest.
LEMMA Split ==
  ASSUME NEW m \in Int
  PROVE  \E q, r \in Int : 0 <= r /\ r < 128 /\ m = 128 * q + r
<1>1. PICK d \in Nat \ {0} : d = 128
  OBVIOUS
<1>2. PICK q \in Int, r \in 0 .. d - 1 : m \div d = q /\ m % d = r /\ m = d * q + r
  BY Division, Zenon
<1>3. r \in Int /\ 0 <= r /\ r < 128 /\ m = 128 * q + r
  BY SMT, <1>1, <1>2
<1> QED BY <1>3

(***************************************************************************)
(* A number is made of its groups of bits; the fifth has its sign.         *)
(***************************************************************************)
Sum(g) == g[1] + g[2] * 128 + g[3] * 16384 + g[4] * 2097152
            + (IF g[5] < 8 THEN g[5] ELSE g[5] - 16) * 268435456

LEMMA Groups ==
  ASSUME NEW v \in Int32
  PROVE  /\ \A i \in 1 .. 4 : Group(v, i) \in 0 .. 127
         /\ Group(v, 5) \in 0 .. 15
         /\ v = Sum([i \in 1 .. 5 |-> Group(v, i)])
         /\ 0 <= v /\ v < 128 => Group(v, 2) = 0
         /\ 0 <= v /\ v < 16384 => Group(v, 3) = 0
         /\ 0 <= v /\ v < 2097152 => Group(v, 4) = 0
         /\ 0 <= v /\ v < 268435456 => Group(v, 5) = 0
<1>0. v \in Int /\ -2147483648 <= v /\ v <= 2147483647
  BY SMT DEF Int32
<1>1. PICK q1, g1 \in Int : 0 <= g1 /\ g1 < 128 /\ v = 128 * q1 + g1
  <2>1. v \in Int
    BY SMT, <1>0
  <2> QED BY <2>1, Split, Zenon
<1>2. PICK q2, g2 \in Int : 0 <= g2 /\ g2 < 128 /\ q1 = 128 * q2 + g2
  BY Split, Zenon
<1>3. PICK q3, g3 \in Int : 0 <= g3 /\ g3 < 128 /\ q2 = 128 * q3 + g3
  BY Split, Zenon
<1>4. PICK q4, g4 \in Int : 0 <= g4 /\ g4 < 128 /\ q3 = 128 * q4 + g4
  BY Split, Zenon
<1>5. -8 <= q4 /\ q4 <= 7
  BY SMT, <1>0, <1>1, <1>2, <1>3, <1>4
<1>6. Group(v, 1) = g1
  <2>1. v \div 1 = v
    BY SMT, <1>0
  <2>2. v % 128 = g1
    BY SMT, <1>0, <1>1, Quotient
  <2> QED BY SMT, <2>1, <2>2 DEF Group, Shift
<1>7. Group(v, 2) = g2
  <2>1. v \div 128 = q1
    BY SMT, <1>0, <1>1, Quotient
  <2>2. q1 % 128 = g2
    BY SMT, <1>2, Quotient
  <2> QED BY SMT, <2>1, <2>2 DEF Group, Shift
<1>8. Group(v, 3) = g3
  <2>1. PICK r \in Int : r = 128 * g2 + g1
    OBVIOUS
  <2>2. 0 <= r /\ r < 16384 /\ v = 16384 * q2 + r
    BY SMT, <1>0, <1>1, <1>2, <2>1
  <2>3. v \div 16384 = q2
    BY SMT, <1>0, <2>2, Quotient
  <2>4. q2 % 128 = g3
    BY SMT, <1>3, Quotient
  <2> QED BY SMT, <2>3, <2>4 DEF Group, Shift
<1>9. Group(v, 4) = g4
  <2>1. PICK r \in Int : r = 16384 * g3 + 128 * g2 + g1
    BY SMT
  <2>2. 0 <= r /\ r < 2097152 /\ v = 2097152 * q3 + r
    BY SMT, <1>0, <1>1, <1>2, <1>3, <2>1
  <2>3. v \div 2097152 = q3
    BY SMT, <1>0, <2>2, Quotient
  <2>4. q3 % 128 = g4
    BY SMT, <1>4, Quotient
  <2> QED BY SMT, <2>3, <2>4 DEF Group, Shift
<1>10. Group(v, 5) = (IF q4 < 0 THEN q4 + 16 ELSE q4)
  <2>1. PICK r \in Int : r = 2097152 * g4 + 16384 * g3 + 128 * g2 + g1
    BY SMT
  <2>2. 0 <= r /\ r < 268435456 /\ v = 268435456 * q4 + r
    BY SMT, <1>0, <1>1, <1>2, <1>3, <1>4, <2>1
  <2>3. v \div 268435456 = q4
    BY SMT, <1>0, <2>2, Quotient
  <2>4. q4 % 16 = (IF q4 < 0 THEN q4 + 16 ELSE q4)
    BY SMT, <1>5
  <2> QED BY SMT, <2>3, <2>4 DEF Group, Shift
<1>11. /\ \A i \in 1 .. 4 : Group(v, i) \in 0 .. 127
       /\ Group(v, 5) \in 0 .. 15
  BY SMT, <1>1, <1>2, <1>3, <1>4, <1>5, <1>6, <1>7, <1>8, <1>9, <1>10
<1>12. v = Sum([i \in 1 .. 5 |-> Group(v, i)])
  <2>1. v = g1 + g2 * 128 + g3 * 16384 + g4 * 2097152 + q4 * 268435456
    BY SMT, <1>0, <1>1, <1>2, <1>3, <1>4
  <2>2. q4 = IF Group(v, 5) < 8 THEN Group(v, 5) ELSE Group(v, 5) - 16
    BY SMT, <1>5, <1>10
  <2> QED BY SMT, <1>6, <1>7, <1>8, <1>9, <2>1, <2>2 DEF Sum
<1>13. /\ 0 <= v /\ v < 128 => g2 = 0
       /\ 0 <= v /\ v < 16384 => g3 = 0
       /\ 0 <= v /\ v < 2097152 => g4 = 0
       /\ 0 <= v /\ v < 268435456 => q4 = 0
  BY SMT, <1>0, <1>1, <1>2, <1>3, <1>4
<1>14. q4 = 0 => Group(v, 5) = 0
  BY SMT, <1>10
<1>15. /\ 0 <= v /\ v < 128 => Group(v, 2) = 0
       /\ 0 <= v /\ v < 16384 => Group(v, 3) = 0
       /\ 0 <= v /\ v < 2097152 => Group(v, 4) = 0
       /\ 0 <= v /\ v < 268435456 => Group(v, 5) = 0
  BY SMT, <1>7, <1>8, <1>9, <1>13, <1>14
<1> QED BY <1>11, <1>12, <1>15, PTL

------------------------------------------------------------------------------
(***************************************************************************)
(* The bytes of an encoding: the last one is the first that says so, and   *)
(* the lower seven bits of each are its group.                             *)
(***************************************************************************)
LEMMA Encoded ==
  ASSUME NEW v \in Int32
  PROVE  /\ encodeVarInt(v) \in Seq(Byte)
         /\ Len(encodeVarInt(v)) = wireSize(v)
         /\ \A i \in 1 .. wireSize(v) :
              /\ isLast(encodeVarInt(v)[i]) <=> i = wireSize(v)
              /\ encodeVarInt(v)[i] % 128 = Group(v, i)
<1> DEFINE n == wireSize(v)
           bytes == encodeVarInt(v)
<1>1. n \in 1 .. 5
  BY WireSize, PTL
<1>2. \A i \in 1 .. 5 : Group(v, i) \in 0 .. 127
  <2>1. (\A i \in 1 .. 4 : Group(v, i) \in 0 .. 127) /\ Group(v, 5) \in 0 .. 15
    BY Groups, PTL
  <2>2. \A i \in 1 .. 5 : i \in 1 .. 4 \/ i = 5
    OBVIOUS
  <2> QED BY <2>1, <2>2
<1> HIDE DEF n
<1>3. bytes = [i \in 1 .. n |-> Group(v, i) + (IF i < n THEN 128 ELSE 0)]
  BY DEF encodeVarInt, n
<1> HIDE DEF bytes
<1>4. ASSUME NEW i \in 1 .. n
      PROVE  /\ bytes[i] \in Byte
             /\ isLast(bytes[i]) <=> i = n
             /\ bytes[i] % 128 = Group(v, i)
  <2>1. PICK g \in 0 .. 127 : g = Group(v, i)
    BY <1>1, <1>2
  <2>2. bytes[i] = g + (IF i < n THEN 128 ELSE 0)
    BY <1>3, <2>1
  <2>3. bytes[i] = (IF i = n THEN g ELSE g + 128)
    BY <1>1, <2>2
  <2> QED BY <2>1, <2>3 DEF Byte, isLast
<1>5. bytes \in Seq(Byte) /\ Len(bytes) = n
  BY <1>1, <1>3, <1>4
<1> QED BY <1>4, <1>5 DEF n, bytes

(***************************************************************************)
(* The decoder stops at the first byte that says it is the last one.       *)
(***************************************************************************)
LEMMA Decoded ==
  ASSUME NEW buf \in Seq(Byte), NEW n \in 1 .. MaxLength, n <= Len(buf),
         \A i \in 1 .. n : isLast(buf[i]) <=> i = n
  PROVE  deserializeVarInt(buf)
           = [status |-> "OK", value |-> Combine(buf, n), size |-> n]
<1> DEFINE last == {i \in 1 .. MaxLength : i <= Len(buf) /\ isLast(buf[i])}
           first == CHOOSE i \in last : \A j \in last : i <= j
<1>1. n \in last
  OBVIOUS
<1>2. \A j \in last : n <= j
  BY DEF MaxLength
<1>3. \A j \in last : j \in Int
  OBVIOUS
<1>4. first \in last /\ \A j \in last : first <= j
  <2> HIDE DEF last
  <2> QED BY <1>1, <1>2
<1> HIDE DEF last, first
<1>5. first = n
  <2>1. first <= n /\ n <= first /\ first \in Int /\ n \in Int
    BY <1>1, <1>2, <1>3, <1>4
  <2> QED BY <2>1
<1>6. deserializeVarInt(buf)
        = CASE last # {} -> [status |-> "OK", value |-> Combine(buf, first), size |-> first]
            [] last = {} /\ Len(buf) >= MaxLength -> [status |-> "INVALID"]
            [] last = {} /\ Len(buf) < MaxLength -> [status |-> "INCOMPLETE"]
  BY Zenon DEF deserializeVarInt, last, first
<1> QED BY <1>1, <1>5, <1>6

\* A buffer whose bytes all say that more follow.
LEMMA Undecided ==
  ASSUME NEW buf \in Seq(Byte), Len(buf) < MaxLength,
         \A i \in 1 .. Len(buf) : ~ isLast(buf[i])
  PROVE  deserializeVarInt(buf) = [status |-> "INCOMPLETE"]
<1> DEFINE last == {i \in 1 .. MaxLength : i <= Len(buf) /\ isLast(buf[i])}
           first == CHOOSE i \in last : \A j \in last : i <= j
<1>1. last = {}
  OBVIOUS
<1> HIDE DEF last, first
<1>2. deserializeVarInt(buf)
        = CASE last # {} -> [status |-> "OK", value |-> Combine(buf, first), size |-> first]
            [] last = {} /\ Len(buf) >= MaxLength -> [status |-> "INVALID"]
            [] last = {} /\ Len(buf) < MaxLength -> [status |-> "INCOMPLETE"]
  BY Zenon DEF deserializeVarInt, last, first
<1> QED BY <1>1, <1>2

\* The bytes of a number, combined.
LEMMA Combined ==
  ASSUME NEW v \in Int32, NEW buf,
         \A i \in 1 .. wireSize(v) : buf[i] % 128 = Group(v, i)
  PROVE  Combine(buf, wireSize(v)) = v
<1> DEFINE n == wireSize(v)
           group(i) == IF i <= n THEN buf[i] % 128 ELSE 0
<1>1. n \in 1 .. 5
  BY WireSize, PTL
<1>2. /\ (n = 1) => Group(v, 2) = 0
      /\ (n = 1 \/ n = 2) => Group(v, 3) = 0
      /\ (n = 1 \/ n = 2 \/ n = 3) => Group(v, 4) = 0
      /\ (n = 1 \/ n = 2 \/ n = 3 \/ n = 4) => Group(v, 5) = 0
  <2>1. /\ n = 1 => 0 <= v /\ v < 128
        /\ n = 2 => 0 <= v /\ v < 16384
        /\ n = 3 => 0 <= v /\ v < 2097152
        /\ n = 4 => 0 <= v /\ v < 268435456
    BY WireSize, PTL
  <2>2. /\ 0 <= v /\ v < 128 => Group(v, 2) = 0
        /\ 0 <= v /\ v < 16384 => Group(v, 3) = 0
        /\ 0 <= v /\ v < 2097152 => Group(v, 4) = 0
        /\ 0 <= v /\ v < 268435456 => Group(v, 5) = 0
    BY Groups, PTL
  <2>3. v \in Int
    BY SMT DEF Int32
  <2> HIDE DEF n
  <2> QED BY SMT, <2>1, <2>2, <2>3
<1>3. v = Sum([i \in 1 .. 5 |-> Group(v, i)])
  BY Groups, PTL
<1>4. Group(v, 5) \in 0 .. 15
  BY Groups, PTL
<1> HIDE DEF n
<1>5. /\ group(1) = Group(v, 1)
      /\ group(2) = Group(v, 2)
      /\ group(3) = Group(v, 3)
      /\ group(4) = Group(v, 4)
      /\ group(5) = Group(v, 5)
  BY SMT, <1>1, <1>2 DEF n
<1>6. group(5) % 16 = group(5)
  BY <1>4, <1>5
<1> HIDE DEF group
<1>7. Combine(buf, n)
        = group(1) + group(2) * 128 + group(3) * 16384 + group(4) * 2097152
            + (IF (group(5) % 16) < 8 THEN group(5) % 16 ELSE (group(5) % 16) - 16)
                * 268435456
  BY SMT DEF Combine, Shift, group
<1> QED BY SMT, <1>3, <1>5, <1>6, <1>7 DEF Sum, n

(***************************************************************************)
(* Every Int32 is decoded from its encoding, whatever bytes follow.        *)
(***************************************************************************)
THEOREM VarIntRoundTrip ==
  ASSUME NEW v \in Int32, NEW rest \in Seq(Byte)
  PROVE  deserializeVarInt(encodeVarInt(v) \o rest)
           = [status |-> "OK", value |-> v, size |-> Len(encodeVarInt(v))]
<1> DEFINE n == wireSize(v)
           bytes == encodeVarInt(v)
           buf == bytes \o rest
<1>1. n \in 1 .. 5
  BY WireSize, PTL
<1>2. /\ bytes \in Seq(Byte) /\ Len(bytes) = n
      /\ \A i \in 1 .. n : (isLast(bytes[i]) <=> i = n) /\ bytes[i] % 128 = Group(v, i)
  BY Encoded
<1> HIDE DEF n, bytes
<1>3. buf \in Seq(Byte) /\ n <= Len(buf) /\ \A i \in 1 .. n : buf[i] = bytes[i]
  BY <1>1, <1>2
<1> HIDE DEF buf
<1>4. deserializeVarInt(buf)
        = [status |-> "OK", value |-> Combine(buf, n), size |-> n]
  BY <1>1, <1>2, <1>3, Decoded DEF MaxLength
<1>5. \A i \in 1 .. n : buf[i] % 128 = Group(v, i)
  BY <1>2, <1>3
<1>6. Combine(buf, n) = v
  BY <1>5, Combined DEF n
<1> QED BY <1>2, <1>4, <1>6 DEF buf, bytes

(***************************************************************************)
(* The property, for every Int32.                                          *)
(***************************************************************************)
THEOREM RoundTripCorrect == value \in Int32 => RoundTrip
<1> SUFFICES ASSUME value \in Int32, NEW rest \in {<<>>, << 0 >>, << 255 >>}
             PROVE  deserializeVarInt(encodeVarInt(value) \o rest)
                      = [status |-> "OK", value |-> value,
                         size |-> Len(encodeVarInt(value))]
  BY DEF RoundTrip
<1>1. <<>> \in Seq(Byte) /\ <<0>> \in Seq(Byte) /\ <<255>> \in Seq(Byte)
  BY SMT DEF Byte
<1>2. rest \in Seq(Byte)
  BY <1>1, Zenon
<1> QED BY <1>2, VarIntRoundTrip

\* A number that is cut off.
LEMMA VarIntCut ==
  ASSUME NEW v \in Int32, NEW n \in 0 .. Len(encodeVarInt(v)) - 1
  PROVE  deserializeVarInt(SubSeq(encodeVarInt(v), 1, n)) = [status |-> "INCOMPLETE"]
<1> DEFINE bytes == encodeVarInt(v)
           cut == SubSeq(bytes, 1, n)
<1>1. wireSize(v) \in 1 .. 5
  BY SMT, WireSize
<1>2. /\ bytes \in Seq(Byte) /\ Len(bytes) = wireSize(v)
      /\ \A i \in 1 .. wireSize(v) : isLast(bytes[i]) <=> i = wireSize(v)
  BY Encoded
<1>3. n \in 0 .. wireSize(v) - 1
  BY <1>2
<1> HIDE DEF bytes
<1>4. /\ cut \in Seq(Byte) /\ Len(cut) = n
      /\ \A i \in 1 .. n : cut[i] = bytes[i]
  BY <1>1, <1>2, <1>3
<1> HIDE DEF cut
<1>5. Len(cut) < MaxLength /\ \A i \in 1 .. Len(cut) : ~ isLast(cut[i])
  BY <1>1, <1>2, <1>3, <1>4 DEF MaxLength
<1> QED BY <1>4, <1>5, Undecided DEF cut, bytes

(***************************************************************************)
(* A number that is cut off anywhere is incomplete, for every Int32.       *)
(***************************************************************************)
THEOREM CutCorrect == value \in Int32 => CutIsIncomplete
BY VarIntCut, Zenon DEF CutIsIncomplete

------------------------------------------------------------------------------
\* The first bytes of a buffer, and what follows them.
LEMMA Concatenated ==
  ASSUME NEW a \in Seq(Byte), NEW b \in Seq(Byte)
  PROVE  /\ a \o b \in Seq(Byte)
         /\ Len(a \o b) = Len(a) + Len(b)
         /\ SubSeq(a \o b, 1, Len(a)) = a
         /\ SubSeq(a \o b, Len(a) + 1, Len(a \o b)) = b
<1>1. PICK n \in Nat : n = Len(a)
  OBVIOUS
<1>2. PICK k \in Nat : k = Len(b)
  OBVIOUS
<1>3. a \o b \in Seq(Byte) /\ Len(a \o b) = n + k
  BY <1>1, <1>2
<1>4. SubSeq(a \o b, 1, n) = a
  BY <1>1, <1>2
<1>5. SubSeq(a \o b, n + 1, n + k) = b
  BY <1>1, <1>2
<1> QED BY <1>1, <1>2, <1>3, <1>4, <1>5

\* The bytes of a buffer are bytes.
LEMMA Element ==
  ASSUME NEW s \in Seq(Byte), NEW n \in Nat, Len(s) = n
  PROVE  \A i \in 1 .. n : s[i] \in Byte
OBVIOUS

\* Where one sequence ends among three does not matter.
LEMMA Associated ==
  ASSUME NEW a \in Seq(Byte), NEW b \in Seq(Byte), NEW c \in Seq(Byte)
  PROVE  (a \o b) \o c = a \o (b \o c)
OBVIOUS

\* Turning the bytes around twice leaves them as they were.
LEMMA Reversed ==
  ASSUME NEW s \in Seq(Byte)
  PROVE  /\ Reverse(s) \in Seq(Byte)
         /\ Len(Reverse(s)) = Len(s)
         /\ Reverse(Reverse(s)) = s
<1>1. PICK n \in Nat : n = Len(s)
  OBVIOUS
<1>2. Reverse(s) = [i \in 1 .. n |-> s[(n - i) + 1]]
  BY <1>1 DEF Reverse
<1>3. \A i \in 1 .. n : (n - i) + 1 \in 1 .. n /\ (n - ((n - i) + 1)) + 1 = i
  OBVIOUS
<1>4. Reverse(s) \in Seq(Byte) /\ Len(Reverse(s)) = n
  BY <1>1, <1>2, <1>3
<1>5. Reverse(Reverse(s)) = [i \in 1 .. n |-> Reverse(s)[(n - i) + 1]]
  BY <1>4 DEF Reverse
<1>6. ASSUME NEW i \in 1 .. n PROVE Reverse(Reverse(s))[i] = s[i]
  <2>1. PICK j \in 1 .. n : j = (n - i) + 1 /\ (n - j) + 1 = i
    BY <1>3
  <2>2. Reverse(Reverse(s))[i] = Reverse(s)[j]
    BY <1>5, <2>1
  <2> QED BY <1>2, <2>1, <2>2
<1>7. Reverse(Reverse(s)) \in Seq(Byte) /\ Len(Reverse(Reverse(s))) = n
  BY <1>1, <1>3, <1>4, <1>5
<1> QED BY <1>1, <1>4, <1>6, <1>7

------------------------------------------------------------------------------
\* The second of three sequences is where the first ends.
LEMMA Middle ==
  ASSUME NEW a \in Seq(Byte), NEW b \in Seq(Byte), NEW c \in Seq(Byte)
  PROVE  /\ SubSeq(a \o (b \o c), Len(a) + 1, Len(b) + Len(a)) = b
         /\ Len(b) + Len(a) <= Len(a \o (b \o c))
OBVIOUS

\* What the packets of clients are made of.
Framed == [id : Int32, data : Seq(Byte)]

Body(frame) == encodeVarInt(frame.id) \o frame.data

\* The parts of a packet and how long they are.
LEMMA Parts ==
  ASSUME NEW frame \in Framed, Len(Body(frame)) <= MaxLengthValue
  PROVE  /\ encodeVarInt(frame.id) \in Seq(Byte) /\ frame.data \in Seq(Byte)
         /\ Body(frame) \in Seq(Byte) /\ Len(Body(frame)) \in Int32 \cap Nat
         /\ Len(Body(frame)) \in 0 .. MaxLengthValue
         /\ encodeVarInt(Len(Body(frame))) \in Seq(Byte)
         /\ serializePacket(frame) = encodeVarInt(Len(Body(frame))) \o Body(frame)
<1>1. frame.id \in Int32 /\ frame.data \in Seq(Byte)
  BY DEF Framed
<1>2. encodeVarInt(frame.id) \in Seq(Byte)
  BY <1>1, Encoded
<1>3. Body(frame) \in Seq(Byte)
  BY <1>1, <1>2, Concatenated DEF Body
<1>4. PICK n \in Nat : n = Len(Body(frame)) /\ n <= MaxLengthValue
  BY <1>3
<1>5. n \in Int32
  BY SMT, <1>4 DEF Int32, MaxLengthValue
<1>6. encodeVarInt(n) \in Seq(Byte)
  BY <1>5, Encoded
<1>7. serializePacket(frame) = encodeVarInt(Len(Body(frame))) \o Body(frame)
  BY Zenon DEF serializePacket, Body
<1>8. n \in 0 .. MaxLengthValue
  <2>1. MaxLengthValue \in Nat
    BY DEF MaxLengthValue
  <2> QED BY <1>4, <2>1
<1> QED BY <1>1, <1>2, <1>3, <1>4, <1>5, <1>6, <1>7, <1>8

(***************************************************************************)
(* A packet that does not exceed the length is taken from the buffer as it *)
(* was sent, and all of it, whatever follows: serializePacket and          *)
(* deserializePacketFrame of framing.hpp agree.                            *)
(***************************************************************************)
THEOREM FrameRoundTrip ==
  ASSUME NEW frame \in Framed, Len(Body(frame)) <= MaxLengthValue,
         NEW rest \in Seq(Byte)
  PROVE  deserializePacketFrame(serializePacket(frame) \o rest)
           = [status |-> "OK", size |-> Len(serializePacket(frame)), frame |-> frame]
<1> DEFINE body == Body(frame)
           head == encodeVarInt(Len(body))
           buf == serializePacket(frame) \o rest
           length == deserializeVarInt(buf)
           size == frameSize(length.value, length.size)
           inner == SubSeq(buf, length.size + 1, size)
           id == deserializeVarInt(inner)
<1>1. /\ body \in Seq(Byte) /\ head \in Seq(Byte)
      /\ Len(body) \in 0 .. MaxLengthValue
      /\ serializePacket(frame) = head \o body
  BY Parts
<1>2. buf = head \o (body \o rest) /\ body \o rest \in Seq(Byte)
  <2>1. (head \o body) \o rest = head \o (body \o rest)
    BY <1>1, Associated
  <2>2. body \o rest \in Seq(Byte)
    BY <1>1, Concatenated
  <2> QED BY <1>1, <2>1, <2>2, Zenon
<1>3. length = [status |-> "OK", value |-> Len(body), size |-> Len(head)]
  <2>1. Len(body) \in Int32
    BY Parts
  <2> QED BY <1>2, <2>1, VarIntRoundTrip
<1>4. size = Len(body) + Len(head) /\ size <= Len(buf) /\ inner = body
  <2>1. size = Len(body) + Len(head) /\ length.size = Len(head)
    BY <1>3 DEF frameSize
  <2>2. /\ SubSeq(head \o (body \o rest), Len(head) + 1, Len(body) + Len(head)) = body
        /\ Len(body) + Len(head) <= Len(head \o (body \o rest))
    BY <1>1, Middle
  <2> QED BY <1>2, <2>1, <2>2, Zenon
<1>5. id = [status |-> "OK", value |-> frame.id, size |-> Len(encodeVarInt(frame.id))]
  <2>1. frame.id \in Int32 /\ frame.data \in Seq(Byte)
    BY DEF Framed
  <2>2. deserializeVarInt(encodeVarInt(frame.id) \o frame.data)
          = [status |-> "OK", value |-> frame.id, size |-> Len(encodeVarInt(frame.id))]
    BY <2>1, VarIntRoundTrip
  <2> QED BY <1>4, <2>2, Zenon DEF Body
<1>6. SubSeq(inner, id.size + 1, Len(inner)) = frame.data
  <2>1. SubSeq(Body(frame), Len(encodeVarInt(frame.id)) + 1, Len(Body(frame))) = frame.data
    BY Parts, Concatenated DEF Body
  <2>2. id.size = Len(encodeVarInt(frame.id))
    BY <1>5
  <2> QED BY <1>4, <2>1, <2>2, Zenon
<1>7. size = Len(serializePacket(frame))
  BY <1>1, <1>4, Concatenated
<1>8. deserializePacketFrame(buf)
        = CASE length.status # "OK" -> [status |-> length.status]
            [] length.status = "OK" /\ length.value \notin 0 .. MaxLengthValue ->
                 [status |-> "INVALID"]
            [] length.status = "OK" /\ length.value \in 0 .. MaxLengthValue ->
                 CASE size > Len(buf) -> [status |-> "INCOMPLETE"]
                   [] size <= Len(buf) /\ id.status # "OK" -> [status |-> id.status]
                   [] size <= Len(buf) /\ id.status = "OK" ->
                        [status |-> "OK", size |-> size,
                         frame |-> [id |-> id.value,
                                    data |-> SubSeq(inner, id.size + 1, Len(inner))]]
  BY Zenon DEF deserializePacketFrame
<1>9. /\ length.status = "OK" /\ length.value \in 0 .. MaxLengthValue
      /\ size <= Len(buf) /\ ~ (size > Len(buf))
      /\ id.status = "OK" /\ id.value = frame.id
  <2>1. Len(buf) \in Nat /\ size \in Nat
    BY <1>1, <1>2, <1>4, Concatenated
  <2> HIDE DEF size, buf
  <2> QED BY <1>1, <1>3, <1>4, <1>5, <2>1
<1>10. frame = [id |-> frame.id, data |-> frame.data]
  BY DEF Framed
<1> HIDE DEF buf, length, size, inner, id
<1>11. deserializePacketFrame(buf)
         = [status |-> "OK", size |-> size,
            frame |-> [id |-> id.value, data |-> SubSeq(inner, id.size + 1, Len(inner))]]
  BY <1>8, <1>9
<1> QED BY <1>6, <1>7, <1>9, <1>10, <1>11 DEF buf

(***************************************************************************)
(* A packet that is cut off anywhere is incomplete: its bytes are kept     *)
(* until the rest is there, and nothing is handed on or refused.           *)
(***************************************************************************)
THEOREM FrameCut ==
  ASSUME NEW frame \in Framed, Len(Body(frame)) <= MaxLengthValue,
         NEW n \in 0 .. Len(serializePacket(frame)) - 1
  PROVE  deserializePacketFrame(SubSeq(serializePacket(frame), 1, n))
           = [status |-> "INCOMPLETE"]
<1> DEFINE body == Body(frame)
           head == encodeVarInt(Len(body))
           buf == SubSeq(serializePacket(frame), 1, n)
           length == deserializeVarInt(buf)
           size == frameSize(length.value, length.size)
           id == deserializeVarInt(SubSeq(buf, length.size + 1, size))
<1>1. /\ body \in Seq(Byte) /\ head \in Seq(Byte) /\ Len(body) \in Int32 \cap Nat
      /\ Len(body) \in 0 .. MaxLengthValue
      /\ serializePacket(frame) = head \o body
  BY Parts
<1>2. Len(serializePacket(frame)) = Len(head) + Len(body)
  BY <1>1, Concatenated
<1>3. deserializePacketFrame(buf)
        = CASE length.status # "OK" -> [status |-> length.status]
            [] length.status = "OK" /\ length.value \notin 0 .. MaxLengthValue ->
                 [status |-> "INVALID"]
            [] length.status = "OK" /\ length.value \in 0 .. MaxLengthValue ->
                 CASE size > Len(buf) -> [status |-> "INCOMPLETE"]
                   [] size <= Len(buf) /\ id.status # "OK" -> [status |-> id.status]
                   [] size <= Len(buf) /\ id.status = "OK" ->
                        [status |-> "OK", size |-> size,
                         frame |-> [id |-> id.value,
                                    data |-> SubSeq(SubSeq(buf, length.size + 1, size),
                                                    id.size + 1,
                                                    Len(SubSeq(buf, length.size + 1, size)))]]
  BY Zenon DEF deserializePacketFrame
<1>4. CASE n < Len(head)
  <2>1. n \in 0 .. Len(head) - 1
    BY <1>1, <1>4
  <2>2. buf = SubSeq(head, 1, n)
    BY <1>1, <2>1
  <2>3. length = [status |-> "INCOMPLETE"]
    BY <1>1, <2>1, <2>2, VarIntCut
  <2>4. length.status = "INCOMPLETE" /\ length.status # "OK"
    BY <2>3
  <2> HIDE DEF buf, length, size, id
  <2> QED BY <1>3, <2>4 DEF buf
<1>5. CASE n >= Len(head)
  <2>1. PICK tail \in Seq(Byte) : buf = head \o tail
    <3>1. PICK k \in 0 .. Len(body) : k = n - Len(head)
      BY <1>1, <1>2, <1>5
    <3>2. SubSeq(body, 1, k) \in Seq(Byte)
      BY <1>1, <3>1
    <3>3. SubSeq(head \o body, 1, Len(head) + k) = head \o SubSeq(body, 1, k)
      BY <1>1, <3>1
    <3>4. n = Len(head) + k
      BY <1>1, <3>1
    <3> QED BY <1>1, <3>2, <3>3, <3>4, Zenon
  <2>2. length = [status |-> "OK", value |-> Len(body), size |-> Len(head)]
    BY <1>1, <2>1, VarIntRoundTrip
  <2>3. Len(buf) = n
    BY <1>1, <1>2
  <2>4. size > Len(buf) /\ ~ (size <= Len(buf))
    BY <1>1, <1>2, <2>2, <2>3 DEF frameSize
  <2>5. length.status = "OK" /\ length.value \in 0 .. MaxLengthValue
    BY <1>1, <2>2
  <2> HIDE DEF buf, length, size, id
  <2> QED BY <1>3, <2>4, <2>5 DEF buf
<1>6. n < Len(head) \/ n >= Len(head)
  BY <1>1
<1> QED BY <1>4, <1>5, <1>6

(***************************************************************************)
(* A length out of range is refused as soon as its last byte is there,     *)
(* whatever follows.                                                       *)
(***************************************************************************)
THEOREM LengthRefused ==
  ASSUME NEW v \in Int32, v \notin 0 .. MaxLengthValue, NEW rest \in Seq(Byte)
  PROVE  deserializePacketFrame(encodeVarInt(v) \o rest) = [status |-> "INVALID"]
<1> DEFINE buf == encodeVarInt(v) \o rest
           length == deserializeVarInt(buf)
<1>1. length.status = "OK" /\ length.value \notin 0 .. MaxLengthValue
  BY VarIntRoundTrip
<1> QED BY <1>1, Zenon DEF deserializePacketFrame

------------------------------------------------------------------------------
(***************************************************************************)
(* The values of a field of each kind.  The sequences are bytes in memory; *)
(* a string is no longer than its length can say.                          *)
(***************************************************************************)
FieldValue(kind) ==
  CASE kind \in DOMAIN Width -> {s \in Seq(Byte) : Len(s) = Width[kind]}
    [] kind = "bool" -> BOOLEAN
    [] kind = "varint" -> Int32
    [] kind = "string" -> {s \in Seq(Byte) : Len(s) \in Int32}
    [] kind = "uuid" -> {s \in Seq(Byte) : Len(s) = 16}

\* What is read of n bytes that are there.
LEMMA BytesRead ==
  ASSUME NEW a \in Seq(Byte), NEW rest \in Seq(Byte)
  PROVE  deserializeBytes(a \o rest, Len(a)) = OK(a, Len(a))
<1>1. ~ (Len(a \o rest) < Len(a))
  BY Concatenated
<1>2. SubSeq(a \o rest, 1, Len(a)) = a
  BY Concatenated
<1> QED BY <1>1, <1>2 DEF deserializeBytes

\* Integers and floats: the byte order is turned around and back.
LEMMA IntRead ==
  ASSUME NEW a \in Seq(Byte), NEW rest \in Seq(Byte)
  PROVE  deserializeInt(serializeInt(a) \o rest, Len(a)) = OK(a, Len(a))
<1>1. Reverse(a) \in Seq(Byte) /\ Len(Reverse(a)) = Len(a) /\ Reverse(Reverse(a)) = a
  BY Reversed
<1>2. deserializeBytes(Reverse(a) \o rest, Len(a)) = OK(Reverse(a), Len(a))
  BY <1>1, BytesRead
<1> QED BY <1>1, <1>2 DEF deserializeInt, serializeInt, toNative, OK

\* A bool is one byte, 0 or 1.
LEMMA BoolRead ==
  ASSUME NEW b \in BOOLEAN, NEW rest \in Seq(Byte)
  PROVE  deserializeBool(serializeBool(b) \o rest) = OK(b, 1)
<1> DEFINE byte == IF b THEN 1 ELSE 0
           val == deserializeInt(serializeBool(b) \o rest, 1)
<1>1. serializeBool(b) = <<byte>>
  BY DEF serializeBool
<1>2. <<byte>> \in Seq(Byte) /\ Len(<<byte>>) = 1 /\ serializeInt(<<byte>>) = <<byte>>
  <2>1. byte \in Byte
    BY DEF Byte
  <2> HIDE DEF byte
  <2>2. <<byte>> \in Seq(Byte) /\ Len(<<byte>>) = 1
    BY <2>1
  <2>3. Reverse(<<byte>>) = <<byte>>
    BY <2>1 DEF Reverse
  <2> QED BY <2>2, <2>3 DEF serializeInt
<1> HIDE DEF byte
<1>3. val = OK(<<byte>>, 1)
  BY <1>1, <1>2, IntRead
<1> HIDE DEF val
<1>4. val.status = "OK" /\ val.value[1] = byte
  BY <1>3 DEF OK
<1>5. isBool(byte) /\ (byte # 0 <=> b)
  BY DEF byte, isBool
<1>6. deserializeBool(serializeBool(b) \o rest)
        = CASE val.status # "OK" -> val
            [] val.status = "OK" /\ ~isBool(val.value[1]) -> Error("INVALID")
            [] OTHER -> OK(val.value[1] # 0, 1)
  BY Zenon DEF deserializeBool, val
<1>7. deserializeBool(serializeBool(b) \o rest) = OK(val.value[1] # 0, 1)
  BY <1>4, <1>5, <1>6
<1>8. (byte # 0) = b
  BY <1>5
<1> QED BY <1>4, <1>7, <1>8

\* A string is its length and its bytes.
LEMMA StringRead ==
  ASSUME NEW str \in Seq(Byte), Len(str) \in Int32, NEW rest \in Seq(Byte)
  PROVE  /\ deserializeString(serializeString(str) \o rest)
              = OK(str, Len(serializeString(str)))
         /\ serializeString(str) \in Seq(Byte)
<1> DEFINE head == encodeVarInt(Len(str))
           buf == serializeString(str) \o rest
           length == deserializeVarInt(buf)
           body == deserializeBytes(SubSeq(buf, length.size + 1, Len(buf)), length.value)
<1>1. head \in Seq(Byte)
  BY Encoded
<1>2. PICK tail \in Seq(Byte) : tail = str \o rest
  <2>1. str \o rest \in Seq(Byte)
    BY Concatenated
  <2> QED BY <2>1, Zenon
<1>3. buf = head \o tail
  BY <1>1, <1>2, Associated DEF serializeString
<1>4. length = [status |-> "OK", value |-> Len(str), size |-> Len(head)]
  BY <1>2, <1>3, VarIntRoundTrip
<1>5. SubSeq(buf, Len(head) + 1, Len(buf)) = tail
  <2> HIDE DEF head, buf
  <2> QED BY <1>1, <1>3, Concatenated
<1>6. body = OK(str, Len(str))
  <2>1. deserializeBytes(tail, Len(str)) = OK(str, Len(str))
    BY <1>2, BytesRead
  <2>2. length.size = Len(head) /\ length.value = Len(str)
    BY <1>4
  <2> HIDE DEF head, buf, length
  <2> QED BY <1>5, <2>1, <2>2
<1>7. /\ serializeString(str) \in Seq(Byte)
      /\ Len(serializeString(str)) = Len(head) + Len(str)
  BY <1>1, Concatenated DEF serializeString
<1>8. deserializeString(buf)
        = CASE length.status # "OK" -> length
            [] length.status = "OK" /\ length.value < 0 -> Error("INVALID")
            [] OTHER -> IF body.status # "OK" THEN body
                        ELSE OK(body.value, length.size + body.size)
  BY Zenon DEF deserializeString
<1> HIDE DEF head, buf, length, body
<1>9. length.status = "OK" /\ length.value = Len(str) /\ length.size = Len(head)
  BY <1>4
<1>10. body.status = "OK" /\ body.value = str /\ body.size = Len(str)
  BY <1>6 DEF OK
<1>11. ~ (length.value < 0)
  BY <1>9
<1>12. deserializeString(buf) = OK(body.value, length.size + body.size)
  BY <1>8, <1>9, <1>10, <1>11
<1>13. deserializeString(buf) = OK(str, Len(serializeString(str)))
  BY <1>7, <1>9, <1>10, <1>12
<1> QED BY <1>7, <1>13 DEF buf

\* A uuid is two integers, the one that is later in memory first.
LEMMA UuidRead ==
  ASSUME NEW uuid \in Seq(Byte), Len(uuid) = 16, NEW rest \in Seq(Byte)
  PROVE  /\ deserializeUuid(serializeUuid(uuid) \o rest) = OK(uuid, 16)
         /\ serializeUuid(uuid) \in Seq(Byte)
         /\ Len(serializeUuid(uuid)) = 16
<1> DEFINE buf == serializeUuid(uuid) \o rest
           hi == deserializeInt(buf, 8)
           lo == deserializeInt(SubSeq(buf, 9, Len(buf)), 8)
<1> DEFINE a == [i \in 1 .. 8 |-> uuid[8 + i]]
           b == [i \in 1 .. 8 |-> uuid[i]]
<1>1. a \in Seq(Byte) /\ Len(a) = 8 /\ a = SubSeq(uuid, 9, 16)
  <2>1. \A i \in 1 .. 8 : uuid[8 + i] \in Byte
    <3>1. \A i \in 1 .. 16 : uuid[i] \in Byte
      BY Element
    <3>2. \A i \in 1 .. 8 : 8 + i \in 1 .. 16
      OBVIOUS
    <3> QED BY <3>1, <3>2
  <2>2. a \in Seq(Byte) /\ Len(a) = 8
    BY <2>1
  <2> QED BY <2>2
<1>2. b \in Seq(Byte) /\ Len(b) = 8 /\ b = SubSeq(uuid, 1, 8)
  <2>1. \A i \in 1 .. 8 : uuid[i] \in Byte
    <3>1. \A i \in 1 .. 16 : uuid[i] \in Byte
      BY Element
    <3>2. \A i \in 1 .. 8 : i \in 1 .. 16
      OBVIOUS
    <3> QED BY <3>1, <3>2
  <2>2. b \in Seq(Byte) /\ Len(b) = 8
    BY <2>1
  <2> QED BY <2>2
<1>3. b \o a = uuid
  BY <1>1, <1>2
<1> HIDE DEF a, b
<1>4. PICK ra \in Seq(Byte) : ra = serializeInt(a) /\ Len(ra) = 8
  BY <1>1, Reversed DEF serializeInt
<1>5. PICK rb \in Seq(Byte) : rb = serializeInt(b) /\ Len(rb) = 8
  BY <1>2, Reversed DEF serializeInt
<1>6. serializeUuid(uuid) = ra \o rb
  BY <1>1, <1>2, <1>4, <1>5 DEF serializeUuid
<1>7. PICK tail \in Seq(Byte) : tail = rb \o rest
  <2>1. rb \o rest \in Seq(Byte)
    BY Concatenated
  <2> QED BY <2>1, Zenon
<1>8. buf = ra \o tail
  <2>1. (ra \o rb) \o rest = ra \o (rb \o rest)
    BY ONLY ra \in Seq(Byte), rb \in Seq(Byte), rest \in Seq(Byte)
  <2> QED BY <1>6, <1>7, <2>1, Zenon
<1> HIDE DEF buf
<1>9. hi = OK(a, 8)
  BY <1>1, <1>4, <1>8, IntRead
<1>10. SubSeq(buf, 9, Len(buf)) = tail
  <2>1. SubSeq(ra \o tail, Len(ra) + 1, Len(ra \o tail)) = tail
    BY Concatenated
  <2>2. Len(ra) + 1 = 9
    BY <1>4
  <2> QED BY <1>8, <2>1, <2>2
<1>11. lo = OK(b, 8)
  <2>1. deserializeInt(rb \o rest, 8) = OK(b, 8)
    BY <1>2, <1>5, IntRead
  <2> QED BY <1>7, <1>10, <2>1
<1>12. deserializeUuid(buf)
         = CASE hi.status # "OK" -> hi
             [] hi.status = "OK" /\ lo.status # "OK" -> lo
             [] OTHER -> OK(lo.value \o hi.value, 16)
  BY Zenon DEF deserializeUuid
<1> HIDE DEF hi, lo
<1>13. hi.status = "OK" /\ hi.value = a /\ lo.status = "OK" /\ lo.value = b
  BY <1>9, <1>11 DEF OK
<1>14. deserializeUuid(buf) = OK(lo.value \o hi.value, 16)
  BY <1>12, <1>13
<1>15. serializeUuid(uuid) \in Seq(Byte) /\ Len(serializeUuid(uuid)) = 16
  <2>1. ra \o rb \in Seq(Byte) /\ Len(ra \o rb) = Len(ra) + Len(rb)
    BY Concatenated
  <2>2. Len(ra) + Len(rb) = 16
    BY <1>4, <1>5
  <2> QED BY <1>6, <2>1, <2>2
<1> QED BY <1>3, <1>13, <1>14, <1>15 DEF buf

(***************************************************************************)
(* Every field of every kind is read as it was written, whatever fields    *)
(* follow it, and the buffer moves on by exactly the bytes written.  A     *)
(* payload is read field by field, so this is the step from one field to   *)
(* the next.                                                               *)
(***************************************************************************)
THEOREM FieldRoundTrip ==
  ASSUME NEW kind \in DOMAIN Width \cup {"bool", "varint", "string", "uuid"},
         NEW v \in FieldValue(kind), NEW rest \in Seq(Byte)
  PROVE  deserializeField(kind, serializeField(kind, v) \o rest)
           = OK(v, Len(serializeField(kind, v)))
<1>1. DOMAIN Width
        = {"int8", "int16", "int32", "int64", "float32", "float64"}
  BY DEF Width
<1>2. CASE kind \in DOMAIN Width
  <2> kind \notin {"bool", "varint", "string", "uuid", "tail"}
    BY <1>1, <1>2
  <2>1. v \in Seq(Byte) /\ Len(v) = Width[kind]
    BY <1>2 DEF FieldValue
  <2>2. serializeField(kind, v) = serializeInt(v)
    BY <1>2 DEF serializeField
  <2>3. \A buf : deserializeField(kind, buf) = deserializeInt(buf, Width[kind])
    BY <1>2 DEF deserializeField
  <2>4. Len(serializeInt(v)) = Len(v)
    BY <2>1, Reversed DEF serializeInt
  <2> QED BY <2>1, <2>2, <2>3, <2>4, IntRead
<1>3. CASE kind = "bool"
  <2>1. v \in BOOLEAN
    BY <1>1, <1>3 DEF FieldValue
  <2>2. serializeField(kind, v) = serializeBool(v)
    BY <1>1, <1>3 DEF serializeField
  <2>3. \A buf : deserializeField(kind, buf) = deserializeBool(buf)
    BY <1>1, <1>3 DEF deserializeField
  <2>4. Len(serializeBool(v)) = 1
    BY DEF serializeBool
  <2> QED BY <2>1, <2>2, <2>3, <2>4, BoolRead
<1>4. CASE kind = "varint"
  <2>1. v \in Int32
    BY <1>1, <1>4 DEF FieldValue
  <2>2. serializeField(kind, v) = encodeVarInt(v)
    BY <1>1, <1>4 DEF serializeField
  <2>3. \A buf : deserializeField(kind, buf) = deserializeVarInt(buf)
    BY <1>1, <1>4 DEF deserializeField
  <2> QED BY <2>1, <2>2, <2>3, VarIntRoundTrip DEF OK
<1>5. CASE kind = "string"
  <2>1. v \in Seq(Byte) /\ Len(v) \in Int32
    BY <1>1, <1>5 DEF FieldValue
  <2>2. serializeField(kind, v) = serializeString(v)
    BY <1>1, <1>5 DEF serializeField
  <2>3. \A buf : deserializeField(kind, buf) = deserializeString(buf)
    BY <1>1, <1>5 DEF deserializeField
  <2> QED BY <2>1, <2>2, <2>3, StringRead
<1>6. CASE kind = "uuid"
  <2>1. v \in Seq(Byte) /\ Len(v) = 16
    BY <1>1, <1>6 DEF FieldValue
  <2>2. serializeField(kind, v) = serializeUuid(v)
    BY <1>1, <1>6 DEF serializeField
  <2>3. \A buf : deserializeField(kind, buf) = deserializeUuid(buf)
    BY <1>1, <1>6 DEF deserializeField
  <2> QED BY <2>1, <2>2, <2>3, UuidRead
<1> QED BY <1>2, <1>3, <1>4, <1>5, <1>6
------------------------------------------------------------------------------
\* The bits of a word that was shifted.
LEMMA Shifted ==
  ASSUME NEW word \in SUBSET Int, NEW k \in Int, NEW n \in Nat
  PROVE  \A b : b \in ShiftBy(word, k, n) <=> b \in 0 .. n - 1 /\ b - k \in word
BY DEF ShiftBy
------------------------------------------------------------------------------
(***************************************************************************)
(* Positions.  A word's lowest 26 bits, the highest of them as its sign.   *)
(***************************************************************************)
Word == SUBSET (0 .. 31)

Extended(word) == (word \cap 0 .. 25) \cup (IF 25 \in word THEN 26 .. 31 ELSE {})

\* The bits of a position: three fields that do not overlap.
LEMMA PositionBits ==
  ASSUME NEW c, c.x \in Word, c.y \in Word, c.z \in Word
  PROVE  /\ toPosition(c) \in SUBSET (0 .. 63)
         /\ \A b \in 38 .. 63 : b \in toPosition(c) <=> b - 38 \in c.x
         /\ \A b \in 12 .. 37 : b \in toPosition(c) <=> b - 12 \in c.z
         /\ \A b \in 0 .. 11 : b \in toPosition(c) <=> b \in c.y
<1> DEFINE xs == ShiftBy(c.x \cap XZBits, 38, 64)
           zs == ShiftBy(c.z \cap XZBits, 12, 64)
           ys == c.y \cap YBits
<1>1. \A b : b \in xs <=> b \in 38 .. 63 /\ b - 38 \in c.x
  <2>1. \A b : b \in xs <=> b \in 0 .. 64 - 1 /\ b - 38 \in c.x \cap XZBits
    BY Shifted DEF XZBits
  <2> HIDE DEF xs
  <2> QED BY <2>1 DEF XZBits, Word
<1>2. \A b : b \in zs <=> b \in 12 .. 37 /\ b - 12 \in c.z
  <2>1. \A b : b \in zs <=> b \in 0 .. 64 - 1 /\ b - 12 \in c.z \cap XZBits
    BY Shifted DEF XZBits
  <2> HIDE DEF zs
  <2> QED BY <2>1 DEF XZBits, Word
<1>3. \A b : b \in ys <=> b \in 0 .. 11 /\ b \in c.y
  BY DEF YBits
<1>4. toPosition(c) = xs \cup zs \cup ys
  BY DEF toPosition
<1> HIDE DEF xs, ys, zs
<1>5. \A b : b \in toPosition(c)
               <=> \/ b \in 38 .. 63 /\ b - 38 \in c.x
                   \/ b \in 12 .. 37 /\ b - 12 \in c.z
                   \/ b \in 0 .. 11 /\ b \in c.y
  BY <1>1, <1>2, <1>3, <1>4
<1> QED BY <1>5

\* An arithmetic shift of 64 bits by 38, cut to 32 bits.
LEMMA ShiftedDown ==
  ASSUME NEW word \in SUBSET (0 .. 63)
  PROVE  \A b : b \in ashr(word, 38, 64) \cap (0 .. 31)
                  <=> b \in 0 .. 31 /\ IF b <= 25 THEN b + 38 \in word ELSE 63 \in word
<1>1. \A b : b \in ShiftBy(word, -38, 64) <=> b \in 0 .. 64 - 1 /\ b - (-38) \in word
  BY Shifted
<1>2. \A b : b \in ashr(word, 38, 64)
               <=> b \in ShiftBy(word, -38, 64) \/ (63 \in word /\ b \in 26 .. 63)
  BY DEF ashr
<1>3. \A b \in 0 .. 31 : b - (-38) = b + 38
  OBVIOUS
<1>4. \A b \in 0 .. 31 : b > 25 => b + 38 \notin word
  OBVIOUS
<1> QED BY <1>1, <1>2, <1>3, <1>4

(***************************************************************************)
(* What comes back: x and z with the sign of their 26 bits, y without one. *)
(***************************************************************************)
THEOREM PositionWords ==
  ASSUME NEW c, c.x \in Word, c.y \in Word, c.z \in Word
  PROVE  fromPosition(toPosition(c))
           = [x |-> Extended(c.x), y |-> c.y \cap (0 .. 11), z |-> Extended(c.z)]
<1> DEFINE p == toPosition(c)
           up == ShiftBy(p, 26, 64)
<1>1. /\ p \in SUBSET (0 .. 63)
      /\ \A b \in 38 .. 63 : b \in p <=> b - 38 \in c.x
      /\ \A b \in 12 .. 37 : b \in p <=> b - 12 \in c.z
      /\ \A b \in 0 .. 11 : b \in p <=> b \in c.y
  BY PositionBits
<1> HIDE DEF p
<1>2. /\ up \in SUBSET (0 .. 63)
      /\ \A b \in 38 .. 63 : b \in up <=> b - 38 \in c.z
  <2>1. \A b : b \in up <=> b \in 0 .. 64 - 1 /\ b - 26 \in p
    BY <1>1, Shifted
  <2> HIDE DEF up
  <2>2. up \in SUBSET (0 .. 63)
    BY <2>1
  <2>3. ASSUME NEW b \in 38 .. 63 PROVE b \in up <=> b - 38 \in c.z
    <3>1. PICK a \in 12 .. 37 : a = b - 26
      OBVIOUS
    <3>2. b \in up <=> a \in p
      BY <2>1, <3>1
    <3>3. a \in p <=> a - 12 \in c.z
      BY <1>1
    <3>4. a - 12 = b - 38
      BY <3>1
    <3> QED BY <3>2, <3>3, <3>4
  <2> QED BY <2>2, <2>3
<1> HIDE DEF up
<1>3. ASSUME NEW word \in SUBSET (0 .. 63), NEW field \in Word,
             \A b \in 38 .. 63 : b \in word <=> b - 38 \in field
      PROVE  ashr(word, 38, 64) \cap (0 .. 31) = Extended(field)
  <2>1. 63 \in word <=> 25 \in field
    BY <1>3
  <2>2. ASSUME NEW b \in 0 .. 25 PROVE b + 38 \in word <=> b \in field
    <3>1. b + 38 \in 38 .. 63 /\ (b + 38) - 38 = b
      OBVIOUS
    <3> QED BY <1>3, <3>1
  <2>3. \A b : b \in Extended(field)
                 <=> b \in 0 .. 31 /\ IF b <= 25 THEN b \in field ELSE 25 \in field
    BY DEF Extended
  <2> QED BY <2>1, <2>2, <2>3, ShiftedDown
<1>4. p \cap YBits = c.y \cap (0 .. 11)
  BY <1>1 DEF YBits
<1>5. fromPosition(p) = [x |-> ashr(p, 38, 64) \cap (0 .. 31),
                         y |-> p \cap YBits,
                         z |-> ashr(up, 38, 64) \cap (0 .. 31)]
  BY DEF fromPosition, up
<1>6. ashr(p, 38, 64) \cap (0 .. 31) = Extended(c.x)
  BY <1>1, <1>3
<1>7. ashr(up, 38, 64) \cap (0 .. 31) = Extended(c.z)
  BY <1>2, <1>3
<1> QED BY <1>4, <1>5, <1>6, <1>7 DEF p

------------------------------------------------------------------------------
\* A number divided by one beyond it leaves its sign.
LEMMA SignLeft ==
  ASSUME NEW d \in Nat \ {0}, NEW n \in Int, -d <= n, n < d
  PROVE  n \div d = (IF n < 0 THEN -1 ELSE 0)
<1>1. CASE n < 0
  <2>1. n + d \in 0 .. d - 1 /\ n = d * (-1) + (n + d)
    BY <1>1
  <2> QED BY <1>1, <2>1, DivisionUnique
<1>2. CASE n >= 0
  <2>1. n \in 0 .. d - 1 /\ n = d * 0 + n
    BY <1>2
  <2> QED BY <1>2, <2>1, DivisionUnique
<1> QED BY <1>1, <1>2

\* The numbers of 26 bits, sign included.
Fits(n) == n \in Int /\ -33554432 <= n /\ n < 33554432

\* Their highest bits are all the sign.
LEMMA SignBits ==
  ASSUME NEW n, Fits(n), NEW i \in 25 .. 31
  PROVE  i \in BitsOf(n) <=> n < 0
<1>1. n \in Int /\ -33554432 <= n /\ n < 33554432
  BY SMT DEF Fits
<1>2. ASSUME i \in 25 .. 30 PROVE i \in BitsOf(n) <=> n < 0
  <2>1. PICK d \in Nat \ {0} : d = 2 ^ i /\ 33554432 <= d
    <3>1. CASE i = 25
      BY SMT, <3>1
    <3>2. CASE i = 26
      BY SMT, <3>2
    <3>3. CASE i = 27
      BY SMT, <3>3
    <3>4. CASE i = 28
      BY SMT, <3>4
    <3>5. CASE i = 29
      BY SMT, <3>5
    <3>6. CASE i = 30
      BY SMT, <3>6
    <3> QED BY SMT, <1>2, <3>1, <3>2, <3>3, <3>4, <3>5, <3>6
  <2>2. n \div d = (IF n < 0 THEN -1 ELSE 0)
    BY SMT, <1>1, <2>1, SignLeft
  <2>3. i \in BitsOf(n) <=> (n \div d) % 2 = 1
    BY SMT, <1>2, <2>1 DEF BitsOf
  <2> QED BY SMT, <1>1, <2>2, <2>3
<1>3. ASSUME i = 31 PROVE i \in BitsOf(n) <=> n < 0
  BY SMT, <1>1, <1>3 DEF BitsOf
<1> QED BY SMT, <1>2, <1>3

\* So cutting them to 26 bits and extending these loses nothing.
LEMMA ExtendedFits ==
  ASSUME NEW n, Fits(n)
  PROVE  Extended(BitsOf(n)) = BitsOf(n)
<1>1. BitsOf(n) \in SUBSET (0 .. 31)
  BY SMT DEF BitsOf
<1>2. \A i \in 25 .. 31 : i \in BitsOf(n) <=> 25 \in BitsOf(n)
  BY SMT, SignBits
<1> HIDE DEF Fits
<1> QED BY SMT, <1>1, <1>2 DEF Extended

\* A name for the powers, which the provers evaluate for numbers only.
Power2(i) == 2 ^ i

LEMMA Powers ==
  /\ Power2(0) = 1 /\ Power2(1) = 2 /\ Power2(2) = 4 /\ Power2(3) = 8
  /\ Power2(4) = 16 /\ Power2(5) = 32 /\ Power2(6) = 64 /\ Power2(7) = 128
  /\ Power2(8) = 256 /\ Power2(9) = 512 /\ Power2(10) = 1024
  /\ Power2(11) = 2048
  /\ \A i \in 12 .. 30 : Power2(i) \in Nat /\ 4096 <= Power2(i)
<1>1. /\ Power2(12) = 4096 /\ Power2(13) = 8192 /\ Power2(14) = 16384
      /\ Power2(15) = 32768 /\ Power2(16) = 65536 /\ Power2(17) = 131072
      /\ Power2(18) = 262144 /\ Power2(19) = 524288 /\ Power2(20) = 1048576
      /\ Power2(21) = 2097152 /\ Power2(22) = 4194304 /\ Power2(23) = 8388608
      /\ Power2(24) = 16777216 /\ Power2(25) = 33554432 /\ Power2(26) = 67108864
      /\ Power2(27) = 134217728 /\ Power2(28) = 268435456
      /\ Power2(29) = 536870912 /\ Power2(30) = 1073741824
  BY SMT DEF Power2
<1>2. \A i \in 12 .. 30 : Power2(i) \in Nat /\ 4096 <= Power2(i)
  BY SMT, <1>1
<1>3. /\ Power2(0) = 1 /\ Power2(1) = 2 /\ Power2(2) = 4 /\ Power2(3) = 8
      /\ Power2(4) = 16 /\ Power2(5) = 32 /\ Power2(6) = 64 /\ Power2(7) = 128
      /\ Power2(8) = 256 /\ Power2(9) = 512 /\ Power2(10) = 1024
      /\ Power2(11) = 2048
  BY SMT DEF Power2
<1> QED BY SMT, <1>2, <1>3

\* A power of two up to the eleventh divides 4096, with a factor 2 to spare.
Halves(d) == d \in Nat \ {0} /\ \E e \in Nat : d * (2 * e) = 4096

LEMMA HalfPower ==
  ASSUME NEW i \in 0 .. 11
  PROVE  Halves(Power2(i))
<1>1. ASSUME NEW d \in Nat \ {0}, NEW e \in Nat, d * (2 * e) = 4096 PROVE Halves(d)
  BY SMT, <1>1 DEF Halves
<1>2. /\ 1 * (2 * 2048) = 4096 /\ 2 * (2 * 1024) = 4096 /\ 4 * (2 * 512) = 4096
      /\ 8 * (2 * 256) = 4096 /\ 16 * (2 * 128) = 4096 /\ 32 * (2 * 64) = 4096
      /\ 64 * (2 * 32) = 4096 /\ 128 * (2 * 16) = 4096 /\ 256 * (2 * 8) = 4096
      /\ 512 * (2 * 4) = 4096 /\ 1024 * (2 * 2) = 4096 /\ 2048 * (2 * 1) = 4096
  BY SMT
<1>3. /\ Halves(1) /\ Halves(2) /\ Halves(4) /\ Halves(8) /\ Halves(16)
      /\ Halves(32) /\ Halves(64) /\ Halves(128) /\ Halves(256)
      /\ Halves(512) /\ Halves(1024) /\ Halves(2048)
  BY SMT, <1>1, <1>2
<1> QED BY SMT, <1>3, Powers

\* Twice a number more or less makes no difference to whether it is odd.
LEMMA OddEven ==
  ASSUME NEW s \in Int, NEW k \in Int
  PROVE  (2 * k + s) % 2 = s % 2
BY SMT

\* The lowest twelve bits of a number are those of its remainder.
LEMMA RemainderBits ==
  ASSUME NEW n \in Int
  PROVE  BitsOf(n % 4096) = BitsOf(n) \cap (0 .. 11)
<1>1. PICK q \in Int, r \in Int :
        n % 4096 = r /\ n = 4096 * q + r /\ 0 <= r /\ r < 4096
  <2>1. PICK d \in Nat \ {0} : d = 4096
    OBVIOUS
  <2>2. PICK q \in Int, r \in 0 .. d - 1 : n \div d = q /\ n % d = r /\ n = d * q + r
    BY Division, Zenon
  <2>3. r \in Int /\ n % 4096 = r /\ n = 4096 * q + r /\ 0 <= r /\ r < 4096
    BY SMT, <2>1, <2>2
  <2> QED BY SMT, <2>3
<1>2. ASSUME NEW i \in 0 .. 11 PROVE i \in BitsOf(r) <=> i \in BitsOf(n)
  <2>1. PICK d \in Nat \ {0}, e \in Nat : Power2(i) = d /\ d * (2 * e) = 4096
    <3>1. Halves(Power2(i))
      BY HalfPower
    <3>2. PICK e \in Nat : Power2(i) * (2 * e) = 4096
      BY <3>1, SMT DEF Halves
    <3>3. PICK d \in Nat \ {0} : Power2(i) = d
      BY <3>1, SMT DEF Halves
    <3> QED BY SMT, <3>2, <3>3
  <2>2. PICK s \in Int, t \in 0 .. d - 1 : r \div d = s /\ r % d = t /\ r = d * s + t
    BY Division, Zenon
  <2>3. PICK k \in Int : k = e * q
    BY SMT
  <2>4. n = d * (2 * k + s) + t
    <3>1. 4096 * q = d * (2 * k)
      <4>1. (d * (2 * e)) * q = d * (2 * (e * q))
        BY SMT
      <4> QED BY SMT, <2>1, <2>3, <4>1
    <3>2. d * (2 * k + s) = d * (2 * k) + d * s /\ d * s \in Int /\ d * (2 * k) \in Int
      BY SMT
    <3> QED BY SMT, <1>1, <2>2, <3>1, <3>2
  <2>5. n \div d = 2 * k + s
    BY <2>4, DivisionUnique
  <2>6. (n \div d) % 2 = (r \div d) % 2
    BY SMT, <2>2, <2>5, OddEven
  <2> QED BY SMT, <2>1, <2>6 DEF BitsOf, Power2
<1>3. ASSUME NEW i \in 12 .. 30 PROVE i \notin BitsOf(r)
  <2>1. PICK d \in Nat \ {0} : d = Power2(i) /\ 4096 <= d
    BY SMT, Powers
  <2>2. r \div d = 0
    BY SMT, <1>1, <2>1, SignLeft
  <2> QED BY SMT, <2>1, <2>2 DEF BitsOf, Power2
<1>4. 31 \notin BitsOf(r)
  BY SMT, <1>1 DEF BitsOf
<1>5. BitsOf(r) \in SUBSET (0 .. 31)
  BY SMT DEF BitsOf
<1> QED BY SMT, <1>1, <1>2, <1>3, <1>4, <1>5

(***************************************************************************)
(* A position survives the wire for every x and z between -2^25 and        *)
(* 2^25 - 1, and for every y up to its sign.                               *)
(***************************************************************************)
THEOREM PositionCorrect ==
  coord \in [x : Int, y : Int, z : Int] => PositionRoundTrip
<1> SUFFICES ASSUME coord \in [x : Int, y : Int, z : Int] PROVE PositionRoundTrip
  OBVIOUS
<1>1. coord.x \in Int /\ coord.y \in Int /\ coord.z \in Int
  OBVIOUS
<1>2. \A n \in Int : BitsOf(n) \in Word
  BY SMT DEF BitsOf, Word
<1>3. fromPosition(toPosition(WordOf(coord)))
        = [x |-> Extended(BitsOf(coord.x)),
           y |-> BitsOf(coord.y) \cap (0 .. 11),
           z |-> Extended(BitsOf(coord.z))]
  BY <1>1, <1>2, PositionWords DEF WordOf
<1>4. \A n \in Inside : Fits(n)
  <2>1. \A e \in Edge : e \in Int /\ 0 <= e /\ e < 33554432
    BY SMT DEF Edge
  <2> QED BY SMT, <2>1 DEF Inside, Fits
<1>5. \A n \in Inside : Extended(BitsOf(n)) = BitsOf(n)
  BY <1>4, ExtendedFits
<1>6. BitsOf(coord.y % 4096) = BitsOf(coord.y) \cap (0 .. 11)
  BY <1>1, RemainderBits
<1> QED BY <1>3, <1>5, <1>6 DEF PositionRoundTrip
------------------------------------------------------------------------------
(***************************************************************************)
(* The table of bitpack16to14: an entry shifts an input to where its       *)
(* fourteen bits belong, and every input has an entry in every word that   *)
(* these bits reach into.                                                  *)
(***************************************************************************)
LEMMA EntriesRight ==
  \A k \in 0 .. 6 : \A t \in Row14[k + 1] :
    t[1] \in 0 .. 31 /\ t[2] = 14 * t[1] - 64 * k
<1>1. \A t \in Row14[1] : t[1] \in 0 .. 31 /\ t[2] = 14 * t[1] - 64 * 0
  BY DEF Row14
<1>2. \A t \in Row14[2] : t[1] \in 0 .. 31 /\ t[2] = 14 * t[1] - 64 * 1
  BY DEF Row14
<1>3. \A t \in Row14[3] : t[1] \in 0 .. 31 /\ t[2] = 14 * t[1] - 64 * 2
  BY DEF Row14
<1>4. \A t \in Row14[4] : t[1] \in 0 .. 31 /\ t[2] = 14 * t[1] - 64 * 3
  BY DEF Row14
<1>5. \A t \in Row14[5] : t[1] \in 0 .. 31 /\ t[2] = 14 * t[1] - 64 * 4
  BY DEF Row14
<1>6. \A t \in Row14[6] : t[1] \in 0 .. 31 /\ t[2] = 14 * t[1] - 64 * 5
  BY DEF Row14
<1>7. \A t \in Row14[7] : t[1] \in 0 .. 31 /\ t[2] = 14 * t[1] - 64 * 6
  BY DEF Row14
<1> QED BY <1>1, <1>2, <1>3, <1>4, <1>5, <1>6, <1>7

LEMMA EntriesComplete ==
  ASSUME NEW k \in 0 .. 6, NEW n \in 0 .. 31,
         14 * n < 64 * k + 64, 14 * n + 13 >= 64 * k
  PROVE  <<n, 14 * n - 64 * k>> \in Row14[k + 1]
<1>1. CASE k = 0
  <2>1. n \in 0 .. 4
    BY <1>1
  <2> QED BY <1>1, <2>1 DEF Row14
<1>2. CASE k = 1
  <2>1. n \in 4 .. 9
    BY <1>2
  <2> QED BY <1>2, <2>1 DEF Row14
<1>3. CASE k = 2
  <2>1. n \in 9 .. 13
    BY <1>3
  <2> QED BY <1>3, <2>1 DEF Row14
<1>4. CASE k = 3
  <2>1. n \in 13 .. 18
    BY <1>4
  <2> QED BY <1>4, <2>1 DEF Row14
<1>5. CASE k = 4
  <2>1. n \in 18 .. 22
    BY <1>5
  <2> QED BY <1>5, <2>1 DEF Row14
<1>6. CASE k = 5
  <2>1. n \in 22 .. 27
    BY <1>6
  <2> QED BY <1>6, <2>1 DEF Row14
<1>7. CASE k = 6
  <2>1. n \in 27 .. 31
    BY <1>7
  <2> QED BY <1>7, <2>1 DEF Row14
<1> QED BY <1>1, <1>2, <1>3, <1>4, <1>5, <1>6, <1>7

\* Word and bit of a place in the joined words.
LEMMA PlaceAt ==
  ASSUME NEW x \in 0 .. 447
  PROVE  \E k \in 0 .. 6, b \in 0 .. 63 : x = 64 * k + b
<1>1. \/ x \in 0 .. 63 \/ x \in 64 .. 127 \/ x \in 128 .. 191 \/ x \in 192 .. 255
      \/ x \in 256 .. 319 \/ x \in 320 .. 383 \/ x \in 384 .. 447
  OBVIOUS
<1> QED BY <1>1

(***************************************************************************)
(* Words of 32 inputs, 16 bits each.                                       *)
(***************************************************************************)
Input == [0 .. 31 -> SUBSET (0 .. 15)]

\* A word holds what the inputs' bits put into its 64 places.
LEMMA WordOf14 ==
  ASSUME NEW w \in Input, NEW k \in 0 .. 6
  PROVE  \A b : b \in bitpack16to14(w)[k]
                  <=> /\ b \in 0 .. 63
                      /\ \E n \in 0 .. 31 :
                           \E j \in w[n] \cap (0 .. 13) : 64 * k + b = 14 * n + j
<1>1. bitpack16to14(w)[k]
        = UNION {ShiftBy(At14(w, t[1]), t[2], 64) : t \in Row14[k + 1]}
  BY DEF bitpack16to14
<1>2. ASSUME NEW t \in Row14[k + 1], NEW b
      PROVE  b \in ShiftBy(At14(w, t[1]), t[2], 64)
               <=> b \in 0 .. 63 /\ b - t[2] \in w[t[1]] \cap (0 .. 13)
  <2>1. t[1] \in 0 .. 31 /\ t[2] \in Int
    BY EntriesRight
  <2>2. At14(w, t[1]) \in SUBSET Int
    BY DEF At14
  <2>3. b \in ShiftBy(At14(w, t[1]), t[2], 64)
          <=> b \in 0 .. 64 - 1 /\ b - t[2] \in At14(w, t[1])
    BY <2>1, <2>2, Shifted
  <2> QED BY <2>3 DEF At14
<1>3. ASSUME NEW b \in 0 .. 63, NEW t \in Row14[k + 1],
             b - t[2] \in w[t[1]] \cap (0 .. 13)
      PROVE  \E n \in 0 .. 31 :
               \E j \in w[n] \cap (0 .. 13) : 64 * k + b = 14 * n + j
  <2>1. t[1] \in 0 .. 31 /\ t[2] = 14 * t[1] - 64 * k
    BY EntriesRight
  <2>2. PICK n \in 0 .. 31 : n = t[1]
    BY <2>1
  <2>3. PICK j \in w[n] \cap (0 .. 13) : j = b - t[2]
    BY <1>3, <2>2
  <2>4. 64 * k + b = 14 * n + j
    BY <2>1, <2>2, <2>3
  <2> QED BY <2>4
<1>4. ASSUME NEW b \in 0 .. 63, NEW n \in 0 .. 31, NEW j \in w[n] \cap (0 .. 13),
             64 * k + b = 14 * n + j
      PROVE  \E t \in Row14[k + 1] : b - t[2] \in w[t[1]] \cap (0 .. 13)
  <2>1. PICK i \in 0 .. 13 : i = j /\ i \in w[n]
    OBVIOUS
  <2>2. 64 * k + b = 14 * n + i
    BY <1>4, <2>1
  <2>3. 14 * n < 64 * k + 64 /\ 14 * n + 13 >= 64 * k
    BY <2>2
  <2>4. PICK t : t = <<n, 14 * n - 64 * k>> /\ t \in Row14[k + 1]
    BY <2>3, EntriesComplete
  <2>5. t[1] = n /\ b - t[2] = i
    BY <2>2, <2>4
  <2> QED BY <2>1, <2>4, <2>5
<1>5. ASSUME NEW b
      PROVE  b \in bitpack16to14(w)[k]
               <=> /\ b \in 0 .. 63
                   /\ \E t \in Row14[k + 1] : b - t[2] \in w[t[1]] \cap (0 .. 13)
  <2>1. b \in bitpack16to14(w)[k]
          <=> \E t \in Row14[k + 1] : b \in ShiftBy(At14(w, t[1]), t[2], 64)
    BY <1>1
  <2>2. \A t \in Row14[k + 1] :
          b \in ShiftBy(At14(w, t[1]), t[2], 64)
            <=> b \in 0 .. 63 /\ b - t[2] \in w[t[1]] \cap (0 .. 13)
    BY <1>2
  <2> QED BY <2>1, <2>2, Zenon
<1> QED BY <1>3, <1>4, <1>5, Zenon

(***************************************************************************)
(* The words of bitpack16to14, joined, are the lowest fourteen bits of the *)
(* inputs one after the other, whatever the inputs are.                    *)
(***************************************************************************)
LEMMA Packed14 ==
  ASSUME NEW w \in Input
  PROVE  Joined(bitpack16to14(w), 64)
           = UNION {{14 * n + j : j \in w[n] \cap (0 .. 13)} : n \in 0 .. 31}
<1>1. DOMAIN bitpack16to14(w) = 0 .. 6
  BY DEF bitpack16to14
<1>2. ASSUME NEW x
      PROVE  x \in Joined(bitpack16to14(w), 64)
               <=> \E k \in 0 .. 6 : \E b \in bitpack16to14(w)[k] : x = 64 * k + b
  BY <1>1 DEF Joined
<1>3. ASSUME NEW n \in 0 .. 31, NEW j \in w[n] \cap (0 .. 13)
      PROVE  \E k \in 0 .. 6 :
               \E b \in bitpack16to14(w)[k] : 14 * n + j = 64 * k + b
  <2>1. 14 * n + j \in 0 .. 447
    OBVIOUS
  <2>2. PICK k \in 0 .. 6, b \in 0 .. 63 : 14 * n + j = 64 * k + b
    BY <2>1, PlaceAt
  <2>3. \A c : c \in bitpack16to14(w)[k]
                 <=> /\ c \in 0 .. 63
                     /\ \E i \in 0 .. 31 :
                          \E l \in w[i] \cap (0 .. 13) : 64 * k + c = 14 * i + l
    BY WordOf14
  <2>4. 64 * k + b = 14 * n + j
    BY <2>2
  <2>5. b \in bitpack16to14(w)[k]
    BY <2>3, <2>4, Zenon
  <2> QED BY <2>2, <2>5, Zenon
<1>4. ASSUME NEW k \in 0 .. 6, NEW b \in bitpack16to14(w)[k]
      PROVE  \E n \in 0 .. 31 :
               \E j \in w[n] \cap (0 .. 13) : 64 * k + b = 14 * n + j
  <2>1. \A c : c \in bitpack16to14(w)[k]
                 <=> /\ c \in 0 .. 63
                     /\ \E n \in 0 .. 31 :
                          \E j \in w[n] \cap (0 .. 13) : 64 * k + c = 14 * n + j
    BY WordOf14
  <2> QED BY <2>1, Zenon
<1> DEFINE joined == Joined(bitpack16to14(w), 64)
           bits == UNION {{14 * n + j : j \in w[n] \cap (0 .. 13)} : n \in 0 .. 31}
<1>5. \A x : x \in bits
               <=> \E n \in 0 .. 31 : \E j \in w[n] \cap (0 .. 13) : x = 14 * n + j
  OBVIOUS
<1> HIDE DEF bits
<1>6. ASSUME NEW x \in joined PROVE x \in bits
  <2>1. PICK k \in 0 .. 6 : \E b \in bitpack16to14(w)[k] : x = 64 * k + b
    BY <1>2, <1>6, Zenon
  <2>2. PICK b \in bitpack16to14(w)[k] : x = 64 * k + b
    BY <2>1, Zenon
  <2> QED BY <1>4, <1>5, <2>2, Zenon
<1> HIDE DEF joined
<1>7. ASSUME NEW x \in bits PROVE x \in joined
  <2>1. PICK n \in 0 .. 31 : \E j \in w[n] \cap (0 .. 13) : x = 14 * n + j
    BY <1>5, <1>7, Zenon
  <2>2. PICK j \in w[n] \cap (0 .. 13) : x = 14 * n + j
    BY ONLY <2>1, Zenon
  <2>3. \E k \in 0 .. 6 : \E b \in bitpack16to14(w)[k] : x = 64 * k + b
    <3>1. \E k \in 0 .. 6 : \E b \in bitpack16to14(w)[k] : 14 * n + j = 64 * k + b
      BY <1>3, Zenon
    <3> QED BY <2>2, <3>1, Zenon
  <2> QED BY <1>2, <2>3, Zenon DEF joined
<1>8. joined = bits
  BY <1>6, <1>7
<1> QED BY <1>8 DEF joined, bits

\* The word and the byte of bitpack16to9 are the nine bits of the inputs.
LEMMA Packed9 ==
  ASSUME NEW w \in Input, \A n \in 0 .. 7 : w[n] \subseteq 0 .. 8
  PROVE  bitpack16to9(w).lower \cup {64 + b : b \in bitpack16to9(w).upper}
           = UNION {{9 * n + j : j \in w[n]} : n \in 0 .. 7}
<1> DEFINE lower == bitpack16to9(w).lower
           upper == bitpack16to9(w).upper
<1>1. \A x : x \in lower <=> x \in 0 .. 63 /\ \E n \in 0 .. 7 : x - 9 * n \in w[n]
  <2>1. lower = UNION {ShiftBy(w[n], 9 * n, 64) : n \in 0 .. 7}
    BY DEF bitpack16to9
  <2>2. ASSUME NEW n \in 0 .. 7, NEW x
        PROVE  x \in ShiftBy(w[n], 9 * n, 64) <=> x \in 0 .. 64 - 1 /\ x - 9 * n \in w[n]
    BY Shifted DEF Input
  <2> HIDE DEF lower
  <2> QED BY <2>1, <2>2
<1>2. \A x : x \in upper <=> x \in 0 .. 7 /\ x + 1 \in w[7]
  <2>1. upper = ShiftBy(w[7], -1, 8)
    BY DEF bitpack16to9, Upper
  <2>2. \A x : x \in ShiftBy(w[7], -1, 8) <=> x \in 0 .. 8 - 1 /\ x - (-1) \in w[7]
    BY Shifted DEF Input
  <2> HIDE DEF upper
  <2> QED BY <2>1, <2>2
<1> HIDE DEF lower, upper
<1>3. ASSUME NEW n \in 0 .. 7, NEW j \in w[n]
      PROVE  9 * n + j \in lower \/ \E b \in upper : 9 * n + j = 64 + b
  <2>1. j \in 0 .. 8
    OBVIOUS
  <2>2. CASE 9 * n + j <= 63
    BY <1>1, <2>1, <2>2
  <2>3. CASE 9 * n + j > 63
    <3>1. n = 7 /\ j >= 1
      BY <2>1, <2>3
    <3>2. PICK b \in 0 .. 7 : b = j - 1
      BY <2>1, <3>1
    <3>3. b \in upper
      BY <1>2, <2>1, <3>1, <3>2
    <3> QED BY <2>1, <3>1, <3>2, <3>3
  <2> QED BY <2>1, <2>2, <2>3
<1>4. ASSUME NEW x \in lower PROVE \E n \in 0 .. 7 : \E j \in w[n] : x = 9 * n + j
  <2>1. PICK n \in 0 .. 7 : x - 9 * n \in w[n] /\ x \in 0 .. 63
    BY <1>1
  <2>2. x = 9 * n + (x - 9 * n)
    BY <2>1
  <2> QED BY <2>1, <2>2
<1>5. ASSUME NEW b \in upper PROVE \E n \in 0 .. 7 : \E j \in w[n] : 64 + b = 9 * n + j
  <2>1. b \in 0 .. 7 /\ b + 1 \in w[7]
    BY <1>2
  <2>2. 64 + b = 9 * 7 + (b + 1)
    BY <2>1
  <2> QED BY <2>1, <2>2
<1> QED BY <1>3, <1>4, <1>5 DEF lower, upper

(***************************************************************************)
(* Both bit packings are right for every input, not only for the inputs of *)
(* a single bit that the run tries.                                        *)
(***************************************************************************)
THEOREM PackedCorrect == in \in Input => Packed
BY Packed14, Packed9 DEF Packed

==============================================================================
