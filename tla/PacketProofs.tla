----------------------------- MODULE PacketProofs -----------------------------
(***************************************************************************)
(* Proofs about packets as a whole: payloads of any format with any values *)
(* (whole, cut, too long, or of arbitrary bytes), and the stream of them   *)
(* that the packet reader takes apart.                                     *)
(***************************************************************************)
EXTENDS WireProofs, MCPacketReader, MCFields

\* The kinds of fields; tail bytes end a payload.
Kind == DOMAIN Width \cup {"bool", "varint", "string", "uuid"}
AnyKind == Kind \cup {"tail"}

Values(kind) == IF kind = "tail" THEN Seq(Byte) ELSE FieldValue(kind)
AnyValue == UNION {Values(kind) : kind \in AnyKind}

\* The formats of packets.def: only the last field is tail bytes.
Formats ==
  {format \in Seq(AnyKind) : \A i \in 1 .. Len(format) - 1 : format[i] \in Kind}

\* The values a packet of a format is sent with.
ValuesOf(format) ==
  {values \in Seq(AnyValue) :
     /\ Len(values) = Len(format)
     /\ \A i \in 1 .. Len(format) : values[i] \in Values(format[i])}

\* Its fields in bytes.
FieldBytes(format, values) ==
  [i \in DOMAIN format |-> serializeField(format[i], values[i])]

\* What the reading of a payload goes through.
ReadState == [ok : BOOLEAN, values : Seq(AnyValue), rest : Seq(Byte)]
Start(bytes) == [ok |-> TRUE, values |-> <<>>, rest |-> bytes]

LEMMA Kinds ==
  /\ DOMAIN Width = {"int8", "int16", "int32", "int64", "float32", "float64"}
  /\ "tail" \notin Kind
  /\ \A kind \in DOMAIN Width :
       /\ kind \in Kind /\ kind \in AnyKind
       /\ kind \notin {"bool", "varint", "string", "uuid", "tail"}
       /\ Width[kind] \in 1 .. 8
BY DEF Width, Kind, AnyKind

\* Tail bytes, there and back.
LEMMA TailRead ==
  ASSUME NEW bytes
  PROVE  /\ serializeField("tail", bytes) = bytes
         /\ deserializeField("tail", bytes) = OK(bytes, Len(bytes))
<1>1. "tail" \notin DOMAIN Width
  BY Kinds
<1> QED BY <1>1 DEF serializeField, deserializeField

\* Every field is some bytes.
LEMMA FieldIsBytes ==
  ASSUME NEW kind \in AnyKind, NEW v \in Values(kind)
  PROVE  serializeField(kind, v) \in Seq(Byte)
<1>1. CASE kind \in DOMAIN Width
  <2>1. v \in Seq(Byte)
    BY <1>1, Kinds DEF Values, FieldValue
  <2>2. serializeField(kind, v) = Reverse(v)
    BY <1>1, Kinds DEF serializeField, serializeInt
  <2> QED BY <2>1, <2>2, Reversed
<1>2. CASE kind = "bool"
  <2>1. serializeField(kind, v) = serializeBool(v)
    BY <1>2, Kinds DEF serializeField
  <2>2. <<1>> \in Seq(Byte) /\ <<0>> \in Seq(Byte)
    BY SMT DEF Byte
  <2> QED BY <2>1, <2>2 DEF serializeBool
<1>3. CASE kind = "varint"
  <2>1. v \in Int32
    BY <1>3, Kinds DEF Values, FieldValue
  <2>2. serializeField(kind, v) = encodeVarInt(v)
    BY <1>3, Kinds DEF serializeField
  <2> QED BY <2>1, <2>2, Encoded
<1>4. CASE kind = "string"
  <2>1. v \in Seq(Byte) /\ Len(v) \in Int32
    BY <1>4, Kinds DEF Values, FieldValue
  <2>2. serializeField(kind, v) = serializeString(v)
    BY <1>4, Kinds DEF serializeField
  <2>3. <<>> \in Seq(Byte)
    OBVIOUS
  <2> QED BY <2>1, <2>2, <2>3, StringRead
<1>5. CASE kind = "uuid"
  <2>1. v \in Seq(Byte) /\ Len(v) = 16
    BY <1>5, Kinds DEF Values, FieldValue
  <2>2. serializeField(kind, v) = serializeUuid(v)
    BY <1>5, Kinds DEF serializeField
  <2>3. <<>> \in Seq(Byte)
    OBVIOUS
  <2> QED BY <2>1, <2>2, <2>3, UuidRead
<1>6. CASE kind = "tail"
  BY <1>6, TailRead DEF Values
<1> QED BY <1>1, <1>2, <1>3, <1>4, <1>5, <1>6 DEF AnyKind, Kind

------------------------------------------------------------------------------
(***************************************************************************)
(* Numbers among arbitrary bytes: what is read is a number, and it is      *)
(* written with the same bytes unless they were too many or said too much. *)
(***************************************************************************)

\* The number at the start of some bytes has n of them.
EndsAt(bytes, n) == \A i \in 1 .. n : isLast(bytes[i]) <=> i = n

\* The last one says something, and no more than there is room for.
Tight(bytes, n) == (n >= 2 => bytes[n] # 0) /\ (n = 5 => bytes[5] < 16)

\* Where the number ends, and what it is.
LEMMA NumberRead ==
  ASSUME NEW bytes \in Seq(Byte), deserializeVarInt(bytes).status = "OK"
  PROVE  \E n \in 1 .. 5 :
           /\ n <= Len(bytes)
           /\ deserializeVarInt(bytes)
                = [status |-> "OK", value |-> Combine(bytes, n), size |-> n]
           /\ EndsAt(bytes, n)
<1> DEFINE last == {i \in 1 .. MaxLength : i <= Len(bytes) /\ isLast(bytes[i])}
           first == CHOOSE i \in last : \A j \in last : i <= j
<1>1. deserializeVarInt(bytes)
        = CASE last # {} -> [status |-> "OK", value |-> Combine(bytes, first), size |-> first]
            [] last = {} /\ Len(bytes) >= MaxLength -> [status |-> "INVALID"]
            [] last = {} /\ Len(bytes) < MaxLength -> [status |-> "INCOMPLETE"]
  BY Zenon DEF deserializeVarInt, last, first
<1>2. last # {}
  <2> SUFFICES ASSUME last = {} PROVE FALSE
    OBVIOUS
  <2>1. Len(bytes) >= MaxLength \/ Len(bytes) < MaxLength
    BY DEF MaxLength
  <2> HIDE DEF last, first
  <2> QED BY <1>1, <2>1
<1>3. last \in SUBSET Nat
  BY DEF MaxLength
<1>4. \E i \in last : \A j \in last : i <= j
  <2> HIDE DEF last
  <2> QED BY Zenon, <1>2, <1>3, Least
<1>5. first \in last /\ \A j \in last : first <= j
  <2> HIDE DEF last
  <2> QED BY Zenon, <1>4
<1> HIDE DEF first
<1>6. /\ first \in 1 .. 5 /\ first <= Len(bytes)
      /\ \A i \in 1 .. first : isLast(bytes[i]) <=> i = first
  BY <1>5 DEF MaxLength
<1> HIDE DEF last
<1>7. deserializeVarInt(bytes)
        = [status |-> "OK", value |-> Combine(bytes, first), size |-> first]
  BY <1>1, <1>2
<1> QED BY Zenon, <1>6, <1>7 DEF EndsAt

\* Five groups of seven bits, four in the last.
Digits == {g \in [1 .. 5 -> 0 .. 127] : g[5] < 16}

LEMMA SumIsInt32 ==
  ASSUME NEW g \in Digits
  PROVE  Sum(g) \in Int32
<1>1. PICK a, b, c, d, e \in Int :
        /\ a = g[1] /\ b = g[2] /\ c = g[3] /\ d = g[4] /\ e = g[5]
        /\ 0 <= a /\ a < 128 /\ 0 <= b /\ b < 128 /\ 0 <= c /\ c < 128
        /\ 0 <= d /\ d < 128 /\ 0 <= e /\ e < 16
  <2>1. \A i \in 1 .. 5 : g[i] \in Int /\ 0 <= g[i] /\ g[i] < 128
    BY DEF Digits
  <2>2. g[5] < 16
    BY DEF Digits
  <2>3. 1 \in 1 .. 5 /\ 2 \in 1 .. 5 /\ 3 \in 1 .. 5 /\ 4 \in 1 .. 5 /\ 5 \in 1 .. 5
    OBVIOUS
  <2> QED BY Zenon, <2>1, <2>2, <2>3
<1>2. Sum(g) = a + b * 128 + c * 16384 + d * 2097152
                 + (IF e < 8 THEN e ELSE e - 16) * 268435456
  BY SMT, <1>1 DEF Sum
<1> QED BY SMT, <1>1, <1>2 DEF Int32

\* There is only one way to write a number in them.
LEMMA SumUnique ==
  ASSUME NEW g \in Digits, NEW h \in Digits, Sum(g) = Sum(h)
  PROVE  g = h
<1>1. PICK a, b, c, d, e \in Int :
        /\ a = g[1] /\ b = g[2] /\ c = g[3] /\ d = g[4] /\ e = g[5]
        /\ 0 <= a /\ a < 128 /\ 0 <= b /\ b < 128 /\ 0 <= c /\ c < 128
        /\ 0 <= d /\ d < 128 /\ 0 <= e /\ e < 16
  <2>1. \A i \in 1 .. 5 : g[i] \in Int /\ 0 <= g[i] /\ g[i] < 128
    BY DEF Digits
  <2>2. g[5] < 16
    BY DEF Digits
  <2>3. 1 \in 1 .. 5 /\ 2 \in 1 .. 5 /\ 3 \in 1 .. 5 /\ 4 \in 1 .. 5 /\ 5 \in 1 .. 5
    OBVIOUS
  <2> QED BY Zenon, <2>1, <2>2, <2>3
<1>2. PICK k, l, m, n, o \in Int :
        /\ k = h[1] /\ l = h[2] /\ m = h[3] /\ n = h[4] /\ o = h[5]
        /\ 0 <= k /\ k < 128 /\ 0 <= l /\ l < 128 /\ 0 <= m /\ m < 128
        /\ 0 <= n /\ n < 128 /\ 0 <= o /\ o < 16
  <2>1. \A i \in 1 .. 5 : h[i] \in Int /\ 0 <= h[i] /\ h[i] < 128
    BY DEF Digits
  <2>2. h[5] < 16
    BY DEF Digits
  <2>3. 1 \in 1 .. 5 /\ 2 \in 1 .. 5 /\ 3 \in 1 .. 5 /\ 4 \in 1 .. 5 /\ 5 \in 1 .. 5
    OBVIOUS
  <2> QED BY Zenon, <2>1, <2>2, <2>3
<1>3. PICK s, t \in Int : /\ s = (IF e < 8 THEN e ELSE e - 16)
                          /\ t = (IF o < 8 THEN o ELSE o - 16)
  BY <1>1, <1>2
<1>4. a + b * 128 + c * 16384 + d * 2097152 + s * 268435456
        = k + l * 128 + m * 16384 + n * 2097152 + t * 268435456
  BY SMT, <1>1, <1>2, <1>3 DEF Sum
<1>5. PICK p \in Int : p = (l - b) + (m - c) * 128 + (n - d) * 16384 + (t - s) * 2097152
  OBVIOUS
<1>6. a - k = 128 * p
  BY SMT, <1>4, <1>5
<1>7. a = k /\ p = 0
  BY SMT, <1>1, <1>2, <1>6
<1>8. PICK q \in Int : q = (m - c) + (n - d) * 128 + (t - s) * 16384
  OBVIOUS
<1>9. b = l /\ q = 0
  <2>1. b - l = 128 * q
    BY SMT, <1>5, <1>7, <1>8
  <2> QED BY SMT, <1>1, <1>2, <2>1
<1>10. c = m /\ d = n /\ s = t
  <2>1. PICK r \in Int : r = (n - d) + (t - s) * 128
    OBVIOUS
  <2>2. c - m = 128 * r
    BY SMT, <1>8, <1>9, <2>1
  <2>3. c = m /\ r = 0
    BY SMT, <1>1, <1>2, <2>2
  <2>4. d - n = 128 * (t - s)
    BY SMT, <2>1, <2>3
  <2>5. d = n /\ t - s = 0
    BY SMT, <1>1, <1>2, <1>3, <2>4
  <2> QED BY SMT, <2>3, <2>5
<1>11. e = o
  BY <1>1, <1>2, <1>3, <1>10
<1>12. \A i \in 1 .. 5 : g[i] = h[i]
  <2>1. \A i \in 1 .. 5 : i = 1 \/ i = 2 \/ i = 3 \/ i = 4 \/ i = 5
    OBVIOUS
  <2> QED BY Zenon, <1>1, <1>2, <1>7, <1>9, <1>10, <1>11, <2>1
<1> QED BY <1>12 DEF Digits

\* The bytes are below 256.
LEMMA ByteAt ==
  ASSUME NEW bytes \in Seq(Byte), NEW n \in Nat, n <= Len(bytes)
  PROVE  \A i \in 1 .. n : bytes[i] \in 0 .. 255
<1>1. \A i \in 1 .. n : bytes[i] \in Byte
  OBVIOUS
<1> QED BY <1>1 DEF Byte

\* The groups of the first n bytes.
GroupsOf(bytes, n) ==
  [i \in 1 .. 5 |->
     IF i > n THEN 0 ELSE IF i = 5 THEN (bytes[5] % 128) % 16 ELSE bytes[i] % 128]

LEMMA GroupsOfDigits ==
  ASSUME NEW bytes \in Seq(Byte), NEW n \in 1 .. 5, n <= Len(bytes)
  PROVE  /\ GroupsOf(bytes, n) \in Digits
         /\ Combine(bytes, n) = Sum(GroupsOf(bytes, n))
<1>1. \A i \in 1 .. n : bytes[i] \in 0 .. 255
  <2>1. n \in Nat
    OBVIOUS
  <2> QED BY Zenon, <2>1, ByteAt
<1>2. \A m \in 0 .. 255 : m % 128 \in 0 .. 127 /\ (m % 128) % 16 \in 0 .. 15
  OBVIOUS
<1> DEFINE g == GroupsOf(bytes, n)
<1>3. ASSUME NEW i \in 1 .. 5
      PROVE  /\ g[i] = IF i > n THEN 0
                       ELSE IF i = 5 THEN (bytes[5] % 128) % 16 ELSE bytes[i] % 128
             /\ g[i] \in 0 .. 127 /\ (i = 5 => g[i] < 16)
  <2>1. g[i] = IF i > n THEN 0
               ELSE IF i = 5 THEN (bytes[5] % 128) % 16 ELSE bytes[i] % 128
    BY DEF GroupsOf
  <2>2. CASE i > n
    BY <2>1, <2>2
  <2>3. CASE i <= n
    <3>1. i \in 1 .. n /\ ~(i > n)
      BY <2>3
    <3>2. PICK m \in 0 .. 255 : m = bytes[i]
      BY Zenon, <1>1, <3>1
    <3>3. g[i] = IF i = 5 THEN (m % 128) % 16 ELSE m % 128
      BY <2>1, <3>1, <3>2
    <3>4. m % 128 \in 0 .. 127 /\ (m % 128) % 16 \in 0 .. 15
      BY <1>2, <3>2
    <3>5. g[i] \in 0 .. 127 /\ (i = 5 => g[i] < 16)
      BY ONLY <3>3, <3>4
    <3> QED BY <2>1, <3>5
  <2> QED BY <2>1, <2>2, <2>3
<1>4. g \in Digits
  <2>1. g = [i \in 1 .. 5 |-> g[i]]
    BY DEF GroupsOf
  <2>2. \A i \in 1 .. 5 : g[i] \in 0 .. 127
    BY <1>3
  <2>3. g[5] < 16
    BY <1>3
  <2> HIDE DEF g
  <2>4. g \in [1 .. 5 -> 0 .. 127]
    BY ONLY <2>1, <2>2
  <2> QED BY Zenon, <2>3, <2>4 DEF Digits
<1>5. Combine(bytes, n) = Sum(g)
  <2> DEFINE group(i) == IF i <= n THEN bytes[i] % 128 ELSE 0
  <2>1. /\ g[1] = group(1) /\ g[2] = group(2) /\ g[3] = group(3) /\ g[4] = group(4)
        /\ g[5] = group(5) % 16
    BY <1>3
  <2>2. Shift[2] = 128 /\ Shift[3] = 16384 /\ Shift[4] = 2097152 /\ Shift[5] = 268435456
    BY SMT DEF Shift
  <2>3. Combine(bytes, n)
          = group(1) + group(2) * Shift[2] + group(3) * Shift[3] + group(4) * Shift[4]
              + (IF group(5) % 16 < 8 THEN group(5) % 16 ELSE (group(5) % 16) - 16) * Shift[5]
    BY SMT DEF Combine
  <2> HIDE DEF group, g
  <2> QED BY SMT, <2>1, <2>2, <2>3 DEF Sum
<1> QED BY Zenon, <1>4, <1>5

LEMMA ContinuedByte ==
  ASSUME NEW m \in 0 .. 255
  PROVE  /\ m % 128 \in 0 .. 127
         /\ m < 128 => m = m % 128
         /\ ~(m < 128) => m = (m % 128) + 128
<1>1. m < 128 => m % 128 = m
  OBVIOUS
<1>2. ~(m < 128) => m % 128 = m - 128
  OBVIOUS
<1>3. m < 128 \/ (128 <= m /\ m <= 255)
  OBVIOUS
<1> QED BY <1>1, <1>2, <1>3

Number(a, b, c, d, e) ==
  a + b * 128 + c * 16384 + d * 2097152 + (IF e < 8 THEN e ELSE e - 16) * 268435456

\* How many of the groups count.
Counting(n, b, c, d, e) ==
  /\ b = 0 /\ c = 0 /\ d = 0 /\ e = 0 => n = 1
  /\ b # 0 /\ c = 0 /\ d = 0 /\ e = 0 => n = 2
  /\ c # 0 /\ d = 0 /\ e = 0 => n = 3
  /\ d # 0 /\ e = 0 => n = 4
  /\ e # 0 => n = 5

\* How large a number is by the groups it has.
LEMMA NumberSize ==
  ASSUME NEW a \in 0 .. 127, NEW b \in 0 .. 127, NEW c \in 0 .. 127, NEW d \in 0 .. 127,
         NEW e \in 0 .. 15
  PROVE  Counting(wireSize(Number(a, b, c, d, e)), b, c, d, e)
<1>0. PICK v \in Int : v = Number(a, b, c, d, e)
  BY SMT DEF Number
<1>1. PICK x \in Int : x = a + b * 128 /\ 0 <= x /\ x < 16384 /\ (b = 0 => x < 128)
                      /\ (b # 0 => 128 <= x)
  <2>1. PICK x \in Int : x = a + b * 128
    OBVIOUS
  <2> QED BY <2>1
<1>2. PICK y \in Int : y = x + c * 16384 /\ 0 <= y /\ y < 2097152 /\ (c = 0 => y = x)
                      /\ (c # 0 => 16384 <= y)
  <2>1. PICK y \in Int : y = x + c * 16384
    OBVIOUS
  <2> QED BY SMT, <1>1, <2>1
<1>3. PICK z \in Int : z = y + d * 2097152 /\ 0 <= z /\ z < 268435456 /\ (d = 0 => z = y)
                      /\ (d # 0 => 2097152 <= z)
  <2>1. PICK z \in Int : z = y + d * 2097152
    BY SMT
  <2> QED BY SMT, <1>2, <2>1
<1>4. PICK t \in Int : /\ t = IF e < 8 THEN e ELSE e - 16
                       /\ e = 0 => t = 0
                       /\ e # 0 => t <= -1 \/ t >= 1
  OBVIOUS
<1>5. v = z + t * 268435456
  BY SMT, <1>0, <1>1, <1>2, <1>3, <1>4 DEF Number
<1>6. /\ e = 0 => v = z
      /\ e # 0 => v < 0 \/ 268435456 <= v
  BY SMT, <1>3, <1>4, <1>5
<1>7. b = 0 /\ c = 0 /\ d = 0 /\ e = 0 => wireSize(v) = 1
  <2> SUFFICES ASSUME b = 0, c = 0, d = 0, e = 0 PROVE wireSize(v) = 1
    OBVIOUS
  <2>1. 0 <= v /\ v < 128
    BY SMT, <1>1, <1>2, <1>3, <1>6
  <2> QED BY SMT, <2>1 DEF wireSize
<1>8. b # 0 /\ c = 0 /\ d = 0 /\ e = 0 => wireSize(v) = 2
  <2> SUFFICES ASSUME b # 0, c = 0, d = 0, e = 0 PROVE wireSize(v) = 2
    OBVIOUS
  <2>1. 128 <= v /\ v < 16384
    BY SMT, <1>1, <1>2, <1>3, <1>6
  <2> QED BY SMT, <2>1 DEF wireSize
<1>9. c # 0 /\ d = 0 /\ e = 0 => wireSize(v) = 3
  <2> SUFFICES ASSUME c # 0, d = 0, e = 0 PROVE wireSize(v) = 3
    OBVIOUS
  <2>1. 16384 <= v /\ v < 2097152
    BY SMT, <1>1, <1>2, <1>3, <1>6
  <2> QED BY SMT, <2>1 DEF wireSize
<1>10. d # 0 /\ e = 0 => wireSize(v) = 4
  <2> SUFFICES ASSUME d # 0, e = 0 PROVE wireSize(v) = 4
    OBVIOUS
  <2>1. 2097152 <= v /\ v < 268435456
    BY SMT, <1>1, <1>2, <1>3, <1>6
  <2> QED BY SMT, <2>1 DEF wireSize
<1>11. e # 0 => wireSize(v) = 5
  <2> SUFFICES ASSUME e # 0 PROVE wireSize(v) = 5
    OBVIOUS
  <2>1. v < 0 \/ 268435456 <= v
    BY SMT, <1>6
  <2> QED BY SMT, <2>1 DEF wireSize
<1>12. Counting(wireSize(v), b, c, d, e)
  BY <1>7, <1>8, <1>9, <1>10, <1>11 DEF Counting
<1> QED BY Zenon, <1>0, <1>12

LEMMA SizeOfSum ==
  ASSUME NEW g \in Digits
  PROVE  Counting(wireSize(Sum(g)), g[2], g[3], g[4], g[5])
<1>1. /\ g[1] \in 0 .. 127 /\ g[2] \in 0 .. 127 /\ g[3] \in 0 .. 127 /\ g[4] \in 0 .. 127
      /\ g[5] \in 0 .. 15
  <2>1. \A i \in 1 .. 5 : g[i] \in 0 .. 127
    BY DEF Digits
  <2>2. \A m \in 0 .. 127 : m < 16 => m \in 0 .. 15
    OBVIOUS
  <2>3. g[5] < 16
    BY Zenon DEF Digits
  <2>4. 1 \in 1 .. 5 /\ 2 \in 1 .. 5 /\ 3 \in 1 .. 5 /\ 4 \in 1 .. 5 /\ 5 \in 1 .. 5
    OBVIOUS
  <2> QED BY ZenonT(60), <2>1, <2>2, <2>3, <2>4
<1>2. Sum(g) = Number(g[1], g[2], g[3], g[4], g[5])
  BY SMT DEF Sum, Number
<1>3. PICK a \in 0 .. 127, b \in 0 .. 127, c \in 0 .. 127, d \in 0 .. 127, e \in 0 .. 15 :
        a = g[1] /\ b = g[2] /\ c = g[3] /\ d = g[4] /\ e = g[5]
  BY Zenon, <1>1
<1>4. Sum(g) = Number(a, b, c, d, e)
  BY Zenon, <1>2, <1>3
<1>5. Counting(wireSize(Number(a, b, c, d, e)), b, c, d, e)
  BY Zenon, <1>3, NumberSize
<1> QED BY Zenon, <1>3, <1>4, <1>5

\* The groups of a number, as digits.
LEMMA NumberDigits ==
  ASSUME NEW v \in Int32
  PROVE  /\ [i \in 1 .. 5 |-> Group(v, i)] \in Digits
         /\ v = Sum([i \in 1 .. 5 |-> Group(v, i)])
<1> DEFINE h == [i \in 1 .. 5 |-> Group(v, i)]
<1>1. v = Sum(h)
  BY Groups, PTL
<1>2. (\A i \in 1 .. 4 : Group(v, i) \in 0 .. 127) /\ Group(v, 5) \in 0 .. 15
  BY Groups, PTL
<1>3. \A i \in 1 .. 5 : Group(v, i) \in 0 .. 127
  <2>1. \A i \in 1 .. 5 : i \in 1 .. 4 \/ i = 5
    OBVIOUS
  <2>2. \A m \in 0 .. 15 : m \in 0 .. 127
    OBVIOUS
  <2> QED BY Zenon, <1>2, <2>1, <2>2
<1>4. h \in Digits
  <2>1. h \in [1 .. 5 -> 0 .. 127]
    BY <1>3
  <2>2. h[5] < 16
    <3>1. \A m \in 0 .. 15 : m < 16
      OBVIOUS
    <3>2. h[5] = Group(v, 5)
      OBVIOUS
    <3> HIDE DEF h
    <3> QED BY Zenon, <1>2, <3>1, <3>2
  <2> HIDE DEF h
  <2> QED BY Zenon, <2>1, <2>2 DEF Digits
<1> QED BY Zenon, <1>1, <1>4

\* Written again, a number read with no byte to spare has the bytes it was
\* read from.
LEMMA NumberInverse ==
  ASSUME NEW bytes \in Seq(Byte), NEW n \in 1 .. 5, n <= Len(bytes),
         EndsAt(bytes, n), Tight(bytes, n)
  PROVE  encodeVarInt(Combine(bytes, n)) = SubSeq(bytes, 1, n)
<1>1. PICK g \in Digits : g = GroupsOf(bytes, n) /\ Combine(bytes, n) = Sum(g)
  BY GroupsOfDigits
<1>2. PICK v \in Int32 : v = Combine(bytes, n)
  BY Zenon, <1>1, SumIsInt32
<1>3. \A i \in 1 .. n : bytes[i] \in 0 .. 255
  <2>1. n \in Nat
    OBVIOUS
  <2> QED BY Zenon, <2>1, ByteAt
<1>4. ASSUME NEW i \in 1 .. n
      PROVE  /\ g[i] \in 0 .. 127
             /\ i = n => bytes[i] = g[i]
             /\ i # n => bytes[i] = g[i] + 128
  <2>1. PICK m \in 0 .. 255 : m = bytes[i]
    BY Zenon, <1>3
  <2>2. m < 128 <=> i = n
    BY Zenon, <2>1 DEF isLast, EndsAt
  <2>3. g[i] = m % 128
    <3>1. CASE i = 5
      <4>1. m < 16
        BY <2>1, <3>1 DEF Tight
      <4>2. g[i] = (m % 128) % 16
        BY <1>1, <2>1, <3>1 DEF GroupsOf
      <4> QED BY <4>1, <4>2
    <3>2. CASE i # 5
      BY <1>1, <2>1, <3>2 DEF GroupsOf
    <3> QED BY <3>1, <3>2
  <2>4. /\ m % 128 \in 0 .. 127
        /\ m < 128 => m = m % 128
        /\ ~(m < 128) => m = (m % 128) + 128
    BY Zenon, <2>1, ContinuedByte
  <2>5. i = n => m < 128
    BY Zenon, <2>2
  <2>6. i # n => ~(m < 128)
    BY Zenon, <2>2
  <2>7. g[i] \in 0 .. 127
    BY SMT, <2>3, <2>4
  <2>8. i = n => bytes[i] = g[i]
    BY Zenon, <2>1, <2>3, <2>4, <2>5
  <2>9. i # n => bytes[i] = g[i] + 128
    BY Zenon, <2>1, <2>3, <2>4, <2>6
  <2> QED BY Zenon, <2>7, <2>8, <2>9
<1>7. \A i \in 1 .. 5 : i > n => g[i] = 0
  BY <1>1 DEF GroupsOf
<1>8. n >= 2 => g[n] # 0
  <2> SUFFICES ASSUME n >= 2 PROVE g[n] # 0
    OBVIOUS
  <2>1. n \in 1 .. n /\ ~(n < n)
    OBVIOUS
  <2>2. bytes[n] = g[n]
    BY Zenon, <1>4, <2>1
  <2>3. bytes[n] # 0
    BY DEF Tight
  <2> QED BY Zenon, <2>2, <2>3
<1>9. wireSize(v) = n
  <2>1. Counting(wireSize(v), g[2], g[3], g[4], g[5])
    BY Zenon, <1>1, <1>2, SizeOfSum
  <2>2. n = 1 \/ n = 2 \/ n = 3 \/ n = 4 \/ n = 5
    OBVIOUS
  <2>3. /\ n = 1 => g[2] = 0 /\ g[3] = 0 /\ g[4] = 0 /\ g[5] = 0
        /\ n = 2 => g[2] # 0 /\ g[3] = 0 /\ g[4] = 0 /\ g[5] = 0
        /\ n = 3 => g[3] # 0 /\ g[4] = 0 /\ g[5] = 0
        /\ n = 4 => g[4] # 0 /\ g[5] = 0
        /\ n = 5 => g[5] # 0
    BY <1>7, <1>8
  <2> QED BY Zenon, <2>1, <2>2, <2>3 DEF Counting
<1>10. \A i \in 1 .. 5 : Group(v, i) = g[i]
  <2> DEFINE h == [i \in 1 .. 5 |-> Group(v, i)]
  <2>1. h \in Digits /\ v = Sum(h)
    BY Zenon, <1>2, NumberDigits
  <2>2. \A i \in 1 .. 5 : h[i] = Group(v, i)
    OBVIOUS
  <2> HIDE DEF h
  <2>3. h = g
    BY Zenon, <1>1, <1>2, <2>1, SumUnique
  <2> QED BY Zenon, <2>2, <2>3
<1>11. encodeVarInt(v) = [i \in 1 .. n |-> Group(v, i) + (IF i < n THEN 128 ELSE 0)]
  BY <1>9 DEF encodeVarInt
<1>12. \A i \in 1 .. n : encodeVarInt(v)[i] = bytes[i]
  <2>1. \A i \in 1 .. n : i \in 1 .. 5 /\ (i < n <=> i # n)
    OBVIOUS
  <2>2. \A m \in 0 .. 127 : m + 0 = m
    OBVIOUS
  <2>3. ASSUME NEW i \in 1 .. n PROVE encodeVarInt(v)[i] = bytes[i]
    <3>1. encodeVarInt(v)[i] = Group(v, i) + (IF i < n THEN 128 ELSE 0)
      BY <1>11
    <3>2. Group(v, i) = g[i]
      BY Zenon, <1>10, <2>1
    <3>3. CASE i = n
      <4>1. encodeVarInt(v)[i] = g[i] + 0
        BY <3>1, <3>2, <3>3
      <4> QED BY ZenonT(60), <1>4, <2>2, <3>3, <4>1
    <3>4. CASE i # n
      <4>1. encodeVarInt(v)[i] = g[i] + 128
        BY Zenon, <2>1, <3>1, <3>2, <3>4
      <4> QED BY Zenon, <1>4, <3>4, <4>1
    <3> QED BY <3>3, <3>4
  <2> QED BY <2>3
<1>13. encodeVarInt(v) \in Seq(Byte) /\ Len(encodeVarInt(v)) = n
  BY <1>9, Encoded
<1>14. /\ SubSeq(bytes, 1, n) \in Seq(Byte) /\ Len(SubSeq(bytes, 1, n)) = n
       /\ \A i \in 1 .. n : SubSeq(bytes, 1, n)[i] = bytes[i]
  OBVIOUS
<1>15. encodeVarInt(v) = SubSeq(bytes, 1, n)
  <2>1. \A i \in 1 .. n : encodeVarInt(v)[i] = SubSeq(bytes, 1, n)[i]
    BY Zenon, <1>12, <1>14
  <2> QED BY Zenon, <1>13, <1>14, <2>1, SeqSame
<1> QED BY Zenon, <1>2, <1>15

------------------------------------------------------------------------------
(***************************************************************************)
(* What is read of arbitrary bytes is a value of the field, and writing it *)
(* gives the bytes it was read from, unless a number among them was not    *)
(* tight.                                                                  *)
(***************************************************************************)

\* A number's fifth group has bits that are dropped.
Overfull(bytes) ==
  \E i \in 5 .. Len(bytes) :
    bytes[i] >= 16 /\ bytes[i] < 128 /\ \A j \in i - 4 .. i - 1 : bytes[j] >= 128

Loose(bytes) == Overlong(bytes) \/ Overfull(bytes)

LEMMA TightOrLoose ==
  ASSUME NEW bytes \in Seq(Byte), NEW n \in 1 .. 5, n <= Len(bytes), EndsAt(bytes, n)
  PROVE  Tight(bytes, n) \/ Loose(bytes)
<1>1. \A i \in 1 .. n : bytes[i] \in 0 .. 255
  <2>1. n \in Nat
    OBVIOUS
  <2> QED BY Zenon, <2>1, ByteAt
<1>2. \A i \in 1 .. n : bytes[i] < 128 <=> i = n
  BY DEF EndsAt, isLast
<1>3. \A i \in 1 .. n - 1 : bytes[i] >= 128
  <2> SUFFICES ASSUME NEW i \in 1 .. n - 1 PROVE bytes[i] >= 128
    OBVIOUS
  <2>1. i \in 1 .. n /\ i # n
    OBVIOUS
  <2>2. bytes[i] \in 0 .. 255 /\ ~(bytes[i] < 128)
    BY Zenon, <1>1, <1>2, <2>1
  <2>3. \A m \in 0 .. 255 : ~(m < 128) => m >= 128
    OBVIOUS
  <2> QED BY Zenon, <2>2, <2>3
<1>4. CASE n >= 2 /\ bytes[n] = 0
  <2>1. n \in 2 .. Len(bytes) /\ n - 1 \in 1 .. n - 1
    BY <1>4
  <2> QED BY Zenon, <1>3, <1>4, <2>1 DEF Loose, Overlong
<1>5. CASE n = 5 /\ ~(bytes[5] < 16)
  <2>1. 5 \in 5 .. Len(bytes) /\ 5 \in 1 .. n /\ \A j \in 5 - 4 .. 5 - 1 : j \in 1 .. n - 1
    BY <1>5
  <2>2. bytes[5] \in 0 .. 255 /\ bytes[5] < 128
    BY ZenonT(60), <1>1, <1>2, <1>5, <2>1
  <2>3. \A m \in 0 .. 255 : ~(m < 16) => m >= 16
    OBVIOUS
  <2>4. bytes[5] >= 16
    BY Zenon, <1>5, <2>2, <2>3
  <2> QED BY Zenon, <1>3, <2>1, <2>2, <2>4 DEF Loose, Overfull
<1> QED BY Zenon, <1>4, <1>5 DEF Tight

\* A number.
LEMMA VarIntTaken ==
  ASSUME NEW bytes \in Seq(Byte), deserializeVarInt(bytes).status = "OK"
  PROVE  \E n \in 1 .. 5, v \in Int32 :
           /\ n <= Len(bytes)
           /\ deserializeVarInt(bytes) = [status |-> "OK", value |-> v, size |-> n]
           /\ encodeVarInt(v) = SubSeq(bytes, 1, n) \/ Loose(bytes)
<1>1. PICK n \in 1 .. 5 :
        /\ n <= Len(bytes)
        /\ deserializeVarInt(bytes)
             = [status |-> "OK", value |-> Combine(bytes, n), size |-> n]
        /\ EndsAt(bytes, n)
  BY Zenon, NumberRead
<1>2. Combine(bytes, n) \in Int32
  BY Zenon, <1>1, GroupsOfDigits, SumIsInt32
<1>3. Tight(bytes, n) => encodeVarInt(Combine(bytes, n)) = SubSeq(bytes, 1, n)
  BY Zenon, <1>1, NumberInverse
<1>4. Tight(bytes, n) \/ Loose(bytes)
  BY Zenon, <1>1, TightOrLoose
<1> QED BY Zenon, <1>1, <1>2, <1>3, <1>4

\* The next n bytes, turned around.
LEMMA IntTaken ==
  ASSUME NEW bytes \in Seq(Byte), NEW n \in Nat
  PROVE  /\ n <= Len(bytes) =>
              /\ deserializeInt(bytes, n) = OK(Reverse(SubSeq(bytes, 1, n)), n)
              /\ SubSeq(bytes, 1, n) \in Seq(Byte) /\ Len(SubSeq(bytes, 1, n)) = n
         /\ deserializeInt(bytes, n).status = "OK" <=> n <= Len(bytes)
<1>1. CASE n <= Len(bytes)
  <2>1. ~(Len(bytes) < n)
    BY <1>1
  <2>2. deserializeBytes(bytes, n) = OK(SubSeq(bytes, 1, n), n)
    BY Zenon, <2>1 DEF deserializeBytes
  <2>3. deserializeInt(bytes, n) = OK(Reverse(SubSeq(bytes, 1, n)), n)
    BY <2>2 DEF deserializeInt, toNative, OK
  <2>4. deserializeInt(bytes, n).status = "OK"
    BY <2>3 DEF OK
  <2>5. SubSeq(bytes, 1, n) \in Seq(Byte) /\ Len(SubSeq(bytes, 1, n)) = n
    BY <1>1
  <2> QED BY Zenon, <1>1, <2>3, <2>4, <2>5
<1>2. CASE ~(n <= Len(bytes))
  <2>1. Len(bytes) < n
    BY <1>2
  <2>2. deserializeBytes(bytes, n) = Error("INCOMPLETE")
    BY Zenon, <2>1 DEF deserializeBytes
  <2>3. deserializeInt(bytes, n).status = "INCOMPLETE"
    BY <2>2 DEF deserializeInt, Error
  <2> QED BY <1>2, <2>3
<1> QED BY Zenon, <1>1, <1>2

\* What is left after a field, and where the next one ends.
LEMMA SeqCutTwice ==
  ASSUME NEW bytes \in Seq(Byte), NEW n \in 0 .. Len(bytes),
         NEW m \in 0 .. Len(SubSeq(bytes, n + 1, Len(bytes)))
  PROVE  /\ n + m \in 0 .. Len(bytes)
         /\ SubSeq(bytes, 1, n + m)
              = SubSeq(bytes, 1, n) \o SubSeq(SubSeq(bytes, n + 1, Len(bytes)), 1, m)
<1>1. PICK a \in Seq(Byte), b \in Seq(Byte) :
        a = SubSeq(bytes, 1, n) /\ b = SubSeq(bytes, n + 1, Len(bytes))
        /\ Len(a) = n /\ bytes = a \o b
  <2>1. /\ SubSeq(bytes, 1, n) \in Seq(Byte) /\ SubSeq(bytes, n + 1, Len(bytes)) \in Seq(Byte)
        /\ Len(SubSeq(bytes, 1, n)) = n
        /\ bytes = SubSeq(bytes, 1, n) \o SubSeq(bytes, n + 1, Len(bytes))
    BY Zenon, SeqCut
  <2> QED BY Zenon, <2>1
<1>2. SubSeq(a \o b, 1, Len(a) + m) = a \o SubSeq(b, 1, m)
  BY ZenonT(60), <1>1, SeqCutJoin
<1>3. Len(bytes) = n + Len(b)
  BY Zenon, <1>1, SeqJoin
<1>4. n + m \in 0 .. Len(bytes)
  <2>1. m \in 0 .. Len(b) /\ Len(b) \in Nat
    <3>1. m \in 0 .. Len(b)
      BY Zenon, <1>1
    <3>2. \A c \in Seq(Byte) : Len(c) \in Nat
      OBVIOUS
    <3> QED BY Zenon, <1>1, <3>1, <3>2
  <2>2. n \in Nat
    OBVIOUS
  <2>3. n + m \in 0 .. n + Len(b)
    BY <2>1, <2>2
  <2> QED BY Zenon, <1>3, <2>3
<1> QED BY Zenon, <1>1, <1>2, <1>4

LEMMA FirstByte ==
  ASSUME NEW bytes \in Seq(Byte), 1 <= Len(bytes)
  PROVE  SubSeq(bytes, 1, 1) = <<bytes[1]>>
<1>1. PICK s : s = SubSeq(bytes, 1, 1)
  OBVIOUS
<1>2. s \in Seq(Byte) /\ Len(s) = 1 /\ s[1] = bytes[1]
  BY <1>1
<1>3. PICK b \in Byte : b = bytes[1]
  OBVIOUS
<1>4. PICK t \in Seq(Byte) : t = <<b>> /\ Len(t) = 1 /\ t[1] = b
  <2>1. <<b>> \in Seq(Byte) /\ Len(<<b>>) = 1 /\ <<b>>[1] = b
    BY ONLY <1>3
  <2> QED BY Zenon, <2>1
<1>5. \A i \in 1 .. 1 : s[i] = t[i]
  BY <1>2, <1>3, <1>4
<1>6. s = t
  BY Zenon, <1>2, <1>4, <1>5, SeqSame
<1> QED BY Zenon, <1>1, <1>3, <1>4, <1>6

\* A bool.
LEMMA BoolTaken ==
  ASSUME NEW bytes \in Seq(Byte), deserializeBool(bytes).status = "OK"
  PROVE  \E b \in BOOLEAN :
           /\ 1 <= Len(bytes)
           /\ deserializeBool(bytes) = OK(b, 1)
           /\ serializeBool(b) = SubSeq(bytes, 1, 1)
<1> DEFINE val == deserializeInt(bytes, 1)
<1>1. deserializeBool(bytes)
        = CASE val.status # "OK" -> val
            [] val.status = "OK" /\ ~isBool(val.value[1]) -> Error("INVALID")
            [] OTHER -> OK(val.value[1] # 0, 1)
  BY Zenon DEF deserializeBool
<1>2. val.status = "OK"
  <2> SUFFICES ASSUME val.status # "OK" PROVE FALSE
    OBVIOUS
  <2> HIDE DEF val
  <2>1. deserializeBool(bytes) = val
    BY <1>1
  <2> QED BY <2>1
<1>3. 1 <= Len(bytes) /\ val = OK(Reverse(SubSeq(bytes, 1, 1)), 1)
  BY Zenon, <1>2, IntTaken, 1 \in Nat
<1>4. PICK m \in 0 .. 255 : m = bytes[1] /\ SubSeq(bytes, 1, 1) = <<m>>
  <2>1. bytes[1] \in 0 .. 255
    <3>1. \A i \in 1 .. 1 : bytes[i] \in 0 .. 255
      BY Zenon, <1>3, ByteAt, 1 \in Nat
    <3> QED BY <3>1
  <2>2. SubSeq(bytes, 1, 1) = <<bytes[1]>>
    BY Zenon, <1>3, FirstByte
  <2> QED BY Zenon, <2>1, <2>2
<1>5. val.value = <<m>> /\ val.value[1] = m
  <2>1. Reverse(<<m>>) = <<m>>
    BY DEF Reverse
  <2> HIDE DEF val
  <2>2. val = OK(<<m>>, 1)
    BY Zenon, <1>3, <1>4, <2>1
  <2> QED BY <2>2 DEF OK
<1> HIDE DEF val
<1>6. isBool(m)
  <2> SUFFICES ASSUME ~isBool(m) PROVE FALSE
    OBVIOUS
  <2>1. deserializeBool(bytes) = Error("INVALID")
    BY <1>1, <1>2, <1>5
  <2> QED BY <2>1 DEF Error
<1>7. deserializeBool(bytes) = OK(m # 0, 1)
  BY <1>1, <1>2, <1>5, <1>6
<1>8. m = 0 \/ m = 1
  BY <1>6 DEF isBool
<1>9. serializeBool(m # 0) = SubSeq(bytes, 1, 1)
  BY <1>4, <1>8 DEF serializeBool
<1>10. (m # 0) \in BOOLEAN
  OBVIOUS
<1> QED BY Zenon, <1>3, <1>7, <1>9, <1>10

\* A string.
LEMMA StringTaken ==
  ASSUME NEW bytes \in Seq(Byte), deserializeString(bytes).status = "OK"
  PROVE  \E str \in Seq(Byte), n \in 0 .. Len(bytes) :
           /\ Len(str) \in Int32
           /\ deserializeString(bytes) = OK(str, n)
           /\ serializeString(str) = SubSeq(bytes, 1, n) \/ Loose(bytes)
<1> DEFINE length == deserializeVarInt(bytes)
           rest == SubSeq(bytes, length.size + 1, Len(bytes))
           str == deserializeBytes(rest, length.value)
<1>1. deserializeString(bytes)
        = CASE length.status # "OK" -> length
            [] length.status = "OK" /\ length.value < 0 -> Error("INVALID")
            [] OTHER -> IF str.status # "OK" THEN str
                        ELSE OK(str.value, length.size + str.size)
  BY Zenon DEF deserializeString
<1>2. length.status = "OK"
  <2> SUFFICES ASSUME length.status # "OK" PROVE FALSE
    OBVIOUS
  <2> HIDE DEF length, str
  <2>1. deserializeString(bytes) = length
    BY <1>1
  <2> QED BY <2>1
<1>3. PICK n \in 1 .. 5, v \in Int32 :
        /\ n <= Len(bytes)
        /\ length = [status |-> "OK", value |-> v, size |-> n]
        /\ encodeVarInt(v) = SubSeq(bytes, 1, n) \/ Loose(bytes)
  BY Zenon, <1>2, VarIntTaken
<1>4. length.value = v /\ length.size = n
  BY <1>3
<1> HIDE DEF length
<1>5. v \in Nat
  <2>1. v \in Int
    BY SMT DEF Int32
  <2>2. ~(v < 0)
    <3> SUFFICES ASSUME v < 0 PROVE FALSE
      OBVIOUS
    <3> HIDE DEF str
    <3>1. deserializeString(bytes) = Error("INVALID")
      BY <1>1, <1>2, <1>4
    <3> QED BY <3>1 DEF Error
  <2> QED BY <2>1, <2>2
<1>6. deserializeString(bytes) = IF str.status # "OK" THEN str
                                 ELSE OK(str.value, n + str.size)
  <2>1. ~(v < 0)
    BY <1>5
  <2> HIDE DEF str
  <2> QED BY <1>1, <1>2, <1>4, <2>1
<1>7. str.status = "OK"
  <2> HIDE DEF str
  <2> QED BY <1>6
<1>8. n \in 0 .. Len(bytes)
  BY <1>3
<1>9. PICK r \in Seq(Byte) : r = SubSeq(bytes, n + 1, Len(bytes))
  <2>1. SubSeq(bytes, n + 1, Len(bytes)) \in Seq(Byte)
    BY Zenon, <1>8, SeqCut
  <2> QED BY Zenon, <2>1
<1>10. str = IF Len(r) < v THEN Error("INCOMPLETE") ELSE OK(SubSeq(r, 1, v), v)
  BY Zenon, <1>4, <1>9 DEF deserializeBytes
<1> HIDE DEF str
<1>11. ~(Len(r) < v)
  BY <1>7, <1>10 DEF Error
<1>12. v \in 0 .. Len(r)
  BY <1>5, <1>11
<1>13. SubSeq(r, 1, v) \in Seq(Byte) /\ Len(SubSeq(r, 1, v)) = v
  BY <1>12
<1>14. str.value = SubSeq(r, 1, v) /\ str.size = v
  BY <1>10, <1>11 DEF OK
<1>15. deserializeString(bytes) = OK(SubSeq(r, 1, v), n + v)
  BY <1>6, <1>7, <1>14
<1>16. /\ n + v \in 0 .. Len(bytes)
       /\ SubSeq(bytes, 1, n + v) = SubSeq(bytes, 1, n) \o SubSeq(r, 1, v)
  BY Zenon, <1>8, <1>9, <1>12, SeqCutTwice
<1>17. serializeString(SubSeq(r, 1, v)) = SubSeq(bytes, 1, n + v) \/ Loose(bytes)
  BY Zenon, <1>3, <1>13, <1>16 DEF serializeString
<1> QED BY Zenon, <1>3, <1>13, <1>15, <1>16, <1>17

\* A uuid: the halves are swapped twice.
LEMMA UuidTaken ==
  ASSUME NEW bytes \in Seq(Byte), deserializeUuid(bytes).status = "OK"
  PROVE  \E uuid \in Seq(Byte) :
           /\ Len(uuid) = 16 /\ 16 \in 0 .. Len(bytes)
           /\ deserializeUuid(bytes) = OK(uuid, 16)
           /\ serializeUuid(uuid) = SubSeq(bytes, 1, 16)
<1> DEFINE hi == deserializeInt(bytes, 8)
           rest == SubSeq(bytes, 9, Len(bytes))
           lo == deserializeInt(rest, 8)
<1>1. deserializeUuid(bytes)
        = CASE hi.status # "OK" -> hi
            [] hi.status = "OK" /\ lo.status # "OK" -> lo
            [] OTHER -> OK(lo.value \o hi.value, 16)
  BY Zenon DEF deserializeUuid
<1>2. hi.status = "OK" /\ lo.status = "OK"
  <2> HIDE DEF hi, lo
  <2> QED BY <1>1
<1>3. /\ 8 <= Len(bytes) /\ hi = OK(Reverse(SubSeq(bytes, 1, 8)), 8)
      /\ SubSeq(bytes, 1, 8) \in Seq(Byte) /\ Len(SubSeq(bytes, 1, 8)) = 8
  BY Zenon, <1>2, IntTaken, 8 \in Nat
<1>4. 8 \in 0 .. Len(bytes) /\ 8 + 1 = 9
  BY <1>3
<1>5. rest \in Seq(Byte)
  BY Zenon, <1>4, SeqCut
<1>6. /\ 8 <= Len(rest) /\ lo = OK(Reverse(SubSeq(rest, 1, 8)), 8)
      /\ SubSeq(rest, 1, 8) \in Seq(Byte) /\ Len(SubSeq(rest, 1, 8)) = 8
  BY Zenon, <1>2, <1>5, IntTaken, 8 \in Nat
<1>7. /\ 8 + 8 \in 0 .. Len(bytes)
      /\ SubSeq(bytes, 1, 8 + 8) = SubSeq(bytes, 1, 8) \o SubSeq(rest, 1, 8)
  <2>1. 8 \in 0 .. Len(rest)
    BY <1>5, <1>6
  <2>2. 8 \in 0 .. Len(SubSeq(bytes, 8 + 1, Len(bytes)))
    BY Zenon, <1>4, <2>1
  <2>3. SubSeq(bytes, 1, 8 + 8)
          = SubSeq(bytes, 1, 8) \o SubSeq(SubSeq(bytes, 8 + 1, Len(bytes)), 1, 8)
    BY Zenon, <1>4, <2>2, SeqCutTwice
  <2>4. 8 + 8 \in 0 .. Len(bytes)
    BY Zenon, <1>4, <2>2, SeqCutTwice
  <2> QED BY Zenon, <1>4, <2>3, <2>4
<1>8. PICK a \in Seq(Byte), b \in Seq(Byte) :
        a = SubSeq(bytes, 1, 8) /\ b = SubSeq(rest, 1, 8) /\ Len(a) = 8 /\ Len(b) = 8
  BY Zenon, <1>3, <1>6
<1>9. PICK ra \in Seq(Byte), rb \in Seq(Byte) :
        /\ ra = Reverse(a) /\ Len(ra) = 8 /\ Reverse(ra) = a
        /\ rb = Reverse(b) /\ Len(rb) = 8 /\ Reverse(rb) = b
  BY ZenonT(60), <1>8, Reversed
<1>10. /\ rb \o ra \in Seq(Byte) /\ Len(rb \o ra) = 16
       /\ SubSeq(rb \o ra, 1, 8) = rb /\ SubSeq(rb \o ra, 9, 16) = ra
  <2>1. /\ rb \o ra \in Seq(Byte) /\ Len(rb \o ra) = Len(rb) + Len(ra)
        /\ SubSeq(rb \o ra, 1, Len(rb)) = rb
        /\ SubSeq(rb \o ra, Len(rb) + 1, Len(rb \o ra)) = ra
    BY Zenon, <1>9, Concatenated
  <2>2. 8 + 8 = 16 /\ 8 + 1 = 9
    OBVIOUS
  <2> QED BY Zenon, <1>9, <2>1, <2>2
<1>11. deserializeUuid(bytes) = OK(rb \o ra, 16)
  <2>1. hi = OK(ra, 8) /\ lo = OK(rb, 8)
    BY Zenon, <1>3, <1>6, <1>8, <1>9
  <2> HIDE DEF hi, lo
  <2>2. hi.value = ra /\ lo.value = rb
    BY <2>1 DEF OK
  <2>3. deserializeUuid(bytes) = OK(lo.value \o hi.value, 16)
    BY <1>1, <1>2
  <2> QED BY Zenon, <2>2, <2>3
<1>12. serializeUuid(rb \o ra) = SubSeq(bytes, 1, 16)
  <2>1. serializeUuid(rb \o ra) = Reverse(ra) \o Reverse(rb)
    BY Zenon, <1>10 DEF serializeUuid, serializeInt
  <2>2. 8 + 8 = 16
    OBVIOUS
  <2> QED BY Zenon, <1>7, <1>8, <1>9, <2>1, <2>2
<1>13. 16 \in 0 .. Len(bytes)
  BY <1>7
<1> QED BY Zenon, <1>10, <1>11, <1>12, <1>13

\* Any field.
LEMMA FieldTaken ==
  ASSUME NEW kind \in AnyKind, NEW bytes \in Seq(Byte),
         deserializeField(kind, bytes).status = "OK"
  PROVE  \E v \in Values(kind), n \in 0 .. Len(bytes) :
           /\ deserializeField(kind, bytes) = OK(v, n)
           /\ serializeField(kind, v) = SubSeq(bytes, 1, n) \/ Loose(bytes)
<1>1. CASE kind \in DOMAIN Width
  <2>1. PICK n \in 1 .. 8 : n = Width[kind]
    BY Zenon, <1>1, Kinds
  <2>2. deserializeField(kind, bytes) = deserializeInt(bytes, n)
    <3>1. deserializeField(kind, bytes) = deserializeInt(bytes, Width[kind])
      BY <1>1, Kinds DEF deserializeField
    <3> QED BY Zenon, <2>1, <3>1
  <2>3. n \in Nat
    BY <2>1
  <2>4. PICK a \in Seq(Byte) : a = SubSeq(bytes, 1, n) /\ Len(a) = n /\ n <= Len(bytes)
                            /\ deserializeInt(bytes, n) = OK(Reverse(a), n)
    BY Zenon, <2>2, <2>3, IntTaken
  <2>5. Reverse(a) \in Seq(Byte) /\ Len(Reverse(a)) = n /\ Reverse(Reverse(a)) = a
    BY Zenon, <2>4, Reversed
  <2>6. serializeField(kind, Reverse(a)) = a
    <3>1. serializeField(kind, Reverse(a)) = serializeInt(Reverse(a))
      BY <1>1, Kinds DEF serializeField
    <3> QED BY Zenon, <2>5, <3>1 DEF serializeInt
  <2>7. Reverse(a) \in Values(kind)
    <3>1. kind # "tail"
      BY Zenon, <1>1, Kinds
    <3>2. FieldValue(kind) = {s \in Seq(Byte) : Len(s) = n}
      BY <1>1, <2>1, Kinds DEF FieldValue
    <3> QED BY Zenon, <2>5, <3>1, <3>2 DEF Values
  <2>8. n \in 0 .. Len(bytes)
    BY <2>1, <2>4
  <2> QED BY Zenon, <2>2, <2>4, <2>6, <2>7, <2>8
<1>2. CASE kind = "bool"
  <2>1. deserializeField(kind, bytes) = deserializeBool(bytes)
    BY <1>2, Kinds DEF deserializeField
  <2>2. PICK b \in BOOLEAN : 1 <= Len(bytes) /\ deserializeBool(bytes) = OK(b, 1)
                          /\ serializeBool(b) = SubSeq(bytes, 1, 1)
    BY Zenon, <2>1, BoolTaken
  <2>3. serializeField(kind, b) = serializeBool(b)
    BY <1>2, Kinds DEF serializeField
  <2>4. b \in Values(kind)
    <3>1. Values(kind) = BOOLEAN
      BY <1>2, Kinds DEF Values, FieldValue
    <3> QED BY Zenon, <2>2, <3>1
  <2>5. 1 \in 0 .. Len(bytes)
    BY <2>2
  <2> QED BY Zenon, <2>1, <2>2, <2>3, <2>4, <2>5
<1>3. CASE kind = "varint"
  <2>1. deserializeField(kind, bytes) = deserializeVarInt(bytes)
    BY <1>3, Kinds DEF deserializeField
  <2>2. PICK n \in 1 .. 5, v \in Int32 :
          /\ n <= Len(bytes)
          /\ deserializeVarInt(bytes) = [status |-> "OK", value |-> v, size |-> n]
          /\ encodeVarInt(v) = SubSeq(bytes, 1, n) \/ Loose(bytes)
    BY Zenon, <2>1, VarIntTaken
  <2>3. serializeField(kind, v) = encodeVarInt(v)
    BY <1>3, Kinds DEF serializeField
  <2>4. v \in Values(kind)
    <3>1. Values(kind) = Int32
      BY <1>3, Kinds DEF Values, FieldValue
    <3> QED BY Zenon, <2>2, <3>1
  <2>5. n \in 0 .. Len(bytes)
    BY <2>2
  <2>6. deserializeVarInt(bytes) = OK(v, n)
    BY Zenon, <2>2 DEF OK
  <2> QED BY Zenon, <2>1, <2>2, <2>3, <2>4, <2>5, <2>6
<1>4. CASE kind = "string"
  <2>1. deserializeField(kind, bytes) = deserializeString(bytes)
    BY <1>4, Kinds DEF deserializeField
  <2>2. PICK str \in Seq(Byte), n \in 0 .. Len(bytes) :
          /\ Len(str) \in Int32
          /\ deserializeString(bytes) = OK(str, n)
          /\ serializeString(str) = SubSeq(bytes, 1, n) \/ Loose(bytes)
    BY Zenon, <2>1, StringTaken
  <2>3. serializeField(kind, str) = serializeString(str)
    BY <1>4, Kinds DEF serializeField
  <2>4. str \in Values(kind)
    <3>1. Values(kind) = {s \in Seq(Byte) : Len(s) \in Int32}
      BY <1>4, Kinds DEF Values, FieldValue
    <3> QED BY Zenon, <2>2, <3>1
  <2> QED BY Zenon, <2>1, <2>2, <2>3, <2>4
<1>5. CASE kind = "uuid"
  <2>1. deserializeField(kind, bytes) = deserializeUuid(bytes)
    BY <1>5, Kinds DEF deserializeField
  <2>2. PICK uuid \in Seq(Byte) :
          /\ Len(uuid) = 16 /\ 16 \in 0 .. Len(bytes)
          /\ deserializeUuid(bytes) = OK(uuid, 16)
          /\ serializeUuid(uuid) = SubSeq(bytes, 1, 16)
    BY Zenon, <2>1, UuidTaken
  <2>3. serializeField(kind, uuid) = serializeUuid(uuid)
    BY <1>5, Kinds DEF serializeField
  <2>4. uuid \in Values(kind)
    <3>1. Values(kind) = {s \in Seq(Byte) : Len(s) = 16}
      BY <1>5, Kinds DEF Values, FieldValue
    <3> QED BY Zenon, <2>2, <3>1
  <2> QED BY Zenon, <2>1, <2>2, <2>3, <2>4
<1>6. CASE kind = "tail"
  <2>1. serializeField(kind, bytes) = bytes /\ deserializeField(kind, bytes) = OK(bytes, Len(bytes))
    BY Zenon, <1>6, TailRead
  <2>2. bytes \in Values(kind)
    BY Zenon, <1>6 DEF Values
  <2>3. Len(bytes) \in 0 .. Len(bytes) /\ SubSeq(bytes, 1, Len(bytes)) = bytes
    OBVIOUS
  <2> QED BY Zenon, <2>1, <2>2, <2>3
<1> QED BY <1>1, <1>2, <1>3, <1>4, <1>5, <1>6 DEF AnyKind, Kind

------------------------------------------------------------------------------
(***************************************************************************)
(* A field that is cut off is not read.                                    *)
(***************************************************************************)

\* A cut of two sequences is in the first or leaves it whole.
LEMMA CutOfTwo ==
  ASSUME NEW a \in Seq(Byte), NEW b \in Seq(Byte), NEW r \in 0 .. Len(a \o b) - 1
  PROVE  \/ r \in 0 .. Len(a) - 1 /\ SubSeq(a \o b, 1, r) = SubSeq(a, 1, r)
         \/ \E k \in 0 .. Len(b) - 1 :
              /\ SubSeq(a \o b, 1, r) = a \o SubSeq(b, 1, k)
              /\ SubSeq(b, 1, k) \in Seq(Byte) /\ Len(SubSeq(b, 1, k)) = k
<1>1. PICK l \in Nat, m \in Nat : l = Len(a) /\ m = Len(b)
  OBVIOUS
<1>2. Len(a \o b) = l + m
  BY Zenon, <1>1, SeqJoin
<1>3. r \in Int /\ 0 <= r /\ r < l + m
  BY <1>2, <1>1
<1>4. CASE r < l
  <2>1. r \in 0 .. Len(a) /\ r \in 0 .. Len(a) - 1
    BY <1>1, <1>3, <1>4
  <2> QED BY Zenon, <2>1, SeqCutFirst
<1>5. CASE l <= r
  <2>1. PICK k \in Int : k = r - l
    BY <1>1, <1>3
  <2>2. k \in 0 .. Len(b) /\ k \in 0 .. Len(b) - 1 /\ r = Len(a) + k
    BY <1>1, <1>3, <1>5, <2>1
  <2>3. SubSeq(a \o b, 1, Len(a) + k) = a \o SubSeq(b, 1, k)
    BY Zenon, <2>2, SeqCutJoin
  <2>4. SubSeq(b, 1, k) \in Seq(Byte) /\ Len(SubSeq(b, 1, k)) = k
    BY Zenon, <2>2, SeqCut
  <2> QED BY Zenon, <2>2, <2>3, <2>4
<1>6. r < l \/ l <= r
  BY <1>1, <1>3
<1> QED BY Zenon, <1>4, <1>5, <1>6

\* Too few bytes.
LEMMA IntCut ==
  ASSUME NEW bytes \in Seq(Byte), NEW n \in Nat, Len(bytes) < n
  PROVE  deserializeInt(bytes, n).status # "OK"
<1>1. ~(n <= Len(bytes))
  OBVIOUS
<1> QED BY Zenon, <1>1, IntTaken

LEMMA StringCut ==
  ASSUME NEW str \in Seq(Byte), Len(str) \in Int32,
         NEW r \in 0 .. Len(serializeString(str)) - 1
  PROVE  deserializeString(SubSeq(serializeString(str), 1, r)).status # "OK"
<1> DEFINE head == encodeVarInt(Len(str))
           cut == SubSeq(serializeString(str), 1, r)
           length == deserializeVarInt(cut)
           body == deserializeBytes(SubSeq(cut, length.size + 1, Len(cut)), length.value)
<1>1. head \in Seq(Byte) /\ serializeString(str) = head \o str
  BY Zenon, Encoded DEF serializeString
<1>2. deserializeString(cut)
        = CASE length.status # "OK" -> length
            [] length.status = "OK" /\ length.value < 0 -> Error("INVALID")
            [] OTHER -> IF body.status # "OK" THEN body
                        ELSE OK(body.value, length.size + body.size)
  BY Zenon DEF deserializeString
<1>3. CASE r \in 0 .. Len(head) - 1 /\ cut = SubSeq(head, 1, r)
  <2>1. length = [status |-> "INCOMPLETE"]
    BY Zenon, <1>3, VarIntCut
  <2>2. length.status # "OK"
    BY <2>1
  <2> HIDE DEF length, body, cut
  <2>3. deserializeString(cut) = length
    BY <1>2, <2>2
  <2> QED BY Zenon, <2>2, <2>3 DEF cut
<1>4. ASSUME NEW k \in 0 .. Len(str) - 1,
             cut = head \o SubSeq(str, 1, k),
             SubSeq(str, 1, k) \in Seq(Byte), Len(SubSeq(str, 1, k)) = k
      PROVE  deserializeString(cut).status # "OK"
  <2>1. PICK tail \in Seq(Byte) : tail = SubSeq(str, 1, k) /\ Len(tail) = k /\ cut = head \o tail
    BY Zenon, <1>4
  <2>2. length = [status |-> "OK", value |-> Len(str), size |-> Len(head)]
    BY Zenon, <2>1, VarIntRoundTrip
  <2>3. length.status = "OK" /\ length.value = Len(str) /\ length.size = Len(head)
    BY <2>2
  <2>4. SubSeq(cut, Len(head) + 1, Len(cut)) = tail
    <3>1. PICK h \in Seq(Byte) : h = head
      BY Zenon, <1>1
    <3>2. SubSeq(h \o tail, Len(h) + 1, Len(h \o tail)) = tail
      BY Zenon, Concatenated
    <3> HIDE DEF head, cut
    <3> QED BY Zenon, <2>1, <3>1, <3>2
  <2> HIDE DEF length, cut
  <2>5. body = deserializeBytes(tail, Len(str))
    BY Zenon, <2>3, <2>4
  <2>6. Len(tail) < Len(str)
    <3>1. k < Len(str)
      OBVIOUS
    <3> QED BY Zenon, <2>1, <3>1
  <2>7. body = Error("INCOMPLETE")
    BY Zenon, <2>5, <2>6 DEF deserializeBytes
  <2>8. body.status # "OK"
    BY <2>7 DEF Error
  <2> HIDE DEF body
  <2>9. Error("INVALID").status # "OK"
    BY DEF Error
  <2> QED BY <1>2, <2>3, <2>8, <2>9
<1>5. \/ r \in 0 .. Len(head) - 1 /\ cut = SubSeq(head, 1, r)
      \/ \E k \in 0 .. Len(str) - 1 :
           /\ cut = head \o SubSeq(str, 1, k)
           /\ SubSeq(str, 1, k) \in Seq(Byte) /\ Len(SubSeq(str, 1, k)) = k
  <2>1. PICK h \in Seq(Byte) : h = head
    BY Zenon, <1>1
  <2>2. cut = SubSeq(h \o str, 1, r) /\ r \in 0 .. Len(h \o str) - 1
    BY Zenon, <1>1, <2>1
  <2>3. \/ r \in 0 .. Len(h) - 1 /\ SubSeq(h \o str, 1, r) = SubSeq(h, 1, r)
        \/ \E k \in 0 .. Len(str) - 1 :
             /\ SubSeq(h \o str, 1, r) = h \o SubSeq(str, 1, k)
             /\ SubSeq(str, 1, k) \in Seq(Byte) /\ Len(SubSeq(str, 1, k)) = k
    BY Zenon, <2>2, CutOfTwo
  <2> HIDE DEF head, cut
  <2> QED BY Zenon, <2>1, <2>2, <2>3
<1> QED BY Zenon, <1>3, <1>4, <1>5

LEMMA UuidCut ==
  ASSUME NEW bytes \in Seq(Byte), Len(bytes) < 16
  PROVE  deserializeUuid(bytes).status # "OK"
<1> SUFFICES ASSUME deserializeUuid(bytes).status = "OK" PROVE FALSE
  OBVIOUS
<1>1. 16 \in 0 .. Len(bytes)
  BY Zenon, UuidTaken
<1> QED BY <1>1

LEMMA FieldCut ==
  ASSUME NEW kind \in Kind, NEW v \in Values(kind),
         NEW r \in 0 .. Len(serializeField(kind, v)) - 1
  PROVE  deserializeField(kind, SubSeq(serializeField(kind, v), 1, r)).status # "OK"
<1>1. PICK s \in Seq(Byte) : s = serializeField(kind, v)
  <2>1. kind \in AnyKind
    BY DEF AnyKind
  <2> QED BY Zenon, <2>1, FieldIsBytes
<1>2. PICK cut \in Seq(Byte) : cut = SubSeq(s, 1, r) /\ Len(cut) = r /\ Len(cut) < Len(s)
  <2>1. r \in 0 .. Len(s) /\ r < Len(s)
    BY <1>1
  <2>2. SubSeq(s, 1, r) \in Seq(Byte) /\ Len(SubSeq(s, 1, r)) = r
    BY Zenon, <2>1, SeqCut
  <2> QED BY Zenon, <2>1, <2>2
<1>3. CASE kind \in DOMAIN Width
  <2>1. PICK n \in 1 .. 8 : n = Width[kind]
    BY Zenon, <1>3, Kinds
  <2>2. deserializeField(kind, cut) = deserializeInt(cut, n)
    <3>1. deserializeField(kind, cut) = deserializeInt(cut, Width[kind])
      BY <1>3, Kinds DEF deserializeField
    <3> QED BY Zenon, <2>1, <3>1
  <2>3. v \in Seq(Byte) /\ Len(v) = n
    BY <1>3, <2>1, Kinds DEF Values, FieldValue
  <2>4. serializeField(kind, v) = Reverse(v)
    BY <1>3, Kinds DEF serializeField, serializeInt
  <2>5. Len(s) = n
    BY Zenon, <1>1, <2>3, <2>4, Reversed
  <2>6. n \in Nat /\ Len(cut) < n
    BY <1>2, <2>1, <2>5
  <2> QED BY Zenon, <1>1, <1>2, <2>2, <2>6, IntCut
<1>4. CASE kind = "bool"
  <2>1. serializeField(kind, v) = serializeBool(v)
    BY <1>4, Kinds DEF serializeField
  <2>2. Len(s) = 1
    BY <1>1, <2>1 DEF serializeBool
  <2>3. deserializeField(kind, cut) = deserializeBool(cut)
    BY <1>4, Kinds DEF deserializeField
  <2>4. deserializeBool(cut).status # "OK"
    <3> SUFFICES ASSUME deserializeBool(cut).status = "OK" PROVE FALSE
      OBVIOUS
    <3>1. 1 <= Len(cut)
      BY Zenon, BoolTaken
    <3> QED BY <1>2, <2>2, <3>1
  <2> QED BY Zenon, <1>1, <1>2, <2>3, <2>4
<1>5. CASE kind = "varint"
  <2>1. v \in Int32
    BY <1>5, Kinds DEF Values, FieldValue
  <2>2. serializeField(kind, v) = encodeVarInt(v)
    BY <1>5, Kinds DEF serializeField
  <2>3. deserializeField(kind, cut) = deserializeVarInt(cut)
    BY <1>5, Kinds DEF deserializeField
  <2>4. deserializeVarInt(SubSeq(encodeVarInt(v), 1, r)) = [status |-> "INCOMPLETE"]
    BY Zenon, <2>1, <2>2, VarIntCut
  <2>5. deserializeField(kind, cut) = [status |-> "INCOMPLETE"]
    BY Zenon, <1>1, <1>2, <2>2, <2>3, <2>4
  <2>6. deserializeField(kind, cut).status # "OK"
    BY <2>5
  <2> QED BY Zenon, <1>1, <1>2, <2>6
<1>6. CASE kind = "string"
  <2>1. v \in Seq(Byte) /\ Len(v) \in Int32
    BY <1>6, Kinds DEF Values, FieldValue
  <2>2. serializeField(kind, v) = serializeString(v)
    BY <1>6, Kinds DEF serializeField
  <2>3. deserializeField(kind, cut) = deserializeString(cut)
    BY <1>6, Kinds DEF deserializeField
  <2>4. deserializeString(SubSeq(serializeString(v), 1, r)).status # "OK"
    BY Zenon, <2>1, <2>2, StringCut
  <2> QED BY Zenon, <1>1, <1>2, <2>2, <2>3, <2>4
<1>7. CASE kind = "uuid"
  <2>1. v \in Seq(Byte) /\ Len(v) = 16
    BY <1>7, Kinds DEF Values, FieldValue
  <2>2. serializeField(kind, v) = serializeUuid(v)
    BY <1>7, Kinds DEF serializeField
  <2>3. deserializeField(kind, cut) = deserializeUuid(cut)
    BY <1>7, Kinds DEF deserializeField
  <2>4. Len(serializeUuid(v)) = 16
    <3>1. <<>> \in Seq(Byte)
      OBVIOUS
    <3> QED BY Zenon, <2>1, <3>1, UuidRead
  <2>5. Len(cut) < 16
    BY Zenon, <1>1, <1>2, <2>2, <2>4
  <2> QED BY Zenon, <1>1, <1>2, <2>3, <2>5, UuidCut
<1> QED BY <1>3, <1>4, <1>5, <1>6, <1>7 DEF Kind
------------------------------------------------------------------------------
(***************************************************************************)
(* Payloads are read field by field.                                       *)
(***************************************************************************)

\* The states before and after every field of a payload.
IsReading(st, format, bytes) ==
  /\ st \in [0 .. Len(format) -> ReadState]
  /\ st[0] = Start(bytes)
  /\ \A k \in 1 .. Len(format) : st[k] = readField(st[k - 1], format[k])

\* Nothing was refused so far.
Reads(state, values, rest) == state.ok = TRUE /\ state.values = values /\ state.rest = rest

\* A field that is accepted.
LEMMA FieldAccepted ==
  ASSUME NEW state \in ReadState, NEW kind, NEW v, NEW n, state.ok,
         deserializeField(kind, state.rest) = OK(v, n)
  PROVE  /\ readField(state, kind)
              = [ok |-> TRUE,
                 values |-> Append(state.values, v),
                 rest |-> SubSeq(state.rest, n + 1, Len(state.rest))]
         /\ Reads(readField(state, kind), Append(state.values, v),
                  SubSeq(state.rest, n + 1, Len(state.rest)))
<1>1. OK(v, n).status = "OK" /\ OK(v, n).value = v /\ OK(v, n).size = n
  BY DEF OK
<1>2. readField(state, kind)
        = [ok |-> TRUE,
           values |-> Append(state.values, v),
           rest |-> SubSeq(state.rest, n + 1, Len(state.rest))]
  BY <1>1 DEF readField
<1>3. Reads([ok |-> TRUE,
             values |-> Append(state.values, v),
             rest |-> SubSeq(state.rest, n + 1, Len(state.rest))],
            Append(state.values, v), SubSeq(state.rest, n + 1, Len(state.rest)))
  BY DEF Reads
<1> QED BY Zenon, <1>2, <1>3

\* A field that is not, or comes after one that is not.
LEMMA FieldRefused ==
  ASSUME NEW state \in ReadState, NEW kind,
         ~state.ok \/ deserializeField(kind, state.rest).status # "OK"
  PROVE  readField(state, kind) \in ReadState /\ ~readField(state, kind).ok
<1>1. readField(state, kind) = [state EXCEPT !.ok = FALSE]
  BY DEF readField
<1> QED BY <1>1 DEF ReadState

LEMMA StateRead ==
  ASSUME NEW state \in ReadState, NEW kind \in AnyKind
  PROVE  readField(state, kind) \in ReadState
<1>1. CASE ~state.ok \/ deserializeField(kind, state.rest).status # "OK"
  BY Zenon, <1>1, FieldRefused
<1>2. CASE state.ok /\ deserializeField(kind, state.rest).status = "OK"
  <2>1. PICK bytes \in Seq(Byte) : bytes = state.rest
    BY DEF ReadState
  <2>2. PICK v \in Values(kind), n \in 0 .. Len(bytes) : deserializeField(kind, bytes) = OK(v, n)
    BY Zenon, <1>2, <2>1, FieldTaken
  <2>3. readField(state, kind)
          = [ok |-> TRUE, values |-> Append(state.values, v),
             rest |-> SubSeq(bytes, n + 1, Len(bytes))]
    BY Zenon, <1>2, <2>1, <2>2, FieldAccepted
  <2>4. SubSeq(bytes, n + 1, Len(bytes)) \in Seq(Byte)
    BY Zenon, <2>2, SeqCut
  <2>5. v \in AnyValue
    BY Zenon, <2>2 DEF AnyValue
  <2>6. Append(state.values, v) \in Seq(AnyValue)
    BY <2>5 DEF ReadState
  <2> QED BY <2>3, <2>4, <2>6 DEF ReadState
<1>3. state.ok \in BOOLEAN
  BY DEF ReadState
<1> QED BY <1>1, <1>2, <1>3

\* deserializePacketPayload goes through the states of a reading.
LEMMA ReadingExists ==
  ASSUME NEW format \in Seq(AnyKind), NEW bytes \in Seq(Byte)
  PROVE  \E st : /\ IsReading(st, format, bytes)
                 /\ deserializePacketPayload(format, bytes)
                      = [ok |-> st[Len(format)].ok /\ isEnd(st[Len(format)].rest),
                         values |-> st[Len(format)].values]
<1> DEFINE n == Len(format)
           base == Start(bytes)
           step == [i \in 1 .. n |-> [state \in ReadState |-> readField(state, format[i])]]
           Is(iter) == iter = [s \in SUBSET DOMAIN format |->
                                 IF s = {} THEN base
                                 ELSE readField(iter[s \ {Max(s)}], format[Max(s)])]
<1>1. n \in Nat /\ DOMAIN format = 1 .. n /\ \A i \in 1 .. n : format[i] \in AnyKind
  OBVIOUS
<1>2. base \in ReadState
  BY DEF ReadState, Start
<1>3. step \in [1 .. n -> [ReadState -> ReadState]]
  <2>1. \A i \in 1 .. n : \A state \in ReadState : readField(state, format[i]) \in ReadState
    BY Zenon, <1>1, StateRead
  <2> QED BY Zenon, <2>1
<1>4. \A i \in 1 .. n : \A state \in ReadState : step[i][state] = readField(state, format[i])
  BY Zenon
<1> HIDE DEF step, base
<1>5. PICK f : IsFold(f, n, ReadState, base, step)
  BY Zenon, <1>1, <1>2, <1>3, FoldExists
<1>6. ASSUME NEW s \in SUBSET (1 .. n), s # {}
      PROVE  Max(s) \in 1 .. n /\ s \ {Max(s)} \in SUBSET (1 .. n)
  <2>1. Max(s) \in s
    BY Zenon, <1>1, <1>6, MaxIn
  <2> QED BY Zenon, <2>1
<1>7. Is(f)
  <2>1. f \in [SUBSET (1 .. n) -> ReadState] /\ f[{}] = base
    BY Zenon, <1>5 DEF IsFold
  <2>2. ASSUME NEW s \in SUBSET (1 .. n)
        PROVE  f[s] = IF s = {} THEN base
                      ELSE readField(f[s \ {Max(s)}], format[Max(s)])
    <3>1. CASE s # {}
      <4>1. f[s] = step[Max(s)][f[s \ {Max(s)}]]
        BY Zenon, <1>5, <3>1 DEF IsFold
      <4>2. f[s \ {Max(s)}] \in ReadState
        BY Zenon, <1>6, <2>1, <3>1
      <4>3. Max(s) \in 1 .. n
        BY Zenon, <1>6, <3>1
      <4>4. f[s] = readField(f[s \ {Max(s)}], format[Max(s)])
        BY Zenon, <1>4, <4>1, <4>2, <4>3
      <4> QED BY Zenon, <3>1, <4>4
    <3> QED BY Zenon, <2>1, <3>1
  <2> HIDE DEF n
  <2> QED BY Zenon, <1>1, <2>1, <2>2
<1> DEFINE iter == CHOOSE i : Is(i)
<1>8. Is(iter)
  <2> HIDE DEF Is
  <2> QED BY Zenon, <1>7
<1>9. FoldLeft(readField, base, format) = iter[DOMAIN format]
  BY DEF FoldLeft, MapThenFoldSet
<1> HIDE DEF iter
<1>10. iter[{}] = base
  BY Zenon, <1>8
<1>11. ASSUME NEW k \in 1 .. n
       PROVE  iter[1 .. k] = readField(iter[1 .. k - 1], format[k])
  <2>1. 1 .. k \in SUBSET DOMAIN format /\ 1 .. k # {} /\ k \in Nat
        /\ 1 .. k \in SUBSET (1 .. k) /\ k \in 1 .. k /\ (1 .. k) \ {k} = 1 .. k - 1
    <3>1. k \in Nat /\ 1 <= k /\ k <= n
      BY <1>1
    <3>2. 1 .. k \in SUBSET (1 .. n)
      BY <1>1, <3>1
    <3>3. k \in 1 .. k
      BY <3>1
    <3>4. (1 .. k) \ {k} = 1 .. k - 1
      BY <3>1
    <3>5. 1 .. k # {} /\ 1 .. k \in SUBSET (1 .. k)
      BY Zenon, <3>3
    <3> QED BY Zenon, <1>1, <3>1, <3>2, <3>3, <3>4, <3>5
  <2>2. Max(1 .. k) = k
    BY Zenon, <2>1, Greatest
  <2>3. iter[1 .. k] = readField(iter[(1 .. k) \ {Max(1 .. k)}], format[Max(1 .. k)])
    BY Zenon, <1>8, <2>1
  <2> QED BY Zenon, <2>1, <2>2, <2>3
<1> DEFINE P == {k \in Nat : k <= n => iter[1 .. k] \in ReadState}
           st == [k \in 0 .. n |-> iter[1 .. k]]
<1>12. 1 .. 0 = {}
  OBVIOUS
<1>13. 0 \in P
  BY Zenon, <1>2, <1>10, <1>12
<1>14. ASSUME NEW k \in Nat, k \in P PROVE k + 1 \in P
  <2> SUFFICES ASSUME k + 1 <= n PROVE iter[1 .. k + 1] \in ReadState
    OBVIOUS
  <2>1. k + 1 \in 1 .. n /\ (k + 1) - 1 = k /\ k <= n
    BY <1>1
  <2>2. iter[1 .. k] \in ReadState
    BY Zenon, <1>14, <2>1
  <2>3. iter[1 .. k + 1] = readField(iter[1 .. k], format[k + 1])
    BY Zenon, <1>11, <2>1
  <2> QED BY Zenon, <1>1, <2>1, <2>2, <2>3, StateRead
<1>15. \A k \in Nat : k \in P
  <2> HIDE DEF P
  <2> QED BY Zenon, <1>13, <1>14, Induction
<1>16. \A k \in 0 .. n : iter[1 .. k] \in ReadState
  <2>1. \A k \in 0 .. n : k \in Nat /\ k <= n
    BY <1>1
  <2> QED BY Zenon, <1>15, <2>1
<1>17. \A k \in 1 .. n : k \in 0 .. n /\ k - 1 \in 0 .. n
  BY <1>1
<1>18. 0 \in 0 .. n /\ n \in 0 .. n
  BY <1>1
<1>19. IsReading(st, format, bytes)
  <2>1. st \in [0 .. n -> ReadState]
    BY Zenon, <1>16
  <2>2. st[0] = base
    BY Zenon, <1>10, <1>12, <1>18
  <2>3. \A k \in 1 .. n : st[k] = readField(st[k - 1], format[k])
    BY Zenon, <1>11, <1>17
  <2> QED BY Zenon, <2>1, <2>2, <2>3 DEF IsReading, base
<1>20. FoldLeft(readField, base, format) = st[n]
  BY Zenon, <1>1, <1>9, <1>18
<1>21. deserializePacketPayload(format, bytes)
         = [ok |-> FoldLeft(readField, base, format).ok
                     /\ isEnd(FoldLeft(readField, base, format).rest),
            values |-> FoldLeft(readField, base, format).values]
  BY Zenon DEF deserializePacketPayload, base, Start
<1> HIDE DEF st
<1> QED BY Zenon, <1>19, <1>20, <1>21

\* Once a field is refused, so is the payload.
LEMMA StaysRefused ==
  ASSUME NEW format, NEW bytes, NEW st, IsReading(st, format, bytes),
         Len(format) \in Nat, NEW k \in 0 .. Len(format), ~st[k].ok
  PROVE  ~st[Len(format)].ok
<1> DEFINE n == Len(format)
           P == {j \in Nat : j + k <= n => ~st[j + k].ok}
<1>1. n \in Nat /\ k \in Nat /\ k <= n
  OBVIOUS
<1>2. /\ \A j \in 0 .. n : st[j] \in ReadState
      /\ \A j \in 1 .. n : st[j] = readField(st[j - 1], format[j])
  BY Zenon DEF IsReading
<1> HIDE DEF n
<1>3. 0 \in P
  BY <1>1
<1>4. ASSUME NEW j \in Nat, j \in P PROVE j + 1 \in P
  <2> SUFFICES ASSUME (j + 1) + k <= n PROVE ~st[(j + 1) + k].ok
    OBVIOUS
  <2>1. PICK i \in Nat : i = (j + 1) + k
    BY <1>1
  <2>2. i \in 1 .. n /\ i - 1 = j + k /\ j + k <= n /\ j + k \in 0 .. n
    BY <1>1, <2>1
  <2>3. ~st[i - 1].ok /\ st[i - 1] \in ReadState
    BY Zenon, <1>2, <1>4, <2>2
  <2> QED BY Zenon, <1>2, <2>1, <2>2, <2>3, FieldRefused
<1>5. \A j \in Nat : j \in P
  <2> HIDE DEF P
  <2> QED BY Zenon, <1>3, <1>4, Induction
<1>6. n - k \in Nat /\ (n - k) + k = n /\ n <= n
  BY <1>1
<1>7. ~st[n].ok
  BY Zenon, <1>5, <1>6
<1> QED BY Zenon, <1>7 DEF n

\* The bytes of a packet's fields, one after another.
LEMMA FieldsAreBytes ==
  ASSUME NEW format \in Formats, NEW values \in ValuesOf(format)
  PROVE  /\ FieldBytes(format, values) \in Seq(Seq(Byte))
         /\ Len(FieldBytes(format, values)) = Len(format)
         /\ \A i \in 1 .. Len(format) :
              FieldBytes(format, values)[i] = serializeField(format[i], values[i])
         /\ serializePacketPayload(format, values) = FlattenSeq(FieldBytes(format, values))
<1>1. DOMAIN format = 1 .. Len(format) /\ Len(format) \in Nat
      /\ \A i \in 1 .. Len(format) : format[i] \in AnyKind
  BY DEF Formats
<1>2. \A i \in 1 .. Len(format) : serializeField(format[i], values[i]) \in Seq(Byte)
  BY Zenon, <1>1, FieldIsBytes DEF ValuesOf
<1>3. FieldBytes(format, values)
        = [i \in 1 .. Len(format) |-> serializeField(format[i], values[i])]
  BY Zenon, <1>1 DEF FieldBytes
<1>4. FieldBytes(format, values) \in Seq(Seq(Byte)) /\ Len(FieldBytes(format, values)) = Len(format)
  BY <1>1, <1>2, <1>3
<1> QED BY Zenon, <1>3, <1>4 DEF serializePacketPayload, FieldBytes

LEMMA NoBytes == <<>> \in Seq(Byte)
OBVIOUS

LEMMA BytesJoined ==
  \A a, b, c \in Seq(Byte) : (a \o b) \o c = a \o (b \o c)
OBVIOUS

\* Whole fields are read one after another, whatever follows them.
LEMMA FieldsRead ==
  ASSUME NEW format \in Formats, NEW values \in ValuesOf(format),
         NEW n \in 0 .. Len(format), \A i \in 1 .. n : format[i] \in Kind,
         NEW extra \in Seq(Byte), NEW bytes, NEW st, IsReading(st, format, bytes),
         bytes = FlattenSeq(SubSeq(FieldBytes(format, values), 1, n)) \o extra
  PROVE  Reads(st[n], SubSeq(values, 1, n), extra)
<1>1. PICK all \in Seq(Seq(Byte)) :
        /\ all = FieldBytes(format, values) /\ Len(all) = Len(format)
        /\ \A i \in 1 .. Len(format) : all[i] = serializeField(format[i], values[i])
  BY Zenon, FieldsAreBytes
<1>2. n \in 0 .. Len(all) /\ n \in Nat /\ n <= Len(format) /\ Len(format) \in Nat
  BY <1>1
<1>3. PICK parts \in Seq(Seq(Byte)) : parts = SubSeq(all, 1, n) /\ Len(parts) = n
  BY ZenonT(60), <1>2, SeqCut
<1>4. \A i \in 1 .. n : parts[i] = serializeField(format[i], values[i])
  <2>1. \A i \in 1 .. n : parts[i] = all[i] /\ i \in 1 .. Len(format)
    BY <1>1, <1>2, <1>3
  <2> QED BY Zenon, <1>1, <2>1
<1> DEFINE After(j) == Reads(st[j], SubSeq(values, 1, j),
                             FlattenSeq(SubSeq(parts, j + 1, n)) \o extra)
           P == {j \in Nat : j <= n => After(j)}
<1>5. values \in Seq(AnyValue) /\ Len(values) = Len(format)
      /\ \A i \in 1 .. Len(format) : values[i] \in Values(format[i])
  BY Zenon DEF ValuesOf
<1>6. 0 \in P
  <2>1. SubSeq(parts, 1, n) = parts
    BY <1>3
  <2>2. SubSeq(values, 1, 0) = <<>>
    BY <1>5
  <2>3. Reads(st[0], <<>>, bytes)
    <3>1. st[0] = Start(bytes)
      BY Zenon DEF IsReading
    <3>2. Reads(Start(bytes), <<>>, bytes)
      BY DEF Reads, Start
    <3> QED BY Zenon, <3>1, <3>2
  <2>4. bytes = FlattenSeq(parts) \o extra
    BY Zenon, <1>1, <1>3
  <2>5. 0 \in Nat /\ 0 + 1 = 1
    OBVIOUS
  <2> QED BY Zenon, <2>1, <2>2, <2>3, <2>4, <2>5
<1>7. ASSUME NEW j \in Nat, j \in P PROVE j + 1 \in P
  <2> SUFFICES ASSUME j + 1 <= n PROVE After(j + 1)
    OBVIOUS
  <2>1. PICK i \in 1 .. n : i = j + 1 /\ i - 1 = j
    BY <1>2
  <2>2. i \in 1 .. Len(format) /\ i \in 1 .. Len(parts) /\ i \in 1 .. Len(values)
        /\ j \in 0 .. Len(format) /\ j <= n
    BY <1>2, <1>3, <1>5, <2>1
  <2>3. PICK head \in Seq(Byte), tail \in Seq(Byte) :
          /\ head = parts[i] /\ tail = FlattenSeq(SubSeq(parts, i + 1, n))
          /\ FlattenSeq(SubSeq(parts, j + 1, n)) = head \o tail
    <3>1. SubSeq(parts, i + 1, n) \in Seq(Seq(Byte)) /\ parts[i] \in Seq(Byte)
          /\ <<parts[i]>> \in Seq(Seq(Byte))
          /\ SubSeq(parts, i, n) = <<parts[i]>> \o SubSeq(parts, i + 1, n)
      <4>1. /\ SubSeq(parts, i + 1, Len(parts)) \in Seq(Seq(Byte)) /\ parts[i] \in Seq(Byte)
            /\ <<parts[i]>> \in Seq(Seq(Byte))
            /\ SubSeq(parts, i, Len(parts))
                 = <<parts[i]>> \o SubSeq(parts, i + 1, Len(parts))
        BY Zenon, <2>2, SeqParts
      <4> QED BY Zenon, <1>3, <4>1
    <3>2. /\ FlattenSeq(<<parts[i]>> \o SubSeq(parts, i + 1, n))
               = FlattenSeq(<<parts[i]>>) \o FlattenSeq(SubSeq(parts, i + 1, n))
          /\ FlattenSeq(SubSeq(parts, i + 1, n)) \in Seq(Byte)
      BY Zenon, <3>1, FlattenConcat
    <3>3. FlattenSeq(<<parts[i]>>) = parts[i]
      BY Zenon, <3>1, FlattenOne
    <3> QED BY Zenon, <2>1, <3>1, <3>2, <3>3
  <2>4. PICK rest \in Seq(Byte) : rest = tail \o extra
    BY Zenon, SeqJoin
  <2>5. (head \o tail) \o extra = head \o rest
    <3>1. (head \o tail) \o extra = head \o (tail \o extra)
      BY ZenonT(60), <2>3, BytesJoined
    <3> QED BY Zenon, <2>4, <3>1
  <2>6. st[j] \in ReadState /\ st[i] = readField(st[j], format[i])
    BY Zenon, <2>1, <2>2 DEF IsReading
  <2>7. st[j].ok /\ st[j].values = SubSeq(values, 1, j) /\ st[j].rest = head \o rest
    <3>1. After(j)
      BY Zenon, <1>7, <2>2
    <3> QED BY Zenon, <2>3, <2>5, <3>1 DEF Reads
  <2>8. deserializeField(format[i], head \o rest) = OK(values[i], Len(head))
    <3>1. format[i] \in Kind /\ values[i] \in Values(format[i])
      BY Zenon, <1>5, <2>2
    <3>2. values[i] \in FieldValue(format[i])
      BY Zenon, <3>1, Kinds DEF Values
    <3>3. deserializeField(format[i], serializeField(format[i], values[i]) \o rest)
            = OK(values[i], Len(serializeField(format[i], values[i])))
      BY Zenon, <3>1, <3>2, FieldRoundTrip DEF Kind
    <3> QED BY Zenon, <1>4, <2>3, <3>3
  <2>9. Reads(st[i], Append(SubSeq(values, 1, j), values[i]),
              SubSeq(head \o rest, Len(head) + 1, Len(head \o rest)))
    <3>1. deserializeField(format[i], st[j].rest) = OK(values[i], Len(head))
      BY Zenon, <2>7, <2>8
    <3>2. Reads(readField(st[j], format[i]), Append(st[j].values, values[i]),
                SubSeq(st[j].rest, Len(head) + 1, Len(st[j].rest)))
      BY Zenon, <2>6, <2>7, <3>1, FieldAccepted
    <3> QED BY Zenon, <2>6, <2>7, <3>2
  <2>10. SubSeq(head \o rest, Len(head) + 1, Len(head \o rest)) = rest
    BY Zenon, Concatenated
  <2>11. Append(SubSeq(values, 1, j), values[i]) = SubSeq(values, 1, i)
    BY SMTT(40), <1>5, <2>1, <2>2
  <2> QED BY Zenon, <2>1, <2>3, <2>4, <2>9, <2>10, <2>11
<1>8. \A j \in Nat : j \in P
  <2> HIDE DEF P
  <2> QED BY Zenon, <1>6, <1>7, Induction
<1>9. After(n)
  <2>1. n <= n
    BY <1>2
  <2> QED BY Zenon, <1>2, <1>8, <2>1
<1>10. SubSeq(parts, n + 1, n) = <<>>
  BY <1>3
<1>11. <<>> \o extra = extra
  BY Zenon, SeqJoinEmpty
<1> QED BY Zenon, <1>9, <1>10, <1>11, FlattenEmpty

\* Tail bytes are what is left of the payload.
HasTail(format) == Len(format) # 0 /\ format[Len(format)] = "tail"

\* The fields before the tail bytes, or all of them.
Plain(format) == IF HasTail(format) THEN Len(format) - 1 ELSE Len(format)

LEMMA PlainKinds ==
  ASSUME NEW format \in Formats
  PROVE  /\ Len(format) \in Nat /\ Plain(format) \in 0 .. Len(format)
         /\ \A i \in 1 .. Plain(format) : format[i] \in Kind
         /\ HasTail(format) => Len(format) \in 1 .. Len(format)
                               /\ Plain(format) = Len(format) - 1
                               /\ format[Len(format)] = "tail"
         /\ ~HasTail(format) => Plain(format) = Len(format)
<1>1. format \in Seq(AnyKind) /\ Len(format) \in Nat
      /\ \A i \in 1 .. Len(format) - 1 : format[i] \in Kind
  BY DEF Formats
<1>2. CASE HasTail(format)
  <2>1. Len(format) # 0 /\ format[Len(format)] = "tail" /\ Plain(format) = Len(format) - 1
    BY <1>2 DEF HasTail, Plain
  <2> QED BY <1>1, <1>2, <2>1
<1>3. CASE ~HasTail(format)
  <2>1. Plain(format) = Len(format)
    BY <1>3 DEF Plain
  <2>2. Len(format) # 0 => format[Len(format)] \in Kind
    BY <1>1, <1>3 DEF HasTail, AnyKind
  <2>3. \A i \in 1 .. Len(format) : i \in 1 .. Len(format) - 1 \/ (i = Len(format) /\ Len(format) # 0)
    BY <1>1
  <2>4. \A i \in 1 .. Len(format) : format[i] \in Kind
    BY Zenon, <1>1, <2>2, <2>3
  <2> QED BY <1>1, <1>3, <2>1, <2>4
<1> QED BY Zenon, <1>2, <1>3

\* The plain fields and some more bytes: what is made of them.
LEMMA PlainThen ==
  ASSUME NEW format \in Formats, NEW values \in ValuesOf(format), NEW more \in Seq(Byte)
  PROVE  deserializePacketPayload(format,
             FlattenSeq(SubSeq(FieldBytes(format, values), 1, Plain(format))) \o more)
           = IF HasTail(format)
             THEN [ok |-> TRUE, values |-> Append(SubSeq(values, 1, Len(format) - 1), more)]
             ELSE [ok |-> isEnd(more), values |-> values]
<1> DEFINE n == Len(format)
           m == Plain(format)
           result == deserializePacketPayload(format, FlattenSeq(SubSeq(FieldBytes(format, values), 1, m)) \o more)
<1>1. PICK bytes \in Seq(Byte) :
        bytes = FlattenSeq(SubSeq(FieldBytes(format, values), 1, m)) \o more
  <2>1. FieldBytes(format, values) \in Seq(Seq(Byte)) /\ Len(FieldBytes(format, values)) = Len(format)
    BY Zenon, FieldsAreBytes
  <2>2. PICK all \in Seq(Seq(Byte)) : all = FieldBytes(format, values) /\ Len(all) = Len(format)
    BY Zenon, <2>1
  <2>3. SubSeq(all, 1, m) \in Seq(Seq(Byte))
    BY Zenon, <2>2, PlainKinds, SeqCut
  <2>4. FlattenSeq(SubSeq(all, 1, m)) \in Seq(Byte)
    BY Zenon, <2>3, FlattenConcat
  <2> QED BY Zenon, <2>2, <2>4, SeqJoin
<1>2. PICK st :
        /\ IsReading(st, format, bytes)
        /\ deserializePacketPayload(format, bytes)
             = [ok |-> st[n].ok /\ isEnd(st[n].rest), values |-> st[n].values]
  <2>1. format \in Seq(AnyKind)
    BY DEF Formats
  <2> QED BY Zenon, <1>1, <2>1, ReadingExists
<1>3. Reads(st[m], SubSeq(values, 1, m), more)
  <2>1. m \in 0 .. Len(format) /\ \A i \in 1 .. m : format[i] \in Kind
    BY Zenon, PlainKinds
  <2> HIDE DEF m
  <2> QED BY Zenon, <1>1, <1>2, <2>1, FieldsRead
<1>4. values \in Seq(AnyValue) /\ Len(values) = n
  BY Zenon DEF ValuesOf
<1>5. CASE ~HasTail(format)
  <2>1. m = n /\ SubSeq(values, 1, n) = values
    <3>1. m = n
      BY Zenon, <1>5, PlainKinds
    <3>2. SubSeq(values, 1, Len(values)) = values
      BY <1>4
    <3> QED BY Zenon, <1>4, <3>1, <3>2
  <2>2. st[n].ok = TRUE /\ st[n].values = values /\ st[n].rest = more
    BY Zenon, <1>3, <2>1 DEF Reads
  <2>3. isEnd(more) \in BOOLEAN
    BY DEF isEnd
  <2>4. (st[n].ok /\ isEnd(st[n].rest)) = isEnd(more)
    BY Zenon, <2>2, <2>3
  <2>5. deserializePacketPayload(format, bytes) = [ok |-> isEnd(more), values |-> values]
    BY Zenon, <1>2, <2>2, <2>4
  <2> QED BY Zenon, <1>1, <1>5, <2>5
<1>6. CASE HasTail(format)
  <2>1. n \in 1 .. n /\ m = n - 1 /\ format[n] = "tail" /\ m \in 0 .. n
    BY Zenon, <1>6, PlainKinds
  <2>2. st[m] \in ReadState /\ st[n] = readField(st[m], format[n])
    BY Zenon, <1>2, <2>1 DEF IsReading
  <2>3. st[m].ok = TRUE /\ st[m].values = SubSeq(values, 1, m) /\ st[m].rest = more
    BY Zenon, <1>3 DEF Reads
  <2>4. deserializeField(format[n], st[m].rest) = OK(more, Len(more))
    BY Zenon, <2>1, <2>3, TailRead
  <2>5. Reads(st[n], Append(SubSeq(values, 1, m), more),
              SubSeq(more, Len(more) + 1, Len(more)))
    <3>1. Reads(readField(st[m], format[n]), Append(st[m].values, more),
                SubSeq(st[m].rest, Len(more) + 1, Len(st[m].rest)))
      BY Zenon, <2>2, <2>3, <2>4, FieldAccepted
    <3> QED BY Zenon, <2>2, <2>3, <3>1
  <2>6. SubSeq(more, Len(more) + 1, Len(more)) = <<>>
    OBVIOUS
  <2>7. st[n].ok = TRUE /\ st[n].values = Append(SubSeq(values, 1, m), more) /\ isEnd(st[n].rest)
    BY Zenon, <2>5, <2>6 DEF isEnd, Reads
  <2>8. (st[n].ok /\ isEnd(st[n].rest)) = TRUE
    BY Zenon, <2>7
  <2>9. deserializePacketPayload(format, bytes)
          = [ok |-> TRUE, values |-> Append(SubSeq(values, 1, m), more)]
    BY Zenon, <1>2, <2>7, <2>8
  <2> QED BY Zenon, <1>1, <1>6, <2>1, <2>9
<1> QED BY Zenon, <1>5, <1>6

\* A payload is its plain fields and its tail bytes.
LEMMA PlainAndTail ==
  ASSUME NEW format \in Formats, NEW values \in ValuesOf(format)
  PROVE  \E plain \in Seq(Byte), tail \in Seq(Byte) :
           /\ plain = FlattenSeq(SubSeq(FieldBytes(format, values), 1, Plain(format)))
           /\ serializePacketPayload(format, values) = plain \o tail
           /\ HasTail(format) => tail = values[Len(format)]
           /\ ~HasTail(format) => tail = <<>>
<1> DEFINE n == Len(format)
           m == Plain(format)
<1>1. PICK all \in Seq(Seq(Byte)) :
        /\ all = FieldBytes(format, values) /\ Len(all) = n
        /\ \A i \in 1 .. n : all[i] = serializeField(format[i], values[i])
        /\ serializePacketPayload(format, values) = FlattenSeq(all)
  BY Zenon, FieldsAreBytes
<1>2. SubSeq(all, 1, m) \in Seq(Seq(Byte))
  BY Zenon, <1>1, PlainKinds, SeqCut
<1>3. PICK plain \in Seq(Byte) : plain = FlattenSeq(SubSeq(all, 1, m))
  BY Zenon, <1>2, FlattenConcat
<1>4. CASE HasTail(format)
  <2>1. n \in 1 .. Len(all) /\ m = n - 1 /\ format[n] = "tail" /\ n \in 1 .. n
    BY Zenon, <1>1, <1>4, PlainKinds
  <2>2. /\ SubSeq(all, 1, n) = SubSeq(all, 1, n - 1) \o <<all[n]>>
        /\ all[n] \in Seq(Byte) /\ <<all[n]>> \in Seq(Seq(Byte))
    BY Zenon, <2>1, SeqParts
  <2>3. SubSeq(all, 1, Len(all)) = all
    OBVIOUS
  <2>4. /\ FlattenSeq(SubSeq(all, 1, m) \o <<all[n]>>)
             = FlattenSeq(SubSeq(all, 1, m)) \o FlattenSeq(<<all[n]>>)
    BY Zenon, <1>2, <2>2, FlattenConcat
  <2>5. FlattenSeq(<<all[n]>>) = all[n]
    BY Zenon, <2>2, FlattenOne
  <2>6. all[n] = values[n]
    BY Zenon, <1>1, <2>1, TailRead
  <2>7. serializePacketPayload(format, values) = plain \o all[n]
    BY Zenon, <1>1, <1>3, <2>1, <2>2, <2>3, <2>4, <2>5
  <2> QED BY Zenon, <1>1, <1>3, <1>4, <2>2, <2>6, <2>7
<1>5. CASE ~HasTail(format)
  <2>1. m = Len(all)
    BY Zenon, <1>1, <1>5, PlainKinds
  <2>2. SubSeq(all, 1, Len(all)) = all
    OBVIOUS
  <2>3. PICK none \in Seq(Byte) : none = <<>>
    BY Zenon, NoBytes
  <2>4. plain \o <<>> = plain
    BY Zenon, <1>3, SeqJoinEmpty
  <2> QED BY Zenon, <1>1, <1>3, <1>5, <2>1, <2>2, <2>3, <2>4
<1> QED BY Zenon, <1>4, <1>5

\* A payload and some more bytes: what is made of them.
LEMMA PayloadThen ==
  ASSUME NEW format \in Formats, NEW values \in ValuesOf(format), NEW extra \in Seq(Byte)
  PROVE  deserializePacketPayload(format, serializePacketPayload(format, values) \o extra)
           = IF HasTail(format)
             THEN [ok |-> TRUE, values |-> Append(SubSeq(values, 1, Len(format) - 1),
                                                  values[Len(format)] \o extra)]
             ELSE [ok |-> isEnd(extra), values |-> values]
<1>1. PICK plain \in Seq(Byte), tail \in Seq(Byte) :
        /\ plain = FlattenSeq(SubSeq(FieldBytes(format, values), 1, Plain(format)))
        /\ serializePacketPayload(format, values) = plain \o tail
        /\ HasTail(format) => tail = values[Len(format)]
        /\ ~HasTail(format) => tail = <<>>
  BY Zenon, PlainAndTail
<1>2. PICK more \in Seq(Byte) : more = tail \o extra
  BY Zenon, SeqJoin
<1>3. serializePacketPayload(format, values) \o extra = plain \o more
  <2>1. (plain \o tail) \o extra = plain \o (tail \o extra)
    BY ZenonT(60), <1>1, BytesJoined
  <2> QED BY Zenon, <1>1, <1>2, <2>1
<1>4. <<>> \o extra = extra
  BY Zenon, SeqJoinEmpty
<1>5. deserializePacketPayload(format, plain \o more)
        = IF HasTail(format)
          THEN [ok |-> TRUE, values |-> Append(SubSeq(values, 1, Len(format) - 1), more)]
          ELSE [ok |-> isEnd(more), values |-> values]
  BY Zenon, <1>1, PlainThen
<1>6. CASE HasTail(format)
  <2>1. more = values[Len(format)] \o extra
    BY Zenon, <1>1, <1>2, <1>6
  <2> QED BY Zenon, <1>3, <1>5, <1>6, <2>1
<1>7. CASE ~HasTail(format)
  <2>1. more = extra
    BY Zenon, <1>1, <1>2, <1>4, <1>7
  <2> QED BY Zenon, <1>3, <1>5, <1>7, <2>1
<1> QED BY Zenon, <1>6, <1>7

(***************************************************************************)
(* A payload of any format with any values is read as it was sent: the     *)
(* reading of deserialize.hpp takes apart what serialize.hpp put together. *)
(***************************************************************************)
THEOREM PayloadRead ==
  ASSUME NEW format \in Formats, NEW values \in ValuesOf(format)
  PROVE  LET result == deserializePacketPayload(format, serializePacketPayload(format, values))
         IN result.ok /\ result.values = values
<1>1. PICK plain \in Seq(Byte), tail \in Seq(Byte) :
        /\ serializePacketPayload(format, values) = plain \o tail
  BY Zenon, PlainAndTail
<1>2. PICK all \in Seq(Byte) : all = plain \o tail
  BY Zenon, SeqJoin
<1>3. PICK none \in Seq(Byte) : none = <<>>
  BY Zenon, NoBytes
<1>4. all \o none = all
  BY Zenon, <1>3, SeqJoinEmpty
<1>5. values \in Seq(AnyValue) /\ Len(values) = Len(format)
  BY Zenon DEF ValuesOf
<1>6. deserializePacketPayload(format, all)
        = IF HasTail(format)
          THEN [ok |-> TRUE, values |-> Append(SubSeq(values, 1, Len(format) - 1),
                                               values[Len(format)] \o none)]
          ELSE [ok |-> isEnd(none), values |-> values]
  <2>1. deserializePacketPayload(format, serializePacketPayload(format, values) \o none)
          = IF HasTail(format)
            THEN [ok |-> TRUE, values |-> Append(SubSeq(values, 1, Len(format) - 1),
                                                 values[Len(format)] \o none)]
            ELSE [ok |-> isEnd(none), values |-> values]
    BY Zenon, <1>3, PayloadThen
  <2> QED BY Zenon, <1>1, <1>2, <1>4, <2>1
<1>7. CASE HasTail(format)
  <2>1. Len(format) \in 1 .. Len(format) /\ format[Len(format)] = "tail"
    BY Zenon, <1>7, PlainKinds
  <2>2. PICK last \in Seq(Byte) : last = values[Len(format)]
    <3>1. values[Len(format)] \in Values(format[Len(format)])
      BY Zenon, <2>1 DEF ValuesOf
    <3> QED BY Zenon, <2>1, <3>1 DEF Values
  <2>3. last \o none = last
    BY Zenon, <1>3, <2>2, SeqJoinEmpty
  <2>4. deserializePacketPayload(format, all)
          = [ok |-> TRUE, values |-> Append(SubSeq(values, 1, Len(format) - 1), last)]
    BY Zenon, <1>7, <1>6, <2>2, <2>3
  <2>5. Append(SubSeq(values, 1, Len(format) - 1), values[Len(format)]) = values
    BY <1>5, <2>1
  <2>6. deserializePacketPayload(format, all) = [ok |-> TRUE, values |-> values]
    BY Zenon, <2>2, <2>4, <2>5
  <2> QED BY <1>1, <1>2, <2>6
<1>8. CASE ~HasTail(format)
  <2>1. deserializePacketPayload(format, all) = [ok |-> isEnd(none), values |-> values]
    BY Zenon, <1>8, <1>6
  <2>2. isEnd(none)
    BY Zenon, <1>3 DEF isEnd
  <2> QED BY <1>1, <1>2, <2>1, <2>2
<1> QED BY Zenon, <1>7, <1>8

\* Whatever the last value, the others stay.
LEMMA FrontOfLast ==
  ASSUME NEW format \in Formats, HasTail(format), NEW values \in ValuesOf(format), NEW last
  PROVE  Front(Append(SubSeq(values, 1, Len(format) - 1), last)) = Front(values)
<1>1. PICK n \in Nat : n = Len(format) /\ n >= 1
  <2>1. Len(format) \in 1 .. Len(format) /\ Len(format) \in Nat
    BY Zenon, PlainKinds
  <2> QED BY <2>1
<1>2. values \in Seq(AnyValue) /\ Len(values) = n
  BY Zenon, <1>1 DEF ValuesOf
<1>3. PICK front \in Seq(AnyValue) : front = SubSeq(values, 1, n - 1) /\ Len(front) = n - 1
  <2>1. n - 1 \in 0 .. Len(values)
    BY <1>1, <1>2
  <2>2. SubSeq(values, 1, n - 1) \in Seq(AnyValue) /\ Len(SubSeq(values, 1, n - 1)) = n - 1
    BY Zenon, <1>2, <2>1, SeqCut
  <2> QED BY Zenon, <2>2
<1>4. Front(Append(front, last)) = front
  <2>1. Len(Append(front, last)) = n
    BY <1>1, <1>3
  <2>2. SubSeq(Append(front, last), 1, n - 1) = front
    BY <1>1, <1>3
  <2> QED BY Zenon, <2>1, <2>2 DEF Front
<1> QED BY Zenon, <1>1, <1>2, <1>3, <1>4 DEF Front

(***************************************************************************)
(* With bytes after it, a payload is refused unless the packet ends in     *)
(* tail bytes; its other fields are then the ones that were sent.          *)
(***************************************************************************)
THEOREM PayloadSurplus ==
  ASSUME NEW format \in Formats, NEW values \in ValuesOf(format),
         NEW extra \in Seq(Byte), extra # <<>>,
         deserializePacketPayload(format, serializePacketPayload(format, values) \o extra).ok
  PROVE  /\ HasTail(format)
         /\ Front(deserializePacketPayload(format,
                    serializePacketPayload(format, values) \o extra).values) = Front(values)
<1> DEFINE result == deserializePacketPayload(format, serializePacketPayload(format, values) \o extra)
<1>1. result = IF HasTail(format)
               THEN [ok |-> TRUE, values |-> Append(SubSeq(values, 1, Len(format) - 1),
                                                    values[Len(format)] \o extra)]
               ELSE [ok |-> isEnd(extra), values |-> values]
  BY Zenon, PayloadThen
<1>2. ~isEnd(extra)
  BY Zenon DEF isEnd
<1>3. result.ok
  OBVIOUS
<1> HIDE DEF result
<1>4. HasTail(format)
  <2> SUFFICES ASSUME ~HasTail(format) PROVE FALSE
    OBVIOUS
  <2>1. result = [ok |-> isEnd(extra), values |-> values]
    BY Zenon, <1>1
  <2> QED BY <1>2, <1>3, <2>1
<1>5. PICK last : last = values[Len(format)] \o extra
  OBVIOUS
<1>6. result = [ok |-> TRUE, values |-> Append(SubSeq(values, 1, Len(format) - 1), last)]
  BY Zenon, <1>1, <1>4, <1>5
<1>7. result.values = Append(SubSeq(values, 1, Len(format) - 1), last)
  BY <1>6
<1>8. Front(Append(SubSeq(values, 1, Len(format) - 1), last)) = Front(values)
  BY Zenon, <1>4, FrontOfLast
<1> QED BY Zenon, <1>4, <1>7, <1>8 DEF result

(***************************************************************************)
(* Cut anywhere, a payload is refused, but for tail bytes that were cut:   *)
(* the fields before those are then the ones that were sent, and no field  *)
(* is made up from what is missing.                                        *)
(***************************************************************************)
THEOREM PayloadCut ==
  ASSUME NEW format \in Formats, NEW values \in ValuesOf(format),
         NEW n \in 0 .. Len(serializePacketPayload(format, values)) - 1,
         deserializePacketPayload(format,
           SubSeq(serializePacketPayload(format, values), 1, n)).ok
  PROVE  /\ HasTail(format)
         /\ Front(deserializePacketPayload(format,
                    SubSeq(serializePacketPayload(format, values), 1, n)).values) = Front(values)
<1> DEFINE cut == SubSeq(serializePacketPayload(format, values), 1, n)
           result == deserializePacketPayload(format, cut)
<1>1. PICK all \in Seq(Seq(Byte)) :
        /\ all = FieldBytes(format, values) /\ Len(all) = Len(format)
        /\ \A i \in 1 .. Len(format) : all[i] = serializeField(format[i], values[i])
        /\ serializePacketPayload(format, values) = FlattenSeq(all)
  BY Zenon, FieldsAreBytes
<1>2. PICK k, r :
        /\ k \in 0 .. Len(all) - 1 /\ r \in 0 .. Len(all[k + 1]) - 1
        /\ SubSeq(FlattenSeq(all), 1, n) = FlattenSeq(SubSeq(all, 1, k)) \o SubSeq(all[k + 1], 1, r)
  <2>1. n \in 0 .. Len(FlattenSeq(all)) - 1
    BY Zenon, <1>1
  <2>2. \E k \in 0 .. Len(all) - 1 : \E r \in 0 .. Len(all[k + 1]) - 1 :
          SubSeq(FlattenSeq(all), 1, n)
            = FlattenSeq(SubSeq(all, 1, k)) \o SubSeq(all[k + 1], 1, r)
    BY Zenon, <2>1, FlattenCut
  <2> QED BY Zenon, <2>2
<1>3. Len(all) \in Nat /\ k \in Nat /\ k + 1 \in 1 .. Len(format) /\ k \in 0 .. Len(format)
      /\ k + 1 \in 1 .. Len(all) /\ k \in 0 .. Len(all) /\ Len(format) \in Nat
  BY <1>1, <1>2
<1>4. PICK field \in Seq(Byte) :
        field = all[k + 1] /\ field = serializeField(format[k + 1], values[k + 1])
  <2>1. all[k + 1] \in Seq(Byte)
    BY <1>3
  <2> QED BY Zenon, <1>1, <1>3, <2>1
<1>5. PICK more \in Seq(Byte) : more = SubSeq(field, 1, r)
  <2>1. r \in 0 .. Len(field) - 1
    BY Zenon, <1>2, <1>4
  <2>2. r \in 0 .. Len(field)
    BY <2>1
  <2> QED BY Zenon, <2>2, SeqCut
<1>6. PICK head \in Seq(Byte) : head = FlattenSeq(SubSeq(all, 1, k))
  <2>1. SubSeq(all, 1, k) \in Seq(Seq(Byte))
    BY Zenon, <1>3, SeqCut
  <2> QED BY Zenon, <2>1, FlattenConcat
<1>7. PICK bytes \in Seq(Byte) : bytes = head \o more /\ cut = bytes
  <2>1. cut = head \o more
    BY Zenon, <1>1, <1>2, <1>4, <1>5, <1>6
  <2> QED BY Zenon, <2>1, <1>5, <1>6, SeqJoin
<1>8. result.ok
  OBVIOUS
<1> HIDE DEF cut
<1>9. CASE k < Plain(format)
  <2>1. /\ \A i \in 1 .. k : format[i] \in Kind
        /\ format[k + 1] \in Kind
    <3>1. /\ Plain(format) \in 0 .. Len(format) /\ Len(format) \in Nat
          /\ \A i \in 1 .. Plain(format) : format[i] \in Kind
      BY Zenon, PlainKinds
    <3>2. k + 1 \in 1 .. Plain(format) /\ \A i \in 1 .. k : i \in 1 .. Plain(format)
      BY SMTT(40), <1>3, <1>9, <3>1
    <3> QED BY Zenon, <3>1, <3>2
  <2>2. PICK st :
          /\ IsReading(st, format, bytes)
          /\ result = [ok |-> st[Len(format)].ok /\ isEnd(st[Len(format)].rest),
                       values |-> st[Len(format)].values]
    <3>1. format \in Seq(AnyKind)
      BY DEF Formats
    <3> QED BY Zenon, <1>7, <3>1, ReadingExists
  <2>3. bytes = FlattenSeq(SubSeq(FieldBytes(format, values), 1, k)) \o more
    BY Zenon, <1>1, <1>6, <1>7
  <2>4. Reads(st[k], SubSeq(values, 1, k), more)
    BY Zenon, <1>3, <1>5, <2>1, <2>2, <2>3, FieldsRead
  <2>5. PICK i \in 1 .. Len(format) : i = k + 1 /\ i - 1 = k
    BY <1>3
  <2>6. deserializeField(format[i], more).status # "OK"
    <3>1. format[i] \in Kind /\ values[i] \in Values(format[i])
      BY Zenon, <2>1, <2>5 DEF ValuesOf
    <3>2. r \in 0 .. Len(serializeField(format[i], values[i])) - 1
      BY Zenon, <1>2, <1>4, <2>5
    <3>3. deserializeField(format[i], SubSeq(serializeField(format[i], values[i]), 1, r)).status # "OK"
      BY Zenon, <3>1, <3>2, FieldCut
    <3> QED BY Zenon, <1>4, <1>5, <2>5, <3>3
  <2>7. st[k] \in ReadState /\ st[i] = readField(st[k], format[i]) /\ i \in 0 .. Len(format)
    <3>1. i \in 0 .. Len(format)
      BY <1>3
    <3> QED BY Zenon, <1>3, <2>2, <2>5, <3>1 DEF IsReading
  <2>8. st[k].rest = more
    BY Zenon, <2>4 DEF Reads
  <2>9. ~st[i].ok
    BY Zenon, <2>6, <2>7, <2>8, FieldRefused
  <2>10. ~st[Len(format)].ok
    BY Zenon, <1>3, <2>2, <2>7, <2>9, StaysRefused
  <2>11. result.ok = (st[Len(format)].ok /\ isEnd(st[Len(format)].rest))
    <3> HIDE DEF result
    <3> QED BY <2>2
  <2> QED BY Zenon, <1>8, <2>10, <2>11
<1>10. CASE ~(k < Plain(format))
  <2>1. /\ HasTail(format) /\ k = Plain(format)
    <3>1. /\ Plain(format) \in 0 .. Len(format)
          /\ HasTail(format) => Plain(format) = Len(format) - 1
          /\ ~HasTail(format) => Plain(format) = Len(format)
      BY Zenon, PlainKinds
    <3> QED BY <1>3, <1>10, <3>1
  <2>2. result = [ok |-> TRUE, values |-> Append(SubSeq(values, 1, Len(format) - 1), more)]
    <3>1. cut = FlattenSeq(SubSeq(FieldBytes(format, values), 1, Plain(format))) \o more
      BY Zenon, <1>1, <1>6, <1>7, <2>1
    <3> QED BY Zenon, <1>5, <2>1, <3>1, PlainThen
  <2>3. result.values = Append(SubSeq(values, 1, Len(format) - 1), more)
    <3> HIDE DEF result
    <3> QED BY <2>2
  <2>4. Front(Append(SubSeq(values, 1, Len(format) - 1), more)) = Front(values)
    BY Zenon, <2>1, FrontOfLast
  <2> QED BY Zenon, <2>1, <2>3, <2>4 DEF cut
<1> QED BY Zenon, <1>9, <1>10

------------------------------------------------------------------------------
\* What is loose at the end of some bytes is loose in them.
LEMMA LooseWithin ==
  ASSUME NEW a \in Seq(Byte), NEW b \in Seq(Byte), Loose(b)
  PROVE  Loose(a \o b)
<1>1. PICK k \in Nat, m \in Nat : k = Len(a) /\ m = Len(b)
  OBVIOUS
<1>2. PICK c : c = a \o b
  OBVIOUS
<1>3. Len(c) = k + m /\ \A i \in 1 .. m : c[k + i] = b[i]
  <2>1. Len(a \o b) = k + m
    BY <1>1
  <2>2. \A i \in 1 .. m : (a \o b)[k + i] = b[i]
    BY <1>1
  <2> QED BY Zenon, <1>2, <2>1, <2>2
<1>4. CASE Overlong(b)
  <2>1. PICK i \in 2 .. m : b[i] = 0 /\ b[i - 1] >= 128
    BY Zenon, <1>1, <1>4 DEF Overlong
  <2>2. k + i \in 2 .. k + m /\ i \in 1 .. m /\ i - 1 \in 1 .. m /\ k + (i - 1) = (k + i) - 1
    BY <1>1
  <2>3. c[k + i] = 0 /\ c[(k + i) - 1] >= 128
    BY Zenon, <1>3, <2>1, <2>2
  <2> QED BY Zenon, <1>2, <1>3, <2>2, <2>3 DEF Loose, Overlong
<1>5. CASE Overfull(b)
  <2>1. PICK i \in 5 .. m :
          b[i] >= 16 /\ b[i] < 128 /\ \A j \in i - 4 .. i - 1 : b[j] >= 128
    BY Zenon, <1>1, <1>5 DEF Overfull
  <2>2. k + i \in 5 .. k + m /\ i \in 1 .. m
    BY <1>1
  <2>3. ASSUME NEW j \in (k + i) - 4 .. (k + i) - 1 PROVE c[j] >= 128
    <3>1. PICK l \in Int : l = j - k /\ j = k + l
      BY <1>1
    <3>2. l \in i - 4 .. i - 1 /\ l \in 1 .. m
      BY <1>1, <3>1
    <3> QED BY Zenon, <1>3, <2>1, <3>1, <3>2
  <2>4. c[k + i] >= 16 /\ c[k + i] < 128
    BY Zenon, <1>3, <2>1, <2>2
  <2> QED BY Zenon, <1>2, <1>3, <2>2, <2>3, <2>4 DEF Loose, Overfull
<1> QED BY Zenon, <1>4, <1>5 DEF Loose

\* The first j values are values of the format, and these are their bytes.
AreValues(values, format, j) ==
  values \in Seq(AnyValue) /\ Len(values) = j /\ \A i \in 1 .. j : values[i] \in Values(format[i])
AreBytes(parts, format, values, j) ==
  /\ parts \in Seq(Seq(Byte)) /\ Len(parts) = j
  /\ \A i \in 1 .. j : parts[i] = serializeField(format[i], values[i])

\* One value more.
LEMMA ValueMore ==
  ASSUME NEW format, NEW j \in Nat, NEW values, AreValues(values, format, j),
         NEW v \in AnyValue, v \in Values(format[j + 1]), NEW bytes \in Seq(Byte)
  PROVE  /\ AreValues(Append(values, v), format, j + 1)
         /\ \A parts : AreBytes(parts, format, values, j)
                         /\ bytes = serializeField(format[j + 1], v) =>
                         AreBytes(Append(parts, bytes), format, Append(values, v), j + 1)
<1>1. values \in Seq(AnyValue) /\ Len(values) = j /\ \A i \in 1 .. j : values[i] \in Values(format[i])
  BY Zenon DEF AreValues
<1>2. /\ Append(values, v) \in Seq(AnyValue) /\ Len(Append(values, v)) = j + 1
      /\ Append(values, v)[j + 1] = v
      /\ \A i \in 1 .. j : Append(values, v)[i] = values[i]
  BY <1>1
<1>3. \A i \in 1 .. j + 1 : i \in 1 .. j \/ i = j + 1
  OBVIOUS
<1>4. AreValues(Append(values, v), format, j + 1)
  BY Zenon, <1>1, <1>2, <1>3 DEF AreValues
<1>5. ASSUME NEW parts, AreBytes(parts, format, values, j),
             bytes = serializeField(format[j + 1], v)
      PROVE  AreBytes(Append(parts, bytes), format, Append(values, v), j + 1)
  <2>1. parts \in Seq(Seq(Byte)) /\ Len(parts) = j
        /\ \A i \in 1 .. j : parts[i] = serializeField(format[i], values[i])
    BY Zenon, <1>5 DEF AreBytes
  <2>2. /\ Append(parts, bytes) \in Seq(Seq(Byte)) /\ Len(Append(parts, bytes)) = j + 1
        /\ Append(parts, bytes)[j + 1] = bytes
        /\ \A i \in 1 .. j : Append(parts, bytes)[i] = parts[i]
    BY <2>1
  <2> QED BY Zenon, <1>2, <1>3, <1>5, <2>1, <2>2 DEF AreBytes
<1> QED BY Zenon, <1>4, <1>5

(***************************************************************************)
(* What a reading holds after j fields: j values, whose bytes and what is  *)
(* left are the payload, unless a number in it is loose.                   *)
(***************************************************************************)
ReadSoFar(state, format, bytes, j) ==
  /\ AreValues(state.values, format, j)
  /\ \E head \in Seq(Byte) : bytes = head \o state.rest
  /\ \/ Loose(bytes)
     \/ \E parts : AreBytes(parts, format, state.values, j)
                   /\ FlattenSeq(parts) \o state.rest = bytes

LEMMA ReadMore ==
  ASSUME NEW format \in Formats, NEW bytes \in Seq(Byte), NEW state \in ReadState,
         NEW j \in Nat, j + 1 <= Len(format), ReadSoFar(state, format, bytes, j),
         readField(state, format[j + 1]).ok
  PROVE  ReadSoFar(readField(state, format[j + 1]), format, bytes, j + 1)
<1>1. PICK kind \in AnyKind : kind = format[j + 1]
  <2>1. format \in Seq(AnyKind)
    BY DEF Formats
  <2>2. j + 1 \in 1 .. Len(format)
    BY <2>1
  <2> QED BY <2>1, <2>2
<1>2. state.ok /\ deserializeField(kind, state.rest).status = "OK"
  BY Zenon, <1>1, FieldRefused
<1>3. PICK values \in Seq(AnyValue), rest \in Seq(Byte) :
        values = state.values /\ rest = state.rest
  BY DEF ReadState
<1>4. PICK v \in Values(kind), n \in 0 .. Len(rest) :
        /\ deserializeField(kind, rest) = OK(v, n)
        /\ serializeField(kind, v) = SubSeq(rest, 1, n) \/ Loose(rest)
  BY Zenon, <1>2, <1>3, FieldTaken
<1>5. PICK taken \in Seq(Byte), next \in Seq(Byte) :
        /\ taken = SubSeq(rest, 1, n) /\ next = SubSeq(rest, n + 1, Len(rest))
        /\ rest = taken \o next
  <2>1. /\ SubSeq(rest, 1, n) \in Seq(Byte) /\ SubSeq(rest, n + 1, Len(rest)) \in Seq(Byte)
        /\ rest = SubSeq(rest, 1, n) \o SubSeq(rest, n + 1, Len(rest))
    BY Zenon, <1>3, <1>4, SeqCut
  <2> QED BY Zenon, <2>1
<1>6. PICK more : more = readField(state, kind) /\ more.values = Append(values, v) /\ more.rest = next
  <2>1. Reads(readField(state, kind), Append(state.values, v),
              SubSeq(state.rest, n + 1, Len(state.rest)))
    BY Zenon, <1>2, <1>3, <1>4, FieldAccepted
  <2> QED BY Zenon, <1>3, <1>5, <2>1 DEF Reads
<1>7. PICK head \in Seq(Byte) : bytes = head \o rest
  BY Zenon, <1>3 DEF ReadSoFar
<1>8. AreValues(values, format, j) /\ v \in AnyValue /\ v \in Values(format[j + 1])
  BY Zenon, <1>1, <1>3, <1>4 DEF ReadSoFar, AnyValue
<1>9. AreValues(Append(values, v), format, j + 1)
  BY Zenon, <1>5, <1>8, ValueMore
<1>10. \E h \in Seq(Byte) : bytes = h \o next
  <2>1. (head \o taken) \o next = head \o (taken \o next)
    BY ZenonT(60), <1>5, <1>7, BytesJoined
  <2>2. head \o taken \in Seq(Byte)
    BY Zenon, <1>5, <1>7, SeqJoin
  <2> QED BY Zenon, <1>5, <1>7, <2>1, <2>2
<1>11. \/ Loose(bytes)
       \/ \E parts : AreBytes(parts, format, Append(values, v), j + 1)
                     /\ FlattenSeq(parts) \o next = bytes
  <2>1. SUFFICES ASSUME ~Loose(bytes)
                 PROVE  \E parts : AreBytes(parts, format, Append(values, v), j + 1)
                                   /\ FlattenSeq(parts) \o next = bytes
    BY Zenon
  <2>2. ~Loose(rest)
    BY Zenon, <1>3, <1>7, <2>1, LooseWithin
  <2>3. taken = serializeField(format[j + 1], v)
    BY Zenon, <1>1, <1>4, <1>5, <2>2
  <2>4. PICK parts : AreBytes(parts, format, values, j) /\ FlattenSeq(parts) \o rest = bytes
    BY Zenon, <1>3, <2>1 DEF ReadSoFar
  <2>5. AreBytes(Append(parts, taken), format, Append(values, v), j + 1)
    BY Zenon, <1>5, <1>8, <2>3, <2>4, ValueMore
  <2>6. PICK ps \in Seq(Seq(Byte)) : ps = parts
    BY Zenon, <2>4 DEF AreBytes
  <2>7. PICK flat \in Seq(Byte) : flat = FlattenSeq(ps)
    BY Zenon, <2>6, FlattenConcat
  <2>8. FlattenSeq(Append(ps, taken)) = flat \o taken
    <3>1. Append(ps, taken) = ps \o <<taken>> /\ <<taken>> \in Seq(Seq(Byte))
      BY Zenon, <1>5, <2>6, SeqAppend
    <3>2. FlattenSeq(ps \o <<taken>>) = FlattenSeq(ps) \o FlattenSeq(<<taken>>)
      BY Zenon, <2>6, <3>1, FlattenConcat
    <3>3. FlattenSeq(<<taken>>) = taken
      BY Zenon, <1>5, FlattenOne
    <3> QED BY Zenon, <2>7, <3>1, <3>2, <3>3
  <2>9. (flat \o taken) \o next = flat \o (taken \o next)
    BY ZenonT(60), <1>5, <2>7, BytesJoined
  <2>10. FlattenSeq(Append(parts, taken)) \o next = bytes
    BY Zenon, <1>5, <2>4, <2>6, <2>7, <2>8, <2>9
  <2> QED BY Zenon, <2>5, <2>10
<1>12. ReadSoFar(more, format, bytes, j + 1)
  BY Zenon, <1>6, <1>9, <1>10, <1>11 DEF ReadSoFar
<1> QED BY Zenon, <1>1, <1>6, <1>12

(***************************************************************************)
(* Of arbitrary bytes, only those are accepted that some values of the     *)
(* format are sent with, and those with a number that is longer than it    *)
(* need be or says more than it can hold.                                  *)
(***************************************************************************)
THEOREM PayloadTaken ==
  ASSUME NEW format \in Formats, NEW bytes \in Seq(Byte),
         deserializePacketPayload(format, bytes).ok
  PROVE  LET values == deserializePacketPayload(format, bytes).values
         IN /\ values \in ValuesOf(format)
            /\ serializePacketPayload(format, values) = bytes \/ Loose(bytes)
<1> DEFINE result == deserializePacketPayload(format, bytes)
<1>1. PICK n \in Nat : n = Len(format)
  BY Zenon, PlainKinds
<1>2. PICK st :
        /\ IsReading(st, format, bytes)
        /\ result = [ok |-> st[n].ok /\ isEnd(st[n].rest), values |-> st[n].values]
  <2>1. format \in Seq(AnyKind)
    BY DEF Formats
  <2> QED BY Zenon, <1>1, <2>1, ReadingExists
<1>3. result.ok
  OBVIOUS
<1> HIDE DEF result
<1>4. result.ok = (st[n].ok /\ isEnd(st[n].rest)) /\ result.values = st[n].values
  BY <1>2
<1>5. st[n].ok /\ st[n].rest = <<>>
  BY Zenon, <1>3, <1>4 DEF isEnd
<1>6. /\ st \in [0 .. n -> ReadState] /\ st[0] = Start(bytes)
      /\ \A k \in 1 .. n : st[k] = readField(st[k - 1], format[k])
  BY Zenon, <1>1, <1>2 DEF IsReading
<1> DEFINE P == {j \in Nat : j <= n /\ st[j].ok => ReadSoFar(st[j], format, bytes, j)}
<1>7. 0 \in P
  <2>1. st[0].values = <<>> /\ st[0].rest = bytes
    BY <1>6 DEF Start
  <2>2. AreValues(<<>>, format, 0)
    BY DEF AreValues
  <2>3. <<>> \o bytes = bytes
    BY Zenon, SeqJoinEmpty
  <2>4. AreBytes(<<>>, format, <<>>, 0)
    BY DEF AreBytes
  <2>5. \E head \in Seq(Byte) : bytes = head \o bytes
    BY Zenon, <2>3, NoBytes
  <2>6. ReadSoFar(st[0], format, bytes, 0)
    BY Zenon, <2>1, <2>2, <2>3, <2>4, <2>5, FlattenEmpty DEF ReadSoFar
  <2> QED BY Zenon, <2>6
<1>8. ASSUME NEW j \in Nat, j \in P PROVE j + 1 \in P
  <2> SUFFICES ASSUME j + 1 <= n, st[j + 1].ok PROVE ReadSoFar(st[j + 1], format, bytes, j + 1)
    OBVIOUS
  <2>1. j + 1 \in 1 .. n /\ (j + 1) - 1 = j /\ j \in 0 .. n /\ j <= n
    BY <1>1
  <2>2. st[j] \in ReadState /\ st[j + 1] = readField(st[j], format[j + 1])
    BY Zenon, <1>6, <2>1
  <2>3. st[j].ok
    BY Zenon, <2>2, FieldRefused
  <2>4. ReadSoFar(st[j], format, bytes, j)
    BY Zenon, <1>8, <2>1, <2>3
  <2>5. j + 1 <= Len(format) /\ readField(st[j], format[j + 1]).ok
    BY Zenon, <1>1, <2>2
  <2>6. ReadSoFar(readField(st[j], format[j + 1]), format, bytes, j + 1)
    BY Zenon, <2>2, <2>4, <2>5, ReadMore
  <2> QED BY Zenon, <2>2, <2>6
<1>9. \A j \in Nat : j \in P
  <2> HIDE DEF P
  <2> QED BY Zenon, <1>7, <1>8, Induction
<1>10. PICK values : values = st[n].values /\ AreValues(values, format, n)
                     /\ (\/ Loose(bytes)
                         \/ \E parts : AreBytes(parts, format, values, n)
                                       /\ FlattenSeq(parts) \o <<>> = bytes)
  <2>1. n <= n
    BY <1>1
  <2>2. ReadSoFar(st[n], format, bytes, n)
    BY Zenon, <1>1, <1>5, <1>9, <2>1
  <2> QED BY Zenon, <1>5, <2>2 DEF ReadSoFar
<1>11. values \in ValuesOf(format)
  BY Zenon, <1>1, <1>10 DEF AreValues, ValuesOf
<1>12. serializePacketPayload(format, values) = bytes \/ Loose(bytes)
  <2>1. SUFFICES ASSUME ~Loose(bytes) PROVE serializePacketPayload(format, values) = bytes
    BY Zenon
  <2>2. PICK parts : AreBytes(parts, format, values, n) /\ FlattenSeq(parts) \o <<>> = bytes
    BY Zenon, <1>10, <2>1
  <2>3. parts \in Seq(Seq(Byte)) /\ Len(parts) = n
        /\ \A i \in 1 .. n : parts[i] = serializeField(format[i], values[i])
    BY Zenon, <2>2 DEF AreBytes
  <2>4. PICK ps \in Seq(Seq(Byte)), all \in Seq(Seq(Byte)) :
          /\ ps = parts /\ Len(ps) = Len(all) /\ all = FieldBytes(format, values)
          /\ Len(all) = n /\ \A i \in 1 .. n : all[i] = ps[i]
          /\ serializePacketPayload(format, values) = FlattenSeq(all)
    BY Zenon, <1>1, <1>11, <2>3, FieldsAreBytes
  <2>5. ps = all
    BY Zenon, <2>4, SeqSame
  <2>6. FlattenSeq(ps) \in Seq(Byte)
    BY Zenon, <2>4, FlattenConcat
  <2>7. FlattenSeq(ps) \o <<>> = FlattenSeq(ps)
    BY Zenon, <2>6, SeqJoinEmpty
  <2> QED BY Zenon, <2>2, <2>4, <2>5, <2>7
<1> QED BY Zenon, <1>4, <1>10, <1>11, <1>12 DEF result
------------------------------------------------------------------------------
(***************************************************************************)
(* The packets of packets.def, and what the model sends.                   *)
(***************************************************************************)

\* Lists of one to seven fields.
LEMMA Lists ==
  ASSUME NEW S
  PROVE  /\ \A a \in S : <<a>> \in Seq(S)
         /\ \A a, b \in S : <<a, b>> \in Seq(S)
         /\ \A a, b, c \in S : <<a, b, c>> \in Seq(S)
         /\ \A a, b, c, d \in S : <<a, b, c, d>> \in Seq(S)
         /\ \A a, b, c, d, e \in S : <<a, b, c, d, e>> \in Seq(S)
         /\ \A a, b, c, d, e, f \in S : <<a, b, c, d, e, f>> \in Seq(S)
         /\ \A a, b, c, d, e, f, g \in S : <<a, b, c, d, e, f, g>> \in Seq(S)
OBVIOUS

LEMMA KindNames ==
  /\ "int8" \in Kind /\ "int16" \in Kind /\ "int32" \in Kind /\ "int64" \in Kind
  /\ "float32" \in Kind /\ "float64" \in Kind
  /\ "bool" \in Kind /\ "varint" \in Kind /\ "string" \in Kind /\ "uuid" \in Kind
BY DEF Kind, Width

\* Plain fields, or plain fields and tail bytes, are a format.
LEMMA FormatOfKinds ==
  /\ \A list \in Seq(Kind) : list \in Formats
  /\ \A list \in Seq(Kind) : Append(list, "tail") \in Formats
<1>1. ASSUME NEW list \in Seq(Kind)
      PROVE  list \in Formats /\ Append(list, "tail") \in Formats
  <2>1. PICK n \in Nat : n = Len(list)
    OBVIOUS
  <2>2. \A i \in 1 .. n : list[i] \in Kind /\ list[i] \in AnyKind
    BY <2>1 DEF AnyKind
  <2>3. list \in Seq(AnyKind)
    BY <2>1, <2>2
  <2>4. "tail" \in AnyKind
    BY DEF AnyKind
  <2>5. Append(list, "tail") \in Seq(AnyKind) /\ Len(Append(list, "tail")) = n + 1
        /\ \A i \in 1 .. n : Append(list, "tail")[i] = list[i]
    BY <2>1, <2>3, <2>4
  <2>6. \A i \in 1 .. Len(list) - 1 : i \in 1 .. n
    BY <2>1
  <2>7. \A i \in 1 .. Len(Append(list, "tail")) - 1 : i \in 1 .. n
    BY <2>1, <2>5
  <2> QED BY Zenon, <2>2, <2>3, <2>5, <2>6, <2>7 DEF Formats
<1> QED BY Zenon, <1>1

LEMMA ServerboundFormats ==
  \A name \in DOMAIN Serverbound : Serverbound[name] \in Formats
<1>1. /\ Serverbound.Handshake \in Seq(Kind)
      /\ Serverbound.LoginStart \in Seq(Kind)
      /\ Serverbound.TeleportConfirm \in Seq(Kind)
      /\ Serverbound.ChatClient \in Seq(Kind)
      /\ Serverbound.ClientSettings \in Seq(Kind)
      /\ Serverbound.CloseWindowClient \in Seq(Kind)
      /\ Serverbound.KeepAliveClient \in Seq(Kind)
      /\ Serverbound.PlayerPosition \in Seq(Kind)
      /\ Serverbound.PlayerPositionRotation \in Seq(Kind)
      /\ Serverbound.PlayerRotation \in Seq(Kind)
      /\ Serverbound.PlayerMovement \in Seq(Kind)
      /\ Serverbound.PlayerAbilitiesClient \in Seq(Kind)
      /\ Serverbound.PlayerDigging \in Seq(Kind)
      /\ Serverbound.EntityAction \in Seq(Kind)
      /\ Serverbound.HeldItemChangeClient \in Seq(Kind)
      /\ Serverbound.AnimationClient \in Seq(Kind)
      /\ Serverbound.UseItem \in Seq(Kind)
  BY Zenon, KindNames, Lists DEF Serverbound
<1>2. /\ Serverbound.PluginMessageClient = Append(<<"string">>, "tail")
      /\ Serverbound.InteractEntity = Append(<<"varint", "varint">>, "tail")
  BY DEF Serverbound
<1>3. <<"string">> \in Seq(Kind) /\ <<"varint", "varint">> \in Seq(Kind)
  BY Zenon, KindNames, Lists
<1>4. DOMAIN Serverbound
        = {"Handshake", "LoginStart", "TeleportConfirm", "ChatClient", "ClientSettings",
           "CloseWindowClient", "PluginMessageClient", "InteractEntity", "KeepAliveClient",
           "PlayerPosition", "PlayerPositionRotation", "PlayerRotation", "PlayerMovement",
           "PlayerAbilitiesClient", "PlayerDigging", "EntityAction",
           "HeldItemChangeClient", "AnimationClient", "UseItem"}
  BY DEF Serverbound
<1> HIDE DEF Serverbound
<1> QED BY Zenon, <1>1, <1>2, <1>3, <1>4, FormatOfKinds

LEMMA ClientboundFormats ==
  \A name \in DOMAIN Clientbound : Clientbound[name] \in Formats
<1>1. /\ Clientbound.DisconnectLogin \in Seq(Kind)
      /\ Clientbound.LoginSuccess \in Seq(Kind)
      /\ Clientbound.EntityAnimation \in Seq(Kind)
      /\ Clientbound.BlockChange \in Seq(Kind)
      /\ Clientbound.ChatServer \in Seq(Kind)
      /\ Clientbound.Disconnect \in Seq(Kind)
      /\ Clientbound.UnloadChunk \in Seq(Kind)
      /\ Clientbound.KeepAliveServer \in Seq(Kind)
      /\ Clientbound.JoinGame \in Seq(Kind)
      /\ Clientbound.EntityMove \in Seq(Kind)
      /\ Clientbound.EntityMoveRotation \in Seq(Kind)
      /\ Clientbound.EntityRotation \in Seq(Kind)
      /\ Clientbound.PlayerAbilitiesServer \in Seq(Kind)
      /\ Clientbound.PlayerPositionLookServer \in Seq(Kind)
      /\ Clientbound.EntityHeadLook \in Seq(Kind)
      /\ Clientbound.HeldItemChangeServer \in Seq(Kind)
      /\ Clientbound.UpdateViewPosition \in Seq(Kind)
      /\ Clientbound.SpawnPosition \in Seq(Kind)
      /\ Clientbound.EntityTeleport \in Seq(Kind)
  BY Zenon, KindNames, Lists DEF Clientbound
<1>2. Clientbound.PluginMessageServer = Append(<<"string">>, "tail")
  BY DEF Clientbound
<1>3. <<"string">> \in Seq(Kind)
  BY Zenon, KindNames, Lists
<1>4. DOMAIN Clientbound
        = {"DisconnectLogin", "LoginSuccess", "EntityAnimation", "BlockChange", "ChatServer",
           "PluginMessageServer", "Disconnect", "UnloadChunk", "KeepAliveServer", "JoinGame",
           "EntityMove", "EntityMoveRotation", "EntityRotation", "PlayerAbilitiesServer",
           "PlayerPositionLookServer", "EntityHeadLook", "HeldItemChangeServer",
           "UpdateViewPosition", "SpawnPosition", "EntityTeleport"}
  BY DEF Clientbound
<1> HIDE DEF Clientbound
<1> QED BY Zenon, <1>1, <1>2, <1>3, <1>4, FormatOfKinds

LEMMA PacketFormats ==
  \A name \in DOMAIN Format : Format[name] \in Formats
<1>1. SpawnPlayerHead \in Formats
  BY Zenon, KindNames, Lists, FormatOfKinds DEF SpawnPlayerHead
<1> QED BY Zenon, <1>1, ServerboundFormats, ClientboundFormats DEF Format

\* The values the model sends are values of their kinds.
LEMMA Samples ==
  ASSUME NEW kind \in AnyKind
  PROVE  Sample(kind) \subseteq Values(kind)
<1>1. ASSUME NEW n \in Nat, n <= 16
      PROVE  Bytes(n) \subseteq {s \in Seq(Byte) : Len(s) = n}
  <2>1. /\ [i \in 1 .. n |-> i] \in Seq(Byte) /\ Len([i \in 1 .. n |-> i]) = n
        /\ [i \in 1 .. n |-> 0] \in Seq(Byte) /\ Len([i \in 1 .. n |-> 0]) = n
    BY <1>1 DEF Byte
  <2> QED BY Zenon, <2>1 DEF Bytes
<1>2. CASE kind \in DOMAIN Width
  <2>1. PICK n \in 1 .. 8 : n = Width[kind]
    BY Zenon, <1>2, Kinds
  <2>2. n \in Nat /\ n <= 16
    OBVIOUS
  <2>3. Sample(kind) = Bytes(n)
    <3>1. Sample(kind) = Bytes(Width[kind])
      BY <1>2, Kinds DEF Sample
    <3> QED BY Zenon, <2>1, <3>1
  <2>4. Values(kind) = {s \in Seq(Byte) : Len(s) = n}
    BY <1>2, <2>1, Kinds DEF Values, FieldValue
  <2> QED BY Zenon, <1>1, <2>2, <2>3, <2>4
<1>3. CASE kind = "bool"
  BY <1>3, Kinds DEF Values, FieldValue, Sample
<1>4. CASE kind = "varint"
  <2>1. Sample(kind) = {0, 128, -1} /\ Values(kind) = Int32
    BY <1>4, Kinds DEF Values, FieldValue, Sample
  <2> QED BY SMT, <2>1 DEF Int32
<1>5. CASE kind = "string"
  <2>1. Sample(kind) = String
    BY <1>5, Kinds DEF Sample
  <2>2. Values(kind) = {s \in Seq(Byte) : Len(s) \in Int32}
    BY <1>5, Kinds DEF Values, FieldValue
  <2>3. /\ <<>> \in Seq(Byte) /\ Len(<<>>) = 0
        /\ <<65, 255>> \in Seq(Byte) /\ Len(<<65, 255>>) = 2
        /\ [i \in 1 .. 128 |-> 65] \in Seq(Byte) /\ Len([i \in 1 .. 128 |-> 65]) = 128
    BY DEF Byte
  <2>4. 0 \in Int32 /\ 2 \in Int32 /\ 128 \in Int32
    BY SMT DEF Int32
  <2>5. Len(<<>>) \in Int32 /\ Len(<<65, 255>>) \in Int32
        /\ Len([i \in 1 .. 128 |-> 65]) \in Int32
    BY Zenon, <2>3, <2>4
  <2> QED BY Zenon, <2>1, <2>2, <2>3, <2>5 DEF String
<1>6. CASE kind = "uuid"
  <2>1. Sample(kind) = Bytes(16)
    BY <1>6, Kinds DEF Sample
  <2>2. Values(kind) = {s \in Seq(Byte) : Len(s) = 16}
    BY <1>6, Kinds DEF Values, FieldValue
  <2>3. 16 \in Nat /\ 16 <= 16
    OBVIOUS
  <2> QED BY Zenon, <1>1, <2>1, <2>2, <2>3
<1>7. CASE kind = "tail"
  <2>1. Sample(kind) = {<<>>, <<1, 128>>} /\ Values(kind) = Seq(Byte)
    BY <1>7, Kinds DEF Sample, Values
  <2>2. <<>> \in Seq(Byte) /\ <<1, 128>> \in Seq(Byte)
    BY DEF Byte
  <2> QED BY Zenon, <2>1, <2>2
<1> QED BY <1>2, <1>3, <1>4, <1>5, <1>6, <1>7 DEF AnyKind, Kind

\* Lists of values with one more.
OneMore(vs, kind) == {Append(v, x) : v \in vs, x \in Sample(kind)}

LEMMA OneMoreIs ==
  ASSUME NEW vs, NEW kind, NEW values \in OneMore(vs, kind)
  PROVE  \E v \in vs : \E x \in Sample(kind) : values = Append(v, x)
BY DEF OneMore

\* FoldLeft adds one field to all the lists of values.
LEMMA PayloadsAreValues ==
  ASSUME NEW format \in Formats
  PROVE  Payloads(format) \subseteq ValuesOf(format)
<1> DEFINE n == Len(format)
           T == SUBSET Seq(AnyValue)
           base == {<<>>}
           step == [i \in 1 .. n |-> [vs \in T |-> OneMore(vs, format[i])]]
           Is(iter) == iter = [s \in SUBSET DOMAIN format |->
                                 IF s = {} THEN base
                                 ELSE OneMore(iter[s \ {Max(s)}], format[Max(s)])]
<1>1. n \in Nat /\ DOMAIN format = 1 .. n /\ \A i \in 1 .. n : format[i] \in AnyKind
  BY DEF Formats
<1>2. base \in T
  OBVIOUS
<1>3. ASSUME NEW vs \in T, NEW kind \in AnyKind PROVE OneMore(vs, kind) \in T
  <2>1. \A x \in Sample(kind) : x \in AnyValue
    BY Zenon, Samples DEF AnyValue
  <2>2. ASSUME NEW v \in vs, NEW x \in Sample(kind)
        PROVE  Append(v, x) \in Seq(AnyValue)
    <3>1. v \in Seq(AnyValue) /\ x \in AnyValue
      BY <2>1
    <3> QED BY <3>1
  <2>3. ASSUME NEW e \in OneMore(vs, kind) PROVE e \in Seq(AnyValue)
    <3>1. PICK v \in vs : \E x \in Sample(kind) : e = Append(v, x)
      BY <2>3, OneMoreIs
    <3>2. PICK x \in Sample(kind) : e = Append(v, x)
      BY Zenon, <3>1
    <3> QED BY Zenon, <2>2, <3>1, <3>2
  <2> QED BY Zenon, <2>3
<1>4. step \in [1 .. n -> [T -> T]]
  <2>1. \A i \in 1 .. n : \A vs \in T : OneMore(vs, format[i]) \in T
    <3> HIDE DEF T
    <3> QED BY Zenon, <1>1, <1>3
  <2> HIDE DEF T
  <2> QED BY Zenon, <2>1
<1>5. \A i \in 1 .. n : \A vs \in T : step[i][vs] = OneMore(vs, format[i])
  BY Zenon
<1> HIDE DEF step, base, T
<1>6. PICK f : IsFold(f, n, T, base, step)
  BY Zenon, <1>1, <1>2, <1>4, FoldExists
<1>7. ASSUME NEW s \in SUBSET (1 .. n), s # {}
      PROVE  Max(s) \in 1 .. n /\ s \ {Max(s)} \in SUBSET (1 .. n)
  <2>1. Max(s) \in s
    BY Zenon, <1>1, <1>7, MaxIn
  <2> QED BY Zenon, <2>1
<1>8. Is(f)
  <2>1. f \in [SUBSET (1 .. n) -> T] /\ f[{}] = base
    BY Zenon, <1>6 DEF IsFold
  <2>2. ASSUME NEW s \in SUBSET (1 .. n)
        PROVE  f[s] = IF s = {} THEN base ELSE OneMore(f[s \ {Max(s)}], format[Max(s)])
    <3>1. CASE s # {}
      <4>1. f[s] = step[Max(s)][f[s \ {Max(s)}]]
        BY Zenon, <1>6, <3>1 DEF IsFold
      <4>2. f[s \ {Max(s)}] \in T
        BY Zenon, <1>7, <2>1, <3>1
      <4>3. Max(s) \in 1 .. n
        BY Zenon, <1>7, <3>1
      <4>4. f[s] = OneMore(f[s \ {Max(s)}], format[Max(s)])
        BY Zenon, <1>5, <4>1, <4>2, <4>3
      <4> QED BY Zenon, <3>1, <4>4
    <3> QED BY Zenon, <2>1, <3>1
  <2> HIDE DEF n
  <2> QED BY Zenon, <1>1, <2>1, <2>2
<1> DEFINE iter == CHOOSE i : Is(i)
<1>9. Is(iter)
  <2> HIDE DEF Is
  <2> QED BY Zenon, <1>8
<1>10. Payloads(format) = iter[DOMAIN format]
  BY DEF Payloads, FoldLeft, MapThenFoldSet, base, OneMore
<1> HIDE DEF iter
<1>11. iter[{}] = base
  BY Zenon, <1>9
<1>12. ASSUME NEW k \in 1 .. n
       PROVE  iter[1 .. k] = OneMore(iter[1 .. k - 1], format[k])
  <2>1. 1 .. k \in SUBSET DOMAIN format /\ 1 .. k # {} /\ k \in Nat
        /\ 1 .. k \in SUBSET (1 .. k) /\ k \in 1 .. k /\ (1 .. k) \ {k} = 1 .. k - 1
    <3>1. k \in Nat /\ 1 <= k /\ k <= n
      BY <1>1
    <3>2. 1 .. k \in SUBSET (1 .. n)
      BY <1>1, <3>1
    <3>3. k \in 1 .. k
      BY <3>1
    <3>4. (1 .. k) \ {k} = 1 .. k - 1
      BY <3>1
    <3>5. 1 .. k # {} /\ 1 .. k \in SUBSET (1 .. k)
      BY Zenon, <3>3
    <3> QED BY Zenon, <1>1, <3>1, <3>2, <3>3, <3>4, <3>5
  <2>2. Max(1 .. k) = k
    BY Zenon, <2>1, Greatest
  <2>3. iter[1 .. k] = OneMore(iter[(1 .. k) \ {Max(1 .. k)}], format[Max(1 .. k)])
    BY Zenon, <1>9, <2>1
  <2> QED BY Zenon, <2>1, <2>2, <2>3
<1> DEFINE P == {k \in Nat : k <= n => \A values \in iter[1 .. k] : AreValues(values, format, k)}
<1>13. 0 \in P
  <2>1. 1 .. 0 = {}
    OBVIOUS
  <2>2. AreValues(<<>>, format, 0)
    BY DEF AreValues
  <2> QED BY Zenon, <1>11, <2>1, <2>2 DEF base
<1>14. ASSUME NEW k \in Nat, k \in P PROVE k + 1 \in P
  <2> SUFFICES ASSUME k + 1 <= n, NEW values \in iter[1 .. k + 1]
               PROVE  AreValues(values, format, k + 1)
    OBVIOUS
  <2>1. k + 1 \in 1 .. n /\ (k + 1) - 1 = k /\ k <= n
    BY <1>1
  <2>2. iter[1 .. k + 1] = OneMore(iter[1 .. k], format[k + 1])
    BY Zenon, <1>12, <2>1
  <2>3. PICK v \in iter[1 .. k], x \in Sample(format[k + 1]) : values = Append(v, x)
    <3>1. values \in OneMore(iter[1 .. k], format[k + 1])
      BY Zenon, <2>2
    <3>2. \E v \in iter[1 .. k] : \E x \in Sample(format[k + 1]) : values = Append(v, x)
      BY <3>1, OneMoreIs
    <3> QED BY Zenon, <3>2
  <2>4. AreValues(v, format, k)
    BY Zenon, <1>14, <2>1, <2>3
  <2>5. x \in Values(format[k + 1]) /\ x \in AnyValue
    BY Zenon, <1>1, <2>1, <2>3, Samples DEF AnyValue
  <2>6. AreValues(Append(v, x), format, k + 1)
    BY Zenon, <2>4, <2>5, NoBytes, ValueMore
  <2> QED BY Zenon, <2>3, <2>6
<1>15. \A k \in Nat : k \in P
  <2> HIDE DEF P
  <2> QED BY Zenon, <1>13, <1>14, Induction
<1>16. \A values \in iter[1 .. n] : AreValues(values, format, n)
  <2>1. n <= n
    BY <1>1
  <2> QED BY Zenon, <1>1, <1>15, <2>1
<1> QED BY Zenon, <1>1, <1>10, <1>16 DEF AreValues, ValuesOf

------------------------------------------------------------------------------
\* Sending and receiving payloads.
FieldSpec == FieldInit /\ [][FieldNext]_fieldVars

\* What the payload that arrives has to do with what was sent.
Mangling ==
  LET whole == serializePacketPayload(Format[packet], sentFields)
  IN /\ mangled \in {"unsent", "no", "cut", "surplus", "odd"}
     /\ mangled \in {"no", "cut", "surplus"} => sentFields \in ValuesOf(Format[packet])
     /\ mangled = "no" => buf = whole
     /\ mangled = "cut" => \E n \in 0 .. Len(whole) - 1 : buf = SubSeq(whole, 1, n)
     /\ mangled = "surplus" => \E byte \in Byte : buf = whole \o <<byte>>

\* Arbitrary payloads are short.
Short == mangled \in {"unsent", "odd"} => Len(buf) <= MaxOdd

FieldInv == packet \in DOMAIN Format /\ buf \in Seq(Byte) /\ Mangling /\ Short

LEMMA OneByte ==
  ASSUME NEW byte \in Byte
  PROVE  <<byte>> \in Seq(Byte) /\ <<byte>> # <<>>
OBVIOUS

\* A payload is some bytes.
LEMMA PayloadIsBytes ==
  ASSUME NEW format \in Formats, NEW values \in ValuesOf(format)
  PROVE  serializePacketPayload(format, values) \in Seq(Byte)
<1>1. PICK plain \in Seq(Byte), tail \in Seq(Byte) :
        serializePacketPayload(format, values) = plain \o tail
  BY Zenon, PlainAndTail
<1> QED BY Zenon, <1>1, SeqJoin

LEMMA FieldStart ==
  ASSUME FieldInit
  PROVE  FieldInv
<1>1. packet = "Handshake" /\ buf = <<>> /\ mangled = "unsent"
  BY DEF FieldInit
<1>2. packet \in DOMAIN Format
  <2>1. "Handshake" \in DOMAIN Serverbound
    BY DEF Serverbound
  <2> QED BY Zenon, <1>1, <2>1 DEF Format
<1>3. Mangling
  BY <1>1 DEF Mangling
<1>4. Short
  BY <1>1 DEF Short, MaxOdd
<1> QED BY Zenon, <1>1, <1>2, <1>3, <1>4, NoBytes DEF FieldInv

LEMMA FieldStep ==
  ASSUME FieldInv, FieldNext
  PROVE  FieldInv'
<1>1. packet \in DOMAIN Format /\ buf \in Seq(Byte) /\ Mangling /\ Short
  BY Zenon DEF FieldInv
<1>2. CASE Pick
  <2>1. mangled = "unsent" /\ packet' \in DOMAIN Format /\ mangled' = "odd"
        /\ sentFields' = sentFields /\ buf' = buf
    BY <1>2 DEF Pick
  <2>2. Mangling'
    BY <2>1 DEF Mangling
  <2>3. Short'
    BY <1>1, <2>1 DEF Short
  <2> QED BY Zenon, <1>1, <2>1, <2>2, <2>3 DEF FieldInv
<1>3. CASE Send
  <2>1. /\ mangled' = "no" /\ packet' = packet
        /\ sentFields' \in Payloads(Format[packet])
        /\ buf' = serializePacketPayload(Format[packet], sentFields')
    BY <1>3 DEF Send
  <2>2. sentFields' \in ValuesOf(Format[packet])
    BY Zenon, <1>1, <2>1, PacketFormats, PayloadsAreValues
  <2>3. buf' \in Seq(Byte)
    BY Zenon, <1>1, <2>1, <2>2, PacketFormats, PayloadIsBytes
  <2>4. Mangling'
    BY <2>1, <2>2 DEF Mangling
  <2>5. Short'
    BY <2>1 DEF Short
  <2> QED BY Zenon, <1>1, <2>1, <2>3, <2>4, <2>5 DEF FieldInv
<1>4. CASE Cut
  <2>1. mangled = "no" /\ mangled' = "cut" /\ packet' = packet /\ sentFields' = sentFields
    BY <1>4 DEF Cut
  <2>2. PICK n \in 0 .. Len(buf) - 1 : buf' = SubSeq(buf, 1, n)
    BY Zenon, <1>4 DEF Cut
  <2>3. buf' \in Seq(Byte)
    <3>1. n \in 0 .. Len(buf)
      BY <1>1
    <3> QED BY Zenon, <1>1, <2>2, <3>1, SeqCut
  <2>4. /\ buf = serializePacketPayload(Format[packet], sentFields)
        /\ sentFields \in ValuesOf(Format[packet])
    BY <1>1, <2>1 DEF Mangling
  <2>5. Mangling'
    BY <2>1, <2>2, <2>4 DEF Mangling
  <2>6. Short'
    BY <2>1 DEF Short
  <2> QED BY Zenon, <1>1, <2>1, <2>3, <2>5, <2>6 DEF FieldInv
<1>5. CASE Lengthen
  <2>1. mangled = "no" /\ mangled' = "surplus" /\ packet' = packet /\ sentFields' = sentFields
    BY <1>5 DEF Lengthen
  <2>2. PICK byte \in Byte : buf' = Append(buf, byte)
    <3>1. 0 \in Byte /\ 1 \in Byte
      BY SMT DEF Byte
    <3> QED BY Zenon, <1>5, <3>1 DEF Lengthen
  <2>3. buf' = buf \o <<byte>> /\ buf' \in Seq(Byte)
    <3>1. Append(buf, byte) = buf \o <<byte>> /\ <<byte>> \in Seq(Byte)
      BY Zenon, <1>1, <2>2, SeqAppend
    <3>2. buf \o <<byte>> \in Seq(Byte)
      BY Zenon, <1>1, <3>1, SeqJoin
    <3> QED BY Zenon, <2>2, <3>1, <3>2
  <2>4. /\ buf = serializePacketPayload(Format[packet], sentFields)
        /\ sentFields \in ValuesOf(Format[packet])
    BY <1>1, <2>1 DEF Mangling
  <2>5. Mangling'
    <3>1. \E b \in Byte : buf' = buf \o <<b>>
      BY Zenon, <2>2, <2>3
    <3> QED BY <2>1, <2>4, <3>1 DEF Mangling
  <2>6. Short'
    BY <2>1 DEF Short
  <2> QED BY Zenon, <1>1, <2>1, <2>3, <2>5, <2>6 DEF FieldInv
<1>6. CASE SendOdd
  <2>1. mangled = "odd" /\ mangled' = "odd" /\ packet' = packet /\ sentFields' = sentFields
        /\ Len(buf) < MaxOdd
    BY <1>6 DEF SendOdd
  <2>2. PICK byte \in Byte : buf' = Append(buf, byte)
    <3>1. Odd \subseteq Byte
      BY SMT DEF Odd, Byte
    <3> QED BY Zenon, <1>6, <3>1 DEF SendOdd
  <2>3. buf' \in Seq(Byte) /\ Len(buf') <= MaxOdd
    BY <1>1, <2>1, <2>2 DEF MaxOdd
  <2>4. Mangling'
    BY <2>1 DEF Mangling
  <2>5. Short'
    BY Zenon, <2>3 DEF Short
  <2> QED BY Zenon, <1>1, <2>1, <2>3, <2>4, <2>5 DEF FieldInv
<1> QED BY Zenon, <1>2, <1>3, <1>4, <1>5, <1>6 DEF FieldNext

LEMMA FieldInvariant == FieldSpec => []FieldInv
<1>1. ASSUME FieldInv, UNCHANGED fieldVars PROVE FieldInv'
  BY <1>1 DEF fieldVars, FieldInv, Mangling, Short
<1> QED BY <1>1, FieldStart, FieldStep, PTL DEF FieldSpec

(***************************************************************************)
(* Every packet of packets.def, sent whole, is accepted with its values.   *)
(***************************************************************************)
THEOREM PayloadCorrect == FieldSpec => []PayloadRoundTrip
<1>1. FieldInv => PayloadRoundTrip
  <2>1. SUFFICES ASSUME FieldInv, mangled = "no"
                 PROVE  Received.ok /\ Received.values = sentFields
    BY DEF PayloadRoundTrip
  <2>2. /\ packet \in DOMAIN Format
        /\ buf = serializePacketPayload(Format[packet], sentFields)
        /\ sentFields \in ValuesOf(Format[packet])
    BY <2>1 DEF FieldInv, Mangling
  <2>3. Format[packet] \in Formats
    BY Zenon, <2>2, PacketFormats
  <2> QED BY Zenon, <2>2, <2>3, PayloadRead DEF Received
<1> QED BY <1>1, FieldInvariant, PTL

(***************************************************************************)
(* Cut short or with a byte too many, it is refused, but for what its tail *)
(* bytes were.                                                             *)
(***************************************************************************)
THEOREM OnlyWholeCorrect == FieldSpec => []OnlyWholePayloads
<1>1. FieldInv => OnlyWholePayloads
  <2>1. SUFFICES ASSUME FieldInv, mangled \in {"cut", "surplus"}, Received.ok
                 PROVE  /\ Last(Format[packet]) = "tail"
                        /\ Front(Received.values) = Front(sentFields)
    BY DEF OnlyWholePayloads
  <2>2. /\ packet \in DOMAIN Format
        /\ sentFields \in ValuesOf(Format[packet])
    BY <2>1 DEF FieldInv, Mangling
  <2>3. Format[packet] \in Formats
    BY Zenon, <2>2, PacketFormats
  <2>4. HasTail(Format[packet]) => Last(Format[packet]) = "tail"
    BY Zenon DEF HasTail, Last
  <2>5. CASE mangled = "cut"
    <3>1. PICK n \in 0 .. Len(serializePacketPayload(Format[packet], sentFields)) - 1 :
            buf = SubSeq(serializePacketPayload(Format[packet], sentFields), 1, n)
      BY <2>1, <2>5 DEF FieldInv, Mangling
    <3> QED BY Zenon, <2>1, <2>2, <2>3, <2>4, <3>1, PayloadCut DEF Received
  <2>6. CASE mangled = "surplus"
    <3>1. PICK byte \in Byte :
            buf = serializePacketPayload(Format[packet], sentFields) \o <<byte>>
      BY <2>1, <2>6 DEF FieldInv, Mangling
    <3>2. PICK extra \in Seq(Byte) : extra = <<byte>> /\ extra # <<>>
      BY Zenon, <3>1, OneByte
    <3> QED BY Zenon, <2>1, <2>2, <2>3, <2>4, <3>1, <3>2, PayloadSurplus DEF Received
  <2> QED BY Zenon, <2>1, <2>5, <2>6
<1> QED BY <1>1, FieldInvariant, PTL

(***************************************************************************)
(* Of arbitrary bytes only what a client sends is accepted, or what has a  *)
(* number that is longer than it need be.                                  *)
(***************************************************************************)
THEOREM CanonicalCorrect == FieldSpec => []CanonicalPayload
<1>1. FieldInv => CanonicalPayload
  <2>1. SUFFICES ASSUME FieldInv, mangled = "odd", Received.ok
                 PROVE  \/ serializePacketPayload(Format[packet], Received.values) = buf
                        \/ Overlong(buf)
    BY DEF CanonicalPayload
  <2>2. packet \in DOMAIN Format /\ buf \in Seq(Byte) /\ Len(buf) <= 4
    BY <2>1 DEF FieldInv, Short, MaxOdd
  <2>3. Format[packet] \in Formats
    BY Zenon, <2>2, PacketFormats
  <2>4. ~Overfull(buf)
    <3>1. 5 .. Len(buf) = {}
      BY <2>2
    <3> QED BY Zenon, <3>1 DEF Overfull
  <2>5. \/ serializePacketPayload(Format[packet], Received.values) = buf
        \/ Loose(buf)
    BY Zenon, <2>1, <2>2, <2>3, PayloadTaken DEF Received
  <2> QED BY Zenon, <2>4, <2>5 DEF Loose
<1> QED BY <1>1, FieldInvariant, PTL
------------------------------------------------------------------------------
(***************************************************************************)
(* The stream of packets.                                                  *)
(***************************************************************************)

\* A frame that was found has some bytes, and they are there.
LEMMA FrameSize ==
  ASSUME NEW bytes \in Seq(Byte), deserializePacketFrame(bytes).status = "OK"
  PROVE  deserializePacketFrame(bytes).size \in 1 .. Len(bytes)
<1> DEFINE length == deserializeVarInt(bytes)
           size == frameSize(length.value, length.size)
           body == SubSeq(bytes, length.size + 1, size)
           id == deserializeVarInt(body)
<1>1. deserializePacketFrame(bytes)
        = CASE length.status # "OK" -> [status |-> length.status]
            [] length.status = "OK" /\ length.value \notin 0 .. MaxLengthValue ->
                 [status |-> "INVALID"]
            [] length.status = "OK" /\ length.value \in 0 .. MaxLengthValue ->
                 CASE size > Len(bytes) -> [status |-> "INCOMPLETE"]
                   [] size <= Len(bytes) /\ id.status # "OK" -> [status |-> id.status]
                   [] size <= Len(bytes) /\ id.status = "OK" ->
                        [status |-> "OK",
                         size |-> size,
                         frame |-> [id |-> id.value,
                                    data |-> SubSeq(body, id.size + 1, Len(body))]]
  BY Zenon DEF deserializePacketFrame
<1> HIDE DEF id, body
<1>2. length.status = "OK" /\ length.value \in 0 .. MaxLengthValue
  <2> HIDE DEF length, size
  <2>1. CASE length.status # "OK"
    <3>1. deserializePacketFrame(bytes) = [status |-> length.status]
      BY <1>1, <2>1
    <3>2. [status |-> length.status].status = length.status
      OBVIOUS
    <3> QED BY Zenon, <2>1, <3>1, <3>2
  <2>2. CASE length.status = "OK" /\ length.value \notin 0 .. MaxLengthValue
    <3>1. deserializePacketFrame(bytes) = [status |-> "INVALID"]
      BY <1>1, <2>2
    <3>2. deserializePacketFrame(bytes).status = "INVALID"
      <4>1. [status |-> "INVALID"].status = "INVALID"
        OBVIOUS
      <4> QED BY Zenon, <3>1, <4>1
    <3> QED BY <3>2
  <2> QED BY Zenon, <2>1, <2>2
<1>3. PICK v \in Int32, n \in 1 .. 5 :
        n <= Len(bytes) /\ length = [status |-> "OK", value |-> v, size |-> n]
  BY Zenon, <1>2, VarIntTaken
<1>4. length.value = v /\ length.size = n
  BY <1>3
<1>5. PICK k \in Nat, l \in Nat : k = v + n /\ l = Len(bytes) /\ k >= 1 /\ k = size
  <2>1. size = v + n
    BY Zenon, <1>4 DEF frameSize
  <2>2. v \in 0 .. MaxLengthValue
    BY Zenon, <1>2, <1>4
  <2>3. v \in Nat /\ n \in Nat /\ n >= 1 /\ Len(bytes) \in Nat
    BY <2>2 DEF MaxLengthValue
  <2> HIDE DEF length, size
  <2> QED BY <2>1, <2>3
<1> HIDE DEF length, size
<1>6. k <= l
  <2> SUFFICES ASSUME k > l PROVE FALSE
    BY <1>5
  <2>1. size > Len(bytes)
    BY <1>5
  <2>2. deserializePacketFrame(bytes) = [status |-> "INCOMPLETE"]
    <3>1. ~(size <= Len(bytes))
      BY <1>5, <2>1
    <3> QED BY Zenon, <1>1, <1>2, <2>1, <3>1
  <2> QED BY <2>2
<1>7. size <= Len(bytes) /\ ~(size > Len(bytes))
  BY <1>5, <1>6
<1>8. CASE id.status # "OK"
  <2>1. deserializePacketFrame(bytes) = [status |-> id.status]
    BY <1>1, <1>2, <1>7, <1>8
  <2>2. [status |-> id.status].status = id.status
    OBVIOUS
  <2> QED BY Zenon, <1>8, <2>1, <2>2
<1>9. CASE id.status = "OK"
  <2>1. PICK frame : deserializePacketFrame(bytes)
                       = [status |-> "OK", size |-> size, frame |-> frame]
    BY Zenon, <1>1, <1>2, <1>7, <1>9
  <2>2. deserializePacketFrame(bytes).size = size
    BY <2>1
  <2> QED BY <1>5, <1>6, <2>2
<1> QED BY Zenon, <1>8, <1>9

\* One round of the reader's loop, at the byte after the first i.
Found(window, i) == deserializePacketFrame(SubSeq(window, i + 1, Len(window)))
Round(from, window, i) ==
  IF Found(window, i).status = "OK"
  THEN [from[i + Found(window, i).size] EXCEPT !.frames = <<Found(window, i).frame>> \o @]
  ELSE [frames |-> <<>>, status |-> Found(window, i).status, left |-> Len(window) - i]

LEMMA FoundSize ==
  ASSUME NEW window \in Seq(Byte), NEW i \in 0 .. Len(window), Found(window, i).status = "OK"
  PROVE  i + Found(window, i).size \in i + 1 .. Len(window)
<1>1. PICK rest \in Seq(Byte) :
        /\ rest = SubSeq(window, i + 1, Len(window)) /\ Len(rest) = Len(window) - i
  <2>1. SubSeq(window, i + 1, Len(window)) \in Seq(Byte)
    BY Zenon, SeqCut
  <2>2. Len(SubSeq(window, i + 1, Len(window))) = Len(window) - i
    OBVIOUS
  <2> QED BY Zenon, <2>1, <2>2
<1>2. deserializePacketFrame(rest).size \in 1 .. Len(rest)
  BY Zenon, <1>1, FrameSize DEF Found
<1>3. PICK size : size = Found(window, i).size /\ size \in 1 .. Len(rest)
  BY Zenon, <1>1, <1>2 DEF Found
<1>4. i + size \in i + 1 .. Len(window)
  BY <1>1, <1>3
<1> QED BY Zenon, <1>3, <1>4

\* The loop is well defined: every round goes on with a later byte.
LEMMA LoopExists ==
  ASSUME NEW window \in Seq(Byte)
  PROVE  \E from : from = [i \in 0 .. Len(window) |-> Round(from, window, i)]
<1>1. PICK n \in Nat : n = Len(window)
  OBVIOUS
<1> DEFINE Is(from, m) == from = [i \in n - m .. n |-> Round(from, window, i)]
           P == {m \in Nat : m <= n => \E from : Is(from, m)}
<1>2. ASSUME NEW from, NEW other, NEW i \in 0 .. n,
             \A k \in i + 1 .. n : from[k] = other[k]
      PROVE  Round(from, window, i) = Round(other, window, i)
  <2>1. CASE Found(window, i).status = "OK"
    <3>1. i + Found(window, i).size \in i + 1 .. n
      BY Zenon, <1>1, <2>1, FoundSize
    <3>2. from[i + Found(window, i).size] = other[i + Found(window, i).size]
      BY Zenon, <1>2, <3>1
    <3> QED BY Zenon, <2>1, <3>2 DEF Round
  <2>2. CASE Found(window, i).status # "OK"
    BY Zenon, <2>2 DEF Round
  <2> QED BY Zenon, <2>1, <2>2
<1>3. 0 \in P
  <2> DEFINE from == [i \in n .. n |-> Round(<<>>, window, i)]
  <2>1. n - 0 = n /\ \A i \in n .. n : i \in 0 .. n /\ i + 1 .. n = {}
    BY <1>1
  <2>2. \A i \in n .. n : Round(<<>>, window, i) = Round(from, window, i)
    <3> HIDE DEF from
    <3> QED BY Zenon, <1>2, <2>1
  <2>3. from = [i \in n .. n |-> Round(from, window, i)]
    BY Zenon, <2>2
  <2> HIDE DEF from
  <2> QED BY Zenon, <2>1, <2>3
<1>4. ASSUME NEW m \in Nat, m \in P PROVE m + 1 \in P
  <2> SUFFICES ASSUME m + 1 <= n PROVE \E from : Is(from, m + 1)
    OBVIOUS
  <2>1. PICK k \in Nat : k = n - (m + 1) /\ k + 1 = n - m /\ m <= n /\ k \in 0 .. n
    BY <1>1
  <2>2. PICK old : old = [i \in k + 1 .. n |-> Round(old, window, i)]
    BY Zenon, <1>4, <2>1
  <2> DEFINE from == [i \in k .. n |-> IF i = k THEN Round(old, window, k) ELSE old[i]]
  <2>3. \A i \in k .. n : i = k \/ i \in k + 1 .. n
    BY <2>1
  <2>4. \A i \in k + 1 .. n : i \in k .. n /\ i # k /\ i \in 0 .. n /\ i + 1 .. n \subseteq k + 1 .. n
    BY <2>1
  <2>5. \A i \in k + 1 .. n : from[i] = old[i] /\ old[i] = Round(old, window, i)
    BY Zenon, <2>2, <2>4
  <2>6. from[k] = Round(old, window, k) /\ DOMAIN from = k .. n
    <3>1. k \in k .. n
      BY <2>1
    <3> QED BY Zenon, <3>1
  <2>7. from = [i \in k .. n |-> from[i]]
    BY Zenon
  <2> HIDE DEF from
  <2>8. ASSUME NEW i \in k .. n PROVE from[i] = Round(from, window, i)
    <3>1. i \in 0 .. n /\ \A j \in i + 1 .. n : j \in k + 1 .. n
      BY <2>1
    <3>2. \A j \in i + 1 .. n : old[j] = from[j]
      BY Zenon, <2>5, <3>1
    <3>3. Round(old, window, i) = Round(from, window, i)
      BY Zenon, <1>2, <3>1, <3>2
    <3> QED BY Zenon, <2>3, <2>5, <2>6, <3>3
  <2>9. from = [i \in k .. n |-> Round(from, window, i)]
    BY Zenon, <2>7, <2>8
  <2> QED BY Zenon, <2>1, <2>9
<1>5. \A m \in Nat : m \in P
  <2> HIDE DEF P
  <2> QED BY Zenon, <1>3, <1>4, Induction
<1>6. n <= n /\ n - n = 0
  BY <1>1
<1>7. \E from : Is(from, n)
  BY Zenon, <1>1, <1>5, <1>6
<1> QED BY Zenon, <1>1, <1>6, <1>7

LEMMA ParseIs ==
  ASSUME NEW window \in Seq(Byte)
  PROVE  \E from : /\ \A i \in 0 .. Len(window) : from[i] = Round(from, window, i)
                   /\ parse(window) = from[0]
<1> DEFINE Is(from) == from = [i \in 0 .. Len(window) |-> Round(from, window, i)]
           from == CHOOSE f : Is(f)
<1>1. Is(from)
  <2>1. \E f : Is(f)
    BY Zenon, LoopExists
  <2> HIDE DEF Is
  <2> QED BY Zenon, <2>1
<1>2. parse(window) = from[0]
  BY DEF parse, Round, Found
<1> HIDE DEF from
<1> QED BY Zenon, <1>1, <1>2

------------------------------------------------------------------------------
(***************************************************************************)
(* The packets clients send: within the limits of framing.hpp, or a length *)
(* out of range.                                                           *)
(***************************************************************************)
StreamOfFrames ==
  /\ \A f \in Frame : f \in Framed /\ Len(Body(f)) <= MaxLengthValue
  /\ \A p \in RawPacket : \E v \in Int32 : v \notin 0 .. MaxLengthValue /\ p = encodeVarInt(v)

LEMMA Nonempty ==
  ASSUME NEW v \in Int32, NEW bytes \in Seq(Byte)
  PROVE  encodeVarInt(v) \in Seq(Byte) /\ Len(encodeVarInt(v)) >= 1
         /\ Len(encodeVarInt(v) \o bytes) >= 1
<1>1. PICK s \in Seq(Byte) : s = encodeVarInt(v) /\ Len(s) \in 1 .. 5
  <2>1. encodeVarInt(v) \in Seq(Byte) /\ Len(encodeVarInt(v)) = wireSize(v)
    BY Zenon, Encoded
  <2>2. wireSize(v) \in 1 .. 5
    BY SMT, WireSize
  <2> QED BY Zenon, <2>1, <2>2
<1>2. Len(s) >= 1 /\ Len(s \o bytes) >= 1
  <2>1. Len(s \o bytes) = Len(s) + Len(bytes)
    BY Zenon, <1>1, SeqJoin
  <2>2. Len(bytes) \in Nat
    OBVIOUS
  <2> QED BY <1>1, <2>1, <2>2
<1> QED BY Zenon, <1>1, <1>2

LEMMA GoodPacket ==
  ASSUME StreamOfFrames, NEW p \in WellFormed
  PROVE  /\ p \in Seq(Byte) /\ Len(p) >= 1
         /\ \A rest \in Seq(Byte) :
              deserializePacketFrame(p \o rest)
                = [status |-> "OK", size |-> Len(p), frame |-> FrameOf(p)]
         /\ \A n \in 0 .. Len(p) - 1 :
              deserializePacketFrame(SubSeq(p, 1, n)) = [status |-> "INCOMPLETE"]
<1>1. PICK f : f \in Frame /\ f = FrameOf(p) /\ serializePacket(f) = p
  <2>1. \E f \in Frame : serializePacket(f) = p
    BY Zenon DEF WellFormed
  <2> QED BY Zenon, <2>1 DEF FrameOf
<1>2. f \in Framed /\ Len(Body(f)) <= MaxLengthValue
  BY Zenon, <1>1 DEF StreamOfFrames
<1>3. /\ Len(Body(f)) \in Int32 \cap Nat /\ Body(f) \in Seq(Byte)
      /\ p = encodeVarInt(Len(Body(f))) \o Body(f)
      /\ encodeVarInt(Len(Body(f))) \in Seq(Byte)
  BY Zenon, <1>1, <1>2, Parts
<1>4. Len(Body(f)) \in Int32
  BY Zenon, <1>3
<1>5. p \in Seq(Byte) /\ Len(p) >= 1
  BY Zenon, <1>3, <1>4, Nonempty, SeqJoin
<1>6. \A rest \in Seq(Byte) :
        deserializePacketFrame(p \o rest)
          = [status |-> "OK", size |-> Len(p), frame |-> FrameOf(p)]
  BY Zenon, <1>1, <1>2, FrameRoundTrip
<1>7. \A n \in 0 .. Len(p) - 1 :
        deserializePacketFrame(SubSeq(p, 1, n)) = [status |-> "INCOMPLETE"]
  BY Zenon, <1>1, <1>2, FrameCut
<1> QED BY Zenon, <1>5, <1>6, <1>7

LEMMA BadPacket ==
  ASSUME StreamOfFrames, NEW p \in RawPacket
  PROVE  /\ p \in Seq(Byte) /\ Len(p) >= 1
         /\ \A rest \in Seq(Byte) :
              deserializePacketFrame(p \o rest) = [status |-> "INVALID"]
         /\ \A n \in 0 .. Len(p) - 1 :
              deserializePacketFrame(SubSeq(p, 1, n)) = [status |-> "INCOMPLETE"]
<1>1. PICK v \in Int32 : v \notin 0 .. MaxLengthValue /\ p = encodeVarInt(v)
  BY Zenon DEF StreamOfFrames
<1>2. p \in Seq(Byte) /\ Len(p) >= 1
  BY Zenon, <1>1, Nonempty, NoBytes
<1>3. \A rest \in Seq(Byte) :
        deserializePacketFrame(p \o rest) = [status |-> "INVALID"]
  BY Zenon, <1>1, LengthRefused
<1>4. ASSUME NEW n \in 0 .. Len(p) - 1
      PROVE  deserializePacketFrame(SubSeq(p, 1, n)) = [status |-> "INCOMPLETE"]
  <2>1. deserializeVarInt(SubSeq(p, 1, n)) = [status |-> "INCOMPLETE"]
    BY Zenon, <1>1, VarIntCut
  <2>2. deserializeVarInt(SubSeq(p, 1, n)).status = "INCOMPLETE"
    BY <2>1
  <2>3. deserializePacketFrame(SubSeq(p, 1, n))
          = [status |-> deserializeVarInt(SubSeq(p, 1, n)).status]
    BY <2>2 DEF deserializePacketFrame
  <2> QED BY Zenon, <2>2, <2>3
<1> QED BY Zenon, <1>2, <1>3, <1>4

\* The frames of packets, one after another.
LEMMA FramesJoin ==
  ASSUME NEW S, NEW a \in Seq(S), NEW b \in Seq(S)
  PROVE  Frames(a \o b) = Frames(a) \o Frames(b)
BY DEF Frames

\* What the loop ends with, and the same with other frames.
Ended(frames, status, left) == [frames |-> frames, status |-> status, left |-> left]
WithFrames(result, all) == [result EXCEPT !.frames = all]

LEMMA OtherFrames ==
  \A frames, status, left, all :
    WithFrames(Ended(frames, status, left), all) = Ended(all, status, left)
BY DEF WithFrames, Ended

LEMMA FramesFew ==
  /\ Frames(<<>>) = <<>>
  /\ \A p : Frames(<<p>>) = <<FrameOf(p)>>
<1>1. Frames(<<>>) = <<>>
  BY DEF Frames
<1>2. ASSUME NEW p PROVE Frames(<<p>>) = <<FrameOf(p)>>
  BY DEF Frames
<1> QED BY Zenon, <1>1, <1>2

\* Part of some packets, the bytes before it and those after it.
LEMMA Boundary ==
  ASSUME NEW packets \in Seq(Seq(Byte)), NEW rest \in Seq(Byte), NEW j \in 0 .. Len(packets)
  PROVE  \E before \in Seq(Byte), after \in Seq(Byte) :
           /\ before = FlattenSeq(SubSeq(packets, 1, j))
           /\ after = FlattenSeq(SubSeq(packets, j + 1, Len(packets))) \o rest
           /\ FlattenSeq(packets) \o rest = before \o after
<1>1. PICK a \in Seq(Seq(Byte)), b \in Seq(Seq(Byte)) :
        /\ a = SubSeq(packets, 1, j) /\ b = SubSeq(packets, j + 1, Len(packets))
        /\ packets = a \o b
  <2>1. /\ SubSeq(packets, 1, j) \in Seq(Seq(Byte))
        /\ SubSeq(packets, j + 1, Len(packets)) \in Seq(Seq(Byte))
        /\ packets = SubSeq(packets, 1, j) \o SubSeq(packets, j + 1, Len(packets))
    BY Zenon, SeqCut
  <2> QED BY Zenon, <2>1
<1>2. PICK x \in Seq(Byte), y \in Seq(Byte) : x = FlattenSeq(a) /\ y = FlattenSeq(b)
  <2>1. FlattenSeq(a) \in Seq(Byte) /\ FlattenSeq(b) \in Seq(Byte)
    BY Zenon, <1>1, FlattenConcat
  <2> QED BY Zenon, <2>1
<1>3. FlattenSeq(a \o b) = x \o y
  <2>1. FlattenSeq(a \o b) = FlattenSeq(a) \o FlattenSeq(b)
    BY Zenon, <1>1, FlattenConcat
  <2> QED BY Zenon, <1>2, <2>1
<1>4. (x \o y) \o rest = x \o (y \o rest) /\ y \o rest \in Seq(Byte)
  <2>1. (x \o y) \o rest = x \o (y \o rest)
    BY Zenon, <1>2, BytesJoined
  <2> QED BY Zenon, <1>2, <2>1, SeqJoin
<1> QED BY Zenon, <1>1, <1>2, <1>3, <1>4

\* Induction from the last index down.
LEMMA CountDown ==
  ASSUME NEW n \in Nat, NEW d \in Nat, d + 1 <= n
  PROVE  \E j \in 0 .. n : j = n - (d + 1) /\ j + 1 = n - d /\ d <= n
           /\ j + 1 \in 0 .. n /\ j + 1 \in 1 .. n /\ (j + 1) - 1 = j
OBVIOUS

\* The loop hands over the packets at the start of the window, and ends as
\* what follows them does.
LEMMA GoodThenRest ==
  ASSUME StreamOfFrames, NEW good \in Seq(WellFormed), NEW rest \in Seq(Byte),
         deserializePacketFrame(rest).status # "OK",
         NEW window \in Seq(Byte), window = FlattenSeq(good) \o rest
  PROVE  parse(window) = [frames |-> Frames(good),
                          status |-> deserializePacketFrame(rest).status,
                          left |-> Len(rest)]
<1>1. PICK n \in Nat, l \in Nat : n = Len(good) /\ l = Len(window)
  OBVIOUS
<1>2. PICK packets \in Seq(Seq(Byte)) : packets = good
  <2>1. \A i \in 1 .. n : good[i] \in WellFormed
    BY <1>1
  <2>2. \A i \in 1 .. n : good[i] \in Seq(Byte)
    BY Zenon, <2>1, GoodPacket
  <2>3. good \in Seq(Seq(Byte))
    BY <1>1, <2>2
  <2> QED BY Zenon, <2>3
<1>3. PICK from :
        /\ \A i \in 0 .. l : from[i] = Round(from, window, i)
        /\ parse(window) = from[0]
  BY Zenon, <1>1, ParseIs
<1>4. PICK status : status = deserializePacketFrame(rest).status
  OBVIOUS
<1> DEFINE At(j) == Len(FlattenSeq(SubSeq(packets, 1, j)))
           Rest(j) == FlattenSeq(SubSeq(packets, j + 1, n)) \o rest
           Ends(j) == from[At(j)] = [frames |-> Frames(SubSeq(packets, j + 1, n)),
                                     status |-> status, left |-> Len(rest)]
           P == {d \in Nat : d <= n => Ends(n - d)}
<1>5. ASSUME NEW j \in 0 .. n
      PROVE  /\ At(j) \in 0 .. l /\ Rest(j) \in Seq(Byte) /\ Len(Rest(j)) = l - At(j)
             /\ Found(window, At(j)) = deserializePacketFrame(Rest(j))
  <2>1. PICK before \in Seq(Byte), after \in Seq(Byte) :
          /\ before = FlattenSeq(SubSeq(packets, 1, j)) /\ after = Rest(j)
          /\ window = before \o after
    <3>1. j \in 0 .. Len(packets)
      BY Zenon, <1>1, <1>2
    <3>2. \E before \in Seq(Byte), after \in Seq(Byte) :
            /\ before = FlattenSeq(SubSeq(packets, 1, j))
            /\ after = FlattenSeq(SubSeq(packets, j + 1, Len(packets))) \o rest
            /\ FlattenSeq(packets) \o rest = before \o after
      BY Zenon, <3>1, Boundary
    <3> QED BY Zenon, <1>1, <1>2, <3>2
  <2>2. /\ Len(before \o after) = Len(before) + Len(after)
        /\ SubSeq(before \o after, Len(before) + 1, Len(before \o after)) = after
    BY Zenon, <2>1, Concatenated
  <2> HIDE DEF Rest
  <2>3. Found(window, At(j)) = deserializePacketFrame(Rest(j))
    BY Zenon, <2>1, <2>2 DEF Found
  <2>4. PICK k \in Nat : k = Len(before) /\ k = At(j)
    BY <2>1
  <2>5. PICK m \in Nat : m = Len(after) /\ m = Len(Rest(j))
    BY <2>1
  <2>6. l = k + m
    BY Zenon, <1>1, <2>1, <2>2, <2>4, <2>5
  <2>7. k \in 0 .. l /\ m = l - k
    BY <2>6
  <2> QED BY Zenon, <2>1, <2>3, <2>4, <2>5, <2>7
<1>6. 0 \in P
  <2>1. n \in 0 .. n /\ n - 0 = n
    BY <1>1
  <2>2. SubSeq(packets, n + 1, n) = <<>> /\ SubSeq(packets, 1, n) = packets
    BY <1>1, <1>2
  <2>3. Rest(n) = rest
    <3>1. <<>> \o rest = rest
      BY Zenon, SeqJoinEmpty
    <3> QED BY Zenon, <2>2, <3>1, FlattenEmpty
  <2>4. At(n) \in 0 .. l /\ Found(window, At(n)).status = status
        /\ Len(rest) = l - At(n)
    <3> HIDE DEF At, Rest
    <3> QED BY Zenon, <1>4, <1>5, <2>1, <2>3
  <2>5. from[At(n)] = [frames |-> <<>>, status |-> status, left |-> Len(rest)]
    <3> HIDE DEF At
    <3>1. from[At(n)] = Round(from, window, At(n))
      BY Zenon, <1>3, <2>4
    <3> QED BY Zenon, <1>1, <1>4, <2>4, <3>1 DEF Round
  <2>6. Ends(n)
    <3> HIDE DEF At
    <3> QED BY Zenon, <2>2, <2>5, FramesFew
  <2> HIDE DEF Ends
  <2> QED BY Zenon, <2>1, <2>6
<1>7. ASSUME NEW d \in Nat, d \in P PROVE d + 1 \in P
  <2> SUFFICES ASSUME d + 1 <= n PROVE Ends(n - (d + 1))
    OBVIOUS
  <2>1. PICK j \in 0 .. n : j = n - (d + 1) /\ j + 1 = n - d /\ d <= n
        /\ j + 1 \in 0 .. n /\ j + 1 \in 1 .. n /\ (j + 1) - 1 = j
    BY CountDown
  <2>2. Ends(j + 1)
    BY Zenon, <1>7, <2>1
  <2>3. PICK p \in WellFormed : p = good[j + 1]
    BY <1>1, <2>1
  <2>4. /\ p \in Seq(Byte) /\ p = packets[j + 1] /\ <<p>> \in Seq(Seq(Byte))
        /\ SubSeq(packets, j + 1, n) = <<p>> \o SubSeq(packets, (j + 1) + 1, n)
        /\ SubSeq(packets, 1, j + 1) = SubSeq(packets, 1, j) \o <<p>>
        /\ SubSeq(packets, 1, j) \in Seq(Seq(Byte))
        /\ SubSeq(packets, (j + 1) + 1, n) \in Seq(Seq(Byte))
    <3>1. PICK i \in 1 .. Len(packets) : i = j + 1 /\ i - 1 = j
      BY <1>1, <1>2, <2>1
    <3>2. /\ packets[i] \in Seq(Byte) /\ <<packets[i]>> \in Seq(Seq(Byte))
          /\ SubSeq(packets, i, Len(packets))
               = <<packets[i]>> \o SubSeq(packets, i + 1, Len(packets))
          /\ SubSeq(packets, 1, i) = SubSeq(packets, 1, i - 1) \o <<packets[i]>>
          /\ SubSeq(packets, 1, i - 1) \in Seq(Seq(Byte))
          /\ SubSeq(packets, i + 1, Len(packets)) \in Seq(Seq(Byte))
      BY Zenon, <1>2, <3>1, SeqParts
    <3> QED BY Zenon, <1>1, <1>2, <2>3, <3>1, <3>2
  <2>5. Rest(j) = p \o Rest(j + 1)
    <3>1. PICK tail \in Seq(Byte) : tail = FlattenSeq(SubSeq(packets, (j + 1) + 1, n))
      BY Zenon, <2>4, FlattenConcat
    <3>2. FlattenSeq(<<p>> \o SubSeq(packets, (j + 1) + 1, n))
            = FlattenSeq(<<p>>) \o FlattenSeq(SubSeq(packets, (j + 1) + 1, n))
      BY Zenon, <2>4, FlattenConcat
    <3>3. FlattenSeq(<<p>>) = p
      BY Zenon, <2>4, FlattenOne
    <3>4. (p \o tail) \o rest = p \o (tail \o rest)
      <4>1. PICK q \in Seq(Byte) : q = p
        BY Zenon, <2>4
      <4>2. (q \o tail) \o rest = q \o (tail \o rest)
        BY ZenonT(60), <3>1, <4>1, BytesJoined
      <4> QED BY Zenon, <4>1, <4>2
    <3> QED BY Zenon, <2>4, <3>1, <3>2, <3>3, <3>4
  <2>6. At(j + 1) = At(j) + Len(p)
    <3>1. PICK head \in Seq(Byte) : head = FlattenSeq(SubSeq(packets, 1, j))
      BY Zenon, <2>4, FlattenConcat
    <3>2. FlattenSeq(SubSeq(packets, 1, j) \o <<p>>)
            = FlattenSeq(SubSeq(packets, 1, j)) \o FlattenSeq(<<p>>)
      BY Zenon, <2>4, FlattenConcat
    <3>3. FlattenSeq(<<p>>) = p
      BY Zenon, <2>4, FlattenOne
    <3>4. Len(head \o p) = Len(head) + Len(p)
      BY Zenon, <2>4, <3>1, SeqJoin
    <3> QED BY Zenon, <2>4, <3>1, <3>2, <3>3, <3>4
  <2>7. Found(window, At(j)) = [status |-> "OK", size |-> Len(p), frame |-> FrameOf(p)]
        /\ At(j) \in 0 .. l
    <3> HIDE DEF At, Rest
    <3>1. Rest(j + 1) \in Seq(Byte)
      BY Zenon, <1>5, <2>1
    <3>2. deserializePacketFrame(p \o Rest(j + 1))
            = [status |-> "OK", size |-> Len(p), frame |-> FrameOf(p)]
      BY Zenon, <2>3, <3>1, GoodPacket
    <3> QED BY Zenon, <1>5, <2>1, <2>5, <3>2
  <2>8. from[At(j)] = [from[At(j + 1)] EXCEPT !.frames = <<FrameOf(p)>> \o @]
    <3> HIDE DEF At
    <3>1. from[At(j)] = Round(from, window, At(j))
      BY Zenon, <1>3, <2>7
    <3>2. /\ Found(window, At(j)).status = "OK" /\ Found(window, At(j)).size = Len(p)
          /\ Found(window, At(j)).frame = FrameOf(p)
      BY <2>7
    <3> QED BY Zenon, <2>6, <3>1, <3>2 DEF Round
  <2>9. from[At(j)] = [frames |-> <<FrameOf(p)>> \o Frames(SubSeq(packets, (j + 1) + 1, n)),
                       status |-> status, left |-> Len(rest)]
    <3> HIDE DEF At
    <3>1. PICK result, tail, all :
            /\ result = from[At(j + 1)]
            /\ tail = Frames(SubSeq(packets, (j + 1) + 1, n))
            /\ all = <<FrameOf(p)>> \o tail
      OBVIOUS
    <3>2. result = [frames |-> tail, status |-> status, left |-> Len(rest)]
      BY Zenon, <2>2, <3>1
    <3>3. result.frames = tail
      BY <3>2
    <3>4. from[At(j)] = [result EXCEPT !.frames = all]
      BY Zenon, <2>8, <3>1, <3>3
    <3>5. result = Ended(tail, status, Len(rest))
      BY Zenon, <3>2 DEF Ended
    <3>6. from[At(j)] = WithFrames(result, all)
      BY Zenon, <3>4 DEF WithFrames
    <3>7. from[At(j)] = Ended(all, status, Len(rest))
      <4>1. WithFrames(Ended(tail, status, Len(rest)), all) = Ended(all, status, Len(rest))
        BY ONLY OtherFrames
      <4> QED BY Zenon, <3>5, <3>6, <4>1
    <3> QED BY Zenon, <3>1, <3>7 DEF Ended
  <2>10. <<FrameOf(p)>> \o Frames(SubSeq(packets, (j + 1) + 1, n))
           = Frames(SubSeq(packets, j + 1, n))
    <3>1. Frames(<<p>> \o SubSeq(packets, (j + 1) + 1, n))
            = Frames(<<p>>) \o Frames(SubSeq(packets, (j + 1) + 1, n))
      BY Zenon, <2>4, FramesJoin
    <3> QED BY Zenon, <2>4, <3>1, FramesFew
  <2>11. Ends(j)
    <3> HIDE DEF At
    <3> QED BY Zenon, <2>9, <2>10
  <2> HIDE DEF Ends
  <2> QED BY Zenon, <2>1, <2>11
<1>8. \A d \in Nat : d \in P
  <2> HIDE DEF P
  <2> QED BY Zenon, <1>6, <1>7, Induction
<1>9. n <= n /\ n - n = 0
  BY <1>1
<1>10. Ends(0)
  <2> HIDE DEF Ends
  <2> QED BY Zenon, <1>1, <1>8, <1>9
<1>11. SubSeq(packets, 1, 0) = <<>> /\ SubSeq(packets, 0 + 1, n) = packets /\ Len(<<>>) = 0
  BY <1>1, <1>2
<1>12. At(0) = 0
  BY Zenon, <1>11, FlattenEmpty
<1> QED BY Zenon, <1>2, <1>3, <1>4, <1>10, <1>11, <1>12

\* What is there of the packets that follow: nothing, or part of the first.
Partial(later, tail) ==
  \/ later = <<>> /\ tail = <<>>
  \/ later # <<>> /\ \E r \in 0 .. Len(later[1]) - 1 : tail = SubSeq(later[1], 1, r)

\* What is before an element of a sequence, and from it on.
LEMMA Around ==
  ASSUME NEW S, NEW s \in Seq(S), NEW i \in 1 .. Len(s)
  PROVE  /\ Len(SubSeq(s, 1, i - 1)) = i - 1
         /\ SubSeq(s, i, Len(s)) # <<>> /\ SubSeq(s, i, Len(s))[1] = s[i]
<1>1. Len(SubSeq(s, 1, i - 1)) = i - 1
  OBVIOUS
<1>2. PICK rest : rest = SubSeq(s, i, Len(s))
  OBVIOUS
<1>3. Len(rest) = (Len(s) - i) + 1 /\ Len(rest) # 0 /\ rest[1] = s[i]
  BY <1>2
<1>4. rest # <<>>
  <2>1. Len(<<>>) = 0
    OBVIOUS
  <2> QED BY Zenon, <1>3, <2>1
<1> QED BY Zenon, <1>1, <1>2, <1>3, <1>4

\* What a client sends: packets that keep to the format and others.
Sendable == WellFormed \cup RawPacket

LEMMA SendableBytes ==
  ASSUME StreamOfFrames
  PROVE  /\ Sendable \in SUBSET Seq(Byte)
         /\ \A s \in Seq(Sendable) : s \in Seq(Seq(Byte)) /\ FlattenSeq(s) \in Seq(Byte)
<1>1. \A p \in Sendable : p \in Seq(Byte)
  BY Zenon, GoodPacket, BadPacket DEF Sendable
<1>2. ASSUME NEW s \in Seq(Sendable) PROVE s \in Seq(Seq(Byte)) /\ FlattenSeq(s) \in Seq(Byte)
  <2>1. s \in Seq(Seq(Byte))
    BY <1>1
  <2> QED BY Zenon, <2>1, FlattenConcat
<1> QED BY <1>1, <1>2

\* Whole packets before a cut of some bytes, and part of the next one.
Cuts(later, bytes) ==
  \E more \in Seq(Sendable), rest \in Seq(Sendable), tail \in Seq(Byte) :
    later = more \o rest /\ bytes = FlattenSeq(more) \o tail /\ Partial(rest, tail)

\* Wherever a stream is cut, whole packets are before the cut and part of the
\* next one.
LEMMA CutStream ==
  ASSUME StreamOfFrames, NEW later \in Seq(Sendable),
         NEW n \in 0 .. Len(FlattenSeq(later))
  PROVE  Cuts(later, SubSeq(FlattenSeq(later), 1, n))
<1>1. PICK packets \in Seq(Seq(Byte)) : packets = later
  BY Zenon, SendableBytes
<1>2. PICK bytes \in Seq(Byte) : bytes = FlattenSeq(later)
  BY Zenon, <1>1, FlattenConcat
<1>3. CASE n = Len(bytes)
  <2>1. SubSeq(bytes, 1, n) = bytes /\ <<>> \in Seq(Sendable) /\ <<>> \in Seq(Byte)
    BY <1>3
  <2>2. bytes = bytes \o <<>> /\ later = later \o <<>>
    BY Zenon, SeqJoinEmpty
  <2>3. Partial(<<>>, <<>>)
    BY Zenon DEF Partial
  <2> QED BY Zenon, <1>2, <2>1, <2>2, <2>3 DEF Cuts
<1>4. CASE n # Len(bytes)
  <2>1. n \in 0 .. Len(bytes) - 1
    BY <1>2, <1>4
  <2>2. PICK k, r : /\ k \in 0 .. Len(packets) - 1 /\ r \in 0 .. Len(packets[k + 1]) - 1
                    /\ SubSeq(FlattenSeq(packets), 1, n)
                         = FlattenSeq(SubSeq(packets, 1, k)) \o SubSeq(packets[k + 1], 1, r)
    <3>1. n \in 0 .. Len(FlattenSeq(packets)) - 1
      BY Zenon, <1>1, <1>2, <2>1
    <3>2. \E k \in 0 .. Len(packets) - 1 : \E r \in 0 .. Len(packets[k + 1]) - 1 :
            SubSeq(FlattenSeq(packets), 1, n)
              = FlattenSeq(SubSeq(packets, 1, k)) \o SubSeq(packets[k + 1], 1, r)
      BY Zenon, <3>1, FlattenCut
    <3> QED BY Zenon, <3>2
  <2>3. PICK more \in Seq(Sendable), rest \in Seq(Sendable) :
          more = SubSeq(later, 1, k) /\ rest = SubSeq(later, k + 1, Len(later))
          /\ later = more \o rest
    <3>1. k \in 0 .. Len(later)
      BY <1>1, <2>2
    <3>2. /\ SubSeq(later, 1, k) \in Seq(Sendable) /\ SubSeq(later, k + 1, Len(later)) \in Seq(Sendable)
          /\ later = SubSeq(later, 1, k) \o SubSeq(later, k + 1, Len(later))
      BY Zenon, <3>1, SeqCut
    <3> QED BY Zenon, <3>2
  <2>4. rest # <<>> /\ rest[1] = packets[k + 1] /\ packets[k + 1] \in Seq(Byte)
    <3>1. PICK i \in 1 .. Len(packets) : i = k + 1
      BY <2>2
    <3>2. packets[i] \in Seq(Byte)
      BY <3>1
    <3>3. rest = SubSeq(packets, i, Len(packets))
      BY Zenon, <1>1, <2>3, <3>1
    <3>4. rest # <<>> /\ rest[1] = packets[i]
      BY Zenon, <3>3, Around
    <3> QED BY Zenon, <3>1, <3>2, <3>4
  <2>5. PICK tail \in Seq(Byte) : tail = SubSeq(packets[k + 1], 1, r)
    <3>1. r \in 0 .. Len(packets[k + 1])
      BY <2>2, <2>4
    <3>2. SubSeq(packets[k + 1], 1, r) \in Seq(Byte)
      BY Zenon, <2>4, <3>1, SeqCut
    <3> QED BY Zenon, <3>2
  <2>6. Partial(rest, tail)
    BY Zenon, <2>2, <2>4, <2>5 DEF Partial
  <2> QED BY Zenon, <1>1, <2>2, <2>3, <2>5, <2>6 DEF Cuts
<1> QED BY Zenon, <1>3, <1>4

\* They all keep to the format, or some of them do and then one does not.
LEMMA FirstOther ==
  ASSUME NEW s \in Seq(Sendable)
  PROVE  \/ s \in Seq(WellFormed)
         \/ \E good \in Seq(WellFormed), bad \in Sendable \ WellFormed, others \in Seq(Sendable) :
              s = good \o (<<bad>> \o others)
<1>1. PICK n \in Nat : n = Len(s)
  OBVIOUS
<1> DEFINE B == {i \in 1 .. n : s[i] \notin WellFormed}
<1>2. CASE B = {}
  BY <1>1, <1>2
<1>3. CASE B # {}
  <2>1. PICK i \in B : \A j \in B : i <= j
    <3>1. B \in SUBSET Nat
      OBVIOUS
    <3> HIDE DEF B
    <3> QED BY Zenon, <1>3, <3>1, Least
  <2>2. i \in 1 .. Len(s) /\ s[i] \notin WellFormed /\ i - 1 \in 0 .. Len(s) /\ (i - 1) + 1 = i
    BY <1>1, <2>1
  <2>3. PICK good, others, bad : /\ good = SubSeq(s, 1, i - 1) /\ bad = s[i]
                                 /\ others = SubSeq(s, i + 1, Len(s))
    OBVIOUS
  <2>4. /\ good \in Seq(Sendable) /\ others \in Seq(Sendable) /\ bad \in Sendable \ WellFormed
        /\ SubSeq(s, i, Len(s)) = <<bad>> \o others
    BY Zenon, <2>2, <2>3, SeqParts
  <2>5. s = good \o (<<bad>> \o others)
    <3>1. s = SubSeq(s, 1, i - 1) \o SubSeq(s, (i - 1) + 1, Len(s))
      BY Zenon, <2>2, SeqCut
    <3> QED BY Zenon, <2>2, <2>3, <2>4, <3>1
  <2>6. good \in Seq(WellFormed)
    <3>1. \A j \in 1 .. i - 1 : good[j] = s[j] /\ s[j] \in WellFormed
      <4>1. \A j \in 1 .. i - 1 : s[j] \in WellFormed
        BY <1>1, <2>1
      <4>2. \A j \in 1 .. i - 1 : good[j] = s[j]
        BY <2>2, <2>3
      <4> QED BY Zenon, <4>1, <4>2
    <3>2. Len(good) = i - 1
      <4>1. Len(SubSeq(s, 1, i - 1)) = i - 1
        BY Zenon, <2>2, Around
      <4> QED BY Zenon, <2>3, <4>1
    <3>3. good \in Seq(Sendable) /\ \A j \in 1 .. Len(good) : good[j] \in WellFormed
      BY Zenon, <2>4, <3>1, <3>2
    <3> HIDE DEF B
    <3> QED BY <3>3
  <2> QED BY Zenon, <2>4, <2>5, <2>6
<1> QED BY Zenon, <1>2, <1>3

\* Part of a packet is no frame yet.
LEMMA NoFrameYet ==
  ASSUME StreamOfFrames, NEW later \in Seq(Sendable), NEW tail, Partial(later, tail)
  PROVE  deserializePacketFrame(tail) = [status |-> "INCOMPLETE"]
<1>1. CASE later = <<>> /\ tail = <<>>
  <2>1. 0 \in Int32
    BY DEF Int32
  <2>2. PICK bytes \in Seq(Byte) : bytes = encodeVarInt(0) /\ Len(bytes) >= 1
    BY Zenon, <2>1, NoBytes, Nonempty
  <2>3. 0 \in 0 .. Len(encodeVarInt(0)) - 1 /\ SubSeq(encodeVarInt(0), 1, 0) = <<>>
    BY <2>2
  <2>4. deserializeVarInt(<<>>) = [status |-> "INCOMPLETE"]
    BY Zenon, <2>1, <2>3, VarIntCut
  <2>5. deserializeVarInt(<<>>).status = "INCOMPLETE"
    BY <2>4
  <2>6. deserializePacketFrame(<<>>) = [status |-> deserializeVarInt(<<>>).status]
    BY <2>5 DEF deserializePacketFrame
  <2> QED BY Zenon, <1>1, <2>5, <2>6
<1>2. CASE later # <<>> /\ \E r \in 0 .. Len(later[1]) - 1 : tail = SubSeq(later[1], 1, r)
  <2>1. later[1] \in WellFormed \/ later[1] \in RawPacket
    BY <1>2 DEF Sendable
  <2> QED BY Zenon, <1>2, <2>1, GoodPacket, BadPacket
<1> QED BY Zenon, <1>1, <1>2 DEF Partial

\* Before an element of a sequence made of two, and up to it.
LEMMA AroundJoin ==
  ASSUME NEW S, NEW a \in Seq(S), NEW b \in Seq(S)
  PROVE  /\ SubSeq(a \o b, 1, Len(a)) = a
         /\ b # <<>> => /\ b[1] \in S /\ (a \o b)[Len(a) + 1] = b[1]
                        /\ SubSeq(a \o b, 1, Len(a) + 1) = a \o <<b[1]>>
<1>1. SubSeq(a \o b, 1, Len(a)) = a
  OBVIOUS
<1>2. ASSUME b # <<>>
      PROVE  /\ b[1] \in S /\ (a \o b)[Len(a) + 1] = b[1]
             /\ SubSeq(a \o b, 1, Len(a) + 1) = a \o <<b[1]>>
  <2>1. 1 \in 0 .. Len(b) /\ b[1] \in S
    BY <1>2
  <2>2. (a \o b)[Len(a) + 1] = b[1]
    BY <2>1
  <2>3. SubSeq(a \o b, 1, Len(a) + 1) = a \o SubSeq(b, 1, 1)
    BY Zenon, <2>1, SeqCutJoin
  <2>4. SubSeq(b, 1, 1) = <<b[1]>>
    <3>1. SubSeq(b, 1, 1) \in Seq(S) /\ Len(SubSeq(b, 1, 1)) = 1
      BY Zenon, <2>1, SeqCut
    <3>2. \A i \in 1 .. 1 : SubSeq(b, 1, 1)[i] = <<b[1]>>[i]
      BY <2>1
    <3>3. Len(<<b[1]>>) = 1 /\ <<b[1]>> \in Seq(S)
      BY <2>1
    <3> QED BY Zenon, <3>1, <3>2, <3>3, SeqSame
  <2> QED BY Zenon, <2>1, <2>2, <2>3, <2>4
<1> QED BY Zenon, <1>1, <1>2

\* The earlier the cut, the fewer bytes are before it.
LEMMA FewerBytes ==
  ASSUME NEW packets \in Seq(Seq(Byte)), NEW j \in 0 .. Len(packets), NEW i \in 0 .. j
  PROVE  \E m \in Nat, n \in Nat :
           /\ m = Len(FlattenSeq(SubSeq(packets, 1, i)))
           /\ n = Len(FlattenSeq(SubSeq(packets, 1, j)))
           /\ m <= n
<1>1. PICK s \in Seq(Seq(Byte)) : s = SubSeq(packets, 1, j) /\ Len(s) = j
  <2>1. SubSeq(packets, 1, j) \in Seq(Seq(Byte)) /\ Len(SubSeq(packets, 1, j)) = j
    BY Zenon, SeqCut
  <2> QED BY Zenon, <2>1
<1>2. PICK a \in Seq(Seq(Byte)), b \in Seq(Seq(Byte)) : a = SubSeq(s, 1, i) /\ s = a \o b
  <2>1. i \in 0 .. Len(s)
    BY Zenon, <1>1
  <2>2. /\ SubSeq(s, 1, i) \in Seq(Seq(Byte)) /\ SubSeq(s, i + 1, Len(s)) \in Seq(Seq(Byte))
        /\ s = SubSeq(s, 1, i) \o SubSeq(s, i + 1, Len(s))
    BY Zenon, <2>1, SeqCut
  <2> QED BY Zenon, <2>2
<1>3. a = SubSeq(packets, 1, i)
  <2>1. SubSeq(SubSeq(packets, 1, j), 1, i) = SubSeq(packets, 1, i)
    OBVIOUS
  <2> QED BY Zenon, <1>1, <1>2, <2>1
<1>4. PICK x \in Seq(Byte), y \in Seq(Byte) : x = FlattenSeq(a) /\ y = FlattenSeq(b)
  BY Zenon, <1>2, FlattenConcat
<1>5. FlattenSeq(s) = x \o y
  BY Zenon, <1>2, <1>4, FlattenConcat
<1>6. Len(x \o y) = Len(x) + Len(y)
  BY Zenon, <1>4, SeqJoin
<1>7. PICK m \in Nat, k \in Nat : m = Len(x) /\ k = Len(y)
  BY <1>4
<1>8. m + k \in Nat /\ m <= m + k
  BY <1>7
<1> QED BY Zenon, <1>1, <1>3, <1>4, <1>5, <1>6, <1>7, <1>8

\* The complete packets are those that are followed by no more than part of
\* the next one.
LEMMA CompleteIs ==
  ASSUME NEW whole \in Seq(Seq(Byte)), NEW later \in Seq(Seq(Byte)), NEW tail \in Seq(Byte),
         sent = whole \o later, received \in 0 .. Len(Stream),
         SubSeq(Stream, 1, received) = FlattenSeq(whole) \o tail,
         Partial(later, tail)
  PROVE  Complete = whole
<1>1. PICK m \in Nat, n \in Nat : m = Len(whole) /\ n = Len(sent) /\ m <= n
                                  /\ sent \in Seq(Seq(Byte))
  <2>1. sent \in Seq(Seq(Byte)) /\ Len(sent) = Len(whole) + Len(later)
    BY Zenon, SeqJoin
  <2> QED BY <2>1
<1> DEFINE end(k) == Len(FlattenSeq(SubSeq(sent, 1, k)))
           T(k) == end(k) <= received /\ (k < n => end(k + 1) > received)
<1>2. SubSeq(sent, 1, m) = whole
  BY Zenon, <1>1, AroundJoin
<1>3. PICK x \in Seq(Byte) : x = FlattenSeq(whole)
  BY Zenon, FlattenConcat
<1>4. PICK l \in Nat, t \in Nat : l = Len(x) /\ t = Len(tail) /\ received = l + t
  <2>1. Stream \in Seq(Byte)
    BY Zenon, <1>1, FlattenConcat DEF Stream
  <2>2. Len(SubSeq(Stream, 1, received)) = received
    BY Zenon, <2>1, SeqCut
  <2>3. Len(x \o tail) = Len(x) + Len(tail)
    BY Zenon, <1>3, SeqJoin
  <2>4. Len(x) \in Nat /\ Len(tail) \in Nat
    BY <1>3
  <2> QED BY Zenon, <1>3, <2>2, <2>3, <2>4
<1>5. end(m) = l
  BY Zenon, <1>2, <1>3, <1>4
<1>6. m < n => end(m + 1) > received
  <2> SUFFICES ASSUME m < n PROVE end(m + 1) > received
    OBVIOUS
  <2>1. later # <<>>
    <3> SUFFICES ASSUME later = <<>> PROVE FALSE
      OBVIOUS
    <3>1. sent = whole
      BY Zenon, SeqJoinEmpty
    <3> QED BY <1>1, <3>1
  <2>2. /\ later[1] \in Seq(Byte)
        /\ SubSeq(sent, 1, m + 1) = whole \o <<later[1]>>
    BY Zenon, <1>1, <2>1, AroundJoin
  <2>3. PICK p \in Seq(Byte) : p = later[1]
    BY Zenon, <2>2
  <2>4. <<p>> \in Seq(Seq(Byte))
    OBVIOUS
  <2>5. FlattenSeq(whole \o <<p>>) = x \o p
    <3>1. FlattenSeq(whole \o <<p>>) = FlattenSeq(whole) \o FlattenSeq(<<p>>)
      BY Zenon, <2>4, FlattenConcat
    <3> QED BY Zenon, <1>3, <3>1, FlattenOne
  <2>6. Len(x \o p) = Len(x) + Len(p)
    BY Zenon, SeqJoin
  <2>7. PICK r \in 0 .. Len(p) - 1 : tail = SubSeq(p, 1, r)
    BY Zenon, <2>1, <2>3 DEF Partial
  <2>8. t = r
    <3>1. r \in 0 .. Len(p)
      BY <2>7
    <3>2. Len(SubSeq(p, 1, r)) = r
      BY Zenon, <3>1, SeqCut
    <3> QED BY Zenon, <1>4, <2>7, <3>2
  <2>9. PICK k \in Nat : k = Len(p) /\ r \in 0 .. k - 1
    BY <2>7
  <2>10. end(m + 1) = l + k
    BY Zenon, <1>4, <2>2, <2>3, <2>5, <2>6, <2>9
  <2> HIDE DEF end
  <2> QED BY <1>4, <2>8, <2>9, <2>10
<1>7. \A j \in 0 .. n : \A i \in 0 .. j : end(i) \in Nat /\ end(j) \in Nat /\ end(i) <= end(j)
  <2> TAKE j \in 0 .. n
  <2> TAKE i \in 0 .. j
  <2>1. PICK packets \in Seq(Seq(Byte)) : packets = sent
    BY Zenon, <1>1
  <2>2. j \in 0 .. Len(packets)
    BY Zenon, <1>1, <2>1
  <2>3. \E a \in Nat, b \in Nat :
          /\ a = Len(FlattenSeq(SubSeq(packets, 1, i)))
          /\ b = Len(FlattenSeq(SubSeq(packets, 1, j)))
          /\ a <= b
    BY ZenonT(60), <2>2, FewerBytes
  <2> QED BY Zenon, <2>1, <2>3
<1> HIDE DEF end
<1>8. ASSUME NEW k \in 0 .. n, T(k) PROVE k = m
  <2>1. CASE k < m
    <3>1. m \in 0 .. n /\ k + 1 \in 0 .. m /\ k < n
      BY <1>1, <2>1
    <3>2. end(k + 1) \in Nat /\ end(k + 1) <= end(m)
      BY Zenon, <1>7, <3>1
    <3>3. end(k + 1) > received
      BY <1>8, <3>1
    <3> QED BY <1>4, <1>5, <3>2, <3>3
  <2>2. CASE k > m
    <3>1. m + 1 \in 0 .. k /\ m < n
      BY SMTT(40), <1>1, <2>2
    <3>2. end(m + 1) \in Nat /\ end(k) \in Nat /\ end(m + 1) <= end(k)
      BY Zenon, <1>7, <3>1
    <3>3. end(m + 1) > received /\ end(k) <= received
      BY <1>6, <1>8, <3>1
    <3> QED BY <1>4, <3>2, <3>3
  <2> QED BY <1>1, <2>1, <2>2
<1>9. m \in 0 .. n /\ T(m)
  <2>1. m \in 0 .. n /\ l <= received
    BY <1>1, <1>4
  <2> QED BY <1>5, <1>6, <2>1
<1>10. m = CHOOSE k \in 0 .. n : T(k)
  <2> HIDE DEF T
  <2> QED BY Zenon, <1>8, <1>9
<1>11. Complete = SubSeq(sent, 1, CHOOSE k \in 0 .. n : T(k))
  BY Zenon, <1>1 DEF Complete, end
<1> QED BY Zenon, <1>2, <1>10, <1>11

------------------------------------------------------------------------------
(***************************************************************************)
(* The reader, until a read begins with bytes left over: the packets that  *)
(* are there whole, those that follow, and what is there of the first of   *)
(* them.                                                                   *)
(***************************************************************************)
Position(whole, later, tail) ==
  /\ whole \in Seq(Sendable) /\ later \in Seq(Sendable) /\ tail \in Seq(Byte)
  /\ sent = whole \o later
  /\ SubSeq(Stream, 1, received) = FlattenSeq(whole) \o tail
  /\ Partial(later, tail)

Refused(whole, frames) ==
  \E good \in Seq(WellFormed), bad \in Sendable \ WellFormed, others \in Seq(Sendable) :
    whole = good \o (<<bad>> \o others) /\ frames = Frames(good)

Handled(whole, tail) ==
  \/ ~failed /\ whole \in Seq(WellFormed) /\ dispatched = Frames(whole) /\ buffer = tail
  \/ failed /\ Refused(whole, dispatched)

StreamInv ==
  /\ sent \in Seq(Sendable) /\ received \in 0 .. Len(Stream)
  /\ failed \in BOOLEAN /\ split \in BOOLEAN
  /\ ~split => \E whole, later, tail : Position(whole, later, tail) /\ Handled(whole, tail)

LEMMA NotEmpty ==
  ASSUME NEW S, NEW e \in S, NEW s \in Seq(S)
  PROVE  <<e>> \o s \in Seq(S) /\ <<e>> \o s # << >> /\ (<<e>> \o s)[1] = e
<1>1. PICK b \in Seq(S) : b = <<e>> \o s /\ Len(b) # 0 /\ b[1] = e
  <2>1. PICK a \in Seq(S) : a = <<e>> /\ Len(a) = 1 /\ a[1] = e
    <3>1. <<e>> \in Seq(S) /\ Len(<<e>>) = 1 /\ <<e>>[1] = e
      OBVIOUS
    <3> QED BY Zenon, <3>1
  <2>2. PICK b : b = a \o s
    OBVIOUS
  <2>3. b \in Seq(S) /\ Len(b) = 1 + Len(s) /\ Len(s) \in Nat
    BY <2>1, <2>2
  <2>4. b[1] = e
    BY <2>1, <2>2
  <2>5. Len(b) # 0
    BY <2>3
  <2> QED BY Zenon, <2>1, <2>2, <2>3, <2>4, <2>5
<1>2. Len(<<>>) = 0
  OBVIOUS
<1> QED BY Zenon, <1>1, <1>2

LEMMA MinIs ==
  ASSUME NEW T \in SUBSET Nat, NEW n \in T, \A m \in T : n <= m
  PROVE  Min(T) = n
<1>1. \A x \in T : (\A y \in T : x <= y) => x = n
  OBVIOUS
<1> QED BY Zenon, <1>1 DEF Min

LEMMA StreamExact ==
  ASSUME StreamOfFrames, StreamInv
  PROVE  ExactUntilSplit
<1> SUFFICES ASSUME ~split PROVE ExactUntilSplit
  BY Zenon DEF ExactUntilSplit
<1>1. PICK whole, later, tail : Position(whole, later, tail) /\ Handled(whole, tail)
  BY Zenon DEF StreamInv
<1>2. Complete = whole
  <2>1. whole \in Seq(Seq(Byte)) /\ later \in Seq(Seq(Byte)) /\ tail \in Seq(Byte)
    BY Zenon, <1>1, SendableBytes DEF Position
  <2> QED BY Zenon, <1>1, <2>1, CompleteIs DEF Position, StreamInv
<1> DEFINE bad == {i \in 1 .. Len(Complete) : Complete[i] \notin WellFormed}
           good == IF bad = {} THEN Complete ELSE SubSeq(Complete, 1, Min(bad) - 1)
<1>3. CASE ~failed
  <2>1. whole \in Seq(WellFormed) /\ dispatched = Frames(whole) /\ buffer = tail
    BY Zenon, <1>1, <1>3 DEF Handled
  <2>2. bad = {}
    <3>1. \A i \in 1 .. Len(whole) : whole[i] \in WellFormed
      BY <2>1
    <3> QED BY Zenon, <1>2, <3>1
  <2>3. good = whole
    BY Zenon, <1>2, <2>2
  <2>4. FlattenSeq(Complete) \o buffer = SubSeq(Stream, 1, received)
    BY Zenon, <1>1, <1>2, <2>1 DEF Position
  <2> HIDE DEF bad, good
  <2>5. dispatched = Frames(good) /\ (failed <=> bad # {})
        /\ (~failed => FlattenSeq(Complete) \o buffer = SubSeq(Stream, 1, received))
    BY Zenon, <1>3, <2>1, <2>2, <2>3, <2>4
  <2> QED BY Zenon, <2>5 DEF ExactUntilSplit, bad, good
<1>4. CASE failed
  <2>1. PICK a \in Seq(WellFormed), p \in Sendable \ WellFormed, others \in Seq(Sendable) :
          whole = a \o (<<p>> \o others) /\ dispatched = Frames(a)
    BY Zenon, <1>1, <1>4 DEF Handled, Refused
  <2>2. PICK b : b = <<p>> \o others /\ b # <<>> /\ b[1] = p /\ b \in Seq(Sendable)
    BY Zenon, <2>1, NotEmpty
  <2>3. a \in Seq(Sendable)
    BY DEF Sendable
  <2>4. SubSeq(whole, 1, Len(a)) = a /\ whole[Len(a) + 1] = p
    BY Zenon, <2>1, <2>2, <2>3, AroundJoin
  <2>5. PICK i \in Nat : i = Len(a) + 1 /\ i - 1 = Len(a) /\ i \in 1 .. Len(whole)
    BY <2>1, <2>2, <2>3
  <2>6. \A j \in 1 .. Len(a) : whole[j] \in WellFormed
    <3>1. \A j \in 1 .. Len(a) : whole[j] = a[j] /\ a[j] \in WellFormed
      BY <2>1, <2>2, <2>3
    <3> QED BY Zenon, <3>1
  <2>7. i \in bad /\ \A j \in bad : i <= j
    <3>1. i \in bad
      BY Zenon, <1>2, <2>1, <2>4, <2>5
    <3>2. \A j \in bad : j \in Nat /\ j \notin 1 .. Len(a) /\ j >= 1
      <4>1. \A j \in bad : j \in 1 .. Len(whole) /\ whole[j] \notin WellFormed
        BY Zenon, <1>2
      <4> HIDE DEF bad
      <4> QED BY <2>6, <4>1
    <3> HIDE DEF bad
    <3> QED BY <2>5, <3>1, <3>2
  <2>8. Min(bad) = i
    <3>1. bad \in SUBSET Nat
      OBVIOUS
    <3> HIDE DEF bad
    <3> QED BY Zenon, <2>7, <3>1, MinIs
  <2>9. bad # {}
    <3> HIDE DEF bad
    <3> QED BY <2>7
  <2>10. good = a
    <3> HIDE DEF bad
    <3> QED BY Zenon, <1>2, <2>4, <2>5, <2>8, <2>9
  <2> HIDE DEF bad, good
  <2>11. dispatched = Frames(good) /\ (failed <=> bad # {})
         /\ (~failed => FlattenSeq(Complete) \o buffer = SubSeq(Stream, 1, received))
    BY Zenon, <1>4, <2>1, <2>9, <2>10
  <2> QED BY Zenon, <2>11 DEF ExactUntilSplit, bad, good
<1> QED BY Zenon, <1>3, <1>4

LEMMA BytesShifted ==
  ASSUME NEW a \in Seq(Byte), NEW b \in Seq(Byte), NEW c \in Seq(Byte)
  PROVE  (a \o b) \o c = a \o (b \o c)
OBVIOUS

\* The bytes of some packets, of another one and what follows.
Follows(good, bad, data) ==
  \E z \in Seq(Byte), t \in Seq(Byte) : data = (FlattenSeq(good) \o (bad \o z)) \o t

\* The packets at the start of the window are handed over, and the length that
\* is out of range after them is reported.
LEMMA BadThenRest ==
  ASSUME StreamOfFrames, NEW good \in Seq(WellFormed), NEW bad \in RawPacket,
         NEW data \in Seq(Byte),
         Follows(good, bad, data)
  PROVE  parse(data).frames = Frames(good) /\ parse(data).status = "INVALID"
<1>1. PICK x : x \in Seq(Byte) /\ x = FlattenSeq(good)
  <2>1. good \in Seq(Sendable)
    BY DEF Sendable
  <2> QED BY Zenon, <2>1, SendableBytes
<1>2. PICK q : q \in Seq(Byte) /\ q = bad
  BY Zenon, BadPacket
<1>3. PICK z, t : /\ z \in Seq(Byte) /\ t \in Seq(Byte)
                   /\ data = (x \o (q \o z)) \o t
  BY Zenon, <1>1, <1>2 DEF Follows
<1>4. PICK e : e \in Seq(Byte) /\ e = q \o z
  BY Zenon, <1>2, <1>3, SeqJoin
<1>5. PICK y : y \in Seq(Byte) /\ y = z \o t
  BY Zenon, <1>3, SeqJoin
<1>6. PICK w : w \in Seq(Byte) /\ w = q \o y
  BY Zenon, <1>2, <1>5, SeqJoin
<1>7. (x \o e) \o t = x \o (e \o t)
  <2>1. x \in Seq(Byte) /\ e \in Seq(Byte) /\ t \in Seq(Byte)
    BY Zenon, <1>1, <1>3, <1>4
  <2> QED BY ZenonT(60), <2>1, BytesShifted
<1>8. (q \o z) \o t = q \o (z \o t)
  <2>1. q \in Seq(Byte) /\ z \in Seq(Byte) /\ t \in Seq(Byte)
    BY Zenon, <1>2, <1>3
  <2> QED BY ZenonT(60), <2>1, BytesShifted
<1>9. data = x \o w
  BY Zenon, <1>3, <1>4, <1>5, <1>6, <1>7, <1>8
<1>10. deserializePacketFrame(w) = [status |-> "INVALID"]
  BY Zenon, <1>2, <1>5, <1>6, BadPacket
<1>11. deserializePacketFrame(w).status = "INVALID"
  BY <1>10
<1>12. deserializePacketFrame(w).status # "OK"
  BY <1>11
<1>13. parse(data) = [frames |-> Frames(good),
                      status |-> deserializePacketFrame(w).status, left |-> Len(w)]
  BY Zenon, <1>1, <1>6, <1>9, <1>12, GoodThenRest
<1>14. parse(data).frames = Frames(good)
       /\ parse(data).status = deserializePacketFrame(w).status
  BY <1>13
<1> QED BY Zenon, <1>11, <1>14

\* What the loop makes of a read that begins with a packet.
LEMMA ParseCut ==
  ASSUME StreamOfFrames, NEW more \in Seq(Sendable), NEW rest \in Seq(Sendable),
         NEW tail \in Seq(Byte), Partial(rest, tail),
         NEW data \in Seq(Byte), data = FlattenSeq(more) \o tail
  PROVE  \/ /\ more \in Seq(WellFormed) /\ parse(data).frames = Frames(more)
            /\ parse(data).status = "INCOMPLETE" /\ parse(data).left = Len(tail)
         \/ Refused(more, parse(data).frames) /\ parse(data).status = "INVALID"
<1>1. CASE more \in Seq(WellFormed)
  <2>1. deserializePacketFrame(tail) = [status |-> "INCOMPLETE"]
    BY Zenon, NoFrameYet
  <2>2. deserializePacketFrame(tail).status = "INCOMPLETE"
    BY <2>1
  <2>3. deserializePacketFrame(tail).status # "OK"
    BY <2>2
  <2>4. parse(data) = [frames |-> Frames(more),
                       status |-> deserializePacketFrame(tail).status, left |-> Len(tail)]
    BY Zenon, <1>1, <2>3, GoodThenRest
  <2>5. /\ parse(data).frames = Frames(more) /\ parse(data).left = Len(tail)
        /\ parse(data).status = deserializePacketFrame(tail).status
    BY <2>4
  <2> QED BY Zenon, <1>1, <2>2, <2>5
<1>2. CASE more \notin Seq(WellFormed)
  <2>1. PICK good \in Seq(WellFormed), bad \in Sendable \ WellFormed, others \in Seq(Sendable) :
          more = good \o (<<bad>> \o others)
    <3>1. \/ more \in Seq(WellFormed)
          \/ \E good \in Seq(WellFormed), bad \in Sendable \ WellFormed, others \in Seq(Sendable) :
               more = good \o (<<bad>> \o others)
      BY Zenon, FirstOther
    <3> QED BY Zenon, <1>2, <3>1
  <2>2. bad \in RawPacket /\ bad \in Seq(Byte)
    <3>1. bad \in RawPacket
      BY Zenon, <2>1 DEF Sendable
    <3> QED BY Zenon, <3>1, BadPacket
  <2>3. PICK first \in Seq(Seq(Byte)), last \in Seq(Seq(Byte)), x \in Seq(Byte), z \in Seq(Byte) :
          /\ first = good /\ last = others /\ x = FlattenSeq(good) /\ z = FlattenSeq(others)
    <3>1. good \in Seq(Sendable)
      BY DEF Sendable
    <3> QED BY Zenon, <2>1, <3>1, SendableBytes
  <2>4. <<bad>> \in Seq(Seq(Byte)) /\ <<bad>> \o last \in Seq(Seq(Byte))
    <3>1. <<bad>> \in Seq(Seq(Byte))
      BY <2>2
    <3> QED BY Zenon, <2>3, <3>1, SeqJoin
  <2>5. FlattenSeq(more) = x \o (bad \o z)
    <3>1. FlattenSeq(first \o (<<bad>> \o last)) = FlattenSeq(first) \o FlattenSeq(<<bad>> \o last)
      BY Zenon, <2>3, <2>4, FlattenConcat
    <3>2. FlattenSeq(<<bad>> \o last) = FlattenSeq(<<bad>>) \o FlattenSeq(last)
      BY Zenon, <2>3, <2>4, FlattenConcat
    <3>3. FlattenSeq(<<bad>>) = bad
      BY Zenon, <2>2, FlattenOne
    <3> QED BY Zenon, <2>1, <2>3, <3>1, <3>2, <3>3
  <2>6. parse(data).frames = Frames(good) /\ parse(data).status = "INVALID"
    <3>1. data = (FlattenSeq(good) \o (bad \o z)) \o tail
      BY Zenon, <2>3, <2>5
    <3>2. Follows(good, bad, data)
      BY Zenon, <2>3, <3>1 DEF Follows
    <3> QED BY Zenon, <2>2, <3>2, BadThenRest
  <2> QED BY Zenon, <2>1, <2>6 DEF Refused
<1> QED BY Zenon, <1>1, <1>2

LEMMA StreamStart ==
  ASSUME StreamOfFrames, Init
  PROVE  StreamInv
<1>1. sent \in Seq(Sendable)
  <2>1. sent \in UNION {[1 .. m -> Sendable] : m \in 0 .. MaxPackets}
    BY Zenon DEF Init, SeqOf, Sendable
  <2>2. PICK m \in 0 .. MaxPackets : sent \in [1 .. m -> Sendable]
    BY Zenon, <2>1
  <2>3. m \in Nat
    BY <2>2, StreamAssumption
  <2> QED BY <2>2, <2>3
<1>2. Stream \in Seq(Byte)
  BY Zenon, <1>1, SendableBytes DEF Stream
<1>3. received = 0 /\ failed = FALSE /\ split = FALSE /\ dispatched = <<>> /\ buffer = <<>>
  BY Zenon DEF Init
<1>4. received \in 0 .. Len(Stream) /\ SubSeq(Stream, 1, received) = <<>>
  BY <1>2, <1>3
<1>5. Partial(sent, <<>>)
  <2>1. CASE sent = <<>>
    BY Zenon, <2>1 DEF Partial
  <2>2. CASE sent # <<>>
    <3>1. sent[1] \in Sendable
      BY <1>1, <2>2
    <3>2. PICK p \in Seq(Byte) : p = sent[1] /\ Len(p) >= 1
      BY Zenon, <3>1, GoodPacket, BadPacket DEF Sendable
    <3>3. 0 \in 0 .. Len(p) - 1 /\ SubSeq(p, 1, 0) = <<>>
      BY <3>2
    <3> QED BY Zenon, <2>2, <3>2, <3>3 DEF Partial
  <2> QED BY Zenon, <2>1, <2>2
<1>6. <<>> \in Seq(Sendable) /\ <<>> \in Seq(WellFormed) /\ <<>> \in Seq(Byte)
  OBVIOUS
<1>7. <<>> \o sent = sent
  BY Zenon, <1>1, SeqJoinEmpty
<1>8. FlattenSeq(<<>>) \o <<>> = <<>>
  BY Zenon, <1>6, FlattenEmpty, SeqJoinEmpty
<1>9. Position(<<>>, sent, <<>>)
  BY Zenon, <1>1, <1>4, <1>5, <1>6, <1>7, <1>8 DEF Position
<1>10. Handled(<<>>, <<>>)
  BY Zenon, <1>3, <1>6, FramesFew DEF Handled
<1>11. failed \in BOOLEAN /\ split \in BOOLEAN
  BY <1>3
<1> QED BY Zenon, <1>1, <1>4, <1>9, <1>10, <1>11 DEF StreamInv

LEMMA SeqWhole ==
  ASSUME NEW s \in Seq(Byte)
  PROVE  SubSeq(s, 1, Len(s)) = s
OBVIOUS

\* The next elements of the second of two sequences.
LEMMA NextRead ==
  ASSUME NEW a \in Seq(Byte), NEW b \in Seq(Byte), NEW n \in 0 .. Len(b)
  PROVE  /\ SubSeq(a \o b, Len(a) + 1, Len(a) + n) = SubSeq(b, 1, n)
         /\ SubSeq(a \o b, 1, Len(a) + n) = a \o SubSeq(b, 1, n)
         /\ SubSeq(b, 1, n) \in Seq(Byte)
<1>1. SubSeq(b, 1, n) \in Seq(Byte) /\ Len(SubSeq(b, 1, n)) = n
  BY Zenon, SeqCut
<1>2. SubSeq(a \o b, 1, Len(a) + n) = a \o SubSeq(b, 1, n)
  BY Zenon, SeqCutJoin
<1>3. PICK c : c = SubSeq(a \o b, Len(a) + 1, Len(a) + n)
  OBVIOUS
<1>4. c \in Seq(Byte) /\ Len(c) = n
  BY <1>3
<1>5. \A i \in 1 .. n : c[i] = SubSeq(b, 1, n)[i]
  BY <1>3
<1> QED BY Zenon, <1>1, <1>2, <1>3, <1>4, <1>5, SeqSame

LEMMA SendableShifted ==
  ASSUME NEW a \in Seq(Sendable), NEW b \in Seq(Sendable), NEW c \in Seq(Sendable)
  PROVE  (a \o b) \o c = a \o (b \o c)
OBVIOUS

\* A read of n bytes after the first packets cuts the packets that follow.
ReadsOn(whole, later, stream, start, n) ==
  \E more, rest, tail :
    /\ more \in Seq(Sendable) /\ rest \in Seq(Sendable) /\ tail \in Seq(Byte)
    /\ whole \o later = (whole \o more) \o rest
    /\ SubSeq(stream, 1, start + n) = FlattenSeq(whole \o more) \o tail
    /\ SubSeq(stream, start + 1, start + n) = FlattenSeq(more) \o tail
    /\ SubSeq(stream, start + 1, start + n) \in Seq(Byte)
    /\ Partial(rest, tail)

\* What a read that begins with a packet makes of the stream.
LEMMA ReadCut ==
  ASSUME StreamOfFrames, NEW whole \in Seq(Sendable), NEW later \in Seq(Sendable),
         NEW stream, stream = FlattenSeq(whole \o later),
         NEW start \in 0 .. Len(stream), SubSeq(stream, 1, start) = FlattenSeq(whole),
         NEW n \in Nat, start + n <= Len(stream)
  PROVE  ReadsOn(whole, later, stream, start, n)
<1>1. PICK x, z : /\ x \in Seq(Byte) /\ z \in Seq(Byte) /\ x = FlattenSeq(whole)
                  /\ z = FlattenSeq(later) /\ stream = x \o z
  <2>1. whole \in Seq(Seq(Byte)) /\ later \in Seq(Seq(Byte))
    BY Zenon, SendableBytes
  <2>2. /\ FlattenSeq(whole) \in Seq(Byte) /\ FlattenSeq(later) \in Seq(Byte)
        /\ FlattenSeq(whole \o later) = FlattenSeq(whole) \o FlattenSeq(later)
    BY Zenon, <2>1, FlattenConcat
  <2> QED BY Zenon, <2>2
<1>2. Len(x) = start /\ Len(z) \in Nat /\ start + Len(z) = Len(stream) /\ n \in 0 .. Len(z)
  <2>1. stream \in Seq(Byte) /\ Len(stream) = Len(x) + Len(z)
    BY Zenon, <1>1, SeqJoin
  <2>2. Len(SubSeq(stream, 1, start)) = start
    BY Zenon, <2>1, SeqCut
  <2>3. Len(x) = start
    BY Zenon, <1>1, <2>2
  <2>4. Len(z) \in Nat /\ start \in Nat /\ Len(stream) = start + Len(z)
    BY <1>1, <2>1, <2>3
  <2> QED BY <2>3, <2>4
<1>3. PICK more, rest, tail :
        /\ more \in Seq(Sendable) /\ rest \in Seq(Sendable) /\ tail \in Seq(Byte)
        /\ later = more \o rest
        /\ SubSeq(z, 1, n) = FlattenSeq(more) \o tail
        /\ Partial(rest, tail)
  <2>1. n \in 0 .. Len(FlattenSeq(later))
    BY Zenon, <1>1, <1>2
  <2>2. Cuts(later, SubSeq(FlattenSeq(later), 1, n))
    BY Zenon, <2>1, CutStream
  <2> QED BY Zenon, <1>1, <2>2 DEF Cuts
<1>4. whole \o later = (whole \o more) \o rest
  <2>1. more \in Seq(Sendable) /\ rest \in Seq(Sendable)
    BY Zenon, <1>3
  <2>2. (whole \o more) \o rest = whole \o (more \o rest)
    BY Zenon, <2>1, SendableShifted
  <2> QED BY Zenon, <1>3, <2>2
<1>5. /\ SubSeq(stream, start + 1, start + n) = SubSeq(z, 1, n)
      /\ SubSeq(stream, 1, start + n) = x \o SubSeq(z, 1, n)
      /\ SubSeq(z, 1, n) \in Seq(Byte)
  <2>1. /\ SubSeq(x \o z, Len(x) + 1, Len(x) + n) = SubSeq(z, 1, n)
        /\ SubSeq(x \o z, 1, Len(x) + n) = x \o SubSeq(z, 1, n)
        /\ SubSeq(z, 1, n) \in Seq(Byte)
    BY Zenon, <1>1, <1>2, NextRead
  <2> QED BY Zenon, <1>1, <1>2, <2>1
<1>6. PICK y : y \in Seq(Byte) /\ y = FlattenSeq(more)
  BY Zenon, <1>3, SendableBytes
<1>7. FlattenSeq(whole \o more) = x \o y
  <2>1. whole \in Seq(Seq(Byte)) /\ more \in Seq(Seq(Byte))
    BY Zenon, <1>3, SendableBytes
  <2> QED BY Zenon, <1>1, <1>6, <2>1, FlattenConcat
<1>8. (x \o y) \o tail = x \o (y \o tail)
  <2>1. x \in Seq(Byte) /\ y \in Seq(Byte) /\ tail \in Seq(Byte)
    BY Zenon, <1>1, <1>3, <1>6
  <2> QED BY Zenon, <2>1, BytesShifted
<1>9. /\ SubSeq(stream, 1, start + n) = FlattenSeq(whole \o more) \o tail
      /\ SubSeq(stream, start + 1, start + n) = FlattenSeq(more) \o tail
      /\ SubSeq(stream, start + 1, start + n) \in Seq(Byte)
  BY Zenon, <1>3, <1>5, <1>6, <1>7, <1>8
<1> QED BY Zenon, <1>3, <1>4, <1>9 DEF ReadsOn

\* Frames of packets that were not all well formed, and of the packets before.
LEMMA RefusedLater ==
  ASSUME NEW whole \in Seq(WellFormed), NEW more, NEW frames, Refused(more, frames)
  PROVE  Refused(whole \o more, Frames(whole) \o frames)
<1>1. PICK good, bad, others :
        /\ good \in Seq(WellFormed) /\ bad \in Sendable \ WellFormed /\ others \in Seq(Sendable)
        /\ more = good \o (<<bad>> \o others) /\ frames = Frames(good)
  BY Zenon DEF Refused
<1>2. /\ whole \in Seq(Sendable) /\ good \in Seq(Sendable)
      /\ <<bad>> \o others \in Seq(Sendable)
  <2>1. whole \in Seq(Sendable) /\ good \in Seq(Sendable)
    BY <1>1 DEF Sendable
  <2>2. bad \in Sendable
    BY Zenon, <1>1
  <2>3. <<bad>> \o others \in Seq(Sendable)
    BY Zenon, <1>1, <2>2, NotEmpty
  <2> QED BY Zenon, <2>1, <2>3
<1>3. whole \o good \in Seq(WellFormed)
  BY Zenon, <1>1, SeqJoin
<1>4. whole \o more = (whole \o good) \o (<<bad>> \o others)
  BY Zenon, <1>1, <1>2, SendableShifted
<1>5. Frames(whole \o good) = Frames(whole) \o frames
  <2>1. Frames(whole \o good) = Frames(whole) \o Frames(good)
    BY Zenon, <1>1, FramesJoin
  <2> QED BY Zenon, <1>1, <2>1
<1> QED BY Zenon, <1>1, <1>3, <1>4, <1>5 DEF Refused

\* A read of n bytes that begins with a packet.
LEMMA ReadExact ==
  ASSUME StreamOfFrames, StreamInv, NEW n \in Nat, Receive(n), ~split'
  PROVE  (\E whole, later, tail : Position(whole, later, tail) /\ Handled(whole, tail))'
<1>1. /\ ~failed /\ ~split /\ buffer = <<>>
      /\ received + n <= Len(Stream) /\ received' = received + n
      /\ sent' = sent /\ Stream' = Stream
      /\ onBytesReceived(SubSeq(Stream, received + 1, received + n))
  BY Zenon DEF Receive, Stream
<1>2. PICK whole, later :
        /\ whole \in Seq(WellFormed) /\ whole \in Seq(Sendable) /\ later \in Seq(Sendable)
        /\ sent = whole \o later /\ dispatched = Frames(whole)
        /\ SubSeq(Stream, 1, received) = FlattenSeq(whole)
  <2>1. PICK whole, later, tail : Position(whole, later, tail) /\ Handled(whole, tail)
    BY Zenon, <1>1 DEF StreamInv
  <2>2. whole \in Seq(WellFormed) /\ dispatched = Frames(whole) /\ tail = <<>>
    BY Zenon, <1>1, <2>1 DEF Handled
  <2>3. FlattenSeq(whole) \in Seq(Byte)
    BY Zenon, <2>1, SendableBytes DEF Position
  <2>4. FlattenSeq(whole) \o <<>> = FlattenSeq(whole)
    BY Zenon, <2>3, SeqJoinEmpty
  <2> QED BY Zenon, <2>1, <2>2, <2>4 DEF Position
<1>3. PICK stream, start : stream = Stream /\ start = received /\ start \in 0 .. Len(stream)
  BY Zenon DEF StreamInv
<1>4. stream = FlattenSeq(whole \o later) /\ SubSeq(stream, 1, start) = FlattenSeq(whole)
      /\ start + n <= Len(stream)
  BY Zenon, <1>1, <1>2, <1>3 DEF Stream
<1>5. PICK more, rest, tail, data :
        /\ more \in Seq(Sendable) /\ rest \in Seq(Sendable) /\ tail \in Seq(Byte)
        /\ whole \o later = (whole \o more) \o rest
        /\ SubSeq(stream, 1, start + n) = FlattenSeq(whole \o more) \o tail
        /\ data = SubSeq(stream, start + 1, start + n)
        /\ data = FlattenSeq(more) \o tail /\ data \in Seq(Byte)
        /\ Partial(rest, tail)
  <2>1. ReadsOn(whole, later, stream, start, n)
    BY Zenon, <1>2, <1>3, <1>4, ReadCut
  <2> QED BY Zenon, <2>1 DEF ReadsOn
<1>6. /\ <<>> \o data = data /\ Window(data, Len(data)) = data
  <2>1. <<>> \o data = data
    BY Zenon, <1>5, SeqJoinEmpty
  <2>2. data \in Seq(Byte)
    BY Zenon, <1>5
  <2>3. SubSeq(data, 1, Len(data)) = data
    BY Zenon, <2>2, SeqWhole
  <2> QED BY Zenon, <2>1, <2>3 DEF Window
<1>7. /\ dispatched' = Frames(whole) \o parse(data).frames
      /\ buffer' = IF parse(data).status = "INCOMPLETE"
                   THEN SubSeq(data, Len(data) - parse(data).left + 1, Len(data))
                   ELSE data
      /\ failed' = (failed \/ parse(data).status = "INVALID")
  BY Zenon, <1>1, <1>2, <1>3, <1>5, <1>6 DEF onBytesReceived
<1>8. Position(whole \o more, rest, tail)'
  <2>1. whole \o more \in Seq(Sendable)
    BY Zenon, <1>2, <1>5, SeqJoin
  <2>2. sent' = (whole \o more) \o rest
    BY Zenon, <1>1, <1>2, <1>5
  <2>3. SubSeq(Stream', 1, received') = FlattenSeq(whole \o more) \o tail
    BY Zenon, <1>1, <1>3, <1>5
  <2> QED BY Zenon, <1>5, <2>1, <2>2, <2>3 DEF Position
<1>9. Handled(whole \o more, tail)'
  <2>1. \/ /\ more \in Seq(WellFormed) /\ parse(data).frames = Frames(more)
           /\ parse(data).status = "INCOMPLETE" /\ parse(data).left = Len(tail)
        \/ Refused(more, parse(data).frames) /\ parse(data).status = "INVALID"
    BY Zenon, <1>5, ParseCut
  <2>2. CASE /\ more \in Seq(WellFormed) /\ parse(data).frames = Frames(more)
             /\ parse(data).status = "INCOMPLETE" /\ parse(data).left = Len(tail)
    <3>1. whole \o more \in Seq(WellFormed)
      BY Zenon, <1>2, <2>2, SeqJoin
    <3>2. Frames(whole \o more) = Frames(whole) \o Frames(more)
      BY Zenon, <1>2, <2>2, FramesJoin
    <3>3. buffer' = tail
      <4>1. buffer' = SubSeq(data, Len(data) - Len(tail) + 1, Len(data))
        BY Zenon, <1>7, <2>2
      <4>2. PICK y : y \in Seq(Byte) /\ y = FlattenSeq(more)
        BY Zenon, <1>5, SendableBytes
      <4>3. Len(y \o tail) = Len(y) + Len(tail)
            /\ SubSeq(y \o tail, Len(y) + 1, Len(y \o tail)) = tail
        BY Zenon, <1>5, <4>2, Concatenated
      <4>4. Len(data) - Len(tail) = Len(y)
        <5>1. Len(y) \in Nat /\ Len(tail) \in Nat
          BY <1>5, <4>2
        <5>2. Len(data) = Len(y) + Len(tail)
          BY Zenon, <1>5, <4>2, <4>3
        <5> QED BY <5>1, <5>2
      <4> QED BY Zenon, <1>5, <4>1, <4>2, <4>3, <4>4
    <3>4. ~failed'
      <4>1. parse(data).status # "INVALID"
        BY <2>2
      <4> QED BY Zenon, <1>1, <1>7, <4>1
    <3> QED BY Zenon, <1>7, <2>2, <3>1, <3>2, <3>3, <3>4 DEF Handled
  <2>3. CASE Refused(more, parse(data).frames) /\ parse(data).status = "INVALID"
    <3>1. Refused(whole \o more, Frames(whole) \o parse(data).frames)
      BY Zenon, <1>2, <2>3, RefusedLater
    <3>2. Refused(whole \o more, dispatched')
      BY Zenon, <1>7, <3>1
    <3>3. failed'
      BY Zenon, <1>7, <2>3
    <3> QED BY Zenon, <3>2, <3>3 DEF Handled, Refused
  <2> QED BY Zenon, <2>1, <2>2, <2>3
<1> QED BY Zenon, <1>8, <1>9

LEMMA StreamStep ==
  ASSUME StreamOfFrames, StreamInv, [Next]_vars
  PROVE  StreamInv'
<1>1. CASE UNCHANGED vars
  <2>1. /\ sent' = sent /\ received' = received /\ buffer' = buffer
        /\ dispatched' = dispatched /\ failed' = failed /\ split' = split
    BY Zenon, <1>1 DEF vars
  <2>2. Stream' = Stream
    BY Zenon, <2>1 DEF Stream
  <2>3. (\E whole, later, tail : Position(whole, later, tail) /\ Handled(whole, tail))'
          <=> (\E whole, later, tail : Position(whole, later, tail) /\ Handled(whole, tail))
    BY Zenon, <2>1, <2>2 DEF Position, Handled
  <2> QED BY Zenon, <2>1, <2>2, <2>3 DEF StreamInv
<1>2. CASE Next
  <2>1. PICK n \in 1 .. Len(Stream) : Receive(n)
    BY Zenon, <1>2 DEF Next
  <2>2. n \in Nat
    BY <2>1
  <2>3. /\ sent' = sent /\ Stream' = Stream
        /\ received' = received + n /\ received + n <= Len(Stream)
    BY Zenon, <2>1 DEF Receive, Stream
  <2>4. received' \in 0 .. Len(Stream)
    <3>1. received \in 0 .. Len(Stream)
      BY Zenon DEF StreamInv
    <3> QED BY <2>2, <2>3, <3>1
  <2>5. failed' \in BOOLEAN /\ split' \in BOOLEAN
    BY <2>1 DEF Receive, onBytesReceived
  <2>6. ~split' =>
          (\E whole, later, tail : Position(whole, later, tail) /\ Handled(whole, tail))'
    BY Zenon, <2>1, <2>2, ReadExact
  <2> QED BY Zenon, <2>3, <2>4, <2>5, <2>6 DEF StreamInv
<1> QED BY Zenon, <1>1, <1>2

(***************************************************************************)
(* Whatever packets clients that keep to the format send, with lengths out *)
(* of range among them, and wherever the reads cut the stream: until a     *)
(* read begins with bytes left over, exactly the complete packets are      *)
(* handled, in order, the rest of the last one is kept, and the first      *)
(* length out of range, and nothing else, is reported.  The packets of     *)
(* MCShort, too short for their id, are not among them: the run of         *)
(* WholePacketConsumed shows what becomes of those.                        *)
(***************************************************************************)
THEOREM ReaderCorrect ==
  ASSUME StreamOfFrames
  PROVE  Spec => []ExactUntilSplit
<1>1. Init => StreamInv
  BY Zenon, StreamStart
<1>2. StreamInv /\ [Next]_vars => StreamInv'
  BY Zenon, StreamStep
<1>3. StreamInv => ExactUntilSplit
  BY Zenon, StreamExact
<1> QED BY <1>1, <1>2, <1>3, PTL DEF Spec

==============================================================================
