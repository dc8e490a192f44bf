------------------------------- MODULE MCFields -------------------------------
(***************************************************************************)
(* Payloads of every packet of Fields, sent whole, cut short or with a     *)
(* byte too many, and payloads of arbitrary bytes.                         *)
(***************************************************************************)
EXTENDS Fields

Format ==
  [name \in DOMAIN Serverbound \cup DOMAIN Clientbound \cup {"SpawnPlayerHead"} |->
     CASE name \in DOMAIN Serverbound -> Serverbound[name]
       [] name \in DOMAIN Clientbound -> Clientbound[name]
       [] OTHER -> SpawnPlayerHead]

String == {<<>>, <<65, 255>>, [i \in 1 .. 128 |-> 65]}
Bytes(n) == {[i \in 1 .. n |-> i], [i \in 1 .. n |-> 0]}

Sample(kind) ==
  CASE kind \in DOMAIN Width -> Bytes(Width[kind])
    [] kind = "bool" -> BOOLEAN
    [] kind = "varint" -> {0, 128, -1}
    [] kind = "string" -> String
    [] kind = "tail" -> {<<>>, <<1, 128>>}
    [] kind = "uuid" -> Bytes(16)

\* Bytes of arbitrary payloads, and how many: the limits of a bool and of a
\* varint's groups.
Odd == {0, 1, 2, 127, 128, 255}
MaxOdd == 4

VARIABLES
  packet,      \* the packet's name
  sentFields,  \* its fields as they were sent, <<>> when the bytes are arbitrary
  buf,         \* the payload as it arrives
  mangled      \* "unsent", "no", "cut", "surplus" or "odd"

fieldVars == <<packet, sentFields, buf, mangled>>

\* All the fields a packet is sent with.
Payloads(format) ==
  FoldLeft(LAMBDA vs, kind : {Append(v, x) : v \in vs, x \in Sample(kind)},
           {<<>>}, format)

FieldInit ==
  /\ packet = "Handshake"
  /\ sentFields = <<>>
  /\ buf = <<>>
  /\ mangled = "unsent"

Pick ==
  /\ mangled = "unsent"
  /\ packet' \in DOMAIN Format
  /\ mangled' = "odd"
  /\ UNCHANGED <<sentFields, buf>>

Send ==
  /\ buf = <<>> /\ mangled = "odd"
  /\ sentFields' \in Payloads(Format[packet])
  /\ buf' = serializePacketPayload(Format[packet], sentFields')
  /\ mangled' = "no"
  /\ UNCHANGED packet

Cut ==
  /\ mangled = "no"
  /\ \E n \in 0 .. Len(buf) - 1 : buf' = SubSeq(buf, 1, n)
  /\ mangled' = "cut"
  /\ UNCHANGED <<packet, sentFields>>

Lengthen ==
  /\ mangled = "no"
  /\ \E byte \in {0, 1} : buf' = Append(buf, byte)
  /\ mangled' = "surplus"
  /\ UNCHANGED <<packet, sentFields>>

SendOdd ==
  /\ mangled = "odd" /\ Len(buf) < MaxOdd
  /\ \E byte \in Odd : buf' = Append(buf, byte)
  /\ UNCHANGED <<packet, sentFields, mangled>>

FieldNext == Pick \/ Send \/ Cut \/ Lengthen \/ SendOdd

Received == deserializePacketPayload(Format[packet], buf)
------------------------------------------------------------------------------
(***************************************************************************)
(* A payload that arrives whole is accepted, with the values it was sent   *)
(* with: byte order, the two halves of a uuid, the lengths of strings and  *)
(* the order of the fields agree between serialize.hpp and                 *)
(* deserialize.hpp for every packet of packets.def.                        *)
(***************************************************************************)
PayloadRoundTrip ==
  mangled = "no" => Received.ok /\ Received.values = sentFields

(***************************************************************************)
(* A payload cut anywhere or with a byte too many is refused, and no field *)
(* is made up from what is missing.  A packet that ends in tail bytes      *)
(* cannot tell where those end; its other fields are the right ones.       *)
(***************************************************************************)
OnlyWholePayloads ==
  mangled \in {"cut", "surplus"} /\ Received.ok =>
    /\ Last(Format[packet]) = "tail"
    /\ Front(Received.values) = Front(sentFields)

\* Some number is written with a last group that is empty.
Overlong(bytes) ==
  \E i \in 2 .. Len(bytes) : bytes[i] = 0 /\ bytes[i - 1] >= 128

(***************************************************************************)
(* Of arbitrary bytes (too short to hold a number of five groups, whose    *)
(* high bits are dropped) only those are accepted that some client sends   *)
(* for the values read, and those with a number longer than it need be:    *)
(* two different payloads never mean the same packet otherwise.            *)
(***************************************************************************)
CanonicalPayload ==
  mangled = "odd" /\ Received.ok =>
    \/ serializePacketPayload(Format[packet], Received.values) = buf
    \/ Overlong(buf)

==============================================================================
