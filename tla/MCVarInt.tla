------------------------------- MODULE MCVarInt -------------------------------
(***************************************************************************)
(* VarInt on the values where a bit is gained or lost: the powers of two   *)
(* with their neighbours, and their negatives.                             *)
(***************************************************************************)
EXTENDS VarInt

VARIABLE value

Power == {2 ^ k : k \in 0 .. 30}
Magnitude == {0, 2147483647} \cup Power \cup {p + 1 : p \in Power}
               \cup {p - 1 : p \in Power}
Value == Magnitude \cup {-m : m \in Magnitude} \cup {-2147483647 - 1}

VarIntInit == value = 0
VarIntNext == value = 0 /\ value' \in Value

(***************************************************************************)
(* Every Int32 the proxy encodes is decoded to itself, from exactly the    *)
(* bytes written and whatever follows them: wireSizeVarInt32's table, the  *)
(* groups of encodeVarInt32 and the shifts of deserializeVarInt, sign      *)
(* included, agree.                                                        *)
(***************************************************************************)
RoundTrip ==
  LET bytes == encodeVarInt(value)
  IN \A rest \in {<<>>, <<0>>, <<255>>} :
       deserializeVarInt(bytes \o rest)
         = [status |-> "OK", value |-> value, size |-> Len(bytes)]

(***************************************************************************)
(* A number that is cut off anywhere is reported as incomplete, never as   *)
(* invalid and never as a shorter number, which would disconnect a client  *)
(* or misread its stream when a read ends inside a number.                 *)
(***************************************************************************)
CutIsIncomplete ==
  LET bytes == encodeVarInt(value)
  IN \A n \in 0 .. Len(bytes) - 1 :
       deserializeVarInt(SubSeq(bytes, 1, n)) = [status |-> "INCOMPLETE"]

==============================================================================
