-------------------------------- MODULE Fields --------------------------------
(***************************************************************************)
(* The payload of a packet: the fields of proxyd/packets.def, written by   *)
(* proxyd/serialize.hpp and read by proxyd/deserialize.hpp through the     *)
(* macros of proxyd/packets.hpp.                                           *)
(*                                                                         *)
(* A buffer is a sequence of bytes.  The value of a fixed-width integer, a *)
(* float or a uuid is the sequence of its bytes in memory, on the          *)
(* little-endian machines the proxy runs on.                               *)
(***************************************************************************)
EXTENDS VarInt, SequencesExt

\* sizeof(T) of the fields that are copied byte for byte.
Width == [int8 |-> 1, int16 |-> 2, int32 |-> 4, int64 |-> 8,
          float32 |-> 4, float64 |-> 8]

\* packets.def, the packets from the client.  A uint is an int here: neither
\* direction looks at the sign.
Serverbound == [
  Handshake              |-> <<"varint", "string", "int16", "varint">>,
  LoginStart             |-> <<"string">>,
  TeleportConfirm        |-> <<"varint">>,
  ChatClient             |-> <<"string">>,
  ClientSettings         |-> <<"string", "int8", "varint", "bool", "int8", "varint">>,
  CloseWindowClient      |-> <<"int8">>,
  PluginMessageClient    |-> <<"string", "tail">>,
  InteractEntity         |-> <<"varint", "varint", "tail">>,
  KeepAliveClient        |-> <<"int64">>,
  PlayerPosition         |-> <<"float64", "float64", "float64", "bool">>,
  PlayerPositionRotation |-> <<"float64", "float64", "float64", "float32", "float32", "bool">>,
  PlayerRotation         |-> <<"float32", "float32", "bool">>,
  PlayerMovement         |-> <<"bool">>,
  PlayerAbilitiesClient  |-> <<"int8", "float32", "float32">>,
  PlayerDigging          |-> <<"varint", "int64", "int8">>,
  EntityAction           |-> <<"varint", "varint", "varint">>,
  HeldItemChangeClient   |-> <<"int16">>,
  AnimationClient        |-> <<"varint">>,
  UseItem                |-> <<"varint">>]

\* packets.def, the packets to the client that are lists of plain fields.
Clientbound == [
  DisconnectLogin          |-> <<"string">>,
  LoginSuccess             |-> <<"string", "string">>,
  EntityAnimation          |-> <<"varint", "int8">>,
  BlockChange              |-> <<"int64", "varint">>,
  ChatServer               |-> <<"string", "int8">>,
  PluginMessageServer      |-> <<"string", "tail">>,
  Disconnect               |-> <<"string">>,
  UnloadChunk              |-> <<"int32", "int32">>,
  KeepAliveServer          |-> <<"int64">>,
  JoinGame                 |-> <<"int32", "int8", "int32", "int8", "string", "varint", "bool">>,
  EntityMove               |-> <<"varint", "int16", "int16", "int16", "bool">>,
  EntityMoveRotation       |-> <<"varint", "int16", "int16", "int16", "int8", "int8", "bool">>,
  EntityRotation           |-> <<"varint", "int8", "int8", "bool">>,
  PlayerAbilitiesServer    |-> <<"int8", "float32", "float32">>,
  PlayerPositionLookServer |-> <<"float64", "float64", "float64", "float32", "float32", "int8", "varint">>,
  EntityHeadLook           |-> <<"varint", "int8">>,
  HeldItemChangeServer     |-> <<"int8">>,
  UpdateViewPosition       |-> <<"varint", "varint">>,
  SpawnPosition            |-> <<"int64">>,
  EntityTeleport           |-> <<"varint", "float64", "float64", "float64", "int8", "int8", "bool">>]

\* SpawnPlayer up to its metadata (Structures.tla).
SpawnPlayerHead == <<"varint", "uuid", "float64", "float64", "float64", "int8", "int8">>
------------------------------------------------------------------------------
\* serializeInt and serializeFloat: most significant byte first.
serializeInt(bytes) == Reverse(bytes)
serializeBool(value) == IF value THEN <<1>> ELSE <<0>>
serializeString(str) == encodeVarInt(Len(str)) \o str

\* serializeUuid: the last eight bytes as an integer, then the first eight.
serializeUuid(uuid) ==
  serializeInt(SubSeq(uuid, 9, 16)) \o serializeInt(SubSeq(uuid, 1, 8))

serializeField(kind, value) ==
  CASE kind \in DOMAIN Width -> serializeInt(value)
    [] kind = "bool" -> serializeBool(value)
    [] kind = "varint" -> encodeVarInt(value)
    [] kind = "string" -> serializeString(value)
    [] kind = "uuid" -> serializeUuid(value)
    [] kind = "tail" -> value

\* serializePacketPayload
serializePacketPayload(format, values) ==
  FlattenSeq([i \in DOMAIN format |-> serializeField(format[i], values[i])])
------------------------------------------------------------------------------
\* What a deserializer returns: the status, and for "OK" the value and the
\* bytes it moved the buffer on by.
OK(value, size) == [status |-> "OK", value |-> value, size |-> size]
Error(status) == [status |-> status]

\* deserializeBytes: the next n bytes.
deserializeBytes(buf, n) ==
  IF Len(buf) < n THEN Error("INCOMPLETE") ELSE OK(SubSeq(buf, 1, n), n)

\* A mutant of toNative: the bytes are taken as they come.
toNativeAsIs(bytes) == bytes

\* big_to_native
toNative(bytes) == Reverse(bytes)

\* deserializeInt and deserializeFloat
deserializeInt(buf, n) ==
  LET bytes == deserializeBytes(buf, n)
  IN IF bytes.status # "OK" THEN bytes ELSE OK(toNative(bytes.value), n)

\* A mutant of isBool: every byte is a bool.
isBoolAny(byte) == TRUE

isBool(byte) == byte <= 1

deserializeBool(buf) ==
  LET val == deserializeInt(buf, 1)
  IN CASE val.status # "OK" -> val
       [] val.status = "OK" /\ ~isBool(val.value[1]) -> Error("INVALID")
       [] OTHER -> OK(val.value[1] # 0, 1)

deserializeString(buf) ==
  LET length == deserializeVarInt(buf)
      str == deserializeBytes(SubSeq(buf, length.size + 1, Len(buf)), length.value)
  IN CASE length.status # "OK" -> length
       [] length.status = "OK" /\ length.value < 0 -> Error("INVALID")
       [] OTHER ->
            IF str.status # "OK" THEN str ELSE OK(str.value, length.size + str.size)

deserializeUuid(buf) ==
  LET hi == deserializeInt(buf, 8)
      lo == deserializeInt(SubSeq(buf, 9, Len(buf)), 8)
  IN CASE hi.status # "OK" -> hi
       [] hi.status = "OK" /\ lo.status # "OK" -> lo
       [] OTHER -> OK(lo.value \o hi.value, 16)

deserializeField(kind, buf) ==
  CASE kind \in DOMAIN Width -> deserializeInt(buf, Width[kind])
    [] kind = "bool" -> deserializeBool(buf)
    [] kind = "varint" -> deserializeVarInt(buf)
    [] kind = "string" -> deserializeString(buf)
    [] kind = "uuid" -> deserializeUuid(buf)
    [] kind = "tail" -> OK(buf, Len(buf))   \* deserializeImplicitTailBytes

\* A mutant of isEnd: what follows the last field is dropped.
isEndAlways(rest) == TRUE

\* PACKET_END: the payload ends with its last field.
isEnd(rest) == rest = <<>>

\* The next field of a payload is read, unless one before it was refused.
readField(state, kind) ==
  LET field == deserializeField(kind, state.rest)
  IN IF ~state.ok \/ field.status # "OK" THEN [state EXCEPT !.ok = FALSE]
     ELSE [ok |-> TRUE,
           values |-> Append(state.values, field.value),
           rest |-> SubSeq(state.rest, field.size + 1, Len(state.rest))]

\* deserializePacketPayload: whether the packet is accepted, and its values.
deserializePacketPayload(format, buf) ==
  LET start == [ok |-> TRUE, values |-> <<>>, rest |-> buf]
      last == FoldLeft(readField, start, format)
  IN [ok |-> last.ok /\ isEnd(last.rest), values |-> last.values]

==============================================================================
