------------------------------- MODULE Framing -------------------------------
(***************************************************************************)
(* The framing of packets (proxyd/framing.hpp): a packet is its length,    *)
(* its id and its data, the first two as variable-length integers.         *)
(***************************************************************************)
EXTENDS VarInt

MaxLengthValue == 1019   \* INCOMING_PACKET_MAX_LENGTH_VALUE

\* serializePacket: the bytes of a packet, its length first.
serializePacket(frame) ==
  LET body == encodeVarInt(frame.id) \o frame.data
  IN encodeVarInt(Len(body)) \o body

\* A mutant of frameSize: the length is taken to include itself.
frameSizeInclusive(length, header) == length

\* The bytes of a packet on the wire, from its length and the length's bytes.
frameSize(length, header) == length + header

\* deserializePacketFrame at the start of buf: the status, and for "OK" the
\* frame and the bytes consumed.  A length that leaves no room for the id is
\* reported as incomplete, like one whose bytes are still to come.
deserializePacketFrame(buf) ==
  LET length == deserializeVarInt(buf)
      size == frameSize(length.value, length.size)
      body == SubSeq(buf, length.size + 1, size)
      id == deserializeVarInt(body)
  IN CASE length.status # "OK" -> [status |-> length.status]
       [] length.status = "OK" /\ length.value \notin 0 .. MaxLengthValue ->
            [status |-> "INVALID"]
       [] length.status = "OK" /\ length.value \in 0 .. MaxLengthValue ->
            CASE size > Len(buf) -> [status |-> "INCOMPLETE"]
              [] size <= Len(buf) /\ id.status # "OK" -> [status |-> id.status]
              [] size <= Len(buf) /\ id.status = "OK" ->
                   [status |-> "OK",
                    size |-> size,
                    frame |-> [id |-> id.value,
                               data |-> SubSeq(body, id.size + 1, Len(body))]]

==============================================================================
