------------------------------ MODULE Structures ------------------------------
(***************************************************************************)
(* The fields of the packets to the client that are more than plain        *)
(* values: entity metadata (proxyd/entitymetadata.hpp), named binary tags  *)
(* (proxyd/nbt.cpp), the player list (PacketPlayerInfo in                  *)
(* proxyd/packets.hpp), arrays, and the chunks that sendChunk of           *)
(* proxyd/statemachine.cpp builds from them.  None of these is ever read   *)
(* by the proxy.                                                           *)
(***************************************************************************)
EXTENDS Fields

\* A number as an integer of n bytes, most significant byte first.
BigEndian(value, n) == [i \in 1 .. n |-> (value \div 256 ^ (n - i)) % 256]

\* A sequence of things, each written by op.
Each(op(_), things) == FlattenSeq([i \in DOMAIN things |-> op(things[i])])

\* PACKET_FIELD_ARRAY and the arrays of the player list: the number of
\* elements, then the elements, each already in bytes.
serializeArray(elements) == encodeVarInt(Len(elements)) \o FlattenSeq(elements)

\* The destroyed entities' ids.
serializeDestroyEntities(ids) ==
  serializeArray([i \in DOMAIN ids |-> encodeVarInt(ids[i])])
------------------------------------------------------------------------------
\* EntityMetadataType, those that are implemented; any other throws.
EntityMetadataType == [BYTE |-> 0, VARINT |-> 1, FLOAT |-> 2, BOOL |-> 7, POSE |-> 18]

serializeMetadataEntry(entry) ==
  <<entry.index>> \o encodeVarInt(EntityMetadataType[entry.type]) \o
    CASE entry.type \in {"BYTE", "FLOAT"} -> serializeInt(entry.value)
      [] entry.type \in {"VARINT", "POSE"} -> encodeVarInt(entry.value)
      [] entry.type = "BOOL" -> serializeBool(entry.value)

MetadataEnd == <<255>>

serializeEntityMetadata(meta) == Each(serializeMetadataEntry, meta) \o MetadataEnd
------------------------------------------------------------------------------
NbtType == [BYTE |-> 1, SHORT |-> 2, INT |-> 3, LONG |-> 4, FLOAT |-> 5,
            DOUBLE |-> 6, BYTE_ARRAY |-> 7, STRING |-> 8, LIST |-> 9,
            COMPOUND |-> 10, INT_ARRAY |-> 11, LONG_ARRAY |-> 12]

CompoundEnd == <<0>>

RECURSIVE serializeNbtValue(_, _), serializeNbt(_)

\* The length of a name or a string has two bytes, that of an array four.
serializeNbtValue(type, value) ==
  CASE type \in {"BYTE", "SHORT", "INT", "LONG", "FLOAT", "DOUBLE"} ->
         serializeInt(value)
    [] type = "STRING" -> BigEndian(Len(value), 2) \o value
    [] type = "BYTE_ARRAY" -> BigEndian(Len(value), 4) \o value
    [] type \in {"INT_ARRAY", "LONG_ARRAY"} ->
         BigEndian(Len(value), 4) \o Each(serializeInt, value)
    [] type = "LIST" ->
         <<NbtType[value.type]>> \o BigEndian(Len(value.values), 4)
           \o Each(LAMBDA elem : serializeNbtValue(value.type, elem), value.values)
    [] type = "COMPOUND" -> Each(serializeNbt, value) \o CompoundEnd

serializeNbt(tag) ==
  <<NbtType[tag.type]>> \o BigEndian(Len(tag.name), 2) \o tag.name
    \o serializeNbtValue(tag.type, tag.value)
------------------------------------------------------------------------------
\* PacketPlayerInfo::Action
Action == [ADD_PLAYER |-> 0, UPDATE_GAMEMODE |-> 1, UPDATE_LATENCY |-> 2,
           UPDATE_DISPLAYNAME |-> 3, REMOVE_PLAYER |-> 4]

\* A flag, and the string when there is one; opt has at most one element.
serializeOptional(opt) == serializeBool(opt # <<>>) \o Each(serializeString, opt)

serializeProperty(prop) ==
  serializeString(prop.name) \o serializeString(prop.value)
    \o serializeOptional(prop.signature)

serializeUpdate(action, update) ==
  CASE action = "ADD_PLAYER" ->
         serializeString(update.name)
           \o serializeArray([i \in DOMAIN update.properties |->
                               serializeProperty(update.properties[i])])
           \o encodeVarInt(update.gameMode) \o encodeVarInt(update.ping)
           \o serializeOptional(update.displayName)
    [] action = "UPDATE_GAMEMODE" -> encodeVarInt(update.gameMode)
    [] action = "UPDATE_LATENCY" -> encodeVarInt(update.ping)
    [] action = "UPDATE_DISPLAYNAME" -> serializeOptional(update.displayName)
    [] action = "REMOVE_PLAYER" -> <<>>

serializePlayerInfo(info) ==
  LET entry(e) == serializeUuid(e.uuid) \o serializeUpdate(info.action, e.update)
      entries == [i \in DOMAIN info.entries |-> entry(info.entries[i])]
  IN encodeVarInt(Action[info.action]) \o serializeArray(entries)
------------------------------------------------------------------------------
CONSTANTS LongsPerSection,  \* the longs of a packed section, 896 in the code
          HeightmapLongs,   \* the longs of the packed heights, 36 in the code
          Biomes            \* the biome ids of a chunk, 256 in the code

\* The indices of the sections that exist, from the bottom up.
Present(sections) == SelectSeq([i \in 1 .. 16 |-> i - 1], LAMBDA i : i \in DOMAIN sections)

\* A mutant of primaryBitmask: the number of sections is sent.
primaryBitmaskCount(sections) == Cardinality(DOMAIN sections)

\* A bit for every section that exists.
primaryBitmask(sections) == FoldSet(LAMBDA i, mask : mask + 2 ^ i, 0, DOMAIN sections)

\* The block count, the bits per block and the packed blocks, all the same
\* here: section is the long they consist of.
serializeSection(section) ==
  BigEndian(4096, 2) \o <<14>> \o encodeVarInt(LongsPerSection)
    \o Each(serializeInt, [i \in 1 .. LongsPerSection |-> section])

\* PacketChunkData as sendChunk fills it: the chunk's sections are a function
\* on the indices of those that exist, its heights one long repeated.
serializeChunkData(chunk) ==
  LET heightmap == [type |-> "LONG_ARRAY", name |-> <<77>>,
                    value |-> [i \in 1 .. HeightmapLongs |-> chunk.heights]]
      section(i) == serializeSection(chunk.sections[i])
      data == Each(section, Present(chunk.sections))
                \o Each(LAMBDA i : BigEndian(0, 4), [i \in 1 .. Biomes |-> i])
  IN serializeInt(chunk.x) \o serializeInt(chunk.z) \o serializeBool(TRUE)
       \o encodeVarInt(primaryBitmask(chunk.sections))
       \o serializeNbt([type |-> "COMPOUND", name |-> <<>>, value |-> <<heightmap>>])
       \o serializeString(data)
       \o serializeArray(<<>>)

==============================================================================
