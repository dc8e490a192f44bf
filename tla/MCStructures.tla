----------------------------- MODULE MCStructures -----------------------------
(***************************************************************************)
(* Structures on samples of every kind: every type of metadata and tag,    *)
(* every action of the player list, empty and nested collections, and      *)
(* values that contain the bytes of an end marker or of a length.          *)
(***************************************************************************)
EXTENDS Structures

Word(n) == {[i \in 1 .. n |-> 0], [i \in 1 .. n |-> i]}
Chars == {<<>>, <<0>>, <<0, 0>>}

\* The samples of a kind are a function to sets: TLC cannot compare the values
\* of different types with each other, but it can their bytes.
MetadataValue == [BYTE |-> Word(1), FLOAT |-> Word(4), BOOL |-> BOOLEAN,
                  VARINT |-> {0, 5, 255}, POSE |-> {0, 5}]
MetaType == DOMAIN MetadataValue
Entries(type) == [index : {0, 6}, type : {type}, value : MetadataValue[type]]
Metadata ==
  [types \in {<<>>} \cup {<<t>> : t \in MetaType} \cup (MetaType \X MetaType) |->
     CASE Len(types) = 0 -> {<<>>}
       [] Len(types) = 1 -> {<<a>> : a \in Entries(types[1])}
       [] Len(types) = 2 -> {<<a, b>> : a \in Entries(types[1]), b \in Entries(types[2])}]

NbtValue == [
  BYTE |-> Word(1), SHORT |-> Word(2), INT |-> Word(4), LONG |-> Word(8),
  FLOAT |-> Word(4), DOUBLE |-> Word(8), STRING |-> Chars, BYTE_ARRAY |-> Chars,
  INT_ARRAY |-> SeqOf(Word(4), 2), LONG_ARRAY |-> SeqOf(Word(8), 1),
  LIST |-> [type : {"BYTE"}, values : SeqOf(Word(1), 2)]
             \cup [type : {"SHORT"}, values : SeqOf(Word(2), 2)],
  COMPOUND |-> {<<>>}]
Tags(type) == [type : {type}, name : {<<>>, <<0>>}, value : NbtValue[type]]
Compound(tags) == [type |-> "COMPOUND", name |-> <<>>, value |-> tags]
ListOf(tags) == [type |-> "LIST", name |-> <<>>,
                 value |-> [type |-> "COMPOUND", values |-> tags]]
Empty == Compound(<<>>)
Tag ==
  [p \in {"flat", "one", "two", "nested", "listed"} \X DOMAIN NbtValue |->
     LET shape(t) ==
           CASE p[1] = "flat" -> t
             [] p[1] = "one" -> Compound(<<t>>)
             [] p[1] = "two" -> Compound(<<t, Empty>>)
             [] p[1] = "nested" -> Compound(<<Empty, Compound(<<t>>)>>)
             [] p[1] = "listed" -> ListOf(<<<<>>, <<t>>>>)
     IN {shape(t) : t \in Tags(p[2])}]

Optional(values) == SeqOf(values, 1)
Property == [name : {<<1>>}, value : {<<>>, <<1>>}, signature : Optional({<<>>, <<1>>})]
Update(action) ==
  CASE action = "ADD_PLAYER" ->
         [name : {<<>>, <<65>>}, properties : Optional(Property), gameMode : {1},
          ping : {0, 1}, displayName : Optional({<<>>, <<1>>})]
    [] action = "UPDATE_GAMEMODE" -> [gameMode : {0, 1, 128}]
    [] action = "UPDATE_LATENCY" -> [ping : {0, 1, 128}]
    [] action = "UPDATE_DISPLAYNAME" -> [displayName : Optional({<<>>, <<1>>})]
    [] action = "REMOVE_PLAYER" -> {<<>>}
PlayerInfo ==
  [action \in DOMAIN Action |->
     [action : {action},
      entries : SeqOf([uuid : Word(16), update : Update(action)],
                      IF action = "ADD_PLAYER" THEN 1 ELSE 2)]]

Chunk ==
  [s \in SUBSET {0, 1, 15} |->
     [x : Word(4), z : Word(4), heights : Word(8), sections : [s -> Word(8)]]]

Destroyed == [n \in 0 .. 3 |-> [1 .. n -> {0, 1, 128}]]

Encodings(encode(_), samples) == {encode(x) : x \in samples}

\* What is sent, by kind, in bytes.
Encoded == [
  metadata   |-> UNION {Encodings(serializeEntityMetadata, Metadata[i]) : i \in DOMAIN Metadata},
  nbt        |-> UNION {Encodings(serializeNbt, Tag[i]) : i \in DOMAIN Tag},
  playerInfo |-> UNION {Encodings(serializePlayerInfo, PlayerInfo[i]) : i \in DOMAIN PlayerInfo},
  chunk      |-> UNION {Encodings(serializeChunkData, Chunk[i]) : i \in DOMAIN Chunk},
  destroyed  |-> UNION {Encodings(serializeDestroyEntities, Destroyed[i]) : i \in DOMAIN Destroyed}]

\* How many structures they stand for.
Number(samples) == MapThenSumSet(LAMBDA i : Cardinality(samples[i]), DOMAIN samples)
Sent == [metadata |-> Number(Metadata), nbt |-> Number(Tag),
         playerInfo |-> Number(PlayerInfo), chunk |-> Number(Chunk),
         destroyed |-> Number(Destroyed)]

VARIABLES kind, bytes

StructureInit == kind = "none" /\ bytes = <<>>

\* A structure of some kind is sent.
StructureNext ==
  \E k \in DOMAIN Encoded :
    /\ kind = "none"
    /\ kind' = k
    /\ bytes' \in Encoded[k]

structureVars == <<kind, bytes>>

------------------------------------------------------------------------------
(***************************************************************************)
(* Nothing tells a client how long a structure is: it must find the end,   *)
(* and every value, from the bytes alone.  Two structures of a kind never  *)
(* have the same bytes, nor does one begin with the other: the marker of   *)
(* entitymetadata.hpp:90 is not mistaken for an index; the end of a        *)
(* compound, the lengths of names and arrays and the element type of a     *)
(* list keep nested tags apart (nbt.cpp); counts and flags keep the        *)
(* entries of the player list and their optional strings apart; the bit    *)
(* mask of a chunk and the sections that follow it belong together.        *)
(***************************************************************************)
Decodable ==
  kind # "none" =>
    /\ Cardinality(Encoded[kind]) = Sent[kind]
    /\ \A other \in Encoded[kind] \ {bytes} : ~IsPrefix(bytes, other)

==============================================================================
