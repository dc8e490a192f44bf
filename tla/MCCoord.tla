-------------------------------- MODULE MCCoord --------------------------------
(***************************************************************************)
(* Coord for an entity that walks along an axis over several chunks on     *)
(* both sides of 0.                                                        *)
(***************************************************************************)
EXTENDS Coord

CONSTANTS MaxEntity,  \* bound: how far an entity goes, in parts of a block
          Stride      \* bound: how far it goes in one step

\* A chunk at most.
ASSUME StrideAssumption == Stride \in Nat /\ Stride <= 16 * BlockParts

VARIABLE entity

CoordInit == entity = 0

CoordNext ==
  \E d \in -Stride .. Stride :
    /\ entity + d \in -MaxEntity .. MaxEntity
    /\ entity' = entity + d
------------------------------------------------------------------------------
\* The block and the chunk an entity's coordinate lies in.
TrueBlock == entity \div BlockParts
TrueChunk == TrueBlock \div ChunkBlocks

\* The last block before a chunk boundary on the negative side, without the
\* boundary between it and the block before.
JustBelow ==
  /\ entity < 0
  /\ entity % BlockParts # 0
  /\ (TrueBlock + 1) % ChunkBlocks = 0

(***************************************************************************)
(* The chunk a player counts for (membership, audience, view) is the one   *)
(* it stands in, but for the last block below a boundary on the negative   *)
(* side, where coord.hpp:85 rounds towards zero: there it is the next      *)
(* chunk, and never one further away.                                      *)
(***************************************************************************)
ChunkExact ==
  EntityToChunk(entity) = IF JustBelow THEN TrueChunk + 1 ELSE TrueChunk

(***************************************************************************)
(* Walking one way never makes a player change chunk the other way, and    *)
(* a step of at most a chunk leads at most to the next one, across 0     *)
(* too: transitions follow the walk.                                       *)
(***************************************************************************)
ChunkMonotone ==
  [][/\ entity' >= entity => EntityToChunk(entity') >= EntityToChunk(entity)
     /\ EntityToChunk(entity') - EntityToChunk(entity) \in -1 .. 1]_entity

==============================================================================
