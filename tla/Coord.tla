---------------------------------- MODULE Coord ----------------------------------
(***************************************************************************)
(* The casts between the coordinates of entities, blocks and chunks        *)
(* (common/coord.hpp) and the regions of chunks that a transition          *)
(* exchanges (StateMachine::onChunkTransition).                            *)
(*                                                                         *)
(* The casts treat every axis alike: they are given for one.  An entity's  *)
(* coordinate is a Float64, here a number of BlockParts-ths of a block.    *)
(***************************************************************************)
EXTENDS Integers

CONSTANT BlockParts   \* the parts of a block an entity's coordinate tells apart

ASSUME PartsAssumption == BlockParts \in Nat \ {0}

ChunkBlocks == 16   \* CHUNK_BLOCKS_XZ

\* A mutant of ashr4: zeros are shifted in.
ashr4Logical(n) == (IF n < 0 THEN 2 ^ 28 ELSE 0) + n \div ChunkBlocks

\* ashr4(n, CHUNK_BLOCKS_XZ_BITS): rounds down.
ashr4(n) == n \div ChunkBlocks

BlockToChunk(n) == ashr4(n)
ChunkToBlock(c) == c * ChunkBlocks
BlockToInner(n) == n % ChunkBlocks   \* n & 0xF, also of a negative n
BlockToEntity(n) == n * BlockParts

\* A mutant of EntityToBlock: rounds down.
EntityToBlockFloor(e) == e \div BlockParts

\* EntityCoord to BlockCoord: the conversion to an Int32 drops the fraction.
EntityToBlock(e) == IF e >= 0 THEN e \div BlockParts ELSE -((-e) \div BlockParts)

EntityToChunk(e) == BlockToChunk(EntityToBlock(e))
------------------------------------------------------------------------------
\* withinOrdered
within(p, min, max) ==
  /\ min[1] <= p[1] /\ p[1] <= max[1]
  /\ min[2] <= p[2] /\ p[2] <= max[2]

\* The chunks around coord that are not within the view around other: those
\* a transition removes, or adds with the two exchanged.
Exchanged(coord, other, vd) ==
  LET around == {<<coord[1] + i, coord[2] + j>> : i \in -vd .. vd, j \in -vd .. vd}
  IN {p \in around : ~ within(p, <<other[1] - vd, other[2] - vd>>,
                                 <<other[1] + vd, other[2] + vd>>)}

==============================================================================
