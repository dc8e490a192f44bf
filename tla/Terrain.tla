-------------------------------- MODULE Terrain --------------------------------
(***************************************************************************)
(* The blocks of the world on top of the sessions: digging                 *)
(* (StateMachine::onPacket, PlayerDigging), the generation of chunks, the  *)
(* chunks sent to the clients and the block changes announced to them.     *)
(*                                                                         *)
(* Every action is a StateMachine action together with what it does to the *)
(* blocks.  The generated terrain is the same everywhere; what is kept is  *)
(* which blocks were dug.  A client digs a block in its own terrain before *)
(* it tells the server (the server never sends it the change).             *)
(***************************************************************************)
EXTENDS StateMachine

CONSTANTS Site,   \* chunks in which players dig
          Block   \* places of a block within a chunk

ASSUME SiteAssumption == Site \subseteq ChunkCoord

VARIABLES
  dug,     \* the blocks of GlobalState::chunks that are air now
  copy,    \* copy[m]: the blocks the client of m shows as air
  missed   \* missed[m]: blocks dug where the change was not sent to m

terrainVars == <<dug, copy, missed>>
allVars == <<vars, terrainVars>>

Location == Site \X Block
ChunkOf(location) == location[1]
In(locations, region) == {b \in locations : ChunkOf(b) \in region}

TerrainInit ==
  /\ Init
  /\ dug = {}
  /\ copy = [m \in Machine |-> {}]
  /\ missed = [m \in Machine |-> {}]
------------------------------------------------------------------------------
\* A mutant of generated: every chunk sent is generated anew.
generatedAlways(sent) == sent

\* The chunks of sent that are generated: those that were never sent before.
generated(sent) == sent \ chunks

\* The chunks in sent go to the client of m as they are on the server, those
\* in unloaded are dropped.
sendChunks(m, unloaded, sent) ==
  LET kept(locations) == locations \ In(locations, unloaded \cup sent)
  IN /\ dug' = dug \ In(dug, generated(sent))
     /\ copy' = [copy EXCEPT ![m] = kept(@) \cup In(dug', sent)]
     /\ missed' = [missed EXCEPT ![m] = kept(@)]

SettingsBeforePlay(m, requested) ==
  LET new == Clamp(requested)
  IN /\ ClientSettingsInit(m, requested)
     /\ sendChunks(m, Shrunk(m, new), Grown(m, new) \cup Square(chunk[m], new))

SettingsInPlay(m, requested) ==
  LET new == Clamp(requested)
  IN /\ ClientSettings(m, requested)
     /\ sendChunks(m, Shrunk(m, new), Grown(m, new))

\* A mutant of transition: the chunks of the old square are sent.
transitionBackwards(m, to) ==
  LET from == Square(chunk[m], viewDistance[m])
      target == Square(to, viewDistance[m])
  IN sendChunks(m, target \ from, from \ target)

\* The chunks onChunkTransition unloads and sends.
transition(m, to) ==
  LET from == Square(chunk[m], viewDistance[m])
      target == Square(to, viewDistance[m])
  IN sendChunks(m, from \ target, target \ from)

Walk(m, to) == Move(m, to) /\ transition(m, to)
------------------------------------------------------------------------------
\* A mutant of audience: those who stand in the digger's chunk.
audienceMembers(m, b) == members(membership, chunk[m]) \ {m}

\* Who is sent the BlockChange: broadcastLocally goes by the chunk of the
\* digger, not by that of the block.
audience(m, b) == subscribers(subscriptions, chunk[m]) \ {m}

\* p is not told of a block of its terrain that m digs: it is not playing
\* yet, or m stands out of its view.
Misses(p, m, b) ==
  /\ p # m
  /\ ChunkOf(b) \in loaded[p]
  /\ ~ (phase[p] = "PLAY" /\ chunk[m] \in Square(chunk[p], viewDistance[p]))

\* A block is dug; the distance from the player is not checked.
Dig(m, b) ==
  /\ broadcastLocally(m)
  /\ ChunkOf(b) \in chunks
  /\ b \notin dug
  /\ dug' = dug \cup {b}
  /\ copy' = [p \in Machine |->
                IF p \in audience(m, b) \cup {m} /\ ChunkOf(b) \in loaded[p]
                THEN copy[p] \cup {b} ELSE copy[p]]
  /\ missed' = [p \in Machine |->
                  IF Misses(p, m, b) THEN missed[p] \cup {b} ELSE missed[p]]

\* The block is air already: the server says nothing.
DigAir(m, b) ==
  /\ Running(m, "PLAY")
  /\ b \in dug
  /\ ChunkOf(b) \in loaded[m]
  /\ copy' = [copy EXCEPT ![m] = @ \cup {b}]
  /\ UNCHANGED <<vars, dug, missed>>

\* The chunk was never generated: the client is disconnected.
DigNowhere(m, b) ==
  /\ Running(m, "PLAY")
  /\ ChunkOf(b) \notin chunks
  /\ Reject(m)
  /\ UNCHANGED terrainVars

\* The end of a session takes the client's terrain with it.
End(m) ==
  /\ onClientDisconnected(m)
  /\ copy' = [copy EXCEPT ![m] = {}]
  /\ missed' = [missed EXCEPT ![m] = {}]
  /\ UNCHANGED dug

\* The other handlers send no chunks and no block changes.
Elsewhere(m) ==
  /\ \/ onClientConnected(m)
     \/ Handshake(m)
     \/ \E name \in Name : LoginStart(m, name)
     \/ LoginRejected(m)
     \/ PlayInitRejected(m)
     \/ \E id \in 0 .. MaxTeleportId + 1 : TeleportConfirm(m, id)
     \/ broadcastLocally(m)
     \/ Chat(m)
     \/ PlayRejected(m)
     \/ Status(m)
     \/ Timeout(m)
  /\ UNCHANGED terrainVars

TerrainNext ==
  \E m \in Machine :
    \/ \E requested \in RequestedViewDistance :
         SettingsBeforePlay(m, requested) \/ SettingsInPlay(m, requested)
    \/ \E to \in Position : Walk(m, to)
    \/ \E b \in Location : Dig(m, b) \/ DigAir(m, b) \/ DigNowhere(m, b)
    \/ End(m)
    \/ Elsewhere(m)

TerrainSpec == TerrainInit /\ [][TerrainNext]_allVars
------------------------------------------------------------------------------
(***************************************************************************)
(* What a client shows of a chunk it holds is what the server has, except  *)
(* for the blocks that were dug before the client was in PLAY (between the *)
(* chunk it was sent and its teleport confirmation nobody tells it) or by  *)
(* a player out of its view.  Sending the chunk again repairs either.      *)
(***************************************************************************)
TerrainFresh ==
  \A m \in Machine :
    Steady(m) => In(dug, loaded[m]) \ missed[m] \subseteq copy[m]

(***************************************************************************)
(* No client shows a hole where the server has a block: a dug block stays  *)
(* dug for everyone who sees the chunk later, because a chunk is generated *)
(* only once, whoever walks up to it.                                      *)
(***************************************************************************)
NoFalseHoles == \A m \in Machine : copy[m] \subseteq dug

\* The chunks around coord.
Near(coord) == Square(coord, 1)

(***************************************************************************)
(* The audience of a block change is chosen by the digger's chunk          *)
(* (statemachine.cpp:557), but within reach (6 blocks, the distance the    *)
(* handler prints a message about) that only matters at the edge: whoever  *)
(* holds the block's chunk, and has a view that goes beyond it, is told,   *)
(* wherever the digger stands around the block and whoever else plays.     *)
(***************************************************************************)
ToldInside ==
  [][\A m, p \in Machine, b \in dug' \ dug :
       /\ Dig(m, b)
       /\ ChunkOf(b) \in Near(chunk[m])
       /\ phase[p] = "PLAY" /\ Steady(p)
       /\ ChunkOf(b) \in loaded[p]
       /\ ChunkOf(b) \in Square(chunk[p], viewDistance[p] - 1)
       => b \in copy'[p]]_allVars

==============================================================================
