# Vitamine in TLA+

Vitamine is a small game server in C++: `proxyd` accepts Minecraft clients,
logs them in, shows them a generated world and shows them each other. This
directory holds TLA+ models of it, the TLC configurations that check them on
small instances and the theorems proved about them with TLAPS. Line numbers
refer to the sources; `statemachine.cpp` is `source/proxyd/statemachine.cpp`
and so on.

## The system

`main.cpp` runs one `io_service` on one thread. Every handler (a posted
operation, the completion of an accept, a read or a write, the tick) runs to
its end before the next one starts. The mutexes and atomics in the code are
therefore never contended, and **a handler is the unit of atomicity**: one
action in the models.

| Component | State | Operations | Hard behaviour | Modules |
|---|---|---|---|---|
| TCP server (`tcpserver.cpp`) | per connection: socket, disconnect marker, two write queues, the `shared_ptr`s that keep it alive | accept, read, write, `send`, `disconnect` | sends and disconnects posted while a write is in flight, failing writes, clients that stall or leave, reuse of descriptors | `Connection`, `TcpServer` |
| Packet reader (`packetreader.hpp`, `framing.hpp`) | `_readBuffer` | `onBytesReceived`, `deserializePacketFrame`, `serializePacket` | packets cut anywhere by reads, lengths at their limits | `Framing`, `PacketReader` |
| Primitive codecs (`serialize.hpp`, `deserialize.hpp`) | none | integers, strings, bools, uuids, both ways | group boundaries, the sign, truncation, byte order | `VarInt`, `Fields` |
| Packet definitions (`packets.def`, `packets.hpp`) | none | every packet as a list of fields | payloads too short or too long | `Fields`, `Structures` |
| Proxy server (`proxyserver.hpp`) | connection to `StateMachine`, the tick timer | connect, data, disconnect, tick | the end of a session in any phase, a late tick | `StateMachine`, `KeepAlive` |
| Sessions (`statemachine.*`) | phase, name, entity id, settings, position, teleports, activities, time stamps | one handler per packet and phase, `onTick`, the destructor | packets in any order, raw pointers that outlive a session, a field that is not initialised | `StateMachine`, `Terrain`, `Appearance`, `Motion`, `Requests`, `KeepAlive` |
| Global state (`globalstate.hpp`, `chunk.hpp`) | `players`, `chunks`, entity ids | used by every session | shared by all sessions | `StateMachine`, `Terrain` |
| Player tracker (`playertracker.hpp`) | members and subscribers of every chunk | enter, leave, move, subscribe, `updateViewDistance` | incremental updates that must add up | `PlayerTracker` |
| Chunk encoding (`bitpack.hpp`, `nbt.*`, `sendChunk`) | none | bit packing, binary tags, the ChunkData packet | hand-written shifts, end markers | `Bits`, `Structures` |
| Coordinates (`coord.hpp`, `vector.hpp`, `types.hpp`) | none | casts, regions, packed positions | negative values | `Coord`, `Bits` |
| Entity metadata (`entitymetadata.hpp`) | none | entries and their end | end markers | `Structures`, `Appearance` |
| Clock (`clockmonotonic.hpp`) | | | | `KeepAlive` |

How they interact: the TCP server calls `onClientConnected`,
`onDataReceived` and `onClientDisconnected`; the proxy server constructs a
session per connection, feeds its packet reader and erases it at the end; the
reader calls `onPacket`; a session reads and changes the global state and sends
packets to its own connection and, through `players` and the tracker, to other
sessions' connections; `send` and `disconnect` go back to the TCP server, which
posts them.

What makes the components correct: a connection delivers what was sent, in
order, and a disconnect lets it out first; a descriptor is closed once, by its
owner; the reader hands on the packets that were sent; what is written is what
is read; the tracker knows where every player is and subscribes it to the square
around it; a client holds the terrain it gets updates for and shows the players
that are in view, where they are and doing what they do; every list of players
is complete and free of ghosts; the end of a session leaves no pointer to it, but
for reasons that can be named; a client that answers is not timed out and a silent one is.

## Modules

```
PlayerTracker <- StateMachine <- Terrain       (blocks)
                              <- Appearance    (crouching, sprinting)
Connection <=== TcpServer                      (implements)
VarInt <- Framing <- PacketReader
       <- Fields <- Structures
                 <- Requests
Bits   Coord   Motion   KeepAlive

MCWire    = VarInt + PacketReader + Fields + Structures + Bits
MCSession = KeepAlive + Requests + Motion + Coord
```

`<-` is EXTENDS. The packets of a session act on different parts of the state.
`StateMachine` has what the sessions share. `Terrain` and `Appearance` conjoin
to its actions what they do to the blocks and to the looks, so they compose the
sessions with one more piece of shared state each. What concerns one session
only has a model of its own.

### PlayerTracker

`_membership` and `_subscriptions` map a chunk to a set of players. The model
keeps the same relations from the player's side, functions from a player to a
set of chunks, which is what the properties speak of. `enter`, `leave`, `move`,
`resubscribe` (the `unsubscribe` and `subscribe` of a transition) and
`updateViewDistance` are action fragments, composed by `StateMachine`. `Beyond`
is the region both loops of `updateViewDistance` visit, with the code's
comparison of `dx` and `dz` instead of their absolute values.

### StateMachine

`Machine` is a set of **addresses**. A session is constructed at a free address
and freed again, and a later one may be constructed at the same address, so
stale pointers in `players` and in the tracker refer to whatever lives there.
`Use(S)` is the use of the pointers in `S`: when one of them is dangling, the
behaviour is undefined and the model lets the process crash or carry on.

| Variable | Code |
|---|---|
| `phase` | `_phase`, or `"FREE"` when nothing lives at the address |
| `closing` | `disconnect()` was called; the connection ends later |
| `username`, `entityId`, `viewDistance`, `nextTeleportId`, `outstanding` | `PlayerState` |
| `chunk` | the chunk of `PlayerState::position` |
| `nextEntityId`, `players`, `chunks` | `GlobalState` |
| `membership`, `subscriptions` | the tracker |
| `tab`, `known`, `loaded` | what the client shows: the fold of the PlayerInfo, SpawnPlayer and DestroyEntities, ChunkData and UnloadChunk packets sent to it |
| `history`, `untold`, `abandoned` | ghosts the properties use, see below |
| `crashed` | the process died |

The ghosts name what the code does not do, so that the properties can say that
nothing else is wrong. `history[m]` has what happened to the machine at `m`, and
what is left at the address after its end: the address was subscribed when the
machine was constructed (`stale`), its view distance changed (`resized`), it
entered on a teleport id nobody sent (`unconfirmed`), a machine there ended in
PLAY_INIT (`early`), another player of its name left (`delisted`). `untold[m]` are
the entities that its own moves brought into or out of its view, which the mover
is not told of, until each crosses the border of the view itself. `abandoned` are
the names of the sessions that ended in PLAY_INIT.

There is an action for every packet and phase that changes any of it
(`Handshake`, `LoginStart`, `ClientSettingsInit`, `TeleportConfirm`,
`ClientSettings`, `Move`, `Chat`, `broadcastLocally`), one for the rejections
of each phase, `Timeout` for the tick and `onClientConnected` and
`onClientDisconnected` for the proxy server. Packets that are read and dropped
are no steps. `disconnect` only records the request: the code goes on handling
the packets of the same read, and so does the model. (The model lets a closing
session handle any number of packets, interleaved with others; the code stops
after the read in progress and those already queued. The extra behaviours are
harmless to safety properties that hold.) A position is abstracted to its
chunk; a move within the chunk is a `broadcastLocally`.

### Terrain

`dug` are the blocks that are air in `GlobalState::chunks`; the generated
terrain is the same everywhere and not written out. `copy[m]` is what the client
of `m` shows as air, the fold of the ChunkData and BlockChange packets and of its
own digging (a client digs in its own terrain before it tells the server).
`missed[m]`, a ghost, has the blocks dug where nobody told `m`, so that
`TerrainFresh` can say that nothing else is stale. `Dig` announces the block to
the subscribers of the digger's chunk, as the code does, not of the block's.

### Appearance

`doing` is `_playerState.crouching` and `.sprinting`; `shown[p][e]` is what the
client of `p` shows of the entity `e`, the fold of SpawnPlayer (flags, no pose)
and EntityMetadata (both). Entities are told apart by id, as on the wire, so a
reused address is no excuse for a stale look.

### Motion

One player and one client that has it in view: `position` and `yaw` of the
session, `shown`, `angle` and `head` of the client. `createMovePacket` cuts a
move to whole 4096ths of a block, `Fine` parts of which are told apart, and to 16
bits, or teleports; `PlayerRotation` and `onMove` send body and head in packets
of their own. `moves` counts the relative moves since the last teleport.

### KeepAlive

`now` is the clock in seconds, `due` when the tick timer expires. `tick` is the
timer's handler: it times out and sends keep-alives as `onTick` does, for every
session at once, and arms the timer again. The handler may run up to `Lateness`
after it is due. A client is `prompt` (its answers are handled within `Delay`) or
not; a prompt one may send nothing else at all.

### Requests

The packets that concern their own session only, each with the check the
handler makes. `Judge(allowed, granted)` records whether the client broke the
protocol (`lawful`) and whether the handler disconnected it (`closing`).

### TcpServer and Connection

`posted` is the strand, `append` and `active` the two write queues, `marker`
the disconnect marker, `fd` what the socket holds and `owner` what the kernel
has open. Packets are numbered as `send` takes them. An object dies when no
handler holds it any more (`Held`), and its destructor closes the socket
(`Finish`, part of every handler that drops a reference). The proxy may send
and disconnect at any time while it knows the connection. A client may stall or
go away at any time, and writes to one that went may fail. `written` takes all of
the active queue at once: `async_write` completes when everything is written. A
connection whose options cannot be set is dropped, and an accept that fails, for
want of a descriptor or for any other reason, ends the process (`down`), as the
code's exception does. (Only `operation_aborted` does not, and nobody closes the
acceptor.)

`Connection` is the abstract specification: what `IConnection` and
`IConnectionHandler` promise, without queues, markers or descriptors. The client
gets a growing prefix of what was sent; a connection the client stays on ends
only when the proxy asked, and not before what was sent up to then is delivered;
the end is reported once. `TcpServer!ImplementsConnection` is the refinement:
`socket` is open while `fd` holds a descriptor, `sent` is `accepted`, `received`
is `wire`, `left` is a client that closed or reset its end.

### VarInt, Fields, Structures, Bits, Framing, PacketReader

`VarInt` has the two tables of the encoder and the loop of the decoder on bytes,
32 bits wide; all of its arithmetic stays inside the 32-bit integers of TLC.
`Fields` has `packets.def` as lists of fields and the writers and readers of each
kind of field; a payload is read field by field and must be used up. `Structures`
has what only goes to the client: metadata, binary tags, the player list,
arrays, chunks: encoders only, since nothing in the program reads these. So
`MCStructures` compares what is written with itself: different samples are written
as different bytes, and none begins with all the bytes of another (`Decodable`), which
is what a reader, whatever it looks like, needs to know where a list ends. `Bits` has a machine word as the set of the numbers of its 1-bits, so
that a union of shifts is what the code's `|` and `<<` are.

`Framing` has a packet in bytes and `deserializePacketFrame`, which takes one from
the start of a buffer. A stream (`PacketReader`) is a sequence of packets in bytes, built with the
code's encoder, with arbitrary byte strings among them where a run asks for it. A
read takes any number of the next bytes. `onBytesReceived` is translated as it
stands, with the window (`Window`) the code looks at and the bytes it keeps; its loop
is the recursive function in `parse`, from the place in the window where a round begins.

### Coord

The casts between entity, block and chunk coordinates, on one axis, and
`Exchanged`, the region a chunk transition adds or removes. Rounding is the
code's: an entity's coordinate is cut towards zero, a block's is shifted.

### MC modules

`MCStateMachine`, `MCTerrain`, `MCAppearance`, `MCMotion` and `MCRequests` give
the constants of the runs. `MCVarInt`, `MCPacketReader`, `MCFields`,
`MCStructures`, `MCBits` and `MCCoord` also have the small state machine that
walks through the values, and the properties about them. `MCWire` and
`MCSession` put several independent models into one run: the variable `part` says
which of them a behaviour is about, and the others rest. Their state spaces add
up, they do not multiply.

## Runs

| Run (configuration) | What it shows | Bounds |
|---|---|---|
| `observer` | types; the tracker's members are exactly the players in PLAY; a player shows exactly the players in its view, but for those its own moves brought in or out | two addresses, three logins (so addresses are reused), three chunks in a row, of which the outer two see the middle one but not each other |
| `view` | the subscription is the square of the view distance; a confirmed player holds the chunks it is subscribed to; the server has the chunks a client holds | one address used twice, two distances (growing and shrinking), a diagonal step and back, uninitialised distances within and above the limits |
| `registry` | player lists are complete and have no ghosts; which pointers outlive their session, and that the process dies of no others | two addresses, two names that may collide, three logins, two distances and an uninitialised one, all at one chunk |
| `terrain` | a client shows the server's blocks but for those it was not told of, for two named reasons; no client shows a hole that is none; who holds the block's chunk inside its view is told of a block dug within reach | two addresses, two logins, distance 2, a row of three chunks whose outer two do not see each other, a block to dig in two chunks: one both players may see, one at the edge of it |
| `appearance` | flags are always those of the player; the pose is, but for one named case | two addresses, two logins, a chunk in view and one out of it |
| `connections` | no packet is lost or reordered; a close is graceful; descriptors have one owner; a fresh connection is not closed by an old one's disconnect; `TcpServer` implements `Connection`; a disconnect completes and gives the descriptor back | two connections that compete for one descriptor number, two packets each, two operations posted at a time |
| `session` | keep-alives and timeouts; who is disconnected for a request; where other clients show a player; which chunk it counts for | one session and 24 seconds with the code's 10, 5 and 1; values at, within and beyond every limit; moves of less than a unit and beyond 16 bits; 80 blocks around 0 |
| `wire` | what is written is what is read, what is cut is incomplete, what is too long is refused | the powers of two, their neighbours and their negatives; streams of up to three packets cut in every way; all fields with two or three values each, arbitrary payloads of up to four bytes; every single bit of the bit packings |

Why the bounds are enough: the interactions of sessions are pairwise (one acts,
the other is told), and a reused address needs one login more than there are
addresses; the two logins of `terrain` and `appearance` are of two players or of
one address twice. A view distance of 1 and 2 has the inner, the edge and the outer
chunks the loops distinguish. The second write queue needs two packets, and a
disconnect between two packets needs two posted operations at a time; with one
descriptor number every close is followed by a reuse of the number. A keep-alive's
whole cycle, answered late and not at all, takes two timeouts; sessions do not
interact in it. Three packets put the end of a read before, in and after a packet
that has neighbours on both sides. The packings are unions of shifts of single
bits, so a property of every single bit is one of every input.

Deadlock is not checked where the system may stop: a crashed process, all the
streams read, all the bounded operations used up.

The view-distance limits are constants, with 2 and 32 in the code; the runs use
smaller ones and the proofs any.

### What the code does not do

Four runs expect a violation; each checks what a comment says.

* `ready_only_after_confirm`: an id that is not outstanding asks for a
  disconnect but the handler goes on and the player enters the world
  (`statemachine.cpp:181`, the comment at 167).
* `first_settings_untracked`: "in initial state, view distance is set to 0"
  (`statemachine.cpp:766`), but nothing sets it (`statemachine.hpp:44`).
* `frames_follow_format`: a packet cut by the end of a read derails the
  reader (`packetreader.hpp:29`, the format at `framing.hpp:29`).
* `whole_packet_consumed`: a packet too short for its id is never consumed
  and never refused (`framing.hpp:49`, the comment at 42).

The properties that pass name the sessions these do not touch: `Steady` (the
address was clean and the distance never changed), `"unconfirmed"`, `split`.

In the properties of the sessions the exceptions are the code's, and they are as
narrow as the code allows. `ObserverExact`: `onChunkTransition` tells the mover
nothing, so the entities in `untold` may be shown wrongly, and only those; each is
right again once its player crosses the border of the view. `TabListComplete`: a name
that two players have is in every list until one of them leaves, since REMOVE_PLAYER
goes by the uuid made of the name. `DanglingExplained`: a pointer to a freed machine
stays in `players` if the session ended in PLAY_INIT, and in the subscriptions if the
distance changed or the address was subscribed before; the members are always clean,
and the process dies of no other pointer. `TabListNoGhost`: the first of these also
leaves the name in the lists of the others.

Other properties name an exception because the code has one, with no comment that
says otherwise. `TerrainFresh`: a client is not told of a block dug between the
chunk it was sent and its teleport confirmation, or by a player out of its view.
`PoseFresh`: the spawn packet has no pose. `KickExact`: negative status and face
codes pass the checks of PlayerDigging. `ChunkExact`: the last block before a
chunk boundary on the negative side counts for the next chunk.
`PositionRoundTrip`: the height of a position comes back without its sign.
`DisconnectCompletes` and `DescriptorReleased`: a client that stays and reads no
more holds its connection, since there is no write timeout, and an accept that fails
ends the process. That a stall ends, that the queue of a stalled client stays bounded
and that the server survives a failing accept is not so and not claimed: the two
properties show that a stall holds up nobody else.

### Fairness

`TcpServer!FairSpec` only assumes what the `io_service` does: posted operations
run, a read that failed is reported, a write in flight fails when it must and
completes when the client reads. Nothing is assumed of writes to a client that
stalls, of accepts, of data, of the proxy's calls and of the client's departure.
The other models state bounds instead of liveness: in `KeepAlive` time passes
only as far as the tick's lateness allows.

## Proofs

All theorems hold for every value of the constants that satisfies the named
assumptions of the modules: any number of sessions, connections, packets and
blocks. Every inductive invariant was an invariant of a TLC run on the instances
above before it was proved; where one speaks of all sequences (`StreamInv`,
`FieldInv`), with the prefixes of the stream and field by field instead. Most
properties are not inductive as they stand, and what had to be added is the
argument why the code is right.

```
StateMachineProofs <- TerrainProofs, AppearanceProofs
TcpServerProofs
DataFacts <- SessionProofs  (KeepAlive, Motion, Coord, Requests)
          <- WireProofs     (VarInt, Framing, Fields, Bits)
                <- PacketProofs  (Fields: payloads, PacketReader: streams)
```

`StateMachineProofs`:

* `TypeCorrect`: `Spec => []TypeOK`. `TypeOK` is inductive; there is one lemma
  per action.
* `MembershipCorrect`: `Spec => []MembershipExact`, inductive with `TypeOK`.
* `SubscriptionCorrect`: `Spec => []SquareSubscription`, inductive with
  `TypeOK`. The step of `Move` rests on the arithmetic of squares: the old
  square without the removed and with the added chunks is the new one.
* `LoadedCorrect`: `Spec => []SubscribedChunksLoaded`. It is not inductive: before
  PLAY nothing is said of subscriptions. `LoadInv` adds the phases before it and
  that a player with an outstanding teleport holds the square it will be
  subscribed to. `SettingsExchange` is the lemma that `updateViewDistance` and
  the packets of `onClientSettingsChange` select the same chunks.
* `DanglingCorrect`: `DanglingExplained`. It speaks of freed addresses, and the
  induction has to follow the pointers while the object lives: who is in `players` is
  logged in, or a session ended early at its address and nothing took it out since
  (`Pointed`); what is left in the subscriptions of a freed address is explained
  (`Leftover`, from `SquareSubscription` at the time of the exit); and a step that
  uses a pointer can only die of one of these (`UseExplained`).
* `ChunksCorrect`: `LoadedChunksExist`; every packet that adds a chunk is sent
  after the chunk was generated.
* `TabListCompleteCorrect` and `TabListNoGhostCorrect`. `RegistryInv` makes them
  inductive: every player that is logged in is in `players` (`Registered`); nobody
  else has a name (`Anonymous`) or, with a list, is missing from `players`
  (`ListedArePlayers`); entity ids in use are below the next one and differ
  (`EntityIds`). The last is not needed for the lists but by `ObserverExact` and
  `Appearance`. A name needs no mark when it is given twice: the one step that takes
  it out of a list is the exit that marks the others of that name (`delisted`).
* `ObserverCorrect`: `ObserverExact`. `ObserverInv` adds that a session before PLAY
  shows nobody; the induction needs the types, `MembershipExact`,
  `SquareSubscription` and `RegistryInv` (together `SessionInv`): who is told of a
  player that enters, moves or leaves is read off the subscriptions, and a
  DestroyEntities hides nobody else because ids are unique. For the mover itself the
  two squares of the transition differ in the exchanged chunks only, and who stands
  in these is `untold` from then on. One lemma for each of
  the steps that show or hide somebody (`ObserverConfirm`, `ObserverMove`,
  `ObserverDisconnected`), one for all the others (`ObserverUnmoved`).

Their assumptions bound the view distances to the widths of `Int8` and `UInt8`
and put the positions into the chunk coordinates; the wrap-around of chunk
coordinates at the ends of `Int32` is not modelled.

`TerrainProofs`:

* `TerrainRefinesSessions`: `TerrainSpec => Spec`. What is conjoined to the actions
  of the sessions changes none of them, so the invariants of `StateMachine` hold
  here too and are used, not proved again.
* `FreshCorrect` and `HolesCorrect`: `TerrainFresh` and `NoFalseHoles`.
  `TerrainInv` adds that what is dug lies in chunks the server has (`DugGenerated`:
  otherwise generating the chunk again would undo the digging) and that a free
  address holds no chunk (`FreeHoldsNothing`: otherwise a session constructed there
  would begin with terrain of an earlier one). It rests on `LoadedChunksExist`.
* `ToldInsideCorrect`: the action property `ToldInside`, from `SquareSubscription`.
  It is about one digger and one player that watches, for any distance and whoever
  else plays: the digger stands within one chunk of the block, and the watcher has the
  block at least one chunk inside its view, so it has the digger's chunk in view
  (`WithinView`) and is among the subscribers the block is announced to
  (`InAudience`).

`AppearanceProofs`:

* `LookRefinesSessions`: `LookSpec => Spec`, as above.
* `FlagsCorrect` and `PoseCorrect`: `FlagsFresh` and `PoseFresh`, which are two
  halves of the invariant `AllFresh`. A client that watches a player is among those
  an update is sent to, since what it shows is what is in its view, unless its own
  moves brought it there (`ObserverExact`), and no update of another player has the same id (`EntityIds`).

`TcpServerProofs`:

* `TypeCorrect` and `DescriptorCorrect`: `TypeOK` and `DescriptorOwned`.
* `ServerCorrect`: `ServerInv` is these two and `ConnInv`, for each connection:
  an object that was not accepted is as it was made (`Fresh`); only `disconnect`
  leads to the marker and what it promised was sent (`Asked`); the end is told for
  a reason (`Told`); while packets get through, the wire, the active queue, the
  append queue and the strand hold consecutive packets in this order, nothing is
  queued while no write is in flight, and a disconnect stands behind what it
  promised (`Flow`); who was closed by the server got what was promised
  (`Graceful`). No action touches the packets of another connection, so the step is
  proved once per action and connection.
* `NothingLostCorrect` and `GracefulCloseCorrect` follow from `ServerInv`,
  `FreshCorrect` (the action property `FreshStaysConnected`) from its step.
* `Implementation`: `Spec => ImplementsConnection`. One lemma per action gives the
  step of `Connection` it is, or that it is none; that `close` may happen is
  `Graceful` and `Told`. This is the safety part; `Connection` states no fairness.

`SessionProofs` has what concerns one session at a time. The time of keep-alives is
for any number of sessions and any times with `PromptAssumption`: interval, period,
lateness and delay together are less than the timeout. In the code that leaves
4 seconds.

* `PromptCorrect`, `SilentCorrect` and `RegularCorrect`:
  `PromptNeverTimedOut`, `SilentIsTimedOut` and `KeepAlivesRegular`. None is
  inductive, since they look back from now. `TimeInv` says the same of the next
  tick: it comes before the timeout (`Heard`) and the next keep-alive (`Kept`) are
  overdue; the last keep-alive is pending or was answered (`Answered`); and some
  pending keep-alive of a prompt client was sent soon after its last packet
  (`Patient`), so its answer comes before the timeout.

Positions are for any axes, coordinates, angles, fineness and parts of a block:

* `DriftCorrect`, `AngleCorrect` and `HeadCorrect`: `DriftBounded`,
  `AngleClose` and `HeadFollows`. The invariant is `DriftBounded` and that the
  client shows the angle made of the last yaw, on head and body. The lemmas are
  about cutting numbers: what `Truncate` loses, that a move in range fits into 16
  bits (`TruncateFits`), that an angle on the wire is within a step (`AngleLoss`).
* `ChunkCorrect` and `WalkCorrect`: `ChunkExact` and the action property
  `ChunkMonotone`, the latter for steps of at most a chunk (`StrideAssumption`).
* `BlockSplit` and `ExchangeIsDifference` are facts about the operators alone: a
  block is where its chunk and its place in it say, and the chunks a transition
  exchanges are the difference of the two squares.

The packets of one session:

* `KickCorrect`: `RequestSpec => []KickExact`. The invariant adds that no window is
  ever open, since closing the open one would be granted. Two assumptions: the
  numbers are numbers and data fits into a packet (`RangeAssumption`); clients write
  the length of a text in as few bytes as it takes and `Data` has the texts it has the
  bytes of (`BrandAssumption`). The code also accepts a length written in more bytes
  than that, which the protocol does not settle.

`WireProofs`, facts about operators for all of their arguments:

* `VarIntRoundTrip`, with `RoundTripCorrect` and `CutCorrect` for the properties of
  the run: every `Int32` is decoded to itself whatever follows, and is incomplete
  when cut. `Groups` splits a number into its five groups of bits and says which
  are zero for which length, `Encoded` that the continuation bit ends the bytes
  where `wireSizeVarInt32` says, `Combined` that the decoder's sum is the number.
* `FieldRoundTrip`: every kind of field, strings and uuids included, is read back as
  it was written, with its size, whatever follows it.
* `FrameRoundTrip`, `FrameCut` and `LengthRefused`: a packet within the limit is taken
  from the start of a buffer as it was sent, all of it and nothing of what follows; cut
  off anywhere it is incomplete; a length out of range is refused.
* `PositionCorrect`: `PositionRoundTrip` for all integers. `PositionWords` is the
  round trip of the machine words, the rest is what the sets of bits of negative
  numbers are.
* `PackedCorrect`: `Packed` for every input, from the place of each bit of each
  input in the words of the table (`At14`, `WordOf14`).

`PacketProofs` goes from one field to a payload and from one packet to a stream:

* `PayloadRead`, `PayloadSurplus`, `PayloadCut` and `PayloadTaken` hold for every
  format made of kinds of fields and all values, not only those of `packets.def`. A
  payload is read with the values it was written from; with bytes after it, or cut
  anywhere, it is refused unless it ends in tail bytes, and then its other fields are
  those that were sent; and of arbitrary bytes only those are accepted that some values
  are written as, or that have a number which is longer than it need be or has bits
  that are dropped (`Loose`). The induction is over the fields read so far
  (`readField`), and its step is `FieldRoundTrip`.
* `PayloadCorrect`, `OnlyWholeCorrect` and `CanonicalCorrect`: `PayloadRoundTrip`,
  `OnlyWholePayloads` and `CanonicalPayload` as invariants of `FieldSpec`. `FieldInv`
  says what a payload that arrives has to do with the one that was sent (`Mangling`).
* `ReaderCorrect`: `ExactUntilSplit`, for any number of packets of any size, with any
  data, and reads of any size. The invariant `StreamInv` says where the reader is: what
  arrived is some whole packets and part of the next one (`Position`), and either all
  of those were handled and the part is kept, or all before the first with a length out
  of range were, and the reader failed (`Handled`). `LoopExists` says that the loop of
  `onBytesReceived` ends, since every round takes a byte; `GoodThenRest` and
  `BadThenRest` what it makes of whole packets and what follows them; `CutStream` that
  wherever a read ends there are whole packets and part of one. The hypothesis
  `StreamOfFrames` is that the client sends packets within the limits of `framing.hpp`,
  or lengths out of range; the packets of the passing run are such. It is needed: a
  packet too short for its id stays at the head of the buffer for good, which is what
  the run `whole_packet_consumed` shows.

`DataFacts` has what these need that the provers do not know. Of `\div` and `%` they
know only the definition: quotient and remainder exist, are unique and grow together.
The library's theorems about induction and recursive functions take an operator as a
parameter and cannot be used; `Least` (a set of numbers that is not empty has a least
element) and `Induction` (a set with 0 and every successor has all numbers) are about
sets instead, so an inductive claim is the set of the numbers it holds for. With them
the functions that folds and the loop of the reader are built from are shown to exist,
and what flattening a sequence of packets or fields gives.

Only model-checked:

* `DisconnectCompletes` and `DescriptorReleased`: liveness under fairness is beyond
  the prover.
* `Decodable`: the encoders of `Structures` are recursive operators, since tags nest,
  and the prover does not support those. It is checked on samples of every kind.

## Not modelled

* `main.cpp`: sets up the `io_service` and stops it on a signal. That one thread
  runs it is what makes handlers atomic. `span.hpp`, `traits.hpp`,
  `common/types.hpp`, `macros.hpp`, the build and the generated block ids have no
  behaviour of their own.
* `chat.hpp`: one format string. It does not escape the text, so a quote in a
  message makes JSON the client cannot read; a text is a model value everywhere.
* Readers that are instantiated by the macros and called by nobody (arrays, byte
  arrays, metadata; `deserializeNbt` throws): no such packet comes from a client.
* The heights of a chunk are set when it is generated and never again, so digging
  leaves them stale: a missing feature without a property to state.
* The initial look sends the pitch as yaw and the yaw as pitch
  (`statemachine.cpp:273`). Both are 0 at that point, so no behaviour differs.
* The section index of a dug block (`statemachine.cpp:541`) is not bounded by
  anything: for a height of 256 or more the array of sections is indexed beyond its
  end, which is undefined. `Dig` leaves these heights out, the models have no blocks
  there, and no property covers what happens then.
* Settings other than the view distance are stored and never read. The contents
  of texts, logging and the layout of JSON are left out. Threads: there is one.
* Nothing is persisted, so there is no restart to model.

## Plan

Done: all the modules above, one action per operation, with the runs and the
proofs listed. Left: the entries of the lists of `Structures` one by one, in a module
without recursion, as `PacketProofs` has the fields.
