----------------------------- MODULE StateMachine -----------------------------
(***************************************************************************)
(* The player sessions of the server: the StateMachine of every connection *)
(* (proxyd/statemachine.hpp, statemachine.cpp), the GlobalState they share *)
(* (proxyd/globalstate.hpp) and the map of machines of the ProxyServer     *)
(* (proxyd/proxyserver.hpp).                                               *)
(*                                                                         *)
(* One thread runs every handler to its end (main.cpp), so a handler is    *)
(* one action.  What interleaves is the order in which the packets of the  *)
(* clients, the connects, the disconnects and the tick are handled.        *)
(*                                                                         *)
(* A member of Machine is an ADDRESS: a StateMachine is constructed there  *)
(* by OnClientConnected and freed by OnClientDisconnected, and a later one *)
(* may get the same address.  players and the tracker hold raw pointers,   *)
(* so what they hold of an address outlives the object.  Using a pointer   *)
(* to a freed machine is undefined: the process crashes or the access has  *)
(* no effect.                                                              *)
(*                                                                         *)
(* What a client shows is kept as the fold of the packets handed to its    *)
(* connection: tab (PlayerInfo), known (SpawnPlayer and DestroyEntities)   *)
(* and loaded (ChunkData and UnloadChunk).  A position is abstracted to    *)
(* the chunk it lies in.                                                   *)
(***************************************************************************)
EXTENDS PlayerTracker

CONSTANTS Name,                   \* user names
          NoName,                 \* the name of a player before login
          MinViewDistance,        \* the least view distance, 2 in the code
          MaxViewDistance,        \* serverSettings.maxViewDistance, 32
          RequestedViewDistance,  \* distances clients ask for (an Int8)
          GarbageViewDistance,    \* values the uninitialised UInt8 may hold
          Position,               \* chunks clients report to be in
          MaxEntityId,            \* bound: logins
          MaxTeleportId           \* bound: settings packets before PLAY

ASSUME ViewDistanceAssumption ==
  /\ MinViewDistance \in Nat
  /\ MaxViewDistance \in 0 .. 127
  /\ MinViewDistance <= MaxViewDistance
  /\ RequestedViewDistance \subseteq -128 .. 127
  /\ GarbageViewDistance \subseteq 0 .. 255

ASSUME PositionAssumption == Position \subseteq ChunkCoord

ASSUME NameAssumption == NoName \notin Name

ASSUME BoundAssumption == MaxEntityId \in Nat /\ MaxTeleportId \in Nat

VARIABLES
  phase,           \* phase[m]: _phase, or "FREE" when no object lives at m
  closing,         \* closing[m]: disconnect() was called on the connection
  username,        \* _playerState.username
  entityId,        \* _playerState.entityId, 0 before login
  viewDistance,    \* _playerState.clientSettings.viewDistance
  chunk,           \* the chunk of _playerState.position
  nextTeleportId,  \* _playerState.nextTeleportId
  outstanding,     \* _playerState.outstandingTeleportIds
  nextEntityId,    \* GlobalState::nextEntityId
  players,         \* GlobalState::players
  chunks,          \* the coordinates GlobalState::chunks holds
  tab,             \* tab[m]: the names in the client's player list
  known,           \* known[m]: the player entities the client shows
  loaded,          \* loaded[m]: the chunks the client holds
  history,         \* history[m]: what happened to the object at m
  untold,          \* untold[m]: entities that its own moves brought into or
                   \* out of its view and that it was told nothing of since
  abandoned,       \* names whose session ended before PLAY
  crashed          \* a freed machine was used and the process died

playerVars == <<username, entityId, viewDistance, chunk, nextTeleportId,
                outstanding>>
trackerVars == <<membership, subscriptions>>
clientVars == <<tab, known, loaded>>
ghostVars == <<history, untold, abandoned>>
vars == <<phase, closing, playerVars, nextEntityId, players, chunks,
          trackerVars, clientVars, ghostVars, crashed>>

Phase == {"FREE", "INITIAL", "LOGIN", "PLAY_INIT", "PLAY", "STATUS"}

(***************************************************************************)
(* The events in the life of a machine that the properties tell apart.     *)
(*   stale        its address was still subscribed when it was constructed *)
(*   early        it ended in PLAY_INIT, or one before it at its address   *)
(*   unconfirmed  it entered PLAY on a teleport id that was not expected   *)
(*   resized      its view distance changed after it counted               *)
(*   delisted     another player of its name left                          *)
(***************************************************************************)
Event == {"stale", "early", "unconfirmed", "resized", "delisted"}

Spawn == <<0, 0>>    \* the chunk of the initial position {0, 64, 0}

LoggedIn == {m \in Machine : phase[m] \in {"PLAY_INIT", "PLAY"}}
Playing == {m \in Machine : phase[m] = "PLAY"}
Live(S) == {p \in S : phase[p] # "FREE"}

\* Using every pointer of S: undefined when one of them is dangling.
Use(S) == crashed' \in (IF S = Live(S) THEN {FALSE} ELSE BOOLEAN)

Running(m, p) == ~crashed /\ phase[m] = p

Init ==
  /\ TrackerInit
  /\ phase = [m \in Machine |-> "FREE"]
  /\ closing = [m \in Machine |-> FALSE]
  /\ username = [m \in Machine |-> NoName]
  /\ entityId = [m \in Machine |-> 0]
  /\ viewDistance = [m \in Machine |-> 0]
  /\ chunk = [m \in Machine |-> Spawn]
  /\ nextTeleportId = [m \in Machine |-> 0]
  /\ outstanding = [m \in Machine |-> {}]
  /\ nextEntityId = 1
  /\ players = {}
  /\ chunks = {}
  /\ tab = [m \in Machine |-> {}]
  /\ known = [m \in Machine |-> {}]
  /\ loaded = [m \in Machine |-> {}]
  /\ history = [m \in Machine |-> {}]
  /\ untold = [m \in Machine |-> {}]
  /\ abandoned = {}
  /\ crashed = FALSE

------------------------------------------------------------------------------
(***************************************************************************)
(* ProxyServer: a machine is constructed for a new connection.  Its view   *)
(* distance is not initialised.                                            *)
(***************************************************************************)
onClientConnected(m) ==
  /\ Running(m, "FREE")
  /\ phase' = [phase EXCEPT ![m] = "INITIAL"]
  /\ \E garbage \in GarbageViewDistance :
       viewDistance' = [viewDistance EXCEPT ![m] = garbage]
  /\ history' = [history EXCEPT ![m] =
                   (@ \cap {"early"})
                     \cup (IF subscriptions[m] = {} THEN {} ELSE {"stale"})]
  /\ UNCHANGED <<closing, username, entityId, chunk, nextTeleportId,
                 outstanding, nextEntityId, players, chunks, trackerVars,
                 clientVars, untold, abandoned, crashed>>

(***************************************************************************)
(* disconnect() and disconnect(message): the machine only asks the         *)
(* connection to close; its phase and what it shares stay as they are.     *)
(***************************************************************************)
disconnect(m) == closing' = [closing EXCEPT ![m] = TRUE]

\* A packet that is malformed, or not acceptable in its phase.
Reject(m) ==
  /\ disconnect(m)
  /\ UNCHANGED <<phase, playerVars, nextEntityId, players, chunks,
                 trackerVars, clientVars, ghostVars, crashed>>

Handshake(m) ==
  /\ Running(m, "INITIAL")
  /\ \/ Reject(m)
     \/ /\ \E nextState \in {"STATUS", "LOGIN"} :
             phase' = [phase EXCEPT ![m] = nextState]
        /\ UNCHANGED <<closing, playerVars, nextEntityId, players, chunks,
                       trackerVars, clientVars, ghostVars, crashed>>

\* A mutant of currentPlayers: players that are still loading are left out.
currentPlayersReady == {username[q] : q \in players \cap Playing}

\* The names in the list of players sent to a player that logs in.
currentPlayers == {username[q] : q \in players}

(***************************************************************************)
(* Login: the new player gets the list of the current ones, and everyone   *)
(* in players, the new player included, gets the new entry.  A duplicate   *)
(* name is not refused.                                                    *)
(***************************************************************************)
LoginStart(m, name) ==
  /\ Running(m, "LOGIN")
  /\ nextEntityId <= MaxEntityId
  /\ username' = [username EXCEPT ![m] = name]
  /\ entityId' = [entityId EXCEPT ![m] = nextEntityId]
  /\ nextEntityId' = nextEntityId + 1
  /\ players' = players \cup {m}
  /\ tab' = [p \in Machine |->
               CASE p = m -> tab[m] \cup currentPlayers \cup {name}
                 [] p \in Live(players) \ {m} -> tab[p] \cup {name}
                 [] OTHER -> tab[p]]
  /\ Use(players)
  /\ phase' = [phase EXCEPT ![m] = "PLAY_INIT"]
  /\ UNCHANGED <<closing, viewDistance, chunk, nextTeleportId, outstanding,
                 chunks, trackerVars, known, loaded, ghostVars>>

LoginRejected(m) == Running(m, "LOGIN") /\ Reject(m)
------------------------------------------------------------------------------
\* A mutant of Clamp: the lower bound is forgotten.
ClampMaxOnly(requested) ==
  IF requested < MaxViewDistance THEN requested ELSE MaxViewDistance

\* std::max(2, std::min(requested, maxViewDistance))
Clamp(requested) ==
  LET atMost == IF requested < MaxViewDistance THEN requested
                                               ELSE MaxViewDistance
  IN IF atMost > MinViewDistance THEN atMost ELSE MinViewDistance

\* The chunks onClientSettingsChange unloads from the client of m ...
Shrunk(m, new) ==
  IF viewDistance[m] > new /\ viewDistance[m] # 0
  THEN Beyond(chunk[m], viewDistance[m], new) ELSE {}

\* A mutant of Grown: the comparison is the wrong way round.
GrownSwapped(m, new) ==
  IF new < viewDistance[m] /\ viewDistance[m] # 0
  THEN Beyond(chunk[m], viewDistance[m], new) ELSE {}

\* ... and the chunks it sends.
Grown(m, new) ==
  IF viewDistance[m] < new /\ viewDistance[m] # 0
  THEN Beyond(chunk[m], new, viewDistance[m]) ELSE {}

\* A mutant of getOrCreateChunk: the new chunks are not stored.
getChunkUnstored(sent) == chunks

\* getOrCreateChunk of every chunk sent: the chunks the server has then.
getOrCreateChunk(sent) == chunks \cup sent

(***************************************************************************)
(* onClientSettingsChange up to the packets: the view distance changes,    *)
(* and the tracker follows unless the old distance was 0.                  *)
(***************************************************************************)
onClientSettingsChange(m, new) ==
  /\ viewDistance' = [viewDistance EXCEPT ![m] = new]
  /\ IF viewDistance[m] # 0
     THEN updateViewDistance(chunk[m], viewDistance[m], new, m)
     ELSE UNCHANGED subscriptions
  /\ UNCHANGED membership

(***************************************************************************)
(* Settings before PLAY: the whole square is sent and the client is told   *)
(* where it stands, under a new teleport id.                               *)
(***************************************************************************)
ClientSettingsInit(m, requested) ==
  LET new == Clamp(requested)
      sent == Grown(m, new) \cup Square(chunk[m], new)
  IN /\ Running(m, "PLAY_INIT")
     /\ nextTeleportId[m] <= MaxTeleportId
     /\ onClientSettingsChange(m, new)
     /\ loaded' = [loaded EXCEPT ![m] = (@ \ Shrunk(m, new)) \cup sent]
     /\ chunks' = getOrCreateChunk(sent)
     /\ nextTeleportId' = [nextTeleportId EXCEPT ![m] = @ + 1]
     /\ outstanding' = [outstanding EXCEPT ![m] = @ \cup {nextTeleportId[m]}]
     /\ history' = IF viewDistance[m] \in {0, new} THEN history
                   ELSE [history EXCEPT ![m] = @ \cup {"resized"}]
     /\ UNCHANGED <<phase, closing, username, entityId, chunk, nextEntityId,
                    players, tab, known, untold, abandoned, crashed>>

\* A malformed packet before PLAY; the other packets are read and dropped.
PlayInitRejected(m) == Running(m, "PLAY_INIT") /\ Reject(m)

(***************************************************************************)
(* TeleportConfirm: the player enters the world.  An id that is not        *)
(* outstanding asks for a disconnect, but the handler goes on.             *)
(***************************************************************************)
TeleportConfirm(m, id) ==
  LET valid == id \in outstanding[m]
      view == Square(chunk[m], viewDistance[m])
  IN /\ Running(m, "PLAY_INIT")
     /\ outstanding' = [outstanding EXCEPT ![m] = @ \ {id}]
     /\ IF valid THEN UNCHANGED closing ELSE disconnect(m)
     /\ enter(chunk[m], viewDistance[m], m)
     /\ LET audience == subscribers(subscriptions', chunk[m]) \ {m}
            visible == (UNION {members(membership', c) : c \in view}) \ {m}
        IN /\ known' = [p \in Machine |->
                          CASE p = m -> known[m] \cup {entityId[q] : q \in visible}
                            [] p \in Live(audience) -> known[p] \cup {entityId[m]}
                            [] OTHER -> known[p]]
           /\ Use(audience \cup visible)
     /\ phase' = [phase EXCEPT ![m] = "PLAY"]
     /\ history' = IF valid THEN history
                   ELSE [history EXCEPT ![m] = @ \cup {"unconfirmed"}]
     /\ UNCHANGED <<username, entityId, viewDistance, chunk, nextTeleportId,
                    nextEntityId, players, chunks, tab, loaded, untold,
                    abandoned>>
------------------------------------------------------------------------------
\* Settings in PLAY: only the difference of the squares is sent.
ClientSettings(m, requested) ==
  LET new == Clamp(requested)
  IN /\ Running(m, "PLAY")
     /\ onClientSettingsChange(m, new)
     /\ loaded' = [loaded EXCEPT ![m] =
                     (@ \ Shrunk(m, new)) \cup Grown(m, new)]
     /\ chunks' = getOrCreateChunk(Grown(m, new))
     /\ history' = IF viewDistance[m] = new THEN history
                   ELSE [history EXCEPT ![m] = @ \cup {"resized"}]
     /\ UNCHANGED <<phase, closing, username, entityId, chunk,
                    nextTeleportId, outstanding, nextEntityId, players, tab,
                    known, untold, abandoned, crashed>>

\* The entities of the other players in a region.
EntitiesIn(region, m) ==
  {entityId[q] : q \in {r \in Playing \ {m} : chunk[r] \in region}}

(***************************************************************************)
(* onChunkTransition: the mover's squares are exchanged, and the players   *)
(* subscribed to the old and to the new chunk learn of the move.  The      *)
(* mover itself is told nothing about the players it comes to see.         *)
(***************************************************************************)
onChunkTransition(m, from, to) ==
  LET vd == viewDistance[m]
      removed == Square(from, vd) \ Square(to, vd)
      added == Square(to, vd) \ Square(from, vd)
  IN /\ loaded' = [loaded EXCEPT ![m] = (@ \ removed) \cup added]
     /\ chunks' = getOrCreateChunk(added)
     /\ move(from, to, m)
     /\ resubscribe(removed, added, m)
     /\ LET fromSubs == subscribers(subscriptions', from) \ {m}
            toSubs == subscribers(subscriptions', to) \ {m}
        IN /\ known' = [p \in Machine |->
                          CASE p \in Live(fromSubs \ toSubs) ->
                                 known[p] \ {entityId[m]}
                            [] p \in Live(toSubs \ fromSubs) ->
                                 known[p] \cup {entityId[m]}
                            [] OTHER -> known[p]]
           /\ untold' = [p \in Machine |->
                           CASE p = m -> untold[m] \cup EntitiesIn(removed \cup added, m)
                             [] p \in (fromSubs \ toSubs) \cup (toSubs \ fromSubs) ->
                                  untold[p] \ {entityId[m]}
                             [] OTHER -> untold[p]]
           /\ Use(fromSubs \cup toSubs)

\* PlayerPosition and PlayerPositionRotation that leave the chunk.
Move(m, to) ==
  /\ Running(m, "PLAY")
  /\ to # chunk[m]
  /\ chunk' = [chunk EXCEPT ![m] = to]
  /\ onChunkTransition(m, chunk[m], to)
  /\ UNCHANGED <<phase, closing, username, entityId, viewDistance,
                 nextTeleportId, outstanding, nextEntityId, players, tab,
                 history, abandoned>>

(***************************************************************************)
(* The packets that are relayed to the subscribers of the player's chunk   *)
(* and change nothing else that is kept here: a move within the chunk, a   *)
(* rotation, an animation, a change of pose, a block that was dug.         *)
(***************************************************************************)
broadcastLocally(m) ==
  /\ Running(m, "PLAY")
  /\ Use(subscribers(subscriptions, chunk[m]) \ {m})
  /\ UNCHANGED <<phase, closing, playerVars, nextEntityId, players, chunks,
                 trackerVars, clientVars, ghostVars>>

\* Chat: relayed to everyone in players.
Chat(m) ==
  /\ Running(m, "PLAY")
  /\ Use(players)
  /\ UNCHANGED <<phase, closing, playerVars, nextEntityId, players, chunks,
                 trackerVars, clientVars, ghostVars>>

\* A malformed packet in PLAY, or one with a value that is refused.
PlayRejected(m) == Running(m, "PLAY") /\ Reject(m)

\* Any packet at all in STATUS.
Status(m) == Running(m, "STATUS") /\ Reject(m)

\* onTick finds that no packet came for CLIENT_READ_TIMEOUT_NANOS.
Timeout(m) == ~crashed /\ phase[m] # "FREE" /\ Reject(m)
------------------------------------------------------------------------------
\* The object at m is gone and the memory holds nothing that is read.
Freed(m) ==
  /\ phase' = [phase EXCEPT ![m] = "FREE"]
  /\ closing' = [closing EXCEPT ![m] = FALSE]
  /\ username' = [username EXCEPT ![m] = NoName]
  /\ entityId' = [entityId EXCEPT ![m] = 0]
  /\ viewDistance' = [viewDistance EXCEPT ![m] = 0]
  /\ chunk' = [chunk EXCEPT ![m] = Spawn]
  /\ nextTeleportId' = [nextTeleportId EXCEPT ![m] = 0]
  /\ outstanding' = [outstanding EXCEPT ![m] = {}]
  /\ loaded' = [loaded EXCEPT ![m] = {}]
  /\ UNCHANGED <<nextEntityId, chunks>>

\* What is remembered of m beyond its end: why its address is still subscribed.
leftBehind(m) ==
  IF subscriptions'[m] = {} THEN {} ELSE history[m] \cap {"stale", "resized"}

\* A mutant of removePlayer: players that are still loading are not told.
removePlayerReady(m) ==
  [p \in Machine |-> CASE p = m -> {}
                       [] p \in (players \cap Playing) \ {m} ->
                            tab[p] \ {username[m]}
                       [] OTHER -> tab[p]]

\* The lists after REMOVE_PLAYER for m, and after the end of m itself.
removePlayer(m) ==
  [p \in Machine |-> CASE p = m -> {}
                       [] p \in Live(players) \ {m} -> tab[p] \ {username[m]}
                       [] OTHER -> tab[p]]

(***************************************************************************)
(* ~StateMachine of a player in PLAY: it leaves the tracker, the players   *)
(* subscribed to its chunk are told to drop the entity, and the players    *)
(* that remain drop its name from their list.                              *)
(***************************************************************************)
LeavePlay(m) ==
  /\ leave(chunk[m], viewDistance[m], m)
  /\ players' = players \ {m}
  /\ LET audience == subscribers(subscriptions', chunk[m]) \ {m}
     IN /\ known' = [p \in Machine |->
                       CASE p = m -> {}
                         [] p \in Live(audience) -> known[p] \ {entityId[m]}
                         [] OTHER -> known[p]]
        /\ untold' = [p \in Machine |->
                        CASE p = m -> {}
                          [] p \in audience -> untold[p] \ {entityId[m]}
                          [] OTHER -> untold[p]]
        /\ Use(audience \cup (players \ {m}))
  /\ tab' = removePlayer(m)
  /\ abandoned' = abandoned \ {username[m]}
  /\ history' = [p \in Machine |->
                   CASE p = m -> leftBehind(m)
                     [] p \in LoggedIn \ {m} /\ username[p] = username[m] ->
                          history[p] \cup {"delisted"}
                     [] OTHER -> history[p]]

\* ~StateMachine in any other phase does nothing.
LeaveEarly(m) ==
  /\ UNCHANGED <<players, trackerVars, crashed>>
  /\ known' = [known EXCEPT ![m] = {}]
  /\ tab' = [tab EXCEPT ![m] = {}]
  /\ abandoned' = IF phase[m] = "PLAY_INIT"
                  THEN abandoned \cup {username[m]} ELSE abandoned
  /\ history' = [history EXCEPT ![m] =
                   leftBehind(m) \cup
                     (IF phase[m] = "PLAY_INIT" THEN {"early"} ELSE @ \cap {"early"})]
  /\ untold' = [untold EXCEPT ![m] = {}]

\* ProxyServer: the connection was lost or closed; the machine is erased.
onClientDisconnected(m) ==
  /\ ~crashed
  /\ phase[m] # "FREE"
  /\ IF phase[m] = "PLAY" THEN LeavePlay(m) ELSE LeaveEarly(m)
  /\ Freed(m)

Next ==
  \E m \in Machine :
    \/ onClientConnected(m)
    \/ Handshake(m)
    \/ \E name \in Name : LoginStart(m, name)
    \/ LoginRejected(m)
    \/ \E requested \in RequestedViewDistance :
         ClientSettingsInit(m, requested) \/ ClientSettings(m, requested)
    \/ PlayInitRejected(m)
    \/ \E id \in 0 .. MaxTeleportId + 1 : TeleportConfirm(m, id)
    \/ \E to \in Position : Move(m, to)
    \/ broadcastLocally(m)
    \/ Chat(m)
    \/ PlayRejected(m)
    \/ Status(m)
    \/ Timeout(m)
    \/ onClientDisconnected(m)

Spec == Init /\ [][Next]_vars
------------------------------------------------------------------------------
\* The fields of the machines, of GlobalState and of the clients.
TypeOK ==
  /\ phase \in [Machine -> Phase]
  /\ closing \in [Machine -> BOOLEAN]
  /\ username \in [Machine -> Name \cup {NoName}]
  /\ entityId \in [Machine -> 0 .. MaxEntityId]
  /\ viewDistance \in [Machine -> 0 .. 255]
  /\ chunk \in [Machine -> ChunkCoord]
  /\ nextTeleportId \in [Machine -> 0 .. MaxTeleportId + 1]
  /\ outstanding \in [Machine -> SUBSET (0 .. MaxTeleportId)]
  /\ nextEntityId \in 1 .. MaxEntityId + 1
  /\ players \subseteq Machine
  /\ chunks \subseteq ChunkCoord
  /\ membership \in [Machine -> SUBSET ChunkCoord]
  /\ subscriptions \in [Machine -> SUBSET ChunkCoord]
  /\ tab \in [Machine -> SUBSET (Name \cup {NoName})]
  /\ known \in [Machine -> SUBSET (0 .. MaxEntityId)]
  /\ loaded \in [Machine -> SUBSET ChunkCoord]
  /\ history \in [Machine -> SUBSET Event]
  /\ untold \in [Machine -> SUBSET (0 .. MaxEntityId)]
  /\ abandoned \subseteq Name \cup {NoName}
  /\ crashed \in BOOLEAN

(***************************************************************************)
(* The tracker holds a player as a member of exactly the chunk it stands   *)
(* in, from the teleport confirmation to the destructor: enter, move and   *)
(* leave always agree on the coordinate, across chunk transitions and the  *)
(* reuse of addresses.                                                     *)
(***************************************************************************)
MembershipExact ==
  \A m \in Machine :
    membership[m] = IF phase[m] = "PLAY" THEN {chunk[m]} ELSE {}

\* m was constructed at an address nothing pointed to, and its view distance
\* never changed once it was in use.
Steady(m) == history[m] \cap {"stale", "resized"} = {}

(***************************************************************************)
(* A player is subscribed to the square of its view distance around its    *)
(* chunk, no more and no less, however it moved (the incremental           *)
(* unsubscribe and subscribe of onChunkTransition add up), and to nothing  *)
(* outside PLAY.                                                           *)
(***************************************************************************)
SquareSubscription ==
  \A m \in Machine :
    phase[m] # "FREE" /\ Steady(m) =>
      subscriptions[m] = IF phase[m] = "PLAY"
                         THEN Square(chunk[m], viewDistance[m]) ELSE {}

(***************************************************************************)
(* A player that confirmed its teleport holds every chunk it is subscribed *)
(* to, so the block changes and entities it is told of lie in terrain its  *)
(* client has: sendChunk and UnloadChunk follow the tracker through every  *)
(* change of view distance and every move.                                 *)
(***************************************************************************)
SubscribedChunksLoaded ==
  \A m \in Playing :
    history[m] \cap {"stale", "unconfirmed"} = {} =>
      subscriptions[m] \subseteq loaded[m]

(***************************************************************************)
(* Every chunk a client holds is a chunk of the server, so digging in it   *)
(* is never answered with "chunk not found" (statemachine.cpp:530).        *)
(***************************************************************************)
LoadedChunksExist == \A m \in Machine : loaded[m] \subseteq chunks

(***************************************************************************)
(* A player shows exactly the other players within its view, whatever it   *)
(* and they do (arrive, walk in and out, disconnect), but for those that   *)
(* its own moves brought into or out of its view: onChunkTransition tells  *)
(* the mover nothing (statemachine.cpp:1059-1099).  Each of those is right *)
(* again once it crosses the border of the view itself, or leaves inside.  *)
(***************************************************************************)
ObserverExact ==
  \A p \in Playing :
    Steady(p) =>
      known[p] \ untold[p] =
        EntitiesIn(Square(chunk[p], viewDistance[p]), p) \ untold[p]

(***************************************************************************)
(* GlobalState and the tracker hold the address of a freed machine for two *)
(* reasons only, and only of these the process dies: a session that ended  *)
(* in PLAY_INIT stays in players (~StateMachine does something in PLAY     *)
(* only, statemachine.cpp:1127), and one whose view distance changed may   *)
(* stay subscribed (leave goes by the last distance, playertracker.hpp:66).*)
(* Every other session takes all pointers to it along, whatever it did and *)
(* whatever an earlier machine left at its address.                        *)
(***************************************************************************)
DanglingExplained ==
  /\ \A m \in Machine :
       phase[m] = "FREE" =>
         /\ membership[m] = {}
         /\ m \in players => "early" \in history[m]
         /\ subscriptions[m] # {} => history[m] \cap {"stale", "resized"} # {}
  /\ crashed =>
       \E m \in Machine :
         phase[m] = "FREE" /\ history[m] \cap {"early", "stale", "resized"} # {}

(***************************************************************************)
(* Every logged-in player has every logged-in player in its list, also     *)
(* those who share a name, until one of them leaves: REMOVE_PLAYER goes by *)
(* the uuid made of the name (statemachine.cpp:65) and removes the others. *)
(***************************************************************************)
TabListComplete ==
  \A p, q \in LoggedIn : "delisted" \notin history[q] => username[q] \in tab[p]

(***************************************************************************)
(* A name in a client's list belongs to a player that is logged in, or to  *)
(* one that left before PLAY, for whom no REMOVE_PLAYER is sent.           *)
(***************************************************************************)
TabListNoGhost ==
  \A p \in Machine :
    tab[p] \cap Name \subseteq {username[q] : q \in LoggedIn} \cup abandoned

------------------------------------------------------------------------------
(***************************************************************************)
(* What two comments say and the code does not do; TLC refutes both.       *)
(* statemachine.cpp:167: "the client is ready when receiving the teleport  *)
(* confirmation".  A confirmation of an id that is not outstanding asks    *)
(* for a disconnect and makes the player ready all the same.               *)
(***************************************************************************)
ReadyOnlyAfterConfirm ==
  \A m \in Playing : "unconfirmed" \notin history[m]

(***************************************************************************)
(* statemachine.cpp:766: "in initial state, view distance is set to 0", so *)
(* the first settings should not touch the tracker.  The view distance is  *)
(* not initialised, and a player can be subscribed before it enters.       *)
(***************************************************************************)
FirstSettingsUntracked ==
  \A m \in Machine :
    /\ phase[m] = "PLAY_INIT"
    /\ nextTeleportId[m] = 1
    /\ "stale" \notin history[m]
    => subscriptions[m] = {}

==============================================================================
