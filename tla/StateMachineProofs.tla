-------------------------- MODULE StateMachineProofs --------------------------
(***************************************************************************)
(* Proofs about StateMachine, for every set of addresses, names and        *)
(* positions and every view distance the assumptions allow: first the      *)
(* typing and the tracker, then what the sessions share, which rests on    *)
(* both: the chunks of GlobalState, the list of players in                 *)
(* GlobalState::players and in the clients' tabs, and the player entities  *)
(* each client is shown.                                                   *)
(***************************************************************************)
EXTENDS StateMachine, TLAPS

\* A square of chunk coordinates consists of chunk coordinates.
LEMMA SquareType ==
  ASSUME NEW c \in ChunkCoord, NEW vd \in Int
  PROVE  Square(c, vd) \in SUBSET ChunkCoord
BY DEF Square, ChunkCoord

\* So does what updateViewDistance visits.
LEMMA BeyondType ==
  ASSUME NEW c \in ChunkCoord, NEW wide \in Int, NEW narrow \in Int
  PROVE  Beyond(c, wide, narrow) \in SUBSET ChunkCoord
BY SquareType DEF Beyond

\* The distance a client gets is within the server's bounds.
LEMMA ClampType ==
  ASSUME NEW requested \in RequestedViewDistance
  PROVE  Clamp(requested) \in 0 .. 255
BY ViewDistanceAssumption DEF Clamp

\* Entities are numbers that GlobalState handed out, or 0.
LEMMA EntitiesInType ==
  ASSUME TypeOK, NEW region, NEW m
  PROVE  EntitiesIn(region, m) \subseteq 0 .. MaxEntityId
BY DEF TypeOK, EntitiesIn, Playing

\* Using pointers leaves crashed a Boolean.
LEMMA UseType ==
  ASSUME NEW S, Use(S)
  PROVE  crashed' \in BOOLEAN
BY DEF Use
------------------------------------------------------------------------------
\* The initial state has the right types.
LEMMA TypeInit == Init => TypeOK
<1> SUFFICES ASSUME Init PROVE TypeOK
  OBVIOUS
<1>1. /\ phase \in [Machine -> Phase]
      /\ closing \in [Machine -> BOOLEAN]
      /\ username \in [Machine -> Name \cup {NoName}]
      /\ entityId \in [Machine -> 0 .. MaxEntityId]
      /\ viewDistance \in [Machine -> 0 .. 255]
      /\ nextTeleportId \in [Machine -> 0 .. MaxTeleportId + 1]
      /\ nextEntityId \in 1 .. MaxEntityId + 1
  BY BoundAssumption DEF Init, Phase
<1>2. chunk \in [Machine -> ChunkCoord]
  <2>1. Spawn \in ChunkCoord
    BY DEF Spawn, ChunkCoord
  <2> QED BY <2>1 DEF Init
<1>3. /\ players \subseteq Machine
      /\ chunks \subseteq ChunkCoord
      /\ abandoned \subseteq Name \cup {NoName}
      /\ crashed \in BOOLEAN
  BY DEF Init
<1>4. /\ outstanding \in [Machine -> SUBSET (0 .. MaxTeleportId)]
      /\ membership \in [Machine -> SUBSET ChunkCoord]
      /\ subscriptions \in [Machine -> SUBSET ChunkCoord]
      /\ tab \in [Machine -> SUBSET (Name \cup {NoName})]
      /\ known \in [Machine -> SUBSET (0 .. MaxEntityId)]
      /\ loaded \in [Machine -> SUBSET ChunkCoord]
      /\ history \in [Machine -> SUBSET Event]
      /\ untold \in [Machine -> SUBSET (0 .. MaxEntityId)]
  BY Zenon DEF Init, TrackerInit
<1> QED BY <1>1, <1>2, <1>3, <1>4 DEF TypeOK

\* Actions that only ask for a disconnect.
LEMMA TypeReject ==
  ASSUME TypeOK, NEW m \in Machine, Reject(m)
  PROVE  TypeOK'
BY DEF TypeOK, Reject, disconnect, playerVars, trackerVars, clientVars,
       ghostVars

\* A connect.
LEMMA TypeConnect ==
  ASSUME TypeOK, NEW m \in Machine, onClientConnected(m)
  PROVE  TypeOK'
<1>1. history' \in [Machine -> SUBSET Event]
  <2>1. ASSUME NEW p \in Machine PROVE history'[p] \in SUBSET Event
    BY DEF TypeOK, onClientConnected, Event
  <2>2. history' = [p \in Machine |-> history'[p]]
    BY DEF TypeOK, onClientConnected
  <2> QED BY <2>1, <2>2
<1> QED
  BY <1>1, ViewDistanceAssumption
     DEF TypeOK, onClientConnected, trackerVars, clientVars, Phase

\* A handshake.
LEMMA TypeHandshake ==
  ASSUME TypeOK, NEW m \in Machine, Handshake(m)
  PROVE  TypeOK'
<1>1. CASE Reject(m)
  BY <1>1, TypeReject
<1>2. CASE ~ Reject(m)
  BY <1>2 DEF TypeOK, Handshake, Phase, playerVars, trackerVars, clientVars,
              ghostVars
<1> QED BY <1>1, <1>2

\* A login.
LEMMA TypeLogin ==
  ASSUME TypeOK, NEW m \in Machine, NEW name \in Name, LoginStart(m, name)
  PROVE  TypeOK'
<1> USE DEF TypeOK
<1>1. phase' \in [Machine -> Phase]
  BY DEF LoginStart, Phase
<1>2. /\ username' \in [Machine -> Name \cup {NoName}]
      /\ entityId' \in [Machine -> 0 .. MaxEntityId]
      /\ nextEntityId' \in 1 .. MaxEntityId + 1
      /\ players' \subseteq Machine
  BY BoundAssumption DEF LoginStart
<1>3. tab' \in [Machine -> SUBSET (Name \cup {NoName})]
  <2>1. currentPlayers \subseteq Name \cup {NoName}
    BY DEF currentPlayers
  <2> QED BY <2>1 DEF LoginStart
<1>4. crashed' \in BOOLEAN
  BY UseType DEF LoginStart
<1> QED BY <1>1, <1>2, <1>3, <1>4 DEF LoginStart, trackerVars, ghostVars

\* The part of a change of settings that both phases share.
LEMMA TypeSettings ==
  ASSUME TypeOK, NEW m \in Machine, NEW new \in 0 .. 255,
         onClientSettingsChange(m, new)
  PROVE  /\ viewDistance' \in [Machine -> 0 .. 255]
         /\ membership' \in [Machine -> SUBSET ChunkCoord]
         /\ subscriptions' \in [Machine -> SUBSET ChunkCoord]
         /\ Shrunk(m, new) \subseteq ChunkCoord
         /\ Grown(m, new) \subseteq ChunkCoord
<1>1. viewDistance[m] \in Int /\ chunk[m] \in ChunkCoord /\ new \in Int
  <2>1. viewDistance[m] \in 0 .. 255 /\ chunk[m] \in ChunkCoord
    BY Zenon DEF TypeOK
  <2> QED BY <2>1
<1>2. /\ Beyond(chunk[m], viewDistance[m], new) \in SUBSET ChunkCoord
      /\ Beyond(chunk[m], new, viewDistance[m]) \in SUBSET ChunkCoord
  <2>1. Beyond(chunk[m], viewDistance[m], new) \in SUBSET ChunkCoord
    BY <1>1, BeyondType, Zenon
  <2>2. Beyond(chunk[m], new, viewDistance[m]) \in SUBSET ChunkCoord
    BY <1>1, BeyondType, Zenon
  <2> QED BY <2>1, <2>2
<1>3. subscriptions' \in [Machine -> SUBSET ChunkCoord]
  <2>1. CASE viewDistance[m] = 0
    BY <2>1 DEF TypeOK, onClientSettingsChange
  <2>2. CASE viewDistance[m] # 0
    <3> DEFINE s == CASE new = viewDistance[m] -> subscriptions[m]
                      [] new < viewDistance[m] ->
                           subscriptions[m] \ Beyond(chunk[m], viewDistance[m], new)
                      [] new > viewDistance[m] ->
                           subscriptions[m] \cup Beyond(chunk[m], new, viewDistance[m])
    <3>1. subscriptions' = [subscriptions EXCEPT ![m] = s]
      BY <2>2, Zenon DEF onClientSettingsChange, updateViewDistance
    <3>2. subscriptions[m] \in SUBSET ChunkCoord
      BY DEF TypeOK
    <3>3. s \in SUBSET ChunkCoord
      <4>1. CASE new = viewDistance[m]
        BY <3>2, <4>1
      <4>2. CASE new < viewDistance[m]
        BY <1>1, <3>2, <4>2
      <4>3. CASE new > viewDistance[m]
        BY <1>1, <1>2, <3>2, <4>3
      <4> QED BY <1>1, <4>1, <4>2, <4>3
    <3> HIDE DEF s
    <3> QED BY <3>1, <3>3 DEF TypeOK
  <2> QED BY <2>1, <2>2
<1> QED BY <1>2, <1>3 DEF TypeOK, onClientSettingsChange, Shrunk, Grown

\* Settings before PLAY.
LEMMA TypeSettingsInit ==
  ASSUME TypeOK, NEW m \in Machine, NEW requested \in RequestedViewDistance,
         ClientSettingsInit(m, requested)
  PROVE  TypeOK'
<1> DEFINE new == Clamp(requested)
           sent == Grown(m, new) \cup Square(chunk[m], new)
<1>1. new \in 0 .. 255
  BY ClampType
<1>2. onClientSettingsChange(m, new)
  BY DEF ClientSettingsInit
<1> HIDE DEF new
<1>3. /\ viewDistance' \in [Machine -> 0 .. 255]
      /\ membership' \in [Machine -> SUBSET ChunkCoord]
      /\ subscriptions' \in [Machine -> SUBSET ChunkCoord]
      /\ Shrunk(m, new) \subseteq ChunkCoord
      /\ Grown(m, new) \subseteq ChunkCoord
  BY <1>1, <1>2, TypeSettings
<1>4. sent \subseteq ChunkCoord
  <2>1. chunk[m] \in ChunkCoord
    BY Zenon DEF TypeOK
  <2>2. Square(chunk[m], new) \subseteq ChunkCoord
    BY <1>1, <2>1, SquareType
  <2> QED BY <1>3, <2>2
<1>5. /\ loaded' = [loaded EXCEPT ![m] = (@ \ Shrunk(m, new)) \cup sent]
      /\ chunks' = chunks \cup sent
  BY DEF ClientSettingsInit, getOrCreateChunk, new
<1> HIDE DEF sent
<1>6. loaded' \in [Machine -> SUBSET ChunkCoord] /\ chunks' \subseteq ChunkCoord
  BY <1>4, <1>5 DEF TypeOK
<1>7. nextTeleportId' \in [Machine -> 0 .. MaxTeleportId + 1]
  BY BoundAssumption DEF TypeOK, ClientSettingsInit
<1>8. outstanding' \in [Machine -> SUBSET (0 .. MaxTeleportId)]
  <2>1. nextTeleportId[m] \in 0 .. MaxTeleportId
    BY BoundAssumption DEF TypeOK, ClientSettingsInit
  <2> QED BY <2>1 DEF TypeOK, ClientSettingsInit
<1>9. history' \in [Machine -> SUBSET Event]
  <2>1. history[m] \cup {"resized"} \in SUBSET Event
    BY DEF TypeOK, Event
  <2> QED BY <2>1 DEF TypeOK, ClientSettingsInit
<1> QED BY <1>3, <1>6, <1>7, <1>8, <1>9 DEF TypeOK, ClientSettingsInit

\* Settings in PLAY.
LEMMA TypeSettingsPlay ==
  ASSUME TypeOK, NEW m \in Machine, NEW requested \in RequestedViewDistance,
         ClientSettings(m, requested)
  PROVE  TypeOK'
<1> DEFINE new == Clamp(requested)
<1>1. new \in 0 .. 255
  BY ClampType
<1>2. onClientSettingsChange(m, new)
  BY DEF ClientSettings
<1> HIDE DEF new
<1>3. /\ viewDistance' \in [Machine -> 0 .. 255]
      /\ membership' \in [Machine -> SUBSET ChunkCoord]
      /\ subscriptions' \in [Machine -> SUBSET ChunkCoord]
      /\ Shrunk(m, new) \subseteq ChunkCoord
      /\ Grown(m, new) \subseteq ChunkCoord
  BY <1>1, <1>2, TypeSettings
<1>4. /\ loaded' = [loaded EXCEPT ![m] =
                      (@ \ Shrunk(m, new)) \cup Grown(m, new)]
      /\ chunks' = chunks \cup Grown(m, new)
  BY DEF ClientSettings, getOrCreateChunk, new
<1>5. loaded' \in [Machine -> SUBSET ChunkCoord] /\ chunks' \subseteq ChunkCoord
  BY <1>3, <1>4 DEF TypeOK
<1>6. history' \in [Machine -> SUBSET Event]
  <2>1. history[m] \cup {"resized"} \in SUBSET Event
    BY DEF TypeOK, Event
  <2> QED BY <2>1 DEF TypeOK, ClientSettings
<1> QED BY <1>3, <1>5, <1>6 DEF TypeOK, ClientSettings

\* The entry of a player into the world.
LEMMA TypeConfirm ==
  ASSUME TypeOK, NEW m \in Machine, NEW id, TeleportConfirm(m, id)
  PROVE  TypeOK'
<1> DEFINE audience == subscribers(subscriptions', chunk[m]) \ {m}
           visible == (UNION {members(membership', c) :
                                c \in Square(chunk[m], viewDistance[m])}) \ {m}
<1>1. /\ phase' \in [Machine -> Phase]
      /\ closing' \in [Machine -> BOOLEAN]
      /\ outstanding' \in [Machine -> SUBSET (0 .. MaxTeleportId)]
  BY DEF TypeOK, TeleportConfirm, disconnect, Phase
<1>2. /\ membership' \in [Machine -> SUBSET ChunkCoord]
      /\ subscriptions' \in [Machine -> SUBSET ChunkCoord]
  <2>1. chunk[m] \in ChunkCoord /\ viewDistance[m] \in 0 .. 255
    BY Zenon DEF TypeOK
  <2>2. Square(chunk[m], viewDistance[m]) \subseteq ChunkCoord
    BY <2>1, SquareType
  <2> QED BY <2>1, <2>2 DEF TypeOK, TeleportConfirm, enter
<1>3. /\ known' = [p \in Machine |->
                     CASE p = m -> known[m] \cup {entityId[q] : q \in visible}
                       [] p \in Live(audience) -> known[p] \cup {entityId[m]}
                       [] OTHER -> known[p]]
      /\ Use(audience \cup visible)
  BY Zenon DEF TeleportConfirm
<1>4. visible \subseteq Machine
  BY DEF members
<1> HIDE DEF audience, visible
<1>5. known' \in [Machine -> SUBSET (0 .. MaxEntityId)]
  BY <1>3, <1>4 DEF TypeOK
<1>6. crashed' \in BOOLEAN
  BY <1>3, UseType
<1>7. history' \in [Machine -> SUBSET Event]
  <2>1. history[m] \cup {"unconfirmed"} \in SUBSET Event
    BY DEF TypeOK, Event
  <2> QED BY <2>1 DEF TypeOK, TeleportConfirm
<1> QED BY <1>1, <1>2, <1>5, <1>6, <1>7 DEF TypeOK, TeleportConfirm

\* A move into another chunk.
LEMMA TypeMove ==
  ASSUME TypeOK, NEW m \in Machine, NEW to \in Position, Move(m, to)
  PROVE  TypeOK'
<1> DEFINE vd == viewDistance[m]
           removed == Square(chunk[m], vd) \ Square(to, vd)
           added == Square(to, vd) \ Square(chunk[m], vd)
           fromSubs == subscribers(subscriptions', chunk[m]) \ {m}
           toSubs == subscribers(subscriptions', to) \ {m}
<1>1. chunk[m] \in ChunkCoord /\ vd \in 0 .. 255 /\ to \in ChunkCoord
  BY PositionAssumption, Zenon DEF TypeOK
<1>2. added \subseteq ChunkCoord
  <2>1. Square(to, vd) \subseteq ChunkCoord
    BY <1>1, SquareType
  <2> QED BY <2>1
<1>3. /\ loaded' = [loaded EXCEPT ![m] = (@ \ removed) \cup added]
      /\ subscriptions' = [subscriptions EXCEPT ![m] = (@ \ removed) \cup added]
      /\ chunks' = chunks \cup added
      /\ membership' = [membership EXCEPT ![m] = (@ \ {chunk[m]}) \cup {to}]
  BY DEF Move, onChunkTransition, move, resubscribe, getOrCreateChunk
<1>4. /\ known' = [p \in Machine |->
                     CASE p \in Live(fromSubs \ toSubs) ->
                            known[p] \ {entityId[m]}
                       [] p \in Live(toSubs \ fromSubs) ->
                            known[p] \cup {entityId[m]}
                       [] OTHER -> known[p]]
      /\ untold' = [p \in Machine |->
           CASE p = m -> untold[m] \cup EntitiesIn(removed \cup added, m)
             [] p \in (fromSubs \ toSubs) \cup (toSubs \ fromSubs) ->
                  untold[p] \ {entityId[m]}
             [] OTHER -> untold[p]]
      /\ Use(fromSubs \cup toSubs)
  BY Zenon DEF Move, onChunkTransition
<1> HIDE DEF removed, added, fromSubs, toSubs
<1>5. /\ loaded' \in [Machine -> SUBSET ChunkCoord]
      /\ subscriptions' \in [Machine -> SUBSET ChunkCoord]
      /\ chunks' \subseteq ChunkCoord
      /\ membership' \in [Machine -> SUBSET ChunkCoord]
  BY <1>1, <1>2, <1>3 DEF TypeOK
<1>6. known' \in [Machine -> SUBSET (0 .. MaxEntityId)]
  BY <1>4 DEF TypeOK
<1>7. crashed' \in BOOLEAN
  BY <1>4, UseType
<1>8. untold' \in [Machine -> SUBSET (0 .. MaxEntityId)]
  <2>1. EntitiesIn(removed \cup added, m) \subseteq 0 .. MaxEntityId
    BY EntitiesInType
  <2> QED BY <1>4, <2>1 DEF TypeOK
<1>9. chunk' \in [Machine -> ChunkCoord]
  BY <1>1 DEF TypeOK, Move
<1> QED BY <1>5, <1>6, <1>7, <1>8, <1>9 DEF TypeOK, Move

\* A broadcast, to the chunk or to everyone.
LEMMA TypeBroadcast ==
  ASSUME TypeOK, NEW m \in Machine, broadcastLocally(m) \/ Chat(m)
  PROVE  TypeOK'
<1>1. crashed' \in BOOLEAN
  BY UseType DEF broadcastLocally, Chat
<1> QED BY <1>1 DEF TypeOK, broadcastLocally, Chat, playerVars, trackerVars,
                    clientVars, ghostVars

\* The end of a session, in PLAY and before.
LEMMA TypeDisconnected ==
  ASSUME TypeOK, NEW m \in Machine, onClientDisconnected(m)
  PROVE  TypeOK'
<1>1. /\ phase' \in [Machine -> Phase]
      /\ closing' \in [Machine -> BOOLEAN]
      /\ username' \in [Machine -> Name \cup {NoName}]
      /\ entityId' \in [Machine -> 0 .. MaxEntityId]
      /\ viewDistance' \in [Machine -> 0 .. 255]
      /\ nextTeleportId' \in [Machine -> 0 .. MaxTeleportId + 1]
  BY BoundAssumption DEF TypeOK, onClientDisconnected, Freed, Phase
<1>2. /\ outstanding' \in [Machine -> SUBSET (0 .. MaxTeleportId)]
      /\ loaded' \in [Machine -> SUBSET ChunkCoord]
      /\ nextEntityId' \in 1 .. MaxEntityId + 1
      /\ chunks' \subseteq ChunkCoord
  BY DEF TypeOK, onClientDisconnected, Freed
<1>3. chunk' \in [Machine -> ChunkCoord]
  <2>1. Spawn \in ChunkCoord
    BY DEF Spawn, ChunkCoord
  <2> QED BY <2>1 DEF TypeOK, onClientDisconnected, Freed
<1>4. CASE LeavePlay(m)
  <2> DEFINE audience == subscribers(subscriptions', chunk[m]) \ {m}
  <2>1. /\ membership' \in [Machine -> SUBSET ChunkCoord]
        /\ subscriptions' \in [Machine -> SUBSET ChunkCoord]
        /\ players' \subseteq Machine
        /\ tab' \in [Machine -> SUBSET (Name \cup {NoName})]
        /\ abandoned' \subseteq Name \cup {NoName}
    BY <1>4 DEF TypeOK, LeavePlay, leave, removePlayer
  <2>5. history' \in [Machine -> SUBSET Event]
    <3>1. history' = [p \in Machine |->
                        CASE p = m -> leftBehind(m)
                          [] p \in LoggedIn \ {m} /\ username[p] = username[m] ->
                               history[p] \cup {"delisted"}
                          [] OTHER -> history[p]]
      BY <1>4, Zenon DEF LeavePlay
    <3>2. leftBehind(m) \in SUBSET Event
      BY DEF TypeOK, leftBehind
    <3>3. \A p \in Machine : history[p] \cup {"delisted"} \in SUBSET Event
      BY DEF TypeOK, Event
    <3> QED BY <3>1, <3>2, <3>3 DEF TypeOK
  <2>2. /\ known' = [p \in Machine |->
                       CASE p = m -> {}
                         [] p \in Live(audience) -> known[p] \ {entityId[m]}
                         [] OTHER -> known[p]]
        /\ untold' = [p \in Machine |->
                        CASE p = m -> {}
                          [] p \in audience -> untold[p] \ {entityId[m]}
                          [] OTHER -> untold[p]]
        /\ Use(audience \cup (players \ {m}))
    BY <1>4, Zenon DEF LeavePlay
  <2> HIDE DEF audience
  <2>3. /\ known' \in [Machine -> SUBSET (0 .. MaxEntityId)]
        /\ untold' \in [Machine -> SUBSET (0 .. MaxEntityId)]
    BY <2>2 DEF TypeOK
  <2>4. crashed' \in BOOLEAN
    BY <2>2, UseType
  <2> QED BY <1>1, <1>2, <1>3, <2>1, <2>3, <2>4, <2>5 DEF TypeOK
<1>5. CASE LeaveEarly(m)
  <2>1. history' \in [Machine -> SUBSET Event]
    <3>1. /\ leftBehind(m) \cup {"early"} \in SUBSET Event
          /\ leftBehind(m) \cup (history[m] \cap {"early"}) \in SUBSET Event
      BY DEF TypeOK, leftBehind, Event
    <3> QED BY <1>5, <3>1 DEF TypeOK, LeaveEarly
  <2> QED BY <1>1, <1>2, <1>3, <1>5, <2>1 DEF TypeOK, LeaveEarly, trackerVars
<1> QED BY <1>4, <1>5 DEF onClientDisconnected

\* Every step preserves the types.
LEMMA TypeNext == TypeOK /\ [Next]_vars => TypeOK'
<1> SUFFICES ASSUME TypeOK, [Next]_vars PROVE TypeOK'
  OBVIOUS
<1>1. CASE UNCHANGED vars
  BY <1>1 DEF TypeOK, vars, playerVars, trackerVars, clientVars, ghostVars
<1>2. ASSUME NEW m \in Machine, onClientConnected(m) PROVE TypeOK'
  BY <1>2, TypeConnect
<1>3. ASSUME NEW m \in Machine, Handshake(m) PROVE TypeOK'
  BY <1>3, TypeHandshake
<1>4. ASSUME NEW m \in Machine, NEW name \in Name, LoginStart(m, name)
      PROVE  TypeOK'
  BY <1>4, TypeLogin
<1>5. ASSUME NEW m \in Machine,
             \/ LoginRejected(m) \/ PlayInitRejected(m) \/ PlayRejected(m)
             \/ Status(m) \/ Timeout(m)
      PROVE  TypeOK'
  BY <1>5, TypeReject DEF LoginRejected, PlayInitRejected, PlayRejected,
                          Status, Timeout
<1>6. ASSUME NEW m \in Machine, NEW requested \in RequestedViewDistance,
             ClientSettingsInit(m, requested) \/ ClientSettings(m, requested)
      PROVE  TypeOK'
  BY <1>6, TypeSettingsInit, TypeSettingsPlay
<1>7. ASSUME NEW m \in Machine, NEW id \in 0 .. MaxTeleportId + 1,
             TeleportConfirm(m, id)
      PROVE  TypeOK'
  BY <1>7, TypeConfirm
<1>8. ASSUME NEW m \in Machine, NEW to \in Position, Move(m, to)
      PROVE  TypeOK'
  BY <1>8, TypeMove
<1>9. ASSUME NEW m \in Machine, broadcastLocally(m) \/ Chat(m) PROVE TypeOK'
  BY <1>9, TypeBroadcast
<1>10. ASSUME NEW m \in Machine, onClientDisconnected(m) PROVE TypeOK'
  BY <1>10, TypeDisconnected
<1> QED
  BY <1>1, <1>2, <1>3, <1>4, <1>5, <1>6, <1>7, <1>8, <1>9, <1>10 DEF Next

(***************************************************************************)
(* Whatever clients send and in whatever order, every field of the shared  *)
(* state keeps its type: the view distance stays a UInt8 whatever Int8 a   *)
(* client asks for, and the pointers in players are addresses of machines. *)
(***************************************************************************)
THEOREM TypeCorrect == Spec => []TypeOK
BY TypeInit, TypeNext, PTL DEF Spec

------------------------------------------------------------------------------
(***************************************************************************)
(* Membership.  The property is inductive together with the types.         *)
(***************************************************************************)
LEMMA MembershipInit == Init => MembershipExact
BY DEF Init, TrackerInit, MembershipExact

LEMMA MembershipNext == TypeOK /\ MembershipExact /\ [Next]_vars => MembershipExact'
<1> SUFFICES ASSUME TypeOK, MembershipExact, [Next]_vars
             PROVE  MembershipExact'
  OBVIOUS
<1> USE DEF MembershipExact
<1> DEFINE Quiet == UNCHANGED <<phase, chunk, membership>>
<1>1. CASE Quiet
  BY <1>1
<1>2. ASSUME UNCHANGED vars PROVE Quiet
  BY <1>2 DEF vars, playerVars, trackerVars
<1>3. ASSUME NEW m \in Machine,
             onClientConnected(m) \/ Handshake(m)
             \/ \E name \in Name : LoginStart(m, name)
      PROVE  MembershipExact'
  <2>1. CASE onClientConnected(m)
    BY <2>1 DEF TypeOK, onClientConnected, Running, trackerVars
  <2>2. CASE Handshake(m)
    BY <2>2 DEF TypeOK, Handshake, Reject, Running, playerVars, trackerVars
  <2>3. ASSUME NEW name \in Name, LoginStart(m, name) PROVE MembershipExact'
    BY <2>3 DEF TypeOK, LoginStart, Running, trackerVars
  <2> QED BY <1>3, <2>1, <2>2, <2>3
<1>4. ASSUME NEW m \in Machine,
             \/ LoginRejected(m) \/ PlayInitRejected(m) \/ PlayRejected(m)
             \/ Status(m) \/ Timeout(m) \/ broadcastLocally(m) \/ Chat(m)
      PROVE  Quiet
  BY <1>4 DEF LoginRejected, PlayInitRejected, PlayRejected, Status, Timeout,
              Reject, broadcastLocally, Chat, playerVars, trackerVars
<1>5. ASSUME NEW m \in Machine, NEW requested \in RequestedViewDistance,
             ClientSettingsInit(m, requested) \/ ClientSettings(m, requested)
      PROVE  Quiet
  BY <1>5 DEF ClientSettingsInit, ClientSettings, onClientSettingsChange
<1>6. ASSUME NEW m \in Machine, NEW id, TeleportConfirm(m, id)
      PROVE  MembershipExact'
  BY <1>6 DEF TypeOK, TeleportConfirm, Running, enter
<1>7. ASSUME NEW m \in Machine, NEW to \in Position, Move(m, to)
      PROVE  MembershipExact'
  BY <1>7 DEF TypeOK, Move, onChunkTransition, Running, move
<1>8. ASSUME NEW m \in Machine, onClientDisconnected(m) PROVE MembershipExact'
  <2>1. CASE phase[m] = "PLAY"
    BY <1>8, <2>1 DEF TypeOK, onClientDisconnected, LeavePlay, Freed, leave
  <2>2. CASE phase[m] # "PLAY"
    BY <1>8, <2>2 DEF TypeOK, onClientDisconnected, LeaveEarly, Freed,
                      trackerVars
  <2> QED BY <2>1, <2>2
<1> QED
  BY <1>1, <1>2, <1>3, <1>4, <1>5, <1>6, <1>7, <1>8 DEF Next

(***************************************************************************)
(* The chunk the destructor takes a player out of is always the one, and   *)
(* the only one, it is a member of: no pointer of a freed machine is left  *)
(* in the membership map, and a newcomer is never sent the spawn packet of *)
(* a player that is gone.                                                  *)
(***************************************************************************)
THEOREM MembershipCorrect == Spec => []MembershipExact
<1>1. Init => TypeOK /\ MembershipExact
  BY TypeInit, MembershipInit
<1>2. TypeOK /\ MembershipExact /\ [Next]_vars => (TypeOK /\ MembershipExact)'
  BY TypeNext, MembershipNext
<1> QED BY <1>1, <1>2, PTL DEF Spec
------------------------------------------------------------------------------
\* The end of a session leaves the others' own state alone: it only adds to
\* what happened to them.
LEMMA EndSpares ==
  ASSUME TypeOK, NEW m \in Machine, onClientDisconnected(m),
         NEW p \in Machine, p # m
  PROVE  /\ UNCHANGED <<phase[p], username[p], entityId[p], viewDistance[p],
                        chunk[p], outstanding[p], loaded[p], membership[p],
                        subscriptions[p]>>
         /\ history'[p] \in {history[p], history[p] \cup {"delisted"}}
         /\ history[p] \subseteq history'[p]
<1>1. UNCHANGED <<phase[p], username[p], entityId[p], viewDistance[p], chunk[p],
                  outstanding[p], loaded[p]>>
  BY DEF TypeOK, onClientDisconnected, Freed
<1>2. UNCHANGED <<membership[p], subscriptions[p]>>
  BY DEF TypeOK, onClientDisconnected, LeavePlay, LeaveEarly, leave, trackerVars
<1>3. history'[p] \in {history[p], history[p] \cup {"delisted"}}
  <2>1. CASE LeavePlay(m)
    <3>1. history' = [q \in Machine |->
                        CASE q = m -> leftBehind(m)
                          [] q \in LoggedIn \ {m} /\ username[q] = username[m] ->
                               history[q] \cup {"delisted"}
                          [] OTHER -> history[q]]
      BY <2>1, Zenon DEF LeavePlay
    <3> QED BY <3>1
  <2>2. CASE LeaveEarly(m)
    BY <2>2 DEF TypeOK, LeaveEarly
  <2> QED BY <2>1, <2>2 DEF onClientDisconnected
<1> QED BY <1>1, <1>2, <1>3

(***************************************************************************)
(* Subscriptions.  Inductive with the types: a step either leaves the      *)
(* subscriptions of a steady player alone or exchanges one square for      *)
(* another, and a step that would not is the one that makes it unsteady.   *)
(***************************************************************************)
LEMMA SubscriptionInit == Init => SquareSubscription
BY DEF Init, SquareSubscription

LEMMA SubscriptionNext ==
  TypeOK /\ SquareSubscription /\ [Next]_vars => SquareSubscription'
<1> SUFFICES ASSUME TypeOK, SquareSubscription, [Next]_vars
             PROVE  SquareSubscription'
  OBVIOUS
<1> USE DEF SquareSubscription, Steady
<1> DEFINE Quiet == UNCHANGED <<phase, chunk, viewDistance, subscriptions,
                                history>>
<1>1. CASE Quiet
  BY <1>1
<1>2. ASSUME UNCHANGED vars PROVE Quiet
  BY <1>2 DEF vars, playerVars, trackerVars, ghostVars
<1>3. ASSUME NEW m \in Machine, onClientConnected(m) PROVE SquareSubscription'
  BY <1>3 DEF TypeOK, onClientConnected, trackerVars
<1>4. ASSUME NEW m \in Machine, Handshake(m) PROVE SquareSubscription'
  BY <1>4 DEF TypeOK, Handshake, Reject, Running, playerVars, trackerVars,
              ghostVars
<1>5. ASSUME NEW m \in Machine, NEW name \in Name, LoginStart(m, name)
      PROVE  SquareSubscription'
  BY <1>5 DEF TypeOK, LoginStart, Running, trackerVars, ghostVars
<1>6. ASSUME NEW m \in Machine,
             \/ LoginRejected(m) \/ PlayInitRejected(m) \/ PlayRejected(m)
             \/ Status(m) \/ Timeout(m) \/ broadcastLocally(m) \/ Chat(m)
      PROVE  Quiet
  BY <1>6 DEF LoginRejected, PlayInitRejected, PlayRejected, Status, Timeout,
              Reject, broadcastLocally, Chat, playerVars, trackerVars,
              ghostVars
<1>7. ASSUME NEW m \in Machine, NEW requested \in RequestedViewDistance,
             ClientSettingsInit(m, requested)
      PROVE  SquareSubscription'
  <2> DEFINE new == Clamp(requested)
  <2>1. /\ viewDistance' = [viewDistance EXCEPT ![m] = new]
        /\ phase[m] = "PLAY_INIT"
        /\ UNCHANGED <<phase, chunk>>
    BY <1>7 DEF ClientSettingsInit, onClientSettingsChange, Running
  <2>2. ASSUME NEW p \in Machine, p # m
        PROVE  /\ subscriptions'[p] = subscriptions[p]
               /\ history'[p] = history[p]
    BY <1>7, <2>2 DEF TypeOK, ClientSettingsInit, onClientSettingsChange, updateViewDistance
  <2>3. ASSUME Steady(m)' PROVE Steady(m) /\ subscriptions'[m] = subscriptions[m]
    <3>1. viewDistance[m] \in {0, new} /\ history'[m] = history[m]
      BY <1>7, <2>3 DEF TypeOK, ClientSettingsInit
    <3>2. subscriptions' = subscriptions \/ updateViewDistance(chunk[m], new, new, m)
      BY <1>7, <3>1 DEF ClientSettingsInit, onClientSettingsChange
    <3>3. new \in 0 .. 255
      BY ClampType
    <3> HIDE DEF new
    <3>4. ASSUME updateViewDistance(chunk[m], new, new, m)
          PROVE  subscriptions'[m] = subscriptions[m]
      BY <3>3, <3>4 DEF TypeOK, updateViewDistance
    <3> QED BY <2>3, <3>1, <3>2, <3>3, <3>4
  <2> HIDE DEF new
  <2> QED BY <2>1, <2>2, <2>3 DEF TypeOK
<1>8. ASSUME NEW m \in Machine, NEW requested \in RequestedViewDistance,
             ClientSettings(m, requested)
      PROVE  SquareSubscription'
  <2> DEFINE new == Clamp(requested)
  <2>1. /\ viewDistance' = [viewDistance EXCEPT ![m] = new]
        /\ phase[m] = "PLAY"
        /\ UNCHANGED <<phase, chunk>>
    BY <1>8 DEF ClientSettings, onClientSettingsChange, Running
  <2>2. ASSUME NEW p \in Machine, p # m
        PROVE  /\ subscriptions'[p] = subscriptions[p]
               /\ history'[p] = history[p]
    BY <1>8, <2>2 DEF TypeOK, ClientSettings, onClientSettingsChange, updateViewDistance
  <2>3. ASSUME Steady(m)'
        PROVE  /\ Steady(m)
               /\ subscriptions'[m] = subscriptions[m]
               /\ viewDistance[m] = new
    <3>1. viewDistance[m] = new /\ history'[m] = history[m]
      BY <1>8, <2>3 DEF TypeOK, ClientSettings
    <3>2. subscriptions' = subscriptions \/ updateViewDistance(chunk[m], new, new, m)
      BY <1>8, <3>1 DEF ClientSettings, onClientSettingsChange
    <3>3. new \in 0 .. 255
      BY ClampType
    <3> HIDE DEF new
    <3>4. ASSUME updateViewDistance(chunk[m], new, new, m)
          PROVE  subscriptions'[m] = subscriptions[m]
      BY <3>3, <3>4 DEF TypeOK, updateViewDistance
    <3> QED BY <2>3, <3>1, <3>2, <3>3, <3>4
  <2> HIDE DEF new
  <2> QED BY <2>1, <2>2, <2>3 DEF TypeOK
<1>9. ASSUME NEW m \in Machine, NEW id, TeleportConfirm(m, id)
      PROVE  SquareSubscription'
  <2>1. /\ phase[m] = "PLAY_INIT"
        /\ phase' = [phase EXCEPT ![m] = "PLAY"]
        /\ subscriptions' = [subscriptions EXCEPT ![m] =
                               @ \cup Square(chunk[m], viewDistance[m])]
        /\ history' \in {history, [history EXCEPT ![m] = @ \cup {"unconfirmed"}]}
        /\ UNCHANGED <<viewDistance, chunk>>
    BY <1>9 DEF TeleportConfirm, Running, enter
  <2>2. ASSUME NEW p \in Machine PROVE Steady(p)' => Steady(p)
    <3>1. history'[p] \in {history[p], history[p] \cup {"unconfirmed"}}
      BY <2>1 DEF TypeOK
    <3> QED BY <3>1
  <2> DEFINE view == Square(chunk[m], viewDistance[m])
  <2>3. subscriptions'[m] = subscriptions[m] \cup view /\ phase'[m] = "PLAY"
    BY <2>1 DEF TypeOK
  <2>4. ASSUME NEW p \in Machine, p # m
        PROVE  subscriptions'[p] = subscriptions[p] /\ phase'[p] = phase[p]
    BY <2>1, <2>4 DEF TypeOK
  <2>5. Steady(m) => subscriptions[m] = {}
    BY <2>1
  <2> HIDE DEF Steady
  <2> QED BY <2>1, <2>2, <2>3, <2>4, <2>5
<1>10. ASSUME NEW m \in Machine, NEW to \in Position, Move(m, to)
       PROVE  SquareSubscription'
  <2> DEFINE before == Square(chunk[m], viewDistance[m])
             after == Square(to, viewDistance[m])
  <2>1. /\ subscriptions' = [subscriptions EXCEPT ![m] =
                               (@ \ (before \ after)) \cup (after \ before)]
        /\ chunk' = [chunk EXCEPT ![m] = to]
        /\ phase[m] = "PLAY"
        /\ UNCHANGED <<phase, viewDistance, history>>
    BY <1>10 DEF Move, onChunkTransition, Running, resubscribe
  <2>2. ASSUME NEW p \in Machine, p # m, phase'[p] # "FREE", Steady(p)'
        PROVE  subscriptions'[p] = IF phase'[p] = "PLAY"
                                   THEN Square(chunk'[p], viewDistance'[p])
                                   ELSE {}
    BY <2>1, <2>2 DEF TypeOK
  <2>3. ASSUME Steady(m)'
        PROVE  subscriptions'[m] = Square(chunk'[m], viewDistance'[m])
    <3>1. Steady(m)
      BY <2>1, <2>3 DEF TypeOK
    <3>2. subscriptions[m] = before
      BY <2>1, <3>1
    <3>3. subscriptions'[m] = after
      <4> HIDE DEF before, after
      <4> QED BY <2>1, <3>2 DEF TypeOK
    <3>4. chunk'[m] = to /\ viewDistance'[m] = viewDistance[m]
      BY <2>1 DEF TypeOK
    <3> QED BY <3>3, <3>4
  <2> QED BY <2>1, <2>2, <2>3
<1>11. ASSUME NEW m \in Machine, onClientDisconnected(m)
       PROVE  SquareSubscription'
  <2>1. ASSUME NEW p \in Machine, p # m
        PROVE  /\ UNCHANGED <<phase[p], chunk[p], viewDistance[p], subscriptions[p]>>
               /\ history[p] \subseteq history'[p]
    BY <1>11, <2>1, EndSpares
  <2>2. phase'[m] = "FREE"
    BY <1>11 DEF TypeOK, onClientDisconnected, Freed
  <2> QED BY <2>1, <2>2
<1> QED
  BY <1>1, <1>2, <1>3, <1>4, <1>5, <1>6, <1>7, <1>8, <1>9, <1>10, <1>11 DEF Next

(***************************************************************************)
(* However far and often a player moves, the incremental updates of the    *)
(* tracker leave it subscribed to the square around it and nothing else,   *)
(* as long as its view distance stays what it was when it first counted.   *)
(***************************************************************************)
THEOREM SubscriptionCorrect == Spec => []SquareSubscription
<1>1. Init => TypeOK /\ SquareSubscription
  BY TypeInit, SubscriptionInit
<1>2. TypeOK /\ SquareSubscription /\ [Next]_vars
        => (TypeOK /\ SquareSubscription)'
  BY TypeNext, SubscriptionNext
<1> QED BY <1>1, <1>2, PTL DEF Spec

------------------------------------------------------------------------------
(***************************************************************************)
(* Chunks.  SubscribedChunksLoaded is not inductive: that the square is    *)
(* loaded when the player enters it is a fact about PLAY_INIT, where an    *)
(* outstanding teleport id is the evidence that settings were handled, and *)
(* before PLAY_INIT nothing is subscribed or outstanding.                  *)
(***************************************************************************)
NothingYet(m) ==
  phase[m] \notin {"PLAY_INIT", "PLAY"} =>
    /\ outstanding[m] = {}
    /\ phase[m] # "FREE" /\ "stale" \notin history[m] => subscriptions[m] = {}

SubscribedLoaded(m) ==
  /\ phase[m] \in {"PLAY_INIT", "PLAY"}
  /\ history[m] \cap {"stale", "unconfirmed"} = {}
  => subscriptions[m] \subseteq loaded[m]

SquareLoaded(m) ==
  phase[m] = "PLAY_INIT" /\ outstanding[m] # {} =>
    Square(chunk[m], viewDistance[m]) \subseteq loaded[m]

LoadInv == \A m \in Machine : NothingYet(m) /\ SubscribedLoaded(m) /\ SquareLoaded(m)

\* The strengthening implies the property.
LEMMA LoadInvImplies == LoadInv => SubscribedChunksLoaded
<1> SUFFICES ASSUME LoadInv, NEW m \in Playing,
                    history[m] \cap {"stale", "unconfirmed"} = {}
             PROVE  subscriptions[m] \subseteq loaded[m]
  BY DEF SubscribedChunksLoaded
<1> QED BY DEF LoadInv, SubscribedLoaded, Playing

\* It holds initially.
LEMMA LoadInvInit == Init => LoadInv
<1> SUFFICES ASSUME Init, NEW m \in Machine
             PROVE  NothingYet(m) /\ SubscribedLoaded(m) /\ SquareLoaded(m)
  BY DEF LoadInv
<1>1. phase[m] = "FREE" /\ outstanding[m] = {}
  BY DEF Init
<1> QED BY <1>1 DEF NothingYet, SubscribedLoaded, SquareLoaded

\* The tracker loses the chunks the client is told to unload and gains the
\* chunks the client is sent.
LEMMA SettingsExchange ==
  ASSUME TypeOK, NEW m \in Machine, NEW new \in 0 .. 255,
         onClientSettingsChange(m, new)
  PROVE  subscriptions' = [subscriptions EXCEPT ![m] =
                             (@ \ Shrunk(m, new)) \cup Grown(m, new)]
<1> DEFINE vd == viewDistance[m]
           narrower == Beyond(chunk[m], vd, new)
           wider == Beyond(chunk[m], new, vd)
<1>1. vd \in 0 .. 255 /\ subscriptions \in [Machine -> SUBSET ChunkCoord]
  BY Zenon DEF TypeOK
<1>2. CASE vd = 0 \/ vd = new
  <2>1. Shrunk(m, new) = {} /\ Grown(m, new) = {}
    BY <1>2 DEF Shrunk, Grown
  <2>2. subscriptions' = subscriptions
    BY <1>1, <1>2 DEF onClientSettingsChange, updateViewDistance
  <2> QED BY <1>1, <2>1, <2>2
<1>3. CASE vd # 0 /\ vd > new
  <2>1. vd # new /\ ~ (vd < new) /\ ~ (new > vd)
    BY <1>1, <1>3
  <2>2. Shrunk(m, new) = narrower /\ Grown(m, new) = {}
    BY <1>3, <2>1, Zenon DEF Shrunk, Grown
  <2> HIDE DEF narrower
  <2>3. subscriptions' = [subscriptions EXCEPT ![m] = @ \ narrower]
    <3>1. new < vd
      BY <1>1, <1>3
    <3> QED BY <1>3, <2>1, <3>1, Zenon
            DEF onClientSettingsChange, updateViewDistance, narrower
  <2> QED BY <1>1, <2>2, <2>3
<1>4. CASE vd # 0 /\ vd < new
  <2>1. vd # new /\ ~ (vd > new) /\ ~ (new < vd)
    BY <1>1, <1>4
  <2>2. Shrunk(m, new) = {} /\ Grown(m, new) = wider
    BY <1>4, <2>1, Zenon DEF Shrunk, Grown
  <2> HIDE DEF wider
  <2>3. subscriptions' = [subscriptions EXCEPT ![m] = @ \cup wider]
    <3>1. new > vd
      BY <1>1, <1>4
    <3> QED BY <1>4, <2>1, <3>1, Zenon
            DEF onClientSettingsChange, updateViewDistance, wider
  <2> QED BY <1>1, <2>2, <2>3
<1> QED BY <1>1, <1>2, <1>3, <1>4

\* Every step preserves the strengthening.
LEMMA LoadInvNext == TypeOK /\ LoadInv /\ [Next]_vars => LoadInv'
<1> SUFFICES ASSUME TypeOK, LoadInv, [Next]_vars PROVE LoadInv'
  OBVIOUS
<1> USE DEF LoadInv, NothingYet, SubscribedLoaded, SquareLoaded
<1> DEFINE Quiet == UNCHANGED <<phase, chunk, viewDistance, outstanding,
                                subscriptions, loaded, history>>
<1>1. CASE Quiet
  BY <1>1
<1>2. ASSUME UNCHANGED vars PROVE Quiet
  BY <1>2 DEF vars, playerVars, trackerVars, clientVars, ghostVars
<1>3. ASSUME NEW m \in Machine, onClientConnected(m) PROVE LoadInv'
  BY <1>3 DEF TypeOK, onClientConnected, Running, trackerVars, clientVars
<1>4. ASSUME NEW m \in Machine, Handshake(m) PROVE LoadInv'
  BY <1>4 DEF TypeOK, Handshake, Reject, Running, playerVars, trackerVars,
              clientVars, ghostVars
<1>5. ASSUME NEW m \in Machine, NEW name \in Name, LoginStart(m, name)
      PROVE  LoadInv'
  BY <1>5 DEF TypeOK, LoginStart, Running, trackerVars, ghostVars
<1>6. ASSUME NEW m \in Machine,
             \/ LoginRejected(m) \/ PlayInitRejected(m) \/ PlayRejected(m)
             \/ Status(m) \/ Timeout(m) \/ broadcastLocally(m) \/ Chat(m)
      PROVE  Quiet
  BY <1>6 DEF LoginRejected, PlayInitRejected, PlayRejected, Status, Timeout,
              Reject, broadcastLocally, Chat, playerVars, trackerVars,
              clientVars, ghostVars
<1>7. ASSUME NEW m \in Machine, NEW requested \in RequestedViewDistance,
             ClientSettingsInit(m, requested)
      PROVE  LoadInv'
  <2> DEFINE new == Clamp(requested)
             sent == Grown(m, new) \cup Square(chunk[m], new)
  <2>1. /\ loaded' = [loaded EXCEPT ![m] = (@ \ Shrunk(m, new)) \cup sent]
        /\ viewDistance' = [viewDistance EXCEPT ![m] = new]
        /\ phase[m] = "PLAY_INIT"
        /\ UNCHANGED <<phase, chunk>>
    BY <1>7 DEF ClientSettingsInit, onClientSettingsChange, Running
  <2>2. subscriptions' = [subscriptions EXCEPT ![m] =
                            (@ \ Shrunk(m, new)) \cup Grown(m, new)]
    BY <1>7, ClampType, SettingsExchange DEF ClientSettingsInit
  <2>3. history' \in {history, [history EXCEPT ![m] = @ \cup {"resized"}]}
    BY <1>7 DEF ClientSettingsInit
  <2>4. outstanding' = [outstanding EXCEPT ![m] = @ \cup {nextTeleportId[m]}]
    BY <1>7 DEF ClientSettingsInit
  <2> HIDE DEF new
  <2>5. NothingYet(m)' /\ SubscribedLoaded(m)' /\ SquareLoaded(m)'
    BY <2>1, <2>2, <2>3, <2>4 DEF TypeOK
  <2>6. ASSUME NEW p \in Machine, p # m
        PROVE  NothingYet(p)' /\ SubscribedLoaded(p)' /\ SquareLoaded(p)'
    BY <2>1, <2>2, <2>3, <2>4, <2>6 DEF TypeOK
  <2> QED BY <2>5, <2>6
<1>8. ASSUME NEW m \in Machine, NEW requested \in RequestedViewDistance,
             ClientSettings(m, requested)
      PROVE  LoadInv'
  <2> DEFINE new == Clamp(requested)
  <2>1. /\ loaded' = [loaded EXCEPT ![m] =
                        (@ \ Shrunk(m, new)) \cup Grown(m, new)]
        /\ viewDistance' = [viewDistance EXCEPT ![m] = new]
        /\ phase[m] = "PLAY"
        /\ UNCHANGED <<phase, chunk, outstanding>>
    BY <1>8 DEF ClientSettings, onClientSettingsChange, Running
  <2>2. subscriptions' = [subscriptions EXCEPT ![m] =
                            (@ \ Shrunk(m, new)) \cup Grown(m, new)]
    BY <1>8, ClampType, SettingsExchange DEF ClientSettings
  <2>3. history' \in {history, [history EXCEPT ![m] = @ \cup {"resized"}]}
    BY <1>8 DEF ClientSettings
  <2> HIDE DEF new
  <2>4. NothingYet(m)' /\ SubscribedLoaded(m)' /\ SquareLoaded(m)'
    BY <2>1, <2>2, <2>3 DEF TypeOK
  <2>5. ASSUME NEW p \in Machine, p # m
        PROVE  NothingYet(p)' /\ SubscribedLoaded(p)' /\ SquareLoaded(p)'
    BY <2>1, <2>2, <2>3, <2>5 DEF TypeOK
  <2> QED BY <2>4, <2>5
<1>9. ASSUME NEW m \in Machine, NEW id, TeleportConfirm(m, id) PROVE LoadInv'
  <2>1. /\ subscriptions' = [subscriptions EXCEPT ![m] =
                               @ \cup Square(chunk[m], viewDistance[m])]
        /\ phase' = [phase EXCEPT ![m] = "PLAY"]
        /\ outstanding' = [outstanding EXCEPT ![m] = @ \ {id}]
        /\ history' = IF id \in outstanding[m] THEN history
                      ELSE [history EXCEPT ![m] = @ \cup {"unconfirmed"}]
        /\ phase[m] = "PLAY_INIT"
        /\ UNCHANGED <<chunk, viewDistance, loaded>>
    BY <1>9 DEF TeleportConfirm, enter, Running
  <2>2. NothingYet(m)' /\ SquareLoaded(m)'
    BY <2>1 DEF TypeOK
  <2>3. SubscribedLoaded(m)'
    <3>1. CASE id \in outstanding[m]
      BY <2>1, <3>1 DEF TypeOK
    <3>2. CASE id \notin outstanding[m]
      BY <2>1, <3>2 DEF TypeOK
    <3> QED BY <3>1, <3>2
  <2>4. ASSUME NEW p \in Machine, p # m
        PROVE  NothingYet(p)' /\ SubscribedLoaded(p)' /\ SquareLoaded(p)'
    BY <2>1, <2>4 DEF TypeOK
  <2> QED BY <2>2, <2>3, <2>4
<1>10. ASSUME NEW m \in Machine, NEW to \in Position, Move(m, to) PROVE LoadInv'
  <2> DEFINE removed == Square(chunk[m], viewDistance[m])
                          \ Square(to, viewDistance[m])
             added == Square(to, viewDistance[m])
                        \ Square(chunk[m], viewDistance[m])
  <2>1. /\ subscriptions' = [subscriptions EXCEPT ![m] = (@ \ removed) \cup added]
        /\ loaded' = [loaded EXCEPT ![m] = (@ \ removed) \cup added]
        /\ chunk' = [chunk EXCEPT ![m] = to]
        /\ phase[m] = "PLAY"
        /\ UNCHANGED <<phase, viewDistance, outstanding, history>>
    BY <1>10 DEF Move, onChunkTransition, Running, resubscribe
  <2> HIDE DEF removed, added
  <2>2. NothingYet(m)' /\ SubscribedLoaded(m)' /\ SquareLoaded(m)'
    BY <2>1 DEF TypeOK
  <2>3. ASSUME NEW p \in Machine, p # m
        PROVE  NothingYet(p)' /\ SubscribedLoaded(p)' /\ SquareLoaded(p)'
    BY <2>1, <2>3 DEF TypeOK
  <2> QED BY <2>2, <2>3
<1>11. ASSUME NEW m \in Machine, onClientDisconnected(m) PROVE LoadInv'
  <2>1. NothingYet(m)' /\ SubscribedLoaded(m)' /\ SquareLoaded(m)'
    BY <1>11 DEF TypeOK, onClientDisconnected, Freed
  <2>2. ASSUME NEW p \in Machine, p # m
        PROVE  NothingYet(p)' /\ SubscribedLoaded(p)' /\ SquareLoaded(p)'
    <3>1. /\ UNCHANGED <<phase[p], viewDistance[p], chunk[p], outstanding[p],
                         loaded[p], subscriptions[p]>>
          /\ history[p] \subseteq history'[p]
      BY <1>11, <2>2, EndSpares
    <3> QED BY <3>1
  <2> QED BY <2>1, <2>2
<1> QED
  BY <1>1, <1>2, <1>3, <1>4, <1>5, <1>6, <1>7, <1>8, <1>9, <1>10, <1>11 DEF Next

(***************************************************************************)
(* A player whose teleport was confirmed never is subscribed to a chunk    *)
(* its client was not sent, whatever it does with its view distance and    *)
(* wherever it moves.                                                      *)
(***************************************************************************)
THEOREM LoadedCorrect == Spec => []SubscribedChunksLoaded
<1>1. Init => TypeOK /\ LoadInv
  BY TypeInit, LoadInvInit
<1>2. TypeOK /\ LoadInv /\ [Next]_vars => (TypeOK /\ LoadInv)'
  BY TypeNext, LoadInvNext
<1>3. LoadInv => SubscribedChunksLoaded
  BY LoadInvImplies
<1> QED BY <1>1, <1>2, <1>3, PTL DEF Spec
------------------------------------------------------------------------------
(***************************************************************************)
(* Dangling pointers.  DanglingExplained speaks of addresses without an    *)
(* object; the invariant follows the pointers while the object lives: an   *)
(* address in players is logged in, or a session ended in PLAY_INIT there  *)
(* and nothing has taken it out since.                                     *)
(***************************************************************************)
Pointed == \A m \in players : m \in LoggedIn \/ "early" \in history[m]

Leftover ==
  \A m \in Machine :
    phase[m] = "FREE" /\ subscriptions[m] # {} =>
      history[m] \cap {"stale", "resized"} # {}

Explained ==
  \E m \in Machine :
    phase[m] = "FREE" /\ history[m] \cap {"early", "stale", "resized"} # {}

DanglingInv == Pointed /\ Leftover /\ (crashed => Explained)

\* The strengthening implies the property.
LEMMA DanglingImplies ==
  MembershipExact /\ DanglingInv => DanglingExplained
BY DEF MembershipExact, DanglingInv, Pointed, Leftover, Explained,
       DanglingExplained, LoggedIn

\* Nothing is held initially.
LEMMA DanglingInit == Init => DanglingInv
BY DEF Init, TrackerInit, DanglingInv, Pointed, Leftover

(***************************************************************************)
(* A step that frees no object: who is logged in stays so, only logged-in  *)
(* players are added, and nothing happens to the freed addresses.          *)
(***************************************************************************)
FreesNobody ==
  /\ LoggedIn \subseteq LoggedIn'
  /\ players' \subseteq players \cup LoggedIn'
  /\ \A p \in Machine :
       /\ "early" \in history[p] => "early" \in history'[p]
       /\ phase'[p] = "FREE" =>
            UNCHANGED <<phase[p], subscriptions[p], history[p]>>

\* Such a step loses no explanation of a pointer.
LEMMA PointersExplained ==
  ASSUME TypeOK, DanglingInv, FreesNobody
  PROVE  Pointed' /\ Leftover'
BY DEF TypeOK, DanglingInv, FreesNobody, Pointed, Leftover

(***************************************************************************)
(* A step that uses pointers of players or of the tracker dies on one to a *)
(* freed address only, and that is explained.                              *)
(***************************************************************************)
LEMMA UseExplained ==
  ASSUME MembershipExact, DanglingInv, NEW S \in SUBSET Machine, Use(S),
         crashed',
         \A p \in S : \/ p \in players
                      \/ subscriptions[p] # {}
                      \/ membership[p] # {},
         \A p \in Machine : phase[p] = "FREE" =>
           phase'[p] = "FREE" /\ history[p] \subseteq history'[p]
  PROVE  Explained'
<1>1. PICK p \in S : phase[p] = "FREE"
  <2>1. S # Live(S)
    BY DEF Use
  <2> QED BY <2>1 DEF Live
<1>2. membership[p] = {} /\ p \notin LoggedIn
  BY <1>1 DEF MembershipExact, LoggedIn
<1>3. history[p] \cap {"early", "stale", "resized"} # {}
  BY <1>1, <1>2 DEF DanglingInv, Pointed, Leftover
<1> QED BY <1>1, <1>3 DEF Explained

\* No step is taken after a crash.
LEMMA NoStepAfterCrash == Next => ~ crashed
<1> SUFFICES ASSUME NEW m \in Machine, NEW p, NEW requested, NEW id, NEW to,
                    NEW name,
                    \/ Running(m, p)
                    \/ Handshake(m) \/ LoginStart(m, name)
                    \/ ClientSettingsInit(m, requested)
                    \/ ClientSettings(m, requested)
                    \/ TeleportConfirm(m, id) \/ Move(m, to)
                    \/ onClientConnected(m) \/ onClientDisconnected(m)
             PROVE  ~ crashed
  BY DEF Next, LoginRejected, PlayInitRejected, broadcastLocally, Chat,
         PlayRejected, Status, Timeout
<1> QED BY DEF Running, Handshake, LoginStart, ClientSettingsInit,
               ClientSettings, TeleportConfirm, Move, onClientConnected,
               onClientDisconnected

\* Steps of the sessions that use no pointer.
LEMMA DanglingAlone ==
  ASSUME TypeOK, DanglingInv, ~ crashed, NEW m \in Machine,
         \/ onClientConnected(m) \/ Handshake(m)
         \/ LoginRejected(m) \/ PlayInitRejected(m) \/ PlayRejected(m)
         \/ Status(m) \/ Timeout(m)
         \/ \E requested \in RequestedViewDistance :
              ClientSettingsInit(m, requested) \/ ClientSettings(m, requested)
  PROVE  DanglingInv'
<1>1. FreesNobody /\ ~ crashed'
  <2>1. CASE onClientConnected(m)
    BY <2>1 DEF TypeOK, onClientConnected, Running, trackerVars, LoggedIn,
                FreesNobody
  <2>2. CASE \/ Handshake(m) \/ LoginRejected(m) \/ PlayInitRejected(m)
             \/ PlayRejected(m) \/ Status(m) \/ Timeout(m)
    BY <2>2 DEF TypeOK, Handshake, LoginRejected, PlayInitRejected,
                PlayRejected, Status, Timeout, Reject, Running, trackerVars,
                ghostVars, LoggedIn, FreesNobody
  <2>3. ASSUME NEW requested \in RequestedViewDistance,
               ClientSettingsInit(m, requested) \/ ClientSettings(m, requested)
        PROVE  FreesNobody /\ ~ crashed'
    <3>1. /\ phase[m] \in {"PLAY_INIT", "PLAY"}
          /\ UNCHANGED <<phase, players, crashed>>
      BY <2>3 DEF ClientSettingsInit, ClientSettings, Running
    <3>2. history' \in {history, [history EXCEPT ![m] = @ \cup {"resized"}]}
      BY <2>3 DEF ClientSettingsInit, ClientSettings
    <3>3. ASSUME NEW p \in Machine, p # m
          PROVE  subscriptions'[p] = subscriptions[p]
      BY <2>3, <3>3 DEF TypeOK, ClientSettingsInit, ClientSettings,
                        onClientSettingsChange, updateViewDistance
    <3> QED BY <3>1, <3>2, <3>3 DEF TypeOK, LoggedIn, FreesNobody
  <2> QED BY <2>1, <2>2, <2>3
<1>2. Pointed' /\ Leftover'
  BY <1>1, PointersExplained
<1> QED BY <1>1, <1>2 DEF DanglingInv

\* Steps that tell everyone in players something.
LEMMA DanglingPlayers ==
  ASSUME TypeOK, MembershipExact, DanglingInv, NEW m \in Machine,
         Chat(m) \/ \E name \in Name : LoginStart(m, name)
  PROVE  DanglingInv'
<1>1. /\ phase' \in {phase, [phase EXCEPT ![m] = "PLAY_INIT"]}
      /\ phase[m] \in {"LOGIN", "PLAY"}
      /\ phase[m] = "PLAY" => phase' = phase /\ players' = players
      /\ phase[m] = "LOGIN" =>
           phase'[m] = "PLAY_INIT" /\ players' = players \cup {m}
      /\ UNCHANGED <<subscriptions, history>>
      /\ Use(players)
  BY DEF TypeOK, Chat, LoginStart, Running, trackerVars, ghostVars
<1>2. FreesNobody
  BY <1>1 DEF TypeOK, LoggedIn, FreesNobody
<1>3. Pointed' /\ Leftover'
  BY <1>2, PointersExplained
<1>4. ASSUME crashed' PROVE Explained'
  <2>1. \A p \in Machine : phase[p] = "FREE" =>
          phase'[p] = "FREE" /\ history[p] \subseteq history'[p]
    BY <1>1 DEF TypeOK
  <2>2. players \in SUBSET Machine
    BY DEF TypeOK
  <2> QED BY <1>1, <1>4, <2>1, <2>2, UseExplained
<1> QED BY <1>3, <1>4 DEF DanglingInv

\* Steps that tell the players subscribed to a chunk something.
LEMMA DanglingLocal ==
  ASSUME TypeOK, MembershipExact, DanglingInv, NEW m \in Machine,
         \/ broadcastLocally(m)
         \/ \E id \in 0 .. MaxTeleportId + 1 : TeleportConfirm(m, id)
         \/ \E to \in Position : Move(m, to)
  PROVE  DanglingInv'
<1>1. PICK S \in SUBSET Machine :
        /\ Use(S)
        /\ m \notin S
        /\ \A p \in S : subscriptions'[p] # {} \/ membership'[p] # {}
  <2>1. ASSUME broadcastLocally(m)
        PROVE  \E S \in SUBSET Machine :
                 /\ Use(S)
                 /\ m \notin S
                 /\ \A p \in S : subscriptions'[p] # {} \/ membership'[p] # {}
    <3>1. /\ Use(subscribers(subscriptions, chunk[m]) \ {m})
          /\ subscriptions' = subscriptions
      BY <2>1 DEF broadcastLocally, trackerVars
    <3> QED BY <3>1 DEF subscribers
  <2>2. ASSUME NEW id, TeleportConfirm(m, id)
        PROVE  \E S \in SUBSET Machine :
                 /\ Use(S)
                 /\ m \notin S
                 /\ \A p \in S : subscriptions'[p] # {} \/ membership'[p] # {}
    <3> DEFINE audience == subscribers(subscriptions', chunk[m]) \ {m}
               visible == (UNION {members(membership', c) :
                             c \in Square(chunk[m], viewDistance[m])}) \ {m}
    <3>1. Use(audience \cup visible)
      BY <2>2, Zenon DEF TeleportConfirm
    <3>2. \A p \in audience : p \in Machine /\ p # m /\ subscriptions'[p] # {}
      BY DEF subscribers
    <3>3. \A p \in visible : p \in Machine /\ p # m /\ membership'[p] # {}
      BY DEF members
    <3> HIDE DEF audience, visible
    <3> QED BY <3>1, <3>2, <3>3
  <2>3. ASSUME NEW to \in Position, Move(m, to)
        PROVE  \E S \in SUBSET Machine :
                 /\ Use(S)
                 /\ m \notin S
                 /\ \A p \in S : subscriptions'[p] # {} \/ membership'[p] # {}
    <3> DEFINE fromSubs == subscribers(subscriptions', chunk[m]) \ {m}
               toSubs == subscribers(subscriptions', to) \ {m}
    <3>1. Use(fromSubs \cup toSubs)
      BY <2>3, Zenon DEF Move, onChunkTransition
    <3>2. \A p \in fromSubs \cup toSubs :
            p \in Machine /\ p # m /\ subscriptions'[p] # {}
      BY DEF subscribers
    <3> HIDE DEF fromSubs, toSubs
    <3> QED BY <3>1, <3>2
  <2> QED BY <2>1, <2>2, <2>3
<1>2. ASSUME NEW p \in Machine, p # m
      PROVE  UNCHANGED <<phase[p], subscriptions[p], membership[p], history[p]>>
  <2>1. CASE broadcastLocally(m)
    BY <2>1 DEF broadcastLocally, trackerVars, ghostVars
  <2>2. ASSUME NEW id, TeleportConfirm(m, id)
        PROVE  UNCHANGED <<phase[p], subscriptions[p], membership[p], history[p]>>
    BY <1>2, <2>2 DEF TypeOK, TeleportConfirm, enter
  <2>3. ASSUME NEW to \in Position, Move(m, to)
        PROVE  UNCHANGED <<phase[p], subscriptions[p], membership[p], history[p]>>
    BY <1>2, <2>3 DEF TypeOK, Move, onChunkTransition, move, resubscribe
  <2> QED BY <2>1, <2>2, <2>3
<1>3. /\ phase[m] \in {"PLAY_INIT", "PLAY"}
      /\ phase'[m] = "PLAY"
      /\ players' = players
      /\ history[m] \subseteq history'[m]
  <2>1. CASE broadcastLocally(m)
    BY <2>1 DEF broadcastLocally, Running, ghostVars
  <2>2. ASSUME NEW id, TeleportConfirm(m, id)
        PROVE  /\ phase[m] \in {"PLAY_INIT", "PLAY"}
               /\ phase'[m] = "PLAY"
               /\ players' = players
               /\ history[m] \subseteq history'[m]
    BY <2>2 DEF TypeOK, TeleportConfirm, Running
  <2>3. ASSUME NEW to \in Position, Move(m, to)
        PROVE  /\ phase[m] \in {"PLAY_INIT", "PLAY"}
               /\ phase'[m] = "PLAY"
               /\ players' = players
               /\ history[m] \subseteq history'[m]
    BY <2>3 DEF TypeOK, Move, Running
  <2> QED BY <2>1, <2>2, <2>3
<1>4. Pointed' /\ Leftover'
  <2>1. FreesNobody
    BY <1>2, <1>3 DEF LoggedIn, FreesNobody
  <2> QED BY <2>1, PointersExplained
<1>5. ASSUME crashed' PROVE Explained'
  <2>1. \A p \in Machine : phase[p] = "FREE" =>
          phase'[p] = "FREE" /\ history[p] \subseteq history'[p]
    BY <1>2, <1>3
  <2>2. \A p \in S : p \in players \/ subscriptions[p] # {} \/ membership[p] # {}
    BY <1>1, <1>2
  <2> QED BY <1>1, <1>5, <2>1, <2>2, UseExplained
<1> QED BY <1>4, <1>5 DEF DanglingInv

\* The end of a session: what it leaves behind is what its history explains.
LEMMA DanglingDisconnected ==
  ASSUME TypeOK, MembershipExact, SquareSubscription, DanglingInv,
         NEW m \in Machine, onClientDisconnected(m)
  PROVE  DanglingInv'
<1>1. ~ crashed /\ phase[m] # "FREE" /\ phase'[m] = "FREE"
  BY DEF TypeOK, onClientDisconnected, Freed
<1>2. ASSUME NEW p \in Machine, p # m
      PROVE  /\ UNCHANGED <<phase[p], subscriptions[p], membership[p]>>
             /\ history[p] \subseteq history'[p]
             /\ history'[p] \subseteq history[p] \cup {"delisted"}
  BY <1>2, EndSpares
<1>3. subscriptions'[m] # {} => history'[m] \cap {"stale", "resized"} # {}
  <2> SUFFICES ASSUME subscriptions'[m] # {}
               PROVE  history'[m] \cap {"stale", "resized"} # {}
    OBVIOUS
  <2>1. history[m] \cap {"stale", "resized"} \subseteq history'[m]
    <3>1. leftBehind(m) \subseteq history'[m]
      BY DEF TypeOK, onClientDisconnected, LeavePlay, LeaveEarly
    <3> QED BY <3>1 DEF leftBehind
  <2>2. ~ Steady(m)
    <3>1. CASE phase[m] = "PLAY"
      BY <1>1, <3>1 DEF TypeOK, SquareSubscription, onClientDisconnected,
                        LeavePlay, leave
    <3>2. CASE phase[m] # "PLAY"
      BY <1>1, <3>2 DEF SquareSubscription, onClientDisconnected, LeaveEarly,
                        trackerVars
    <3> QED BY <3>1, <3>2
  <2> QED BY <2>1, <2>2 DEF Steady
<1>4. m \in players' => "early" \in history'[m]
  <2>1. CASE phase[m] = "PLAY"
    BY <2>1 DEF onClientDisconnected, LeavePlay
  <2>2. CASE phase[m] # "PLAY"
    BY <2>2 DEF TypeOK, DanglingInv, Pointed, LoggedIn, onClientDisconnected,
                LeaveEarly
  <2> QED BY <2>1, <2>2
<1>5. players' \subseteq players
  BY DEF onClientDisconnected, LeavePlay, LeaveEarly
<1>6. Pointed' /\ Leftover'
  BY <1>1, <1>2, <1>3, <1>4, <1>5
     DEF TypeOK, DanglingInv, Pointed, Leftover, LoggedIn
<1>7. ASSUME crashed' PROVE Explained'
  <2>1. phase[m] = "PLAY"
    BY <1>1, <1>7 DEF onClientDisconnected, LeaveEarly
  <2> DEFINE audience == subscribers(subscriptions', chunk[m]) \ {m}
  <2>2. Use(audience \cup (players \ {m}))
    BY <2>1, Zenon DEF onClientDisconnected, LeavePlay
  <2>3. \A p \in audience : p \in Machine /\ p # m /\ subscriptions[p] # {}
    BY <1>2 DEF subscribers
  <2> HIDE DEF audience
  <2>4. \A p \in Machine : phase[p] = "FREE" =>
          phase'[p] = "FREE" /\ history[p] \subseteq history'[p]
    BY <1>1, <1>2
  <2>5. audience \cup (players \ {m}) \in SUBSET Machine
    BY <2>3 DEF TypeOK
  <2>6. \A p \in audience \cup (players \ {m}) :
          p \in players \/ subscriptions[p] # {} \/ membership[p] # {}
    BY <2>3
  <2> QED BY <1>7, <2>2, <2>4, <2>5, <2>6, UseExplained
<1> QED BY <1>6, <1>7 DEF DanglingInv

\* Every step preserves the strengthening.
LEMMA DanglingNext ==
  /\ TypeOK /\ MembershipExact /\ SquareSubscription /\ DanglingInv
  /\ [Next]_vars
  => DanglingInv'
<1> SUFFICES ASSUME TypeOK, MembershipExact, SquareSubscription, DanglingInv,
                    [Next]_vars
             PROVE  DanglingInv'
  OBVIOUS
<1>1. CASE UNCHANGED vars
  BY <1>1 DEF vars, trackerVars, ghostVars, DanglingInv, Pointed, Leftover,
              Explained, LoggedIn
<1>2. CASE Next
  <2>1. ~ crashed
    BY <1>2, NoStepAfterCrash
  <2>2. PICK m \in Machine :
          \/ onClientConnected(m)
          \/ Handshake(m)
          \/ \E name \in Name : LoginStart(m, name)
          \/ LoginRejected(m)
          \/ \E requested \in RequestedViewDistance :
               ClientSettingsInit(m, requested) \/ ClientSettings(m, requested)
          \/ PlayInitRejected(m)
          \/ \E id \in 0 .. MaxTeleportId + 1 : TeleportConfirm(m, id)
          \/ \E to \in Position : Move(m, to)
          \/ broadcastLocally(m)
          \/ Chat(m)
          \/ PlayRejected(m)
          \/ Status(m)
          \/ Timeout(m)
          \/ onClientDisconnected(m)
    BY <1>2, Zenon DEF Next
  <2> QED BY <2>1, <2>2, DanglingAlone, DanglingPlayers, DanglingLocal,
             DanglingDisconnected, Zenon
<1> QED BY <1>1, <1>2

(***************************************************************************)
(* The process dies of two things only, whoever connects, moves, changes   *)
(* its view distance and leaves in whatever order: of a session that ended *)
(* between its login and its teleport confirmation, and of one that left   *)
(* after its view distance had changed.                                    *)
(***************************************************************************)
THEOREM DanglingCorrect == Spec => []DanglingExplained
<1> DEFINE Inv == TypeOK /\ MembershipExact /\ SquareSubscription /\ DanglingInv
<1>1. Init => Inv
  BY TypeInit, MembershipInit, SubscriptionInit, DanglingInit
<1>2. Inv /\ [Next]_vars => Inv'
  BY TypeNext, MembershipNext, SubscriptionNext, DanglingNext
<1>3. Inv => DanglingExplained
  BY DanglingImplies
<1> HIDE DEF Inv
<1> QED BY <1>1, <1>2, <1>3, PTL DEF Spec
------------------------------------------------------------------------------
(***************************************************************************)
(* Chunks.  A chunk is stored by getOrCreateChunk before it is sent and    *)
(* none is ever dropped; a new object starts with a client that holds      *)
(* none.                                                                   *)
(***************************************************************************)
LEMMA LoadedExistNext ==
  TypeOK /\ LoadedChunksExist /\ [Next]_vars => LoadedChunksExist'
<1> SUFFICES ASSUME TypeOK, LoadedChunksExist, [Next]_vars
             PROVE  LoadedChunksExist'
  OBVIOUS
<1>1. CASE UNCHANGED <<loaded, chunks>>
  BY <1>1 DEF LoadedChunksExist
<1>2. ASSUME UNCHANGED vars PROVE UNCHANGED <<loaded, chunks>>
  BY <1>2 DEF vars, clientVars
<1>3. ASSUME NEW m \in Machine,
             \/ onClientConnected(m) \/ Handshake(m)
             \/ \E name \in Name : LoginStart(m, name)
             \/ \E id \in 0 .. MaxTeleportId + 1 : TeleportConfirm(m, id)
             \/ LoginRejected(m) \/ PlayInitRejected(m) \/ PlayRejected(m)
             \/ Status(m) \/ Timeout(m) \/ broadcastLocally(m) \/ Chat(m)
      PROVE  UNCHANGED <<loaded, chunks>>
  BY <1>3 DEF onClientConnected, Handshake, LoginStart, TeleportConfirm,
              LoginRejected, PlayInitRejected, PlayRejected, Status, Timeout,
              Reject, broadcastLocally, Chat, clientVars
<1>4. ASSUME NEW m \in Machine, NEW gone, NEW sent,
             loaded' = [loaded EXCEPT ![m] = (@ \ gone) \cup sent],
             chunks' = chunks \cup sent
      PROVE  LoadedChunksExist'
  BY <1>4 DEF LoadedChunksExist, TypeOK
<1>5. ASSUME NEW m \in Machine, NEW requested \in RequestedViewDistance,
             ClientSettingsInit(m, requested)
      PROVE  LoadedChunksExist'
  <2> DEFINE sent == Grown(m, Clamp(requested))
                       \cup Square(chunk[m], Clamp(requested))
  <2>1. /\ loaded' = [loaded EXCEPT ![m] =
                        (@ \ Shrunk(m, Clamp(requested))) \cup sent]
        /\ chunks' = chunks \cup sent
    BY <1>5 DEF ClientSettingsInit, getOrCreateChunk
  <2> HIDE DEF sent
  <2> QED BY <1>4, <2>1
<1>6. ASSUME NEW m \in Machine, NEW requested \in RequestedViewDistance,
             ClientSettings(m, requested)
      PROVE  LoadedChunksExist'
  <2> DEFINE sent == Grown(m, Clamp(requested))
  <2>1. /\ loaded' = [loaded EXCEPT ![m] =
                        (@ \ Shrunk(m, Clamp(requested))) \cup sent]
        /\ chunks' = chunks \cup sent
    BY <1>6 DEF ClientSettings, getOrCreateChunk
  <2> HIDE DEF sent
  <2> QED BY <1>4, <2>1
<1>7. ASSUME NEW m \in Machine, NEW to \in Position, Move(m, to)
      PROVE  LoadedChunksExist'
  <2> DEFINE gone == Square(chunk[m], viewDistance[m])
                       \ Square(to, viewDistance[m])
             sent == Square(to, viewDistance[m])
                       \ Square(chunk[m], viewDistance[m])
  <2>1. /\ loaded' = [loaded EXCEPT ![m] = (@ \ gone) \cup sent]
        /\ chunks' = chunks \cup sent
    BY <1>7 DEF Move, onChunkTransition, getOrCreateChunk
  <2> HIDE DEF gone, sent
  <2> QED BY <1>4, <2>1
<1>8. ASSUME NEW m \in Machine, onClientDisconnected(m)
      PROVE  LoadedChunksExist'
  <2>1. loaded' = [loaded EXCEPT ![m] = {}] /\ chunks' = chunks
    BY <1>8 DEF onClientDisconnected, Freed
  <2> QED BY <2>1 DEF LoadedChunksExist, TypeOK
<1> QED BY <1>1, <1>2, <1>3, <1>5, <1>6, <1>7, <1>8 DEF Next

(***************************************************************************)
(* Every chunk a client holds exists on the server: a dig in terrain the   *)
(* client shows never finds the chunk missing.                             *)
(***************************************************************************)
THEOREM ChunksCorrect == Spec => []LoadedChunksExist
<1>1. Init => TypeOK /\ LoadedChunksExist
  BY TypeInit DEF Init, LoadedChunksExist
<1>2. TypeOK /\ LoadedChunksExist /\ [Next]_vars
        => (TypeOK /\ LoadedChunksExist)'
  BY TypeNext, LoadedExistNext
<1> QED BY <1>1, <1>2, PTL DEF Spec
------------------------------------------------------------------------------
(***************************************************************************)
(* The player list.  Neither TabListComplete nor TabListNoGhost is         *)
(* inductive.  REMOVE_PLAYER goes by name to the members of players, so    *)
(* the proof needs to know who is in players (every logged-in player, and  *)
(* possibly addresses of machines that are gone), that only members have a *)
(* list and that only logged-in players have a name.  That no two of them  *)
(* have the same entity id belongs to the registry too.                    *)
(***************************************************************************)
Registered == LoggedIn \subseteq players

Anonymous == \A m \in Machine : m \notin LoggedIn => username[m] = NoName

ListedArePlayers ==
  \A m \in Machine : tab[m] # {} => m \in players /\ phase[m] # "FREE"

EntityIds ==
  /\ \A p \in LoggedIn : entityId[p] \in 1 .. nextEntityId - 1
  /\ \A p, q \in LoggedIn : p # q => entityId[p] # entityId[q]

RegistryInv ==
  /\ Registered
  /\ Anonymous
  /\ ListedArePlayers
  /\ EntityIds
  /\ TabListComplete
  /\ TabListNoGhost

\* Nothing is listed and nobody is logged in initially.
LEMMA RegistryInit == Init => RegistryInv
<1> SUFFICES ASSUME Init PROVE RegistryInv
  OBVIOUS
<1>1. LoggedIn = {}
  BY DEF Init, LoggedIn
<1>2. \A m \in Machine : username[m] = NoName /\ tab[m] = {}
  BY DEF Init
<1> QED BY <1>1, <1>2 DEF RegistryInv, Registered, Anonymous,
                          ListedArePlayers, EntityIds, TabListComplete,
                          TabListNoGhost

(***************************************************************************)
(* A step outside the registry: it logs nobody in or out, frees no object, *)
(* changes no name, id or list, and forgets nobody who was delisted.       *)
(***************************************************************************)
OutsideRegistry ==
  /\ LoggedIn' = LoggedIn
  /\ \A p \in Machine : phase'[p] = "FREE" => phase[p] = "FREE"
  /\ \A p \in LoggedIn : "delisted" \in history[p] => "delisted" \in history'[p]
  /\ UNCHANGED <<username, entityId, nextEntityId, players, tab, abandoned>>

\* Such a step keeps the invariant.
LEMMA RegistryOutside == RegistryInv /\ OutsideRegistry => RegistryInv'
<1> SUFFICES ASSUME RegistryInv, OutsideRegistry PROVE RegistryInv'
  OBVIOUS
<1> USE DEF RegistryInv, OutsideRegistry
<1>1. Registered'
  BY DEF Registered
<1>2. Anonymous'
  BY DEF Anonymous
<1>3. ListedArePlayers'
  BY DEF ListedArePlayers
<1>4. TabListComplete'
  BY DEF TabListComplete
<1>5. TabListNoGhost'
  BY DEF TabListNoGhost
<1>6. EntityIds'
  BY DEF EntityIds
<1> QED BY <1>1, <1>2, <1>3, <1>4, <1>5, <1>6

\* A login.
LEMMA RegistryLogin ==
  ASSUME TypeOK, RegistryInv, NEW m \in Machine, NEW name \in Name,
         LoginStart(m, name)
  PROVE  RegistryInv'
<1>1. /\ phase[m] = "LOGIN"
      /\ phase' = [phase EXCEPT ![m] = "PLAY_INIT"]
      /\ username' = [username EXCEPT ![m] = name]
      /\ players' = players \cup {m}
      /\ UNCHANGED <<abandoned, history>>
  BY DEF LoginStart, Running, ghostVars
<1>2. /\ LoggedIn' = LoggedIn \cup {m}
      /\ m \notin LoggedIn
      /\ LoggedIn \subseteq Machine
  BY <1>1 DEF LoggedIn, TypeOK
<1>3. /\ tab'[m] = tab[m] \cup currentPlayers \cup {name}
      /\ \A p \in Live(players) \ {m} : tab'[p] = tab[p] \cup {name}
      /\ \A p \in Machine : p # m /\ p \notin Live(players) => tab'[p] = tab[p]
  <2>1. tab' = [p \in Machine |->
                  CASE p = m -> tab[m] \cup currentPlayers \cup {name}
                    [] p \in Live(players) \ {m} -> tab[p] \cup {name}
                    [] OTHER -> tab[p]]
    BY Zenon DEF LoginStart
  <2>2. Live(players) \subseteq Machine
    BY DEF Live, TypeOK
  <2> QED BY <2>1, <2>2, Zenon
<1>4. \A p \in LoggedIn : p \in Live(players) \ {m}
  BY <1>2 DEF RegistryInv, Registered, Live, LoggedIn
<1>5. \A p \in Machine : username'[p] = IF p = m THEN name ELSE username[p]
  BY <1>1 DEF TypeOK
<1>6. Registered'
  BY <1>1, <1>2 DEF RegistryInv, Registered
<1>7. Anonymous'
  BY <1>2, <1>5 DEF RegistryInv, Anonymous
<1>8. ListedArePlayers'
  <2> SUFFICES ASSUME NEW p \in Machine, tab'[p] # {}
               PROVE  p \in players' /\ phase'[p] # "FREE"
    BY DEF ListedArePlayers
  <2>1. CASE p = m
    BY <1>1, <2>1 DEF TypeOK
  <2>2. CASE p # m /\ p \in Live(players)
    BY <1>1, <2>2 DEF Live, TypeOK
  <2>3. CASE p # m /\ p \notin Live(players)
    BY <1>1, <1>3, <2>3 DEF RegistryInv, ListedArePlayers, Live
  <2> QED BY <2>1, <2>2, <2>3
<1>9. TabListComplete'
  <2> SUFFICES ASSUME NEW p \in LoggedIn \cup {m}, NEW q \in LoggedIn \cup {m},
                      "delisted" \notin history'[q]
               PROVE  username'[q] \in tab'[p]
    BY <1>2 DEF TabListComplete
  <2>1. CASE q = m
    BY <1>3, <1>4, <1>5, <2>1
  <2>2. CASE q # m /\ p = m
    <3>1. username[q] \in currentPlayers
      BY <2>2 DEF currentPlayers, RegistryInv, Registered
    <3> QED BY <1>2, <1>3, <1>5, <2>2, <3>1
  <2>3. CASE q # m /\ p # m
    <3>1. username[q] \in tab[p]
      BY <1>1, <2>3 DEF RegistryInv, TabListComplete
    <3> QED BY <1>2, <1>3, <1>4, <1>5, <2>3, <3>1
  <2> QED BY <2>1, <2>2, <2>3
<1>10. TabListNoGhost'
  <2> DEFINE held == {username[q] : q \in LoggedIn} \cup abandoned
  <2>1. held \cup {name} \subseteq {username'[q] : q \in LoggedIn'} \cup abandoned'
    <3>1. ASSUME NEW q \in LoggedIn
          PROVE  username[q] \in {username'[r] : r \in LoggedIn'}
      <4>1. username'[q] = username[q] /\ q \in LoggedIn'
        BY <1>2, <1>5
      <4> QED BY <4>1
    <3>2. name \in {username'[r] : r \in LoggedIn'}
      <4>1. username'[m] = name /\ m \in LoggedIn'
        BY <1>2, <1>5
      <4> QED BY <4>1
    <3> QED BY <1>1, <3>1, <3>2
  <2>2. currentPlayers \cap Name \subseteq held
    <3> SUFFICES ASSUME NEW q \in players, username[q] \in Name
                 PROVE  username[q] \in held
      BY DEF currentPlayers
    <3>1. q \in LoggedIn
      BY NameAssumption DEF TypeOK, RegistryInv, Anonymous
    <3> QED BY <3>1
  <2>3. ASSUME NEW p \in Machine PROVE tab[p] \cap Name \subseteq held
    BY DEF RegistryInv, TabListNoGhost
  <2> HIDE DEF held
  <2>4. ASSUME NEW p \in Machine
        PROVE  tab'[p] \cap Name \subseteq held \cup {name}
    <3>1. CASE p = m
      BY <1>3, <2>2, <2>3, <3>1
    <3>2. CASE p # m /\ p \in Live(players)
      BY <1>3, <2>3, <3>2
    <3>3. CASE p # m /\ p \notin Live(players)
      BY <1>3, <2>3, <3>3
    <3> QED BY <3>1, <3>2, <3>3
  <2> QED BY <2>1, <2>4 DEF TabListNoGhost
<1>11. EntityIds'
  <2>1. /\ nextEntityId \in Nat
        /\ nextEntityId' = nextEntityId + 1
        /\ \A p \in Machine :
             entityId'[p] = IF p = m THEN nextEntityId ELSE entityId[p]
    BY BoundAssumption DEF TypeOK, LoginStart
  <2>2. \A p \in LoggedIn : entityId[p] \in 1 .. nextEntityId - 1
    BY DEF RegistryInv, EntityIds
  <2>3. \A p, q \in LoggedIn : p # q => entityId[p] # entityId[q]
    BY DEF RegistryInv, EntityIds
  <2>4. nextEntityId \in 1 .. nextEntityId
    BY BoundAssumption DEF TypeOK
  <2>5. \A p \in LoggedIn \cup {m} : entityId'[p] \in 1 .. nextEntityId' - 1
    BY <1>2, <2>1, <2>2, <2>4
  <2>6. \A p, q \in LoggedIn \cup {m} : p # q => entityId'[p] # entityId'[q]
    BY <1>2, <2>1, <2>2, <2>3
  <2> QED BY <1>2, <2>5, <2>6 DEF EntityIds
<1> QED
  BY <1>6, <1>7, <1>8, <1>9, <1>10, <1>11 DEF RegistryInv

\* What both ways a session ends do to the phase and the name.
LEMMA FreedLogsOut ==
  ASSUME TypeOK, NEW m \in Machine, Freed(m)
  PROVE  /\ LoggedIn' = LoggedIn \ {m}
         /\ phase'[m] = "FREE"
         /\ username'[m] = NoName
         /\ nextEntityId' = nextEntityId
         /\ \A p \in Machine \ {m} :
              /\ phase'[p] = phase[p]
              /\ username'[p] = username[p]
              /\ entityId'[p] = entityId[p]
BY DEF TypeOK, Freed, LoggedIn

\* The end of a session in PLAY.
LEMMA RegistryLeavePlay ==
  ASSUME TypeOK, RegistryInv, NEW m \in Machine, phase[m] = "PLAY",
         LeavePlay(m), Freed(m)
  PROVE  RegistryInv'
<1>1. /\ LoggedIn' = LoggedIn \ {m}
      /\ phase'[m] = "FREE"
      /\ username'[m] = NoName
      /\ nextEntityId' = nextEntityId
      /\ \A p \in Machine \ {m} :
           /\ phase'[p] = phase[p]
           /\ username'[p] = username[p]
           /\ entityId'[p] = entityId[p]
  BY FreedLogsOut
<1>2. /\ players' = players \ {m}
      /\ abandoned' = abandoned \ {username[m]}
  BY DEF LeavePlay
<1>3. /\ tab'[m] = {}
      /\ \A p \in Live(players) \ {m} : tab'[p] = tab[p] \ {username[m]}
      /\ \A p \in Machine : p # m /\ p \notin Live(players) => tab'[p] = tab[p]
  <2>1. tab' = [p \in Machine |->
                  CASE p = m -> {}
                    [] p \in Live(players) \ {m} -> tab[p] \ {username[m]}
                    [] OTHER -> tab[p]]
    BY Zenon DEF LeavePlay, removePlayer
  <2>2. Live(players) \subseteq Machine
    BY DEF Live, TypeOK
  <2> QED BY <2>1, <2>2, Zenon
<1>4. m \in LoggedIn /\ LoggedIn \subseteq Machine
  BY DEF LoggedIn
<1>5. \A p \in Machine \ {m} : tab'[p] = tab[p] \ {username[m]}
  <2> SUFFICES ASSUME NEW p \in Machine \ {m}
               PROVE  tab'[p] = tab[p] \ {username[m]}
    OBVIOUS
  <2>1. CASE p \in Live(players)
    BY <1>3, <2>1
  <2>2. CASE p \notin Live(players)
    <3>1. tab[p] = {}
      BY <2>2 DEF RegistryInv, ListedArePlayers, Live
    <3> QED BY <1>3, <2>2, <3>1
  <2> QED BY <2>1, <2>2
<1>6. Registered'
  BY <1>1, <1>2 DEF RegistryInv, Registered
<1>7. Anonymous'
  BY <1>1 DEF RegistryInv, Anonymous
<1>8. ListedArePlayers'
  BY <1>1, <1>2, <1>3, <1>5 DEF RegistryInv, ListedArePlayers
<1>9. \A p \in LoggedIn \ {m} :
        /\ "delisted" \in history[p] => "delisted" \in history'[p]
        /\ username[p] = username[m] => "delisted" \in history'[p]
  <2>1. history' = [p \in Machine |->
                      CASE p = m -> leftBehind(m)
                        [] p \in LoggedIn \ {m} /\ username[p] = username[m] ->
                             history[p] \cup {"delisted"}
                        [] OTHER -> history[p]]
    BY Zenon DEF LeavePlay
  <2> QED BY <1>4, <2>1
<1>10. TabListComplete'
  <2> SUFFICES ASSUME NEW p \in LoggedIn \ {m}, NEW q \in LoggedIn \ {m},
                      "delisted" \notin history'[q]
               PROVE  username'[q] \in tab'[p]
    BY <1>1 DEF TabListComplete
  <2>1. "delisted" \notin history[q] /\ username'[q] = username[q]
    BY <1>1, <1>4, <1>9
  <2>2. username[q] # username[m]
    BY <1>9
  <2>3. username[q] \in tab[p]
    BY <2>1 DEF RegistryInv, TabListComplete
  <2> QED BY <1>4, <1>5, <2>1, <2>2, <2>3
<1>11. TabListNoGhost'
  <2> SUFFICES ASSUME NEW p \in Machine, NEW n \in Name, n \in tab'[p]
               PROVE  n \in {username'[q] : q \in LoggedIn'} \cup abandoned'
    BY DEF TabListNoGhost
  <2>1. n \in tab[p] /\ n # username[m]
    BY <1>3, <1>5
  <2>2. CASE n \in abandoned
    BY <1>2, <2>1, <2>2
  <2>3. CASE n \notin abandoned
    <3>1. PICK q \in LoggedIn : n = username[q]
      BY <2>1, <2>3 DEF RegistryInv, TabListNoGhost
    <3>2. q \in LoggedIn' /\ username'[q] = n
      BY <1>1, <1>4, <2>1, <3>1
    <3> QED BY <3>2
  <2> QED BY <2>2, <2>3
<1>12. EntityIds'
  BY <1>1, <1>4 DEF RegistryInv, EntityIds
<1> QED BY <1>6, <1>7, <1>8, <1>10, <1>11, <1>12 DEF RegistryInv

\* The end of a session before PLAY: players keeps the address.
LEMMA RegistryLeaveEarly ==
  ASSUME TypeOK, RegistryInv, NEW m \in Machine, phase[m] # "PLAY",
         LeaveEarly(m), Freed(m)
  PROVE  RegistryInv'
<1>1. /\ LoggedIn' = LoggedIn \ {m}
      /\ phase'[m] = "FREE"
      /\ username'[m] = NoName
      /\ nextEntityId' = nextEntityId
      /\ \A p \in Machine \ {m} :
           /\ phase'[p] = phase[p]
           /\ username'[p] = username[p]
           /\ entityId'[p] = entityId[p]
  BY FreedLogsOut
<1>2. /\ players' = players
      /\ tab'[m] = {}
      /\ \A p \in Machine \ {m} : tab'[p] = tab[p]
      /\ abandoned' = IF phase[m] = "PLAY_INIT"
                      THEN abandoned \cup {username[m]} ELSE abandoned
      /\ \A p \in Machine \ {m} : history'[p] = history[p]
  BY DEF LeaveEarly, TypeOK
<1>3. LoggedIn \subseteq Machine
  BY DEF LoggedIn
<1>4. Registered' /\ Anonymous' /\ ListedArePlayers'
  BY <1>1, <1>2 DEF RegistryInv, Registered, Anonymous, ListedArePlayers
<1>5. TabListComplete'
  BY <1>1, <1>2, <1>3 DEF RegistryInv, TabListComplete
<1>6. TabListNoGhost'
  <2> SUFFICES ASSUME NEW p \in Machine, NEW n \in Name, n \in tab'[p]
               PROVE  n \in {username'[q] : q \in LoggedIn'} \cup abandoned'
    BY DEF TabListNoGhost
  <2>1. n \in tab[p]
    BY <1>2
  <2>2. CASE n \in abandoned
    BY <1>2, <2>2
  <2>3. CASE n \notin abandoned
    <3>1. PICK q \in LoggedIn : n = username[q]
      BY <2>1, <2>3 DEF RegistryInv, TabListNoGhost
    <3>2. CASE q = m
      BY <1>2, <3>1, <3>2 DEF LoggedIn
    <3>3. CASE q # m
      <4>1. q \in LoggedIn' /\ username'[q] = n
        BY <1>1, <1>3, <3>1, <3>3
      <4> QED BY <4>1
    <3> QED BY <3>2, <3>3
  <2> QED BY <2>2, <2>3
<1>7. EntityIds'
  BY <1>1, <1>3 DEF RegistryInv, EntityIds
<1> QED BY <1>4, <1>5, <1>6, <1>7 DEF RegistryInv

\* Every step preserves the invariant.
LEMMA RegistryNext == TypeOK /\ RegistryInv /\ [Next]_vars => RegistryInv'
<1> SUFFICES ASSUME TypeOK, RegistryInv, [Next]_vars PROVE RegistryInv'
  OBVIOUS
<1>1. ASSUME OutsideRegistry PROVE RegistryInv'
  BY <1>1, RegistryOutside
<1>2. ASSUME UNCHANGED vars PROVE OutsideRegistry
  BY <1>2 DEF OutsideRegistry, LoggedIn, vars, playerVars, clientVars, ghostVars
<1>3. ASSUME NEW m \in Machine, onClientConnected(m) PROVE OutsideRegistry
  BY <1>3 DEF OutsideRegistry, LoggedIn, TypeOK, onClientConnected, Running,
              clientVars
<1>4. ASSUME NEW m \in Machine,
             \/ LoginRejected(m) \/ PlayInitRejected(m) \/ PlayRejected(m)
             \/ Status(m) \/ Timeout(m) \/ broadcastLocally(m) \/ Chat(m)
      PROVE  OutsideRegistry
  BY <1>4 DEF OutsideRegistry, LoggedIn, LoginRejected, PlayInitRejected,
              PlayRejected, Status, Timeout, Reject, broadcastLocally, Chat,
              playerVars, clientVars, ghostVars
<1>5. ASSUME NEW m \in Machine, Handshake(m) PROVE OutsideRegistry
  BY <1>5 DEF OutsideRegistry, LoggedIn, TypeOK, Handshake, Reject, Running,
              playerVars, clientVars, ghostVars
<1>6. ASSUME NEW m \in Machine, NEW requested \in RequestedViewDistance,
             ClientSettingsInit(m, requested) \/ ClientSettings(m, requested)
      PROVE  OutsideRegistry
  <2>1. UNCHANGED <<phase, username, entityId, nextEntityId, players, tab,
                    abandoned>>
    BY <1>6 DEF ClientSettingsInit, ClientSettings
  <2>2. history' \in {history, [history EXCEPT ![m] = @ \cup {"resized"}]}
    BY <1>6 DEF ClientSettingsInit, ClientSettings
  <2> QED BY <2>1, <2>2 DEF OutsideRegistry, LoggedIn, TypeOK
<1>7. ASSUME NEW m \in Machine, NEW id, TeleportConfirm(m, id)
      PROVE  OutsideRegistry
  <2>1. /\ phase[m] = "PLAY_INIT"
        /\ phase' = [phase EXCEPT ![m] = "PLAY"]
        /\ history' \in {history, [history EXCEPT ![m] = @ \cup {"unconfirmed"}]}
        /\ UNCHANGED <<username, entityId, nextEntityId, players, tab,
                       abandoned>>
    BY <1>7 DEF TeleportConfirm, Running
  <2> QED BY <2>1 DEF OutsideRegistry, LoggedIn, TypeOK
<1>8. ASSUME NEW m \in Machine, NEW to \in Position, Move(m, to)
      PROVE  OutsideRegistry
  BY <1>8 DEF OutsideRegistry, LoggedIn, TypeOK, Move
<1>9. ASSUME NEW m \in Machine, NEW name \in Name, LoginStart(m, name)
      PROVE  RegistryInv'
  BY <1>9, RegistryLogin
<1>10. ASSUME NEW m \in Machine, onClientDisconnected(m) PROVE RegistryInv'
  <2>1. CASE phase[m] = "PLAY"
    BY <1>10, <2>1, RegistryLeavePlay DEF onClientDisconnected
  <2>2. CASE phase[m] # "PLAY"
    BY <1>10, <2>2, RegistryLeaveEarly DEF onClientDisconnected
  <2> QED BY <2>1, <2>2
<1> QED BY <1>1, <1>2, <1>3, <1>4, <1>5, <1>6, <1>7, <1>8, <1>9, <1>10 DEF Next

\* The invariant of the player list, for every execution.
THEOREM RegistryCorrect == Spec => []RegistryInv
<1>1. Init => TypeOK /\ RegistryInv
  BY TypeInit, RegistryInit
<1>2. TypeOK /\ RegistryInv /\ [Next]_vars => (TypeOK /\ RegistryInv)'
  BY TypeNext, RegistryNext
<1> QED BY <1>1, <1>2, PTL DEF Spec

(***************************************************************************)
(* Nobody is missing from a player list: every logged-in player is in the  *)
(* list of every other, also when names are shared, until a namesake       *)
(* leaves and takes the name along.                                        *)
(***************************************************************************)
THEOREM TabListCompleteCorrect == Spec => []TabListComplete
<1>1. RegistryInv => TabListComplete
  BY DEF RegistryInv
<1> QED BY <1>1, RegistryCorrect, PTL

(***************************************************************************)
(* Nobody is left over in a player list but those who left before PLAY:    *)
(* addresses that stay in players when their machine is gone add no name.  *)
(***************************************************************************)
THEOREM TabListNoGhostCorrect == Spec => []TabListNoGhost
<1>1. RegistryInv => TabListNoGhost
  BY DEF RegistryInv
<1> QED BY <1>1, RegistryCorrect, PTL

------------------------------------------------------------------------------
(***************************************************************************)
(* What a player is shown.  ObserverExact is about players in PLAY; it     *)
(* needs that a client that is about to enter shows nobody yet, which a    *)
(* steady address guarantees: it is subscribed to nothing before PLAY, so  *)
(* no broadcast reaches it.  It also needs the exact membership and        *)
(* subscription of StateMachineProofs, and that entity ids are not shared. *)
(***************************************************************************)
NothingShown ==
  \A m \in Machine :
    phase[m] # "PLAY" /\ (phase[m] = "FREE" \/ Steady(m)) => known[m] = {}

\* The other players within the view of p, and what it shows of them.
InView(p) == {r \in Playing \ {p} : chunk[r] \in Square(chunk[p], viewDistance[p])}

Shown(p) == {entityId[q] : q \in InView(p)}

Agrees(p) == known[p] \ untold[p] = Shown(p) \ untold[p]

ObserverInv == NothingShown /\ ObserverExact

\* ObserverExact in these words.
LEMMA ObserverWords ==
  ObserverExact <=> \A p \in Playing : Steady(p) => Agrees(p)
BY DEF ObserverExact, Agrees, Shown, InView, EntitiesIn

\* The same of the next state.
LEMMA ObserverWordsNext ==
  (\A p \in Playing' : Steady(p)' => Agrees(p)') => ObserverExact'
BY DEF ObserverExact, Agrees, Shown, InView, EntitiesIn

\* Who a broadcast in chunk c reaches among the players whose view is steady.
LEMMA Reached ==
  ASSUME TypeOK, SquareSubscription, NEW p \in Machine, phase[p] # "FREE",
         Steady(p), NEW c, subscriptions'[p] = subscriptions[p]
  PROVE  p \in subscribers(subscriptions', c)
           <=> phase[p] = "PLAY" /\ c \in Square(chunk[p], viewDistance[p])
BY DEF SquareSubscription, subscribers

\* No client shows anybody initially.
LEMMA ObserverInit == Init => ObserverInv
BY DEF Init, ObserverInv, NothingShown, ObserverExact, Playing

(***************************************************************************)
(* A step that moves nobody: nobody enters or leaves PLAY, no position, no *)
(* entity id of a player and nothing a client shows changes, and who       *)
(* changes its view distance is no longer steady.                          *)
(***************************************************************************)
MovesNobody ==
  /\ Playing' = Playing
  /\ \A p \in Machine : phase'[p] = "FREE" => phase[p] = "FREE"
  /\ \A p \in Machine : phase[p] = "FREE" \/ history[p] \subseteq history'[p]
  /\ \A p \in Playing :
       /\ entityId'[p] = entityId[p]
       /\ viewDistance'[p] = viewDistance[p] \/ "resized" \in history'[p]
  /\ UNCHANGED <<known, untold, chunk>>

\* Such a step keeps the invariant.
LEMMA ObserverUnmoved == ObserverInv /\ MovesNobody => ObserverInv'
<1> SUFFICES ASSUME ObserverInv, MovesNobody PROVE ObserverInv'
  OBVIOUS
<1>1. \A p \in Machine : phase'[p] # "PLAY" <=> phase[p] # "PLAY"
  BY DEF MovesNobody, Playing
<1>2. NothingShown'
  BY <1>1 DEF ObserverInv, NothingShown, MovesNobody, Steady
<1>3. ASSUME NEW p \in Playing', Steady(p)' PROVE Agrees(p)'
  <2>1. p \in Playing /\ p \in Machine /\ phase[p] = "PLAY"
    BY DEF MovesNobody, Playing
  <2>2. history[p] \subseteq history'[p]
    BY <2>1 DEF MovesNobody
  <2>3. Steady(p) /\ "resized" \notin history'[p]
    BY <1>3, <2>2 DEF Steady
  <2>4. viewDistance'[p] = viewDistance[p]
    BY <2>1, <2>3 DEF MovesNobody
  <2>5. InView(p)' = InView(p)
    BY <2>4 DEF InView, MovesNobody
  <2>6. \A q \in InView(p) : entityId'[q] = entityId[q]
    BY DEF InView, MovesNobody
  <2>7. Shown(p)' = Shown(p)
    BY <2>5, <2>6 DEF Shown
  <2>8. Agrees(p)
    BY <2>1, <2>3, ObserverWords DEF ObserverInv
  <2> QED BY <2>7, <2>8 DEF MovesNobody, Agrees
<1>4. ObserverExact'
  BY <1>3, ObserverWordsNext
<1> QED BY <1>2, <1>4 DEF ObserverInv

(***************************************************************************)
(* When m comes into the view of p, and nothing else changes there, p is   *)
(* shown what it was shown and m; when m leaves the view, what it was      *)
(* shown without m, because no other player has the id of m.               *)
(***************************************************************************)
LEMMA ShownComes ==
  ASSUME NEW p, NEW m, InView(p)' = InView(p) \cup {m},
         \A q \in InView(p) \cup {m} : entityId'[q] = entityId[q]
  PROVE  Shown(p)' = Shown(p) \cup {entityId[m]}
BY DEF Shown

LEMMA ShownGoes ==
  ASSUME NEW p, NEW m, InView(p)' = InView(p) \ {m},
         \A q \in InView(p) \ {m} : /\ entityId'[q] = entityId[q]
                                    /\ entityId[q] # entityId[m]
  PROVE  Shown(p)' = Shown(p) \ {entityId[m]}
BY DEF Shown

\* An entry into the world.
LEMMA ObserverConfirm ==
  ASSUME TypeOK, MembershipExact, SquareSubscription, ObserverInv,
         NEW m \in Machine, NEW id, TeleportConfirm(m, id)
  PROVE  ObserverInv'
<1> DEFINE view == Square(chunk[m], viewDistance[m])
           audience == subscribers(subscriptions', chunk[m]) \ {m}
           visible == (UNION {members(membership', c) : c \in view}) \ {m}
<1>1. /\ phase[m] = "PLAY_INIT"
      /\ phase' = [phase EXCEPT ![m] = "PLAY"]
      /\ UNCHANGED <<entityId, viewDistance, chunk, untold>>
      /\ history' \in {history, [history EXCEPT ![m] = @ \cup {"unconfirmed"}]}
      /\ membership' = [membership EXCEPT ![m] = @ \cup {chunk[m]}]
      /\ subscriptions' = [subscriptions EXCEPT ![m] = @ \cup view]
  BY DEF TeleportConfirm, Running, enter
<1>2. known' = [p \in Machine |->
                  CASE p = m -> known[m] \cup {entityId[q] : q \in visible}
                    [] p \in Live(audience) -> known[p] \cup {entityId[m]}
                    [] OTHER -> known[p]]
  BY Zenon DEF TeleportConfirm
<1>3. /\ Playing' = Playing \cup {m}
      /\ m \notin Playing
      /\ Playing \subseteq Machine
  BY <1>1 DEF Playing, TypeOK
<1>4. ASSUME NEW p \in Machine PROVE Steady(p)' <=> Steady(p)
  <2>1. history'[p] \in {history[p], history[p] \cup {"unconfirmed"}}
    BY <1>1 DEF TypeOK
  <2> QED BY <2>1 DEF Steady
<1>5. \A p \in Machine : Steady(p)' <=> Steady(p)
  BY <1>4
<1>6. visible = {r \in Playing \ {m} : chunk[r] \in view}
  <2>1. \A r \in Machine \ {m} :
          membership'[r] = IF phase[r] = "PLAY" THEN {chunk[r]} ELSE {}
    BY <1>1 DEF TypeOK, MembershipExact
  <2> HIDE DEF view
  <2>2. \A r : r \in visible
                 <=> r \in Machine \ {m} /\ \E c \in view : c \in membership'[r]
    BY DEF members
  <2> HIDE DEF visible
  <2>3. \A r : r \in visible
                 <=> r \in Machine \ {m} /\ phase[r] = "PLAY" /\ chunk[r] \in view
    BY <2>1, <2>2
  <2> QED BY <2>3 DEF Playing
<1>7. ASSUME NEW p \in Machine, p # m, phase[p] # "FREE", Steady(p)
      PROVE  p \in Live(audience) <=> phase[p] = "PLAY"
                   /\ chunk[m] \in Square(chunk[p], viewDistance[p])
  <2>1. subscriptions'[p] = subscriptions[p]
    BY <1>1, <1>7 DEF TypeOK
  <2> QED BY <1>7, <2>1, Reached DEF Live
<1>8. m \notin Live(audience)
  BY DEF Live
<1> HIDE DEF audience, visible, view
<1>9. known'[m] = known[m] \cup {entityId[q] : q \in visible}
  BY <1>2, <1>8, Zenon
<1>10. ASSUME NEW p \in Machine, p # m
      PROVE  known'[p] = IF p \in Live(audience)
                         THEN known[p] \cup {entityId[m]} ELSE known[p]
  BY <1>2, <1>10, Zenon
<1>11. NothingShown'
  <2> SUFFICES ASSUME NEW p \in Machine, phase'[p] # "PLAY",
                      phase'[p] = "FREE" \/ Steady(p)'
               PROVE  known'[p] = {}
    BY DEF NothingShown
  <2>1. p # m /\ phase'[p] = phase[p]
    BY <1>1 DEF TypeOK
  <2>2. known[p] = {}
    BY <1>4, <2>1 DEF ObserverInv, NothingShown
  <2>3. CASE phase[p] = "FREE"
    BY <1>10, <2>1, <2>2, <2>3 DEF Live
  <2>4. CASE phase[p] # "FREE"
    BY <1>4, <1>7, <1>10, <2>1, <2>2, <2>4
  <2> QED BY <2>3, <2>4
<1>12. ASSUME NEW p \in Playing', Steady(p)' PROVE Agrees(p)'
  <2>1. CASE p = m
    <3>1. known[m] = {}
      BY <1>1, <1>5, <1>12, <2>1 DEF ObserverInv, NothingShown
    <3>2. InView(m)' = visible
      BY <1>1, <1>3, <1>6 DEF InView, view
    <3>3. Shown(m)' = {entityId[q] : q \in visible}
      BY <1>1, <3>2 DEF Shown
    <3> QED BY <1>9, <2>1, <3>1, <3>3 DEF Agrees
  <2>2. CASE p # m
    <3>1. p \in Playing /\ p \in Machine /\ phase[p] = "PLAY" /\ Steady(p)
      BY <1>3, <1>5, <1>12, <2>2 DEF Playing
    <3>2. known[p] \ untold[p] = Shown(p) \ untold[p]
      BY <3>1, ObserverWords DEF ObserverInv, Agrees
    <3>3. CASE chunk[m] \in Square(chunk[p], viewDistance[p])
      <4>1. InView(p)' = InView(p) \cup {m}
        BY <1>1, <1>3, <2>2, <3>3 DEF InView
      <4>2. Shown(p)' = Shown(p) \cup {entityId[m]}
        BY <1>1, <4>1, ShownComes
      <4>3. known'[p] = known[p] \cup {entityId[m]}
        BY <1>7, <1>10, <2>2, <3>1, <3>3
      <4> QED BY <1>1, <3>2, <4>2, <4>3 DEF Agrees
    <3>4. CASE chunk[m] \notin Square(chunk[p], viewDistance[p])
      <4>1. InView(p)' = InView(p)
        BY <1>1, <1>3, <3>4 DEF InView
      <4>2. Shown(p)' = Shown(p)
        BY <1>1, <4>1 DEF Shown
      <4>3. known'[p] = known[p]
        BY <1>7, <1>10, <2>2, <3>1, <3>4
      <4> QED BY <1>1, <3>2, <4>2, <4>3 DEF Agrees
    <3> QED BY <3>3, <3>4
  <2> QED BY <2>1, <2>2
<1>13. ObserverExact'
  BY <1>12, ObserverWordsNext
<1> QED BY <1>11, <1>13 DEF ObserverInv

\* A move into another chunk.
LEMMA ObserverMove ==
  ASSUME TypeOK, SquareSubscription, RegistryInv, ObserverInv,
         NEW m \in Machine, NEW to \in Position, Move(m, to)
  PROVE  ObserverInv'
<1> DEFINE fromSubs == subscribers(subscriptions', chunk[m]) \ {m}
           toSubs == subscribers(subscriptions', to) \ {m}
           removed == Square(chunk[m], viewDistance[m])
                        \ Square(to, viewDistance[m])
           added == Square(to, viewDistance[m])
                      \ Square(chunk[m], viewDistance[m])
<1>1. /\ phase[m] = "PLAY"
      /\ UNCHANGED <<phase, entityId, viewDistance, history>>
      /\ chunk' = [chunk EXCEPT ![m] = to]
      /\ subscriptions' = [subscriptions EXCEPT ![m] = (@ \ removed) \cup added]
  BY DEF Move, onChunkTransition, resubscribe, Running
<1>2. known' = [p \in Machine |->
                  CASE p \in Live(fromSubs \ toSubs) ->
                         known[p] \ {entityId[m]}
                    [] p \in Live(toSubs \ fromSubs) ->
                         known[p] \cup {entityId[m]}
                    [] OTHER -> known[p]]
  BY Zenon DEF Move, onChunkTransition
<1>3. untold' = [p \in Machine |->
         CASE p = m -> untold[m] \cup EntitiesIn(removed \cup added, m)
           [] p \in (fromSubs \ toSubs) \cup (toSubs \ fromSubs) ->
                untold[p] \ {entityId[m]}
           [] OTHER -> untold[p]]
  BY Zenon DEF Move, onChunkTransition
<1> HIDE DEF removed, added
<1>4. /\ Playing' = Playing
      /\ m \in Playing
      /\ Playing \subseteq Machine
  BY <1>1 DEF Playing
<1>5. ASSUME NEW p \in Machine, p # m
      PROVE  /\ chunk'[p] = chunk[p]
             /\ subscriptions'[p] = subscriptions[p]
             /\ Steady(p)' <=> Steady(p)
  BY <1>1, <1>5 DEF TypeOK, Steady
<1>6. chunk'[m] = to
  BY <1>1 DEF TypeOK
<1>7. m \notin fromSubs /\ m \notin toSubs
  OBVIOUS
<1>8. ASSUME NEW p \in Machine, p # m, phase[p] # "FREE", Steady(p)
      PROVE  /\ p \in fromSubs <=> phase[p] = "PLAY"
                  /\ chunk[m] \in Square(chunk[p], viewDistance[p])
             /\ p \in toSubs <=> phase[p] = "PLAY"
                  /\ to \in Square(chunk[p], viewDistance[p])
  BY <1>5, <1>8, Reached
<1> HIDE DEF fromSubs, toSubs
<1>9. ASSUME NEW p \in Machine
      PROVE  /\ phase[p] = "FREE" => known'[p] = known[p]
             /\ p \notin fromSubs /\ p \notin toSubs => known'[p] = known[p]
             /\ p \in fromSubs /\ p \in toSubs => known'[p] = known[p]
             /\ phase[p] # "FREE" /\ p \in fromSubs /\ p \notin toSubs
                  => known'[p] = known[p] \ {entityId[m]}
             /\ phase[p] # "FREE" /\ p \notin fromSubs /\ p \in toSubs
                  => known'[p] = known[p] \cup {entityId[m]}
  BY <1>2, Zenon DEF Live
<1>10. /\ untold'[m] = untold[m] \cup EntitiesIn(removed \cup added, m)
       /\ \A p \in Machine \ {m} :
            untold'[p] = IF p \in fromSubs <=> p \in toSubs
                         THEN untold[p] ELSE untold[p] \ {entityId[m]}
  <2> DEFINE crossed == (fromSubs \ toSubs) \cup (toSubs \ fromSubs)
  <2>1. \A p : p \in crossed <=> ~ (p \in fromSubs <=> p \in toSubs)
    OBVIOUS
  <2> HIDE DEF crossed
  <2>2. untold' = [p \in Machine |->
           CASE p = m -> untold[m] \cup EntitiesIn(removed \cup added, m)
             [] p \in crossed -> untold[p] \ {entityId[m]}
             [] OTHER -> untold[p]]
    BY <1>3, Zenon DEF crossed
  <2>3. m \notin crossed
    BY <1>7, <2>1
  <2>4. untold'[m] = untold[m] \cup EntitiesIn(removed \cup added, m)
    BY <2>2, <2>3, Zenon
  <2>5. ASSUME NEW p \in Machine \ {m}
        PROVE  untold'[p] = IF p \in crossed THEN untold[p] \ {entityId[m]}
                                             ELSE untold[p]
    BY <2>2, Zenon
  <2> QED BY <2>1, <2>4, <2>5
<1>11. NothingShown'
  <2> SUFFICES ASSUME NEW p \in Machine, phase'[p] # "PLAY",
                      phase'[p] = "FREE" \/ Steady(p)'
               PROVE  known'[p] = {}
    BY DEF NothingShown
  <2>1. p # m /\ phase'[p] = phase[p]
    BY <1>1
  <2>2. known[p] = {}
    BY <1>5, <2>1 DEF ObserverInv, NothingShown
  <2>3. CASE phase[p] = "FREE"
    BY <1>9, <2>2, <2>3
  <2>4. CASE phase[p] # "FREE"
    <3>1. p \notin fromSubs /\ p \notin toSubs
      BY <1>5, <1>8, <2>1, <2>4
    <3> QED BY <1>9, <2>2, <3>1
  <2> QED BY <2>3, <2>4
<1>12. ASSUME Steady(m)' PROVE Agrees(m)'
  <2> DEFINE before == Square(chunk[m], viewDistance[m])
             after == Square(to, viewDistance[m])
  <2>1. known[m] \ untold[m] = EntitiesIn(before, m) \ untold[m]
    <3>1. Steady(m)
      BY <1>1, <1>12 DEF Steady
    <3> QED BY <1>4, <3>1 DEF ObserverInv, ObserverExact
  <2>2. removed \cup added = (before \ after) \cup (after \ before)
    BY DEF removed, added
  <2>3. Shown(m)' = EntitiesIn(after, m)
    <3>1. \A r \in Playing \ {m} : chunk'[r] = chunk[r]
      BY <1>4, <1>5
    <3>2. viewDistance'[m] = viewDistance[m] /\ entityId' = entityId
      BY <1>1
    <3>3. Shown(m)' = {entityId'[q] : q \in {r \in Playing' \ {m} :
                         chunk'[r] \in Square(chunk'[m], viewDistance'[m])}}
      BY DEF Shown, InView
    <3> QED BY <1>4, <1>6, <3>1, <3>2, <3>3 DEF EntitiesIn
  <2>4. known'[m] = known[m]
    BY <1>7, <1>9
  <2> HIDE DEF before, after
  <2>5. EntitiesIn(before, m) \ untold'[m] = EntitiesIn(after, m) \ untold'[m]
    BY <1>10, <2>2 DEF EntitiesIn
  <2>6. known[m] \ untold'[m] = EntitiesIn(before, m) \ untold'[m]
    BY <1>10, <2>1
  <2> QED BY <2>3, <2>4, <2>5, <2>6 DEF Agrees
<1>13. ASSUME NEW p \in Playing', Steady(p)', p # m PROVE Agrees(p)'
  <2>1. p \in Playing /\ p \in Machine /\ phase[p] = "PLAY" /\ p # m
    BY <1>4, <1>13 DEF Playing
  <2>2. Steady(p)
    BY <1>5, <1>13, <2>1
  <2>3. known[p] \ untold[p] = Shown(p) \ untold[p]
    BY <2>1, <2>2, ObserverWords DEF ObserverInv, Agrees
  <2>4. /\ p \in fromSubs <=> chunk[m] \in Square(chunk[p], viewDistance[p])
        /\ p \in toSubs <=> to \in Square(chunk[p], viewDistance[p])
    BY <1>8, <2>1, <2>2
  <2>5. InView(p)' = {r \in Playing \ {p} :
                        chunk'[r] \in Square(chunk[p], viewDistance[p])}
    BY <1>1, <1>4, <1>5, <2>1 DEF InView
  <2>6. \A r \in Playing \ {m} : chunk'[r] = chunk[r]
    BY <1>4, <1>5
  <2>7. m \in InView(p) <=> p \in fromSubs
    BY <1>4, <2>1, <2>4 DEF InView
  <2>8. InView(p)' = IF p \in toSubs THEN InView(p) \cup {m}
                                     ELSE InView(p) \ {m}
    <3> DEFINE square == Square(chunk[p], viewDistance[p])
    <3>1. InView(p) = {r \in Playing \ {p} : chunk[r] \in square}
      BY DEF InView
    <3> HIDE DEF square
    <3> QED BY <1>4, <1>6, <2>1, <2>4, <2>5, <2>6, <3>1 DEF square
  <2>9. CASE p \in toSubs
    <3>1. Shown(p)' = Shown(p) \cup {entityId[m]}
      BY <1>1, <2>8, <2>9, ShownComes
    <3>2. CASE p \in fromSubs
      <4>1. entityId[m] \in Shown(p)
        BY <2>7, <3>2 DEF Shown
      <4>2. known'[p] = known[p] /\ untold'[p] = untold[p]
        BY <1>9, <1>10, <2>1, <2>9, <3>2
      <4> QED BY <2>3, <3>1, <4>1, <4>2 DEF Agrees
    <3>3. CASE p \notin fromSubs
      <4>1. /\ known'[p] = known[p] \cup {entityId[m]}
            /\ untold'[p] = untold[p] \ {entityId[m]}
        BY <1>9, <1>10, <2>1, <2>9, <3>3
      <4> QED BY <2>3, <3>1, <4>1 DEF Agrees
    <3> QED BY <3>2, <3>3
  <2>10. CASE p \notin toSubs
    <3>1. \A q \in InView(p) \ {m} : entityId[q] # entityId[m]
      <4>1. \A q \in InView(p) : q \in LoggedIn
        BY DEF InView, Playing, LoggedIn
      <4>2. m \in LoggedIn
        BY <1>4 DEF Playing, LoggedIn
      <4> QED BY <4>1, <4>2 DEF RegistryInv, EntityIds
    <3>2. Shown(p)' = Shown(p) \ {entityId[m]}
      BY <1>1, <2>8, <2>10, <3>1, ShownGoes
    <3>3. CASE p \in fromSubs
      <4>1. /\ known'[p] = known[p] \ {entityId[m]}
            /\ untold'[p] = untold[p] \ {entityId[m]}
        BY <1>9, <1>10, <2>1, <2>10, <3>3
      <4> QED BY <2>3, <3>2, <4>1 DEF Agrees
    <3>4. CASE p \notin fromSubs
      <4>1. InView(p)' = InView(p)
        BY <2>7, <2>8, <2>10, <3>4
      <4>2. Shown(p)' = Shown(p)
        BY <1>1, <4>1 DEF Shown
      <4>3. known'[p] = known[p] /\ untold'[p] = untold[p]
        BY <1>9, <1>10, <2>1, <2>10, <3>4
      <4> QED BY <2>3, <4>2, <4>3 DEF Agrees
    <3> QED BY <3>3, <3>4
  <2> QED BY <2>9, <2>10
<1>14. ObserverExact'
  BY <1>13, <1>12, ObserverWordsNext
<1> QED BY <1>11, <1>14 DEF ObserverInv

\* The end of a session.
LEMMA ObserverDisconnected ==
  ASSUME TypeOK, SquareSubscription, RegistryInv, ObserverInv,
         NEW m \in Machine, onClientDisconnected(m)
  PROVE  ObserverInv'
<1>1. /\ phase'[m] = "FREE"
      /\ known'[m] = {}
      /\ Playing' = Playing \ {m}
  <2>1. phase'[m] = "FREE" /\ Playing' = Playing \ {m}
    BY DEF onClientDisconnected, Freed, Playing, TypeOK
  <2>2. known'[m] = {}
    <3>1. CASE LeavePlay(m)
      <4> DEFINE audience == subscribers(subscriptions', chunk[m]) \ {m}
      <4>1. known' = [p \in Machine |->
                        CASE p = m -> {}
                          [] p \in Live(audience) -> known[p] \ {entityId[m]}
                          [] OTHER -> known[p]]
        BY <3>1, Zenon DEF LeavePlay
      <4>2. m \notin Live(audience)
        BY DEF Live
      <4> HIDE DEF audience
      <4> QED BY <4>1, <4>2, Zenon
    <3>2. CASE LeaveEarly(m)
      BY <3>2 DEF LeaveEarly, TypeOK
    <3> QED BY <3>1, <3>2 DEF onClientDisconnected
  <2> QED BY <2>1, <2>2
<1>2. ASSUME NEW p \in Machine, p # m
      PROVE  /\ phase'[p] = phase[p]
             /\ entityId'[p] = entityId[p]
             /\ viewDistance'[p] = viewDistance[p]
             /\ chunk'[p] = chunk[p]
             /\ history'[p] \in {history[p], history[p] \cup {"delisted"}}
  BY <1>2, EndSpares
<1>3. ASSUME NEW p \in Machine, p # m PROVE Steady(p)' <=> Steady(p)
  BY <1>2, <1>3 DEF Steady
<1>4. ASSUME NEW p \in Machine, p # m
      PROVE  /\ phase[m] # "PLAY" \/ phase[p] = "FREE" => known'[p] = known[p]
             /\ phase[m] # "PLAY" => untold'[p] = untold[p]
             /\ phase[m] = "PLAY" /\ phase[p] # "FREE" /\ Steady(p) =>
                  IF phase[p] = "PLAY"
                       /\ chunk[m] \in Square(chunk[p], viewDistance[p])
                  THEN /\ known'[p] = known[p] \ {entityId[m]}
                       /\ untold'[p] = untold[p] \ {entityId[m]}
                  ELSE known'[p] = known[p] /\ untold'[p] = untold[p]
  <2>1. CASE phase[m] # "PLAY"
    BY <1>4, <2>1 DEF onClientDisconnected, LeaveEarly, TypeOK
  <2>2. CASE phase[m] = "PLAY"
    <3> DEFINE audience == subscribers(subscriptions', chunk[m]) \ {m}
    <3>1. known' = [q \in Machine |->
                      CASE q = m -> {}
                        [] q \in Live(audience) -> known[q] \ {entityId[m]}
                        [] OTHER -> known[q]]
      BY <2>2, Zenon DEF onClientDisconnected, LeavePlay
    <3>6. untold' = [q \in Machine |->
                       CASE q = m -> {}
                         [] q \in audience -> untold[q] \ {entityId[m]}
                         [] OTHER -> untold[q]]
      BY <2>2, Zenon DEF onClientDisconnected, LeavePlay
    <3>2. subscriptions'[p] = subscriptions[p]
      BY <1>4, <2>2 DEF onClientDisconnected, LeavePlay, leave, TypeOK
    <3>3. phase[p] # "FREE" /\ Steady(p) =>
            (p \in Live(audience) <=> phase[p] = "PLAY"
               /\ chunk[m] \in Square(chunk[p], viewDistance[p]))
      BY <1>4, <3>2, Reached DEF Live
    <3>4. /\ phase[p] = "FREE" => p \notin Live(audience)
          /\ phase[p] # "FREE" => (p \in audience <=> p \in Live(audience))
      BY DEF Live
    <3> HIDE DEF audience
    <3>5. known'[p] = IF p \in Live(audience) THEN known[p] \ {entityId[m]}
                                              ELSE known[p]
      BY <1>4, <3>1, Zenon
    <3>7. untold'[p] = IF p \in audience THEN untold[p] \ {entityId[m]}
                                         ELSE untold[p]
      BY <1>4, <3>6, Zenon
    <3> QED BY <2>2, <3>3, <3>4, <3>5, <3>7
  <2> QED BY <2>1, <2>2
<1>5. NothingShown'
  <2> SUFFICES ASSUME NEW p \in Machine, phase'[p] # "PLAY",
                      phase'[p] = "FREE" \/ Steady(p)'
               PROVE  known'[p] = {}
    BY DEF NothingShown
  <2>1. CASE p = m
    BY <1>1, <2>1
  <2>2. CASE p # m
    <3>1. known[p] = {}
      BY <1>2, <1>3, <2>2 DEF ObserverInv, NothingShown
    <3> QED BY <1>2, <1>3, <1>4, <2>2, <3>1
  <2> QED BY <2>1, <2>2
<1>6. ASSUME NEW p \in Playing', Steady(p)' PROVE Agrees(p)'
  <2>1. p \in Playing /\ p \in Machine /\ phase[p] = "PLAY" /\ p # m
    BY <1>1, <1>6 DEF Playing
  <2>2. Steady(p)
    BY <1>3, <1>6, <2>1
  <2>3. known[p] \ untold[p] = Shown(p) \ untold[p]
    BY <2>1, <2>2, ObserverWords DEF ObserverInv, Agrees
  <2>4. InView(p)' = InView(p) \ {m}
    <3>1. \A r \in Playing \ {m} : chunk'[r] = chunk[r]
      BY <1>2 DEF Playing
    <3> QED BY <1>1, <1>2, <2>1, <3>1 DEF InView
  <2>5. \A q \in InView(p) \ {m} : entityId'[q] = entityId[q]
    BY <1>2 DEF InView, Playing
  <2>6. CASE m \in InView(p)
    <3>1. /\ phase[m] = "PLAY"
          /\ chunk[m] \in Square(chunk[p], viewDistance[p])
      BY <2>6 DEF InView, Playing
    <3>2. \A q \in InView(p) \ {m} : entityId[q] # entityId[m]
      <4>1. InView(p) \subseteq LoggedIn
        BY DEF InView, Playing, LoggedIn
      <4> QED BY <2>6, <4>1 DEF RegistryInv, EntityIds
    <3>3. Shown(p)' = Shown(p) \ {entityId[m]}
      BY <2>4, <2>5, <3>2, ShownGoes
    <3>4. /\ known'[p] = known[p] \ {entityId[m]}
          /\ untold'[p] = untold[p] \ {entityId[m]}
      BY <1>4, <2>1, <2>2, <3>1
    <3> QED BY <2>3, <3>3, <3>4 DEF Agrees
  <2>7. CASE m \notin InView(p)
    <3>1. Shown(p)' = Shown(p)
      BY <2>4, <2>5, <2>7 DEF Shown
    <3>2. \/ phase[m] # "PLAY"
          \/ chunk[m] \notin Square(chunk[p], viewDistance[p])
      BY <2>1, <2>7 DEF InView, Playing
    <3>3. known'[p] = known[p] /\ untold'[p] = untold[p]
      BY <1>4, <2>1, <2>2, <3>2
    <3> QED BY <2>3, <3>1, <3>3 DEF Agrees
  <2> QED BY <2>6, <2>7
<1>7. ObserverExact'
  BY <1>6, ObserverWordsNext
<1> QED BY <1>5, <1>7 DEF ObserverInv

\* The handlers that move nobody.
LEMMA UnmovedSteps ==
  ASSUME TypeOK, NEW m \in Machine,
         \/ onClientConnected(m) \/ Handshake(m)
         \/ \E name \in Name : LoginStart(m, name)
         \/ \E requested \in RequestedViewDistance :
              ClientSettingsInit(m, requested) \/ ClientSettings(m, requested)
         \/ LoginRejected(m) \/ PlayInitRejected(m) \/ PlayRejected(m)
         \/ Status(m) \/ Timeout(m) \/ broadcastLocally(m) \/ Chat(m)
  PROVE  MovesNobody
<1>1. ASSUME onClientConnected(m) PROVE MovesNobody
  <2>1. /\ phase[m] = "FREE"
        /\ phase' = [phase EXCEPT ![m] = "INITIAL"]
        /\ \A p \in Machine \ {m} : /\ viewDistance'[p] = viewDistance[p]
                                    /\ history'[p] = history[p]
        /\ UNCHANGED <<entityId, known, untold, chunk>>
    BY <1>1 DEF onClientConnected, Running, TypeOK, clientVars
  <2> QED BY <2>1 DEF MovesNobody, Playing, TypeOK
<1>2. ASSUME \/ LoginRejected(m) \/ PlayInitRejected(m) \/ PlayRejected(m)
             \/ Status(m) \/ Timeout(m) \/ broadcastLocally(m) \/ Chat(m)
      PROVE  MovesNobody
  BY <1>2 DEF MovesNobody, Playing, LoginRejected, PlayInitRejected,
              PlayRejected, Status, Timeout, Reject, broadcastLocally, Chat,
              playerVars, clientVars, ghostVars
<1>3. ASSUME Handshake(m) PROVE MovesNobody
  BY <1>3 DEF MovesNobody, Playing, TypeOK, Handshake, Reject, Running,
              playerVars, clientVars, ghostVars
<1>4. ASSUME NEW name \in Name, LoginStart(m, name) PROVE MovesNobody
  <2>1. /\ phase[m] = "LOGIN"
        /\ phase' = [phase EXCEPT ![m] = "PLAY_INIT"]
        /\ entityId' = [entityId EXCEPT ![m] = nextEntityId]
        /\ UNCHANGED <<viewDistance, known, untold, history, chunk>>
    BY <1>4 DEF LoginStart, Running, ghostVars
  <2> QED BY <2>1 DEF MovesNobody, Playing, TypeOK
<1>5. ASSUME NEW requested \in RequestedViewDistance,
             ClientSettingsInit(m, requested) \/ ClientSettings(m, requested)
      PROVE  MovesNobody
  <2> DEFINE new == Clamp(requested)
  <2>1. /\ viewDistance' = [viewDistance EXCEPT ![m] = new]
        /\ UNCHANGED <<phase, entityId, known, untold, chunk>>
        /\ history' \in {history, [history EXCEPT ![m] = @ \cup {"resized"}]}
        /\ phase[m] = "PLAY_INIT" \/ viewDistance[m] = new
             \/ history' = [history EXCEPT ![m] = @ \cup {"resized"}]
    BY <1>5 DEF ClientSettingsInit, ClientSettings, onClientSettingsChange,
                Running
  <2> HIDE DEF new
  <2> QED BY <2>1 DEF MovesNobody, Playing, TypeOK
<1> QED BY <1>1, <1>2, <1>3, <1>4, <1>5

\* Every step preserves the invariant.
LEMMA ObserverNext ==
  /\ TypeOK /\ MembershipExact /\ SquareSubscription /\ RegistryInv
  /\ ObserverInv /\ [Next]_vars
  => ObserverInv'
<1> SUFFICES ASSUME TypeOK, MembershipExact, SquareSubscription, RegistryInv,
                    ObserverInv, [Next]_vars
             PROVE  ObserverInv'
  OBVIOUS
<1>1. ASSUME MovesNobody PROVE ObserverInv'
  BY <1>1, ObserverUnmoved
<1>2. ASSUME UNCHANGED vars PROVE MovesNobody
  BY <1>2 DEF MovesNobody, Playing, vars, playerVars, clientVars, ghostVars
<1>3. ASSUME NEW m \in Machine,
             \/ onClientConnected(m) \/ Handshake(m)
             \/ \E name \in Name : LoginStart(m, name)
             \/ \E requested \in RequestedViewDistance :
                  ClientSettingsInit(m, requested) \/ ClientSettings(m, requested)
             \/ LoginRejected(m) \/ PlayInitRejected(m) \/ PlayRejected(m)
             \/ Status(m) \/ Timeout(m) \/ broadcastLocally(m) \/ Chat(m)
      PROVE  MovesNobody
  BY <1>3, UnmovedSteps
<1>4. ASSUME NEW m \in Machine, NEW id, TeleportConfirm(m, id)
      PROVE  ObserverInv'
  BY <1>4, ObserverConfirm
<1>5. ASSUME NEW m \in Machine, NEW to \in Position, Move(m, to)
      PROVE  ObserverInv'
  BY <1>5, ObserverMove
<1>6. ASSUME NEW m \in Machine, onClientDisconnected(m) PROVE ObserverInv'
  BY <1>6, ObserverDisconnected
<1> QED BY <1>1, <1>2, <1>3, <1>4, <1>5, <1>6 DEF Next

(***************************************************************************)
(* The typing, the tracker, the registry and the view, together inductive. *)
(***************************************************************************)
SessionInv ==
  TypeOK /\ MembershipExact /\ SquareSubscription /\ RegistryInv /\ ObserverInv

\* It holds initially.
LEMMA SessionInit == Init => SessionInv
BY TypeInit, MembershipInit, SubscriptionInit, RegistryInit, ObserverInit
   DEF SessionInv

\* Every step preserves it.
LEMMA SessionNext == SessionInv /\ [Next]_vars => SessionInv'
BY TypeNext, MembershipNext, SubscriptionNext, RegistryNext, ObserverNext
   DEF SessionInv

(***************************************************************************)
(* A player shows exactly the other players within its view, however those *)
(* enter, walk and leave, but for those its own moves brought into or out  *)
(* of the view and that have not crossed its border since.                 *)
(***************************************************************************)
THEOREM ObserverCorrect == Spec => []ObserverExact
<1>1. SessionInv => ObserverExact
  BY DEF SessionInv, ObserverInv
<1> QED BY <1>1, SessionInit, SessionNext, PTL DEF Spec

==============================================================================
