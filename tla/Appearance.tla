------------------------------ MODULE Appearance ------------------------------
(***************************************************************************)
(* Crouching and sprinting on top of the sessions: the EntityAction packet *)
(* (StateMachine::onPacket), the metadata it is announced with             *)
(* (sendMetadataUpdate) and the metadata in the spawn packet               *)
(* (createSpawnPacket).                                                    *)
(*                                                                         *)
(* Every action is a StateMachine action together with what it does to the *)
(* look of the players.  What a client shows of an entity is the fold of   *)
(* the SpawnPlayer and EntityMetadata packets sent to it; an entity is     *)
(* spawned standing, with the flags in the packet.                         *)
(***************************************************************************)
EXTENDS StateMachine

VARIABLES
  doing,  \* doing[m]: _playerState.crouching and .sprinting
  shown,  \* shown[p][e]: what the client of p shows of the entity e
  silent  \* silent[p]: entities that changed nothing since they were spawned

lookVars == <<doing, shown, silent>>
allVars == <<vars, lookVars>>

Activity == {"crouching", "sprinting"}
Pose == {"STANDING", "CROUCHING"}
EntityId == 0 .. MaxEntityId
Look == [flags : SUBSET Activity, pose : Pose]
Unspawned == [flags |-> {}, pose |-> "STANDING"]

LookInit ==
  /\ Init
  /\ doing = [m \in Machine |-> {}]
  /\ shown = [p \in Machine |-> [e \in EntityId |-> Unspawned]]
  /\ silent = [p \in Machine |-> {}]
------------------------------------------------------------------------------
\* A mutant of spawnFlags: the flags are left at 0.
spawnFlagsZero(m) == {}

\* The metadata of the spawn packet: index 0, the flags.
spawnFlags(m) == doing[m]

\* The packets createSpawnPacket(q) for every <<p, q>> of pairs, sent to p.  A
\* client that was told to destroy an entity forgets its look.
spawn(pairs) ==
  LET spawned(p, e) == {q \in Machine : <<p, q>> \in pairs /\ entityId[q] = e}
      seen(p, e) ==
        IF spawned(p, e) = {} THEN shown[p][e]
        ELSE [flags |-> spawnFlags(CHOOSE q \in spawned(p, e) : TRUE),
              pose |-> "STANDING"]
  IN /\ shown' = [p \in Machine |-> [e \in EntityId |->
                    IF e \in known'[p] THEN seen(p, e) ELSE Unspawned]]
     /\ silent' = [p \in Machine |-> known'[p] \cap
                     (silent[p] \cup {e \in EntityId : spawned(p, e) # {}})]

\* The player enters: its audience is sent its spawn packet, and the player
\* those of the members of the chunks in its view.
Enter(m, id) ==
  /\ TeleportConfirm(m, id)
  /\ LET audience == subscribers(subscriptions', chunk[m]) \ {m}
         view == Square(chunk[m], viewDistance[m])
         visible == (UNION {members(membership', c) : c \in view}) \ {m}
     IN spawn((audience \X {m}) \cup ({m} \X visible))
  /\ UNCHANGED doing

\* The player leaves its chunk: those who come to see it are sent its spawn
\* packet; the player itself is sent none.
Walk(m, to) ==
  /\ Move(m, to)
  /\ LET fromSubs == subscribers(subscriptions', chunk[m]) \ {m}
         toSubs == subscribers(subscriptions', to) \ {m}
     IN spawn((toSubs \ fromSubs) \X {m})
  /\ UNCHANGED doing
------------------------------------------------------------------------------
\* A mutant of poseOf: a sprinting player does not crouch.
poseOfSprinting(activities) ==
  IF activities = {"crouching"} THEN "CROUCHING" ELSE "STANDING"

poseOf(activities) ==
  IF "crouching" \in activities THEN "CROUCHING" ELSE "STANDING"

\* The flags and the pose go to the subscribers of the player's chunk; a
\* client ignores what it is told of an entity it does not know.
sendMetadataUpdate(m) ==
  LET look == [flags |-> doing'[m], pose |-> poseOf(doing'[m])]
      audience == Live(subscribers(subscriptions, chunk[m]) \ {m})
      reached == {p \in audience : entityId[m] \in known[p]}
  IN /\ shown' = [p \in Machine |->
                    IF p \in reached
                    THEN [shown[p] EXCEPT ![entityId[m]] = look] ELSE shown[p]]
     /\ silent' = [p \in Machine |->
                     IF p \in reached THEN silent[p] \ {entityId[m]} ELSE silent[p]]

StartActivity(m, activity) ==
  /\ broadcastLocally(m)
  /\ activity \notin doing[m]
  /\ doing' = [doing EXCEPT ![m] = @ \cup {activity}]
  /\ sendMetadataUpdate(m)

StopActivity(m, activity) ==
  /\ broadcastLocally(m)
  /\ activity \in doing[m]
  /\ doing' = [doing EXCEPT ![m] = @ \ {activity}]
  /\ sendMetadataUpdate(m)

\* The wrong entity id, an unknown action, or an activity that is started or
\* stopped twice: a disconnect, whatever the player is doing.
EntityActionRejected(m) ==
  /\ Running(m, "PLAY")
  /\ Reject(m)
  /\ UNCHANGED lookVars

\* The end of a session takes its entity from the clients that are told.
End(m) ==
  /\ onClientDisconnected(m)
  /\ doing' = [doing EXCEPT ![m] = {}]
  /\ spawn({})

\* The other handlers send no metadata.
Elsewhere(m) ==
  /\ \/ onClientConnected(m)
     \/ Handshake(m)
     \/ \E name \in Name : LoginStart(m, name)
     \/ LoginRejected(m)
     \/ \E requested \in RequestedViewDistance :
          ClientSettingsInit(m, requested) \/ ClientSettings(m, requested)
     \/ PlayInitRejected(m)
     \/ broadcastLocally(m)
     \/ Chat(m)
     \/ PlayRejected(m)
     \/ Status(m)
     \/ Timeout(m)
  /\ UNCHANGED lookVars

LookNext ==
  \E m \in Machine :
    \/ \E id \in 0 .. MaxTeleportId + 1 : Enter(m, id)
    \/ \E to \in Position : Walk(m, to)
    \/ \E activity \in Activity :
         StartActivity(m, activity) \/ StopActivity(m, activity)
    \/ EntityActionRejected(m)
    \/ End(m)
    \/ Elsewhere(m)

LookSpec == LookInit /\ [][LookNext]_allVars
------------------------------------------------------------------------------
\* q is in the view of p, and it was not a move of p that brought it there.
Watches(p, q) ==
  /\ p # q
  /\ Steady(p) /\ entityId[q] \notin untold[p]
  /\ chunk[q] \in Square(chunk[p], viewDistance[p])

(***************************************************************************)
(* A player shows what every player in its view is doing, whether that     *)
(* player began before it came into view, while it was in view or while it *)
(* was away in between, and wherever the one that watches went meanwhile:  *)
(* the spawn packets and the updates complete each other.                  *)
(***************************************************************************)
FlagsFresh ==
  \A p, q \in Playing :
    Watches(p, q) => shown[p][entityId[q]].flags = doing[q]

(***************************************************************************)
(* The pose goes by the updates only: a watcher shows a player as standing *)
(* that crouches, if it crouched when it came into view and changed        *)
(* nothing since (createSpawnPacket sends no pose, statemachine.cpp:992).  *)
(* In every other case the pose is the right one.                          *)
(***************************************************************************)
PoseFresh ==
  \A p, q \in Playing :
    Watches(p, q) =>
      LET pose == shown[p][entityId[q]].pose
      IN \/ pose = "CROUCHING" <=> "crouching" \in doing[q]
         \/ /\ entityId[q] \in silent[p]
            /\ pose = "STANDING"

==============================================================================
