--------------------------- MODULE AppearanceProofs ---------------------------
(***************************************************************************)
(* Proofs about Appearance, for everything StateMachine is a parameter of. *)
(***************************************************************************)
EXTENDS Appearance, StateMachineProofs

(***************************************************************************)
(* Every step of the players' looks is a step of the sessions.             *)
(***************************************************************************)
LEMMA LookStep == [LookNext]_allVars => [Next]_vars
<1> SUFFICES ASSUME [LookNext]_allVars PROVE [Next]_vars
  OBVIOUS
<1>1. ASSUME UNCHANGED allVars PROVE UNCHANGED vars
  BY <1>1 DEF allVars
<1>2. ASSUME NEW m \in Machine, NEW id \in 0 .. MaxTeleportId + 1, Enter(m, id)
      PROVE  Next
  BY <1>2 DEF Enter, Next
<1>3. ASSUME NEW m \in Machine, NEW to \in Position, Walk(m, to) PROVE Next
  BY <1>3 DEF Walk, Next
<1>4. ASSUME NEW m \in Machine, NEW activity \in Activity,
             StartActivity(m, activity) \/ StopActivity(m, activity)
      PROVE  Next
  BY <1>4 DEF StartActivity, StopActivity, Next
<1>5. ASSUME NEW m \in Machine, EntityActionRejected(m) PROVE Next
  <2>1. PlayRejected(m)
    BY <1>5 DEF EntityActionRejected, PlayRejected
  <2> QED BY <2>1 DEF Next
<1>6. ASSUME NEW m \in Machine, End(m) PROVE Next
  BY <1>6 DEF End, Next
<1>7. ASSUME NEW m \in Machine, Elsewhere(m) PROVE Next
  BY <1>7 DEF Elsewhere, Next
<1> QED BY <1>1, <1>2, <1>3, <1>4, <1>5, <1>6, <1>7 DEF LookNext

(***************************************************************************)
(* The looks implement the sessions: what is proved of every execution of  *)
(* StateMachine holds when players crouch and sprint as well.              *)
(***************************************************************************)
THEOREM LookRefinesSessions == LookSpec => Spec
<1>1. LookInit => Init
  BY DEF LookInit
<1> QED BY <1>1, LookStep, PTL DEF LookSpec, Spec
------------------------------------------------------------------------------
(***************************************************************************)
(* What a watcher shows of a player, flags and pose together.  Both are    *)
(* inductive only with what the sessions guarantee: that the client shows  *)
(* the player at all, and that no other player has its entity id.          *)
(***************************************************************************)
Fresh(p, q) ==
  LET look == shown[p][entityId[q]]
  IN /\ look.flags = doing[q]
     /\ \/ look.pose = "CROUCHING" <=> "crouching" \in doing[q]
        \/ entityId[q] \in silent[p] /\ look.pose = "STANDING"

AllFresh == \A p, q \in Playing : Watches(p, q) => Fresh(p, q)

LookType ==
  /\ doing \in [Machine -> SUBSET Activity]
  /\ shown \in [Machine -> [EntityId -> Look]]
  /\ silent \in [Machine -> SUBSET EntityId]

LookInv == LookType /\ AllFresh

\* The two properties in one.
LEMMA FreshWords == AllFresh => FlagsFresh /\ PoseFresh
BY DEF AllFresh, Fresh, FlagsFresh, PoseFresh

\* It holds initially.
LEMMA LookInvInit == LookInit => LookInv
<1> SUFFICES ASSUME LookInit PROVE LookInv
  OBVIOUS
<1>1. Playing = {}
  BY DEF LookInit, Init, Playing
<1>2. Unspawned \in Look
  BY DEF Unspawned, Look, Pose
<1>3. LookType
  BY <1>2 DEF LookInit, LookType
<1> QED BY <1>1, <1>3 DEF LookInv, AllFresh

\* A watcher shows the player it watches ...
LEMMA Shows ==
  ASSUME ObserverExact, NEW p \in Playing, NEW q \in Playing, Watches(p, q)
  PROVE  entityId[q] \in known[p]
BY DEF ObserverExact, EntitiesIn, Watches

\* ... after a step as before it.
LEMMA ShowsNext ==
  ASSUME ObserverExact', NEW p \in Playing', NEW q \in Playing', Watches(p, q)'
  PROVE  entityId'[q] \in known'[p]
BY DEF ObserverExact, EntitiesIn, Watches

\* No two players have the same entity id.
LEMMA OwnId ==
  ASSUME RegistryInv, NEW p \in LoggedIn, NEW q \in LoggedIn, p # q
  PROVE  entityId[p] # entityId[q]
BY DEF RegistryInv, EntityIds

\* The entity of a player is one of the entities.
LEMMA IdType ==
  ASSUME TypeOK, NEW q \in Machine
  PROVE  entityId[q] \in EntityId
BY DEF TypeOK, EntityId
------------------------------------------------------------------------------
\* What the fields of a client are after spawn packets.
LEMMA SpawnType ==
  ASSUME LookType, NEW pairs, spawn(pairs)
  PROVE  /\ shown' \in [Machine -> [EntityId -> Look]]
         /\ silent' \in [Machine -> SUBSET EntityId]
<1> DEFINE spawned(p, e) == {q \in Machine : <<p, q>> \in pairs /\ entityId[q] = e}
           seen(p, e) ==
             IF spawned(p, e) = {} THEN shown[p][e]
             ELSE [flags |-> spawnFlags(CHOOSE q \in spawned(p, e) : TRUE),
                   pose |-> "STANDING"]
<1>1. /\ shown' = [p \in Machine |-> [e \in EntityId |->
                     IF e \in known'[p] THEN seen(p, e) ELSE Unspawned]]
      /\ silent' = [p \in Machine |-> known'[p] \cap
                      (silent[p] \cup {e \in EntityId : spawned(p, e) # {}})]
  BY DEF spawn
<1>2. Unspawned \in Look
  BY DEF Unspawned, Look, Pose
<1>3. ASSUME NEW p \in Machine, NEW e \in EntityId PROVE seen(p, e) \in Look
  <2>1. CASE spawned(p, e) = {}
    BY <2>1 DEF LookType
  <2>2. CASE spawned(p, e) # {}
    <3>1. (CHOOSE q \in spawned(p, e) : TRUE) \in Machine
      BY <2>2
    <3>2. spawnFlags(CHOOSE q \in spawned(p, e) : TRUE) \in SUBSET Activity
      BY <3>1 DEF spawnFlags, LookType
    <3> HIDE DEF spawned
    <3> QED BY <2>2, <3>2 DEF Look, Pose
  <2> QED BY <2>1, <2>2
<1> HIDE DEF spawned, seen
<1>4. shown' \in [Machine -> [EntityId -> Look]]
  BY <1>1, <1>2, <1>3
<1>5. ASSUME NEW p \in Machine PROVE silent[p] \subseteq EntityId
  BY DEF LookType
<1>6. silent' \in [Machine -> SUBSET EntityId]
  BY <1>1, <1>5
<1> QED BY <1>4, <1>6

\* An entity nobody's spawn packet was sent for stays as it was shown.
LEMMA SpawnOthers ==
  ASSUME NEW pairs, spawn(pairs), NEW p \in Machine, NEW e \in EntityId,
         e \in known'[p],
         \A q \in Machine : <<p, q>> \in pairs => entityId[q] # e
  PROVE  /\ shown'[p][e] = shown[p][e]
         /\ e \in silent[p] => e \in silent'[p]
BY DEF spawn

\* An entity whose spawn packet was sent is shown as the packet says.
LEMMA SpawnOne ==
  ASSUME NEW pairs, spawn(pairs), NEW p \in Machine, NEW q \in Machine,
         entityId[q] \in EntityId, entityId[q] \in known'[p],
         <<p, q>> \in pairs,
         \A r \in Machine : <<p, r>> \in pairs /\ entityId[r] = entityId[q] => r = q
  PROVE  /\ shown'[p][entityId[q]] = [flags |-> doing[q], pose |-> "STANDING"]
         /\ entityId[q] \in silent'[p]
<1> DEFINE spawned(x, e) == {r \in Machine : <<x, r>> \in pairs /\ entityId[r] = e}
<1>1. spawned(p, entityId[q]) = {q}
  OBVIOUS
<1>2. (CHOOSE r \in spawned(p, entityId[q]) : TRUE) = q
  BY <1>1
<1>3. spawnFlags(q) = doing[q]
  BY DEF spawnFlags
<1>4. shown' = [x \in Machine |-> [e \in EntityId |->
                  IF e \in known'[x]
                  THEN IF spawned(x, e) = {} THEN shown[x][e]
                       ELSE [flags |-> spawnFlags(CHOOSE r \in spawned(x, e) : TRUE),
                             pose |-> "STANDING"]
                  ELSE Unspawned]]
  BY DEF spawn
<1>5. silent' = [x \in Machine |-> known'[x] \cap
                   (silent[x] \cup {e \in EntityId : spawned(x, e) # {}})]
  BY DEF spawn
<1> HIDE DEF spawned
<1>6. shown'[p][entityId[q]] = [flags |-> doing[q], pose |-> "STANDING"]
  BY <1>1, <1>2, <1>3, <1>4
<1>7. entityId[q] \in silent'[p]
  BY <1>1, <1>5
<1> QED BY <1>6, <1>7

(***************************************************************************)
(* What that makes of freshness: a player whose packet was sent is fresh,  *)
(* and one whose packet was not sent is as fresh as it was, if it went on  *)
(* doing what it did.                                                      *)
(***************************************************************************)
LEMMA FreshSpawned ==
  ASSUME NEW p, NEW q,
         shown'[p][entityId[q]] = [flags |-> doing[q], pose |-> "STANDING"],
         entityId[q] \in silent'[p],
         entityId'[q] = entityId[q], doing'[q] = doing[q]
  PROVE  Fresh(p, q)'
BY DEF Fresh

LEMMA FreshKept ==
  ASSUME NEW p, NEW q, Fresh(p, q),
         shown'[p][entityId[q]] = shown[p][entityId[q]],
         entityId[q] \in silent[p] => entityId[q] \in silent'[p],
         entityId'[q] = entityId[q], doing'[q] = doing[q]
  PROVE  Fresh(p, q)'
BY DEF Fresh
------------------------------------------------------------------------------
\* An entry into the world.
LEMMA LookEnter ==
  ASSUME SessionInv, SessionInv', LookInv, NEW m \in Machine, NEW id, Enter(m, id)
  PROVE  LookInv'
<1> DEFINE view == Square(chunk[m], viewDistance[m])
           audience == subscribers(subscriptions', chunk[m]) \ {m}
           visible == (UNION {members(membership', c) : c \in view}) \ {m}
           pairs == (audience \X {m}) \cup ({m} \X visible)
<1>1. TypeOK /\ SquareSubscription /\ RegistryInv /\ ObserverExact /\ ObserverExact'
  BY DEF SessionInv, ObserverInv
<1>2. /\ spawn(pairs)
      /\ doing' = doing
  BY DEF Enter
<1>3. /\ phase[m] = "PLAY_INIT"
      /\ phase' = [phase EXCEPT ![m] = "PLAY"]
      /\ UNCHANGED <<entityId, viewDistance, chunk, untold>>
      /\ history' \in {history, [history EXCEPT ![m] = @ \cup {"unconfirmed"}]}
      /\ membership' = [membership EXCEPT ![m] = @ \cup {chunk[m]}]
      /\ subscriptions' = [subscriptions EXCEPT ![m] = @ \cup view]
  BY DEF Enter, TeleportConfirm, Running, enter
<1>4. /\ Playing' = Playing \cup {m}
      /\ m \notin Playing
      /\ Playing \subseteq LoggedIn /\ m \in LoggedIn
      /\ LoggedIn \subseteq Machine
  BY <1>1, <1>3 DEF Playing, LoggedIn, TypeOK
<1>5. \A p \in Machine \ {m} : /\ history'[p] = history[p]
                               /\ membership'[p] = membership[p]
                               /\ subscriptions'[p] = subscriptions[p]
  BY <1>1, <1>3 DEF TypeOK
<1>6. visible = {r \in Playing : chunk[r] \in view}
  <2>1. \A r \in Machine \ {m} :
          membership'[r] = IF phase[r] = "PLAY" THEN {chunk[r]} ELSE {}
    BY <1>5 DEF SessionInv, MembershipExact
  <2> HIDE DEF view
  <2>2. \A r : r \in visible
                 <=> r \in Machine \ {m} /\ \E c \in view : c \in membership'[r]
    BY DEF members
  <2> HIDE DEF visible
  <2>3. \A r : r \in visible
                 <=> r \in Machine \ {m} /\ phase[r] = "PLAY" /\ chunk[r] \in view
    BY <2>1, <2>2
  <2> QED BY <1>4, <2>3 DEF Playing
<1>7. LookType'
  BY <1>2, SpawnType DEF LookInv, LookType
<1>8. ASSUME NEW p \in Playing', NEW q \in Playing', Watches(p, q)'
      PROVE  Fresh(p, q)'
  <2>1. /\ p \in LoggedIn /\ q \in LoggedIn /\ p # q
        /\ p \in Machine /\ q \in Machine
    BY <1>4, <1>8 DEF Watches
  <2>2. entityId[q] \in EntityId /\ entityId[q] \in known'[p]
    BY <1>1, <1>3, <1>8, <2>1, ShowsNext, IdType
  <2>3. chunk[q] \in Square(chunk[p], viewDistance[p])
    BY <1>3, <1>8 DEF Watches
  <2>4. ASSUME <<p, q>> \in pairs,
               \A r \in Machine : <<p, r>> \in pairs => r \in LoggedIn
        PROVE  Fresh(p, q)'
    <3>1. \A r \in Machine :
            <<p, r>> \in pairs /\ entityId[r] = entityId[q] => r = q
      BY <1>1, <2>1, <2>4, OwnId
    <3> HIDE DEF pairs
    <3>2. /\ shown'[p][entityId[q]] = [flags |-> doing[q], pose |-> "STANDING"]
          /\ entityId[q] \in silent'[p]
      BY <1>2, <2>1, <2>2, <2>4, <3>1, SpawnOne
    <3> QED BY <1>2, <1>3, <3>2, FreshSpawned
  <2>5. CASE p = m
    <3>1. q \in visible
      BY <1>4, <1>6, <2>1, <2>3, <2>5
    <3>2. \A r \in Machine : <<p, r>> \in pairs => r \in visible
      BY <2>5
    <3> QED BY <1>4, <1>6, <2>4, <2>5, <3>1, <3>2
  <2>6. CASE p # m /\ q = m
    <3>1. phase[p] = "PLAY" /\ Steady(p)
      BY <1>4, <1>5, <1>8, <2>1, <2>6 DEF Watches, Steady, Playing
    <3>2. p \in audience
      BY <1>1, <1>5, <2>1, <2>3, <2>6, <3>1, Reached
    <3>3. \A r \in Machine : <<p, r>> \in pairs => r = m
      BY <2>6
    <3> HIDE DEF audience, visible
    <3> QED BY <1>4, <2>4, <2>6, <3>2, <3>3
  <2>7. CASE p # m /\ q # m
    <3>1. p \in Playing /\ q \in Playing /\ Watches(p, q)
      BY <1>3, <1>4, <1>5, <1>8, <2>1, <2>7 DEF Watches, Steady
    <3>2. Fresh(p, q)
      BY <3>1 DEF LookInv, AllFresh
    <3>3. \A r \in Machine : <<p, r>> \in pairs => r = m
      BY <2>7
    <3>4. entityId[m] # entityId[q]
      BY <1>1, <1>4, <2>1, <2>7, OwnId
    <3> HIDE DEF pairs
    <3>5. \A r \in Machine : <<p, r>> \in pairs => entityId[r] # entityId[q]
      BY <3>3, <3>4
    <3>6. /\ shown'[p][entityId[q]] = shown[p][entityId[q]]
          /\ entityId[q] \in silent[p] => entityId[q] \in silent'[p]
      BY <1>2, <2>1, <2>2, <3>5, SpawnOthers
    <3> QED BY <1>2, <1>3, <3>2, <3>6, FreshKept
  <2> QED BY <2>5, <2>6, <2>7
<1>9. AllFresh'
  BY <1>8 DEF AllFresh
<1> QED BY <1>7, <1>9 DEF LookInv

\* A move into another chunk.
LEMMA LookWalk ==
  ASSUME SessionInv, SessionInv', LookInv, NEW m \in Machine, NEW to, Walk(m, to)
  PROVE  LookInv'
<1> DEFINE fromSubs == subscribers(subscriptions', chunk[m]) \ {m}
           toSubs == subscribers(subscriptions', to) \ {m}
           pairs == (toSubs \ fromSubs) \X {m}
           removed == Square(chunk[m], viewDistance[m])
                        \ Square(to, viewDistance[m])
           added == Square(to, viewDistance[m])
                      \ Square(chunk[m], viewDistance[m])
<1>1. TypeOK /\ SquareSubscription /\ RegistryInv /\ ObserverExact /\ ObserverExact'
  BY DEF SessionInv, ObserverInv
<1>2. /\ spawn(pairs)
      /\ doing' = doing
  BY DEF Walk
<1>3. /\ phase[m] = "PLAY"
      /\ UNCHANGED <<phase, entityId, viewDistance, history>>
      /\ chunk' = [chunk EXCEPT ![m] = to]
      /\ \A p \in Machine \ {m} : subscriptions'[p] = subscriptions[p]
  BY <1>1 DEF Walk, Move, onChunkTransition, resubscribe, Running, TypeOK
<1>4. /\ Playing' = Playing
      /\ m \in Playing
      /\ Playing \subseteq LoggedIn
      /\ LoggedIn \subseteq Machine
  BY <1>3 DEF Playing, LoggedIn
<1>5. LookType'
  BY <1>2, SpawnType DEF LookInv, LookType
<1>6. /\ untold[m] \subseteq untold'[m]
      /\ EntitiesIn(removed \cup added, m) \subseteq untold'[m]
      /\ \A p \in Machine \ {m} :
           IF p \in fromSubs <=> p \in toSubs
           THEN untold'[p] = untold[p]
           ELSE untold'[p] = untold[p] \ {entityId[m]}
  <2> DEFINE crossed == (fromSubs \ toSubs) \cup (toSubs \ fromSubs)
             unseen == EntitiesIn(removed \cup added, m)
  <2>1. untold' = [p \in Machine |->
          CASE p = m -> untold[m] \cup unseen
            [] p \in crossed -> untold[p] \ {entityId[m]}
            [] OTHER -> untold[p]]
    BY Zenon DEF Walk, Move, onChunkTransition
  <2>2. \A p : p \in crossed <=> ~ (p \in fromSubs <=> p \in toSubs)
    OBVIOUS
  <2>3. m \notin crossed
    OBVIOUS
  <2> HIDE DEF crossed, unseen, fromSubs, toSubs
  <2>4. untold'[m] = untold[m] \cup unseen
    BY <2>1, <2>3, Zenon
  <2>5. ASSUME NEW p \in Machine \ {m}
        PROVE  untold'[p] = IF p \in crossed THEN untold[p] \ {entityId[m]}
                                             ELSE untold[p]
    BY <2>1, Zenon
  <2> QED BY <2>2, <2>4, <2>5 DEF unseen
<1>7. ASSUME NEW q \in Playing', Watches(m, q)' PROVE Fresh(m, q)'
  <2>1. /\ m \in Machine /\ q \in Machine /\ q # m /\ q \in Playing
        /\ Steady(m)
    BY <1>3, <1>4, <1>7 DEF Watches, Steady
  <2>2. entityId[q] \in EntityId /\ entityId[q] \in known'[m]
    BY <1>1, <1>3, <1>4, <1>7, <2>1, ShowsNext, IdType
  <2>3. chunk'[q] = chunk[q] /\ chunk'[m] = to
    BY <1>1, <1>3, <2>1 DEF TypeOK
  <2>4. entityId[q] \notin untold'[m] /\ chunk[q] \in Square(to, viewDistance[m])
    BY <1>3, <1>7, <2>3 DEF Watches
  <2>5. chunk[q] \in Square(chunk[m], viewDistance[m])
    <3>1. chunk[q] \notin added
      BY <1>6, <2>1, <2>4 DEF EntitiesIn
    <3> QED BY <2>4, <3>1
  <2>6. Watches(m, q)
    BY <1>6, <2>1, <2>4, <2>5 DEF Watches
  <2>7. Fresh(m, q)
    BY <1>4, <2>1, <2>6 DEF LookInv, AllFresh
  <2>8. \A r \in Machine : <<m, r>> \in pairs => entityId[r] # entityId[q]
    OBVIOUS
  <2> HIDE DEF pairs
  <2>9. /\ shown'[m][entityId[q]] = shown[m][entityId[q]]
        /\ entityId[q] \in silent[m] => entityId[q] \in silent'[m]
    BY <1>2, <2>1, <2>2, <2>8, SpawnOthers
  <2> QED BY <1>2, <1>3, <2>7, <2>9, FreshKept
<1> HIDE DEF removed, added
<1>8. ASSUME NEW p \in Playing', NEW q \in Playing', Watches(p, q)', p # m
      PROVE  Fresh(p, q)'
  <2>1. /\ p \in LoggedIn /\ q \in LoggedIn /\ p # q
        /\ p \in Machine /\ q \in Machine
        /\ p \in Playing /\ q \in Playing
    BY <1>4, <1>8 DEF Watches
  <2>2. Steady(p) /\ entityId[q] \notin untold'[p]
    BY <1>3, <1>8 DEF Watches, Steady
  <2>3. entityId[q] \in EntityId /\ entityId[q] \in known'[p]
    BY <1>1, <1>3, <1>8, <2>1, ShowsNext, IdType
  <2>4. chunk'[q] \in Square(chunk[p], viewDistance[p])
    BY <1>1, <1>3, <1>8, <2>1 DEF Watches, TypeOK
  <2>5. /\ p \in fromSubs <=> chunk[m] \in Square(chunk[p], viewDistance[p])
        /\ p \in toSubs <=> to \in Square(chunk[p], viewDistance[p])
    <3>1. phase[p] = "PLAY" /\ subscriptions'[p] = subscriptions[p]
      BY <1>3, <1>8, <2>1 DEF Playing
    <3> QED BY <1>1, <1>8, <2>1, <2>2, <3>1, Reached
  <2>6. \A r : <<p, r>> \in pairs <=> r = m /\ p \in toSubs /\ p \notin fromSubs
    OBVIOUS
  <2> HIDE DEF fromSubs, toSubs, pairs
  <2>7. CASE <<p, q>> \in pairs
    <3>1. \A r \in Machine :
            <<p, r>> \in pairs /\ entityId[r] = entityId[q] => r = q
      BY <2>6, <2>7
    <3>2. /\ shown'[p][entityId[q]] = [flags |-> doing[q], pose |-> "STANDING"]
          /\ entityId[q] \in silent'[p]
      BY <1>2, <2>1, <2>3, <2>7, <3>1, SpawnOne
    <3> QED BY <1>2, <1>3, <3>2, FreshSpawned
  <2>8. CASE <<p, q>> \notin pairs
    <3>1. chunk[q] \in Square(chunk[p], viewDistance[p])
      <4>1. CASE q = m
        <5>1. chunk'[q] = to
          BY <1>1, <1>3, <4>1 DEF TypeOK
        <5> QED BY <2>4, <2>5, <2>6, <2>8, <4>1, <5>1
      <4>2. CASE q # m
        BY <1>1, <1>3, <2>1, <2>4, <4>2 DEF TypeOK
      <4> QED BY <4>1, <4>2
    <3>2. Watches(p, q)
      <4>1. entityId[q] \notin untold[p]
        <5>1. CASE q = m
          <6>1. chunk'[m] = to
            BY <1>1, <1>3, <2>1, <5>1 DEF TypeOK
          <6>2. p \in toSubs /\ p \in fromSubs
            BY <2>4, <2>5, <2>6, <2>8, <5>1, <6>1
          <6> QED BY <1>6, <1>8, <2>1, <2>2, <6>2
        <5>2. CASE q # m
          <6>1. entityId[q] # entityId[m]
            BY <1>1, <1>4, <2>1, <5>2, OwnId
          <6> QED BY <1>6, <1>8, <2>1, <2>2, <6>1
        <5> QED BY <5>1, <5>2
      <4> QED BY <2>1, <2>2, <3>1, <4>1 DEF Watches
    <3>3. Fresh(p, q)
      BY <2>1, <3>2 DEF LookInv, AllFresh
    <3>4. \A r \in Machine : <<p, r>> \in pairs => entityId[r] # entityId[q]
      <4> SUFFICES ASSUME <<p, m>> \in pairs PROVE entityId[m] # entityId[q]
        BY <2>6
      <4>1. m # q
        BY <2>8
      <4> QED BY <1>1, <1>4, <2>1, <4>1, OwnId
    <3>5. /\ shown'[p][entityId[q]] = shown[p][entityId[q]]
          /\ entityId[q] \in silent[p] => entityId[q] \in silent'[p]
      BY <1>2, <2>1, <2>3, <3>4, SpawnOthers
    <3> QED BY <1>2, <1>3, <3>3, <3>5, FreshKept
  <2> QED BY <2>7, <2>8
<1>9. AllFresh'
  BY <1>7, <1>8 DEF AllFresh
<1> QED BY <1>5, <1>9 DEF LookInv

\* The end of a session.
LEMMA LookEnd ==
  ASSUME SessionInv, SessionInv', LookInv, NEW m \in Machine, End(m)
  PROVE  LookInv'
<1>1. TypeOK /\ RegistryInv /\ ObserverExact'
  BY DEF SessionInv, ObserverInv
<1>2. /\ spawn({})
      /\ doing' = [doing EXCEPT ![m] = {}]
      /\ Freed(m)
  BY DEF End, onClientDisconnected
<1>3. /\ Playing' = Playing \ {m}
      /\ Playing \subseteq Machine
      /\ \A p \in Machine \ {m} : /\ entityId'[p] = entityId[p]
                                  /\ viewDistance'[p] = viewDistance[p]
                                  /\ chunk'[p] = chunk[p]
                                  /\ Steady(p)' <=> Steady(p)
  <2>1. ASSUME NEW p \in Machine, p # m PROVE Steady(p)' <=> Steady(p)
    <3>1. history'[p] \in {history[p], history[p] \cup {"delisted"}}
      BY <1>1, <2>1, EndSpares DEF End
    <3> QED BY <3>1 DEF Steady
  <2> QED BY <1>1, <1>2, <2>1 DEF Freed, Playing, TypeOK
<1>4. LookType'
  BY <1>2, SpawnType DEF LookInv, LookType
<1>5. ASSUME NEW p \in Playing', NEW q \in Playing', Watches(p, q)'
      PROVE  Fresh(p, q)'
  <2>1. /\ p \in Playing /\ q \in Playing /\ p # m /\ q # m
        /\ p \in Machine /\ q \in Machine
    BY <1>3
  <2>2. Watches(p, q)
    <3>1. entityId[q] \notin untold'[p]
      BY <1>3, <1>5, <2>1 DEF Watches
    <3>2. untold[p] \subseteq untold'[p] \cup {entityId[m]}
      <4>1. CASE LeavePlay(m)
        <5> DEFINE audience == subscribers(subscriptions', chunk[m]) \ {m}
        <5>1. untold' = [r \in Machine |->
                           CASE r = m -> {}
                             [] r \in audience -> untold[r] \ {entityId[m]}
                             [] OTHER -> untold[r]]
          BY <4>1, Zenon DEF LeavePlay
        <5> HIDE DEF audience
        <5>2. untold'[p] \in {untold[p], untold[p] \ {entityId[m]}}
          BY <2>1, <5>1
        <5> QED BY <5>2
      <4>2. CASE LeaveEarly(m)
        BY <1>1, <2>1, <4>2 DEF LeaveEarly, TypeOK
      <4> QED BY <4>1, <4>2 DEF End, onClientDisconnected
    <3>3. phase[m] = "PLAY" => entityId[q] # entityId[m]
      <4> SUFFICES ASSUME phase[m] = "PLAY" PROVE entityId[q] # entityId[m]
        OBVIOUS
      <4>1. m \in LoggedIn /\ q \in LoggedIn
        BY <2>1 DEF LoggedIn, Playing
      <4> QED BY <1>1, <2>1, <4>1, OwnId
    <3>4. phase[m] # "PLAY" => untold'[p] = untold[p]
      BY <1>1, <2>1 DEF End, onClientDisconnected, LeaveEarly, TypeOK
    <3>5. entityId[q] \notin untold[p]
      BY <3>1, <3>2, <3>3, <3>4
    <3> QED BY <1>3, <1>5, <2>1, <3>5 DEF Watches
  <2>3. Fresh(p, q)
    BY <2>1, <2>2 DEF LookInv, AllFresh
  <2>4. entityId[q] \in EntityId /\ entityId[q] \in known'[p]
    BY <1>1, <1>3, <1>5, <2>1, ShowsNext, IdType
  <2>5. \A r \in Machine : <<p, r>> \in {} => entityId[r] # entityId[q]
    OBVIOUS
  <2>6. /\ shown'[p][entityId[q]] = shown[p][entityId[q]]
        /\ entityId[q] \in silent[p] => entityId[q] \in silent'[p]
    BY <1>2, <2>1, <2>4, <2>5, SpawnOthers
  <2>7. doing'[q] = doing[q] /\ entityId'[q] = entityId[q]
    BY <1>2, <1>3, <2>1 DEF LookInv, LookType
  <2> QED BY <2>3, <2>6, <2>7, FreshKept
<1>6. AllFresh'
  BY <1>5 DEF AllFresh
<1> QED BY <1>4, <1>6 DEF LookInv

\* The flags and the pose that are sent.
LEMMA SentLook ==
  ASSUME NEW activities \in SUBSET Activity
  PROVE  /\ [flags |-> activities, pose |-> poseOf(activities)] \in Look
         /\ poseOf(activities) = "CROUCHING" <=> "crouching" \in activities
BY DEF Look, Pose, poseOf

\* A change of activity.
LEMMA LookActivity ==
  ASSUME SessionInv, LookInv, NEW m \in Machine, NEW activity \in Activity,
         StartActivity(m, activity) \/ StopActivity(m, activity)
  PROVE  LookInv'
<1> DEFINE look == [flags |-> doing'[m], pose |-> poseOf(doing'[m])]
           audience == Live(subscribers(subscriptions, chunk[m]) \ {m})
           reached == {p \in audience : entityId[m] \in known[p]}
<1>1. TypeOK /\ SquareSubscription /\ RegistryInv /\ ObserverExact
  BY DEF SessionInv, ObserverInv
<1>2. /\ phase[m] = "PLAY"
      /\ UNCHANGED <<phase, entityId, viewDistance, chunk, history, untold>>
  BY DEF StartActivity, StopActivity, broadcastLocally, Running, playerVars,
         ghostVars
<1>3. /\ doing' \in [Machine -> SUBSET Activity]
      /\ \A q \in Machine \ {m} : doing'[q] = doing[q]
  BY DEF StartActivity, StopActivity, LookInv, LookType
<1>4. /\ shown' = [p \in Machine |->
                     IF p \in reached
                     THEN [shown[p] EXCEPT ![entityId[m]] = look] ELSE shown[p]]
      /\ silent' = [p \in Machine |->
                      IF p \in reached THEN silent[p] \ {entityId[m]} ELSE silent[p]]
  BY DEF StartActivity, StopActivity, sendMetadataUpdate
<1>5. /\ look \in Look
      /\ look.flags = doing'[m]
      /\ look.pose = "CROUCHING" <=> "crouching" \in doing'[m]
  <2>1. doing'[m] \in SUBSET Activity
    BY <1>3
  <2> QED BY <2>1, SentLook
<1>6. ASSUME NEW p \in Playing, Watches(p, m) PROVE p \in reached
  <2>1. p \in Machine /\ phase[p] = "PLAY" /\ m \in Playing
    BY <1>2 DEF Playing
  <2>2. entityId[m] \in known[p]
    BY <1>1, <1>6, <2>1, Shows
  <2>3. chunk[m] \in subscriptions[p]
    BY <1>1, <1>6, <2>1 DEF SquareSubscription, Watches
  <2> QED BY <1>6, <2>1, <2>2, <2>3 DEF Live, subscribers, Watches
<1> HIDE DEF look, reached
<1>7. LookType'
  <2>1. ASSUME NEW p \in Machine
        PROVE  shown[p] \in [EntityId -> Look] /\ silent[p] \in SUBSET EntityId
    BY DEF LookInv, LookType
  <2>2. shown' \in [Machine -> [EntityId -> Look]]
    BY <1>4, <1>5, <2>1
  <2>3. silent' \in [Machine -> SUBSET EntityId]
    BY <1>4, <2>1
  <2> QED BY <1>3, <2>2, <2>3 DEF LookType
<1>8. ASSUME NEW p \in Playing', NEW q \in Playing', Watches(p, q)'
      PROVE  Fresh(p, q)'
  <2>1. /\ p \in Playing /\ q \in Playing /\ Watches(p, q)
        /\ p \in Machine /\ q \in Machine
    BY <1>2, <1>8 DEF Playing, Watches, Steady
  <2>2. shown[p] \in [EntityId -> Look] /\ entityId[m] \in EntityId
    BY <1>1, <2>1, IdType DEF LookInv, LookType
  <2>3. CASE q = m
    <3>1. p \in reached
      BY <1>6, <2>1, <2>3
    <3>2. shown'[p] = [shown[p] EXCEPT ![entityId[m]] = look]
      BY <1>4, <2>1, <3>1
    <3>3. shown'[p][entityId[m]] = look
      BY <2>2, <3>2
    <3> QED BY <1>2, <1>5, <2>3, <3>3 DEF Fresh
  <2>4. CASE q # m
    <3>1. entityId[q] # entityId[m]
      <4>1. q \in LoggedIn /\ m \in LoggedIn
        BY <1>2, <2>1 DEF Playing, LoggedIn
      <4> QED BY <1>1, <2>4, <4>1, OwnId
    <3>2. shown'[p][entityId[q]] = shown[p][entityId[q]]
      <4>1. shown'[p] \in {shown[p], [shown[p] EXCEPT ![entityId[m]] = look]}
        BY <1>4, <2>1
      <4>2. entityId[q] \in EntityId
        BY <1>1, <2>1, IdType
      <4> QED BY <2>2, <3>1, <4>1, <4>2
    <3>3. entityId[q] \in silent[p] => entityId[q] \in silent'[p]
      BY <1>4, <2>1, <3>1
    <3>4. Fresh(p, q)
      BY <2>1 DEF LookInv, AllFresh
    <3> QED BY <1>2, <1>3, <2>1, <2>4, <3>2, <3>3, <3>4, FreshKept
  <2> QED BY <2>3, <2>4
<1>9. AllFresh'
  BY <1>8 DEF AllFresh
<1> QED BY <1>7, <1>9 DEF LookInv

\* A step that moves nobody and announces nothing.
LEMMA LookUnmoved ==
  ASSUME LookInv, MovesNobody, UNCHANGED lookVars
  PROVE  LookInv'
<1>1. LookType'
  BY DEF LookInv, LookType, lookVars
<1>2. ASSUME NEW p \in Playing', NEW q \in Playing', Watches(p, q)'
      PROVE  Fresh(p, q)'
  <2>1. /\ p \in Playing /\ q \in Playing
        /\ p \in Machine /\ phase[p] = "PLAY"
    BY DEF MovesNobody, Playing
  <2>2. history[p] \subseteq history'[p]
    BY <2>1 DEF MovesNobody
  <2>3. Steady(p) /\ "resized" \notin history'[p]
    BY <1>2, <2>2 DEF Watches, Steady
  <2>4. viewDistance'[p] = viewDistance[p] /\ entityId'[q] = entityId[q]
    BY <2>1, <2>3 DEF MovesNobody
  <2>5. Watches(p, q)
    BY <1>2, <2>3, <2>4 DEF Watches, MovesNobody
  <2>6. Fresh(p, q)
    BY <2>1, <2>5 DEF LookInv, AllFresh
  <2> QED BY <2>4, <2>6, FreshKept DEF lookVars
<1>3. AllFresh'
  BY <1>2 DEF AllFresh
<1> QED BY <1>1, <1>3 DEF LookInv

\* Every step preserves the invariant.
LEMMA LookInvNext ==
  SessionInv /\ SessionInv' /\ LookInv /\ [LookNext]_allVars => LookInv'
<1> SUFFICES ASSUME SessionInv, SessionInv', LookInv, [LookNext]_allVars
             PROVE  LookInv'
  OBVIOUS
<1>1. ASSUME MovesNobody, UNCHANGED lookVars PROVE LookInv'
  BY <1>1, LookUnmoved
<1>2. ASSUME UNCHANGED allVars PROVE MovesNobody /\ UNCHANGED lookVars
  BY <1>2 DEF MovesNobody, Playing, allVars, vars, playerVars, clientVars,
              ghostVars
<1>3. ASSUME NEW m \in Machine, Elsewhere(m) \/ EntityActionRejected(m)
      PROVE  MovesNobody /\ UNCHANGED lookVars
  <2>1. TypeOK
    BY DEF SessionInv
  <2>2. EntityActionRejected(m) => PlayRejected(m)
    BY DEF EntityActionRejected, PlayRejected
  <2>3. MovesNobody
    BY <1>3, <2>1, <2>2, UnmovedSteps DEF Elsewhere
  <2>4. UNCHANGED lookVars
    BY <1>3 DEF Elsewhere, EntityActionRejected
  <2> QED BY <2>3, <2>4
<1>4. ASSUME NEW m \in Machine, NEW id \in 0 .. MaxTeleportId + 1, Enter(m, id)
      PROVE  LookInv'
  BY <1>4, LookEnter
<1>5. ASSUME NEW m \in Machine, NEW to \in Position, Walk(m, to) PROVE LookInv'
  BY <1>5, LookWalk
<1>6. ASSUME NEW m \in Machine, NEW activity \in Activity,
             StartActivity(m, activity) \/ StopActivity(m, activity)
      PROVE  LookInv'
  BY <1>6, LookActivity
<1>7. ASSUME NEW m \in Machine, End(m) PROVE LookInv'
  BY <1>7, LookEnd
<1> QED BY <1>1, <1>2, <1>3, <1>4, <1>5, <1>6, <1>7 DEF LookNext

\* The invariant of the looks, for every execution.
THEOREM LookCorrect == LookSpec => []AllFresh
<1>1. LookInit => SessionInv /\ LookInv
  BY SessionInit, LookInvInit DEF LookInit
<1>2. SessionInv /\ LookInv /\ [LookNext]_allVars => (SessionInv /\ LookInv)'
  BY LookStep, SessionNext, LookInvNext
<1>3. LookInv => AllFresh
  BY DEF LookInv
<1> QED BY <1>1, <1>2, <1>3, PTL DEF LookSpec

(***************************************************************************)
(* A player shows what every player in its view is doing, whenever that    *)
(* player began and wherever both went, unless its own move brought that   *)
(* player into view: spawn packets and updates leave no gap between them.  *)
(***************************************************************************)
THEOREM FlagsCorrect == LookSpec => []FlagsFresh
BY LookCorrect, FreshWords, PTL

(***************************************************************************)
(* The pose it shows is the right one as well, except standing for a       *)
(* player that changed nothing since it was spawned.                       *)
(***************************************************************************)
THEOREM PoseCorrect == LookSpec => []PoseFresh
BY LookCorrect, FreshWords, PTL

==============================================================================
