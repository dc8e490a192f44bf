----------------------------- MODULE TerrainProofs -----------------------------
(***************************************************************************)
(* Proofs about Terrain, for every set of sites and blocks and everything  *)
(* StateMachine is a parameter of.                                         *)
(***************************************************************************)
EXTENDS Terrain, StateMachineProofs

\* A change of settings in either phase.
LEMMA SettingsStep ==
  ASSUME NEW m \in Machine, NEW requested \in RequestedViewDistance,
         ClientSettingsInit(m, requested) \/ ClientSettings(m, requested)
  PROVE  Next
BY DEF Next

(***************************************************************************)
(* Every step of the terrain is a step of the sessions, or, when a block   *)
(* is dug that is air already, none.                                       *)
(***************************************************************************)
LEMMA TerrainStep == [TerrainNext]_allVars => [Next]_vars
<1> SUFFICES ASSUME [TerrainNext]_allVars PROVE [Next]_vars
  OBVIOUS
<1>1. ASSUME UNCHANGED allVars PROVE UNCHANGED vars
  BY <1>1 DEF allVars
<1>2. ASSUME NEW m \in Machine, NEW requested \in RequestedViewDistance,
             SettingsBeforePlay(m, requested) \/ SettingsInPlay(m, requested)
      PROVE  Next
  BY <1>2, SettingsStep DEF SettingsBeforePlay, SettingsInPlay
<1>3. ASSUME NEW m \in Machine, NEW to \in Position, Walk(m, to) PROVE Next
  BY <1>3 DEF Walk, Next
<1>4. ASSUME NEW m \in Machine, NEW b \in Location, Dig(m, b) PROVE Next
  BY <1>4 DEF Dig, Next
<1>5. ASSUME NEW m \in Machine, NEW b \in Location, DigAir(m, b)
      PROVE  UNCHANGED vars
  BY <1>5 DEF DigAir
<1>6. ASSUME NEW m \in Machine, NEW b \in Location, DigNowhere(m, b)
      PROVE  Next
  <2>1. PlayRejected(m)
    BY <1>6 DEF DigNowhere, PlayRejected
  <2> QED BY <2>1 DEF Next
<1>7. ASSUME NEW m \in Machine, End(m) PROVE Next
  BY <1>7 DEF End, Next
<1>8. ASSUME NEW m \in Machine, Elsewhere(m) PROVE Next
  BY <1>8 DEF Elsewhere, Next
<1> QED BY <1>1, <1>2, <1>3, <1>4, <1>5, <1>6, <1>7, <1>8 DEF TerrainNext

(***************************************************************************)
(* The terrain implements the sessions: what is proved of every execution  *)
(* of StateMachine holds when blocks are dug as well.                      *)
(***************************************************************************)
THEOREM TerrainRefinesSessions == TerrainSpec => Spec
<1>1. TerrainInit => Init
  BY DEF TerrainInit
<1> QED BY <1>1, TerrainStep, PTL DEF TerrainSpec, Spec
------------------------------------------------------------------------------
(***************************************************************************)
(* The invariant.  A dug block lies in a chunk that was generated, so the  *)
(* generation of a chunk never fills a hole; a client whose machine is     *)
(* gone holds no chunk, so that a new session at the address starts fresh. *)
(***************************************************************************)
TerrainType ==
  /\ dug \subseteq Location
  /\ copy \in [Machine -> SUBSET Location]
  /\ missed \in [Machine -> SUBSET Location]

DugGenerated == \A b \in dug : ChunkOf(b) \in chunks

FreeHoldsNothing == \A m \in Machine : phase[m] = "FREE" => loaded[m] = {}

TerrainInv ==
  /\ TerrainType
  /\ DugGenerated
  /\ FreeHoldsNothing
  /\ TerrainFresh
  /\ NoFalseHoles

\* It holds initially.
LEMMA TerrainInvInit == TerrainInit => TerrainInv
<1> SUFFICES ASSUME TerrainInit PROVE TerrainInv
  OBVIOUS
<1>1. dug = {} /\ copy = [m \in Machine |-> {}] /\ missed = [m \in Machine |-> {}]
  BY DEF TerrainInit
<1>2. \A m \in Machine : loaded[m] = {}
  BY DEF TerrainInit, Init
<1>3. TerrainType
  BY <1>1 DEF TerrainType
<1>4. TerrainFresh
  BY <1>1, <1>2 DEF TerrainFresh, In
<1> QED BY <1>1, <1>2, <1>3, <1>4 DEF TerrainInv, DugGenerated,
                                      FreeHoldsNothing, NoFalseHoles

\* What is in a region.
LEMMA InRegion ==
  ASSUME NEW locations, NEW region, NEW b
  PROVE  b \in In(locations, region) <=> b \in locations /\ ChunkOf(b) \in region
BY DEF In

(***************************************************************************)
(* A step that touches neither blocks nor chunks, but for a new session at *)
(* an address that was free.                                               *)
(***************************************************************************)
TerrainUntouched ==
  /\ UNCHANGED <<dug, copy, missed, loaded, chunks>>
  /\ \A p \in Machine : phase'[p] = "FREE" => phase[p] = "FREE"
  /\ \A p \in Machine : phase[p] = "FREE" \/ history[p] \subseteq history'[p]

\* Such a step keeps the invariant.
LEMMA InvUntouched == TerrainInv /\ TerrainUntouched => TerrainInv'
<1> SUFFICES ASSUME TerrainInv, TerrainUntouched PROVE TerrainInv'
  OBVIOUS
<1> USE DEF TerrainInv, TerrainUntouched
<1>1. TerrainType' /\ DugGenerated' /\ FreeHoldsNothing' /\ NoFalseHoles'
  BY DEF TerrainType, DugGenerated, FreeHoldsNothing, NoFalseHoles, Location
<1>2. ASSUME NEW p \in Machine, Steady(p)'
      PROVE  (In(dug, loaded[p]) \ missed[p] \subseteq copy[p])'
  <2>1. CASE phase[p] = "FREE"
    BY <2>1 DEF FreeHoldsNothing, In
  <2>2. CASE phase[p] # "FREE"
    <3>1. Steady(p)
      BY <1>2, <2>2 DEF Steady
    <3> QED BY <3>1 DEF TerrainFresh, In
  <2> QED BY <2>1, <2>2
<1>3. TerrainFresh'
  BY <1>2 DEF TerrainFresh
<1> QED BY <1>1, <1>3

\* Chunks that are sent to one client.
LEMMA InvSendChunks ==
  ASSUME TypeOK, TerrainInv, NEW m \in Machine, NEW gone, NEW sent,
         sendChunks(m, gone, sent),
         loaded' = [loaded EXCEPT ![m] = (@ \ gone) \cup sent],
         chunks' = chunks \cup sent,
         phase' = phase, phase[m] # "FREE",
         \A p \in Machine : history[p] \subseteq history'[p]
  PROVE  TerrainInv'
<1> DEFINE kept(locations) == locations \ In(locations, gone \cup sent)
<1>1. /\ dug' = dug \ In(dug, sent \ chunks)
      /\ copy' = [copy EXCEPT ![m] = kept(@) \cup In(dug', sent)]
      /\ missed' = [missed EXCEPT ![m] = kept(@)]
  BY DEF sendChunks, generated
<1>2. dug' = dug
  BY <1>1 DEF TerrainInv, DugGenerated, In
<1>3. /\ copy'[m] = kept(copy[m]) \cup In(dug, sent)
      /\ missed'[m] = kept(missed[m])
      /\ loaded'[m] = (loaded[m] \ gone) \cup sent
  BY <1>1, <1>2 DEF TerrainInv, TerrainType, TypeOK
<1>4. ASSUME NEW p \in Machine, p # m
      PROVE  copy'[p] = copy[p] /\ missed'[p] = missed[p] /\ loaded'[p] = loaded[p]
  BY <1>1, <1>4 DEF TerrainInv, TerrainType, TypeOK
<1>5. TerrainType'
  <2>1. dug \subseteq Location /\ copy[m] \subseteq Location /\ missed[m] \subseteq Location
    BY DEF TerrainInv, TerrainType
  <2>2. copy'[m] \subseteq Location /\ missed'[m] \subseteq Location
    BY <1>3, <2>1 DEF In
  <2>3. /\ copy' = [copy EXCEPT ![m] = copy'[m]]
        /\ missed' = [missed EXCEPT ![m] = missed'[m]]
    BY <1>1, <1>3 DEF TerrainInv, TerrainType
  <2>4. copy' \in [Machine -> SUBSET Location]
    BY <2>2, <2>3 DEF TerrainInv, TerrainType
  <2>5. missed' \in [Machine -> SUBSET Location]
    BY <2>2, <2>3 DEF TerrainInv, TerrainType
  <2>6. UNCHANGED Location
    BY DEF Location
  <2> QED BY <1>2, <2>1, <2>4, <2>5, <2>6 DEF TerrainType
<1>6. DugGenerated'
  BY <1>2 DEF TerrainInv, DugGenerated, ChunkOf
<1>7. FreeHoldsNothing'
  BY <1>4 DEF TerrainInv, FreeHoldsNothing
<1>8. NoFalseHoles'
  <2>1. copy'[m] \subseteq dug'
    BY <1>2, <1>3 DEF TerrainInv, NoFalseHoles, In
  <2> QED BY <1>2, <1>4, <2>1 DEF TerrainInv, NoFalseHoles
<1>9. TerrainFresh'
  <2> SUFFICES ASSUME NEW p \in Machine, Steady(p)', NEW b, b \in dug',
                      ChunkOf(b) \in loaded'[p], b \notin missed'[p]
               PROVE  b \in copy'[p]
    BY InRegion DEF TerrainFresh, In
  <2>1. Steady(p)
    BY DEF Steady
  <2>2. ChunkOf(b) \in loaded[p] /\ b \notin missed[p] => b \in copy[p]
    BY <1>2, <2>1 DEF TerrainInv, TerrainFresh, In
  <2>3. CASE p # m
    BY <1>4, <2>2, <2>3
  <2>4. CASE p = m
    <3>1. CASE ChunkOf(b) \in sent
      BY <1>2, <1>3, <2>4, <3>1, InRegion
    <3>2. CASE ChunkOf(b) \notin sent
      <4>1. ChunkOf(b) \in loaded[m] \ gone
        BY <1>3, <2>4, <3>2
      <4>2. b \notin missed[m]
        BY <1>3, <2>4, <3>2, <4>1, InRegion
      <4>3. b \in copy[m]
        BY <2>2, <2>4, <4>1, <4>2
      <4> QED BY <1>3, <2>4, <3>2, <4>1, <4>3, InRegion
    <3> QED BY <3>1, <3>2
  <2> QED BY <2>3, <2>4
<1> QED BY <1>5, <1>6, <1>7, <1>8, <1>9 DEF TerrainInv

\* Settings and moves send chunks to the player that asks and to nobody else.
LEMMA InvChunksSent ==
  ASSUME TypeOK, TerrainInv, NEW m \in Machine,
         \/ \E requested \in RequestedViewDistance :
              SettingsBeforePlay(m, requested) \/ SettingsInPlay(m, requested)
         \/ \E to \in Position : Walk(m, to)
  PROVE  TerrainInv'
<1>1. ASSUME NEW event \in Event,
             history' \in {history, [history EXCEPT ![m] = @ \cup {event}]}
      PROVE  \A p \in Machine : history[p] \subseteq history'[p]
  BY <1>1 DEF TypeOK
<1>2. ASSUME NEW requested \in RequestedViewDistance,
             SettingsBeforePlay(m, requested)
      PROVE  TerrainInv'
  <2> DEFINE new == Clamp(requested)
             gone == Shrunk(m, new)
             sent == Grown(m, new) \cup Square(chunk[m], new)
  <2>1. /\ sendChunks(m, gone, sent)
        /\ loaded' = [loaded EXCEPT ![m] = (@ \ gone) \cup sent]
        /\ chunks' = chunks \cup sent
        /\ phase' = phase /\ phase[m] # "FREE"
        /\ history' \in {history, [history EXCEPT ![m] = @ \cup {"resized"}]}
    BY <1>2 DEF SettingsBeforePlay, ClientSettingsInit, Running,
                getOrCreateChunk
  <2>2. \A p \in Machine : history[p] \subseteq history'[p]
    BY <1>1, <2>1 DEF Event
  <2> HIDE DEF gone, sent
  <2> QED BY <2>1, <2>2, InvSendChunks
<1>3. ASSUME NEW requested \in RequestedViewDistance,
             SettingsInPlay(m, requested)
      PROVE  TerrainInv'
  <2> DEFINE new == Clamp(requested)
             gone == Shrunk(m, new)
             sent == Grown(m, new)
  <2>1. /\ sendChunks(m, gone, sent)
        /\ loaded' = [loaded EXCEPT ![m] = (@ \ gone) \cup sent]
        /\ chunks' = chunks \cup sent
        /\ phase' = phase /\ phase[m] # "FREE"
        /\ history' \in {history, [history EXCEPT ![m] = @ \cup {"resized"}]}
    BY <1>3 DEF SettingsInPlay, ClientSettings, Running, getOrCreateChunk
  <2>2. \A p \in Machine : history[p] \subseteq history'[p]
    BY <1>1, <2>1 DEF Event
  <2> HIDE DEF gone, sent
  <2> QED BY <2>1, <2>2, InvSendChunks
<1>4. ASSUME NEW to \in Position, Walk(m, to) PROVE TerrainInv'
  <2> DEFINE from == Square(chunk[m], viewDistance[m])
             target == Square(to, viewDistance[m])
             gone == from \ target
             sent == target \ from
  <2>1. /\ sendChunks(m, gone, sent)
        /\ loaded' = [loaded EXCEPT ![m] = (@ \ gone) \cup sent]
        /\ chunks' = chunks \cup sent
        /\ phase' = phase /\ phase[m] # "FREE"
        /\ history' = history
    BY <1>4 DEF Walk, transition, Move, onChunkTransition, Running,
                getOrCreateChunk
  <2>2. \A p \in Machine : history[p] \subseteq history'[p]
    BY <2>1
  <2> HIDE DEF gone, sent
  <2> QED BY <2>1, <2>2, InvSendChunks
<1> QED BY <1>2, <1>3, <1>4

\* Who a steady player that may be told is: one of the audience.
LEMMA InAudience ==
  ASSUME SquareSubscription, NEW p \in Machine, Steady(p), phase[p] = "PLAY",
         NEW m \in Machine, p # m, NEW b,
         chunk[m] \in Square(chunk[p], viewDistance[p])
  PROVE  p \in audience(m, b)
BY DEF SquareSubscription, audience, subscribers

\* A block that is dug.
LEMMA InvDig ==
  ASSUME TypeOK, SquareSubscription, TerrainInv, NEW m \in Machine,
         NEW b \in Location, Dig(m, b)
  PROVE  TerrainInv'
<1>1. /\ dug' = dug \cup {b}
      /\ ChunkOf(b) \in chunks
      /\ \A p \in Machine : copy'[p] =
           IF p \in audience(m, b) \cup {m} /\ ChunkOf(b) \in loaded[p]
           THEN copy[p] \cup {b} ELSE copy[p]
      /\ \A p \in Machine : missed'[p] =
           IF Misses(p, m, b) THEN missed[p] \cup {b} ELSE missed[p]
  BY DEF Dig
<1>2. UNCHANGED <<phase, chunks, loaded, history>>
  BY DEF Dig, broadcastLocally, clientVars, ghostVars
<1>3. TerrainType'
  <2>1. copy' \in [Machine -> SUBSET Location]
    <3>1. copy' = [p \in Machine |-> copy'[p]]
      BY Zenon DEF Dig
    <3>2. \A p \in Machine : copy'[p] \subseteq Location
      BY <1>1 DEF TerrainInv, TerrainType
    <3> QED BY <3>1, <3>2
  <2>2. missed' \in [Machine -> SUBSET Location]
    <3>1. missed' = [p \in Machine |-> missed'[p]]
      BY Zenon DEF Dig
    <3>2. \A p \in Machine : missed'[p] \subseteq Location
      BY <1>1 DEF TerrainInv, TerrainType
    <3> QED BY <3>1, <3>2
  <2> QED BY <1>1, <2>1, <2>2 DEF TerrainInv, TerrainType, Location
<1>4. DugGenerated' /\ FreeHoldsNothing' /\ NoFalseHoles'
  BY <1>1, <1>2
     DEF TerrainInv, DugGenerated, FreeHoldsNothing, NoFalseHoles, ChunkOf
<1>5. TerrainFresh'
  <2> SUFFICES ASSUME NEW p \in Machine, Steady(p)', NEW d, d \in dug',
                      ChunkOf(d) \in loaded'[p], d \notin missed'[p]
               PROVE  d \in copy'[p]
    BY InRegion DEF TerrainFresh, In
  <2>1. Steady(p) /\ ChunkOf(d) \in loaded[p]
    BY <1>2 DEF Steady
  <2>2. CASE d = b
    <3>1. ~ Misses(p, m, b)
      BY <1>1, <2>2
    <3>2. p = m \/ p \in audience(m, b)
      BY <2>1, <2>2, <3>1, InAudience DEF Misses
    <3> QED BY <1>1, <2>1, <2>2, <3>2
  <2>3. CASE d # b
    <3>1. d \in dug /\ d \notin missed[p]
      BY <1>1, <2>3
    <3>2. d \in copy[p]
      BY <2>1, <3>1 DEF TerrainInv, TerrainFresh, In
    <3> QED BY <1>1, <3>2
  <2> QED BY <2>2, <2>3
<1> QED BY <1>3, <1>4, <1>5 DEF TerrainInv

\* A dig where the server has air already.
LEMMA InvDigAir ==
  ASSUME TypeOK, TerrainInv, NEW m \in Machine, NEW b \in Location, DigAir(m, b)
  PROVE  TerrainInv'
<1>1. /\ b \in dug
      /\ copy' = [copy EXCEPT ![m] = @ \cup {b}]
      /\ UNCHANGED <<dug, missed, phase, loaded, chunks, history>>
  BY DEF DigAir, vars, clientVars, ghostVars
<1>2. \A p \in Machine : copy[p] \subseteq copy'[p] /\ copy'[p] \subseteq copy[p] \cup {b}
  BY <1>1 DEF TerrainInv, TerrainType
<1>3. TerrainType'
  BY <1>1 DEF TerrainInv, TerrainType, Location
<1>4. DugGenerated' /\ FreeHoldsNothing' /\ NoFalseHoles'
  BY <1>1, <1>2
     DEF TerrainInv, DugGenerated, FreeHoldsNothing, NoFalseHoles, ChunkOf
<1>5. TerrainFresh'
  BY <1>1, <1>2 DEF TerrainInv, TerrainFresh, In, ChunkOf, Steady
<1> QED BY <1>3, <1>4, <1>5 DEF TerrainInv

\* The end of a session.
LEMMA InvEnd ==
  ASSUME TypeOK, TerrainInv, NEW m \in Machine, End(m)
  PROVE  TerrainInv'
<1>1. /\ copy' = [copy EXCEPT ![m] = {}]
      /\ missed' = [missed EXCEPT ![m] = {}]
      /\ loaded' = [loaded EXCEPT ![m] = {}]
      /\ phase' = [phase EXCEPT ![m] = "FREE"]
      /\ UNCHANGED <<dug, chunks>>
  BY DEF End, onClientDisconnected, Freed
<1>2. ASSUME NEW p \in Machine
      PROVE  IF p = m
             THEN copy'[p] = {} /\ missed'[p] = {} /\ loaded'[p] = {}
             ELSE /\ copy'[p] = copy[p] /\ missed'[p] = missed[p]
                  /\ loaded'[p] = loaded[p] /\ phase'[p] = phase[p]
                  /\ history[p] \subseteq history'[p]
  <2>1. ASSUME p # m PROVE history[p] \subseteq history'[p]
    BY <2>1, EndSpares DEF End
  <2> QED BY <1>1, <2>1 DEF TerrainInv, TerrainType, TypeOK
<1>3. TerrainType'
  BY <1>1 DEF TerrainInv, TerrainType, Location
<1>4. DugGenerated' /\ FreeHoldsNothing' /\ NoFalseHoles'
  BY <1>1, <1>2
     DEF TerrainInv, DugGenerated, FreeHoldsNothing, NoFalseHoles, ChunkOf
<1>5. TerrainFresh'
  BY <1>1, <1>2 DEF TerrainInv, TerrainFresh, In, ChunkOf, Steady
<1> QED BY <1>3, <1>4, <1>5 DEF TerrainInv

\* Every other handler touches neither blocks nor chunks.
LEMMA ElsewhereUntouched ==
  ASSUME TypeOK, NEW m \in Machine, Elsewhere(m)
  PROVE  TerrainUntouched
<1>1. UNCHANGED <<dug, copy, missed>>
  BY DEF Elsewhere, terrainVars
<1>2. ASSUME UNCHANGED <<loaded, chunks, phase, history>> PROVE TerrainUntouched
  BY <1>1, <1>2 DEF TerrainUntouched
<1>3. CASE onClientConnected(m)
  <2>1. /\ phase[m] = "FREE"
        /\ phase' = [phase EXCEPT ![m] = "INITIAL"]
        /\ \A p \in Machine \ {m} : history'[p] = history[p]
        /\ UNCHANGED <<loaded, chunks>>
    BY <1>3 DEF onClientConnected, Running, TypeOK, clientVars
  <2> QED BY <1>1, <2>1 DEF TerrainUntouched, TypeOK
<1>4. CASE Handshake(m)
  BY <1>1, <1>4 DEF TerrainUntouched, TypeOK, Handshake, Reject, Running,
                    playerVars, clientVars, ghostVars
<1>5. ASSUME NEW name \in Name, LoginStart(m, name) PROVE TerrainUntouched
  <2>1. /\ phase' = [phase EXCEPT ![m] = "PLAY_INIT"]
        /\ UNCHANGED <<loaded, chunks, history>>
    BY <1>5 DEF LoginStart, ghostVars
  <2> QED BY <1>1, <2>1 DEF TerrainUntouched, TypeOK
<1>6. ASSUME NEW id, TeleportConfirm(m, id) PROVE TerrainUntouched
  <2>1. /\ phase' = [phase EXCEPT ![m] = "PLAY"]
        /\ history' \in {history, [history EXCEPT ![m] = @ \cup {"unconfirmed"}]}
        /\ UNCHANGED <<loaded, chunks>>
    BY <1>6 DEF TeleportConfirm
  <2> QED BY <1>1, <2>1 DEF TerrainUntouched, TypeOK
<1>7. CASE \/ LoginRejected(m) \/ PlayInitRejected(m) \/ PlayRejected(m)
           \/ Status(m) \/ Timeout(m) \/ broadcastLocally(m) \/ Chat(m)
  BY <1>2, <1>7 DEF LoginRejected, PlayInitRejected, PlayRejected, Status,
                    Timeout, Reject, broadcastLocally, Chat, clientVars,
                    ghostVars
<1> QED BY <1>3, <1>4, <1>5, <1>6, <1>7 DEF Elsewhere

\* Every step preserves the invariant.
LEMMA TerrainInvNext ==
  TypeOK /\ SquareSubscription /\ TerrainInv /\ [TerrainNext]_allVars
    => TerrainInv'
<1> SUFFICES ASSUME TypeOK, SquareSubscription, TerrainInv,
                    [TerrainNext]_allVars
             PROVE  TerrainInv'
  OBVIOUS
<1>1. ASSUME TerrainUntouched PROVE TerrainInv'
  BY <1>1, InvUntouched
<1>2. ASSUME UNCHANGED allVars PROVE TerrainUntouched
  BY <1>2 DEF TerrainUntouched, allVars, terrainVars, vars, clientVars, ghostVars
<1>3. ASSUME NEW m \in Machine, NEW b \in Location, DigNowhere(m, b)
      PROVE  TerrainUntouched
  BY <1>3 DEF TerrainUntouched, DigNowhere, Reject, terrainVars, clientVars,
              ghostVars
<1>4. ASSUME NEW m \in Machine, NEW b \in Location, Dig(m, b) PROVE TerrainInv'
  BY <1>4, InvDig
<1>5. ASSUME NEW m \in Machine, NEW b \in Location, DigAir(m, b)
      PROVE  TerrainInv'
  BY <1>5, InvDigAir
<1>6. ASSUME NEW m \in Machine,
             \/ \E requested \in RequestedViewDistance :
                  SettingsBeforePlay(m, requested) \/ SettingsInPlay(m, requested)
             \/ \E to \in Position : Walk(m, to)
      PROVE  TerrainInv'
  BY <1>6, InvChunksSent
<1>7. ASSUME NEW m \in Machine, End(m) PROVE TerrainInv'
  BY <1>7, InvEnd
<1>8. ASSUME NEW m \in Machine, Elsewhere(m) PROVE TerrainUntouched
  BY <1>8, ElsewhereUntouched
<1> QED BY <1>1, <1>2, <1>3, <1>4, <1>5, <1>6, <1>7, <1>8 DEF TerrainNext

\* The invariant, for every execution.
THEOREM TerrainCorrect ==
  TerrainSpec => [](TypeOK /\ SquareSubscription /\ TerrainInv)
<1> DEFINE Inv == TypeOK /\ SquareSubscription /\ TerrainInv
<1>1. TerrainInit => Inv
  BY TypeInit, SubscriptionInit, TerrainInvInit DEF TerrainInit
<1>2. Inv /\ [TerrainNext]_allVars => Inv'
  BY TerrainStep, TypeNext, SubscriptionNext, TerrainInvNext
<1> HIDE DEF Inv
<1>3. TerrainSpec => []Inv
  BY <1>1, <1>2, PTL DEF TerrainSpec
<1> QED BY <1>3 DEF Inv

(***************************************************************************)
(* What a client shows of its chunks is what the server has, but for the   *)
(* blocks it could not be told of.                                         *)
(***************************************************************************)
THEOREM FreshCorrect == TerrainSpec => []TerrainFresh
<1>1. TerrainInv => TerrainFresh
  BY DEF TerrainInv
<1> QED BY <1>1, TerrainCorrect, PTL

(***************************************************************************)
(* No client shows a hole where the server has a block, because no chunk   *)
(* that was dug in is ever generated again.                                *)
(***************************************************************************)
THEOREM HolesCorrect == TerrainSpec => []NoFalseHoles
<1>1. TerrainInv => NoFalseHoles
  BY DEF TerrainInv
<1> QED BY <1>1, TerrainCorrect, PTL
------------------------------------------------------------------------------
\* The distances of a digger, its block and a watcher add up.
LEMMA WithinView ==
  ASSUME NEW p \in ChunkCoord, NEW m \in ChunkCoord, NEW c \in ChunkCoord,
         NEW vd \in Int, c \in Near(m), c \in Square(p, vd - 1)
  PROVE  m \in Square(p, vd)
<1>1. PICK mx \in Int, mz \in Int : m = <<mx, mz>>
  BY DEF ChunkCoord
<1>2. PICK px \in Int, pz \in Int : p = <<px, pz>>
  BY DEF ChunkCoord
<1>3. PICK cx \in Int, cz \in Int : c = <<cx, cz>>
  BY DEF ChunkCoord
<1>4. cx \in mx - 1 .. mx + 1 /\ cz \in mz - 1 .. mz + 1
  BY <1>1, <1>3 DEF Near, Square
<1>5. cx \in px - (vd - 1) .. px + (vd - 1) /\ cz \in pz - (vd - 1) .. pz + (vd - 1)
  BY <1>2, <1>3 DEF Square
<1>6. mx \in px - vd .. px + vd /\ mz \in pz - vd .. pz + vd
  BY <1>4, <1>5
<1> QED BY <1>1, <1>2, <1>6 DEF Square

(***************************************************************************)
(* Whoever holds the chunk of a block and sees beyond it is told when the  *)
(* block is dug by a player within a chunk of it, for every view distance  *)
(* and every number of players, wherever the others are: that the audience *)
(* goes by the chunk of the digger and not by that of the block never      *)
(* matters to it.                                                          *)
(***************************************************************************)
THEOREM ToldInsideCorrect == TerrainSpec => ToldInside
<1> DEFINE Inv == TypeOK /\ SquareSubscription /\ TerrainInv
           Told == \A m, p \in Machine, b \in dug' \ dug :
                     /\ Dig(m, b)
                     /\ ChunkOf(b) \in Near(chunk[m])
                     /\ phase[p] = "PLAY" /\ Steady(p)
                     /\ ChunkOf(b) \in loaded[p]
                     /\ ChunkOf(b) \in Square(chunk[p], viewDistance[p] - 1)
                     => b \in copy'[p]
<1>1. Inv /\ [TerrainNext]_allVars => [Told]_allVars
  <2> SUFFICES ASSUME Inv, NEW m \in Machine, NEW p \in Machine, NEW b,
                      Dig(m, b), ChunkOf(b) \in Near(chunk[m]),
                      phase[p] = "PLAY", Steady(p), ChunkOf(b) \in loaded[p],
                      ChunkOf(b) \in Square(chunk[p], viewDistance[p] - 1)
               PROVE  b \in copy'[p]
    OBVIOUS
  <2>1. /\ chunk[m] \in ChunkCoord /\ chunk[p] \in ChunkCoord
        /\ viewDistance[p] \in 0 .. 255
    BY Zenon DEF TypeOK
  <2>2. ChunkOf(b) \in ChunkCoord
    BY DEF TypeOK
  <2>3. chunk[m] \in Square(chunk[p], viewDistance[p])
    BY <2>1, <2>2, WithinView
  <2>4. p = m \/ p \in audience(m, b)
    BY <2>3, InAudience
  <2>5. copy'[p] = IF p \in audience(m, b) \cup {m} /\ ChunkOf(b) \in loaded[p]
                   THEN copy[p] \cup {b} ELSE copy[p]
    BY DEF Dig
  <2> QED BY <2>4, <2>5
<1>2. TerrainSpec => []Inv
  BY TerrainCorrect
<1> HIDE DEF Inv
<1> QED BY <1>1, <1>2, PTL DEF TerrainSpec, ToldInside

==============================================================================
