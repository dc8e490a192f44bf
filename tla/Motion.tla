--------------------------------- MODULE Motion ---------------------------------
(***************************************************************************)
(* The movement of a player as another client shows it: the position and   *)
(* the rotation a player sends (StateMachine::onPacket, onMove), the       *)
(* packets made of them (createMovePacket, createSpawnPacket) and the fold *)
(* of those packets in a client that has the player in its view.           *)
(*                                                                         *)
(* A relative move carries a 4096th of a block, a position is a Float64:   *)
(* here a number of Fine-ths of a 4096th.  An angle is a number of degrees *)
(* and has 256 steps to the turn on the wire.                              *)
(***************************************************************************)
EXTENDS Integers

CONSTANTS Axis,        \* x, y and z
          Fine,        \* the parts of a 4096th of a block that are told apart
          Coordinate,  \* bound: the coordinates players move to
          Yaw,         \* bound: the angles players turn to, any number of turns
          MaxMoves     \* bound: relative moves in a row

ASSUME MotionAssumption ==
  /\ Fine \in Nat \ {0}
  /\ Coordinate \subseteq Int
  /\ 0 \in Coordinate
  /\ Yaw \subseteq Int
  /\ MaxMoves \in Nat

VARIABLES
  position,  \* _playerState.position
  yaw,       \* _playerState.yaw
  shown,     \* where the other client shows the player
  angle,     \* which way it shows the player's body
  head,      \* which way it shows the player's head
  moves      \* relative moves since it was last told the position

motionVars == <<position, yaw, shown, angle, head, moves>>

Unsent == -1   \* no EntityHeadLook was sent since the player was spawned
Place == [Axis -> Coordinate]
Int16 == -32768 .. 32767

\* Towards zero, as a conversion to an integer does.
Truncate(n, d) == IF n >= 0 THEN n \div d ELSE -((-n) \div d)

\* A mutant of toAngle: an angle of less than nothing is shown as nothing.
toAnglePositive(degrees) == IF degrees < 0 THEN 0 ELSE Truncate(degrees * 256, 360) % 256

\* yaw * 256 / 360 as a UInt8.  Out of its range the conversion is undefined;
\* on x86 the number is cut to its lowest eight bits.
toAngle(degrees) == Truncate(degrees * 256, 360) % 256

\* A mutant of inRange: a move of as much as the wire's unsigned numbers hold.
inRangeUnsigned(diff) == \A a \in Axis : diff[a] \in -(65536 * Fine) .. 65535 * Fine

\* withinOrdered on the difference before it is cut to whole numbers.
inRange(diff) == \A a \in Axis : diff[a] \in -(32768 * Fine) .. 32767 * Fine

\* The conversion of a move to an Int16.
toInt16(n) == ((n + 32768) % 65536) - 32768

\* createMovePacket: the move as it is on the wire; a teleport has the
\* position itself and the rotation, a move the rotation only if asked for.
createMovePacket(old, new, degrees, rotate) ==
  LET diff == [a \in Axis |-> new[a] - old[a]]
  IN IF ~ inRange(diff)
     THEN [type |-> "teleport", place |-> new, angle |-> toAngle(degrees)]
     ELSE [type |-> IF rotate THEN "moveRotation" ELSE "move",
           delta |-> [a \in Axis |-> toInt16(Truncate(diff[a], Fine))],
           angle |-> toAngle(degrees)]

\* What the other client does with it.
show(packet) ==
  /\ shown' = IF packet.type = "teleport" THEN packet.place
              ELSE [a \in Axis |-> shown[a] + Fine * packet.delta[a]]
  /\ angle' = IF packet.type = "move" THEN angle ELSE packet.angle
  /\ moves' = IF packet.type = "teleport" THEN 0 ELSE moves + 1
------------------------------------------------------------------------------
\* The player is spawned on the other client: the packet has all but the head.
createSpawnPacket ==
  /\ shown' = position
  /\ angle' = toAngle(yaw)
  /\ head' = Unsent
  /\ moves' = 0
  /\ UNCHANGED <<position, yaw>>

\* onMove to a place in the other client's view, with yaw' already set: the
\* head's angle goes in a packet of its own.
onMove(to, rotate) ==
  /\ moves < MaxMoves
  /\ position' = to
  /\ show(createMovePacket(position, to, yaw', rotate))
  /\ head' = IF rotate THEN toAngle(yaw') ELSE head

PlayerPosition(to) == UNCHANGED yaw /\ onMove(to, FALSE)

PlayerPositionRotation(to, degrees) == yaw' = degrees /\ onMove(to, TRUE)

\* A mutant of PlayerRotation: the head's angle is not sent.
PlayerRotationBody(degrees) ==
  /\ yaw' = degrees
  /\ angle' = toAngle(degrees)
  /\ UNCHANGED <<position, shown, head, moves>>

\* PlayerRotation: EntityRotation and EntityHeadLook.
PlayerRotation(degrees) ==
  /\ yaw' = degrees
  /\ angle' = toAngle(degrees)
  /\ head' = toAngle(degrees)
  /\ UNCHANGED <<position, shown, moves>>

MotionInit ==
  /\ position = [a \in Axis |-> 0]
  /\ yaw = 0
  /\ shown = position
  /\ angle = 0
  /\ head = Unsent
  /\ moves = 0

MotionNext ==
  \/ createSpawnPacket
  \/ \E to \in Place : PlayerPosition(to)
  \/ \E to \in Place, degrees \in Yaw : PlayerPositionRotation(to, degrees)
  \/ \E degrees \in Yaw : PlayerRotation(degrees)

MotionSpec == MotionInit /\ [][MotionNext]_motionVars
------------------------------------------------------------------------------
(***************************************************************************)
(* The other client shows the player within less than a 4096th of a block  *)
(* per relative move since it last was told the position: every move is    *)
(* rounded (statemachine.cpp:957), the errors add up, no move overflows    *)
(* the 16 bits, and a teleport (line 939) begins anew.                     *)
(***************************************************************************)
DriftBounded ==
  \A a \in Axis :
    position[a] - shown[a] \in -((Fine - 1) * moves) .. (Fine - 1) * moves

(***************************************************************************)
(* The angle shown is the player's within less than a step, for angles     *)
(* below nothing and above a turn too (clients do not reduce them).        *)
(***************************************************************************)
AngleClose ==
  (yaw * 256 - angle * 360) % (256 * 360) \in (0 .. 359) \cup (255 * 360 + 1 .. 256 * 360 - 1)

(***************************************************************************)
(* Head and body never disagree: once a head's angle was sent, each packet *)
(* that turns the one comes with one that turns the other.                 *)
(***************************************************************************)
HeadFollows == head \in {Unsent, angle}

==============================================================================
