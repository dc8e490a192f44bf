----------------------------- MODULE SessionProofs -----------------------------
(***************************************************************************)
(* Proofs about what a session keeps on its own: its time stamps and the   *)
(* timeout (KeepAlive), for any number of sessions and any timeout,        *)
(* interval, period, lateness and delay that satisfy the assumptions; what *)
(* other clients show of its position (Motion), for any axes, coordinates, *)
(* angles and any fineness; the casts to blocks and chunks (Coord), for    *)
(* every coordinate and any parts of a block; and what is refused in the   *)
(* packets that concern only itself (Requests), which rests on how a text  *)
(* is read (WireProofs).                                                   *)
(***************************************************************************)
EXTENDS KeepAlive, Motion, MCCoord, Requests, WireProofs

\* The timer is armed, and not too late.
TimerOK == due <= now + Period /\ now <= due + Lateness

\* The next tick comes before the timeout is overdue.
Heard(s) ==
  state[s] \in Live /\ timedOut[s] = "no" =>
    due < lastPacketTime[s] + ReadTimeout + Period

\* The next tick comes before the next keep-alive is overdue.
Kept(s) ==
  state[s] = "PLAY" /\ timedOut[s] = "no" =>
    \/ due <= lastKeepAliveSentTime[s] + Interval + Period
    \/ due <= playSince[s] + Interval + Period

\* The last keep-alive is pending or was answered.
Answered(s) ==
  state[s] = "PLAY" =>
    /\ playSince[s] <= lastPacketTime[s]
    /\ \/ lastKeepAliveSentTime[s] \in pending[s]
       \/ lastKeepAliveSentTime[s] <= lastPacketTime[s]

\* A prompt client's answers come in time, and what it sent before some
\* pending keep-alive was not long before.
Patient(s) ==
  prompt[s] =>
    /\ timedOut[s] # "PLAY"
    /\ \A k \in pending[s] : now <= k + Delay
    /\ state[s] = "PLAY" /\ timedOut[s] = "no" /\ pending[s] # {} =>
         \E k \in pending[s] :
           k <= lastPacketTime[s] + Interval + Period + Lateness

SessionOK(s) == Heard(s) /\ Kept(s) /\ Answered(s) /\ Patient(s)

TimeInv == TimeTypeOK /\ TimerOK /\ \A s \in Session : SessionOK(s)
------------------------------------------------------------------------------
\* The steps of one session.
SessionStep(s) ==
  \/ onClientConnected(s) \/ onClientDisconnected(s)
  \/ onPacket(s) \/ onTeleportConfirm(s) \/ onKeepAlive(s)

\* The types at the start.
LEMMA TypeInit == TimeInit => TimeTypeOK
BY TimeAssumption DEF TimeInit, TimeTypeOK, State, Live

\* Every step keeps the types.
LEMMA TypeStep == TimeTypeOK /\ [TimeNext]_timeVars => TimeTypeOK'
<1> SUFFICES ASSUME TimeTypeOK, [TimeNext]_timeVars PROVE TimeTypeOK'
  OBVIOUS
<1> USE TimeAssumption DEF TimeTypeOK, State, Live
<1>1. CASE tick
  BY <1>1 DEF tick, KeepAliveDue, ReadTimedOut
<1>2. CASE pass
  BY <1>2 DEF pass, sessionVars
<1>3. ASSUME NEW s \in Session, SessionStep(s) PROVE TimeTypeOK'
  <2>1. CASE onClientConnected(s)
    BY <2>1 DEF onClientConnected
  <2>2. CASE onClientDisconnected(s)
    BY <2>2 DEF onClientDisconnected
  <2>3. CASE onPacket(s)
    BY <2>3 DEF onPacket, Arrived
  <2>4. CASE onTeleportConfirm(s)
    BY <2>4 DEF onTeleportConfirm, Arrived
  <2>5. CASE onKeepAlive(s)
    BY <2>5 DEF onKeepAlive, Arrived
  <2> QED
    BY <1>3, <2>1, <2>2, <2>3, <2>4, <2>5 DEF SessionStep
<1>4. CASE UNCHANGED timeVars
  BY <1>4 DEF timeVars, sessionVars
<1> QED
  BY <1>1, <1>2, <1>3, <1>4 DEF TimeNext, SessionStep

\* The invariant at the start.
LEMMA InvInit == TimeInit => TimeInv
<1> SUFFICES ASSUME TimeInit PROVE TimeInv
  OBVIOUS
<1>1. TimeTypeOK
  BY TypeInit
<1>2. TimerOK
  BY TimeAssumption DEF TimeInit, TimerOK
<1>3. ASSUME NEW s \in Session PROVE SessionOK(s)
  BY <1>3, <1>1 DEF TimeInit, TimeTypeOK, SessionOK, Heard, Kept, Answered, Patient, Live
<1> QED
  BY <1>1, <1>2, <1>3 DEF TimeInv
------------------------------------------------------------------------------
\* The numbers the steps are about.
LEMMA Numbers ==
  ASSUME TimeTypeOK, NEW s \in Session
  PROVE  /\ now \in Int /\ due \in Int
         /\ lastPacketTime[s] \in Int /\ 0 <= lastPacketTime[s] /\ lastPacketTime[s] <= now
         /\ lastKeepAliveSentTime[s] \in Int /\ lastKeepAliveSentTime[s] <= now
         /\ playSince[s] \in Int /\ playSince[s] <= now
         /\ \A k \in pending[s] : k \in Int /\ k <= now
BY DEF TimeTypeOK

\* The assumptions in the form the steps use.
LEMMA Constants ==
  /\ ReadTimeout \in Int /\ Interval \in Int /\ Period \in Int
  /\ Lateness \in Int /\ Delay \in Int
  /\ 0 <= Interval /\ 0 < Period /\ 0 <= Lateness /\ 0 <= Delay
  /\ Interval + Period + Lateness + Delay < ReadTimeout
BY TimeAssumption, PromptAssumption

(***************************************************************************)
(* The tick finds nobody that is prompt and in PLAY too late: either a     *)
(* keep-alive is pending, and its answer is not late, or the last one was  *)
(* answered.                                                               *)
(***************************************************************************)
LEMMA PromptInTime ==
  ASSUME TimeInv, NEW s \in Session, prompt[s], state[s] = "PLAY", timedOut[s] = "no"
  PROVE  ~ ReadTimedOut(s)
<1> USE Constants
<1>1. SessionOK(s) /\ TimerOK /\ TimeTypeOK
  BY DEF TimeInv
<1>2. now - lastPacketTime[s] < ReadTimeout
  <2>1. CASE pending[s] = {}
    BY <1>1, <2>1, Numbers DEF SessionOK, TimerOK, Kept, Answered
  <2>2. CASE pending[s] # {}
    BY <1>1, <2>2, Numbers DEF SessionOK, Patient
  <2> QED
    BY <2>1, <2>2
<1> QED
  BY <1>2, <1>1, Numbers DEF ReadTimedOut
------------------------------------------------------------------------------
\* A tick finds nobody overdue, and sends every keep-alive that is due.
LEMMA TickKeeps == TimeInv /\ TimeTypeOK' /\ tick => TimeInv'
<1> SUFFICES ASSUME TimeInv, TimeTypeOK', tick PROVE TimeInv'
  OBVIOUS
<1> USE Constants
<1>1. TimeTypeOK /\ TimerOK
  BY DEF TimeInv
<1>2. now' = now /\ due' = now + Period /\ now \in Int /\ now \in Nat
  BY <1>1 DEF tick, TimeTypeOK
<1>3. TimerOK'
  BY <1>2 DEF TimerOK
<1>4. ASSUME NEW s \in Session PROVE SessionOK(s)'
  <2>1. SessionOK(s)
    BY DEF TimeInv
  <2>2. /\ state'[s] = state[s] /\ prompt'[s] = prompt[s]
        /\ lastPacketTime'[s] = lastPacketTime[s] /\ playSince'[s] = playSince[s]
    BY DEF tick
  <2>3. timedOut'[s] = IF ReadTimedOut(s) /\ timedOut[s] = "no"
                       THEN state[s] ELSE timedOut[s]
    BY DEF tick
  <2>4. /\ lastKeepAliveSentTime'[s] =
             IF KeepAliveDue(s) THEN now ELSE lastKeepAliveSentTime[s]
        /\ pending'[s] = IF KeepAliveDue(s) THEN pending[s] \cup {now} ELSE pending[s]
    BY DEF tick
  <2>5. state[s] \in Live /\ timedOut'[s] = "no" =>
          timedOut[s] = "no" /\ now - lastPacketTime[s] < ReadTimeout
    BY <1>1, <2>3, Numbers DEF ReadTimedOut, Live
  <2>6. Heard(s)'
    BY <1>2, <2>2, <2>5, <1>1, Numbers DEF Heard
  <2>7. Kept(s)'
    <3> SUFFICES ASSUME state[s] = "PLAY", timedOut'[s] = "no"
                 PROVE  due' <= lastKeepAliveSentTime'[s] + Interval + Period
      BY <2>2 DEF Kept
    <3>1. ~ ReadTimedOut(s)
      BY <2>5, <1>1, Numbers DEF ReadTimedOut, Live
    <3>2. CASE KeepAliveDue(s)
      BY <1>2, <2>4, <3>2
    <3>3. CASE ~ KeepAliveDue(s)
      BY <1>1, <1>2, <2>4, <3>1, <3>3, Numbers DEF KeepAliveDue
    <3> QED
      BY <3>2, <3>3
  <2>8. Answered(s)'
    BY <2>1, <2>2, <2>4 DEF SessionOK, Answered
  <2>9. Patient(s)'
    <3> SUFFICES ASSUME prompt[s] PROVE Patient(s)'
      BY <2>2 DEF Patient
    <3>1. timedOut'[s] # "PLAY"
      BY <2>1, <2>3, PromptInTime DEF SessionOK, Patient
    <3>2. \A k \in pending'[s] : now' <= k + Delay
      BY <1>2, <2>1, <2>4 DEF SessionOK, Patient
    <3>3. ASSUME state[s] = "PLAY", timedOut'[s] = "no", pending'[s] # {}
          PROVE  \E k \in pending'[s] :
                   k <= lastPacketTime[s] + Interval + Period + Lateness
      <4>1. timedOut[s] = "no"
        BY <2>5, <3>3 DEF Live
      <4>2. CASE pending[s] # {}
        BY <2>1, <2>4, <3>3, <4>1, <4>2 DEF SessionOK, Patient
      <4>3. CASE pending[s] = {}
        <5>1. pending'[s] = {now}
          BY <2>4, <3>3, <4>3
        <5>2. now <= lastPacketTime[s] + Interval + Period + Lateness
          BY <1>1, <2>1, <3>3, <4>1, <4>3, Numbers
             DEF SessionOK, TimerOK, Kept, Answered
        <5> QED
          BY <5>1, <5>2
      <4> QED
        BY <4>2, <4>3
    <3> QED
      BY <2>2, <3>1, <3>2, <3>3 DEF Patient
  <2> QED
    BY <2>6, <2>7, <2>8, <2>9 DEF SessionOK
<1> QED
  BY <1>3, <1>4 DEF TimeInv

\* Time passes only as far as the tick and the prompt clients allow.
LEMMA PassKeeps == TimeInv /\ TimeTypeOK' /\ pass => TimeInv'
<1> SUFFICES ASSUME TimeInv, TimeTypeOK', pass PROVE TimeInv'
  OBVIOUS
<1> USE Constants
<1>1. TimeTypeOK /\ TimerOK /\ now' = now + 1 /\ due' = due /\ now < due + Lateness
  BY DEF TimeInv, pass
<1>2. now \in Int /\ due \in Int
  BY <1>1 DEF TimeTypeOK
<1>3. TimerOK'
  BY <1>1, <1>2 DEF TimerOK
<1>4. ASSUME NEW s \in Session PROVE SessionOK(s)'
  <2>1. SessionOK(s) /\ UNCHANGED sessionVars
    BY DEF TimeInv, pass
  <2>2. Heard(s)' /\ Kept(s)' /\ Answered(s)'
    BY <1>1, <2>1 DEF SessionOK, Heard, Kept, Answered, sessionVars
  <2>3. prompt[s] => \A k \in pending[s] : now' <= k + Delay
    BY <1>1, <1>2, Numbers DEF pass
  <2>4. Patient(s)'
    BY <1>1, <2>1, <2>3 DEF SessionOK, Patient, sessionVars
  <2> QED
    BY <2>2, <2>4 DEF SessionOK
<1> QED
  BY <1>1, <1>3, <1>4 DEF TimeInv

\* A session's own step disturbs the facts about that session only.
LEMMA SessionKeeps ==
  ASSUME NEW s \in Session, TimeInv, TimeTypeOK', SessionStep(s)
  PROVE  TimeInv'
<1> USE Constants
<1>1. TimeTypeOK /\ TimerOK /\ UNCHANGED <<now, due, prompt, timedOut>>
  BY DEF TimeInv, SessionStep, onClientConnected, onClientDisconnected, onPacket,
         onTeleportConfirm, onKeepAlive
<1>2. TimerOK'
  BY <1>1 DEF TimerOK
<1>3. ASSUME NEW r \in Session, r # s PROVE SessionOK(r)'
  <2>1. /\ state'[r] = state[r] /\ lastPacketTime'[r] = lastPacketTime[r]
        /\ lastKeepAliveSentTime'[r] = lastKeepAliveSentTime[r]
        /\ pending'[r] = pending[r] /\ playSince'[r] = playSince[r]
    BY <1>1, <1>3 DEF TimeTypeOK, SessionStep, onClientConnected, onClientDisconnected,
           onPacket, onTeleportConfirm, onKeepAlive, Arrived
  <2>2. SessionOK(r)
    BY DEF TimeInv
  <2> QED
    BY <1>1, <2>1, <2>2 DEF SessionOK, Heard, Kept, Answered, Patient
<1>4. SessionOK(s)'
  <2>1. SessionOK(s)
    BY DEF TimeInv
  <2>2. CASE onClientConnected(s)
    BY <1>1, <2>1, <2>2, Numbers
       DEF onClientConnected, SessionOK, TimerOK, Heard, Kept, Answered, Patient, TimeTypeOK
  <2>3. CASE onClientDisconnected(s)
    BY <1>1, <2>1, <2>3, Numbers
       DEF onClientDisconnected, SessionOK, Heard, Kept, Answered, Patient, TimeTypeOK, Live
  <2>4. CASE onPacket(s)
    BY <1>1, <2>1, <2>4, Numbers
       DEF onPacket, Arrived, SessionOK, TimerOK, Heard, Kept, Answered, Patient, TimeTypeOK
  <2>5. CASE onTeleportConfirm(s)
    BY <1>1, <2>1, <2>5, Numbers
       DEF onTeleportConfirm, Arrived, SessionOK, TimerOK, Heard, Kept, Answered, Patient,
           TimeTypeOK
  <2>6. CASE onKeepAlive(s)
    BY <1>1, <2>1, <2>6, Numbers
       DEF onKeepAlive, Arrived, SessionOK, TimerOK, Heard, Kept, Answered, Patient,
           TimeTypeOK
  <2> QED
    BY <2>2, <2>3, <2>4, <2>5, <2>6 DEF SessionStep
<1> QED
  BY <1>2, <1>3, <1>4 DEF TimeInv
------------------------------------------------------------------------------
(***************************************************************************)
(* The invariant holds in every behaviour: tick, pass and the sessions'    *)
(* handlers keep it.                                                       *)
(***************************************************************************)
THEOREM TimeInvariant == TimeSpec => []TimeInv
<1>1. TimeInv /\ [TimeNext]_timeVars => TimeInv'
  <2> SUFFICES ASSUME TimeInv, [TimeNext]_timeVars PROVE TimeInv'
    OBVIOUS
  <2>1. TimeTypeOK'
    BY TypeStep DEF TimeInv
  <2>2. CASE tick
    BY <2>1, <2>2, TickKeeps
  <2>3. CASE pass
    BY <2>1, <2>3, PassKeeps
  <2>4. ASSUME NEW s \in Session, SessionStep(s) PROVE TimeInv'
    BY <2>1, <2>4, SessionKeeps
  <2>5. CASE UNCHANGED timeVars
    BY <2>5 DEF timeVars, sessionVars, TimeInv, TimeTypeOK, TimerOK, SessionOK, Heard,
                Kept, Answered, Patient
  <2> QED
    BY <2>2, <2>3, <2>4, <2>5 DEF TimeNext, SessionStep
<1> QED
  BY InvInit, <1>1, PTL DEF TimeSpec

(***************************************************************************)
(* A client whose answers come in time is never disconnected for a timeout *)
(* in PLAY, for every timeout that leaves room for an interval, a period,  *)
(* a late tick and a late answer.                                          *)
(***************************************************************************)
THEOREM PromptCorrect == TimeSpec => []PromptNeverTimedOut
<1>1. TimeInv => PromptNeverTimedOut
  BY DEF TimeInv, SessionOK, Patient, PromptNeverTimedOut
<1> QED
  BY <1>1, TimeInvariant, PTL

(***************************************************************************)
(* A silent session is found at the latest a tick after the timeout.       *)
(***************************************************************************)
THEOREM SilentCorrect == TimeSpec => []SilentIsTimedOut
<1>1. TimeInv => SilentIsTimedOut
  BY Constants, Numbers DEF TimeInv, TimerOK, SessionOK, Heard, SilentIsTimedOut
<1> QED
  BY <1>1, TimeInvariant, PTL

(***************************************************************************)
(* A player is sent a keep-alive per interval and tick, from the beginning *)
(* of PLAY.                                                                *)
(***************************************************************************)
THEOREM RegularCorrect == TimeSpec => []KeepAlivesRegular
<1>1. TimeInv => KeepAlivesRegular
  <2> SUFFICES ASSUME TimeInv, NEW s \in Session, state[s] = "PLAY", timedOut[s] = "no"
               PROVE  \E t \in {lastKeepAliveSentTime[s], playSince[s]} :
                        now - t <= Interval + Period + Lateness
    BY DEF KeepAlivesRegular
  <2>1. TimerOK /\ Kept(s) /\ TimeTypeOK
    BY DEF TimeInv, SessionOK
  <2> QED
    BY <2>1, Constants, Numbers DEF TimerOK, Kept
<1> QED
  BY <1>1, TimeInvariant, PTL

------------------------------------------------------------------------------
\* The values of the fields: shown is bounded by no constant.
MotionTypes ==
  /\ position \in [Axis -> Int]
  /\ shown \in [Axis -> Int]
  /\ yaw \in Int
  /\ moves \in Nat

\* The angles the other client shows are those of the player's last one.
MotionInv ==
  /\ MotionTypes
  /\ DriftBounded
  /\ angle = toAngle(yaw)
  /\ HeadFollows
------------------------------------------------------------------------------
(***************************************************************************)
(* Cutting a number to whole units loses less than a unit.                 *)
(***************************************************************************)
LEMMA TruncateLoss ==
  ASSUME NEW d \in Nat \ {0}, NEW n \in Int
  PROVE  /\ Truncate(n, d) \in Int
         /\ n - d * Truncate(n, d) \in -(d - 1) .. d - 1
<1>1. CASE n >= 0
  <2>1. PICK q \in Int, r \in 0 .. d - 1 : n \div d = q /\ n = d * q + r
    BY Quotients, Zenon
  <2>2. Truncate(n, d) = q /\ d * q \in Int
    BY <1>1, <2>1 DEF Truncate
  <2> QED
    BY <2>1, <2>2
<1>2. CASE n < 0
  <2>1. PICK q \in Int, r \in 0 .. d - 1 : (-n) \div d = q /\ -n = d * q + r
    <3>1. -n \in Int
      OBVIOUS
    <3> QED
      BY ONLY <3>1, Quotients, d \in Nat \ {0}, Zenon
  <2>2. Truncate(n, d) = -q /\ d * q \in Int /\ d * (-q) = -(d * q)
    BY <1>2, <2>1 DEF Truncate
  <2> QED
    BY <2>1, <2>2
<1> QED
  BY <1>1, <1>2

(***************************************************************************)
(* A number of less than 2^15 units fits into 16 bits.                     *)
(***************************************************************************)
LEMMA TruncateFits ==
  ASSUME NEW d \in Nat \ {0}, NEW n \in -(32768 * d) .. 32767 * d
  PROVE  toInt16(Truncate(n, d)) = Truncate(n, d)
<1> DEFINE t == Truncate(n, d)
<1>1. n \in Int /\ t \in Int /\ n - d * t \in -(d - 1) .. d - 1
  BY TruncateLoss
<1> HIDE DEF t
<1>2. t <= 32767
  <2> SUFFICES ASSUME t >= 32768 PROVE FALSE
    BY <1>1
  <2>1. d * t >= d * 32768
    BY <1>1
  <2> QED
    BY <1>1, <2>1
<1>3. t >= -32768
  <2> SUFFICES ASSUME t <= -32769 PROVE FALSE
    BY <1>1
  <2>1. d * t <= d * (-32769)
    BY <1>1
  <2> QED
    BY <1>1, <2>1
<1> QED
  BY <1>1, <1>2, <1>3 DEF toInt16, t

(***************************************************************************)
(* The remainder of a multiple of d and less than s either way.            *)
(***************************************************************************)
LEMMA Residue ==
  ASSUME NEW d \in Nat \ {0}, NEW s \in 1 .. d, NEW r \in -(s - 1) .. s - 1,
         NEW k \in Int, NEW e \in Int, e = r + d * k
  PROVE  e % d \in (0 .. s - 1) \cup (d - s + 1 .. d - 1)
<1>1. PICK q \in Int, p \in 0 .. d - 1 : e \div d = q /\ e % d = p /\ e = d * q + p
  BY Division, Zenon
<1>2. PICK n \in Int : n = q - k
  OBVIOUS
<1>3. d * n \in Int /\ r = d * n + p
  <2>1. d * q \in Int /\ d * k \in Int /\ d * n = d * q - d * k
    BY <1>2
  <2> QED
    BY <1>1, <2>1
<1>4. n \in {-1, 0}
  <2>1. CASE n >= 1
    <3>1. d * n >= d
      BY <2>1
    <3> QED
      BY <1>3, <3>1
  <2>2. CASE n <= -2
    <3>1. d * n <= -(2 * d)
      BY <2>2
    <3> QED
      BY <1>3, <3>1
  <2> QED
    BY <2>1, <2>2
<1>5. p = r \/ p = r + d
  BY <1>3, <1>4
<1>6. p \in (0 .. s - 1) \cup (d - s + 1 .. d - 1)
  BY <1>5
<1> QED
  BY <1>1, <1>6, Zenon

(***************************************************************************)
(* An angle on the wire is within less than a step of the angle it is made *)
(* of, up to whole turns.                                                  *)
(***************************************************************************)
LEMMA AngleLoss ==
  ASSUME NEW y \in Int
  PROVE  /\ toAngle(y) \in Int
         /\ (y * 256 - toAngle(y) * 360) % (256 * 360)
              \in (0 .. 359) \cup (255 * 360 + 1 .. 256 * 360 - 1)
<1> DEFINE t == Truncate(y * 256, 360)
           k == t \div 256
<1>1. t \in Int /\ y * 256 - 360 * t \in -359 .. 359
  <2>1. PICK d \in Nat \ {0} : d = 360
    OBVIOUS
  <2>2. PICK n \in Int : n = y * 256
    OBVIOUS
  <2>3. Truncate(n, d) \in Int /\ n - d * Truncate(n, d) \in -(d - 1) .. d - 1
    BY ONLY TruncateLoss, d \in Nat \ {0}, n \in Int
  <2>4. Truncate(n, d) = t
    BY <2>1, <2>2
  <2> HIDE DEF t
  <2> QED
    BY <2>1, <2>2, <2>3, <2>4
<1>2. k \in Int /\ toAngle(y) = t - 256 * k
  BY <1>1 DEF toAngle
<1> HIDE DEF t, k
<1>3. y * 256 - toAngle(y) * 360 = (y * 256 - 360 * t) + 92160 * k
  BY <1>1, <1>2
<1>4. PICK d \in Nat \ {0} : d = 256 * 360
  OBVIOUS
<1>5. (y * 256 - toAngle(y) * 360) % d \in (0 .. 360 - 1) \cup (d - 360 + 1 .. d - 1)
  <2>1. y * 256 - toAngle(y) * 360 \in Int
    BY <1>1, <1>2
  <2>2. y * 256 - toAngle(y) * 360 = (y * 256 - 360 * t) + d * k
    BY <1>3, <1>4
  <2> QED
    BY <1>1, <1>2, <1>4, <2>1, <2>2, Residue
<1>6. 255 * 360 + 1 = d - 360 + 1
  BY <1>4
<1> QED
  BY SMTT(40), <1>1, <1>2, <1>4, <1>5, <1>6
------------------------------------------------------------------------------
(***************************************************************************)
(* A move in range is on the wire what is left of it in whole units.       *)
(***************************************************************************)
LEMMA CutMove ==
  ASSUME NEW n \in Int, n \in -(32768 * Fine) .. 32767 * Fine
  PROVE  /\ Truncate(n, Fine) \in Int
         /\ toInt16(Truncate(n, Fine)) = Truncate(n, Fine)
         /\ n - Fine * Truncate(n, Fine) \in -(Fine - 1) .. Fine - 1
<1>1. Fine \in Nat \ {0}
  BY MotionAssumption
<1>2. toInt16(Truncate(n, Fine)) = Truncate(n, Fine)
  BY <1>1, TruncateFits
<1>3. /\ Truncate(n, Fine) \in Int
      /\ n - Fine * Truncate(n, Fine) \in -(Fine - 1) .. Fine - 1
  BY ONLY n \in Int, <1>1, TruncateLoss
<1> QED
  BY <1>2, <1>3

(***************************************************************************)
(* A move by d that is shown as one by c adds the difference to the error. *)
(***************************************************************************)
LEMMA ErrorGrows ==
  ASSUME NEW old \in Int, NEW drawn \in Int, NEW new \in Int, NEW c \in Int,
         NEW bound \in Int, NEW step \in Int,
         old - drawn \in -bound .. bound, (new - old) - c \in -step .. step
  PROVE  new - (drawn + c) \in -(bound + step) .. bound + step
  OBVIOUS

(***************************************************************************)
(* A move as the other client shows it: the error grows by less than a     *)
(* unit, or is gone; the angle stays or is that of the packet.             *)
(***************************************************************************)
LEMMA MoveShown ==
  ASSUME MotionInv,
         NEW to \in [Axis -> Int], NEW degrees \in Int, NEW rotate \in BOOLEAN,
         show(createMovePacket(position, to, degrees, rotate))
  PROVE  /\ moves' \in Nat
         /\ shown' \in [Axis -> Int]
         /\ \A a \in Axis :
              to[a] - shown'[a] \in -((Fine - 1) * moves') .. (Fine - 1) * moves'
         /\ angle' \in {angle, toAngle(degrees)}
         /\ rotate => angle' = toAngle(degrees)
<1> DEFINE diff == [a \in Axis |-> to[a] - position[a]]
<1> USE MotionAssumption DEF MotionInv, MotionTypes
<1>1. CASE ~ inRange(diff)
  <2>1. shown' = to /\ moves' = 0 /\ angle' = toAngle(degrees)
    BY <1>1 DEF show, createMovePacket
  <2> QED
    BY <2>1
<1>2. CASE inRange(diff)
  <2> DEFINE cut == [a \in Axis |-> Truncate(diff[a], Fine)]
  <2>1. \A a \in Axis : /\ cut[a] \in Int
                        /\ cut[a] = toInt16(Truncate(diff[a], Fine))
                        /\ diff[a] - Fine * cut[a] \in -(Fine - 1) .. Fine - 1
    <3> TAKE a \in Axis
    <3>1. diff[a] \in -(32768 * Fine) .. 32767 * Fine /\ diff[a] \in Int
      <4>1. diff[a] = to[a] - position[a] /\ to[a] \in Int /\ position[a] \in Int
        OBVIOUS
      <4>2. diff[a] \in -(32768 * Fine) .. 32767 * Fine
        BY <1>2 DEF inRange
      <4> QED
        BY <4>1, <4>2
    <3>2. /\ Truncate(diff[a], Fine) \in Int
          /\ toInt16(Truncate(diff[a], Fine)) = Truncate(diff[a], Fine)
          /\ diff[a] - Fine * Truncate(diff[a], Fine) \in -(Fine - 1) .. Fine - 1
      <4> HIDE DEF diff
      <4> QED
        BY ONLY <3>1, CutMove
    <3>3. cut[a] = Truncate(diff[a], Fine)
      OBVIOUS
    <3> QED
      BY <3>2, <3>3
  <2>2. /\ shown' = [a \in Axis |-> shown[a] + Fine * toInt16(Truncate(diff[a], Fine))]
        /\ moves' = moves + 1
        /\ angle' = IF rotate THEN toAngle(degrees) ELSE angle
    BY <1>2 DEF show, createMovePacket
  <2>3. shown' = [a \in Axis |-> shown[a] + Fine * cut[a]]
    BY <2>1, <2>2
  <2>4. (Fine - 1) * moves' = (Fine - 1) * moves + (Fine - 1) /\ moves' \in Nat
    BY <2>2
  <2>5. ASSUME NEW a \in Axis
        PROVE  /\ shown'[a] \in Int
               /\ to[a] - shown'[a] \in -((Fine - 1) * moves') .. (Fine - 1) * moves'
    <3>1. shown'[a] = shown[a] + Fine * cut[a] /\ Fine * cut[a] \in Int
      BY <2>1, <2>3
    <3>2. diff[a] = to[a] - position[a]
      OBVIOUS
    <3>3. position[a] - shown[a] \in -((Fine - 1) * moves) .. (Fine - 1) * moves
      BY DEF DriftBounded
    <3>4. (Fine - 1) * moves \in Int /\ Fine - 1 \in Int
      OBVIOUS
    <3>5. diff[a] - Fine * cut[a] \in -(Fine - 1) .. Fine - 1 /\ shown[a] \in Int
      BY <2>1
    <3>6. position[a] \in Int /\ to[a] \in Int
      OBVIOUS
    <3> HIDE DEF diff, cut
    <3>7. (Fine - 1) * moves' \in Int
      BY <2>4, <3>4
    <3> QED
      BY ONLY <2>4, <3>1, <3>2, <3>3, <3>4, <3>5, <3>6, <3>7, ErrorGrows
  <2> QED
    BY <2>2, <2>3, <2>4, <2>5
<1> QED
  BY <1>1, <1>2

(***************************************************************************)
(* The invariant for the fields of a step of onMove.                       *)
(***************************************************************************)
LEMMA MoveInv ==
  ASSUME MotionInv, NEW to \in [Axis -> Int], NEW rotate \in BOOLEAN, yaw' \in Int,
         ~ rotate => yaw' = yaw, onMove(to, rotate)
  PROVE  MotionInv'
<1> USE DEF MotionInv, MotionTypes, onMove
<1>1. /\ moves' \in Nat
      /\ shown' \in [Axis -> Int]
      /\ \A a \in Axis :
           to[a] - shown'[a] \in -((Fine - 1) * moves') .. (Fine - 1) * moves'
      /\ angle' \in {angle, toAngle(yaw')}
      /\ rotate => angle' = toAngle(yaw')
  BY MoveShown
<1>2. MotionTypes' /\ DriftBounded'
  BY <1>1 DEF DriftBounded
<1>3. angle' = toAngle(yaw)'
  BY <1>1 DEF toAngle
<1>4. HeadFollows'
  BY <1>1 DEF HeadFollows
<1> QED
  BY <1>2, <1>3, <1>4

(***************************************************************************)
(* What another client shows of a player stays within a unit per relative  *)
(* move of where the player is, and shows the angle of its last rotation.  *)
(***************************************************************************)
THEOREM MotionInvariant == MotionSpec => []MotionInv
<1>1. MotionInit => MotionInv
  <2> SUFFICES ASSUME MotionInit PROVE MotionInv
    OBVIOUS
  <2>1. toAngle(0) = 0
    BY DEF toAngle, Truncate
  <2> QED
    BY <2>1, MotionAssumption
       DEF MotionInit, MotionInv, MotionTypes, DriftBounded, HeadFollows
<1>2. MotionInv /\ [MotionNext]_motionVars => MotionInv'
  <2> SUFFICES ASSUME MotionInv, [MotionNext]_motionVars PROVE MotionInv'
    OBVIOUS
  <2> USE MotionAssumption
  <2>1. CASE createSpawnPacket
    BY <2>1 DEF createSpawnPacket, MotionInv, MotionTypes, DriftBounded, HeadFollows, toAngle
  <2>2. ASSUME NEW to \in Place, PlayerPosition(to) PROVE MotionInv'
    <3>1. to \in [Axis -> Int] /\ yaw' = yaw /\ yaw' \in Int /\ onMove(to, FALSE)
      BY <2>2 DEF PlayerPosition, Place, MotionInv, MotionTypes
    <3> QED
      BY <3>1, MoveInv
  <2>3. ASSUME NEW to \in Place, NEW degrees \in Yaw, PlayerPositionRotation(to, degrees)
        PROVE  MotionInv'
    <3>1. to \in [Axis -> Int] /\ yaw' \in Int /\ onMove(to, TRUE)
      BY <2>3 DEF PlayerPositionRotation, Place
    <3> QED
      BY <3>1, MoveInv
  <2>4. ASSUME NEW degrees \in Yaw, PlayerRotation(degrees) PROVE MotionInv'
    BY <2>4 DEF PlayerRotation, MotionInv, MotionTypes, DriftBounded, HeadFollows, toAngle
  <2>5. CASE UNCHANGED motionVars
    BY <2>5 DEF motionVars, MotionInv, MotionTypes, DriftBounded, HeadFollows, toAngle
  <2> QED
    BY <2>1, <2>2, <2>3, <2>4, <2>5 DEF MotionNext
<1> QED
  BY <1>1, <1>2, PTL DEF MotionSpec

(***************************************************************************)
(* Rounded relative moves add up to less than a unit each, with none that  *)
(* overflows 16 bits, for positions of any fineness.                       *)
(***************************************************************************)
THEOREM DriftCorrect == MotionSpec => []DriftBounded
<1>1. MotionInv => DriftBounded
  BY DEF MotionInv
<1> QED
  BY <1>1, MotionInvariant, PTL

(***************************************************************************)
(* The angle shown is the player's within a step, for any number of turns  *)
(* and either sign.                                                        *)
(***************************************************************************)
THEOREM AngleCorrect == MotionSpec => []AngleClose
<1>1. MotionInv => AngleClose
  <2> SUFFICES ASSUME MotionInv PROVE AngleClose
    OBVIOUS
  <2>1. yaw \in Int /\ angle = toAngle(yaw)
    BY DEF MotionInv, MotionTypes
  <2> QED
    BY SMTT(40), <2>1, AngleLoss DEF AngleClose
<1> QED
  BY <1>1, MotionInvariant, PTL

(***************************************************************************)
(* A head that was turned looks where the body does.                       *)
(***************************************************************************)
THEOREM HeadCorrect == MotionSpec => []HeadFollows
<1>1. MotionInv => HeadFollows
  BY DEF MotionInv
<1> QED
  BY <1>1, MotionInvariant, PTL
------------------------------------------------------------------------------
(***************************************************************************)
(* A conversion to an integer is the block an entity is in, or the next    *)
(* one for a fraction below nothing.                                       *)
(***************************************************************************)
LEMMA EntityToBlockExact ==
  ASSUME NEW e \in Int, NEW q \in Int, NEW r \in 0 .. BlockParts - 1,
         e = BlockParts * q + r
  PROVE  EntityToBlock(e) = IF e < 0 /\ r # 0 THEN q + 1 ELSE q
<1> USE PartsAssumption
<1>1. CASE e >= 0
  <2>1. e \div BlockParts = q
    BY DivisionUnique
  <2> QED
    BY <1>1, <2>1 DEF EntityToBlock
<1>2. CASE e < 0 /\ r = 0
  <2>1. -e \in Int /\ -q \in Int /\ -e = BlockParts * (-q) + 0 /\ 0 \in 0 .. BlockParts - 1
    BY <1>2
  <2>2. (-e) \div BlockParts = -q
    BY ONLY <2>1, DivisionUnique, PartsAssumption
  <2> QED
    BY <1>2, <2>2 DEF EntityToBlock
<1>3. CASE e < 0 /\ r # 0
  <2>1. /\ -e \in Int /\ -(q + 1) \in Int
        /\ -e = BlockParts * (-(q + 1)) + (BlockParts - r)
        /\ BlockParts - r \in 0 .. BlockParts - 1
    BY <1>3
  <2>2. (-e) \div BlockParts = -(q + 1)
    BY ONLY <2>1, DivisionUnique, PartsAssumption
  <2> QED
    BY <1>3, <2>2 DEF EntityToBlock
<1> QED
  BY <1>1, <1>2, <1>3

(***************************************************************************)
(* The next block is in the next chunk when it is the first one of it.     *)
(***************************************************************************)
LEMMA NextBlock ==
  ASSUME NEW b \in Int
  PROVE  (b + 1) \div 16 = IF (b + 1) % 16 = 0 THEN b \div 16 + 1 ELSE b \div 16
<1>1. PICK d \in Nat \ {0} : d = 16
  OBVIOUS
<1>2. PICK q \in Int, r \in 0 .. d - 1 : b \div d = q /\ b = d * q + r
  BY Division
<1>3. CASE r = d - 1
  <2>1. b + 1 \in Int /\ q + 1 \in Int /\ b + 1 = d * (q + 1) + 0 /\ 0 \in 0 .. d - 1
    BY <1>2, <1>3
  <2>2. (b + 1) \div d = q + 1 /\ (b + 1) % d = 0
    BY ONLY <2>1, DivisionUnique, d \in Nat \ {0}
  <2> QED
    BY <1>1, <1>2, <2>2
<1>4. CASE r # d - 1
  <2>1. b + 1 \in Int /\ b + 1 = d * q + (r + 1) /\ r + 1 \in 0 .. d - 1 /\ r + 1 # 0
    BY <1>2, <1>4
  <2>2. (b + 1) \div d = q /\ (b + 1) % d = r + 1
    BY ONLY <2>1, DivisionUnique, q \in Int, d \in Nat \ {0}
  <2> QED
    BY <1>1, <1>2, <2>1, <2>2
<1> QED
  BY <1>3, <1>4
------------------------------------------------------------------------------
\* The chunk of every coordinate.
LEMMA ChunkOfEntity == entity \in Int => ChunkExact
<1> SUFFICES ASSUME entity \in Int PROVE ChunkExact
  OBVIOUS
<1>1. PICK q \in Int, r \in 0 .. BlockParts - 1 :
        entity \div BlockParts = q /\ entity % BlockParts = r /\ entity = BlockParts * q + r
  BY Division, PartsAssumption
<1>2. EntityToBlock(entity) = IF entity < 0 /\ r # 0 THEN q + 1 ELSE q
  BY <1>1, EntityToBlockExact
<1>3. (q + 1) \div 16 = IF (q + 1) % 16 = 0 THEN q \div 16 + 1 ELSE q \div 16
  BY NextBlock
<1> QED
  BY <1>1, <1>2, <1>3
     DEF ChunkExact, JustBelow, TrueChunk, TrueBlock, EntityToChunk, BlockToChunk,
         ashr4, ChunkBlocks

CoordSpec == CoordInit /\ [][CoordNext]_entity

(***************************************************************************)
(* Wherever an entity is, the chunk it counts for is the one it stands in, *)
(* but for the last block before a boundary on the negative side.          *)
(***************************************************************************)
THEOREM ChunkCorrect == CoordSpec => []ChunkExact
<1>1. CoordInit => entity \in Int
  BY DEF CoordInit
<1>2. entity \in Int /\ [CoordNext]_entity => (entity \in Int)'
  BY DEF CoordNext
<1>3. entity \in Int => ChunkExact
  BY ChunkOfEntity
<1> QED
  BY <1>1, <1>2, <1>3, PTL DEF CoordSpec

(***************************************************************************)
(* Blocks follow entities, and chunks blocks: neither turns back, and      *)
(* neither skips one.                                                      *)
(***************************************************************************)
LEMMA BlockMonotone ==
  ASSUME NEW e \in Int, NEW f \in Int, NEW k \in Nat,
         e <= f, f <= e + BlockParts * k
  PROVE  /\ EntityToBlock(e) \in Int
         /\ EntityToBlock(f) \in Int
         /\ EntityToBlock(f) - EntityToBlock(e) \in 0 .. k
<1> USE PartsAssumption
<1>1. CASE e >= 0
  <2>1. f \div BlockParts - e \div BlockParts \in 0 .. k
    BY QuotientMonotone
  <2>2. e \div BlockParts \in Int /\ f \div BlockParts \in Int
    OBVIOUS
  <2> QED
    BY <1>1, <2>1, <2>2 DEF EntityToBlock
<1>2. CASE f < 0
  <2>1. /\ -e \in Int /\ -f \in Int
        /\ -f <= -e /\ -e <= (-f) + BlockParts * k
    BY BlockParts * k \in Int
  <2>2. (-e) \div BlockParts - (-f) \div BlockParts \in 0 .. k
    BY ONLY <2>1, QuotientMonotone, k \in Nat, PartsAssumption
  <2>3. (-e) \div BlockParts \in Int /\ (-f) \div BlockParts \in Int
    OBVIOUS
  <2> QED
    BY <1>2, <2>2, <2>3 DEF EntityToBlock
<1>3. CASE e < 0 /\ f >= 0
  <2>1. PICK q \in Int, r \in 0 .. BlockParts - 1 :
          (-e) \div BlockParts = q /\ -e = BlockParts * q + r
    <3>1. -e \in Int
      OBVIOUS
    <3> QED
      BY ONLY <3>1, Quotients, PartsAssumption, Zenon
  <2>2. PICK p \in Int, s \in 0 .. BlockParts - 1 :
          f \div BlockParts = p /\ f = BlockParts * p + s
    BY Quotients, Zenon
  <2>3. EntityToBlock(f) - EntityToBlock(e) = p + q
    BY <1>3, <2>1, <2>2 DEF EntityToBlock
  <2>4. PICK a \in Int : a = p + q
    OBVIOUS
  <2>5. /\ BlockParts * a \in Int /\ BlockParts * k \in Int
        /\ BlockParts * a = (f - e) - r - s
    <3>1. /\ BlockParts * p \in Int /\ BlockParts * q \in Int /\ BlockParts * k \in Int
          /\ BlockParts * a = BlockParts * p + BlockParts * q
      BY <2>4
    <3> QED
      BY <2>1, <2>2, <3>1
  <2>6. a >= 0
    <3>1. p >= 0 /\ q >= 0
      <4>1. BlockParts * p > -BlockParts /\ BlockParts * q > -BlockParts
        BY <1>3, <2>1, <2>2
      <4> QED
        BY <4>1
    <3> QED
      BY <2>4, <3>1
  <2>7. a <= k
    <3> SUFFICES ASSUME a >= k + 1 PROVE FALSE
      BY <2>4
    <3>1. BlockParts * a >= BlockParts * (k + 1)
      OBVIOUS
    <3>2. BlockParts * (k + 1) = BlockParts * k + BlockParts
      OBVIOUS
    <3> QED
      BY <2>5, <3>1, <3>2
  <2>8. EntityToBlock(e) \in Int /\ EntityToBlock(f) \in Int
    BY <1>3, <2>1, <2>2 DEF EntityToBlock
  <2> QED
    BY <2>3, <2>4, <2>6, <2>7, <2>8
<1> QED
  BY <1>1, <1>2, <1>3

\* A step of at most a chunk leads to the same chunk or the next one.
LEMMA ChunkFollows ==
  ASSUME NEW e \in Int, NEW f \in Int, e <= f, f <= e + 16 * BlockParts
  PROVE  EntityToChunk(e) \in Int /\ EntityToChunk(f) - EntityToChunk(e) \in 0 .. 1
<1>1. f <= e + BlockParts * 16 /\ 16 \in Nat
  BY PartsAssumption
<1>2. PICK b \in Int, c \in Int : /\ b = EntityToBlock(e)
                                  /\ c = EntityToBlock(f)
                                  /\ c - b \in 0 .. 16
  BY <1>1, BlockMonotone
<1>3. PICK d \in Nat \ {0} : d = 16
  OBVIOUS
<1>4. c \div d - b \div d \in 0 .. 1
  BY <1>2, <1>3, QuotientMonotone
<1>5. EntityToChunk(e) = b \div d /\ EntityToChunk(f) = c \div d /\ b \div d \in Int
  BY <1>2, <1>3 DEF EntityToChunk, BlockToChunk, ashr4, ChunkBlocks
<1> QED
  BY <1>4, <1>5

(***************************************************************************)
(* Chunk transitions follow the walk, across 0 as well: never the other    *)
(* way, and never over a chunk by a step of at most one.                   *)
(***************************************************************************)
THEOREM WalkCorrect == CoordSpec => ChunkMonotone
<1>1. CoordInit => entity \in Int
  BY DEF CoordInit
<1>2. entity \in Int /\ [CoordNext]_entity => (entity \in Int)'
  BY DEF CoordNext
<1>3. entity \in Int /\ [CoordNext]_entity =>
        [/\ entity' >= entity => EntityToChunk(entity') >= EntityToChunk(entity)
         /\ EntityToChunk(entity') - EntityToChunk(entity) \in -1 .. 1]_entity
  <2> SUFFICES ASSUME entity \in Int, CoordNext
               PROVE  /\ entity' >= entity =>
                           EntityToChunk(entity') >= EntityToChunk(entity)
                      /\ EntityToChunk(entity') - EntityToChunk(entity) \in -1 .. 1
    OBVIOUS
  <2>1. /\ entity' \in Int
        /\ entity' <= entity + 16 * BlockParts
        /\ entity <= entity' + 16 * BlockParts
    BY StrideAssumption, PartsAssumption DEF CoordNext
  <2>2. CASE entity <= entity'
    <3>1. /\ EntityToChunk(entity) \in Int
          /\ EntityToChunk(entity') - EntityToChunk(entity) \in 0 .. 1
      BY <2>1, <2>2, ChunkFollows
    <3>2. EntityToChunk(entity') \in Int
      BY <2>1, ChunkFollows, PartsAssumption
    <3> QED
      BY <3>1, <3>2
  <2>3. CASE entity > entity'
    <3>1. /\ EntityToChunk(entity') \in Int
          /\ EntityToChunk(entity) - EntityToChunk(entity') \in 0 .. 1
      BY <2>1, <2>3, ChunkFollows
    <3>2. EntityToChunk(entity) \in Int
      BY <2>1, ChunkFollows, PartsAssumption
    <3> QED
      BY <2>1, <2>3, <3>1, <3>2
  <2> QED
    BY <2>1, <2>2, <2>3
<1> QED
  BY <1>1, <1>2, <1>3, PTL DEF CoordSpec, ChunkMonotone
------------------------------------------------------------------------------
(***************************************************************************)
(* A block is where its chunk and its place in it say, for negative        *)
(* coordinates too, and is the block of the entity coordinate made of it.  *)
(***************************************************************************)
THEOREM BlockSplit ==
  ASSUME NEW n \in Int
  PROVE  /\ BlockToInner(n) \in 0 .. 15
         /\ ChunkToBlock(BlockToChunk(n)) + BlockToInner(n) = n
         /\ EntityToBlock(BlockToEntity(n)) = n
<1>1. PICK d \in Nat \ {0} : d = 16
  OBVIOUS
<1>2. PICK q \in Int, r \in 0 .. d - 1 : n \div d = q /\ n % d = r /\ n = d * q + r
  BY Division, Zenon
<1>3. BlockToInner(n) \in 0 .. 15 /\ ChunkToBlock(BlockToChunk(n)) + BlockToInner(n) = n
  BY <1>1, <1>2 DEF BlockToInner, ChunkToBlock, BlockToChunk, ashr4, ChunkBlocks
<1>4. BlockToEntity(n) \in Int /\ BlockToEntity(n) = BlockParts * n + 0
  BY PartsAssumption DEF BlockToEntity
<1>5. EntityToBlock(BlockToEntity(n)) = n
  <2>1. PICK zero \in 0 .. BlockParts - 1 : zero = 0
    BY PartsAssumption
  <2>2. PICK e \in Int : e = BlockToEntity(n) /\ e = BlockParts * n + zero
    BY <1>4, <2>1
  <2>3. EntityToBlock(e) = IF e < 0 /\ zero # 0 THEN n + 1 ELSE n
    BY ONLY <2>2, EntityToBlockExact, n \in Int, zero \in 0 .. BlockParts - 1
  <2> QED
    BY <2>1, <2>2, <2>3
<1> QED
  BY <1>3, <1>5

(***************************************************************************)
(* withinOrdered, between the corners of a square, is membership in it.    *)
(***************************************************************************)
LEMMA Within ==
  ASSUME NEW p \in Int \X Int, NEW o \in Int \X Int, NEW vd \in Nat
  PROVE  within(p, <<o[1] - vd, o[2] - vd>>, <<o[1] + vd, o[2] + vd>>)
           <=> p \in {<<o[1] + i, o[2] + j>> : i \in -vd .. vd, j \in -vd .. vd}
<1> DEFINE around == {<<o[1] + i, o[2] + j>> : i \in -vd .. vd, j \in -vd .. vd}
<1>1. ASSUME p \in around
      PROVE  within(p, <<o[1] - vd, o[2] - vd>>, <<o[1] + vd, o[2] + vd>>)
  BY <1>1 DEF within
<1>2. ASSUME within(p, <<o[1] - vd, o[2] - vd>>, <<o[1] + vd, o[2] + vd>>)
      PROVE  p \in around
  <2>1. p[1] - o[1] \in -vd .. vd /\ p[2] - o[2] \in -vd .. vd
    BY <1>2 DEF within
  <2>2. p = <<o[1] + (p[1] - o[1]), o[2] + (p[2] - o[2])>>
    OBVIOUS
  <2> QED
    BY <2>1, <2>2
<1> QED
  BY <1>1, <1>2

(***************************************************************************)
(* The chunks a transition exchanges on one side are those of the square   *)
(* around the one chunk that the square around the other does not have.    *)
(***************************************************************************)
THEOREM ExchangeIsDifference ==
  ASSUME NEW centre \in Int \X Int, NEW other \in Int \X Int, NEW vd \in Nat
  PROVE  Exchanged(centre, other, vd) =
           {<<centre[1] + i, centre[2] + j>> : i \in -vd .. vd, j \in -vd .. vd}
             \ {<<other[1] + i, other[2] + j>> : i \in -vd .. vd, j \in -vd .. vd}
<1> DEFINE around == {<<centre[1] + i, centre[2] + j>> : i \in -vd .. vd, j \in -vd .. vd}
           beside == {<<other[1] + i, other[2] + j>> : i \in -vd .. vd, j \in -vd .. vd}
<1>1. \A p \in around : p \in Int \X Int
  OBVIOUS
<1>2. \A p \in Int \X Int :
        within(p, <<other[1] - vd, other[2] - vd>>, <<other[1] + vd, other[2] + vd>>)
          <=> p \in beside
  BY Within
<1> HIDE DEF around, beside
<1>3. Exchanged(centre, other, vd) =
        {p \in around : ~ within(p, <<other[1] - vd, other[2] - vd>>,
                                    <<other[1] + vd, other[2] + vd>>)}
  BY DEF Exchanged, around
<1>4. Exchanged(centre, other, vd) = around \ beside
  BY ONLY <1>1, <1>2, <1>3
<1> QED
  BY <1>4 DEF around, beside

------------------------------------------------------------------------------
(***************************************************************************)
(* Requests: the property needs to know that no window is ever open, since *)
(* closing the one that is open would be granted, and that each handler    *)
(* grants what the protocol allows.                                        *)
(***************************************************************************)
Judged ==
  /\ closing \in BOOLEAN /\ lawful \in BOOLEAN /\ negative \in BOOLEAN
  /\ KickExact

KickInv == openWindow = 0 /\ Judged

\* A text is a brand.
LEMMA TextIsBrand ==
  ASSUME NEW text \in Data
  PROVE  isBrand(serializeString(text))
<1>1. text \in Seq(Byte) /\ Len(text) <= 1019 /\ Len(text) \in Nat
  BY RangeAssumption
<1>2. Len(text) \in Int32
  BY <1>1, SMT DEF Int32
<1>3. <<>> \in Seq(Byte)
  OBVIOUS
<1>4. /\ deserializeString(serializeString(text) \o <<>>)
           = OK(text, Len(serializeString(text)))
      /\ serializeString(text) \in Seq(Byte)
  BY Zenon, <1>1, <1>2, <1>3, StringRead
<1>5. serializeString(text) \o <<>> = serializeString(text)
  BY <1>4
<1> QED BY <1>4, <1>5 DEF isBrand, OK

\* The data of a plugin message is a brand when it is a text, and only then.
LEMMA BrandIsText ==
  ASSUME NEW data \in Data \cup {serializeString(t) : t \in Data}
  PROVE  isBrand(data) <=> \E text \in Data : data = serializeString(text)
<1>1. CASE data \in Data
  BY <1>1, BrandAssumption, TextIsBrand, Zenon
<1>2. CASE data \in {serializeString(t) : t \in Data}
  BY <1>2, TextIsBrand, Zenon
<1> QED BY <1>1, <1>2

\* What is allowed is granted, and nothing else is.
LEMMA FairlyJudged ==
  ASSUME Judged, NEW allowed \in BOOLEAN, NEW granted \in BOOLEAN,
         allowed <=> granted, Judge(allowed, granted), UNCHANGED negative
  PROVE  Judged'
BY DEF Judge, Judged, KickExact

\* Every request keeps the invariant.
LEMMA KickNext == KickInv /\ [RequestNext]_requestVars => KickInv'
<1> SUFFICES ASSUME KickInv, [RequestNext]_requestVars PROVE KickInv'
  OBVIOUS
<1> USE DEF KickInv
<1>1. ASSUME NEW channel \in Channel,
             NEW data \in Data \cup {serializeString(t) : t \in Data},
             PluginMessage(channel, data)
      PROVE  KickInv'
  <2> DEFINE allowed == channel = Brand => \E text \in Data : data = serializeString(text)
             granted == channel = Brand => isBrand(data)
  <2>1. allowed <=> granted
    BY BrandIsText, Zenon
  <2>2. Judge(allowed, granted) /\ UNCHANGED negative /\ UNCHANGED openWindow
    BY <1>1, Zenon DEF PluginMessage
  <2>3. allowed \in BOOLEAN /\ granted \in BOOLEAN
    BY Zenon
  <2> HIDE DEF allowed, granted
  <2> QED BY <2>1, <2>2, <2>3, FairlyJudged
<1>2. CASE Confirm
  BY <1>2 DEF Confirm, Judged, KickExact
<1>3. CASE Malformed
  BY <1>3, FairlyJudged DEF Malformed
<1>4. ASSUME NEW window \in Window, CloseWindow(window)
      PROVE  KickInv'
  <2>1. Judge(window = 0, window = 0 \/ openWindow = window)
    BY <1>4 DEF CloseWindow
  <2>2. openWindow' = 0 /\ UNCHANGED negative
    BY <1>4 DEF CloseWindow
  <2> QED BY <2>1, <2>2 DEF Judge, Judged, KickExact
<1>5. ASSUME NEW flags \in Flags, PlayerAbilities(flags)
      PROVE  KickInv'
  BY <1>5 DEF PlayerAbilities, Judged, KickExact
<1>6. ASSUME NEW slot \in Slot, HeldItemChange(slot)
      PROVE  KickInv'
  <2>1. slot \in 0 .. 8 <=> slotAllowed(slot)
    BY RangeAssumption DEF slotAllowed
  <2>2. Judge(slot \in 0 .. 8, slotAllowed(slot)) /\ UNCHANGED <<negative, openWindow>>
    BY <1>6 DEF HeldItemChange
  <2> QED BY <2>1, <2>2 DEF Judge, Judged, KickExact
<1>7. ASSUME NEW hand \in Hand, Animation(hand) \/ UseItem(hand)
      PROVE  KickInv'
  <2>1. hand \in {0, 1} <=> handAllowed(hand)
    BY DEF handAllowed
  <2>2. Judge(hand \in {0, 1}, handAllowed(hand)) /\ UNCHANGED <<negative, openWindow>>
    BY <1>7 DEF Animation, UseItem
  <2> QED BY <2>1, <2>2 DEF Judge, Judged, KickExact
<1>8. ASSUME NEW status \in Status, NEW face \in Face, PlayerDigging(status, face)
      PROVE  KickInv'
  <2>1. status \in Int /\ face \in Int
    BY RangeAssumption
  <2>2. /\ Judge(status \in 0 .. 6 /\ face \in 0 .. 5, digAllowed(status, face))
        /\ negative' = (negative \/ status < 0 \/ face < 0)
        /\ UNCHANGED openWindow
    BY <1>8 DEF PlayerDigging
  <2>3. /\ status \in 0 .. 6 /\ face \in 0 .. 5 => digAllowed(status, face)
        /\ digAllowed(status, face) =>
             (status \in 0 .. 6 /\ face \in 0 .. 5) \/ status < 0 \/ face < 0
    BY <2>1 DEF digAllowed
  <2> QED BY <2>2, <2>3 DEF Judge, Judged, KickExact
<1>9. CASE UNCHANGED requestVars
  BY <1>9 DEF requestVars, Judged, KickExact
<1> QED
  BY <1>1, <1>2, <1>3, <1>4, <1>5, <1>6, <1>7, <1>8, <1>9, Zenon DEF RequestNext

(***************************************************************************)
(* A client is disconnected when it breaks the protocol and only then, but *)
(* for the negative numbers of PlayerDigging.                              *)
(***************************************************************************)
THEOREM KickCorrect == RequestSpec => []KickExact
<1>1. RequestInit => KickInv
  BY DEF RequestInit, KickInv, Judged, KickExact
<1>2. KickInv => KickExact
  BY DEF KickInv, Judged
<1> QED BY <1>1, <1>2, KickNext, PTL DEF RequestSpec

==============================================================================
