------------------------------- MODULE KeepAlive -------------------------------
(***************************************************************************)
(* The clock of the proxy: the tick timer (proxyserver.hpp), the read      *)
(* timeout and the keep-alives (StateMachine::onTick), and the clients     *)
(* that answer them.                                                       *)
(*                                                                         *)
(* now is what MonotonicClock::now returns, in units of one second.  Time  *)
(* passes between handlers.  The timer's handler runs at most Lateness     *)
(* after it is due, which is how busy the io_service may be.  A prompt     *)
(* client is one whose answer to a keep-alive is handled at most Delay     *)
(* after it was sent; the others send what they like, or nothing.          *)
(***************************************************************************)
EXTENDS Integers

CONSTANTS Session,      \* sessions, each of one connection
          ReadTimeout,  \* CLIENT_READ_TIMEOUT_NANOS
          Interval,     \* KEEP_ALIVE_INTERVAL_NANOS
          Period,       \* TICK_TIMER_PERIOD_MILLIS
          Lateness,     \* how late the tick may run
          Delay,        \* how late a prompt client's answer may come
          MaxTime       \* bound: the time at which the clock stops

ASSUME TimeAssumption ==
  /\ ReadTimeout \in Nat /\ Interval \in Nat /\ Period \in Nat \ {0}
  /\ Lateness \in Nat /\ Delay \in Nat /\ MaxTime \in Nat

\* With 10, 5 and 1 seconds in the code: an answer and a tick that are less
\* than 4 seconds late together.
ASSUME PromptAssumption == Interval + Period + Lateness + Delay < ReadTimeout

VARIABLES
  now,                    \* the clock
  due,                    \* when the tick timer expires
  state,                  \* state[s]: whether _states holds s, and its phase
  prompt,                 \* prompt[s]: the client answers in time
  lastPacketTime,
  lastKeepAliveSentTime,
  pending,                \* pending[s]: when the unanswered ones were sent
  playSince,              \* playSince[s]: when PLAY began
  timedOut                \* timedOut[s]: the phase of the first timeout

sessionVars == <<state, prompt, lastPacketTime, lastKeepAliveSentTime, pending,
                 playSince, timedOut>>
timeVars == <<now, due, sessionVars>>

\* The phases are those in which onTick differs.
Live == {"early", "PLAY"}
State == Live \cup {"none", "gone"}

TimeInit ==
  /\ now = 0
  /\ due = Period
  /\ state = [s \in Session |-> "none"]
  /\ prompt \in [Session -> BOOLEAN]
  /\ lastPacketTime = [s \in Session |-> 0]
  /\ lastKeepAliveSentTime = [s \in Session |-> 0]
  /\ pending = [s \in Session |-> {}]
  /\ playSince = [s \in Session |-> 0]
  /\ timedOut = [s \in Session |-> "no"]
------------------------------------------------------------------------------
\* The constructor: the connection counts as a packet, and no keep-alive has
\* been sent since the clock began.
onClientConnected(s) ==
  /\ state[s] = "none"
  /\ state' = [state EXCEPT ![s] = "early"]
  /\ lastPacketTime' = [lastPacketTime EXCEPT ![s] = now]
  /\ UNCHANGED <<now, due, prompt, lastKeepAliveSentTime, pending, playSince,
                 timedOut>>

\* The connection has ended, by either side: the machine is freed.
onClientDisconnected(s) ==
  /\ state[s] \in Live
  /\ state' = [state EXCEPT ![s] = "gone"]
  /\ lastPacketTime' = [lastPacketTime EXCEPT ![s] = 0]
  /\ lastKeepAliveSentTime' = [lastKeepAliveSentTime EXCEPT ![s] = 0]
  /\ pending' = [pending EXCEPT ![s] = {}]
  /\ playSince' = [playSince EXCEPT ![s] = 0]
  /\ UNCHANGED <<now, due, prompt, timedOut>>

\* The first line of onPacket: whatever the packet is, it counts.
Arrived(s) == lastPacketTime' = [lastPacketTime EXCEPT ![s] = now]

\* A packet that leaves the phase as it is.
onPacket(s) ==
  /\ state[s] \in Live
  /\ Arrived(s)
  /\ UNCHANGED <<now, due, state, prompt, lastKeepAliveSentTime, pending,
                 playSince, timedOut>>

\* The packet that begins PLAY.
onTeleportConfirm(s) ==
  /\ state[s] = "early"
  /\ Arrived(s)
  /\ state' = [state EXCEPT ![s] = "PLAY"]
  /\ playSince' = [playSince EXCEPT ![s] = now]
  /\ UNCHANGED <<now, due, prompt, lastKeepAliveSentTime, pending, timedOut>>

\* The answer to a keep-alive; its id is not looked at.
onKeepAlive(s) ==
  /\ state[s] = "PLAY"
  /\ Arrived(s)
  /\ \E sentAt \in pending[s] :
       pending' = [pending EXCEPT ![s] = @ \ {sentAt}]
  /\ UNCHANGED <<now, due, state, prompt, lastKeepAliveSentTime, playSince,
                 timedOut>>
------------------------------------------------------------------------------
\* Two mutants of ReadTimedOut: the wrong time stamp; players only.
ReadTimedOutKeepAlive(s) ==
  /\ state[s] \in Live
  /\ now - lastKeepAliveSentTime[s] >= ReadTimeout

ReadTimedOutInPlay(s) ==
  /\ state[s] = "PLAY"
  /\ now - lastPacketTime[s] >= ReadTimeout

\* onTick disconnects s, again at every tick until the connection ends.
ReadTimedOut(s) ==
  /\ state[s] \in Live
  /\ now - lastPacketTime[s] >= ReadTimeout

\* A mutant of KeepAliveDue: no keep-alive as long as packets come.
KeepAliveDueWhenSilent(s) ==
  /\ state[s] = "PLAY"
  /\ ~ ReadTimedOut(s)
  /\ now - lastKeepAliveSentTime[s] >= Interval
  /\ now - lastPacketTime[s] >= Interval

\* onTick sends s a keep-alive.
KeepAliveDue(s) ==
  /\ state[s] = "PLAY"
  /\ ~ ReadTimedOut(s)
  /\ now - lastKeepAliveSentTime[s] >= Interval

\* The timer is armed again, then every session is told.
tick ==
  /\ now >= due
  /\ due' = now + Period
  /\ timedOut' = [s \in Session |->
                    IF ReadTimedOut(s) /\ timedOut[s] = "no"
                    THEN state[s] ELSE timedOut[s]]
  /\ lastKeepAliveSentTime' =
       [s \in Session |->
          IF KeepAliveDue(s) THEN now ELSE lastKeepAliveSentTime[s]]
  /\ pending' = [s \in Session |->
                   IF KeepAliveDue(s) THEN pending[s] \cup {now} ELSE pending[s]]
  /\ UNCHANGED <<now, state, prompt, lastPacketTime, playSince>>

\* Time passes, but not while the tick or a prompt client is too late.
pass ==
  /\ now < MaxTime
  /\ now < due + Lateness
  /\ \A s \in Session : prompt[s] =>
       \A sentAt \in pending[s] : now < sentAt + Delay
  /\ now' = now + 1
  /\ UNCHANGED <<due, sessionVars>>

TimeNext ==
  \/ tick
  \/ pass
  \/ \E s \in Session :
       \/ onClientConnected(s) \/ onClientDisconnected(s)
       \/ onPacket(s) \/ onTeleportConfirm(s) \/ onKeepAlive(s)

TimeSpec == TimeInit /\ [][TimeNext]_timeVars
------------------------------------------------------------------------------
\* The times are times, and nothing is sent in the future.
TimeTypeOK ==
  /\ now \in Nat
  /\ due \in Nat
  /\ state \in [Session -> State]
  /\ prompt \in [Session -> BOOLEAN]
  /\ lastPacketTime \in [Session -> 0 .. now]
  /\ lastKeepAliveSentTime \in [Session -> 0 .. now]
  /\ pending \in [Session -> SUBSET (0 .. now)]
  /\ playSince \in [Session -> 0 .. now]
  /\ timedOut \in [Session -> Live \cup {"no"}]

(***************************************************************************)
(* A client that only ever answers keep-alives, but does so in time, is    *)
(* never disconnected for a timeout found in PLAY: the keep-alives come    *)
(* often enough for their answers to keep the session alive.               *)
(***************************************************************************)
PromptNeverTimedOut ==
  \A s \in Session : prompt[s] => timedOut[s] # "PLAY"

(***************************************************************************)
(* A session that hears nothing from its client does not outlive the       *)
(* timeout by more than a tick, in any phase.                              *)
(***************************************************************************)
SilentIsTimedOut ==
  \A s \in Session :
    state[s] \in Live /\ timedOut[s] = "no" =>
      now - lastPacketTime[s] < ReadTimeout + Period + Lateness

(***************************************************************************)
(* A player is sent a keep-alive at least once per interval and tick, from *)
(* the beginning of PLAY, whatever it sends itself: the client relies on   *)
(* them just as the server relies on the answers.                          *)
(***************************************************************************)
KeepAlivesRegular ==
  \A s \in Session :
    state[s] = "PLAY" /\ timedOut[s] = "no" =>
      \E t \in {lastKeepAliveSentTime[s], playSince[s]} :
        now - t <= Interval + Period + Lateness

==============================================================================
