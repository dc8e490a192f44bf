------------------------------- MODULE MCSession -------------------------------
(***************************************************************************)
(* What a session does by itself, part by part: the clock and its          *)
(* keep-alives, the requests that concern nobody else, the movement as it  *)
(* is shown and the chunk it leads to.  A behaviour is one of the part it  *)
(* is about; the variables of the others rest.                             *)
(***************************************************************************)
EXTENDS KeepAlive, MCRequests, MCMotion, MCCoord

VARIABLE part

Part == {"time", "requests", "motion", "coordinates"}

SessionInit ==
  /\ part \in Part
  /\ TimeInit /\ (part # "time" => \A s \in Session : prompt[s])
  /\ RequestInit
  /\ MotionInit
  /\ CoordInit

SessionNext ==
  \/ /\ part = "time"
     /\ TimeNext
     /\ UNCHANGED <<part, requestVars, motionVars, entity>>
  \/ /\ part = "requests"
     /\ RequestNext
     /\ UNCHANGED <<part, timeVars, motionVars, entity>>
  \/ /\ part = "motion"
     /\ MotionNext
     /\ UNCHANGED <<part, timeVars, requestVars, entity>>
  \/ /\ part = "coordinates"
     /\ CoordNext
     /\ UNCHANGED <<part, timeVars, requestVars, motionVars>>

allVars == <<part, timeVars, requestVars, motionVars, entity>>

SessionSpec == SessionInit /\ [][SessionNext]_allVars

==============================================================================
