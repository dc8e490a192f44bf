---------------------------- MODULE PlayerTracker ----------------------------
(***************************************************************************)
(* The player tracker (proxyd/playertracker.hpp): which players stand in a *)
(* chunk and which players are subscribed to what happens in it.  The code *)
(* keeps two maps from a chunk coordinate to a set of T; the same relation *)
(* is kept here from the player's side, a function from T to a set of      *)
(* chunk coordinates.  T is StateMachine*, a set of addresses.             *)
(*                                                                         *)
(* The operations are the action fragments other modules compose; each one *)
(* says what becomes of the variables it names.  lock() is left out: one   *)
(* thread runs the io_service (main.cpp), so no two handlers overlap.      *)
(***************************************************************************)
EXTENDS Integers

CONSTANT Machine       \* the values tracked: addresses of StateMachines

VARIABLES membership,    \* _membership, inverted: chunks m is a member of
          subscriptions  \* _subscriptions, inverted: chunks m subscribes to

ChunkCoord == Int \X Int

\* The chunks within view distance vd of coord.
Square(coord, vd) ==
  ((coord[1] - vd) .. (coord[1] + vd)) \X ((coord[2] - vd) .. (coord[2] + vd))

(***************************************************************************)
(* What the two loops of updateViewDistance visit: the square of the       *)
(* larger distance without the chunks the `continue` skips.  The code      *)
(* compares dx and dz, not their absolute values, with the smaller         *)
(* distance.                                                               *)
(***************************************************************************)
Beyond(coord, wide, narrow) ==
  {c \in Square(coord, wide) : ~ (/\ c[1] - coord[1] <= narrow
                                  /\ c[2] - coord[2] <= narrow)}

TrackerInit == /\ membership = [m \in Machine |-> {}]
               /\ subscriptions = [m \in Machine |-> {}]

\* A mutant of enter: the region is computed without its edge.
enterOpenRegion(coord, vd, m) ==
  /\ membership' = [membership EXCEPT ![m] = @ \cup {coord}]
  /\ subscriptions' = [subscriptions EXCEPT ![m] = @ \cup Square(coord, vd - 1)]

enter(coord, vd, m) ==
  /\ membership' = [membership EXCEPT ![m] = @ \cup {coord}]
  /\ subscriptions' = [subscriptions EXCEPT ![m] = @ \cup Square(coord, vd)]

\* A mutant of leave: the region is computed without its edge.
leaveOpenRegion(coord, vd, m) ==
  /\ membership' = [membership EXCEPT ![m] = @ \ {coord}]
  /\ subscriptions' = [subscriptions EXCEPT ![m] = @ \ Square(coord, vd - 1)]

leave(coord, vd, m) ==
  /\ membership' = [membership EXCEPT ![m] = @ \ {coord}]
  /\ subscriptions' = [subscriptions EXCEPT ![m] = @ \ Square(coord, vd)]

\* A mutant of move: the old chunk keeps its member.
moveKeepsOld(from, to, m) ==
  membership' = [membership EXCEPT ![m] = @ \cup {to}]

move(from, to, m) ==
  membership' = [membership EXCEPT ![m] = (@ \ {from}) \cup {to}]

\* A mutant of resubscribe: the removed chunks stay subscribed.
resubscribeAddsOnly(removed, added, m) ==
  subscriptions' = [subscriptions EXCEPT ![m] = @ \cup added]

\* unsubscribe(removedChunks, this) and then subscribe(addedChunks, this).
resubscribe(removed, added, m) ==
  subscriptions' = [subscriptions EXCEPT ![m] = (@ \ removed) \cup added]

updateViewDistance(coord, old, new, m) ==
  subscriptions' = [subscriptions EXCEPT ![m] =
                      CASE new = old -> @
                        [] new < old -> @ \ Beyond(coord, old, new)
                        [] new > old -> @ \cup Beyond(coord, new, old)]

\* The lookups take the map they look in, the one before or after a change.
subscribers(subs, coord) == {m \in Machine : coord \in subs[m]}

members(mems, coord) == {m \in Machine : coord \in mems[m]}

==============================================================================
