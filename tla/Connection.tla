------------------------------ MODULE Connection ------------------------------
(***************************************************************************)
(* What IConnection and IConnectionHandler (common/net) promise to the     *)
(* proxy of every connection, whatever implements them: the client gets a  *)
(* growing prefix of what was sent; a connection the client stays on ends  *)
(* only when the proxy asked for it, and then not before the packets sent  *)
(* up to that moment are delivered; the proxy is told of the end once.     *)
(* Which packets sent after the request get out is left open, and so is    *)
(* what happens to a client that went away.                                *)
(***************************************************************************)
EXTENDS Naturals, Sequences

CONSTANTS Conn,     \* connections
          MaxPacket \* bound: packets sent on a connection

VARIABLES
  socket,    \* socket[c]: "closed" before and after it is "open"
  reported,  \* reported[c]: what the proxy was told last
  sent,      \* sent[c]: packets the proxy sent
  promised,  \* promised[c]: packets sent before the end was asked for
  received,  \* received[c]: packets the client was given
  left       \* left[c]: the client went away

vars == <<socket, reported, sent, promised, received, left>>

NotAsked == MaxPacket + 1   \* promised[c] before disconnect is called

Init ==
  /\ socket = [c \in Conn |-> "closed"]
  /\ reported = [c \in Conn |-> "nothing"]
  /\ sent = [c \in Conn |-> 0]
  /\ promised = [c \in Conn |-> NotAsked]
  /\ received = [c \in Conn |-> <<>>]
  /\ left = [c \in Conn |-> FALSE]
------------------------------------------------------------------------------
\* The end may be reported: it was asked for, or the client went away.
MayEnd(c) == promised[c] # NotAsked \/ left[c]

\* The socket stays as it is, or is closed by the same step: by the server
\* when the client has what was promised, or because the client went away.
MayClose(c) ==
  \/ UNCHANGED socket
  \/ /\ socket[c] = "open"
     /\ MayEnd(c)
     /\ left[c] \/ Len(received'[c]) >= promised[c]
     /\ socket' = [socket EXCEPT ![c] = "closed"]

onClientConnected(c) ==
  /\ reported[c] = "nothing"
  /\ socket' = [socket EXCEPT ![c] = "open"]
  /\ reported' = [reported EXCEPT ![c] = "connected"]
  /\ UNCHANGED <<sent, promised, received, left>>

onClientDisconnected(c) ==
  /\ reported[c] = "connected"
  /\ MayEnd(c)
  /\ reported' = [reported EXCEPT ![c] = "disconnected"]
  /\ UNCHANGED <<sent, promised, received, left>>
  /\ MayClose(c)

send(c) ==
  /\ reported[c] = "connected"
  /\ sent[c] < MaxPacket
  /\ sent' = [sent EXCEPT ![c] = @ + 1]
  /\ UNCHANGED <<socket, reported, promised, received, left>>

disconnect(c) ==
  /\ reported[c] = "connected"
  /\ promised[c] = NotAsked
  /\ promised' = [promised EXCEPT ![c] = sent[c]]
  /\ UNCHANGED <<socket, reported, sent, received, left>>

Deliver(c) ==
  /\ socket[c] = "open"
  /\ \E n \in Len(received[c]) + 1 .. sent[c] :
       received' = [received EXCEPT ![c] = [i \in 1 .. n |-> i]]
  /\ UNCHANGED <<reported, sent, promised, left>>
  /\ MayClose(c)

Close(c) ==
  /\ UNCHANGED <<reported, sent, promised, received, left>>
  /\ MayClose(c)

Leave(c) ==
  /\ socket[c] = "open"
  /\ left' = [left EXCEPT ![c] = TRUE]
  /\ UNCHANGED <<socket, reported, sent, promised, received>>

Next ==
  \E c \in Conn :
    \/ onClientConnected(c) \/ onClientDisconnected(c)
    \/ send(c) \/ disconnect(c)
    \/ Deliver(c) \/ Close(c) \/ Leave(c)

Spec == Init /\ [][Next]_vars
==============================================================================
