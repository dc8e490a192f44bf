------------------------------ MODULE TcpServer ------------------------------
(***************************************************************************)
(* The connections of the TCP server (common/net/tcpserver.cpp): accepting *)
(* clients, the write queues, the disconnect that lets queued packets out  *)
(* first, and the life of a connection object and of its descriptor.       *)
(*                                                                         *)
(* Every action is one handler run by the io_service: a posted send or     *)
(* disconnect, the completion of the accept, of a read or of a write.  The *)
(* calls of send() and disconnect() come from whatever handler of the      *)
(* proxy runs (the client's packets, other clients' broadcasts, the tick), *)
(* so they may happen at any time while the proxy knows the connection.    *)
(* What a read delivers is left to PacketReader.                           *)
(*                                                                         *)
(* The packets of a connection are numbered in the order in which send()   *)
(* accepts them.  The kernel and the client are modelled by what the code  *)
(* relies on: a table of descriptors, whose numbers are reused, and a      *)
(* client that may go away.                                                *)
(***************************************************************************)
EXTENDS Naturals, Sequences

CONSTANTS Conn,       \* connection objects, one per accepted client
          NoConn,     \* nobody
          Descriptor, \* the descriptor numbers the process may have open
          NoFd,       \* the descriptor of a closed socket
          MaxPacket,  \* bound: packets sent on a connection
          MaxPosted   \* bound: operations posted at a time

ASSUME ConnAssumption == NoConn \notin Conn
ASSUME DescriptorAssumption == NoFd \notin Descriptor
ASSUME QueueAssumption == MaxPacket \in Nat /\ MaxPosted \in Nat

VARIABLES
  known,     \* known[c]: what the proxy knows of c
  fd,        \* fd[c]: the descriptor _socket holds
  owner,     \* owner[f]: the connection the kernel has open under f
  peer,      \* peer[c]: the client's end
  marker,    \* marker[c]: _disconnectMarker
  posted,    \* posted[c]: operations posted through _strand, oldest first
  append,    \* append[c]: _appendWriteQueue
  active,    \* active[c]: _activeWriteQueue
  accepted,  \* accepted[c]: packets send() took
  promised,  \* promised[c]: the packets taken before the first disconnect()
  wire,      \* wire[c]: packets handed to the kernel
  down       \* the process ended: an exception left io_service::run

ghostVars == <<accepted, promised, wire>>
vars == <<known, fd, owner, peer, marker, posted, append, active,
          ghostVars, down>>

(***************************************************************************)
(* known[c] is "none" before the accept, "connected" from onClientConnected*)
(* to onClientDisconnected, which is exactly while a read is pending, and  *)
(* "dropped" for a socket whose options could not be set.  peer[c] is      *)
(* "up", "stalled" once the client reads no more but stays, "closed" once  *)
(* it closed its end, and "reset" once a write to it failed.               *)
(***************************************************************************)
Knowledge == {"none", "connected", "disconnected", "dropped"}
Peer == {"up", "stalled", "closed", "reset"}

Packet == 1 .. MaxPacket
disconnectOp == 0        \* the posted disconnectImpl; a packet is its sendImpl
NotAsked == MaxPacket + 1   \* promised[c] before disconnect() is called

Init ==
  /\ known = [c \in Conn |-> "none"]
  /\ fd = [c \in Conn |-> NoFd]
  /\ owner = [f \in Descriptor |-> NoConn]
  /\ peer = [c \in Conn |-> "up"]
  /\ marker = [c \in Conn |-> FALSE]
  /\ posted = [c \in Conn |-> <<>>]
  /\ append = [c \in Conn |-> <<>>]
  /\ active = [c \in Conn |-> <<>>]
  /\ accepted = [c \in Conn |-> 0]
  /\ promised = [c \in Conn |-> NotAsked]
  /\ wire = [c \in Conn |-> <<>>]
  /\ down = FALSE
------------------------------------------------------------------------------
\* A mutant of close: the socket keeps the number of the closed descriptor.
closeKeepsFd(c) ==
  /\ fd' = fd
  /\ owner' = [f \in Descriptor |-> IF f = fd[c] THEN NoConn ELSE owner[f]]

\* _socket.close(), and the socket's destructor: whatever the number refers
\* to is closed, and the socket forgets the number.  Harmless when closed.
close(c) ==
  /\ fd' = [fd EXCEPT ![c] = NoFd]
  /\ owner' = [f \in Descriptor |-> IF f = fd[c] THEN NoConn ELSE owner[f]]

\* A mutant of Held: the connection and its state machine own each other.
HeldByCycle(c) == known[c] \in {"connected", "disconnected"}

\* The shared_ptrs to c: the proxy's and the read's, the posted operations',
\* the write's.
Held(c) == known[c] = "connected" \/ posted[c] # <<>> \/ active[c] # <<>>

\* The end of every handler: the socket is closed by the handler or by the
\* destructor of c, when the handler dropped the last shared_ptr.
Finish(c, closes) ==
  IF closes \/ ~ Held(c)' THEN close(c) ELSE UNCHANGED <<fd, owner>>
------------------------------------------------------------------------------
\* The client went away.
Gone(c) == peer[c] \in {"closed", "reset"}

FreeDescriptor == {f \in Descriptor : owner[f] = NoConn}

\* The accept completes: the proxy is told and the first read starts.
startAccept(c) ==
  /\ ~down
  /\ known[c] = "none"
  /\ \E f \in FreeDescriptor :
       /\ fd' = [fd EXCEPT ![c] = f]
       /\ owner' = [owner EXCEPT ![f] = c]
  /\ known' = [known EXCEPT ![c] = "connected"]
  /\ UNCHANGED <<peer, marker, posted, append, active, ghostVars, down>>

\* TCP_NODELAY cannot be set: the connection is dropped and never announced.
acceptDropped(c) ==
  /\ ~down
  /\ known[c] = "none"
  /\ FreeDescriptor # {}
  /\ known' = [known EXCEPT ![c] = "dropped"]
  /\ UNCHANGED <<fd, owner, peer, marker, posted, append, active, ghostVars,
                 down>>

\* The accept fails, for want of a descriptor or for any other reason: the error
\* is thrown out of run(). (operation_aborted is not: nobody closes the acceptor.)
acceptFailed(c) ==
  /\ ~down
  /\ known[c] = "none"
  /\ down' = TRUE
  /\ UNCHANGED <<known, fd, owner, peer, marker, posted, append, active,
                 ghostVars>>
------------------------------------------------------------------------------
\* send(): dropped once the marker is set, posted otherwise.
send(c) ==
  /\ ~down
  /\ known[c] = "connected"
  /\ ~marker[c]
  /\ accepted[c] < MaxPacket
  /\ Len(posted[c]) < MaxPosted
  /\ accepted' = [accepted EXCEPT ![c] = @ + 1]
  /\ posted' = [posted EXCEPT ![c] = Append(@, accepted[c] + 1)]
  /\ UNCHANGED <<known, fd, owner, peer, marker, append, active, promised,
                 wire, down>>

\* disconnect(): posted behind the packets accepted so far.
disconnect(c) ==
  /\ ~down
  /\ known[c] = "connected"
  /\ Len(posted[c]) < MaxPosted
  /\ posted' = [posted EXCEPT ![c] = Append(@, disconnectOp)]
  /\ promised' = [promised EXCEPT ![c] = IF @ = NotAsked THEN accepted[c] ELSE @]
  /\ UNCHANGED <<known, fd, owner, peer, marker, append, active, accepted,
                 wire, down>>

\* A mutant of Idle: the queue in flight is not asked.
IdleAlways(c) == TRUE

\* No write is in flight.
Idle(c) == active[c] = <<>>

\* A mutant of IsSend: every posted operation is taken for a packet.
IsSendAlways(c) == posted[c] # <<>>

\* The oldest posted operation is a sendImpl.
IsSend(c) == posted[c] # <<>> /\ Head(posted[c]) # disconnectOp

\* A mutant of startWrite: the queues are copied instead of swapped.
startWriteCopies(c, queue) ==
  /\ active' = [active EXCEPT ![c] = queue]
  /\ append' = [append EXCEPT ![c] = queue]

\* startWrite of what is queued; nothing is when the queue is empty.
startWrite(c, queue) ==
  /\ active' = [active EXCEPT ![c] = queue]
  /\ append' = [append EXCEPT ![c] = <<>>]

\* A posted packet is queued, and a write started unless one is in flight.
sendImpl(c) ==
  /\ ~down
  /\ IsSend(c)
  /\ posted' = [posted EXCEPT ![c] = Tail(@)]
  /\ LET queue == Append(append[c], Head(posted[c]))
     IN IF Idle(c)
        THEN startWrite(c, queue)
        ELSE /\ append' = [append EXCEPT ![c] = queue]
             /\ UNCHANGED active
  /\ UNCHANGED <<fd, owner, known, peer, marker, ghostVars, down>>

\* The marker is set, and the socket closed unless a write is in flight.
disconnectImpl(c) ==
  /\ ~down
  /\ posted[c] # <<>>
  /\ Head(posted[c]) = disconnectOp
  /\ posted' = [posted EXCEPT ![c] = Tail(@)]
  /\ marker' = [marker EXCEPT ![c] = TRUE]
  /\ UNCHANGED <<known, peer, append, active, ghostVars, down>>
  /\ Finish(c, Idle(c))

\* A mutant of the startWrite after a write: the marker is acted on first.
closesAfterWriteEager(c) == marker[c]

\* A mutant of closesAfterWrite: the marker is forgotten.
closesAfterWriteNever(c) == FALSE

\* startWrite after a write: with nothing queued, the marker is acted on.
closesAfterWrite(c) == append[c] = <<>> /\ marker[c]

\* A write completes: the next one starts with everything queued meanwhile.
written(c) ==
  /\ ~down
  /\ active[c] # <<>>
  /\ fd[c] # NoFd
  /\ peer[c] # "reset"
  /\ wire' = [wire EXCEPT ![c] = @ \o active[c]]
  /\ startWrite(c, append[c])
  /\ UNCHANGED <<known, peer, marker, posted, accepted, promised, down>>
  /\ Finish(c, closesAfterWrite(c))

\* A write fails: what was in flight is lost, nothing else is started.
writeFailed(c) ==
  /\ ~down
  /\ active[c] # <<>>
  /\ fd[c] = NoFd \/ Gone(c)
  /\ active' = [active EXCEPT ![c] = <<>>]
  /\ peer' = IF fd[c] = NoFd THEN peer ELSE [peer EXCEPT ![c] = "reset"]
  /\ UNCHANGED <<known, marker, posted, append, ghostVars, down>>
  /\ Finish(c, FALSE)

\* onClientDisconnected: no further read is started.
readEnds(c) ==
  /\ ~down
  /\ known[c] = "connected"
  /\ known' = [known EXCEPT ![c] = "disconnected"]
  /\ UNCHANGED <<peer, marker, posted, append, active, ghostVars, down>>
  /\ Finish(c, FALSE)

\* The read fails: the socket was closed, or the client is gone.
readFailed(c) == (fd[c] = NoFd \/ Gone(c)) /\ readEnds(c)

\* The read delivers data, but the marker is set and the data is dropped.
readMarked(c) == marker[c] /\ fd[c] # NoFd /\ readEnds(c)

\* The client closes its end.
peerCloses(c) ==
  /\ ~down
  /\ fd[c] # NoFd
  /\ ~ Gone(c)
  /\ peer' = [peer EXCEPT ![c] = "closed"]
  /\ UNCHANGED <<known, fd, owner, marker, posted, append, active, ghostVars,
                 down>>

\* The client stops reading for good: once the kernel's buffers are full, a
\* write to it does not complete any more.
peerStalls(c) ==
  /\ ~down
  /\ fd[c] # NoFd
  /\ peer[c] = "up"
  /\ peer' = [peer EXCEPT ![c] = "stalled"]
  /\ UNCHANGED <<known, fd, owner, marker, posted, append, active, ghostVars,
                 down>>

Next ==
  \E c \in Conn :
    \/ startAccept(c) \/ acceptDropped(c) \/ acceptFailed(c)
    \/ send(c) \/ disconnect(c)
    \/ sendImpl(c) \/ disconnectImpl(c)
    \/ written(c) \/ writeFailed(c)
    \/ readFailed(c) \/ readMarked(c)
    \/ peerCloses(c) \/ peerStalls(c)

Spec == Init /\ [][Next]_vars

(***************************************************************************)
(* io_service::run runs what is posted and what completes.  A write in     *)
(* flight to a client that reads completes.  Nothing is assumed of writes  *)
(* to a client that stalls, of accepts, of the proxy's calls, of the data  *)
(* and of the departure of clients.                                        *)
(***************************************************************************)
Fairness ==
  \A c \in Conn :
    /\ WF_vars(sendImpl(c) \/ disconnectImpl(c))
    /\ WF_vars((peer[c] # "stalled" /\ written(c)) \/ writeFailed(c))
    /\ WF_vars(readFailed(c))

FairSpec == Spec /\ Fairness
------------------------------------------------------------------------------
\* The fields of TcpServerConnection and what the model keeps beside them.
TypeOK ==
  /\ known \in [Conn -> Knowledge]
  /\ fd \in [Conn -> Descriptor \cup {NoFd}]
  /\ owner \in [Descriptor -> Conn \cup {NoConn}]
  /\ peer \in [Conn -> Peer]
  /\ marker \in [Conn -> BOOLEAN]
  /\ posted \in [Conn -> Seq(Packet \cup {disconnectOp})]
  /\ append \in [Conn -> Seq(Packet)]
  /\ active \in [Conn -> Seq(Packet)]
  /\ accepted \in [Conn -> 0 .. MaxPacket]
  /\ promised \in [Conn -> 0 .. MaxPacket + 1]
  /\ wire \in [Conn -> Seq(Packet)]
  /\ down \in BOOLEAN

\* The packets the posted operations have queued so far, oldest first.
Handed(c) == wire[c] \o active[c] \o append[c]

(***************************************************************************)
(* While a connection is open and no write failed, every packet send()     *)
(* took is on the wire, in one of the queues or posted, once and in order: *)
(* the posted packets are those after the queued ones, in the order of     *)
(* their numbers.                                                          *)
(***************************************************************************)
NothingLost ==
  \A c \in Conn :
    fd[c] # NoFd /\ peer[c] # "reset" =>
      LET n == Len(Handed(c))
          ops == posted[c]
      IN /\ n <= accepted[c]
         /\ Handed(c) = [i \in 1 .. n |-> i]
         /\ {ops[i] : i \in DOMAIN ops} \ {disconnectOp} = n + 1 .. accepted[c]
         /\ \A i, j \in DOMAIN ops :
              i < j /\ ops[i] # disconnectOp /\ ops[j] # disconnectOp => ops[i] < ops[j]

(***************************************************************************)
(* The server closes a connection whose client is still there only when    *)
(* the proxy asked for it, and only after the packets sent before that:    *)
(* the reason of a disconnect(message) always gets out.                    *)
(***************************************************************************)
GracefulClose ==
  \A c \in Conn :
    /\ known[c] \in {"connected", "disconnected"}
    /\ fd[c] = NoFd
    /\ ~ Gone(c)
    => promised[c] # NotAsked /\ Len(wire[c]) >= promised[c]

(***************************************************************************)
(* A socket's descriptor is its own, and an open descriptor belongs to a   *)
(* connection that some handler will still finish: nothing is leaked, and  *)
(* nothing is closed twice.                                                *)
(***************************************************************************)
DescriptorOwned ==
  /\ \A c \in Conn : fd[c] # NoFd => owner[fd[c]] = c
  /\ \A f \in Descriptor :
       owner[f] # NoConn => fd[owner[f]] = f /\ Held(owner[f])

(***************************************************************************)
(* The answer to the question at tcpserver.cpp:83, "can this cause freshly *)
(* connected clients to be disconnected under unlucky timing conditions?": *)
(* a connection loses its descriptor only once it is itself marked or its  *)
(* end was reported, even when the number was another's before.            *)
(***************************************************************************)
FreshStaysConnected ==
  [][\A c \in Conn, f \in Descriptor :
       owner[f] = c /\ owner'[f] # c =>
         marker'[c] \/ known'[c] = "disconnected"]_vars

(***************************************************************************)
(* A connection is a Connection: the interface's promises hold of what the *)
(* two queues, the marker and the descriptors do together.                 *)
(***************************************************************************)
IfaceSocket == [c \in Conn |-> IF fd[c] = NoFd THEN "closed" ELSE "open"]
IfaceReported ==
  [c \in Conn |-> IF known[c] \in {"none", "dropped"} THEN "nothing" ELSE known[c]]
IfaceLeft == [c \in Conn |-> Gone(c)]

Iface == INSTANCE Connection
           WITH socket <- IfaceSocket, reported <- IfaceReported,
                sent <- accepted, received <- wire, left <- IfaceLeft

ImplementsConnection == Iface!Spec

(***************************************************************************)
(* Once disconnect() was called the proxy is told of the end, whatever was *)
(* queued, in flight or failed (tcpserver.cpp:40 and :78), unless the      *)
(* process ends first or the client stays and reads no more: there is no   *)
(* write timeout (tcpserver.cpp:52).                                       *)
(***************************************************************************)
DisconnectCompletes ==
  \A c \in Conn :
    promised[c] # NotAsked ~>
      known[c] = "disconnected" \/ down \/ peer[c] = "stalled"

(***************************************************************************)
(* Once the proxy was told of the end the descriptor is given back: the    *)
(* posted operations and the write let go of the connection in the end.    *)
(* Only a client that reads no more keeps it, and only with a write in     *)
(* flight.                                                                 *)
(***************************************************************************)
DescriptorReleased ==
  \A c \in Conn :
    known[c] = "disconnected" ~>
      \/ fd[c] = NoFd
      \/ down
      \/ peer[c] = "stalled" /\ ~ Idle(c)

==============================================================================
