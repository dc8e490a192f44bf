---------------------------- MODULE TcpServerProofs ----------------------------
(***************************************************************************)
(* TcpServer for any number of connections, descriptors, packets and       *)
(* posted operations, and the step-by-step proof that it implements        *)
(* Connection.                                                             *)
(***************************************************************************)
EXTENDS TcpServer, TLAPS

\* What the proofs read in a sequence of operations: is i one, is it a packet.
Ops(c) == 1 .. Len(posted[c])
Sent(c, i) == i \in Ops(c) /\ posted[c][i] # disconnectOp

\* Packets that left the posted operations: on the wire, in flight, queued.
OnWire(c) == Len(wire[c])
InFlight(c) == Len(active[c])
Queued(c) == Len(append[c])
Taken(c) == OnWire(c) + InFlight(c) + Queued(c)

\* A connection whose packets still get through.
Open(c) == fd[c] # NoFd /\ peer[c] # "reset"

\* A connection object that was not accepted is as it was made.
Fresh(c) ==
  /\ known[c] \in {"none", "dropped"} => fd[c] = NoFd
  /\ known[c] = "none" =>
       /\ ~marker[c]
       /\ peer[c] = "up"
       /\ posted[c] = <<>> /\ append[c] = <<>> /\ active[c] = <<>>
       /\ wire[c] = <<>>
       /\ accepted[c] = 0
       /\ promised[c] = NotAsked

\* Only disconnect() leads to the marker, and what it promised was sent.
Asked(c) ==
  /\ marker[c] => promised[c] # NotAsked
  /\ \A i \in Ops(c) : posted[c][i] = disconnectOp => promised[c] # NotAsked
  /\ promised[c] # NotAsked => promised[c] <= accepted[c]

\* The end is told of a connection whose client left or that was asked for.
Told(c) == known[c] = "disconnected" /\ ~Gone(c) => promised[c] # NotAsked

\* The wire and the two queues hold the first packets, in order.
InOrder(c) ==
  /\ \A i \in 1 .. OnWire(c) : wire[c][i] = i
  /\ \A i \in 1 .. InFlight(c) : active[c][i] = OnWire(c) + i
  /\ \A i \in 1 .. Queued(c) :
       append[c][i] = OnWire(c) + InFlight(c) + i

\* The posted packets are the next ones, in order.
Waiting(c) ==
  /\ Taken(c) <= accepted[c]
  /\ \A i \in Ops(c) : Sent(c, i) => Taken(c) < posted[c][i] /\ posted[c][i] <= accepted[c]
  /\ \A p \in Packet : Taken(c) < p /\ p <= accepted[c] => \E i \in Ops(c) : posted[c][i] = p
  /\ \A i, j \in Ops(c) : i < j /\ Sent(c, i) /\ Sent(c, j) => posted[c][i] < posted[c][j]

\* A disconnect is posted behind all that it promised, and the marker is set
\* once that left the posted operations.
Behind(c) ==
  /\ marker[c] => promised[c] <= Taken(c)
  /\ \A i, j \in Ops(c) :
       i < j /\ posted[c][i] = disconnectOp /\ Sent(c, j) => promised[c] < posted[c][j]

Flow(c) ==
  Open(c) =>
    /\ InOrder(c)
    /\ Waiting(c)
    /\ Behind(c)
    /\ Idle(c) => append[c] = <<>>

\* The server closed the connection: what was promised is on the wire.
Graceful(c) ==
  known[c] \in {"connected", "disconnected"} /\ fd[c] = NoFd /\ ~Gone(c) =>
    promised[c] # NotAsked /\ promised[c] <= OnWire(c)

ConnOK(c) == Fresh(c) /\ Asked(c) /\ Told(c) /\ Flow(c) /\ Graceful(c)

ConnInv == \A c \in Conn : ConnOK(c)
------------------------------------------------------------------------------
\* Queues: what a queue of packets is made of when one is added or taken.
LEMMA QueueFacts ==
  ASSUME NEW S, NEW s \in Seq(S)
  PROVE  /\ Len(s) \in Nat
         /\ \A e \in S : Append(s, e) \in Seq(S)
         /\ s # <<>> => Head(s) \in S /\ Tail(s) \in Seq(S)
         /\ \A t \in Seq(S) : s \o t \in Seq(S)
         /\ <<>> \in Seq(S)
OBVIOUS

\* The descriptor table after a handler keeps its type.
LEMMA FinishType ==
  ASSUME NEW c \in Conn, NEW closes, TypeOK, Finish(c, closes)
  PROVE  /\ fd' \in [Conn -> Descriptor \cup {NoFd}]
         /\ owner' \in [Descriptor -> Conn \cup {NoConn}]
<1>1. CASE close(c)
  BY <1>1 DEF close, TypeOK
<1>2. CASE UNCHANGED <<fd, owner>>
  BY <1>2 DEF TypeOK
<1> QED
  BY <1>1, <1>2 DEF Finish

\* The types at the start.
LEMMA TypeInit == Init => TypeOK
<1> SUFFICES ASSUME Init PROVE TypeOK
  OBVIOUS
<1>1. <<>> \in Seq(Packet) /\ <<>> \in Seq(Packet \cup {disconnectOp})
  OBVIOUS
<1>2. posted \in [Conn -> Seq(Packet \cup {disconnectOp})]
  BY <1>1 DEF Init
<1>3. /\ append \in [Conn -> Seq(Packet)]
      /\ active \in [Conn -> Seq(Packet)]
      /\ wire \in [Conn -> Seq(Packet)]
  BY <1>1 DEF Init
<1>4. accepted \in [Conn -> 0 .. MaxPacket] /\ promised \in [Conn -> 0 .. MaxPacket + 1]
  BY QueueAssumption DEF Init, NotAsked
<1>5. known \in [Conn -> Knowledge] /\ peer \in [Conn -> Peer]
  BY DEF Init, Knowledge, Peer
<1> QED
  BY <1>2, <1>3, <1>4, <1>5 DEF Init, TypeOK

\* Every step keeps the types.
LEMMA TypeNext == TypeOK /\ [Next]_vars => TypeOK'
<1> SUFFICES ASSUME TypeOK, [Next]_vars PROVE TypeOK'
  OBVIOUS
<1> USE QueueAssumption
<1>1. ASSUME NEW c \in Conn, startAccept(c) PROVE TypeOK'
  BY <1>1 DEF startAccept, FreeDescriptor, ghostVars, TypeOK, Knowledge
<1>2. ASSUME NEW c \in Conn, acceptDropped(c) PROVE TypeOK'
  BY <1>2 DEF acceptDropped, ghostVars, TypeOK, Knowledge
<1>3. ASSUME NEW c \in Conn, acceptFailed(c) PROVE TypeOK'
  BY <1>3 DEF acceptFailed, ghostVars, TypeOK
<1>4. ASSUME NEW c \in Conn, send(c) PROVE TypeOK'
  <2>1. accepted[c] + 1 \in Packet
    BY <1>4 DEF send, TypeOK, Packet
  <2>2. Append(posted[c], accepted[c] + 1) \in Seq(Packet \cup {disconnectOp})
    BY <2>1, QueueFacts DEF TypeOK
  <2> QED
    <3>1. posted' \in [Conn -> Seq(Packet \cup {disconnectOp})]
      BY <1>4, <2>2 DEF send, TypeOK
    <3>2. accepted' \in [Conn -> 0 .. MaxPacket]
      BY <1>4 DEF send, TypeOK
    <3> QED
      BY <1>4, <3>1, <3>2 DEF send, TypeOK
<1>5. ASSUME NEW c \in Conn, disconnect(c) PROVE TypeOK'
  <2>1. Append(posted[c], disconnectOp) \in Seq(Packet \cup {disconnectOp})
    BY QueueFacts DEF TypeOK
  <2>2. promised' \in [Conn -> 0 .. MaxPacket + 1]
    BY <1>5 DEF disconnect, TypeOK, NotAsked
  <2> QED
    BY <1>5, <2>1, <2>2 DEF disconnect, TypeOK
<1>6. ASSUME NEW c \in Conn, sendImpl(c) PROVE TypeOK'
  <2>1. Head(posted[c]) \in Packet /\ Tail(posted[c]) \in Seq(Packet \cup {disconnectOp})
    BY <1>6, QueueFacts DEF sendImpl, IsSend, TypeOK
  <2>2. Append(append[c], Head(posted[c])) \in Seq(Packet) /\ <<>> \in Seq(Packet)
    BY <2>1, QueueFacts DEF TypeOK
  <2>3. CASE Idle(c)
    BY <1>6, <2>1, <2>2, <2>3 DEF sendImpl, startWrite, ghostVars, TypeOK
  <2>4. CASE ~Idle(c)
    BY <1>6, <2>1, <2>2, <2>4 DEF sendImpl, ghostVars, TypeOK
  <2> QED
    BY <2>3, <2>4
<1>7. ASSUME NEW c \in Conn, disconnectImpl(c) PROVE TypeOK'
  <2>1. Tail(posted[c]) \in Seq(Packet \cup {disconnectOp})
    BY <1>7, QueueFacts DEF disconnectImpl, TypeOK
  <2> QED
    BY <1>7, <2>1, FinishType DEF disconnectImpl, ghostVars, TypeOK
<1>8. ASSUME NEW c \in Conn, written(c) PROVE TypeOK'
  <2>1. wire[c] \o active[c] \in Seq(Packet) /\ <<>> \in Seq(Packet)
    BY QueueFacts DEF TypeOK
  <2> QED
    BY <1>8, <2>1, FinishType DEF written, startWrite, TypeOK
<1>9. ASSUME NEW c \in Conn, writeFailed(c) PROVE TypeOK'
  <2>1. <<>> \in Seq(Packet)
    BY QueueFacts DEF TypeOK
  <2>2. peer' \in [Conn -> Peer]
    BY <1>9 DEF writeFailed, TypeOK, Peer
  <2> QED
    BY <1>9, <2>1, <2>2, FinishType DEF writeFailed, ghostVars, TypeOK
<1>10. ASSUME NEW c \in Conn, readEnds(c) PROVE TypeOK'
  BY <1>10, FinishType DEF readEnds, ghostVars, TypeOK, Knowledge
<1>11. ASSUME NEW c \in Conn, peerCloses(c) \/ peerStalls(c) PROVE TypeOK'
  BY <1>11 DEF peerCloses, peerStalls, ghostVars, TypeOK, Peer
<1>12. CASE UNCHANGED vars
  BY <1>12 DEF vars, ghostVars, TypeOK
<1> QED
  BY <1>1, <1>2, <1>3, <1>4, <1>5, <1>6, <1>7, <1>8, <1>9, <1>10, <1>11, <1>12
  DEF Next, readFailed, readMarked

\* The fields keep their types.
THEOREM TypeCorrect == Spec => []TypeOK
<1>1. TypeOK /\ [Next]_vars => TypeOK'
  BY TypeNext
<1> QED
  BY TypeInit, <1>1, PTL DEF Spec
------------------------------------------------------------------------------
\* The connection c is as it was.
Untouched(c) ==
  /\ fd'[c] = fd[c] /\ known'[c] = known[c] /\ peer'[c] = peer[c]
  /\ marker'[c] = marker[c] /\ posted'[c] = posted[c]
  /\ append'[c] = append[c] /\ active'[c] = active[c] /\ wire'[c] = wire[c]
  /\ accepted'[c] = accepted[c] /\ promised'[c] = promised[c]

\* Queues nobody touched hold what they held.
LEMMA QueuesUntouched ==
  ASSUME NEW c \in Conn, InOrder(c), Waiting(c), Behind(c),
         marker'[c] = marker[c], posted'[c] = posted[c], append'[c] = append[c],
         active'[c] = active[c], wire'[c] = wire[c],
         accepted'[c] = accepted[c], promised'[c] = promised[c]
  PROVE  InOrder(c)' /\ Waiting(c)' /\ Behind(c)'
<1>1. /\ OnWire(c)' = OnWire(c) /\ InFlight(c)' = InFlight(c) /\ Queued(c)' = Queued(c)
      /\ Ops(c)' = Ops(c) /\ \A i : Sent(c, i)' <=> Sent(c, i)
  BY DEF OnWire, InFlight, Queued, Ops, Sent
<1>2. Taken(c)' = Taken(c)
  BY <1>1 DEF Taken
<1>3. InOrder(c)'
  BY <1>1 DEF InOrder
<1>4. Waiting(c)'
  BY <1>1, <1>2 DEF Waiting
<1>5. Behind(c)'
  BY <1>1, <1>2 DEF Behind
<1> QED
  BY <1>3, <1>4, <1>5

\* What does not touch a connection keeps what holds of it.
LEMMA UntouchedOK ==
  ASSUME NEW c \in Conn, ConnOK(c), Untouched(c)
  PROVE  ConnOK(c)'
<1> USE DEF Untouched
<1>1. Ops(c)' = Ops(c) /\ (Gone(c)' <=> Gone(c)) /\ (Open(c)' <=> Open(c))
  BY DEF Ops, Gone, Open
<1>2. Fresh(c)' /\ Asked(c)' /\ Told(c)'
  BY <1>1 DEF ConnOK, Fresh, Asked, Told
<1>3. Graceful(c)'
  <2>1. Graceful(c) /\ wire'[c] = wire[c]
    BY DEF ConnOK
  <2> QED
    BY <1>1, <2>1 DEF Graceful, OnWire
<1>4. Flow(c)'
  BY <1>1, QueuesUntouched DEF ConnOK, Flow, Idle
<1> QED
  BY <1>2, <1>3, <1>4 DEF ConnOK

\* The end of a handler of c keeps the descriptors of the others, and that of
\* c when it does not close it.
LEMMA FinishFd ==
  ASSUME TypeOK, NEW c \in Conn, NEW closes, Finish(c, closes)
  PROVE  /\ \A d \in Conn \ {c} : fd'[d] = fd[d]
         /\ fd'[c] \in {fd[c], NoFd}
         /\ fd'[c] # fd[c] => closes \/ ~Held(c)'
BY DEF Finish, close, TypeOK

\* What is known of the sequences of a connection.
LEMMA Lengths ==
  ASSUME TypeOK, NEW c \in Conn
  PROVE  /\ OnWire(c) \in Nat /\ InFlight(c) \in Nat /\ Queued(c) \in Nat
         /\ Len(posted[c]) \in Nat
         /\ Taken(c) \in Nat
         /\ accepted[c] \in Nat /\ promised[c] \in Nat
         /\ accepted[c] <= MaxPacket
         /\ \A i \in Ops(c) : posted[c][i] \in Nat /\ posted[c][i] <= MaxPacket
         /\ \A i \in Ops(c) : posted[c][i] # disconnectOp => posted[c][i] \in Packet
<1>1. OnWire(c) \in Nat /\ InFlight(c) \in Nat /\ Queued(c) \in Nat
  BY DEF TypeOK, OnWire, InFlight, Queued
<1>2. Taken(c) \in Nat
  BY <1>1 DEF Taken
<1>3. /\ Len(posted[c]) \in Nat
      /\ \A i \in Ops(c) : posted[c][i] \in Packet \cup {disconnectOp}
  BY DEF TypeOK, Ops
<1>4. /\ accepted[c] \in Nat /\ promised[c] \in Nat /\ accepted[c] <= MaxPacket
      /\ \A p \in Packet \cup {disconnectOp} : p \in Nat /\ p <= MaxPacket
  BY QueueAssumption DEF TypeOK, Packet, disconnectOp
<1> QED
  BY <1>1, <1>2, <1>3, <1>4

\* The connection objects at the start.
LEMMA ConnInit == Init => ConnInv
<1> SUFFICES ASSUME Init, NEW c \in Conn PROVE ConnOK(c)
  BY DEF ConnInv
<1>1. /\ known[c] = "none" /\ fd[c] = NoFd /\ peer[c] = "up" /\ ~marker[c]
      /\ posted[c] = <<>> /\ append[c] = <<>> /\ active[c] = <<>>
      /\ wire[c] = <<>> /\ accepted[c] = 0 /\ promised[c] = NotAsked
  BY DEF Init
<1>2. Ops(c) = {}
  BY <1>1 DEF Ops
<1> QED
  BY <1>1, <1>2 DEF ConnOK, Fresh, Asked, Told, Flow, Open, Graceful

\* The accept.
LEMMA AcceptKeeps ==
  ASSUME TypeOK, ConnInv, NEW c \in Conn,
         startAccept(c) \/ acceptDropped(c) \/ acceptFailed(c)
  PROVE  ConnInv'
<1> SUFFICES ASSUME NEW d \in Conn PROVE ConnOK(d)'
  BY DEF ConnInv
<1>1. ConnOK(d) /\ ConnOK(c)
  BY DEF ConnInv
<1>2. CASE acceptDropped(c) \/ acceptFailed(c)
  <2>1. /\ fd'[d] = fd[d] /\ peer'[d] = peer[d]
        /\ marker'[d] = marker[d] /\ posted'[d] = posted[d]
        /\ append'[d] = append[d] /\ active'[d] = active[d] /\ wire'[d] = wire[d]
        /\ accepted'[d] = accepted[d] /\ promised'[d] = promised[d]
    BY <1>2 DEF acceptDropped, acceptFailed, ghostVars
  <2>2. CASE known'[d] = known[d]
    BY <1>1, <2>1, <2>2, UntouchedOK DEF Untouched
  <2>3. CASE known[d] = "none" /\ known'[d] = "dropped"
    <3>1. fd[d] = NoFd /\ ~marker[d] /\ posted[d] = <<>> /\ promised[d] = NotAsked
      BY <1>1, <2>3 DEF ConnOK, Fresh
    <3>2. Ops(d)' = {}
      BY <2>1, <3>1 DEF Ops
    <3> QED
      BY <2>1, <2>3, <3>1, <3>2 DEF ConnOK, Fresh, Asked, Told, Flow, Open, Graceful
  <2> QED
    BY <1>2, <2>2, <2>3 DEF acceptDropped, acceptFailed, TypeOK
<1>3. CASE startAccept(c) /\ d # c
  <2>1. Untouched(d)
    BY <1>3 DEF startAccept, ghostVars, TypeOK, Untouched
  <2> QED
    BY <1>1, <2>1, UntouchedOK
<1>4. CASE startAccept(c) /\ d = c
  <2>1. /\ known'[c] = "connected" /\ fd'[c] \in Descriptor
        /\ peer'[c] = "up" /\ ~marker'[c] /\ posted'[c] = <<>>
        /\ append'[c] = <<>> /\ active'[c] = <<>> /\ wire'[c] = <<>>
        /\ accepted'[c] = 0 /\ promised'[c] = NotAsked
    BY <1>1, <1>4 DEF startAccept, FreeDescriptor, ghostVars, TypeOK, ConnOK, Fresh
  <2>2. Ops(c)' = {} /\ OnWire(c)' = 0 /\ InFlight(c)' = 0 /\ Queued(c)' = 0
    BY <2>1 DEF Ops, OnWire, InFlight, Queued
  <2>3. Fresh(c)' /\ Asked(c)' /\ Told(c)' /\ Graceful(c)'
    BY <2>1, <2>2, DescriptorAssumption DEF Fresh, Asked, Told, Graceful
  <2>4. InOrder(c)' /\ Waiting(c)' /\ Behind(c)'
    BY <2>1, <2>2 DEF InOrder, Waiting, Behind, Taken, Packet
  <2> QED
    BY <1>4, <2>1, <2>3, <2>4 DEF ConnOK, Flow
<1> QED
  BY <1>2, <1>3, <1>4

\* send(): the packet is the next one, behind all that is posted.
LEMMA SendKeeps ==
  ASSUME TypeOK, ConnInv, NEW c \in Conn, send(c)
  PROVE  ConnInv'
<1> SUFFICES ASSUME NEW d \in Conn PROVE ConnOK(d)'
  BY DEF ConnInv
<1>1. ConnOK(d) /\ ConnOK(c)
  BY DEF ConnInv
<1>2. CASE d # c
  <2>1. Untouched(d)
    BY <1>2 DEF send, ghostVars, TypeOK, Untouched
  <2> QED
    BY <1>1, <2>1, UntouchedOK
<1>3. CASE d = c
  <2>0. /\ Len(posted[c]) \in Nat /\ Taken(c) \in Nat
        /\ accepted[c] \in Nat /\ promised[c] \in Nat
        /\ accepted[c] <= MaxPacket /\ MaxPacket \in Nat
        /\ \A i \in Ops(c) : posted[c][i] \in Nat
    BY Lengths, QueueAssumption
  <2>1. /\ fd'[c] = fd[c] /\ known'[c] = known[c] /\ peer'[c] = peer[c]
        /\ marker'[c] = marker[c] /\ append'[c] = append[c]
        /\ active'[c] = active[c] /\ wire'[c] = wire[c]
        /\ promised'[c] = promised[c]
        /\ accepted'[c] = accepted[c] + 1
        /\ posted'[c] = Append(posted[c], accepted[c] + 1)
        /\ known[c] = "connected" /\ ~marker[c] /\ accepted[c] < MaxPacket
    BY DEF send, TypeOK
  <2>2. /\ Len(posted'[c]) = Len(posted[c]) + 1
        /\ \A i \in Ops(c) : posted'[c][i] = posted[c][i]
        /\ posted'[c][Len(posted[c]) + 1] = accepted[c] + 1
    BY <2>1, Lengths DEF TypeOK, Ops
  <2>3. /\ Ops(c)' = Ops(c) \cup {Len(posted[c]) + 1}
        /\ \A i \in Ops(c) : i < Len(posted[c]) + 1
        /\ Taken(c)' = Taken(c)
    BY <2>1, <2>2, Lengths DEF Ops, Taken, OnWire, InFlight, Queued
  <2>4. Fresh(c)' /\ Told(c)' /\ Graceful(c)'
    BY <1>1, <2>1 DEF ConnOK, Fresh, Told, Graceful, Gone, OnWire
  <2>5. Asked(c)'
    <3>1. marker'[c] => promised'[c] # NotAsked
      BY <1>1, <2>1 DEF ConnOK, Asked
    <3>2. accepted[c] + 1 # disconnectOp
      BY <2>0 DEF disconnectOp
    <3>3. \A i \in Ops(c)' : posted'[c][i] = disconnectOp => promised'[c] # NotAsked
      BY <1>1, <2>1, <2>2, <2>3, <3>2 DEF ConnOK, Asked
    <3>4. promised'[c] # NotAsked => promised'[c] <= accepted'[c]
      BY <1>1, <2>0, <2>1 DEF ConnOK, Asked
    <3> QED
      BY <3>1, <3>3, <3>4 DEF Asked
  <2>6. ASSUME Open(c) PROVE InOrder(c)' /\ (Idle(c)' => append'[c] = <<>>)
    BY <1>1, <2>1, <2>6 DEF ConnOK, Flow, InOrder, Idle, OnWire, InFlight, Queued
  <2>7. ASSUME Open(c) PROVE Waiting(c)'
    <3> USE DEF disconnectOp
    <3>1. Waiting(c)
      BY <1>1, <2>7 DEF ConnOK, Flow
    <3>2. Taken(c)' <= accepted'[c]
      BY <2>1, <2>3, <3>1, Lengths DEF Waiting
    <3>3. \A i \in Ops(c)' : Sent(c, i)' => Taken(c)' < posted'[c][i] /\ posted'[c][i] <= accepted'[c]
      <4>1. \A i \in Ops(c) : Sent(c, i)' => Sent(c, i)
        BY <2>2 DEF Sent
      <4>2. \A i \in Ops(c) : Sent(c, i)' => Taken(c) < posted[c][i] /\ posted[c][i] <= accepted[c]
        BY <3>1, <4>1 DEF Waiting
      <4>3. Taken(c) < accepted[c] + 1
        BY <2>0, <3>1 DEF Waiting
      <4> QED
        <5> SUFFICES ASSUME NEW i \in Ops(c)', Sent(c, i)'
                     PROVE  Taken(c) < posted'[c][i] /\ posted'[c][i] <= accepted[c] + 1
          BY <2>1, <2>3
        <5>1. CASE i \in Ops(c)
          BY <2>0, <2>2, <4>2, <5>1
        <5>2. CASE i = Len(posted[c]) + 1
          BY <2>0, <2>2, <4>3, <5>2
        <5> QED
          BY <2>3, <5>1, <5>2
    <3>4. \A p \in Packet : Taken(c)' < p /\ p <= accepted'[c] => \E i \in Ops(c)' : posted'[c][i] = p
      <4> SUFFICES ASSUME NEW p \in Packet, Taken(c) < p, p <= accepted[c] + 1
                   PROVE  \E i \in Ops(c)' : posted'[c][i] = p
        BY <2>1, <2>3
      <4>1. CASE p = accepted[c] + 1
        BY <2>2, <2>3, <4>1
      <4>2. CASE p <= accepted[c]
        BY <2>2, <2>3, <3>1, <4>2 DEF Waiting
      <4> QED
        BY <2>0, <4>1, <4>2 DEF Packet
    <3>5. \A i, j \in Ops(c)' : i < j /\ Sent(c, i)' /\ Sent(c, j)' => posted'[c][i] < posted'[c][j]
      <4> SUFFICES ASSUME NEW i \in Ops(c)', NEW j \in Ops(c)', i < j, Sent(c, i)', Sent(c, j)'
                   PROVE  posted'[c][i] < posted'[c][j]
        OBVIOUS
      <4>1. i \in Ops(c)
        BY <2>0, <2>2 DEF Ops
      <4>2. CASE j \in Ops(c)
        BY <2>2, <3>1, <4>1, <4>2 DEF Waiting, Sent
      <4>3. CASE j = Len(posted[c]) + 1
        BY <2>0, <2>2, <3>1, <4>1, <4>3 DEF Waiting, Sent
      <4> QED
        BY <2>3, <4>2, <4>3
    <3> QED
      BY <3>2, <3>3, <3>4, <3>5 DEF Waiting
  <2>8. ASSUME Open(c) PROVE Behind(c)'
    <3> SUFFICES ASSUME NEW i \in Ops(c)', NEW j \in Ops(c)', i < j,
                        posted'[c][i] = disconnectOp, Sent(c, j)'
                 PROVE  promised[c] < posted'[c][j]
      BY <2>1 DEF Behind
    <3>1. i \in Ops(c)
      BY <2>0, <2>2 DEF Ops
    <3>2. CASE j \in Ops(c)
      BY <1>1, <2>2, <2>8, <3>1, <3>2 DEF ConnOK, Flow, Behind, Sent
    <3>3. CASE j = Len(posted[c]) + 1
      <4>1. promised[c] <= accepted[c]
        BY <1>1, <2>2, <3>1 DEF ConnOK, Asked
      <4> QED
        BY <2>0, <2>2, <3>3, <4>1
    <3> QED
      BY <2>3, <3>2, <3>3
  <2> QED
    BY <1>3, <2>1, <2>4, <2>5, <2>6, <2>7, <2>8 DEF ConnOK, Flow, Open
<1> QED
  BY <1>2, <1>3

\* disconnect(): behind all that was sent.
LEMMA DisconnectKeeps ==
  ASSUME TypeOK, ConnInv, NEW c \in Conn, disconnect(c)
  PROVE  ConnInv'
<1> SUFFICES ASSUME NEW d \in Conn PROVE ConnOK(d)'
  BY DEF ConnInv
<1>1. ConnOK(d) /\ ConnOK(c)
  BY DEF ConnInv
<1>2. CASE d # c
  <2>1. Untouched(d)
    BY <1>2 DEF disconnect, TypeOK, Untouched
  <2> QED
    BY <1>1, <2>1, UntouchedOK
<1>3. CASE d = c
  <2>0. /\ Len(posted[c]) \in Nat /\ Taken(c) \in Nat
        /\ accepted[c] \in Nat /\ promised[c] \in Nat
        /\ accepted[c] <= MaxPacket /\ MaxPacket \in Nat
        /\ \A i \in Ops(c) : posted[c][i] \in Nat
    BY Lengths, QueueAssumption
  <2>1. /\ fd'[c] = fd[c] /\ known'[c] = known[c] /\ peer'[c] = peer[c]
        /\ marker'[c] = marker[c] /\ append'[c] = append[c]
        /\ active'[c] = active[c] /\ wire'[c] = wire[c]
        /\ accepted'[c] = accepted[c]
        /\ promised'[c] = IF promised[c] = NotAsked THEN accepted[c] ELSE promised[c]
        /\ posted'[c] = Append(posted[c], disconnectOp)
        /\ known[c] = "connected"
    BY DEF disconnect, TypeOK
  <2>2. /\ Len(posted'[c]) = Len(posted[c]) + 1
        /\ \A i \in Ops(c) : posted'[c][i] = posted[c][i]
        /\ posted'[c][Len(posted[c]) + 1] = disconnectOp
    BY <2>1, Lengths DEF TypeOK, Ops
  <2>3. /\ Ops(c)' = Ops(c) \cup {Len(posted[c]) + 1}
        /\ \A i \in Ops(c) : i < Len(posted[c]) + 1
        /\ Taken(c)' = Taken(c)
    BY <2>1, <2>2, Lengths DEF Ops, Taken, OnWire, InFlight, Queued
  <2>4. promised'[c] # NotAsked /\ promised'[c] <= accepted[c]
    BY <1>1, <2>0, <2>1 DEF ConnOK, Asked, NotAsked
  <2>5. \/ promised'[c] = promised[c]
        \/ ~marker[c] /\ \A i \in Ops(c) : posted[c][i] # disconnectOp
    BY <1>1, <2>1 DEF ConnOK, Asked
  <2>6. Fresh(c)' /\ Told(c)' /\ Asked(c)'
    BY <1>1, <2>1, <2>4 DEF ConnOK, Fresh, Told, Asked
  <2>7. Graceful(c)'
    BY <1>1, <2>1 DEF ConnOK, Graceful, Gone, OnWire
  <2>8. ASSUME Open(c) PROVE InOrder(c)' /\ (Idle(c)' => append'[c] = <<>>)
    BY <1>1, <2>1, <2>8 DEF ConnOK, Flow, InOrder, Idle, OnWire, InFlight, Queued
  <2>9. ASSUME Open(c) PROVE Waiting(c)'
    <3>1. Waiting(c)
      BY <1>1, <2>9 DEF ConnOK, Flow
    <3>2. \A i \in Ops(c)' : Sent(c, i)' => i \in Ops(c) /\ Sent(c, i) /\ posted'[c][i] = posted[c][i]
      BY <2>2, <2>3 DEF Sent
    <3>3. \A p \in Packet : Taken(c) < p /\ p <= accepted[c] => \E i \in Ops(c)' : posted'[c][i] = p
      BY <2>2, <2>3, <3>1 DEF Waiting
    <3> QED
      BY <2>1, <2>3, <3>1, <3>2, <3>3 DEF Waiting
  <2>10. ASSUME Open(c) PROVE Behind(c)'
    <3>1. Behind(c)
      BY <1>1, <2>10 DEF ConnOK, Flow
    <3>2. marker'[c] => promised'[c] <= Taken(c)'
      BY <2>1, <2>3, <2>5, <3>1 DEF Behind
    <3> SUFFICES ASSUME NEW i \in Ops(c)', NEW j \in Ops(c)', i < j,
                        posted'[c][i] = disconnectOp, Sent(c, j)'
                 PROVE  promised'[c] < posted'[c][j]
      BY <3>2 DEF Behind
    <3>3. i \in Ops(c) /\ j \in Ops(c)
      <4>1. j # Len(posted[c]) + 1
        BY <2>2 DEF Sent
      <4> QED
        BY <2>0, <2>2, <2>3, <4>1 DEF Ops
    <3> QED
      BY <2>2, <2>5, <3>1, <3>3 DEF Behind, Sent
  <2> QED
    BY <1>3, <2>1, <2>6, <2>7, <2>8, <2>9, <2>10 DEF ConnOK, Flow, Open
<1> QED
  BY <1>2, <1>3

\* The oldest posted operation is taken: what is left moves up by one.
LEMMA Popped ==
  ASSUME TypeOK, NEW c \in Conn, posted[c] # <<>>, posted'[c] = Tail(posted[c])
  PROVE  /\ 1 \in Ops(c) /\ Head(posted[c]) = posted[c][1]
         /\ \A i \in Ops(c)' :
              i + 1 \in Ops(c) /\ 1 < i + 1 /\ posted'[c][i] = posted[c][i + 1]
         /\ \A j \in Ops(c) :
              j # 1 => 1 < j /\ j - 1 \in Ops(c)' /\ posted'[c][j - 1] = posted[c][j]
<1>1. posted[c] \in Seq(Packet \cup {disconnectOp})
  BY DEF TypeOK
<1>2. Len(posted[c]) \in Nat /\ Len(posted[c]) > 0 /\ Len(posted'[c]) = Len(posted[c]) - 1
  BY <1>1
<1>3. \A i \in 1 .. Len(posted[c]) - 1 : Tail(posted[c])[i] = posted[c][i + 1]
  BY <1>1
<1>4. Head(posted[c]) = posted[c][1]
  BY <1>1
<1> QED
  BY <1>2, <1>3, <1>4 DEF Ops

\* What is left when the oldest posted operation was taken keeps its order.
LEMMA PoppedOrder ==
  ASSUME TypeOK, NEW c \in Conn, posted[c] # <<>>, posted'[c] = Tail(posted[c]),
         promised'[c] = promised[c], Waiting(c), Behind(c)
  PROVE  /\ \A i \in Ops(c)' : Sent(c, i)' => Sent(c, i + 1)
         /\ \A i, j \in Ops(c)' :
              i < j /\ Sent(c, i)' /\ Sent(c, j)' => posted'[c][i] < posted'[c][j]
         /\ \A i, j \in Ops(c)' :
              i < j /\ posted'[c][i] = disconnectOp /\ Sent(c, j)'
                => promised'[c] < posted'[c][j]
<1>1. \A i \in Ops(c)' :
        i + 1 \in Ops(c) /\ posted'[c][i] = posted[c][i + 1]
  BY Popped
<1>2. \A i \in Ops(c)' : Sent(c, i)' => Sent(c, i + 1)
  BY <1>1 DEF Sent
<1>3. \A i, j \in Ops(c)' : i < j => i + 1 < j + 1
  BY DEF Ops
<1>4. ASSUME NEW i \in Ops(c)', NEW j \in Ops(c)', i < j, Sent(c, i)', Sent(c, j)'
      PROVE  posted'[c][i] < posted'[c][j]
  BY <1>1, <1>2, <1>3, <1>4 DEF Waiting
<1>5. ASSUME NEW i \in Ops(c)', NEW j \in Ops(c)', i < j,
             posted'[c][i] = disconnectOp, Sent(c, j)'
      PROVE  promised'[c] < posted'[c][j]
  BY <1>1, <1>2, <1>3, <1>5 DEF Behind
<1> QED
  BY <1>2, <1>4, <1>5

\* A queue of consecutive packets is extended by the next one.
LEMMA NumberedAppend ==
  ASSUME NEW q \in Seq(Packet), NEW h \in Packet, NEW n \in Nat,
         \A i \in 1 .. Len(q) : q[i] = n + i,
         h = n + Len(q) + 1
  PROVE  \A i \in 1 .. Len(Append(q, h)) : Append(q, h)[i] = n + i
<1>1. /\ Len(q) \in Nat
      /\ Len(Append(q, h)) = Len(q) + 1
      /\ \A i \in 1 .. Len(q) : Append(q, h)[i] = q[i]
      /\ Append(q, h)[Len(q) + 1] = h
  OBVIOUS
<1>2. ASSUME NEW i \in 1 .. Len(q) + 1 PROVE Append(q, h)[i] = n + i
  <2>1. CASE i \in 1 .. Len(q)
    BY <1>1, <2>1
  <2>2. CASE i = Len(q) + 1
    BY <1>1, <2>2
  <2> QED
    BY <1>1, <2>1, <2>2
<1> QED
  BY <1>1, <1>2

\* The packets from the first one on, in two queues one after the other.
LEMMA NumberedConcat ==
  ASSUME NEW q \in Seq(Packet), NEW r \in Seq(Packet),
         \A i \in 1 .. Len(q) : q[i] = i,
         \A i \in 1 .. Len(r) : r[i] = Len(q) + i
  PROVE  /\ Len(q \o r) = Len(q) + Len(r)
         /\ \A i \in 1 .. Len(q \o r) : (q \o r)[i] = i
<1>1. /\ Len(q) \in Nat /\ Len(r) \in Nat
      /\ Len(q \o r) = Len(q) + Len(r)
      /\ \A i \in 1 .. Len(q) + Len(r) :
           (q \o r)[i] = IF i <= Len(q) THEN q[i] ELSE r[i - Len(q)]
  OBVIOUS
<1>2. ASSUME NEW i \in 1 .. Len(q) + Len(r) PROVE (q \o r)[i] = i
  <2>1. CASE i <= Len(q)
    BY <1>1, <2>1
  <2>2. CASE ~(i <= Len(q))
    <3>1. i - Len(q) \in 1 .. Len(r) /\ Len(q) + (i - Len(q)) = i
      BY <1>1, <2>2
    <3> QED
      BY <1>1, <2>2, <3>1
  <2> QED
    BY <2>1, <2>2
<1> QED
  BY <1>1, <1>2

\* A posted packet is queued: it is the next one.
LEMMA SendImplKeeps ==
  ASSUME TypeOK, ConnInv, NEW c \in Conn, sendImpl(c)
  PROVE  ConnInv'
<1> SUFFICES ASSUME NEW d \in Conn PROVE ConnOK(d)'
  BY DEF ConnInv
<1>1. ConnOK(d) /\ ConnOK(c)
  BY DEF ConnInv
<1>2. CASE d # c
  <2>1. Untouched(d)
    BY <1>2 DEF sendImpl, startWrite, ghostVars, TypeOK, Untouched
  <2> QED
    BY <1>1, <2>1, UntouchedOK
<1>3. CASE d = c
  <2>h. PICK h : h = posted[c][1]
    OBVIOUS
  <2>q. PICK queue : queue = Append(append[c], h)
    OBVIOUS
  <2>0. /\ OnWire(c) \in Nat /\ InFlight(c) \in Nat /\ Queued(c) \in Nat
        /\ Taken(c) \in Nat /\ accepted[c] \in Nat /\ promised[c] \in Nat
        /\ accepted[c] <= MaxPacket /\ MaxPacket \in Nat
        /\ \A i \in Ops(c) : posted[c][i] \in Nat
    BY Lengths, QueueAssumption
  <2>1. posted[c] # <<>> /\ posted'[c] = Tail(posted[c])
    BY DEF sendImpl, IsSend, TypeOK
  <2>2. /\ 1 \in Ops(c) /\ posted[c][1] = h /\ Head(posted[c]) = h
        /\ \A i \in Ops(c)' :
             i + 1 \in Ops(c) /\ 1 < i + 1 /\ posted'[c][i] = posted[c][i + 1]
        /\ \A j \in Ops(c) :
             j # 1 => 1 < j /\ j - 1 \in Ops(c)' /\ posted'[c][j - 1] = posted[c][j]
    BY <2>1, <2>h, Popped
  <2>3. h # disconnectOp /\ h \in Packet /\ Sent(c, 1)
    BY <2>2, Lengths DEF sendImpl, IsSend, Sent
  <2>4. /\ fd'[c] = fd[c] /\ known'[c] = known[c] /\ peer'[c] = peer[c]
        /\ marker'[c] = marker[c] /\ wire'[c] = wire[c]
        /\ accepted'[c] = accepted[c] /\ promised'[c] = promised[c]
    BY DEF sendImpl, ghostVars
  <2>5. \/ active[c] = <<>> /\ active'[c] = queue /\ append'[c] = <<>>
        \/ active[c] # <<>> /\ active'[c] = active[c] /\ append'[c] = queue
    <3>1. CASE Idle(c)
      <4>1. startWrite(c, queue)
        BY <2>2, <2>q, <3>1 DEF sendImpl
      <4> QED
        BY <3>1, <4>1 DEF startWrite, Idle, TypeOK
    <3>2. CASE ~Idle(c)
      BY <2>2, <2>q, <3>2 DEF sendImpl, Idle, TypeOK
    <3> QED
      BY <3>1, <3>2
  <2>6. /\ Len(queue) = Queued(c) + 1
        /\ \A i \in 1 .. Queued(c) : queue[i] = append[c][i]
        /\ queue[Queued(c) + 1] = h
    BY <2>3, <2>q DEF TypeOK, Queued
  <2>10. OnWire(c)' = OnWire(c)
    BY <2>4 DEF OnWire
  <2>7. Taken(c)' = Taken(c) + 1
    <3>1. CASE active[c] = <<>> /\ active'[c] = queue /\ append'[c] = <<>>
      <4>1. InFlight(c) = 0 /\ InFlight(c)' = Queued(c) + 1 /\ Queued(c)' = 0
        BY <2>6, <3>1 DEF InFlight, Queued
      <4> QED
        BY <2>0, <2>10, <4>1 DEF Taken
    <3>2. CASE active'[c] = active[c] /\ append'[c] = queue
      <4>1. InFlight(c)' = InFlight(c) /\ Queued(c)' = Queued(c) + 1
        BY <2>6, <3>2 DEF InFlight, Queued
      <4> QED
        BY <2>0, <2>10, <4>1 DEF Taken
    <3> QED
      BY <2>5, <3>1, <3>2
  <2>8. Fresh(c)' /\ Told(c)' /\ Graceful(c)'
    BY <1>1, <2>1, <2>4 DEF ConnOK, Fresh, Told, Graceful, Gone, OnWire
  <2>9. Asked(c)'
    BY <1>1, <2>2, <2>4 DEF ConnOK, Asked
  <2>11. ASSUME Open(c) PROVE InOrder(c)' /\ Waiting(c)' /\ Behind(c)' /\ (Idle(c)' => append'[c] = <<>>)
    <3>1. InOrder(c) /\ Waiting(c) /\ Behind(c) /\ (Idle(c) => append[c] = <<>>)
      BY <1>1, <2>11 DEF ConnOK, Flow
    <3>2. /\ \A i \in Ops(c)' : Sent(c, i)' => Sent(c, i + 1)
          /\ \A i, j \in Ops(c)' :
               i < j /\ Sent(c, i)' /\ Sent(c, j)' => posted'[c][i] < posted'[c][j]
          /\ \A i, j \in Ops(c)' :
               i < j /\ posted'[c][i] = disconnectOp /\ Sent(c, j)'
                 => promised'[c] < posted'[c][j]
      BY <2>1, <2>4, <3>1, PoppedOrder
    <3>3. Taken(c) < h /\ h <= accepted[c] /\ h \in Nat
      BY <2>0, <2>2, <2>3, <3>1 DEF Waiting
    <3>4. h = Taken(c) + 1
      <4>1. PICK i \in Ops(c) : posted[c][i] = Taken(c) + 1
        <5>1. Taken(c) + 1 \in Packet /\ Taken(c) < Taken(c) + 1 /\ Taken(c) + 1 <= accepted[c]
          BY <2>0, <3>3 DEF Packet
        <5> QED
          BY <3>1, <5>1 DEF Waiting
      <4>2. i # 1 => 1 < i /\ Sent(c, i)
        BY <2>0, <2>2, <4>1 DEF Sent, disconnectOp
      <4>3. CASE i = 1
        BY <2>2, <4>1, <4>3
      <4>4. CASE i # 1
        <5>1. h < Taken(c) + 1
          BY <2>2, <2>3, <3>1, <4>1, <4>2, <4>4 DEF Waiting
        <5> QED
          BY <2>0, <3>3, <5>1
      <4> QED
        BY <4>3, <4>4
    <3>5. \A i \in 1 .. Len(queue) : queue[i] = OnWire(c) + InFlight(c) + i
      <4>1. OnWire(c) + InFlight(c) \in Nat
        BY <2>0
      <4>2. h = (OnWire(c) + InFlight(c)) + Queued(c) + 1
        BY <3>4 DEF Taken
      <4>3. \A i \in 1 .. Queued(c) : append[c][i] = (OnWire(c) + InFlight(c)) + i
        BY <3>1 DEF InOrder
      <4>4. append[c] \in Seq(Packet)
        BY DEF TypeOK
      <4> QED
        BY <2>3, <2>q, <4>1, <4>2, <4>3, <4>4, NumberedAppend DEF Queued
    <3>6. InOrder(c)'
      <4>1. CASE active[c] = <<>> /\ active'[c] = queue /\ append'[c] = <<>>
        <5>1. \A i \in 1 .. InFlight(c)' : active'[c][i] = OnWire(c) + i
          <6>1. InFlight(c) = 0 /\ InFlight(c)' = Len(queue)
            BY <4>1 DEF InFlight
          <6>2. \A i \in 1 .. Len(queue) : OnWire(c) + 0 + i = OnWire(c) + i
            BY <2>0
          <6> QED
            BY <3>5, <4>1, <6>1, <6>2
        <5>2. 1 .. Queued(c)' = {}
          BY <4>1 DEF Queued
        <5>3. \A i \in 1 .. OnWire(c) : wire[c][i] = i
          BY <3>1 DEF InOrder
        <5> QED
          BY <2>4, <2>10, <5>1, <5>2, <5>3 DEF InOrder
      <4>2. CASE active'[c] = active[c] /\ append'[c] = queue
        <5>1. \A i \in 1 .. Queued(c)' : append'[c][i] = OnWire(c) + InFlight(c) + i
          BY <3>5, <4>2 DEF Queued
        <5>2. /\ \A i \in 1 .. OnWire(c) : wire[c][i] = i
              /\ \A i \in 1 .. InFlight(c) : active[c][i] = OnWire(c) + i
          BY <3>1 DEF InOrder
        <5> QED
          BY <2>4, <2>10, <4>2, <5>1, <5>2 DEF InOrder, InFlight
      <4> QED
        BY <2>5, <4>1, <4>2
    <3>7. Waiting(c)'
      <4>1. ASSUME NEW i \in Ops(c)', Sent(c, i)'
            PROVE  Taken(c)' < posted'[c][i] /\ posted'[c][i] <= accepted'[c]
        <5>1. i + 1 \in Ops(c) /\ 1 < i + 1 /\ posted'[c][i] = posted[c][i + 1] /\ Sent(c, i + 1)
          BY <2>2, <3>2, <4>1
        <5>2. h < posted[c][i + 1] /\ posted[c][i + 1] <= accepted[c]
          BY <2>2, <2>3, <3>1, <5>1 DEF Waiting
        <5> QED
          BY <2>4, <2>7, <3>4, <5>1, <5>2
      <4>2. ASSUME NEW p \in Packet, Taken(c)' < p, p <= accepted'[c]
            PROVE  \E i \in Ops(c)' : posted'[c][i] = p
        <5>1. Taken(c) < p /\ p # h /\ p <= accepted[c]
          BY <2>0, <2>4, <2>7, <3>4, <4>2 DEF Packet
        <5>2. PICK j \in Ops(c) : posted[c][j] = p
          BY <3>1, <5>1 DEF Waiting
        <5> QED
          BY <2>2, <5>1, <5>2 
      <4>3. Taken(c)' <= accepted'[c]
        BY <2>4, <2>7, <3>3, <3>4
      <4> QED
        BY <3>2, <4>1, <4>2, <4>3 DEF Waiting
    <3>8. Behind(c)'
      BY <2>0, <2>4, <2>7, <3>1, <3>2 DEF Behind
    <3>9. Idle(c)' => append'[c] = <<>>
      BY <2>5 DEF Idle
    <3> QED
      BY <3>6, <3>7, <3>8, <3>9
  <2> QED
    BY <1>3, <2>4, <2>8, <2>9, <2>11 DEF ConnOK, Flow, Open
<1> QED
  BY <1>2, <1>3

\* The disconnect is reached: all that it promised has been taken.
LEMMA DisconnectImplKeeps ==
  ASSUME TypeOK, ConnInv, NEW c \in Conn, disconnectImpl(c)
  PROVE  ConnInv'
<1> SUFFICES ASSUME NEW d \in Conn PROVE ConnOK(d)'
  BY DEF ConnInv
<1>1. ConnOK(d) /\ ConnOK(c)
  BY DEF ConnInv
<1>2. CASE d # c
  <2>1. Untouched(d)
    BY <1>2, FinishFd DEF disconnectImpl, ghostVars, TypeOK, Untouched
  <2> QED
    BY <1>1, <2>1, UntouchedOK
<1>3. CASE d = c
  <2>0. /\ OnWire(c) \in Nat /\ Taken(c) \in Nat
        /\ accepted[c] \in Nat /\ promised[c] \in Nat
        /\ accepted[c] <= MaxPacket /\ MaxPacket \in Nat
    BY Lengths, QueueAssumption
  <2>1. posted[c] # <<>> /\ posted'[c] = Tail(posted[c])
    BY DEF disconnectImpl, TypeOK
  <2>2. /\ 1 \in Ops(c) /\ posted[c][1] = disconnectOp
        /\ \A i \in Ops(c)' :
             i + 1 \in Ops(c) /\ 1 < i + 1 /\ posted'[c][i] = posted[c][i + 1]
        /\ \A j \in Ops(c) :
             j # 1 => 1 < j /\ j - 1 \in Ops(c)' /\ posted'[c][j - 1] = posted[c][j]
    BY <2>1, Popped DEF disconnectImpl
  <2>3. /\ known'[c] = known[c] /\ peer'[c] = peer[c] /\ marker'[c]
        /\ append'[c] = append[c] /\ active'[c] = active[c] /\ wire'[c] = wire[c]
        /\ accepted'[c] = accepted[c] /\ promised'[c] = promised[c]
    BY DEF disconnectImpl, ghostVars, TypeOK
  <2>4. /\ fd'[c] \in {fd[c], NoFd}
        /\ fd'[c] # fd[c] => active[c] = <<>>
    BY <2>3, FinishFd DEF disconnectImpl, Idle, Held
  <2>5. promised[c] # NotAsked /\ promised[c] <= accepted[c]
    BY <1>1, <2>2 DEF ConnOK, Asked
  <2>6. Taken(c)' = Taken(c)
    BY <2>3 DEF Taken, OnWire, InFlight, Queued
  <2>7. Fresh(c)' /\ Told(c)' /\ Asked(c)'
    BY <1>1, <2>1, <2>3, <2>4, <2>5 DEF ConnOK, Fresh, Told, Asked
  <2>8. ASSUME Open(c)
        PROVE  /\ InOrder(c)' /\ Waiting(c)' /\ Behind(c)'
               /\ Idle(c) => append[c] = <<>>
    <3>1. InOrder(c) /\ Waiting(c) /\ Behind(c) /\ (Idle(c) => append[c] = <<>>)
      BY <1>1, <2>8 DEF ConnOK, Flow
    <3>2. /\ \A i \in Ops(c)' : Sent(c, i)' => Sent(c, i + 1)
          /\ \A i, j \in Ops(c)' :
               i < j /\ Sent(c, i)' /\ Sent(c, j)' => posted'[c][i] < posted'[c][j]
          /\ \A i, j \in Ops(c)' :
               i < j /\ posted'[c][i] = disconnectOp /\ Sent(c, j)'
                 => promised'[c] < posted'[c][j]
      BY <2>1, <2>3, <3>1, PoppedOrder
    <3>3. promised[c] <= Taken(c)
      <4> SUFFICES ASSUME Taken(c) < promised[c] PROVE FALSE
        BY <2>0
      <4>1. promised[c] \in Packet /\ promised[c] # disconnectOp
        BY <2>0, <2>5 DEF Packet, disconnectOp
      <4>2. PICK i \in Ops(c) : posted[c][i] = promised[c]
        BY <2>5, <3>1, <4>1 DEF Waiting
      <4>3. 1 < i /\ Sent(c, i)
        BY <2>2, <4>1, <4>2 DEF Sent
      <4>4. promised[c] < promised[c]
        BY <2>2, <3>1, <4>2, <4>3 DEF Behind
      <4> QED
        BY <2>0, <4>4
    <3>4. InOrder(c)'
      <4>1. InOrder(c)
        BY <3>1
      <4>2. append'[c] = append[c] /\ active'[c] = active[c] /\ wire'[c] = wire[c]
        BY <2>3
      <4> QED
        BY <4>1, <4>2 DEF InOrder, OnWire, InFlight, Queued
    <3>5. Waiting(c)'
      <4>1. ASSUME NEW i \in Ops(c)', Sent(c, i)'
            PROVE  Taken(c) < posted'[c][i] /\ posted'[c][i] <= accepted[c]
        BY <2>2, <3>1, <3>2, <4>1 DEF Waiting
      <4>2. ASSUME NEW p \in Packet, Taken(c) < p, p <= accepted[c]
            PROVE  \E i \in Ops(c)' : posted'[c][i] = p
        <5>1. PICK j \in Ops(c) : posted[c][j] = p
          BY <3>1, <4>2 DEF Waiting
        <5>2. p # disconnectOp
          BY DEF Packet, disconnectOp
        <5> QED
          BY <2>2, <5>1, <5>2
      <4> QED
        BY <2>3, <2>6, <3>1, <3>2, <4>1, <4>2 DEF Waiting
    <3>6. Behind(c)'
      BY <2>3, <2>6, <3>2, <3>3 DEF Behind
    <3> QED
      BY <3>1, <3>4, <3>5, <3>6
  <2>9. Graceful(c)'
    <3> SUFFICES ASSUME known[c] \in {"connected", "disconnected"}, fd'[c] = NoFd, ~Gone(c)
                 PROVE  promised[c] <= OnWire(c)
      BY <2>3, <2>5 DEF Graceful, Gone, OnWire
    <3>1. CASE fd[c] = NoFd
      BY <1>1, <3>1 DEF ConnOK, Graceful
    <3>2. CASE fd[c] # NoFd
      <4>1. Open(c) /\ Idle(c)
        BY <2>4, <3>2 DEF Open, Gone, Idle
      <4>2. append[c] = <<>> /\ promised[c] <= Taken(c)
        BY <2>3, <2>6, <2>8, <4>1 DEF Behind
      <4> QED
        <5>1. InFlight(c) = 0 /\ Queued(c) = 0
          BY <4>1, <4>2 DEF InFlight, Queued, Idle
        <5> QED
          BY <2>0, <4>2, <5>1 DEF Taken
    <3> QED
      BY <3>1, <3>2
  <2>11. Flow(c)'
    BY <2>3, <2>4, <2>8 DEF Flow, Open, Idle
  <2> QED
    BY <1>3, <2>7, <2>9, <2>11 DEF ConnOK
<1> QED
  BY <1>2, <1>3

\* A write completes: what was in flight is on the wire behind the rest.
LEMMA WrittenKeeps ==
  ASSUME TypeOK, ConnInv, NEW c \in Conn, written(c)
  PROVE  ConnInv'
<1> SUFFICES ASSUME NEW d \in Conn PROVE ConnOK(d)'
  BY DEF ConnInv
<1>1. ConnOK(d) /\ ConnOK(c)
  BY DEF ConnInv
<1>2. CASE d # c
  <2>1. Untouched(d)
    BY <1>2, FinishFd DEF written, startWrite, TypeOK, Untouched
  <2> QED
    BY <1>1, <2>1, UntouchedOK
<1>3. CASE d = c
  <2>0. /\ OnWire(c) \in Nat /\ InFlight(c) \in Nat /\ Queued(c) \in Nat
        /\ Taken(c) \in Nat
        /\ accepted[c] \in Nat /\ promised[c] \in Nat
        /\ accepted[c] <= MaxPacket /\ MaxPacket \in Nat
    BY Lengths, QueueAssumption
  <2>1. /\ known'[c] = known[c] /\ peer'[c] = peer[c] /\ marker'[c] = marker[c]
        /\ posted'[c] = posted[c]
        /\ accepted'[c] = accepted[c] /\ promised'[c] = promised[c]
    BY DEF written
  <2>2. /\ wire'[c] = wire[c] \o active[c]
        /\ active'[c] = append[c] /\ append'[c] = <<>>
        /\ active[c] # <<>>
    BY DEF written, startWrite, TypeOK
  <2>3. Open(c)
    BY DEF written, Open
  <2>4. InOrder(c) /\ Waiting(c) /\ Behind(c)
    BY <1>1, <2>3 DEF ConnOK, Flow
  <2>5. /\ OnWire(c)' = OnWire(c) + InFlight(c)
        /\ \A i \in 1 .. OnWire(c)' : wire'[c][i] = i
    <3>1. wire[c] \in Seq(Packet) /\ active[c] \in Seq(Packet)
      BY DEF TypeOK
    <3>2. \A i \in 1 .. OnWire(c) : wire[c][i] = i
      BY <2>4 DEF InOrder
    <3>3. \A i \in 1 .. InFlight(c) : active[c][i] = OnWire(c) + i
      BY <2>4 DEF InOrder
    <3>4. /\ Len(wire[c] \o active[c]) = OnWire(c) + InFlight(c)
          /\ \A i \in 1 .. Len(wire[c] \o active[c]) : (wire[c] \o active[c])[i] = i
      BY <3>1, <3>2, <3>3, NumberedConcat DEF OnWire, InFlight
    <3> QED
      BY <2>2, <3>4 DEF OnWire
  <2>6. InFlight(c)' = Queued(c) /\ Queued(c)' = 0
    BY <2>2 DEF InFlight, Queued
  <2>7. Taken(c)' = Taken(c)
    BY <2>0, <2>5, <2>6 DEF Taken
  <2>8. InOrder(c)'
    <3>1. \A i \in 1 .. Queued(c) : append[c][i] = OnWire(c) + InFlight(c) + i
      BY <2>4 DEF InOrder
    <3>2. \A i \in 1 .. InFlight(c)' : active'[c][i] = OnWire(c)' + i
      BY <2>2, <2>5, <2>6, <3>1
    <3>3. 1 .. Queued(c)' = {}
      BY <2>6
    <3> QED
      BY <2>5, <3>2, <3>3 DEF InOrder
  <2>9. Waiting(c)' /\ Behind(c)'
    BY <2>1, <2>4, <2>7 DEF Waiting, Behind, Ops, Sent
  <2>10. Fresh(c)' /\ Asked(c)' /\ Told(c)'
    BY <1>1, <2>1, <2>2, <2>3 DEF ConnOK, Fresh, Asked, Told, Gone, Ops, Open
  <2>11. fd'[c] = NoFd => append[c] = <<>> /\ (marker[c] \/ (known[c] # "connected" /\ posted[c] = <<>>))
    <3>1. fd'[c] = NoFd => closesAfterWrite(c) \/ ~Held(c)'
      BY <2>3, FinishFd DEF written, Open
    <3>2. ~Held(c)' => known[c] # "connected" /\ posted[c] = <<>> /\ append[c] = <<>>
      BY <2>1, <2>2 DEF Held
    <3> QED
      BY <3>1, <3>2 DEF closesAfterWrite
  <2>12. Graceful(c)'
    <3> SUFFICES ASSUME known[c] \in {"connected", "disconnected"}, fd'[c] = NoFd, ~Gone(c)
                 PROVE  promised[c] # NotAsked /\ promised[c] <= OnWire(c)'
      BY <2>1 DEF Graceful, Gone, OnWire
    <3>1. promised[c] # NotAsked
      BY <1>1, <2>11 DEF ConnOK, Asked, Told
    <3>2. OnWire(c)' = Taken(c)
      <4>1. Queued(c) = 0
        BY <2>11 DEF Queued
      <4> QED
        BY <2>0, <2>5, <4>1 DEF Taken
    <3>3. promised[c] <= Taken(c)
      <4>1. CASE marker[c]
        BY <2>4, <4>1 DEF Behind
      <4>2. CASE posted[c] = <<>>
        <5>1. Ops(c) = {}
          BY <4>2 DEF Ops
        <5>2. accepted[c] \in Packet => ~(Taken(c) < accepted[c])
          BY <2>0, <2>4, <5>1 DEF Waiting
        <5>3. accepted[c] <= Taken(c)
          BY <2>0, <5>2 DEF Packet
        <5>4. promised[c] <= accepted[c]
          BY <1>1, <3>1 DEF ConnOK, Asked
        <5> QED
          BY <2>0, <5>3, <5>4
      <4> QED
        BY <2>11, <4>1, <4>2
    <3> QED
      BY <3>1, <3>2, <3>3
  <2>13. Flow(c)'
    BY <2>2, <2>8, <2>9 DEF Flow
  <2> QED
    BY <1>3, <2>10, <2>12, <2>13 DEF ConnOK
<1> QED
  BY <1>2, <1>3

\* A write fails: the client is gone, or the socket was closed before.
LEMMA WriteFailedKeeps ==
  ASSUME TypeOK, ConnInv, NEW c \in Conn, writeFailed(c)
  PROVE  ConnInv'
<1> SUFFICES ASSUME NEW d \in Conn PROVE ConnOK(d)'
  BY DEF ConnInv
<1>1. ConnOK(d) /\ ConnOK(c)
  BY DEF ConnInv
<1>2. CASE d # c
  <2>1. Untouched(d)
    BY <1>2, FinishFd DEF writeFailed, ghostVars, TypeOK, Untouched
  <2> QED
    BY <1>1, <2>1, UntouchedOK
<1>3. CASE d = c
  <2>1. /\ known'[c] = known[c] /\ marker'[c] = marker[c]
        /\ posted'[c] = posted[c] /\ wire'[c] = wire[c]
        /\ accepted'[c] = accepted[c] /\ promised'[c] = promised[c]
        /\ active[c] # <<>>
    BY DEF writeFailed, ghostVars
  <2>2. known[c] # "none" /\ (fd[c] = NoFd => fd'[c] = NoFd)
    BY <1>1, <2>1, FinishFd DEF ConnOK, Fresh, writeFailed
  <2>3. CASE fd[c] = NoFd /\ peer'[c] = peer[c]
    <3>1. ~Open(c)'
      BY <2>2, <2>3 DEF Open
    <3>2. Gone(c)' = Gone(c) /\ Ops(c)' = Ops(c)
      BY <2>1, <2>3 DEF Gone, Ops
    <3>3. Fresh(c)' /\ Asked(c)' /\ Told(c)' /\ Graceful(c)'
      BY <1>1, <2>1, <2>2, <2>3, <3>2 DEF ConnOK, Fresh, Asked, Told, Graceful, OnWire
    <3> QED
      BY <1>3, <3>1, <3>3 DEF ConnOK, Flow
  <2>4. CASE fd[c] # NoFd /\ peer'[c] = "reset"
    <3>1. ~Open(c)' /\ Gone(c)'
      BY <2>4 DEF Open, Gone
    <3>2. Ops(c)' = Ops(c)
      BY <2>1 DEF Ops
    <3>3. known[c] # "dropped"
      BY <1>1, <2>4 DEF ConnOK, Fresh
    <3> QED
      BY <1>1, <1>3, <2>1, <2>2, <3>1, <3>2, <3>3
      DEF ConnOK, Fresh, Asked, Told, Flow, Graceful
  <2> QED
    BY <2>3, <2>4 DEF writeFailed, TypeOK
<1> QED
  BY <1>2, <1>3

\* The read ends: the client is gone, or the end was asked for.
LEMMA ReadEndsKeeps ==
  ASSUME TypeOK, ConnInv, NEW c \in Conn, readFailed(c) \/ readMarked(c)
  PROVE  ConnInv'
<1> SUFFICES ASSUME NEW d \in Conn PROVE ConnOK(d)'
  BY DEF ConnInv
<1>1. ConnOK(d) /\ ConnOK(c)
  BY DEF ConnInv
<1>2. readEnds(c)
  BY DEF readFailed, readMarked
<1>3. CASE d # c
  <2>1. Untouched(d)
    BY <1>2, <1>3, FinishFd DEF readEnds, ghostVars, TypeOK, Untouched
  <2> QED
    BY <1>1, <2>1, UntouchedOK
<1>4. CASE d = c
  <2>1. /\ known[c] = "connected" /\ known'[c] = "disconnected"
        /\ peer'[c] = peer[c] /\ marker'[c] = marker[c] /\ posted'[c] = posted[c]
        /\ append'[c] = append[c] /\ active'[c] = active[c] /\ wire'[c] = wire[c]
        /\ accepted'[c] = accepted[c] /\ promised'[c] = promised[c]
    BY <1>2 DEF readEnds, ghostVars, TypeOK
  <2>2. /\ fd'[c] \in {fd[c], NoFd}
        /\ fd'[c] # fd[c] => active[c] = <<>>
    BY <1>2, <2>1, FinishFd DEF readEnds, Held
  <2>3. Gone(c) \/ promised[c] # NotAsked
    BY <1>1, <2>1 DEF readFailed, readMarked, ConnOK, Asked, Graceful
  <2>4. Fresh(c)' /\ Asked(c)' /\ Told(c)'
    BY <1>1, <2>1, <2>3 DEF ConnOK, Fresh, Asked, Told, Gone, Ops
  <2>5. Flow(c)'
    <3>1. Open(c)' => Open(c)
      BY <2>1, <2>2 DEF Open
    <3> QED
      BY <1>1, <2>1, <3>1, QueuesUntouched DEF ConnOK, Flow, Idle
  <2>6. Graceful(c)'
    <3> SUFFICES ASSUME fd'[c] = NoFd, ~Gone(c) PROVE promised[c] <= OnWire(c)
      BY <2>1, <2>3 DEF Graceful, Gone, OnWire
    <3>1. CASE fd[c] = NoFd
      BY <1>1, <2>1, <3>1 DEF ConnOK, Graceful
    <3>2. CASE fd[c] # NoFd
      <4>1. marker[c] /\ Open(c) /\ Idle(c)
        BY <2>2, <3>2 DEF readFailed, readMarked, Open, Gone, Idle
      <4>2. promised[c] <= Taken(c) /\ append[c] = <<>>
        BY <1>1, <4>1 DEF ConnOK, Flow, Behind
      <4>3. InFlight(c) = 0 /\ Queued(c) = 0
        BY <4>1, <4>2 DEF InFlight, Queued, Idle
      <4> QED
        BY <4>2, <4>3, Lengths DEF Taken
    <3> QED
      BY <3>1, <3>2
  <2> QED
    BY <1>4, <2>4, <2>5, <2>6 DEF ConnOK
<1> QED
  BY <1>3, <1>4

\* The client closes its end, or reads no more.
LEMMA PeerKeeps ==
  ASSUME TypeOK, ConnInv, NEW c \in Conn, peerCloses(c) \/ peerStalls(c)
  PROVE  ConnInv'
<1> SUFFICES ASSUME NEW d \in Conn PROVE ConnOK(d)'
  BY DEF ConnInv
<1>1. ConnOK(d) /\ ConnOK(c)
  BY DEF ConnInv
<1>2. CASE d # c
  <2>1. Untouched(d)
    BY <1>2 DEF peerCloses, peerStalls, ghostVars, TypeOK, Untouched
  <2> QED
    BY <1>1, <2>1, UntouchedOK
<1>3. CASE d = c
  <2>1. /\ known'[c] = known[c] /\ fd'[c] = fd[c] /\ marker'[c] = marker[c]
        /\ posted'[c] = posted[c] /\ append'[c] = append[c] /\ active'[c] = active[c]
        /\ wire'[c] = wire[c]
        /\ accepted'[c] = accepted[c] /\ promised'[c] = promised[c]
    BY DEF peerCloses, peerStalls, ghostVars
  <2>2. fd[c] # NoFd /\ ~Gone(c) /\ peer'[c] # "reset" /\ peer[c] # "reset"
    BY DEF peerCloses, peerStalls, Gone, TypeOK
  <2>3. Fresh(c)' /\ Asked(c)' /\ Told(c)' /\ Graceful(c)'
    BY <1>1, <2>1, <2>2 DEF ConnOK, Fresh, Asked, Told, Graceful, Ops
  <2>4. Flow(c)'
    <3>1. Open(c)' => Open(c)
      BY <2>1, <2>2 DEF Open
    <3> QED
      BY <1>1, <2>1, <3>1, QueuesUntouched DEF ConnOK, Flow, Idle
  <2> QED
    BY <1>3, <2>3, <2>4 DEF ConnOK
<1> QED
  BY <1>2, <1>3

\* Every step keeps what holds of the connections.
LEMMA ConnNext == TypeOK /\ ConnInv /\ [Next]_vars => ConnInv'
<1> SUFFICES ASSUME TypeOK, ConnInv, [Next]_vars PROVE ConnInv'
  OBVIOUS
<1>1. CASE UNCHANGED vars
  <2> SUFFICES ASSUME NEW c \in Conn PROVE ConnOK(c)'
    BY DEF ConnInv
  <2>1. ConnOK(c) /\ Untouched(c)
    BY <1>1 DEF ConnInv, vars, ghostVars, Untouched
  <2> QED
    BY <2>1, UntouchedOK
<1>2. CASE Next
  BY <1>2, AcceptKeeps, SendKeeps, DisconnectKeeps, SendImplKeeps, DisconnectImplKeeps,
     WrittenKeeps, WriteFailedKeeps, ReadEndsKeeps, PeerKeeps DEF Next
<1> QED
  BY <1>1, <1>2
------------------------------------------------------------------------------
\* The descriptors at the start.
LEMMA OwnedInit == Init => DescriptorOwned
BY DEF Init, DescriptorOwned

\* A handler of c that ends keeps the descriptor table right when c keeps no
\* descriptor without somebody to finish it.
LEMMA FinishOwned ==
  ASSUME TypeOK, DescriptorOwned, NEW c \in Conn, NEW closes, Finish(c, closes),
         \A d \in Conn \ {c} : Held(d)' <=> Held(d)
  PROVE  DescriptorOwned'
<1> USE ConnAssumption, DescriptorAssumption
<1>1. CASE close(c)
  <2>1. /\ \A d \in Conn : fd'[d] = IF d = c THEN NoFd ELSE fd[d]
        /\ \A f \in Descriptor : owner'[f] = IF f = fd[c] THEN NoConn ELSE owner[f]
    BY <1>1 DEF close, TypeOK
  <2>2. ASSUME NEW d \in Conn, fd'[d] # NoFd PROVE owner'[fd'[d]] = d
    <3>1. d # c /\ fd'[d] = fd[d] /\ fd[d] \in Descriptor /\ owner[fd[d]] = d
      BY <2>1, <2>2 DEF DescriptorOwned, TypeOK
    <3>2. fd[c] # fd[d]
      BY <3>1 DEF DescriptorOwned
    <3> QED
      BY <2>1, <3>1, <3>2
  <2>3. ASSUME NEW f \in Descriptor, owner'[f] # NoConn
        PROVE  fd'[owner'[f]] = f /\ Held(owner[f])' /\ owner'[f] = owner[f]
    <3>1. owner'[f] = owner[f] /\ f # fd[c] /\ owner[f] \in Conn /\ fd[owner[f]] = f /\ Held(owner[f])
      BY <2>1, <2>3 DEF DescriptorOwned, TypeOK
    <3>2. owner[f] # c
      BY <3>1
    <3> QED
      BY <2>1, <3>1, <3>2
  <2> QED
    BY <2>2, <2>3 DEF DescriptorOwned, Held
<1>2. CASE UNCHANGED <<fd, owner>> /\ Held(c)'
  <2>1. \A d \in Conn : Held(d) => Held(d)'
    BY <1>2
  <2>2. \A f \in Descriptor : owner[f] # NoConn => owner[f] \in Conn
    BY DEF TypeOK
  <2> QED
    BY <1>2, <2>1, <2>2 DEF DescriptorOwned, Held
<1> QED
  BY <1>1, <1>2 DEF Finish

\* The table stays right when it is untouched and nobody is let go.
LEMMA HeldOwned ==
  ASSUME TypeOK, DescriptorOwned, UNCHANGED <<fd, owner>>,
         \A d \in Conn : Held(d) => Held(d)'
  PROVE  DescriptorOwned'
<1>1. \A f \in Descriptor : owner[f] # NoConn => owner[f] \in Conn /\ owner'[f] = owner[f]
  BY DEF TypeOK
<1>2. ASSUME NEW f \in Descriptor, owner[f] # NoConn
      PROVE  fd'[owner'[f]] = f /\ Held(owner[f])'
  BY <1>1, <1>2 DEF DescriptorOwned
<1> QED
  BY <1>1, <1>2 DEF DescriptorOwned, Held

\* Every step keeps the descriptors owned.
LEMMA OwnedNext == TypeOK /\ ConnInv /\ DescriptorOwned /\ [Next]_vars => DescriptorOwned'
<1> SUFFICES ASSUME TypeOK, ConnInv, DescriptorOwned, [Next]_vars PROVE DescriptorOwned'
  OBVIOUS
<1> USE ConnAssumption, DescriptorAssumption
<1>1. ASSUME NEW c \in Conn, startAccept(c) PROVE DescriptorOwned'
  <2>1. PICK f \in FreeDescriptor : fd' = [fd EXCEPT ![c] = f] /\ owner' = [owner EXCEPT ![f] = c]
    BY <1>1 DEF startAccept
  <2>2. f \in Descriptor /\ owner[f] = NoConn /\ fd[c] = NoFd
    BY <1>1 DEF FreeDescriptor, startAccept, ConnInv, ConnOK, Fresh
  <2>3. ASSUME NEW d \in Conn, fd'[d] # NoFd PROVE owner'[fd'[d]] = d
    BY <2>1, <2>2, <2>3 DEF DescriptorOwned, TypeOK
  <2>4. \A d \in Conn : Held(d) => Held(d)'
    BY <1>1 DEF startAccept, Held, TypeOK
  <2>5. Held(c)'
    BY <1>1 DEF startAccept, Held, TypeOK
  <2>6. ASSUME NEW g \in Descriptor, owner'[g] # NoConn PROVE fd'[owner'[g]] = g /\ Held(owner[g])' /\ (g # f => owner'[g] = owner[g])
    <3>1. CASE g = f
      BY <2>1, <2>2, <2>5, <3>1 DEF TypeOK
    <3>2. CASE g # f
      <4>1. owner'[g] = owner[g] /\ owner[g] \in Conn /\ fd[owner[g]] = g /\ Held(owner[g])
        BY <2>1, <2>6, <3>2 DEF DescriptorOwned, TypeOK
      <4> QED
        BY <2>1, <2>2, <2>4, <4>1 DEF TypeOK
    <3> QED
      BY <3>1, <3>2
  <2> QED
    BY <2>3, <2>6 DEF DescriptorOwned, Held
<1>2. ASSUME NEW c \in Conn, acceptDropped(c) \/ acceptFailed(c) PROVE DescriptorOwned'
  <2>1. UNCHANGED <<fd, owner>>
    BY <1>2 DEF acceptDropped, acceptFailed
  <2>2. \A d \in Conn : Held(d) => Held(d)'
    BY <1>2 DEF acceptDropped, acceptFailed, Held, TypeOK
  <2> QED
    BY <2>1, <2>2, HeldOwned
<1>3. ASSUME NEW c \in Conn, send(c) \/ disconnect(c) PROVE DescriptorOwned'
  <2>1. UNCHANGED <<fd, owner>>
    BY <1>3 DEF send, disconnect
  <2>2. \A d \in Conn : Held(d) => Held(d)'
    BY <1>3 DEF send, disconnect, Held, TypeOK
  <2> QED
    BY <2>1, <2>2, HeldOwned
<1>4. ASSUME NEW c \in Conn, sendImpl(c) PROVE DescriptorOwned'
  <2>1. UNCHANGED <<fd, owner>>
    BY <1>4 DEF sendImpl
  <2>2. active'[c] # <<>>
    <3>1. CASE Idle(c)
      BY <1>4, <3>1, QueueFacts DEF sendImpl, IsSend, startWrite, TypeOK
    <3>2. CASE ~Idle(c)
      BY <1>4, <3>2 DEF sendImpl, Idle
    <3> QED
      BY <3>1, <3>2
  <2>3. \A d \in Conn \ {c} : Held(d) => Held(d)'
    BY <1>4 DEF sendImpl, startWrite, Held, TypeOK
  <2>4. Held(c)'
    BY <2>2 DEF Held
  <2> QED
    BY <2>1, <2>3, <2>4, HeldOwned
<1>5. ASSUME NEW c \in Conn, disconnectImpl(c) PROVE DescriptorOwned'
  <2>1. \A d \in Conn \ {c} : Held(d)' <=> Held(d)
    BY <1>5 DEF disconnectImpl, Held, TypeOK
  <2> QED
    BY <1>5, <2>1, FinishOwned DEF disconnectImpl
<1>6. ASSUME NEW c \in Conn, written(c) PROVE DescriptorOwned'
  <2>1. \A d \in Conn \ {c} : Held(d)' <=> Held(d)
    BY <1>6 DEF written, startWrite, Held, TypeOK
  <2> QED
    BY <1>6, <2>1, FinishOwned DEF written
<1>7. ASSUME NEW c \in Conn, writeFailed(c) PROVE DescriptorOwned'
  <2>1. \A d \in Conn \ {c} : Held(d)' <=> Held(d)
    BY <1>7 DEF writeFailed, Held, TypeOK
  <2> QED
    BY <1>7, <2>1, FinishOwned DEF writeFailed
<1>8. ASSUME NEW c \in Conn, readEnds(c) PROVE DescriptorOwned'
  <2>1. \A d \in Conn \ {c} : Held(d)' <=> Held(d)
    BY <1>8 DEF readEnds, Held, TypeOK
  <2> QED
    BY <1>8, <2>1, FinishOwned DEF readEnds
<1>9. ASSUME NEW c \in Conn, peerCloses(c) \/ peerStalls(c) PROVE DescriptorOwned'
  BY <1>9 DEF peerCloses, peerStalls, DescriptorOwned, Held
<1>10. CASE UNCHANGED vars
  BY <1>10 DEF vars, DescriptorOwned, Held
<1> QED
  BY <1>1, <1>2, <1>3, <1>4, <1>5, <1>6, <1>7, <1>8, <1>9, <1>10
  DEF Next, readFailed, readMarked
------------------------------------------------------------------------------
(***************************************************************************)
(* The inductive invariant of the connections: their types, what is in     *)
(* their queues and what a closed one has delivered, and the descriptors.  *)
(***************************************************************************)
ServerInv == TypeOK /\ ConnInv /\ DescriptorOwned

\* A sequence of which every element is its own index.
LEMMA Numbered ==
  ASSUME NEW s \in Seq(Packet), \A i \in 1 .. Len(s) : s[i] = i
  PROVE  s = [i \in 1 .. Len(s) |-> i]
<1>1. s = [i \in 1 .. Len(s) |-> s[i]]
  OBVIOUS
<1> QED
  BY <1>1

\* The packets that left the posted operations are the first ones.
LEMMA HandedNumbered ==
  ASSUME TypeOK, NEW c \in Conn, InOrder(c)
  PROVE  /\ Len(Handed(c)) = Taken(c)
         /\ Handed(c) = [i \in 1 .. Taken(c) |-> i]
<1> DEFINE front == wire[c] \o active[c]
<1>1. wire[c] \in Seq(Packet) /\ active[c] \in Seq(Packet) /\ append[c] \in Seq(Packet)
  BY DEF TypeOK
<1>2. OnWire(c) \in Nat /\ InFlight(c) \in Nat /\ Queued(c) \in Nat
  BY Lengths
<1>3. /\ \A i \in 1 .. OnWire(c) : wire[c][i] = i
      /\ \A i \in 1 .. InFlight(c) : active[c][i] = OnWire(c) + i
  BY DEF InOrder
<1>4. /\ Len(front) = OnWire(c) + InFlight(c)
      /\ \A i \in 1 .. Len(front) : front[i] = i
  BY <1>1, <1>3, NumberedConcat DEF OnWire, InFlight
<1>5. front \in Seq(Packet)
  BY <1>1
<1> HIDE DEF front
<1>6. \A i \in 1 .. Queued(c) : append[c][i] = Len(front) + i
  BY <1>2, <1>4 DEF InOrder
<1>7. /\ Len(front \o append[c]) = Len(front) + Queued(c)
      /\ \A i \in 1 .. Len(front \o append[c]) : (front \o append[c])[i] = i
  BY <1>1, <1>4, <1>5, <1>6, NumberedConcat DEF Queued
<1>8. Handed(c) = front \o append[c] /\ front \o append[c] \in Seq(Packet)
  BY <1>1, <1>5 DEF Handed, front
<1>9. Len(Handed(c)) = Taken(c)
  BY <1>4, <1>7, <1>8 DEF Taken
<1>10. \A i \in 1 .. Len(Handed(c)) : Handed(c)[i] = i
  BY <1>7, <1>8
<1> QED
  BY <1>8, <1>9, <1>10, Numbered

\* No packet is lost, doubled or overtaken.
LEMMA InvNothingLost == TypeOK /\ ConnInv => NothingLost
<1> SUFFICES ASSUME TypeOK, ConnInv, NEW c \in Conn, fd[c] # NoFd, peer[c] # "reset"
             PROVE  /\ Len(Handed(c)) <= accepted[c]
                    /\ Handed(c) = [i \in 1 .. Len(Handed(c)) |-> i]
                    /\ {posted[c][i] : i \in DOMAIN posted[c]} \ {disconnectOp}
                         = Len(Handed(c)) + 1 .. accepted[c]
                    /\ \A i, j \in DOMAIN posted[c] :
                         i < j /\ posted[c][i] # disconnectOp /\ posted[c][j] # disconnectOp
                           => posted[c][i] < posted[c][j]
  BY DEF NothingLost
<1>1. InOrder(c) /\ Waiting(c)
  BY DEF ConnInv, ConnOK, Flow, Open
<1>2. Len(Handed(c)) = Taken(c) /\ Handed(c) = [i \in 1 .. Taken(c) |-> i]
  BY <1>1, HandedNumbered
<1>3. Ops(c) = DOMAIN posted[c]
  BY DEF Ops, TypeOK
<1>4. /\ Taken(c) \in Nat /\ accepted[c] \in Nat /\ accepted[c] <= MaxPacket /\ MaxPacket \in Nat
      /\ \A i \in Ops(c) : posted[c][i] \in Nat
  BY Lengths, QueueAssumption
<1>5. ASSUME NEW i \in Ops(c), posted[c][i] # disconnectOp
      PROVE  posted[c][i] \in Taken(c) + 1 .. accepted[c]
  <2>1. Taken(c) < posted[c][i] /\ posted[c][i] <= accepted[c]
    BY <1>1, <1>5 DEF Waiting, Sent
  <2> QED
    BY <1>4, <2>1
<1>6. ASSUME NEW p \in Taken(c) + 1 .. accepted[c]
      PROVE  p # disconnectOp /\ \E i \in Ops(c) : posted[c][i] = p
  <2>1. p \in Packet /\ Taken(c) < p /\ p <= accepted[c] /\ p # disconnectOp
    BY <1>4 DEF Packet, disconnectOp
  <2> QED
    BY <1>1, <2>1 DEF Waiting
<1>7. {posted[c][i] : i \in DOMAIN posted[c]} \ {disconnectOp} = Taken(c) + 1 .. accepted[c]
  BY <1>3, <1>5, <1>6
<1>8. \A i, j \in Ops(c) :
        i < j /\ posted[c][i] # disconnectOp /\ posted[c][j] # disconnectOp
          => posted[c][i] < posted[c][j]
  BY <1>1 DEF Waiting, Sent
<1> QED
  BY <1>1, <1>2, <1>3, <1>7, <1>8 DEF Waiting

\* A closed connection has delivered what was promised.
LEMMA InvGracefulClose == TypeOK /\ ConnInv => GracefulClose
<1> SUFFICES ASSUME TypeOK, ConnInv, NEW c \in Conn,
                    known[c] \in {"connected", "disconnected"}, fd[c] = NoFd, ~Gone(c)
             PROVE  promised[c] # NotAsked /\ Len(wire[c]) >= promised[c]
  BY DEF GracefulClose
<1>1. promised[c] # NotAsked /\ promised[c] <= OnWire(c)
  BY DEF ConnInv, ConnOK, Graceful
<1>2. OnWire(c) \in Nat /\ promised[c] \in Nat
  BY Lengths
<1>3. OnWire(c) >= promised[c]
  BY <1>1, <1>2
<1> QED
  BY <1>1, <1>3 DEF OnWire

\* The inductive invariant holds of every behaviour.
THEOREM ServerCorrect == Spec => []ServerInv
<1>1. Init => ServerInv
  BY TypeInit, ConnInit, OwnedInit DEF ServerInv
<1>2. ServerInv /\ [Next]_vars => ServerInv'
  BY TypeNext, ConnNext, OwnedNext DEF ServerInv
<1> QED
  BY <1>1, <1>2, PTL DEF Spec

\* Every packet a connection takes is on the wire, queued or posted, once and
\* in order, as long as it is open and no write failed.
THEOREM NothingLostCorrect == Spec => []NothingLost
<1>1. ServerInv => NothingLost
  BY InvNothingLost DEF ServerInv
<1> QED
  BY <1>1, ServerCorrect, PTL

\* The server closes a connection of its own accord only when it was asked to
\* and what was sent before is on the wire.
THEOREM GracefulCloseCorrect == Spec => []GracefulClose
<1>1. ServerInv => GracefulClose
  BY InvGracefulClose DEF ServerInv
<1> QED
  BY <1>1, ServerCorrect, PTL

\* No descriptor is closed twice or left to nobody.
THEOREM DescriptorCorrect == Spec => []DescriptorOwned
<1>1. ServerInv => DescriptorOwned
  BY DEF ServerInv
<1> QED
  BY <1>1, ServerCorrect, PTL
------------------------------------------------------------------------------
\* What an end of a handler takes from c: its own descriptor, and only when
\* the handler closes it or nobody is left to.
LEMMA FinishTakes ==
  ASSUME ServerInv, NEW d \in Conn, NEW closes, Finish(d, closes),
         NEW c \in Conn, NEW f \in Descriptor, owner[f] = c, owner'[f] # c
  PROVE  c = d /\ (closes \/ ~Held(d)') /\ known[c] \in {"connected", "disconnected"}
<1>1. TypeOK /\ ConnInv /\ DescriptorOwned
  BY DEF ServerInv
<1>2. close(d) /\ (closes \/ ~Held(d)')
  BY DEF Finish
<1>3. f = fd[d] /\ fd[c] = f
  BY <1>1, <1>2, ConnAssumption DEF close, TypeOK, DescriptorOwned
<1>4. c = d
  BY <1>1, <1>3, DescriptorAssumption DEF DescriptorOwned
<1>5. known[c] \in {"connected", "disconnected"}
  BY <1>1, <1>3, DescriptorAssumption DEF ConnInv, ConnOK, Fresh, TypeOK, Knowledge
<1> QED
  BY <1>2, <1>4, <1>5

\* A step takes the descriptor of a connection only when that connection is
\* marked or its end was told.
LEMMA FreshStep ==
  ASSUME ServerInv, [Next]_vars, NEW c \in Conn, NEW f \in Descriptor,
         owner[f] = c, owner'[f] # c
  PROVE  marker'[c] \/ known'[c] = "disconnected"
<1> USE ConnAssumption
<1>1. TypeOK
  BY DEF ServerInv
<1>2. ASSUME NEW d \in Conn, startAccept(d) PROVE FALSE
  BY <1>1, <1>2 DEF startAccept, FreeDescriptor, TypeOK
<1>3. ASSUME NEW d \in Conn, disconnectImpl(d) PROVE marker'[c]
  <2>1. c = d
    BY <1>3, FinishTakes DEF disconnectImpl
  <2> QED
    BY <1>1, <1>3, <2>1 DEF disconnectImpl, TypeOK
<1>4. ASSUME NEW d \in Conn, written(d) PROVE marker'[c] \/ known'[c] = "disconnected"
  <2>1. /\ c = d /\ (closesAfterWrite(c) \/ ~Held(c)')
        /\ known[c] \in {"connected", "disconnected"}
    BY <1>4, FinishTakes DEF written
  <2>2. marker'[c] = marker[c] /\ known'[c] = known[c]
    BY <1>4 DEF written
  <2>3. closesAfterWrite(c) => marker'[c]
    BY <2>2 DEF closesAfterWrite
  <2>4. ~Held(c)' => known'[c] # "connected"
    BY DEF Held
  <2> QED
    BY <2>1, <2>2, <2>3, <2>4
<1>5. ASSUME NEW d \in Conn, writeFailed(d) PROVE known'[c] = "disconnected"
  <2>1. Finish(d, FALSE) /\ ~Held(d)'
    BY <1>5 DEF writeFailed, Finish
  <2>3. c = d /\ known[c] \in {"connected", "disconnected"}
    <3>1. Finish(d, FALSE)
      BY <2>1
    <3> QED
      BY <3>1, FinishTakes
  <2>2. known'[c] = known[c]
    BY <1>5 DEF writeFailed
  <2> QED
    BY <2>1, <2>2, <2>3 DEF Held
<1>6. ASSUME NEW d \in Conn, readEnds(d) PROVE known'[c] = "disconnected"
  <2>1. c = d
    BY <1>6, FinishTakes DEF readEnds
  <2> QED
    BY <1>1, <1>6, <2>1 DEF readEnds, TypeOK
<1> QED
  BY <1>2, <1>3, <1>4, <1>5, <1>6
  DEF Next, vars, acceptDropped, acceptFailed, send, disconnect, sendImpl, readFailed,
      readMarked, peerCloses, peerStalls

\* A freshly accepted client never loses its descriptor to the handlers of
\* the one that had it before.
THEOREM FreshCorrect == Spec => FreshStaysConnected
<1>1. ServerInv /\ [Next]_vars =>
        [\A c \in Conn, f \in Descriptor :
           owner[f] = c /\ owner'[f] # c => marker'[c] \/ known'[c] = "disconnected"]_vars
  BY FreshStep
<1> QED
  BY <1>1, ServerCorrect, PTL DEF Spec, FreshStaysConnected
------------------------------------------------------------------------------
\* The interface's view of a connection nobody touched does not change.
LEMMA IfaceSame ==
  ASSUME TypeOK
  PROVE  /\ fd' = fd => IfaceSocket' = IfaceSocket
         /\ known' = known => IfaceReported' = IfaceReported
         /\ peer' = peer => IfaceLeft' = IfaceLeft
BY DEF IfaceSocket, IfaceReported, IfaceLeft, Gone

\* What the end of a handler does to the socket is what the interface allows,
\* if what is closed may end and the client left or has what was promised.
LEMMA FinishMayClose ==
  ASSUME TypeOK, NEW c \in Conn, NEW closes, Finish(c, closes),
         fd[c] # NoFd /\ fd'[c] = NoFd =>
           /\ promised[c] # NotAsked \/ Gone(c)
           /\ Gone(c) \/ Len(wire'[c]) >= promised[c]
  PROVE  Iface!MayClose(c)
<1>1. CASE UNCHANGED fd
  BY <1>1, IfaceSame DEF Iface!MayClose
<1>2. CASE fd[c] = NoFd /\ close(c)
  <2>1. fd' = fd
    BY <1>2 DEF close, TypeOK
  <2> QED
    BY <2>1, IfaceSame DEF Iface!MayClose
<1>3. CASE fd[c] # NoFd /\ close(c)
  <2>1. fd' = [fd EXCEPT ![c] = NoFd]
    BY <1>3 DEF close
  <2>2. IfaceSocket[c] = "open" /\ IfaceSocket' = [IfaceSocket EXCEPT ![c] = "closed"]
    BY <1>3, <2>1 DEF IfaceSocket, TypeOK
  <2>3. fd'[c] = NoFd
    BY <2>1 DEF TypeOK
  <2>4. IfaceLeft[c] = Gone(c)
    BY DEF IfaceLeft
  <2>5. Iface!MayEnd(c)
    BY <1>3, <2>3, <2>4 DEF Iface!MayEnd, Iface!NotAsked, NotAsked
  <2>6. IfaceLeft[c] \/ Len(wire'[c]) >= promised[c]
    BY <1>3, <2>3, <2>4
  <2> QED
    BY <2>2, <2>5, <2>6 DEF Iface!MayClose
<1> QED
  BY <1>1, <1>2, <1>3 DEF Finish

\* A connection a handler closes may end, and has delivered what it promised
\* unless its client left.
LEMMA ClosedMayEnd ==
  ASSUME TypeOK, ConnInv', NEW c \in Conn,
         known'[c] \in {"connected", "disconnected"},
         promised'[c] = promised[c], Gone(c)' => Gone(c), fd'[c] = NoFd
  PROVE  /\ promised[c] # NotAsked \/ Gone(c)
         /\ Gone(c) \/ Len(wire'[c]) >= promised[c]
<1>1. ConnOK(c)'
  BY DEF ConnInv
<1>2. CASE ~Gone(c)'
  <2>1. promised[c] # NotAsked /\ promised[c] <= OnWire(c)'
    BY <1>1, <1>2 DEF ConnOK, Graceful, OnWire
  <2> QED
    BY <2>1 DEF OnWire
<1> QED
  BY <1>2

\* The initial states are the interface's.
LEMMA IfaceInit == Init => Iface!Init
<1> SUFFICES ASSUME Init PROVE Iface!Init
  OBVIOUS
<1>1. IfaceSocket = [c \in Conn |-> "closed"]
  BY DEF Init, IfaceSocket
<1>2. IfaceReported = [c \in Conn |-> "nothing"]
  BY DEF Init, IfaceReported
<1>3. IfaceLeft = [c \in Conn |-> FALSE]
  <2>1. ASSUME NEW c \in Conn PROVE Gone(c) = FALSE
    <3>1. peer[c] = "up"
      BY DEF Init
    <3>2. ~(peer[c] \in {"closed", "reset"})
      BY <3>1
    <3> QED
      BY <3>2 DEF Gone
  <2> QED
    BY <2>1, Zenon DEF IfaceLeft
<1> QED
  BY <1>1, <1>2, <1>3 DEF Init, Iface!Init, NotAsked, Iface!NotAsked

\* The accept is the interface's announcement, or nothing to it.
LEMMA AcceptRefines ==
  ASSUME TypeOK, NEW c \in Conn, startAccept(c) \/ acceptDropped(c) \/ acceptFailed(c)
  PROVE  Iface!onClientConnected(c) \/ UNCHANGED Iface!vars
<1>1. CASE startAccept(c)
  <2>1. PICK f \in Descriptor : fd' = [fd EXCEPT ![c] = f]
    BY <1>1 DEF startAccept, FreeDescriptor
  <2>2. IfaceSocket' = [IfaceSocket EXCEPT ![c] = "open"]
    BY <2>1, DescriptorAssumption DEF IfaceSocket, TypeOK
  <2>3. /\ IfaceReported[c] = "nothing"
        /\ IfaceReported' = [IfaceReported EXCEPT ![c] = "connected"]
    BY <1>1 DEF startAccept, IfaceReported, TypeOK
  <2> QED
    BY <1>1, <2>2, <2>3, IfaceSame DEF startAccept, ghostVars, Iface!onClientConnected
<1>2. CASE acceptDropped(c)
  <2>1. IfaceReported' = IfaceReported
    BY <1>2 DEF acceptDropped, IfaceReported, TypeOK
  <2> QED
    BY <1>2, <2>1, IfaceSame DEF acceptDropped, ghostVars, Iface!vars
<1>3. CASE acceptFailed(c)
  BY <1>3, IfaceSame DEF acceptFailed, ghostVars, Iface!vars
<1> QED
  BY <1>1, <1>2, <1>3

\* What the proxy asks for.
LEMMA AskRefines ==
  ASSUME TypeOK, NEW c \in Conn, send(c) \/ disconnect(c)
  PROVE  Iface!send(c) \/ Iface!disconnect(c) \/ UNCHANGED Iface!vars
<1>1. IfaceReported[c] = "connected"
  BY DEF send, disconnect, IfaceReported
<1>2. CASE send(c)
  BY <1>1, <1>2, IfaceSame DEF send, Iface!send
<1>3. CASE disconnect(c) /\ promised[c] = NotAsked
  BY <1>1, <1>3, IfaceSame DEF disconnect, Iface!disconnect, NotAsked, Iface!NotAsked, TypeOK
<1>4. CASE disconnect(c) /\ promised[c] # NotAsked
  <2>1. promised' = promised
    BY <1>4 DEF disconnect, TypeOK
  <2> QED
    BY <1>4, <2>1, IfaceSame DEF disconnect, Iface!vars
<1> QED
  BY <1>2, <1>3, <1>4

\* A packet that is queued changes nothing the interface shows.
LEMMA SendImplRefines ==
  ASSUME TypeOK, NEW c \in Conn, sendImpl(c)
  PROVE  UNCHANGED Iface!vars
BY IfaceSame DEF sendImpl, ghostVars, Iface!vars

\* The disconnect that is reached closes the connection, or nothing yet.
LEMMA DisconnectImplRefines ==
  ASSUME TypeOK, ConnInv, ConnInv', NEW c \in Conn, disconnectImpl(c)
  PROVE  Iface!Close(c)
<1>1. Finish(c, Idle(c)) /\ UNCHANGED <<known, peer, ghostVars>>
  BY DEF disconnectImpl
<1>2. fd[c] # NoFd => known'[c] \in {"connected", "disconnected"}
  BY <1>1 DEF ConnInv, ConnOK, Fresh, TypeOK, Knowledge
<1>3. Gone(c)' => Gone(c)
  BY <1>1 DEF Gone
<1>4. Iface!MayClose(c)
  BY <1>1, <1>2, <1>3, ClosedMayEnd, FinishMayClose DEF ghostVars
<1> QED
  BY <1>1, <1>4, IfaceSame DEF ghostVars, Iface!Close

\* The write that completes delivers, and may close.
LEMMA WrittenRefines ==
  ASSUME TypeOK, ConnInv, ConnInv', NEW c \in Conn, written(c)
  PROVE  Iface!Deliver(c)
<1> DEFINE n == Len(wire[c] \o active[c])
<1>1. InOrder(c) /\ Waiting(c) /\ fd[c] # NoFd
  BY DEF ConnInv, ConnOK, Flow, Open, written
<1>2. wire[c] \in Seq(Packet) /\ active[c] \in Seq(Packet) /\ active[c] # <<>>
  BY DEF TypeOK, written
<1>3. /\ n = OnWire(c) + InFlight(c)
      /\ \A i \in 1 .. n : (wire[c] \o active[c])[i] = i
  BY <1>1, <1>2, NumberedConcat DEF InOrder, OnWire, InFlight
<1>4. wire[c] \o active[c] = [i \in 1 .. n |-> i]
  <2>1. wire[c] \o active[c] \in Seq(Packet)
    BY <1>2
  <2> QED
    BY <1>3, <2>1, Numbered
<1>5. n \in Len(wire[c]) + 1 .. accepted[c]
  <2>1. /\ OnWire(c) \in Nat /\ InFlight(c) \in Nat /\ Queued(c) \in Nat
        /\ accepted[c] \in Nat
    BY Lengths
  <2>2. InFlight(c) # 0
    BY <1>2 DEF InFlight
  <2>3. OnWire(c) + InFlight(c) + Queued(c) <= accepted[c]
    BY <1>1 DEF Waiting, Taken
  <2>4. n \in OnWire(c) + 1 .. accepted[c]
    <3> HIDE DEF n
    <3> QED
      BY <1>3, <2>1, <2>2, <2>3
  <2> QED
    BY <2>4 DEF OnWire
<1> HIDE DEF n
<1>6. wire' = [wire EXCEPT ![c] = [i \in 1 .. n |-> i]]
  BY <1>4 DEF written
<1>7. Finish(c, closesAfterWrite(c)) /\ UNCHANGED <<known, peer, accepted, promised>>
  BY DEF written
<1>8. known'[c] \in {"connected", "disconnected"}
  BY <1>1, <1>7 DEF ConnInv, ConnOK, Fresh, TypeOK, Knowledge
<1>9. Gone(c)' => Gone(c)
  BY <1>7 DEF Gone
<1>10. Iface!MayClose(c)
  BY <1>7, <1>8, <1>9, ClosedMayEnd, FinishMayClose
<1>11. IfaceSocket[c] = "open"
  BY <1>1 DEF IfaceSocket
<1> QED
  BY <1>5, <1>6, <1>7, <1>10, <1>11, IfaceSame DEF Iface!Deliver

\* The write that fails may close what the client left.
LEMMA WriteFailedRefines ==
  ASSUME TypeOK, NEW c \in Conn, writeFailed(c)
  PROVE  Iface!Close(c)
<1>1. Finish(c, FALSE) /\ UNCHANGED <<known, ghostVars>>
  BY DEF writeFailed
<1>2. fd[c] # NoFd => Gone(c)
  BY DEF writeFailed
<1>3. IfaceLeft' = IfaceLeft
  BY <1>2 DEF writeFailed, IfaceLeft, Gone, TypeOK
<1>4. Iface!MayClose(c)
  BY <1>1, <1>2, FinishMayClose
<1> QED
  BY <1>1, <1>3, <1>4, IfaceSame DEF ghostVars, Iface!Close

\* The read that ends tells the end, and may close.
LEMMA ReadEndsRefines ==
  ASSUME TypeOK, ConnInv, ConnInv', NEW c \in Conn, readFailed(c) \/ readMarked(c)
  PROVE  Iface!onClientDisconnected(c)
<1>1. /\ known[c] = "connected" /\ known' = [known EXCEPT ![c] = "disconnected"]
      /\ Finish(c, FALSE) /\ UNCHANGED <<peer, ghostVars>>
  BY DEF readFailed, readMarked, readEnds
<1>2. /\ IfaceReported[c] = "connected"
      /\ IfaceReported' = [IfaceReported EXCEPT ![c] = "disconnected"]
  BY <1>1 DEF IfaceReported, TypeOK
<1>3. Gone(c)' => Gone(c)
  BY <1>1 DEF Gone
<1>4. known'[c] = "disconnected"
  BY <1>1 DEF TypeOK
<1>5. Iface!MayClose(c)
  BY <1>1, <1>3, <1>4, ClosedMayEnd, FinishMayClose DEF ghostVars
<1>6. promised[c] # NotAsked \/ Gone(c)
  BY <1>1 DEF readFailed, readMarked, ConnInv, ConnOK, Asked, Graceful
<1>7. Iface!MayEnd(c)
  BY <1>6 DEF Iface!MayEnd, Iface!NotAsked, NotAsked, IfaceLeft
<1> QED
  BY <1>1, <1>2, <1>5, <1>7, IfaceSame DEF ghostVars, Iface!onClientDisconnected

\* The client leaves, or stalls, which the interface does not show.
LEMMA PeerRefines ==
  ASSUME TypeOK, NEW c \in Conn, peerCloses(c) \/ peerStalls(c)
  PROVE  Iface!Leave(c) \/ UNCHANGED Iface!vars
<1>1. CASE peerCloses(c)
  <2>1. IfaceSocket[c] = "open"
    BY <1>1 DEF peerCloses, IfaceSocket
  <2>2. IfaceLeft' = [IfaceLeft EXCEPT ![c] = TRUE]
    BY <1>1 DEF peerCloses, IfaceLeft, Gone, TypeOK
  <2> QED
    BY <1>1, <2>1, <2>2, IfaceSame DEF peerCloses, ghostVars, Iface!Leave
<1>2. CASE peerStalls(c)
  <2>1. IfaceLeft' = IfaceLeft
    BY <1>2 DEF peerStalls, IfaceLeft, Gone, TypeOK
  <2> QED
    BY <1>2, <2>1, IfaceSame DEF peerStalls, ghostVars, Iface!vars
<1> QED
  BY <1>1, <1>2

\* Every step of the server is a step of the interface, or nothing to it.
LEMMA IfaceNext == ServerInv /\ ServerInv' /\ [Next]_vars => [Iface!Next]_Iface!vars
<1> SUFFICES ASSUME ServerInv, ServerInv', [Next]_vars PROVE [Iface!Next]_Iface!vars
  OBVIOUS
<1>1. TypeOK /\ ConnInv /\ ConnInv'
  BY DEF ServerInv
<1>2. CASE UNCHANGED vars
  BY <1>1, <1>2, IfaceSame DEF vars, ghostVars, Iface!vars
<1>3. CASE Next
  BY <1>1, <1>3, AcceptRefines, AskRefines, SendImplRefines, DisconnectImplRefines,
     WrittenRefines, WriteFailedRefines, ReadEndsRefines, PeerRefines
  DEF Next, Iface!Next
<1> QED
  BY <1>2, <1>3

(***************************************************************************)
(* The TCP server implements what the interfaces promise of a connection:  *)
(* a growing prefix of what was sent is delivered, a connection is closed  *)
(* only on request and after what was sent before, or once its client      *)
(* left, and its end is told once.                                         *)
(***************************************************************************)
THEOREM Implementation == Spec => ImplementsConnection
<1>1. Init => Iface!Init
  BY IfaceInit
<1>2. ServerInv /\ ServerInv' /\ [Next]_vars => [Iface!Next]_Iface!vars
  BY IfaceNext
<1> QED
  BY <1>1, <1>2, ServerCorrect, PTL DEF Spec, ImplementsConnection, Iface!Spec
================================================================================
