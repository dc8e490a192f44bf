----------------------------- MODULE PacketReader -----------------------------
(***************************************************************************)
(* The packet reader of a connection (proxyd/packetreader.hpp): a client   *)
(* writes a stream of packets, reads deliver it in pieces cut anywhere,    *)
(* and the reader hands the frames it finds to onPacket.                   *)
(***************************************************************************)
EXTENDS Framing, SequencesExt

CONSTANTS Frame,       \* the packets clients send: records [id, data]
          RawPacket,   \* byte strings clients send in place of a packet
          MaxPackets,  \* bound: packets in the stream
          ReadSize     \* the size of the read buffer, 4096 in the code

ASSUME StreamAssumption == MaxPackets \in Nat /\ ReadSize \in Nat \ {0}

VARIABLES
  sent,        \* what the client sends, packet by packet, in bytes
  received,    \* how many bytes of it have been read
  buffer,      \* _readBuffer
  dispatched,  \* the frames handed to onPacket
  failed,      \* _onError was called: a disconnect is on its way
  split        \* a read began with bytes left in the buffer

vars == <<sent, received, buffer, dispatched, failed, split>>

\* The packets of clients that keep to the format.
WellFormed == {serializePacket(f) : f \in Frame}

Stream == FlattenSeq(sent)
------------------------------------------------------------------------------
\* The loop of onBytesReceived over the window: the frames found, the status
\* that ended it and the bytes that were not consumed.
parse(window) ==
  LET from[i \in 0 .. Len(window)] ==
        LET next == deserializePacketFrame(SubSeq(window, i + 1, Len(window)))
        IN IF next.status = "OK"
           THEN [from[i + next.size] EXCEPT !.frames = <<next.frame>> \o @]
           ELSE [frames |-> <<>>, status |-> next.status, left |-> Len(window) - i]
  IN from[0]

\* What the loop looks at: `size` is the size of the data just read, not of
\* the buffer it was appended to.
Window(all, size) == SubSeq(all, 1, size)

(***************************************************************************)
(* onBytesReceived(data).  When the loop runs out of data, all but the     *)
(* last `left` bytes of the buffer are discarded; on an error nothing is.  *)
(***************************************************************************)
onBytesReceived(data) ==
  LET all == buffer \o data
      result == parse(Window(all, Len(data)))
  IN /\ dispatched' = dispatched \o result.frames
     /\ buffer' = IF result.status = "INCOMPLETE"
                  THEN SubSeq(all, Len(all) - result.left + 1, Len(all))
                  ELSE all
     /\ failed' = (failed \/ result.status = "INVALID")

(***************************************************************************)
(* A read delivers the next n bytes of the stream.  After an error none    *)
(* does: the disconnect was posted before the next read was started, and   *)
(* the marker is set when that read completes.                             *)
(***************************************************************************)
Receive(n) ==
  /\ ~failed
  /\ n <= ReadSize
  /\ received + n <= Len(Stream)
  /\ received' = received + n
  /\ split' = (split \/ buffer # <<>>)
  /\ onBytesReceived(SubSeq(Stream, received + 1, received + n))
  /\ UNCHANGED sent

Init ==
  /\ sent \in SeqOf(WellFormed \cup RawPacket, MaxPackets)
  /\ received = 0
  /\ buffer = <<>>
  /\ dispatched = <<>>
  /\ failed = FALSE
  /\ split = FALSE

Next == \E n \in 1 .. Len(Stream) : Receive(n)

Spec == Init /\ [][Next]_vars
------------------------------------------------------------------------------
\* The packets that were received to the end.
Complete ==
  LET end(k) == Len(FlattenSeq(SubSeq(sent, 1, k)))
  IN SubSeq(sent, 1,
            CHOOSE k \in 0 .. Len(sent) :
              /\ end(k) <= received
              /\ k < Len(sent) => end(k + 1) > received)

\* The frames that packets of clients that keep to the format stand for.
FrameOf(packet) == CHOOSE f \in Frame : serializePacket(f) = packet
Frames(packets) == [i \in 1 .. Len(packets) |-> FrameOf(packets[i])]

(***************************************************************************)
(* As long as every read begins with an empty buffer, exactly the complete *)
(* packets are handled, however many a read holds and wherever it ends,    *)
(* and the rest of the last one is kept.  A length that is out of range is *)
(* reported as soon as its last byte is there, after the packets before    *)
(* it, and nothing else is ever reported (the loop of packetreader.hpp:33  *)
(* with framing.hpp).                                                      *)
(***************************************************************************)
ExactUntilSplit ==
  ~split =>
    LET bad == {i \in 1 .. Len(Complete) : Complete[i] \notin WellFormed}
        good == IF bad = {} THEN Complete ELSE SubSeq(Complete, 1, Min(bad) - 1)
    IN /\ dispatched = Frames(good)
       /\ failed <=> bad # {}
       /\ ~failed =>
            FlattenSeq(Complete) \o buffer = SubSeq(Stream, 1, received)

(***************************************************************************)
(* What framing.hpp:29 says of the stream, "packet format: [length, id,    *)
(* data]": a client that keeps to it has its packets, and nothing else,    *)
(* handled, wherever the reads cut the stream.  Refuted: after a read that *)
(* began with bytes left over, packetreader.hpp:29 looks at as many bytes  *)
(* as were just read, from the start of the buffer, and line 42 discards   *)
(* bytes nobody has looked at.                                             *)
(***************************************************************************)
FramesFollowFormat == IsPrefix(dispatched, Frames(sent))

(***************************************************************************)
(* What framing.hpp:42 says once the length's bytes are there, "at this    *)
(* point we have consumed the entire packet from the buffer": a read that  *)
(* ends with a packet leaves nothing in the buffer, or reports an error.   *)
(* Refuted: a packet too short for its id is reported as incomplete, never *)
(* as invalid, and stays at the head of the buffer for good.               *)
(***************************************************************************)
WholePacketConsumed ==
  ~split /\ FlattenSeq(Complete) = SubSeq(Stream, 1, received) =>
    buffer = <<>> \/ failed

==============================================================================
