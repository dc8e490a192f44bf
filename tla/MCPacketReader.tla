---------------------------- MODULE MCPacketReader ----------------------------
(* Small instances of PacketReader for TLC. *)
EXTENDS PacketReader

\* Packets without data, with data and with an id of two bytes.
MCFrame == {[id |-> 0, data |-> <<>>],
            [id |-> 1, data |-> <<2, 0>>],
            [id |-> 300, data |-> <<1>>]}

\* Lengths out of range: 1020 and -1.
MCOutOfRange == {<<252, 7>>, <<255, 255, 255, 255, 15>>}

\* Packets too short for their id: no byte, and the first of two bytes.
MCShort == {<<0>>, <<1, 128>>}

==============================================================================
