------------------------------ MODULE MCRequests ------------------------------
(* A small instance of Requests for TLC. *)
EXTENDS Requests

\* Strings as they are, and data that is short, too long or no string at all.
MCData == {<<>>, <<0>>, <<65>>, <<2, 65>>, <<1, 65, 66>>, <<255>>}

\* Within the hotbar, next to it, and numbers whose lowest byte is within.
MCSlot == {0, 8, 9, -1, 256, -32768}

\* Within the limits, at them, beyond them and below zero.
MCStatus == {0, 1, 6, 7, -1}
MCFace == {0, 5, 6, -1}

==============================================================================
