--------------------------------- MODULE MCWire ---------------------------------
(***************************************************************************)
(* What goes over the wire, part by part: the variable-length integers,    *)
(* the stream of packets, the payloads, the structures in them and what is *)
(* packed bit by bit.  A behaviour is one of the part it is about; the     *)
(* variables of the others rest.                                           *)
(***************************************************************************)
EXTENDS MCVarInt, MCPacketReader, MCFields, MCStructures, MCBits

VARIABLE part

Part == {"integers", "stream", "payloads", "structures", "bits"}

WireInit ==
  /\ part \in Part
  /\ VarIntInit
  /\ Init /\ (part # "stream" => sent = <<>>)
  /\ FieldInit
  /\ StructureInit
  /\ BitInit

WireNext ==
  \/ /\ part = "integers"
     /\ VarIntNext
     /\ UNCHANGED <<part, vars, fieldVars, structureVars, bitVars>>
  \/ /\ part = "stream"
     /\ Next
     /\ UNCHANGED <<part, value, fieldVars, structureVars, bitVars>>
  \/ /\ part = "payloads"
     /\ FieldNext
     /\ UNCHANGED <<part, value, vars, structureVars, bitVars>>
  \/ /\ part = "structures"
     /\ StructureNext
     /\ UNCHANGED <<part, value, vars, fieldVars, bitVars>>
  \/ /\ part = "bits"
     /\ BitNext
     /\ UNCHANGED <<part, value, vars, fieldVars, structureVars>>

wireVars == <<part, value, vars, fieldVars, structureVars, bitVars>>

WireSpec == WireInit /\ [][WireNext]_wireVars

==============================================================================
