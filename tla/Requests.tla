-------------------------------- MODULE Requests --------------------------------
(***************************************************************************)
(* The packets of a player that concern only its own session, and what is  *)
(* refused in them: the brand of the client (StateMachine::onPacket,       *)
(* PLAY_INIT), and in PLAY windows, abilities, the held item, animations,  *)
(* the use of items, status codes of digging, and the packets that are     *)
(* read and dropped.                                                       *)
(***************************************************************************)
EXTENDS Fields

CONSTANTS Channel,  \* plugin channels, Brand among them
          Brand,    \* PLUGIN_CHANNEL_MINECRAFT_BRAND
          Data,     \* bound: the data of plugin messages, byte strings
          Window,   \* bound: the windows a client closes
          Slot,     \* bound: the slots it selects, each an Int16
          Hand,     \* bound: the hands it uses
          Status,   \* bound: the status codes of digging, each an Int32
          Face,     \* bound: the faces of blocks, each an Int8
          Flags     \* bound: the flags of abilities, each a UInt8

ASSUME RequestAssumption == Brand \in Channel /\ 0 \in Window

\* What the packets hold: numbers, and data within a packet's length, 1019.
ASSUME RangeAssumption ==
  /\ Slot \subseteq Int /\ Hand \subseteq Int /\ Status \subseteq Int /\ Face \subseteq Int
  /\ \A data \in Data : data \in Seq(Byte) /\ Len(data) <= 1019

VARIABLES
  phase,         \* _phase, from PLAY_INIT on
  clientBrand,   \* the fields of _playerState
  openWindow,
  abilityFlags,
  heldItemSlot,
  swung,         \* animations the players around were sent
  closing,       \* disconnect was called
  lawful,        \* the client has kept to the protocol
  negative       \* it has dug with a negative status or face

requestVars == <<phase, clientBrand, openWindow, abilityFlags, heldItemSlot, swung,
          closing, lawful, negative>>

\* The client asks for something that the protocol allows or not, and the
\* handler grants or refuses it.
Judge(allowed, granted) ==
  /\ lawful' = (lawful /\ allowed)
  /\ closing' = (closing \/ ~granted)

RequestInit ==
  /\ phase = "PLAY_INIT"
  /\ clientBrand = <<>>
  /\ openWindow = 0
  /\ abilityFlags = 15
  /\ heldItemSlot = 0
  /\ swung = {}
  /\ closing = FALSE
  /\ lawful = TRUE
  /\ negative = FALSE
------------------------------------------------------------------------------
\* The client's brand: a string that fills the data.
isBrand(data) ==
  LET brand == deserializeString(data)
  IN brand.status = "OK" /\ brand.size = Len(data)

\* Clients write the length of a text in as few bytes as it takes, as
\* serializeString does, and Data has the text if it has the bytes.
ASSUME BrandAssumption ==
  \A data \in Data : isBrand(data) => \E text \in Data : data = serializeString(text)

PluginMessage(channel, data) ==
  LET granted == channel = Brand => isBrand(data)
  IN /\ phase = "PLAY_INIT"
     /\ Judge(channel = Brand => \E text \in Data : data = serializeString(text), granted)
     /\ clientBrand' = IF channel = Brand /\ granted
                       THEN deserializeString(data).value ELSE clientBrand
     /\ UNCHANGED <<phase, openWindow, abilityFlags, heldItemSlot, swung, negative>>

\* TeleportConfirm of the id that was sent (see StateMachine).
Confirm ==
  /\ phase = "PLAY_INIT"
  /\ phase' = "PLAY"
  /\ UNCHANGED <<clientBrand, openWindow, abilityFlags, heldItemSlot, swung,
                 closing, lawful, negative>>

\* The payload of any packet is malformed (see Fields).
Malformed ==
  /\ Judge(FALSE, FALSE)
  /\ UNCHANGED <<phase, clientBrand, openWindow, abilityFlags, heldItemSlot, swung,
                 negative>>
------------------------------------------------------------------------------
\* CloseWindow: no handler ever opens one; the inventory, 0, needs none.
CloseWindow(window) ==
  LET granted == window = 0 \/ openWindow = window
  IN /\ phase = "PLAY"
     /\ Judge(window = 0, granted)
     /\ openWindow' = IF granted /\ window # 0 THEN 0 ELSE openWindow
     /\ UNCHANGED <<phase, clientBrand, abilityFlags, heldItemSlot, swung, negative>>

PlayerAbilities(flags) ==
  /\ phase = "PLAY"
  /\ abilityFlags' = flags
  /\ UNCHANGED <<phase, clientBrand, openWindow, heldItemSlot, swung, closing,
                 lawful, negative>>

\* A mutant of slotAllowed: only the upper limit is checked.
slotAllowedUpper(slot) == slot <= 8

slotAllowed(slot) == ~ (slot < 0 \/ slot > 8)

HeldItemChange(slot) ==
  /\ phase = "PLAY"
  /\ Judge(slot \in 0 .. 8, slotAllowed(slot))
  /\ heldItemSlot' = IF slotAllowed(slot) THEN slot % 256 ELSE heldItemSlot
  /\ UNCHANGED <<phase, clientBrand, openWindow, abilityFlags, swung, negative>>

handAllowed(hand) == hand = 0 \/ hand = 1

\* Animation: the players around are sent one of two animations.
Animation(hand) ==
  /\ phase = "PLAY"
  /\ Judge(hand \in {0, 1}, handAllowed(hand))
  /\ swung' = IF handAllowed(hand)
              THEN swung \cup {IF hand = 0 THEN 0 ELSE 3} ELSE swung
  /\ UNCHANGED <<phase, clientBrand, openWindow, abilityFlags, heldItemSlot,
                 negative>>

UseItem(hand) ==
  /\ phase = "PLAY"
  /\ Judge(hand \in {0, 1}, handAllowed(hand))
  /\ UNCHANGED <<phase, clientBrand, openWindow, abilityFlags, heldItemSlot, swung,
                 negative>>

\* The checks at the head of PlayerDigging: negative numbers pass them, and a
\* status other than 0 does nothing.  What a 0 does is Terrain's subject.
digAllowed(status, face) == status <= 6 /\ face <= 5

PlayerDigging(status, face) ==
  /\ phase = "PLAY"
  /\ status # 0
  /\ Judge(status \in 0 .. 6 /\ face \in 0 .. 5, digAllowed(status, face))
  /\ negative' = (negative \/ status < 0 \/ face < 0)
  /\ UNCHANGED <<phase, clientBrand, openWindow, abilityFlags, heldItemSlot, swung>>

RequestNext ==
  \/ \E channel \in Channel, data \in Data \cup {serializeString(t) : t \in Data} :
       PluginMessage(channel, data)
  \/ Confirm
  \/ Malformed
  \/ \E window \in Window : CloseWindow(window)
  \/ \E flags \in Flags : PlayerAbilities(flags)
  \/ \E slot \in Slot : HeldItemChange(slot)
  \/ \E hand \in Hand : Animation(hand) \/ UseItem(hand)
  \/ \E status \in Status, face \in Face : PlayerDigging(status, face)

RequestSpec == RequestInit /\ [][RequestNext]_requestVars
------------------------------------------------------------------------------
(***************************************************************************)
(* A client is disconnected when it breaks the protocol and only then: no  *)
(* handler refuses what it should grant, or grants what it should refuse,  *)
(* whatever came before.  There is one exception: negative numbers in      *)
(* PlayerDigging pass the checks, which look at the upper limit of a       *)
(* signed number only (statemachine.cpp:495 and 501).                      *)
(***************************************************************************)
KickExact ==
  /\ closing => ~lawful
  /\ ~lawful => closing \/ negative

==============================================================================
