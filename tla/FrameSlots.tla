------------------------------ MODULE FrameSlots ------------------------------
(***************************************************************************)
(* What the program does with frames, without queues, sessions or samples: *)
(* a channel collects FramesPerSuperframe of them, and each time it has    *)
(* that many a packet is made of exactly these.  A frame is taken from the *)
(* channel's supply and from then on is in no supply: it is used once.     *)
(* Only a restart forgets any.  A slot names the frame that the first      *)
(* cells of the array came from; those behind the latest frame hold it.    *)
(***************************************************************************)
EXTENDS Integers

CONSTANTS
  Channels,
  FramesPerSuperframe,
  Nothing               \* a slot without a frame, no packet

VARIABLES
  supply,               \* an input: the frames channel c may still be given
  slots,                \* slots[c][k]: the frame in slot k
  offsets,              \* offsets[c]: how many frames channel c has collected
  packet                \* what the last packet was made of

vars == <<supply, slots, offsets, packet>>

Slots == 0 .. (FramesPerSuperframe - 1)

Init ==
  /\ slots = [c \in Channels |-> [k \in Slots |-> Nothing]]
  /\ offsets = [c \in Channels |-> 0]
  /\ packet = Nothing

Collected(c, frame) ==
  [k \in Slots |-> IF k < offsets[c] THEN slots[c][k] ELSE frame]

Merge(c, frame) ==
  LET full == offsets[c] = FramesPerSuperframe - 1 IN
  /\ frame \in supply[c]
  /\ \A e \in Channels : frame \notin supply'[e]
  /\ slots' = [slots EXCEPT ![c] = Collected(c, frame)]
  /\ offsets' = [offsets EXCEPT ![c] = IF full THEN 0 ELSE @ + 1]
  /\ packet' = IF full THEN Collected(c, frame) ELSE packet

Restart ==
  /\ slots' = [c \in Channels |-> [k \in Slots |-> Nothing]]
  /\ offsets' = [c \in Channels |-> 0]
  /\ packet' = Nothing

(* The frame that is merged is in the last slot afterwards.  What supplies *)
(* the frames never offers one again, whatever it does meanwhile.          *)
Next ==
  /\ \/ \E c \in Channels : Merge(c, slots'[c][FramesPerSuperframe - 1])
     \/ Restart
     \/ UNCHANGED <<slots, offsets, packet>>
  /\ \A c \in Channels : supply'[c] \subseteq supply[c]

Spec == Init /\ [][Next]_vars
=============================================================================
