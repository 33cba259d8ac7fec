--------------------------- MODULE MCMakeOscPacket ---------------------------
(***************************************************************************)
(* MakeOscPacket with the addresses and the sizes of the program.          *)
(***************************************************************************)
EXTENDS MakeOscPacket

FiveLetters == {"/meta", "/time", "/freq", "/mfcc"}
AddressNames == {"/meta", "/time", "/freq", "/mfcc", "/onset", "/pitch"}
Lengths == [s \in AddressNames |-> IF s \in FiveLetters THEN 5 ELSE 6]
Integer == [tag |-> "i", head |-> << <<"int32", 1>> >>, data |-> << >>]
Float == [tag |-> "f", head |-> << <<"float32", 1>> >>, data |-> << >>]
Arguments == {Integer, Float}
=============================================================================
