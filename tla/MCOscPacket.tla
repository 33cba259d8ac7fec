----------------------------- MODULE MCOscPacket -----------------------------
(***************************************************************************)
(* OscPacket with two addresses of one and two words and three arguments:  *)
(* a number, a blob of five bytes and the bracket of an array.             *)
(***************************************************************************)
EXTENDS OscPacket

Lengths == [s \in Strings |-> IF s = "/a" THEN 2 ELSE 5]

Number == [tag |-> "i", head |-> << <<"int32", 1>> >>, data |-> << >>]
Blob == [tag |-> "b", head |-> << <<"int32", 5>> >>,
         data |-> << <<"blob", 1>>, <<"blob", 2>> >>]
Bracket == [tag |-> "[", head |-> << >>, data |-> << >>]

Arguments == {Number, Blob, Bracket}
=============================================================================
