--------------------------- MODULE MCOscRoundTrip ---------------------------
(***************************************************************************)
(* OscRoundTrip with numbers, a string, a blob with padding and arrays.    *)
(***************************************************************************)
EXTENDS OscRoundTrip

ShortLengths == [s \in Strings |-> IF s = "/a" THEN 2 ELSE 5]

Number == [tag |-> "i", head |-> << <<"int32", 1>> >>, data |-> << >>]
Text == [tag |-> "s", head |-> << >>, data |-> StringWords("/meta")]
Blob == [tag |-> "b", head |-> << <<"int32", 5>> >>,
         data |-> << <<"blob", 1>>, <<"blob", 2>> >>]
Bracket(c) == [tag |-> c, head |-> << >>, data |-> << >>]

SomeArguments == {Number, Text, Blob, Bracket("["), Bracket("]")}

(* Those of makeOscPacket.                                                 *)
FiveLetters == {"/meta", "/time", "/freq", "/mfcc"}
AddressNames == {"/meta", "/time", "/freq", "/mfcc", "/onset", "/pitch"}
Lengths == [s \in AddressNames |-> IF s \in FiveLetters THEN 5 ELSE 6]
Integer == [tag |-> "i", head |-> << <<"int32", 1>> >>, data |-> << >>]
Float == [tag |-> "f", head |-> << <<"float32", 1>> >>, data |-> << >>]
ProgramArguments == {Integer, Float}
=============================================================================
