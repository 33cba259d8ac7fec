---------------------------- MODULE OscRoundTrip ----------------------------
(***************************************************************************)
(* A packet is built with oscpp/client.hpp and read with oscpp/server.hpp. *)
(* What arrives may be cut: the reader is told the number of bytes it has. *)
(* The reader is any caller, or the printer of oscpp/print.hpp.            *)
(* The writer is any caller (RoundTrip) or makeOscPacket (ProgramTrip).    *)
(***************************************************************************)
EXTENDS MakeOscPacket

CONSTANT Cuts           \* how many bytes the packet may lose at its end

ASSUME CutsAssumption == Cuts \subseteq Nat

(* What the calls of Packet write for an argument of each type.            *)
ASSUME ArgsAssumption ==
  \A arg \in Args :
    /\ arg.tag \in {"i", "f"} => Len(arg.head) = 1 /\ arg.data = << >>
    /\ arg.tag = "s" => arg.head = << >> /\ \E s \in Strings : arg.data = StringWords(s)
    /\ arg.tag = "b" => /\ Len(arg.head) = 1
                       /\ arg.head[1][2] \in Nat
                       /\ 4 * Len(arg.data) = Align(arg.head[1][2])
    /\ arg.tag \in {"[", "]"} => arg.head = << >> /\ arg.data = << >>

VARIABLES length, bundles, message, ok, elements, result, out

Reader == INSTANCE OscPrint WITH words <- args.data

readerVars == <<length, bundles, message, ok, elements, result, out>>
tripVars == <<scriptVars, readerVars>>

-----------------------------------------------------------------------------
(***************************************************************************)
(* The caller keeps its side: every message has the arguments it was       *)
(* announced with, and every array is closed.                              *)
(***************************************************************************)
Count(put, c, i) == Cardinality({j \in 1 .. i : put[j].tag = c})

WellFormed(m) ==
  /\ Len(m.put) = m.numTags
  /\ \A i \in DOMAIN m.put : Count(m.put, "[", i) >= Count(m.put, "]", i)
  /\ Count(m.put, "[", Len(m.put)) = Count(m.put, "]", Len(m.put))

complete == args.ok /\ open = << >> /\ closed # {}

Deliver ==
  /\ complete
  /\ \E cut \in {n \in Cuts : n < args.pos} :
       \/ Reader!Begin(args.pos - cut) /\ out' = Null
       \/ Reader!BeginPrint(args.pos - cut)
  /\ UNCHANGED scriptVars

Read ==
  /\ \/ out = Null /\ Reader!ReaderStep /\ UNCHANGED out
     \/ Reader!PrintStep
  /\ UNCHANGED scriptVars

Finish == Reader!Finish /\ out' = Null /\ UNCHANGED scriptVars

Write ==
  /\ length = Null
  /\ Next
  /\ UNCHANGED <<step, readerVars>>

RoundTripInit == Init /\ step = 1 /\ Reader!Idle /\ out = Null

RoundTripNext ==
  \/ Write
  \/ (\A m \in closed : m.kind = "message" => WellFormed(m)) /\ Deliver
  \/ Read
  \/ Finish

RoundTrip == RoundTripInit /\ [][RoundTripNext]_tripVars

ProgramNext ==
  \/ length = Null /\ ScriptNext /\ UNCHANGED readerVars
  \/ step = Len(Calls) + 1 /\ Deliver
  \/ Read
  \/ Finish

ProgramTrip == RoundTripInit /\ [][ProgramNext]_tripVars

-----------------------------------------------------------------------------
(* The elements of the packet in the order of their places.                *)
Rank(e) == Cardinality({o \in closed : o.first <= e.first})
Nth(k) == CHOOSE e \in closed : Rank(e) = k

Around(e) ==
  {b \in closed : b.kind = "bundle" /\ b # e /\ b.first <= e.first /\ e.last <= b.last}

Heading(e) == IF e.kind = "bundle" THEN TimeWords ELSE StringWords(e.addr)

(***************************************************************************)
(* What a reader gets is what was put, at its place: the element it is in  *)
(* (its kind, its address, how many bundles are around it) and the         *)
(* argument with its number, whatever it dropped before and whatever is    *)
(* missing at the end of the packet.                                       *)
(* (client.hpp:133-311 against server.hpp:53-465)                          *)
(***************************************************************************)
ReadsBack ==
  length # Null /\ result # Null =>
    LET e == Nth(result.element) IN
    /\ result.element <= Cardinality(closed)
    /\ IF result.index > 0
       THEN /\ result.index <= Len(e.put)
            /\ result.tag = e.put[result.index].tag
            /\ result.value = e.put[result.index].head \o e.put[result.index].data
       ELSE /\ result.tag = e.kind
            /\ result.value = Heading(e)
            /\ Len(bundles) = Cardinality(Around(e)) + (IF e.kind = "bundle" THEN 1 ELSE 0)

(***************************************************************************)
(* A packet that arrives whole is read without an exception, to its last   *)
(* element and its last byte, also when arguments are dropped.             *)
(***************************************************************************)
ReadsAll ==
  length = args.pos =>
    /\ ok
    /\ Reader!finished => elements = Cardinality(closed)
    /\ \A i \in DOMAIN message :
         Reader!AtEnd(message[i].tags) => Reader!AtEnd(message[i].args)

(***************************************************************************)
(* The text of a packet: every element at its depth, its arguments, and    *)
(* the ends of the bundles of which it is the last.                        *)
(***************************************************************************)
Level(e) == Cardinality(Around(e)) + (IF e.kind = "bundle" THEN 1 ELSE 0)

Token(arg) ==
  <<arg.tag, IF arg.tag = "b" THEN arg.head ELSE arg.head \o arg.data>>

Body(e) ==
  << <<e.kind, 4 * Cardinality(Around(e)), Heading(e)>> >>
    \o [i \in DOMAIN e.put |-> Token(e.put[i])]

EndingWith(e) == {b \in Around(e) \cup {e} : b.kind = "bundle" /\ b.last = e.last}

Endings(e) ==
  IF \E o \in closed : e \in Around(o) THEN << >>
  ELSE [i \in 1 .. Cardinality(EndingWith(e)) |-> <<"end", 4 * (Level(e) - i), << >> >>]

Printed(e) == Body(e) \o Endings(e)

TextUpTo(n) == FlattenSeq([k \in 1 .. n |-> Printed(Nth(k))])

Inner(text) ==
  FlattenSeq([i \in DOMAIN text |-> IF text[i][1] = "end" THEN << >> ELSE << text[i] >>])

(* An exception leaves the label of the argument that was being read.      *)
Begins(text, full) ==
  /\ Len(text) <= Len(full)
  /\ \A i \in DOMAIN text :
       \/ text[i] = full[i]
       \/ ~ok /\ i = Len(text) /\ text[i] = <<full[i][1], << >> >>

(***************************************************************************)
(* What is printed is that text: all of it if the packet is whole, and     *)
(* only what the packet has up to where it was cut - but a bundle that     *)
(* lost its last elements ends without them, and of an argument that is    *)
(* cut only the label is printed. (print.hpp:72-179)                       *)
(***************************************************************************)
PrintsBack ==
  length # Null /\ out # Null =>
    LET whole == TextUpTo(Cardinality(closed)) IN
    /\ Begins(Inner(out), Inner(whole))
    /\ length = args.pos => IsPrefix(out, whole)
    /\ length = args.pos /\ Reader!finished => out = whole

(* Streams stay inside each other, also in a packet that was cut.          *)
(* (stream.hpp:61-67, server.hpp:183-198, 425-431)                         *)
StreamsNested == Reader!StreamsNested

(***************************************************************************)
(* "Retrieve typed arguments from an incoming message" (server.hpp:40):    *)
(* the reader of a packet of the program gets the features that            *)
(* makeOscPacket put, each as the argument it was.                         *)
(***************************************************************************)
FeaturesReadBack == ReadsBack
=============================================================================
