------------------------------ MODULE OscServer ------------------------------
(***************************************************************************)
(* Reading of an OSC packet: oscpp/server.hpp on the ReadStream of         *)
(* oscpp/detail/stream.hpp.                                                *)
(*                                                                         *)
(* The caller walks the packet: it turns a Packet into a Bundle or a       *)
(* Message, takes the packets of a bundle and the arguments of a message   *)
(* one after the other, each by the call its tag asks for, goes into       *)
(* arrays, or drops arguments.  Streams are positions in bytes in the      *)
(* packet.  After an exception the caller gives up.                        *)
(***************************************************************************)
EXTENDS OscWords, FiniteSetsExt

CONSTANT Null           \* no packet is being read, nothing was returned

VARIABLES
  words,                \* the packet: an input
  length,               \* how many bytes of it the reader was given, or Null
  bundles,              \* PacketStreams of the bundles it is in, innermost last
  message,              \* ArgStreams of the message and of the arrays it is in
  ok,                   \* nothing has been thrown
  elements,             \* bundles and messages seen so far
  result                \* ghost: what the last call returned, or Null

readerVars == <<length, bundles, message, ok, elements, result>>

-----------------------------------------------------------------------------
(* Stream and BasicReadStream.                                             *)
Stream(first, last) == [begin |-> first, pos |-> first, end |-> last]
AtEnd(stream) == stream.pos = stream.end
ReadableAnyway(pos, n, end) == TRUE    \* mutant: the end is not looked at

(* checkReadable *)
Readable(pos, n, end) == pos + n <= end

Word(pos) == words[pos \div 4]
Words(pos, n) == [i \in 1 .. (n \div 4) |-> Word(pos + 4 * (i - 1))]
CharAt(pos) == Word(pos)[2 + (pos % 4)]
IsChars(pos) == Word(pos)[1] = "chars"

(* The words whose last byte is zero.  The second of a bundle's is, and    *)
(* the upper half of the time: it counts frames.                           *)
EndsString(word) ==
  \/ word[1] = "chars" /\ word[5] = NUL
  \/ word[1] = "string" /\ word[3] = SizeString(word[2]) \div 4
  \/ word \in {BundleWords[2], TimeWords[1]}

(* getString: the bytes it takes, or Null for an underrun.                 *)
StringLength(pos, end) ==
  LET lengths == {n \in 4 .. (end - pos) : n % 4 = 0 /\ EndsString(Word(pos + n - 4))}
  IN  IF lengths = {} THEN Null ELSE Min(lengths)

Number(pos) == Word(pos)[2]      \* getInt32, where a size was written

-----------------------------------------------------------------------------
Idle ==
  /\ length = Null
  /\ bundles = << >>
  /\ message = << >>
  /\ ok = TRUE
  /\ elements = 0
  /\ result = Null

Throw == ok' = FALSE /\ result' = Null /\ UNCHANGED <<bundles, message, elements>>

Return(index, tag, value) ==
  /\ result' = [element |-> elements', index |-> index, tag |-> tag, value |-> value]
  /\ ok' = TRUE

IsBundle(first, last) == last - first > 15 /\ Words(first, 8) = BundleWords

(* Packet(stream), and its conversion to a Bundle and on to packets().     *)
EnterBundle(outer, first, last) ==
  /\ IsBundle(first, last)
  /\ elements' = elements + 1
  /\ bundles' = Append(outer, Stream(first + SizeBundle, last))
  /\ Return(0, "bundle", Words(first + 8, 8))
  /\ UNCHANGED message

(* ... or to a Message: its address, and the ArgStream behind it.          *)
EnterMessage(outer, first, last) ==
  LET named == StringLength(first, last)
      signature == first + named
      signed == StringLength(signature, last)
      lengths == {n \in 0 .. (signed - 1) : CharAt(signature + n) = NUL}
  IN
  /\ ~IsBundle(first, last)
  /\ IF /\ named # Null
        /\ signed # Null
        /\ IsChars(signature)
        /\ CharAt(signature) = ","
     THEN /\ elements' = elements + 1
          /\ bundles' = outer
          /\ message' = << [tags |-> Stream(signature + 1, signature + Min(lengths)),
                            args |-> Stream(signature + signed, last)] >>
          /\ Return(0, "message", Words(first, named))
     ELSE Throw

(* The packet arrives.                                                     *)
Begin(n) ==
  /\ length = Null
  /\ length' = n
  /\ \/ EnterBundle(<< >>, 0, n)
     \/ EnterMessage(<< >>, 0, n)

-----------------------------------------------------------------------------
reading == length # Null /\ ok
innermost == bundles[Len(bundles)]
current == message[Len(message)]

(* PacketStream::next.                                                     *)
NextPacket ==
  LET first == innermost.pos + 4
      last == first + Number(innermost.pos)
      advanced == [bundles EXCEPT ![Len(bundles)].pos = last]
  IN
  /\ reading
  /\ message = << >>
  /\ bundles # << >>
  /\ ~AtEnd(innermost)
  /\ IF Readable(innermost.pos, 4, innermost.end) /\ last <= innermost.end
     THEN EnterBundle(advanced, first, last) \/ EnterMessage(advanced, first, last)
     ELSE Throw
  /\ UNCHANGED length

LeaveBundle ==
  /\ reading
  /\ message = << >>
  /\ bundles # << >>
  /\ AtEnd(innermost)
  /\ bundles' = SubSeq(bundles, 1, Len(bundles) - 1)
  /\ result' = Null
  /\ UNCHANGED <<length, message, ok, elements>>

-----------------------------------------------------------------------------
AfterBlobUnpadded(pos) == pos + 4 + Number(pos)          \* mutant: no padding
AfterBlob(pos) == pos + 4 + Align(Number(pos))

(* Where an argument ends that is not an array, or Null for an underrun.   *)
(* A tag the server does not know has no bytes.                            *)
AfterAtom(tag, pos, end) ==
  CASE tag \in {"i", "f"} -> IF Readable(pos, 4, end) THEN pos + 4 ELSE Null
    [] tag = "s" -> IF StringLength(pos, end) = Null THEN Null
                                                     ELSE pos + StringLength(pos, end)
    [] tag = "b" -> IF Readable(pos, 4, end) /\ AfterBlob(pos) <= end THEN AfterBlob(pos)
                                                                      ELSE Null
    [] OTHER -> pos

BracketsUnnested(level, tag) ==        \* mutant: the first bracket closes
  IF tag = "]" THEN -1 ELSE 0

Brackets(level, tag) ==
  level + (IF tag = "[" THEN 1 ELSE 0) - (IF tag = "]" THEN 1 ELSE 0)

(* dropArray, behind the opening bracket: read tags up to the one that     *)
(* closes the array, and the arguments with them.                          *)
Dropped(s, p, end) ==
  IF s.level < 0 \/ s.arg = Null THEN s
  ELSE [level |-> Brackets(s.level, CharAt(p)), tag |-> p + 1,
        arg |-> IF CharAt(p) \in {"[", "]"} THEN s.arg
                ELSE AfterAtom(CharAt(p), s.arg, end)]

AfterArray(stream) ==
  LET start == [level |-> 0, tag |-> stream.tags.pos + 1, arg |-> stream.args.pos]
      count == stream.tags.end - start.tag
      after[i \in 0 .. count] ==
        IF i = 0 THEN start ELSE Dropped(after[i - 1], start.tag + i - 1, stream.args.end)
  IN  after[count]

tag == CharAt(current.tags.pos)
index == current.tags.pos - message[1].tags.begin + 1

mayRead == reading /\ message # << >> /\ ~AtEnd(current.tags)

Advanced(tagPos, argPos) ==
  [message EXCEPT ![Len(message)].tags.pos = tagPos, ![Len(message)].args.pos = argPos]

(* int32, float32, string and blob.                                        *)
ReadArgument ==
  LET from == current.args.pos
      to == AfterAtom(tag, from, current.args.end)
  IN
  /\ mayRead
  /\ tag \in {"i", "f", "s", "b"}
  /\ IF to # Null
     THEN /\ message' = Advanced(current.tags.pos + 1, to)
          /\ UNCHANGED <<bundles, elements>>
          /\ Return(index, tag, Words(from, to - from))
     ELSE Throw
  /\ UNCHANGED length

(* array: an ArgStream on the array's own tags and arguments.              *)
ReadArray ==
  LET after == AfterArray(current)
      inside == [tags |-> Stream(current.tags.pos + 1, after.tag - 1),
                 args |-> Stream(current.args.pos, after.arg)]
  IN
  /\ mayRead
  /\ tag = "["
  /\ IF after.level < 0 /\ after.arg # Null
     THEN /\ message' = Append(Advanced(after.tag, after.arg), inside)
          /\ UNCHANGED <<bundles, elements>>
          /\ Return(index, tag, << >>)
     ELSE Throw
  /\ UNCHANGED length

(* drop: as far as reading goes, and nothing is returned.                  *)
DropArgument ==
  LET array == AfterArray(current)
      atom == AfterAtom(tag, current.args.pos, current.args.end)
      whole == IF tag = "[" THEN array.level < 0 /\ array.arg # Null ELSE atom # Null
  IN
  /\ mayRead
  /\ IF whole
     THEN /\ message' = IF tag = "[" THEN Advanced(array.tag, array.arg)
                                    ELSE Advanced(current.tags.pos + 1, atom)
          /\ result' = Null
          /\ UNCHANGED <<bundles, elements, ok>>
     ELSE Throw
  /\ UNCHANGED length

(* The end of an array or of a message.                                    *)
LeaveArguments ==
  /\ reading
  /\ message # << >>
  /\ AtEnd(current.tags)
  /\ message' = SubSeq(message, 1, Len(message) - 1)
  /\ result' = Null
  /\ UNCHANGED <<length, bundles, elements, ok>>

(* The caller is through, or gives up, and forgets the packet.             *)
finished == length # Null /\ (~ok \/ (bundles = << >> /\ message = << >>))

Finish ==
  /\ finished
  /\ length' = Null
  /\ bundles' = << >>
  /\ message' = << >>
  /\ ok' = TRUE
  /\ elements' = 0
  /\ result' = Null

ReaderStep ==
  \/ NextPacket
  \/ LeaveBundle
  \/ ReadArgument
  \/ ReadArray
  \/ DropArgument
  \/ LeaveArguments

-----------------------------------------------------------------------------
(***************************************************************************)
(* Type invariant.  Every stream lies in the packet, and one inside        *)
(* another: a bundle's element and an array end where the stream around    *)
(* them goes on.                                                           *)
(***************************************************************************)
Ordered(stream) == stream.begin <= stream.pos /\ stream.pos <= stream.end

StreamsNested ==
  length # Null =>
    /\ \A i \in DOMAIN bundles :
         /\ Ordered(bundles[i])
         /\ bundles[i].end = IF i = 1 THEN length ELSE bundles[i - 1].pos
    /\ \A i \in DOMAIN message :
         /\ Ordered(message[i].tags)
         /\ Ordered(message[i].args)
         /\ message[i].tags.end < message[i].args.begin
         /\ i > 1 => /\ message[i].args.end = message[i - 1].args.pos
                     /\ message[i].tags.end = message[i - 1].tags.pos - 1
    /\ message # << >> =>
         message[1].args.end = IF bundles = << >> THEN length ELSE innermost.pos
=============================================================================
