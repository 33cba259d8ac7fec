------------------------------ MODULE OscPacket ------------------------------
(***************************************************************************)
(* Construction of an OSC packet: class Packet of oscpp/client.hpp on the  *)
(* streams of oscpp/detail/stream.hpp, with the sizes of oscpp/util.hpp.   *)
(*                                                                         *)
(* The buffer is a row of the words of OscWords; positions are in bytes    *)
(* from its start, as in the code.  The size of an element is only known   *)
(* when it is closed: openBundle and openMessage leave a slot for it.  The *)
(* slots of the open bundles form a list, each holding the offset of the   *)
(* one around it, until closeBundle overwrites it with the size.           *)
(*                                                                         *)
(* An exception leaves what was written before it, and the caller gives up *)
(* on the packet: the buffer is used again after reset().                  *)
(***************************************************************************)
EXTENDS OscWords, SequencesExt


CONSTANTS
  Addresses,            \* those used as addresses
  Args,                 \* arguments: [tag, head, data] as written by Packet
  TagCounts,            \* numTags the caller announces
  Capacities,           \* sizes of buffers in bytes
  Alignments,           \* whether buffers start at a multiple of four
  Surplus,              \* the caller may put more arguments than it announced
  Null,                 \* a null pointer
  MaxDepth              \* bound: bundles nested in each other

(* int32, float32, string, blob, and the two brackets of an array.         *)
ArgTags == {"i", "f", "s", "b", "[", "]"}

ASSUME CallerAssumption ==
  /\ Addresses \subseteq Strings
  /\ Args \subseteq [tag : ArgTags, head : Seq(NumberWords), data : Seq(TextWords)]
  /\ TagCounts \subseteq Nat
  /\ Capacities \subseteq Nat
  /\ Alignments \subseteq BOOLEAN
  /\ Surplus \in BOOLEAN
  /\ MaxDepth \in Nat
  /\ Null \notin Int

VARIABLES
  capacity,             \* m_capacity
  aligned,              \* of m_buffer: so are the positions, multiples of four
  args,                 \* m_args: the buffer, its position, no exception so far
  tags,                 \* m_tags: the stream of type tags of the message
  sizePosM,             \* slot of the open message
  sizePosB,             \* slot of the innermost open nested bundle
  inBundle,             \* nesting depth
  open,                 \* ghost: the elements that are open, outermost first
  closed,               \* ghost: the elements that are closed
  needed                \* ghost: bytes the calls made so far take by util.hpp

vars == <<capacity, aligned, args, tags, sizePosM, sizePosB, inBundle, open, closed, needed>>

-----------------------------------------------------------------------------
(* BasicWriteStream: a write that does not fit throws and changes nothing. *)
WordsAt(data, pos, words) ==
  LET first == pos \div 4 IN
  [i \in DOMAIN data |-> IF i \in first .. (first + Len(words) - 1)
                         THEN words[i - first + 1]
                         ELSE data[i]]

(* Mutants: a word too much is let through, an exact fit is refused.       *)
FitsOneMore(stream, n) == stream.ok /\ capacity - stream.pos >= n - 4
FitsBelow(stream, n) == stream.ok /\ capacity - stream.pos > n

(* checkWritable *)
Fits(stream, n) == stream.ok /\ capacity - stream.pos >= n

Put(stream, words) ==
  IF Fits(stream, 4 * Len(words))
  THEN [stream EXCEPT !.data = WordsAt(@, stream.pos, words),
                      !.pos = @ + 4 * Len(words)]
  ELSE [stream EXCEPT !.ok = FALSE]

(* skip: like a write, but the word keeps what it held.                    *)
Skip(stream) ==
  IF Fits(stream, 4) THEN [stream EXCEPT !.pos = @ + 4]
                     ELSE [stream EXCEPT !.ok = FALSE]

(* Mutants: the slot is counted, the position is not restored.             *)
PutSizeOfAll(stream, slot) ==
  [stream EXCEPT !.data = WordsAt(@, slot, << Size(stream.pos - slot) >>)]
PutSizeAndStay(stream, slot) ==
  [stream EXCEPT !.data = WordsAt(@, slot, << Size(stream.pos - slot - 4) >>),
                 !.pos = slot + 4]

(* setPos back to a slot, putInt32, and setPos to where the stream was.    *)
PutSize(stream, slot) ==
  IF aligned
  THEN [stream EXCEPT !.data = WordsAt(@, slot, << Size(stream.pos - slot - 4) >>)]
  ELSE [stream EXCEPT !.pos = slot, !.ok = FALSE]

(* putChar on the tag stream, which lies in the same buffer.               *)
PutChar(stream, at, c) ==
  [stream EXCEPT !.data[at \div 4][2 + (at % 4)] = c]

Throw(stream) == [stream EXCEPT !.ok = FALSE]

PutNumberAnywhere(stream, words) == Put(stream, words)    \* mutant: no check

(* putInt32 and putFloat32, if there is a number to put.                   *)
PutNumber(stream, words) ==
  IF aligned \/ words = << >> THEN Put(stream, words) ELSE Throw(stream)

NoTags == [begin |-> 0, end |-> 0, pos |-> 0]

-----------------------------------------------------------------------------
(* A word nobody has written since the packet was begun: what it held      *)
(* before says nothing about this packet.                                  *)
Fresh(bytes) == [data |-> [i \in 0 .. (bytes \div 4 - 1) |-> Stale], pos |-> 0, ok |-> TRUE]

(* The constructors and reset(), on a buffer that may have been used, or   *)
(* on none (no bytes).  What is checked is the alignment of the member     *)
(* that points to the buffer.  m_tags stays where it is.                   *)
Reset(size, atFour) ==
  /\ capacity' = size
  /\ aligned' = atFour
  /\ args' = Fresh(size)
  /\ sizePosM' = Null
  /\ sizePosB' = Null
  /\ inBundle' = 0
  /\ open' = << >>
  /\ closed' = {}
  /\ needed' = 0
  /\ UNCHANGED tags

Init ==
  /\ capacity \in Capacities
  /\ aligned \in Alignments
  /\ args = Fresh(capacity)
  /\ tags = NoTags
  /\ sizePosM = Null
  /\ sizePosB = Null
  /\ inBundle = 0
  /\ open = << >>
  /\ closed = {}
  /\ needed = 0

(***************************************************************************)
(* Calls nest, and a packet holds one bundle or one message.  The code     *)
(* throws when a second bundle is opened behind a first or a bundle is     *)
(* closed that is not open, before it has changed anything: no step here.  *)
(* The rest the caller keeps to.                                           *)
(***************************************************************************)
Innermost == open[Len(open)]
messageOpen == open # << >> /\ Innermost.kind = "message"
mayOpen == args.ok /\ ~messageOpen /\ (inBundle > 0 \/ args.pos = 0)

(* An element from its opening call on; `last` is known when it closes.    *)
Opened(kind, addr, numTags) ==
  [kind |-> kind, addr |-> addr, numTags |-> numTags, put |-> << >>,
   slot |-> IF inBundle > 0 THEN args.pos ELSE Null,
   first |-> IF inBundle > 0 THEN args.pos + 4 ELSE args.pos,
   last |-> Null]

Close ==
  /\ open' = SubSeq(open, 1, Len(open) - 1)
  /\ closed' = closed \cup {[Innermost EXCEPT !.last = args.pos]}

OuterSlotLost == 0                     \* mutant: every bundle is linked to the first

(* The offset openBundle stores: that of the enclosing slot.               *)
OuterSlot == IF sizePosB = Null THEN 0 ELSE sizePosB

EnclosingCleared == Null               \* mutant: closeBundle forgets the outer bundle

(* Where closeBundle goes back to: the offset found in the slot.           *)
Enclosing == args.data[sizePosB \div 4][2]

(***************************************************************************)
(* openBundle in a bundle: the offset of the enclosing slot goes into the  *)
(* new slot.                                                               *)
(***************************************************************************)
OpenBundle ==
  LET nested == inBundle > 0
      slotted == IF nested THEN Put(args, << Offset(OuterSlot) >>) ELSE args
  IN
  /\ mayOpen
  /\ inBundle < MaxDepth
  /\ args' = Put(Put(slotted, BundleWords), TimeWords)
  /\ sizePosB' = IF nested /\ slotted.ok THEN args.pos ELSE sizePosB
  /\ inBundle' = IF slotted.ok THEN inBundle + 1 ELSE inBundle
  /\ open' = Append(open, Opened("bundle", Null, 0))
  /\ needed' = needed + (IF nested THEN 4 ELSE 0) + SizeBundle
  /\ UNCHANGED <<capacity, aligned, tags, sizePosM, closed>>

(* closeBundle: the slot's offset leads back to the enclosing slot.        *)
CloseBundle ==
  LET nested == inBundle > 1 IN
  /\ args.ok
  /\ ~messageOpen
  /\ inBundle > 0
  /\ args' = IF nested THEN PutSize(args, sizePosB) ELSE args
  /\ IF args'.ok
     THEN /\ sizePosB' = IF nested THEN Enclosing ELSE sizePosB
          /\ inBundle' = inBundle - 1
          /\ Close
     ELSE UNCHANGED <<sizePosB, inBundle, open, closed>>
  /\ UNCHANGED <<capacity, aligned, tags, sizePosM, needed>>

(***************************************************************************)
(* openMessage: slot, address, and a zeroed area for the tags and their    *)
(* terminator, on which a stream of its own is opened.                     *)
(***************************************************************************)
OpenMessage(addr, numTags) ==
  LET nested == inBundle > 0
      slotted == IF nested THEN Skip(args) ELSE args
      named == Put(slotted, StringWords(addr))
      sigLen == numTags + 2
      signed == IF Fits(named, sigLen) THEN named ELSE Throw(named)
      zeroed == Put(signed, ZeroWords(Align(sigLen)))
  IN
  /\ mayOpen
  /\ sizePosM' = IF nested THEN args.pos ELSE sizePosM
  /\ tags' = IF ~signed.ok THEN tags
             ELSE [begin |-> named.pos, end |-> named.pos + sigLen,
                   pos |-> IF zeroed.ok THEN named.pos + 1 ELSE named.pos]
  /\ args' = IF zeroed.ok THEN PutChar(zeroed, named.pos, ",") ELSE zeroed
  /\ open' = Append(open, Opened("message", addr, numTags))
  /\ needed' = needed + (IF nested THEN 4 ELSE 0) + SizeMessage(addr, numTags)
  /\ UNCHANGED <<capacity, aligned, sizePosB, inBundle, closed>>

Untagged(c) == args                    \* mutant: the tag is forgotten

(* The tag of an argument, or a bracket, goes to the tag stream.           *)
Tagged(c) ==
  IF tags.pos < tags.end THEN PutChar(args, tags.pos, c) ELSE Throw(args)

(***************************************************************************)
(* int32, float32, string, blob; a bracket of an array is a tag without    *)
(* words.  The tag is in the packet before the argument is known to fit.   *)
(***************************************************************************)
PutArg(arg) ==
  /\ args.ok
  /\ messageOpen
  /\ Len(Innermost.put) < Innermost.numTags \/ Surplus
  /\ args' = Put(PutNumber(Tagged(arg.tag), arg.head), arg.data)
  /\ tags' = IF tags.pos < tags.end THEN [tags EXCEPT !.pos = @ + 1] ELSE tags
  /\ open' = [open EXCEPT ![Len(open)].put = Append(@, arg)]
  /\ needed' = needed + 4 * (Len(arg.head) + Len(arg.data))
  /\ UNCHANGED <<capacity, aligned, sizePosM, sizePosB, inBundle, closed>>

(* closeMessage: in a bundle, write the size and drop the tag stream.      *)
CloseMessage ==
  /\ args.ok
  /\ messageOpen
  /\ args' = IF inBundle > 0 THEN PutSize(args, sizePosM) ELSE args
  /\ IF args'.ok THEN Close ELSE UNCHANGED <<open, closed>>
  /\ tags' = IF inBundle > 0 /\ args'.ok THEN NoTags ELSE tags
  /\ UNCHANGED <<capacity, aligned, sizePosM, sizePosB, inBundle, needed>>

Next ==
  \/ \E size \in Capacities, atFour \in Alignments : Reset(size, atFour)
  \/ OpenBundle
  \/ CloseBundle
  \/ \E addr \in Addresses, numTags \in TagCounts : OpenMessage(addr, numTags)
  \/ \E arg \in Args : PutArg(arg)
  \/ CloseMessage

Spec == Init /\ [][Next]_vars

-----------------------------------------------------------------------------
(* Type invariant.  Positions are words; the tag stream of an open message *)
(* is a part of the buffer.                                                *)
TypeOK ==
  /\ capacity \in Capacities
  /\ DOMAIN args.data = 0 .. (capacity \div 4 - 1)
  /\ args.pos \in {p \in 0 .. capacity : p % 4 = 0}
  /\ args.ok \in BOOLEAN
  /\ aligned \in Alignments
  /\ 0 <= tags.begin /\ tags.begin <= tags.pos /\ tags.pos <= tags.end
  /\ args.ok /\ messageOpen => tags.end <= capacity
  /\ {sizePosM, sizePosB} \subseteq (0 .. capacity) \cup {Null}
  /\ inBundle \in 0 .. MaxDepth
  /\ needed \in Nat

(***************************************************************************)
(* The list of slots: while bundles are open, m_sizePosB is the slot of    *)
(* the innermost nested one and every open slot holds the offset of the    *)
(* one around it (0 for the outermost), whatever is written in between.    *)
(* closeBundle relies on it to find the slot it goes back to.              *)
(* (client.hpp:133-146, 165-183)                                           *)
(***************************************************************************)
SlotOf(i) == IF open[i].slot = Null THEN 0 ELSE open[i].slot

SlotsLinked ==
  args.ok =>
    LET depth == inBundle IN
    /\ depth > 1 => sizePosB = open[depth].slot
    /\ depth = 1 => sizePosB \in {Null, 0}
    /\ \A i \in 2 .. depth :
         args.data[open[i].slot \div 4] = Offset(SlotOf(i - 1))

(***************************************************************************)
(* Every closed element of a bundle is preceded by its exact size, and     *)
(* nothing written later changes that, not even a call that throws half    *)
(* way.  (client.hpp:174-180, 217-222)                                     *)
(***************************************************************************)
SizesMatch ==
  \A e \in closed : e.slot # Null =>
    /\ e.first = e.slot + 4
    /\ args.data[e.slot \div 4] = Size(e.last - e.first)

(***************************************************************************)
(* A closed bundle is its header and then its elements, one behind the     *)
(* other without a gap: what a reader finds by adding up sizes.            *)
(* (client.hpp:133-193)                                                    *)
(***************************************************************************)
BundlesTile ==
  \A b \in closed : b.kind = "bundle" =>
    /\ \A i \in {1, 2} : args.data[b.first \div 4 + i - 1] = BundleWords[i]
    /\ LET inside == {e \in closed : e.slot # Null /\ e.slot >= b.first
                                                  /\ e.last <= b.last}
           ends == {b.first + SizeBundle} \cup {e.last : e \in inside}
       IN  /\ b.first + SizeBundle <= b.last
           /\ \A p \in ends : p < b.last => \E e \in inside : e.slot = p
           /\ b.last \in ends

(***************************************************************************)
(* A closed message is, and stays, what OSC asks for: the address, the tag *)
(* string with its comma and terminator, then the arguments in the order   *)
(* they were put.  (client.hpp:195-227, 240-286)                           *)
(***************************************************************************)
TagAt(e, p) ==
  IF p = 1 THEN "," ELSE IF p - 1 <= Len(e.put) THEN e.put[p - 1].tag ELSE NUL

TagWords(e) ==
  [w \in 1 .. (Align(e.numTags + 2) \div 4) |->
     <<"chars">> \o [k \in 1 .. 4 |-> TagAt(e, 4 * (w - 1) + k)]]

Encoding(e) ==
  StringWords(e.addr) \o TagWords(e)
    \o FlattenSeq([i \in DOMAIN e.put |-> e.put[i].head \o e.put[i].data])

MessagesIntact ==
  \A m \in closed : m.kind = "message" =>
    LET words == Encoding(m) IN
    /\ m.last - m.first = 4 * Len(words)
    /\ \A i \in DOMAIN words : args.data[m.first \div 4 + i - 1] = words[i]

(***************************************************************************)
(* The sizes util.hpp lets a caller compute beforehand are those the       *)
(* packet takes: nothing is thrown while they fit an aligned buffer, and   *)
(* size() is their sum.  Only tags beyond the announced number, and then not the  *)
(* first of them, are refused while there is room.                         *)
(* (util.hpp:105-140, client.hpp:112)                                       *)
(***************************************************************************)
SizesPredicted ==
  /\ args.ok => args.pos = needed
  /\ aligned /\ needed <= capacity =>
       args.ok \/ (messageOpen /\ Len(Innermost.put) > Innermost.numTags + 1)

(***************************************************************************)
(* The assertions of the code: openBundle's on m_sizePosB, closeBundle's   *)
(* on the size it writes, setPos's on the slots, and calcSize's exception. *)
(* (client.hpp:65, 137, 175; stream.hpp:106)                              *)
(***************************************************************************)
AssertionsHold ==
  args.ok =>
    /\ inBundle > 0 => sizePosB # Null \/ inBundle = 1
    /\ inBundle > 1 => /\ sizePosB \in 0 .. capacity
                       /\ args.pos - sizePosB - 4 >= SizeBundle
    /\ messageOpen /\ inBundle > 0 => /\ sizePosM \in 0 .. capacity
                                     /\ args.pos - sizePosM - 4 >= 0

(***************************************************************************)
(* reset() lets a buffer pass that is not aligned.  What is built in it is *)
(* given up before a number gets an address that is not a multiple of      *)
(* four: neither an argument nor the size of an element is there, and no   *)
(* element of a bundle has been closed.                                    *)
(* (client.hpp:120, stream.hpp:190, 209)                                   *)
(***************************************************************************)
NumbersAligned ==
  ~aligned =>
    /\ \A i \in DOMAIN args.data : args.data[i][1] \notin {"size", "int32", "float32"}
    /\ \A e \in closed : e.slot = Null
=============================================================================
