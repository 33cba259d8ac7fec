---------------------------- MODULE MakeOscPacket ----------------------------
(***************************************************************************)
(* makeOscPacket() of main.cpp: the calls it makes on a Packet over the    *)
(* static oscBuffer, packet after packet.  Nothing catches an exception:   *)
(* when one is thrown the analyser is gone, and no step follows.           *)
(***************************************************************************)
EXTENDS OscPacket, FiniteSets, FiniteSetsExt

CONSTANTS
  Int32, Float32,       \* the two kinds of argument it puts
  NumCoefficients,      \* coefficients in Gist's MFCC (external: 13 by default)
  MAX_OSC_PACKET_SIZE   \* 512

VARIABLE step           \* the next call, or one more than there are

scriptVars == <<vars, step>>

-----------------------------------------------------------------------------
Array(numElems) == numElems + 2      \* Tags::array

Call(op) == [op |-> op, addr |-> Null, numTags |-> 0, arg |-> Null]

Message(addr, numTags, put) ==
  << [Call("openMessage") EXCEPT !.addr = addr, !.numTags = numTags] >>
    \o [i \in DOMAIN put |-> [Call("put") EXCEPT !.arg = put[i]]]
    \o << Call("closeMessage") >>

Floats(n) == [i \in 1 .. n |-> Float32]

Messages ==
  Message("/meta", 1, << Int32 >>)
    \o Message("/time", 3, Floats(3))
    \o Message("/freq", 5, Floats(5))
    \o Message("/onset", 5, Floats(5))
    \o Message("/pitch", 1, Floats(1))
    \o Message("/mfcc", Array(NumCoefficients), Floats(NumCoefficients))

CallsUnclosed == << Call("openBundle") >> \o Messages   \* mutant: no closeBundle
Calls == << Call("openBundle") >> \o Messages \o << Call("closeBundle") >>

(* The packet of the next superframe, in the same buffer.                  *)
NextPacket ==
  /\ step = Len(Calls) + 1
  /\ args.ok
  /\ Reset(capacity, aligned)
  /\ step' = 1

MakeCall ==
  /\ step \in DOMAIN Calls
  /\ LET call == Calls[step] IN
       \/ call.op = "openBundle" /\ OpenBundle
       \/ call.op = "openMessage" /\ OpenMessage(call.addr, call.numTags)
       \/ call.op = "put" /\ PutArg(call.arg)
       \/ call.op = "closeMessage" /\ CloseMessage
       \/ call.op = "closeBundle" /\ CloseBundle
  /\ step' = step + 1

ScriptInit == Init /\ step = 1
ScriptNext == NextPacket \/ MakeCall
ScriptSpec == ScriptInit /\ [][ScriptNext]_scriptVars

-----------------------------------------------------------------------------
(***************************************************************************)
(* No call throws on an aligned buffer of the size util.hpp predicts,      *)
(* however many packets are built in it, and oscBuffer is as large: an     *)
(* exception would end the analyser in the middle of a session.            *)
(* (main.cpp:70-129)                                                       *)
(***************************************************************************)
SizeOfCall(call) ==
  CASE call.op = "openBundle" -> SizeBundle
    [] call.op = "openMessage" -> 4 + SizeMessage(call.addr, call.numTags)
    [] call.op = "put" -> 4 * (Len(call.arg.head) + Len(call.arg.data))
    [] OTHER -> 0

PacketSize == MapThenSumSet(LAMBDA i : SizeOfCall(Calls[i]), DOMAIN Calls)

NeverThrows ==
  /\ PacketSize <= MAX_OSC_PACKET_SIZE
  /\ aligned /\ capacity >= PacketSize => args.ok

(***************************************************************************)
(* What is returned covers one bundle around the six messages, in order    *)
(* and without anything else.                                              *)
(* (main.cpp:78-128)                                                       *)
(***************************************************************************)
Names == << "/meta", "/time", "/freq", "/onset", "/pitch", "/mfcc" >>

PacketWhole ==
  step = Len(Calls) + 1 /\ args.ok =>
    /\ inBundle = 0 /\ open = << >>
    /\ \E b \in closed :
         /\ b.kind = "bundle"
         /\ b.first = 0
         /\ b.last = args.pos
         /\ LET messages == closed \ {b}
                before(m) == Cardinality({o \in messages : o.first < m.first})
            IN  /\ Cardinality(messages) = Len(Names)
                /\ \A m \in messages : m.addr = Names[before(m) + 1]
=============================================================================
