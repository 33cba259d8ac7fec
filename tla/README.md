# TLA+ models of the analyser

The analyser is one process between three others. Jamulus, a server for
networked music, records *sessions* and sends what it records, frame by frame,
on the POSIX message queue `/samples`. The analyser gathers eight frames of a
channel into a *superframe*, runs the Gist feature extraction on it, builds an
OSC packet from the features, offers the packet to the queue `/osc` (where
oscserver takes it) and appends it to the channel's file in the session's
directory below `/tmp`. When the session ends, it moves the directory to S3 with
the `aws` command.

This directory holds TLA+ modules of that program, the configurations with which
TLC checks them on small instances, and proofs for TLAPS.
`PROJECT.json` relates every definition to the lines it models and lists the
runs, the hazards and the findings.

## 1. Inventory

| Component | Source | State | Operations | Hard about it |
|---|---|---|---|---|
| Message loop | `src/main.cpp` `pipeMessages`, `main` | `receivedMeta`, `receivedFrame`, `oscDirectoryName`, `superFrames`, `superFrameOffsets`, `oscFiles`, `oscBuffer`; queues `/samples` and `/osc`; files | open the queues, flush, start and end a session, accept an announcement, merge a frame, complete a superframe, forward, write, upload | interleaving with Jamulus, oscserver and the upload; lost messages that shift the pairing of announcements and frames; frames that read as markers; kills and restarts; failing uploads; state that outlives its session |
| Superframes | `src/main.cpp:231-255` | one array and one offset per channel | copy, count, reset, hand to Gist | pointer arithmetic without checks; what the window contains |
| Packet of features | `src/main.cpp` `makeOscPacket` | `oscBuffer` | 31 calls on a `Packet` | an exception ends the process |
| OSC client | `oscpp/client.hpp`, `BasicWriteStream` of `oscpp/detail/stream.hpp`, `oscpp/util.hpp` | a buffer, two streams on it, two slot positions, the depth | open and close bundles and messages, put arguments, arrays | sizes are filled in afterwards through a linked list hidden in the buffer; two streams write into one buffer |
| OSC server | `oscpp/server.hpp`, `BasicReadStream` | positions in a packet | iterate over bundles and arguments, nested arrays, drop arguments | following sizes and brackets found in the packet |
| Byte order, host | `oscpp/detail/host.hpp`, `endian.hpp` | none | swap | - |
| Printing | `oscpp/print.hpp` | the text so far | print a packet, its elements and arguments | recursion over nested bundles and arrays of a packet that may be cut |
| Types, errors | `oscpp/types.hpp`, `error.hpp` | none | value and exception classes | - |
| FFT | `src/kiss_fft.c`, `_kiss_fft_guts.h`, `kiss_fft.h` | a plan: factors and twiddles, in one block of memory | allocate, factor, transform, next fast size | mixed radices, termination, a block whose size is computed beforehand |
| FFT, C++ variant | `src/kissfft.hh` | the same in vectors | construct, transform | another rule for the radices; not included by anything here |
| External | Jamulus, oscserver, Gist, the `aws` command, ofstreams | | | not in the repository |

How they interact. Jamulus and the analyser share only the queue: a start marker
(66 bytes, first byte 0), an end marker (1 byte, first byte 1), and for every
frame an announcement (96 bytes, first byte 2) followed by the samples. Nothing
numbers or acknowledges messages, and the loop recognises a message by its first
byte, which in a frame is the low byte of a sample. The analyser and oscserver
share the queue `/osc`, which the analyser opens without blocking. The analyser
and the upload share the directory, and as the upload is a process of its own it
goes on when the analyser is killed. Everything inside the analyser is sequential:
`pipeMessages` calls `makeOscPacket`, which calls the client's `Packet`.

What makes each part correct:

- the loop: a frame is handled under its own announcement; files lie in the
  directory of their session, hold their channel's packets in order and only
  grow; nothing that was sent is lost inside the program; every session is
  opened and closed;
- superframes: no copy leaves the array, and Gist hears this superframe only;
- the packet of features: it always fits;
- the client: sizes and slots are right whatever is written in between, a closed
  element stays as it is, and predicted sizes are exact;
- the server: it finds what the client put, and never leaves the element it reads;
- the printer: it writes every element once, at its depth, and ends what it began;
- the FFT: the stages' radices, strides, twiddle indices and signs add up to the
  transform for every length, the state fits its memory, and every loop ends.

## 2. Modules

| Module | Models | Size of a step |
|---|---|---|
| `Analyser` | `pipeMessages` with the queues, files and S3 it works on | from one point at which another process can interfere to the next |
| `Pipeline` | `Analyser` with Jamulus, oscserver and the operator; all properties of the loop | |
| `Recording` | abstract: what a session leaves behind | |
| `FrameSlots` | abstract: how frames become packets | one frame, or a restart |
| `SuperFrames` | the superframe arrays cell by cell | one frame |
| `OscWords` | what a packet is made of, and the sizes of `util.hpp` | |
| `OscPacket` | the client's `Packet` and its streams | one call |
| `MakeOscPacket` | the program's calls on a `Packet` | one call |
| `OscServer` | the server's `Packet`, `Bundle`, `PacketStream`, `ArgStream` and its streams | one call |
| `OscPrint` | the printer of `print.hpp`, an `OscServer` that drops nothing | one call |
| `OscRoundTrip` | a packet of `OscPacket` or `MakeOscPacket`, whole or cut, given to `OscServer` or `OscPrint` | one call |
| `KissFactor` | `kf_factor`, and the loop of `prepare` in `kissfft.hh` | one round of a loop |
| `KissFft` | `kiss_fft_next_fast_size`, `kiss_fft_alloc` and its memory, `KissFactor`, the twiddles and the transform, of `kiss_fft.c` and of `kissfft.hh` | one round of a loop; the loop of the twiddles; a whole transform |
| `MC...` | instances for TLC | |
| `PipelineProofs`, `SessionProofs` | theorems about `Pipeline`: types, pairing and the promise about files; order, frames, purity, forwarding and that nothing is lost | |
| `SuperFramesProofs`, `KissFftProofs` | theorems about the modules they are named after | |
| `OscPacketProofs`, `OscContentProofs` | theorems about `OscPacket`: where things lie; what they hold, and the packet of `MakeOscPacket` | |
| `RoundTripProofs` | theorems about `OscRoundTrip`: what a reader finds of what was put, and what is printed of it | |
| `InductionProofs` | induction on numbers, as facts about sets; sums of functions on finite sets | |

### Analyser and Pipeline

The variables have the names of the program's. `samples` and `osc` are the
queues, `disk[d][n]` and `s3[d][n]` are the packets of file `n` of session
directory `d` (an empty sequence: no file), and `pc` says where `pipeMessages`
is:

| `pc` | lines | steps |
|---|---|---|
| `down` | - | `Boot` (23-67) |
| `flush` | 160-169 | `FlushMessage`, `FlushDone` |
| `meta` | 173-222 | `StartSession`, `EndSession`, `IgnoreMessage`, `AcceptMeta` |
| `frame` | 225-261 | `RejectFrame`, `MergeFrame`, `CompleteSuperFrame` |
| `write` | 263-271 | `WritePacket` |
| `upload` | 199-202 | `UploadFile`, `UploadReturns` |
| any | 199 | `OrphanMoves`, `OrphanEnds`: an upload whose analyser was killed |

A message is a record of what the program can read in it: its size, its first
byte, and the fields behind it. A frame's first byte is any byte, and when it is
0 the bytes behind it read as some directory name: an empty one, one for which
`create_directory` works, or one for which it throws. The fields `session` and
`audio` are ghosts; no guard reads them. A superframe is the array's first cells
with, for each, the frame it came from. A packet keeps its channel, its sequence
number and its superframe. Feature values, byte order and sample values are left
out.

`Crash` takes everything in memory and leaves of every open file an arbitrary
prefix, since an `ofstream` hands over its buffer when it likes. `UploadReturns`
may come at any time: the command's status is ignored.

The upload is a child of `std::system`, and nothing stops it when the analyser
is killed. `Crash` then puts its directory into `orphans`, and `OrphanMoves` goes on
moving files of it (`MoveFile`, as in `UploadFile`) in any state that follows: while nothing
runs, during the flush, and while a new analyser has another session open, or
the same directory, if a frame spelled its name. In that last case a file may be moved
that a stream still writes: what reaches S3 is any beginning of it, and what the stream
writes afterwards is in no file. `unlinked` holds the channels whose stream has
lost its file in this way, or whose directory `OrphanEnds` has removed. The name of a
session of Jamulus carries a time stamp and is never opened again, and the
theorems say what follows: the orphan of such a session moves whole files only.
A copy and the removal that goes with it are one step. Of a file that nobody writes,
and that is each file of a session of Jamulus, this leaves nothing out but the moment when the
file is in both places.

The environment in `Pipeline`:

- `Send` either waits on a full queue or drops the message (`SendsAreDropped`);
- Jamulus sends a frame after its announcement, audio between sessions only if
  `AudioOutsideSession`, and may start before the analyser unless
  `AnalyserFirst`; session names carry a time stamp and are used once;
- a channel's client can change (`JamChangeClient`), and with it the file name;
- `OscServerReceive` may never happen.

### Recording

Four promises: a session opens on an empty directory, a packet goes to the end of
the only file its channel has, a file moves to the archive whole, once, and
never out of the session that is open, and a crash costs the ends of open files. Another
session may be open while a file moves: an upload that outlived its
analyser works beside the sessions of the next one. `KeepsPromise` maps `Pipeline` to it: the
workspace is `disk`, the archive is `s3`, and a session whose upload runs is
closed.

### FrameSlots

One promise more, about frames: a channel collects `FramesPerSuperframe` of
them, one behind the other, a packet is made of exactly these when there are that
many, and nothing but a restart empties a channel. A merged frame comes from the
channel's `supply` and is in nobody's supply afterwards, and a supply never grows:
no frame is used twice, in one superframe or in two, by one channel or by two. The module
knows no queue, session, file or sample. Two modules implement it. `Pipeline` does with the superframes
and the packet in hand, through every session, refusal and kill; its supply (`Mergeable`) are
the frames that the analyser has still to read or Jamulus still to announce - of the channel, where the
queue loses nothing, and of all channels, where an announcement can be lost and the frame of
another channel is then read in its place: the program has nothing to tell it by. That an
announcement is lost, or a superframe spans two sessions, does not change how
frames are counted. `SuperFrames` does with its cells - slot k is the frame that
cell k came from - so that what `Analyser` keeps of an array stands for what
Gist is given. `SuperframesWithinSession` is false of `FrameSlots` as well: that
is the finding, seen from above.

### SuperFrames

`Analyser` says which frame a cell came from; here a cell is a sample, the copy
goes where the pointer of `main.cpp:243` points, and what `processAudioFrame`
is given is kept. The ghost `merged` lists the frames copied since the reset.

### OscPacket and MakeOscPacket

All a packet consists of is four bytes wide, except tags: the buffer is a
function from word numbers to words. A word tells apart a size (network order),
an offset (host order), four characters of tags, and the parts of strings,
numbers and blobs. `args` is the packet's stream with a flag for an exception,
`tags` the stream of tags inside it. `open`, `closed` and `needed` are ghosts:
the elements under construction, the finished ones, and the bytes that
`util.hpp` predicts. Exceptions set the flag, after which only `reset()` is
called, as in the code nobody goes on with such a packet; what had been closed by
then must still be whole. `reset()` takes the same buffer again, with what the
last packet left in it, another one, or none (no bytes). A buffer that is not
`aligned` passes it, since the check looks at the pointer's own address
(`client.hpp:120`); then numbers and the sizes of elements throw (`PutNumber`,
`PutSize`), while strings, tags, bundle headers and slots do not. `MakeOscPacket` drives
this machine through the calls of `makeOscPacket`, packet after packet.

### OscServer and OscRoundTrip

Streams are positions in the packet. `bundles` is the stack of `PacketStream`s
the caller is in and `message` the stack of `ArgStream`s, one for the message
and one for each array the caller has gone into. The caller takes what comes
next, as its tag asks for, or drops it; after an exception it gives up. `result`
keeps what the last call returned. A string ends at the first word whose last
byte is zero (`EndsString`): the search of `getString` runs over words of any
kind, numbers and blobs excepted, whose bytes the models do not have.

`OscRoundTrip` takes each complete packet whose messages are well-formed - as
many tags as were announced, brackets balanced, no argument beyond the room for
its tag, the side of the bargain the client leaves to its caller - and gives it,
or its first words only, to the reader. `ReadsBack` says that every value
returned is the one that was put there, `ReadsAll` that a reader that gets to
the end has seen every element. `ProgramTrip` does the same with the packet of
`makeOscPacket` and without the condition of well-formedness.

`OscPrint` is one such caller: it reads everything, and `out` is what it has
written, a token for each element, argument and end of a bundle or array, with the
indentation of those that get one. An element is read before any of it is printed, so
an exception leaves the text as it is; the label of an argument (`i:`, or the bracket of an
array) is printed before the argument is read, and an exception leaves the label alone (`PrintArg`,
`PrintArray`). `PrintsBack` computes the text from the elements the client closed and their
nesting, without following the packet.

### KissFactor and KissFft

`template` says whether a plan is one of `kiss_fft.c` or of `kissfft.hh`. They
differ in three places: the template gives up small radices at the root of what
is left and not of the whole length, turns the signs of the radix-4 butterfly for
the direction in another place, and keeps its stages and twiddles in vectors
where `kiss_fft_alloc` computes one block (`memneeded`), in the caller's memory
if that is large enough. `StateFits` says that the stages and twiddles that are
then stored fit.

`factors` is `facbuf`, as pairs. `KissFft` computes with exact numbers: for each
length a prime q of the form 4k + 3 is chosen such that the field of q^2 elements
`r + i*sqrt(-1)` has a root of unity of norm 1 and that order. What the
butterflies rely on - a conjugate twiddle is the inverse one, a quarter turn is
a multiplication by sqrt(-1), the real part of a third turn is -1/2 - holds
there, so an error in an index, a stride or a sign shows as a wrong value and
rounding plays no part. `Work` is `kf_work`, which recurses; it is evaluated in
one step, since nothing runs beside it. The reference is the sum that defines
the transform, evaluated with powers of the root and without
the table of twiddles.

## 3. Runs

| Run | Checks | Instance |
|---|---|---|
| `orderly` | `NothingLost`, `ForwardedIsRecorded`, `EverySessionOpened`, `SessionEnds` | lossless queue of 3, two channels, two sessions, 5 frames of any look |
| `lossy` | `TypeOK`, `OpenFilesInSession`, `FilesInOrder`, `KeepsPromise` | queue of 2 that drops, audio between sessions, frames of two sizes, names that make `create_directory` throw, 4 frames |
| `crash` | `OneFilePerChannel`, `PairsStayTogether`, `SessionPurity`, `KeepsPromise`, `CollectsFrames` | one kill, also during the upload, which goes on; one change of client, Jamulus before the analyser, 4 frames |
| `superframes` | `TypeOK`, `CopyInBounds`, `WindowContents`, `CollectsFrames` | two channels, superframes of 3 frames of 4 samples, 11 frames |
| `packet` | `SlotsLinked`, `SizesMatch`, `BundlesTile`, `MessagesIntact`, `SizesPredicted`, `AssertionsHold`, `NumbersAligned`, `TypeOK` | no buffer, buffers of 43 and 84 bytes, aligned and not, three levels of bundles |
| `make_packet` | `NeverThrows`, `PacketWhole` | the program's sizes; buffers of 128, 251, 252 and 512 bytes, aligned and not |
| `roundtrip` | `ReadsBack`, `ReadsAll`, `StreamsNested`, `PrintsBack` | packets of up to 60 bytes with nested bundles and arrays, whole and cut |
| `fft` | `TypeOK`, `FactorsChain`, `RadicesPrime`, `TransformIsDFT`, `LeastFastSize`, `StateFits`, `FactorReturns`, `SizeReturns` | 23 lengths, both implementations, both directions, strides 1 and 2, memory of the caller's one byte too short and just enough, unit vectors and a dense input; fast sizes for 1 to 170 |

Bounds. A superframe of two frames is enough for an incomplete one, a completed
one, and one that spans sessions; four frames fill two superframes, of one file
or of two, and five leave one over. A queue of two holds an announcement and its
frame, or separates them; a third place lets a marker stand before or after
both. Two sessions are needed for anything to pass from one to the next, two
channels for anything to pass between channels. `SuperFrames` runs with superframes of
three frames, and frames longer than that, as in the program (8 and 128); 11 frames
make three superframes of one channel. A buffer of 84 bytes holds three nested
bundles with a message or two sibling bundles; 43 bytes is not a multiple of
four and too small for most packets, and 0 is the buffer of a `Packet` that was
given none. `make_packet` uses the sizes of the program: its packet takes 252
bytes with the 13 coefficients of Gist.
The lengths of `fft` take each of the radices 2, 3, 4, 5 and 7 as the first, a
middle or the last stage as far as the order of radices allows, and include 128,
the length Gist is given here; the transform is linear, so unit vectors decide it
up to length 35, and four of them and a dense input stand for all beyond.

`SYMMETRY` is used in `lossy` and `crash`, which check invariants and steps and no liveness; channels,
clients and session names are interchangeable in every definition. `CHECK_DEADLOCK FALSE`
stands where Jamulus stops at its bounds and the analyser waits for a message,
where a count of frames ends, or where an exception ends the process.

Assumptions that the instances make true and that matter: `NothingLost` needs a
queue that loses nothing and no kill; `ForwardedIsRecorded` needs that no
directory is opened twice, which that queue gives in the run and frames that do
not read as start markers give in the proof, and no kill.
`PairsStayTogether` and `SessionPurity` need a queue that loses nothing (a lost
end marker merges two sessions, as the TODO at `main.cpp:210` says).
`FilesInOrder` is checked on a queue that drops, without kills, and proved with
both; it looks at the files in the directory and at those in S3 one by one,
because a directory whose name a frame spelled can be opened again after its
upload. `KeepsPromise` is checked once with drops and once with kills. `crash`
sends no audio between sessions; the proof of `SessionPurity` allows it.

### Fairness

`FairSpec` has weak fairness on the analyser's steps (the scheduler runs a
process that is not blocked, and the upload returns) and on `JamFrame` (Jamulus
sends a frame right after its announcement, in the same call). Nothing is assumed of
oscserver, nor that Jamulus continues. Liveness is only claimed for a queue that loses
nothing: with drops the end of a session can be lost and the session stays open.
`KissFft` has weak fairness on the steps of `kf_factor` and of
`kiss_fft_next_fast_size`: a function that was called runs until it returns.

### Findings

Four runs are expected to fail; each states a line of the source:

- `superframe_merge`: `main.cpp:235` "Merge 8 frames from Jamulus into a
  super-frame". `main.cpp:243` adds the *number of frames*, not of samples, to a
  `float*`: frame k lies one cell behind frame k-1 and overwrites it but for
  one sample. `WindowContents` says what Gist hears instead;
- `superframe_sessions`: `main.cpp:139-140` "within a session". Neither map is
  cleared when a session ends, and a packet can mix two sessions;
- `real_sessions`: `main.cpp:206` "ignoring audio sent before session start".
  A frame that begins with a zero byte opens a session;
- `program_read`: `server.hpp:40` "Retrieve typed arguments from an incoming
  message". `main.cpp:121` announces `/mfcc` with `Tags::array(13)`, 15 tags, but puts 13
  coefficients and no brackets. Room for the tags is 20 bytes, and the tags with
  their terminator end within 16, so a reader takes the last word of that room
  for the first coefficient, 0, and finds every other coefficient one place on.

Three smaller disagreements met on the way have no run of their own. One
argument more than announced overwrites the terminator of the tag string, and
nothing is thrown (`client.hpp:205` makes the stream of tags one byte longer than
the tags announced); the run `packet` writes such messages. `ArgStream::size()` is
said to be "the number of arguments that can be read" (`server.hpp:82`), but
counts brackets and arguments already read. `kiss_fft_next_fast_size(0)` does not
return, and past the largest fast `int` its `n++` overflows (`kiss_fft.c:405`); `SizesAssumption`
leaves both out: a size that is asked for is not 0 and has a fast size that is an `int`.

## 4. Proofs

For every value of the constants that satisfies the named assumptions of the
modules (`SizesAssumption`, `NamesAssumption`, `NothingAssumption`,
`NoFileAssumption`, `ShapesAssumption`, `BoundsAssumption`, `SuperFramesAssumption`, `EmptyAssumption`,
`LengthsAssumption`, `SizesAssumption` and `MemoryAssumption` and `IntAssumption` of `KissFft`, `StringsAssumption`, `CallerAssumption`, `ArgsAssumption`, `CutsAssumption`):

| Theorem | States |
|---|---|
| `SuperFramesProofs!TypeCorrect` | `Spec => []TypeOK` |
| `SuperFramesProofs!CopiesStayInBounds` | `Spec => []CopyInBounds` |
| `SuperFramesProofs!WindowCorrect` | `Spec => []WindowContents` |
| `PipelineProofs!TypeCorrect` | `Spec => []TypeOK` |
| `SuperFramesProofs!FramesCollected` | `Spec => CollectsFrames` |
| `PipelineProofs!FilesBelongToSession` | `Spec => []OpenFilesInSession` |
| `PipelineProofs!PromiseKept` | `Spec => KeepsPromise` |
| `PipelineProofs!OneFileEach` | `Spec => []OneFilePerChannel` |
| `PipelineProofs!PairsNeverSplit` | `~SendsAreDropped => (Spec => []PairsStayTogether)` |
| `SessionProofs!FramesCollected` | `Spec => CollectsFrames` |
| `SessionProofs!StoriesInOrder` | `Spec => []FilesInOrder` |
| `SessionProofs!SessionsPure` | `~SendsAreDropped => (Spec => []SessionPurity)` |
| `SessionProofs!ForwardedRecorded` | `NoMisreads /\ MaxCrashes = 0 => (Spec => []ForwardedIsRecorded)` |
| `SessionProofs!NothingIsLost` | `FinitelyMany /\ Orderly => (Spec => []NothingLost)` |
| `OscPacketProofs!PacketTypeOK` | `Spec => []TypeOK` |
| `OscPacketProofs!ClosedSizesMatch` | `Spec => []SizesMatch` |
| `OscPacketProofs!PacketFitsAsComputed` | `Spec => []SizesPredicted` |
| `OscPacketProofs!NumbersStayAligned` | `Spec => []NumbersAligned` |
| `OscPacketProofs!OpenSlotsLinked` | `Spec => []SlotsLinked` |
| `OscPacketProofs!AssertionsAlwaysHold` | `Spec => []AssertionsHold` |
| `OscContentProofs!ClosedMessagesIntact` | `Spec => []MessagesIntact` |
| `OscContentProofs!ClosedBundlesTile` | `Spec => []BundlesTile` |
| `OscContentProofs!NoCallThrows` | `ScriptArgs /\ NumCoefficients <= 65 /\ MAX_OSC_PACKET_SIZE = 512 => (ScriptSpec => []NeverThrows)` |
| `OscContentProofs!PacketIsWhole` | `ScriptArgs => (ScriptSpec => []PacketWhole)` |
| `RoundTripProofs!StreamsStayNested` | `RoundTrip => []StreamsNested` |
| `RoundTripProofs!WhatIsPutIsRead` | `RoundTrip => []ReadsBack` |
| `RoundTripProofs!WholePacketIsRead` | `RoundTrip => []ReadsAll` |
| `RoundTripProofs!WhatIsPrintedIsTheText` | `RoundTrip => []PrintsBack` |
| `KissFftProofs!TypeCorrect` | `Spec => []TypeOK` |
| `KissFftProofs!StagesFitTogether` | `Spec => []FactorsChain` |
| `KissFftProofs!RadicesArePrime` | `Spec => []RadicesPrime` |
| `KissFftProofs!NextSizeIsLeast` | `Spec => []LeastFastSize` |
| `KissFftProofs!StateAlwaysFits` | `Spec => []StateFits` |

*SuperFrames.* `WindowContents` is not inductive: it speaks of a finished
superframe. The invariant adds that the offset is the number of frames in
`merged`, and that cell j of the array, for j below the offset, holds sample 0 of
frame j while the last frame lies whole behind the cells before it. One copy
preserves that, since it starts one cell further.

*Pipeline.* The invariant is `TypeOK`, `OpenFilesInSession` and
`SessionOpenInv`: in `frame`, `write` and `upload` a session is open. Without the
latter, `WritePacket` could open a file in no directory.
That a marker or an announcement is never merged as audio - the type of the
superframes - rests on the sizes: a usable frame has `SamplesPerFrame` samples and
every other message is shorter than `MinFrameBytes`.

*Collecting.* Both refinements of `FrameSlots` rest on the invariant of their
module and on `FramesPerSuperframe <= SamplesPerFrame`: a copy then reaches from
its offset to the last slot and past it, so the slots from the offset on all hold
the frame just merged (`WindowOfCopy`, `MergedCollects`). What is left is that the offset
wraps exactly when the packet is made, that a packet is no empty buffer, that
no other step but the end of the process touches the three variables, and what the supply asks for.
In `SuperFrames` that is the number of the frame received. In `Pipeline` the
frame that is merged was still to be read, is numbered before all that is read
afterwards (`QueueRises` of *Order*), and what is to be announced has higher numbers
still; so it is in no supply any more, and no step brings a number back (`SupplyShrinks`).
Whose frame it is says *Pairing*, where the queue loses nothing.

*Promise.* `RecInv` says three things. A session's marker is in the queue once, and
until it is read nothing is in its directory: hence `StartSession` opens an empty
one. While a session is open nothing of it is archived, and what there is of a
channel is in the file that is open for it: hence a packet goes to the end of
the channel's only file, although a restarted program or another client names
its files anew. And a file is never in two places, which an upload keeps because it works
on a session that is over. For one that outlived its analyser this is a part of the
invariant (`OrphansInv`): of the directories of `orphans` that Jamulus named, none is
the open one, none has its start marker still in the queue, so none is opened again, and no
channel is `unlinked` while a session of Jamulus is open. A kill cuts open files only, and these lie
in the open session (`OpenFilesInSession`). Directories whose names a frame spelled are
left out of the promise: they are opened as often as such frames come.

*Pairing.* The invariant speaks of the sequence `Upcoming`, the queue and the
frame Jamulus is about to send: every announcement in it is followed by its
frame, unless it is the last but Jamulus is between the two sends, and in
`frame` its head is the frame of `receivedMeta`. Taking the head, appending a
pair and appending a marker keep it; so do a flush, a crash and a misread frame,
because the reader takes two messages only after an announcement.

*Order.* Frames are numbered when they are announced. `QueueRises` says that what
is still to be read rises: the announcements among themselves, the frames among
themselves, and a frame is not before an announcement that stands ahead of it.
`FramesPast` and `MetasPast` are the numbers that lie behind all of that, and no step
takes a number out of them (`StepMoves`). What the analyser has kept lies
behind: the slots of a superframe, the announcement in hand, and the last packet of
every open file, which is also behind the slots of its channel. So a frame that
is merged comes after those in its superframe, and a packet after those in its
file, whichever messages were lost or misread in between. A kill leaves of a file its
beginning, which is still in order, and a file that is opened again is begun anew. So does
an orphaned upload that copies a file which is being written, in a directory whose name
a frame spelled. What the stream writes after that is in no file: a channel that is `unlinked`
has none in the open session, now or later (`UnlinkedGone`), so nothing is put behind a gap.

*Purity.* `SessionFollows(j, d)` says of the queue that from place j to the next end
marker all announcements are of session d, and that d is still Jamulus's session
if there is none. It holds behind every start marker of d, and from the front
while the analyser has d open: taking a message away keeps it unless that is the
end marker, and the analyser then closes d. That no end marker is skipped or
taken for a frame needs `PairInv` of *Pairing*.

*Forwarding.* A packet gets into `/osc` just before it is written, so what remains
is that no file loses one: `WritePacket` appends to the channel's only file, and
the upload overwrites none, because a file is never in two places (`RecInv`). Both
hold for sessions Jamulus named only, hence `NoMisreads`. Without kills there is no
upload but the analyser's own (`NoOrphans`).

*Nothing lost.* `Orderly` says what the run `orderly` has in its constants: nothing
is dropped on the queue, nothing is sent outside a session, Jamulus starts after the
analyser listens, no kill, and every frame has the expected size. What a frame's bytes read
as is left open: they never are read as a marker. `Conserved` is the property
with its sums written as sums of two functions, the offsets and the lengths of the files. The
step that needs an invariant is an announcement: the loop drops one that it reads
while no session is open. `AudioInSession` says of the queue that in front
of every announcement there is a start marker with no end marker between, or no
end marker at all and a session is open; so one is open when it is read.
`FramesExpected` says that a frame stands behind an announcement and is usable, so that none is
rejected. Then each step moves one frame from one summand
to the next, or `FramesPerSuperframe` of them from the offsets into a packet; the upload
moves all files of a directory, and those in S3 are counted as well. That a sum of a
function over a finite set changes as the function does in one place (`SumChanges`) is
induction over the set; the library's `SumFunction` is a fold, and the
induction is again done with a set of numbers, the cardinalities up to which
it holds. `FinitelyMany` is needed for that only: an infinite sum has no value.

*OscPacket, where things lie.* `PacketInv` has the statements themselves and, as
long as nothing was thrown, `Places`: the open elements lie one in the other, each
behind the header of those around it and its own slot in front of it
(`OpenNest`); the tag stream of an open message lies behind its address, before
its arguments, and has room for one tag more than announced (`TagArea`); the
slots of the bundles are linked (`SlotList`); a closed element ends before the
slot of an open one or begins behind that one's header (`ClosedPlaces`). What
a call writes is then never in the way of a size or a link: the arguments' stream writes at its
position, behind everything; a tag goes into the tag area, a size into the
innermost open slot, and both lie apart from all slots of other elements. An
exception may come after any of these writes, so what is said of closed
elements is kept through a call that throws as well. `SizesPredicted` adds up what each
call takes (`Align`, the slots) against `needed`.

*OscPacket, what they hold.* `Content` says of every closed message that its words are
its encoding, and of the open one that the buffer holds the address,
the tags so far with zeros behind them, and the arguments so far up to the position. Putting an
argument extends both ends: one character of one word of the tags, and the words behind the position.
That the arguments' words lie one behind the other is `FlattenAppend`, that
appending to a sequence of sequences appends to its flattening. `FlattenSeq` is a
fold, so this is an induction over data; it is done with the set of lengths up to
which it holds and the least number of a set (`AllNumbers`), since the library's
induction theorems, which take an operator, cannot be used. `Tiles` says of every closed bundle
that elements follow its header without a gap up to its end, and of every open
one that they do up to its `Limit`: the slot of the open element inside it, or
the position. An element opened in a bundle leaves its limit where it was, one
that closes moves it from its slot to its end, which is that element's, and
closing the bundle makes its limit its end.

*The program's packet.* `ScriptArgs` says what the constants of `MakeOscPacket` are: the
lengths of the six addresses, that a number is one word, and that `Packet` takes what the script
passes it. Every step of the script is a step of `OscPacket`, so `PacketInv` holds
here too. `Opening`, `Given` and `Taken` number the calls: where each message is
opened, how many arguments it gets, and what the calls before it take. The
invariant `ScriptInv` says with them what `needed` is at each call (`At`), that
no message gets more arguments than tags were announced for (`TagsFit`), and, while nothing has
thrown, where the packet stands (`Progress`): before the bundle, between two messages,
inside one with so many arguments, or finished, with the messages
closed so far being the first of the six in their order (`InOrder`). `SizesPredicted` then leaves no
exception for an aligned buffer of `PacketSize` bytes. `PacketSize` is a sum
over the calls, evaluated with `SumChanges` by adding one call at a time; with n
coefficients it is 180 + Align(n + 4) + 4n: 252 for the 13 of the program,
and at most 512 up to n = 65. The hypothesis on n is therefore the largest that
`MAX_OSC_PACKET_SIZE` allows.

*The round trip.* What the reader finds rests on what the client's theorems say of a
packet: `Content` and `Tiles`, and `Nesting`, that two closed elements lie apart or one
in the other and that a complete packet is one element around all others. `Complete` adds
the caller's side of the bargain, `ArgsAssumption` which words the calls write for an
argument of each type. `TripInv` relates the reader's streams to the packet:

- the i-th stream of `bundles` is on a bundle with i - 1 bundles around it and stands at the end of its
  header or of an element in it, and no element of that bundle lies across its
  position (`ReadsBundle`). The bytes at its position are then the size of the next element
  (`ElementFound`), or the packet was cut there;
- each stream of `message` is on arguments b + 1 to e of the message and stands before argument
  k + 1, with its tags and with its words, and from b to e brackets are balanced
  (`ArgsBetween`); the stream around an array stands behind the closing bracket;
- the elements seen so far are those whose first byte is before the position
  outside the messages (`Before`), so the number of the last one is its place among all (`Rank`);
- nothing is thrown while the packet is whole.

An argument is then found where the sum of the words before it says (`ArgPlaced`), and its end is
found by its type (`AfterAtomIs`): a string ends at its first word with a zero at its end, which needs
that no word of a string before the last one has one, and a blob at its padding. What `dropArray` finds
is `AfterArrayIs`: after n tags it is as deep as the brackets among them say and before the
argument it should be, until the depth falls below that of the array, which
it does at the closing bracket (`DropsAll`, by induction on n). A bundle's tag and
the comma of a message tell them apart (`MessageEnters`). `TripInv` was checked by TLC on the
instance of `roundtrip` before it was proved.

*The printer.* `PrintInv` says of the text how far it is in that of the packet. If e is the last
element the reader entered, the text is that of all elements before e, the body of e
up to the argument its tags stand at (`Shown`), and, if the packet is whole, the ends of as many
bundles as e is deeper than the reader is now (`Seen`, `Prints`). A packet that was cut
has the same text but for the ends of bundles (`Inner`), because a bundle that lost its
last elements ends early. Behind an exception it may have one token more, the label of the argument
at which the tags stand (`Labelled`); nothing is printed after it, and a packet that is whole throws
nothing. That the printer is never wrong about an end is a fact about sets: the
bundles around e that end where e does and that the reader has left are as many as the
levels it came up (`Left`, `EndsPrinted`), each bundle it leaves is one more
(`OneMoreLeft`), and before it goes on in a bundle it has left all of them (`AllLeft`).
Of the end of an array the invariant adds that the stream ends at a closing bracket
in the tags, since the printer writes a bracket of its own there. `PrintInv` rests on
`TripInv` and on `BundlesPutNothing`: only messages have arguments.

*KissFactor.* `FactorsChain` needs that a division that is followed by another
left more than 1 (`MoreToDivide`); the step rests on `ExactQuotient`, that a
quotient without remainder times the divisor is the dividend, and the type of
the radix on `RootBounds`: what is not past the root is not past the length.
The other calls of `KissFft` leave the stages as they are (`Untouched`), and a plan
that is in use has been factored to 1 (`Kept`), so what is proved of the loop holds
through every call that comes after it.
`RadicesPrime` needs `Sieved`: no number below the radix that is tried divides what is left,
but for 4, which is tried first, and 2, which is tried when 4 no longer divides. A
radix that divides is therefore 4 or prime (`DividesOn`), the radix after p may be
p + 2, since what is left is odd (`CandidateSieves`), and past the root
what is left is prime itself, since with a divisor comes another one on the
other side of the root (`SmallDivisor`). Both versions skip only when the square
of the radix is past what is left; the root of the whole length is merely later.

*KissFft, sizes and memory.* `LeastFastSize` needs that `rest` is what is left of
`fast`: it is fast if and only if `fast` is, and that a fast `int` is still ahead. Dividing keeps that, because a prime
2, 3 or 5 that divides a product and not the one factor divides the other
(`FastPrime`, `DividedIsFast`). When none of the three divides `rest` any more, `fast` is fast if
`rest` is 1 and not otherwise; so no fast size is passed by. `StateFits` compares
what is stored with the block computed beforehand, which has room for `MAXFACTORS`
stages: each stage at least halves what is left of an int (`FewStages`), so
there are at most 31 of them.

Only model-checked: of `KissFft` `TransformIsDFT`, since that a transform of
transforms is the transform is an induction over the stages; and of the loop
the liveness properties, since liveness under fairness is out of the prover's reach.

## 5. Not modelled

- Failing `mq_open` and `mq_getattr`, and a queue that exists with larger
  messages than the buffers (reported at `main.cpp:38-41`, then used).
- `mq_receive` returning -1 in the loop: no handler is installed that would
  interrupt it.
- Sample and feature values, Gist, byte swaps, output to the console.
- Of the server: negative sizes, which the client never writes; a receive buffer
  that is not aligned; reading an argument by a call its tag does not ask for
  (numbers are converted, anything else throws with the tag already taken);
  `ArgStream::size()`, which nothing calls. Of the printer: spaces and line ends.
- `putFloat64` and `getFloat64`, which neither `Packet` nor `ArgStream` calls.
- Of kiss_fft: fixed point, SIMD and OpenMP (not built), and the temporary buffer
  of a transform in place.

## 6. Plan

1. Done: the loop and its environment, the promises about files and about frames,
   superframes, the client on any buffer, the packet of the program, the server,
   the printer and the round trip, both FFTs and their memory; type correctness,
   files, their order and purity, pairing, forwarding, conservation of frames, the promises about files and
   frames (as refinements), everything the runs check of the client's packets and of the
   program's packet, of the reader and the printer, and of the FFT all but the transform itself proved.
2. Models: a caller that reads arguments by the wrong call and goes on after the
   exception; the transform in place.
3. Proofs: the liveness of the loop and `TransformIsDFT` are left to TLC.
