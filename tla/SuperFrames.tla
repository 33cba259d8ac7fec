----------------------------- MODULE SuperFrames -----------------------------
(***************************************************************************)
(* The superframe arrays of pipeMessages(), cell by cell.                  *)
(*                                                                         *)
(* Analyser says of a superframe only which frame a cell came from.  Here  *)
(* a cell holds one sample, the copy goes through the pointer the code     *)
(* computes (superFrame.data() + superFrameOffsets[channelId]++), and what *)
(* Gist is given when the superframe is full is kept.                      *)
(***************************************************************************)
EXTENDS Integers, Sequences

CONSTANTS
  Channels,
  FramesPerSuperframe,  \* 8 in the code
  SamplesPerFrame,      \* 128 in the code
  MinFrameBytes,        \* 200 in the code
  FrameSizes,           \* sizes in bytes of what is received as a frame
  Zero,                 \* a cell nothing was copied to
  Nothing,              \* Gist has not run yet
  MaxFrames             \* bound: frames received

ASSUME SuperFramesAssumption ==
  /\ FramesPerSuperframe \in Nat \ {0}
  /\ SamplesPerFrame \in Nat \ {0}
  /\ MinFrameBytes \in Nat
  /\ FrameSizes \subseteq Nat
  /\ MaxFrames \in Nat
  /\ FramesPerSuperframe <= SamplesPerFrame

VARIABLES
  superFrames,          \* superFrames[c]: the channel's array
  superFrameOffsets,    \* superFrameOffsets[c]: where its next frame is copied to
  received,             \* how many frames were received: the number of the next one
  merged,               \* ghost: the frames copied since the superframe was begun
  analysed              \* ghost: the last array that Gist was given, and its frames

vars == <<superFrames, superFrameOffsets, received, merged, analysed>>

SAMPLES_PER_SUPERFRAME == SamplesPerFrame * FramesPerSuperframe
Cells == 0 .. (SAMPLES_PER_SUPERFRAME - 1)
InFrame == 0 .. (SamplesPerFrame - 1)
SampleBytes == 2

(* A sample is <<f, i>>: number i of frame f.                              *)
Samples == Nat \X InFrame
Arrays == [Cells -> Samples \cup {Zero}]

Analyses == [array : Arrays, frames : Seq(Nat)]

ASSUME EmptyAssumption == Zero \notin Samples /\ Nothing \notin Analyses

Init ==
  /\ superFrames = [c \in Channels |-> [j \in Cells |-> Zero]]
  /\ superFrameOffsets = [c \in Channels |-> 0]
  /\ received = 0
  /\ merged = [c \in Channels |-> << >>]
  /\ analysed = Nothing

-----------------------------------------------------------------------------
Receive == received < MaxFrames /\ received' = received + 1

(* The checks on the size of a frame, in the order of the code.            *)
Refused(sizeRead) ==
  \/ sizeRead < MinFrameBytes
  \/ sizeRead % 2 = 1
  \/ sizeRead \div SampleBytes # SamplesPerFrame

RefuseFrame ==
  /\ Receive
  /\ \E sizeRead \in FrameSizes : Refused(sizeRead)
  /\ UNCHANGED <<superFrames, superFrameOffsets, merged, analysed>>

CopiedToStart(array, offset, f, sampleCount) ==      \* mutant: no offset added
  [j \in Cells |-> IF j < sampleCount THEN <<f, j>> ELSE array[j]]

(* The copy loop: frame f goes to the cells from `offset` on.              *)
Copied(array, offset, f, sampleCount) ==
  [j \in Cells |-> IF j \in offset .. (offset + sampleCount - 1)
                   THEN <<f, j - offset>>
                   ELSE array[j]]

FillsUpTo(offset) == offset + 1 <= FramesPerSuperframe          \* mutant: <= for <

(* After a frame at this offset the superframe is still short of frames.   *)
Fills(offset) == offset + 1 < FramesPerSuperframe

OffsetAfterFull(offset) == offset + 1                           \* mutant: no reset
OffsetAfter(offset) == IF Fills(offset) THEN offset + 1 ELSE 0

(* A frame that leaves the superframe short of FramesPerSuperframe.        *)
FillFrame(c, sizeRead) ==
  /\ Receive
  /\ ~Refused(sizeRead)
  /\ Fills(superFrameOffsets[c])
  /\ superFrames' = [superFrames EXCEPT
       ![c] = Copied(@, superFrameOffsets[c], received, sizeRead \div SampleBytes)]
  /\ superFrameOffsets' = [superFrameOffsets EXCEPT ![c] = OffsetAfter(@)]
  /\ merged' = [merged EXCEPT ![c] = Append(@, received)]
  /\ UNCHANGED analysed

(* The frame that completes it: the offset starts over and Gist runs on    *)
(* the array.                                                              *)
CompleteFrame(c, sizeRead) ==
  LET array == Copied(superFrames[c], superFrameOffsets[c], received,
                      sizeRead \div SampleBytes)
  IN
  /\ Receive
  /\ ~Refused(sizeRead)
  /\ ~Fills(superFrameOffsets[c])
  /\ superFrames' = [superFrames EXCEPT ![c] = array]
  /\ superFrameOffsets' = [superFrameOffsets EXCEPT ![c] = OffsetAfter(@)]
  /\ merged' = [merged EXCEPT ![c] = << >>]
  /\ analysed' = [array |-> array, frames |-> Append(merged[c], received)]

Next ==
  \/ RefuseFrame
  \/ \E c \in Channels, sizeRead \in FrameSizes :
       FillFrame(c, sizeRead) \/ CompleteFrame(c, sizeRead)

Spec == Init /\ [][Next]_vars

-----------------------------------------------------------------------------
(* Type invariant.                                                         *)
TypeOK ==
  /\ superFrames \in [Channels -> Arrays]
  /\ superFrameOffsets \in [Channels -> 0 .. (FramesPerSuperframe - 1)]
  /\ received \in Nat
  /\ merged \in [Channels -> Seq(Nat)]
  /\ analysed \in Analyses \cup {Nothing}

(***************************************************************************)
(* The next copy stays inside the array, for any number of frames and with *)
(* frames of other lengths in between.  The code has no check: the pointer *)
(* of main.cpp:243 is only as good as the reset of main.cpp:251.           *)
(***************************************************************************)
CopyInBounds ==
  \A c \in Channels :
    superFrameOffsets[c] .. (superFrameOffsets[c] + SamplesPerFrame - 1) \subseteq Cells

(***************************************************************************)
(* What Gist hears, the first SamplesPerFrame cells (main.cpp:255), is one *)
(* sample of each frame of the superframe but the last and then the start  *)
(* of the last one, in order and with nothing left over from an earlier    *)
(* superframe.                                                             *)
(***************************************************************************)
WindowContents ==
  analysed # Nothing =>
    /\ Len(analysed.frames) = FramesPerSuperframe
    /\ \A j \in InFrame :
         LET k == IF j < FramesPerSuperframe THEN j ELSE FramesPerSuperframe - 1
         IN  analysed.array[j] = <<analysed.frames[k + 1], j - k>>

(***************************************************************************)
(* "Merge 8 frames from Jamulus into a super-frame for analysis"           *)
(* (main.cpp:235): frame k of the superframe lies in it whole, behind the  *)
(* frames before it.                                                       *)
(***************************************************************************)
SuperframeMergesFrames ==
  analysed # Nothing =>
    \A k \in 0 .. (FramesPerSuperframe - 1), i \in InFrame :
      analysed.array[SamplesPerFrame * k + i] = <<analysed.frames[k + 1], i>>

(***************************************************************************)
(* Cell by cell, too, a channel collects frames as FrameSlots says, and    *)
(* Gist is given the frames of one superframe, no frame ever twice, of     *)
(* those received one after another: what Analyser keeps of an array is    *)
(* right. (main.cpp:229-256)                                               *)
(***************************************************************************)
FrameIn(cell) == IF cell = Zero THEN Nothing ELSE cell[1]
Window(array) == [k \in 0 .. (FramesPerSuperframe - 1) |-> FrameIn(array[k])]

Collection == INSTANCE FrameSlots WITH
  supply <- [c \in Channels |-> received .. (MaxFrames - 1)],
  slots <- [c \in Channels |-> Window(superFrames[c])],
  offsets <- superFrameOffsets,
  packet <- IF analysed = Nothing THEN Nothing ELSE Window(analysed.array)

CollectsFrames == Collection!Spec
=============================================================================
