----------------------------- MODULE MCPipeline -----------------------------
(***************************************************************************)
(* Instances of Pipeline for TLC.  The sizes are the program's own: 200,   *)
(* 66, 1 and 96 bytes, 128 samples; a superframe has two frames instead of *)
(* eight and the queues two or three places.                               *)
(***************************************************************************)
EXTENDS Pipeline, TLC

CONSTANTS c1, c2, k1, k2, d1, d2, garbage, slashed

(* Frames of the expected size, with every first byte that is told apart.  *)
(* When that byte is 0 the bytes behind it read as a directory name.       *)
SilentFrames ==
  [size : {256}, metaType : {startSession}, sessionDir : GarbageDirs \cup {NoDir}]
FullFrames ==
  [size : {256}, metaType : MetaTypes \ {startSession}, sessionDir : {NoDir}]
    \cup SilentFrames

(* With a frame of another length among them.                              *)
MixedFrames ==
  [size : {256}, metaType : {endSession, 3}, sessionDir : {NoDir}]
    \cup [size : {128}, metaType : {3}, sessionDir : {NoDir}]
    \cup SilentFrames

Sizes == {128, 255, 256, 512}

Symmetry ==
  Permutations(Channels) \cup Permutations(Clients) \cup Permutations(Dirs)
=============================================================================
