---------------------------- MODULE MCSuperFrames ----------------------------
(***************************************************************************)
(* SuperFrames on small arrays: frames of four samples (8 bytes), and      *)
(* frames that are too short, of an odd size, or twice as long.            *)
(***************************************************************************)
EXTENDS SuperFrames

CONSTANTS c1, c2

Sizes == {6, 8, 9, 16}
=============================================================================
