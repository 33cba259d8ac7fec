-------------------------- MODULE SuperFramesProofs --------------------------
(***************************************************************************)
(* Proofs about SuperFrames, for every number of channels, of frames in a  *)
(* superframe and of samples in a frame.                                   *)
(***************************************************************************)
EXTENDS SuperFrames, TLAPS

(***************************************************************************)
(* The array after copying `frames` one after another, each one cell       *)
(* behind the one before: every cell but the last SamplesPerFrame - 1 was  *)
(* overwritten by the following frame.                                     *)
(***************************************************************************)
Owner(frames, j) == IF j < Len(frames) THEN j ELSE Len(frames) - 1

Overlapped(array, frames) ==
  \A j \in 0 .. (Len(frames) + SamplesPerFrame - 2) :
    array[j] = <<frames[Owner(frames, j) + 1], j - Owner(frames, j)>>

(* The inductive strengthening: every array holds what was merged into it, *)
(* and so did the one Gist was given.                                      *)
ArraysInv ==
  /\ \A c \in Channels :
       /\ Len(merged[c]) = superFrameOffsets[c]
       /\ merged[c] # << >> => Overlapped(superFrames[c], merged[c])
  /\ analysed # Nothing =>
       /\ Len(analysed.frames) = FramesPerSuperframe
       /\ Overlapped(analysed.array, analysed.frames)

IInv == TypeOK /\ ArraysInv

-----------------------------------------------------------------------------
(* A copy from a legal offset stays inside the array: S * F is at least    *)
(* (F - 1) + S.                                                            *)
LEMMA OffsetInBounds ==
  ASSUME NEW o \in 0 .. (FramesPerSuperframe - 1)
  PROVE  o + SamplesPerFrame - 1 <= SAMPLES_PER_SUPERFRAME - 1
<1> DEFINE F == FramesPerSuperframe
           S == SamplesPerFrame
<1>0. F \in Nat /\ S \in Nat /\ F >= 1 /\ S >= 1 /\ o <= F - 1 /\ o \in Nat
  BY SuperFramesAssumption
<1> HIDE DEF F, S
<1>1. (S - 1) * (F - 1) >= 0
  BY <1>0, SMT
<1>2. (S - 1) * (F - 1) = S * F - S - F + 1
  BY <1>0, SMT
<1>3. S * F >= S + (F - 1)
  <2>1. S * F \in Int BY <1>0, SMT
  <2>2. (S - 1) * (F - 1) \in Int BY <1>0, SMT
  <2> QED BY <2>1, <2>2, <1>0, <1>1, <1>2, SMT
<1>4. S * F \in Int BY <1>0, SMT
<1> QED BY <1>0, <1>3, <1>4, SMT DEF SAMPLES_PER_SUPERFRAME, F, S

(* The copy loop turns an array of samples into one.                       *)
LEMMA CopiedType ==
  ASSUME NEW array \in Arrays, NEW o \in Nat, NEW f \in Nat
  PROVE  Copied(array, o, f, SamplesPerFrame) \in Arrays
<1> SUFFICES ASSUME NEW j \in Cells
             PROVE  (IF j \in o .. (o + SamplesPerFrame - 1)
                     THEN <<f, j - o>> ELSE array[j]) \in Samples \cup {Zero}
  BY DEF Copied, Arrays
<1>1. CASE j \in o .. (o + SamplesPerFrame - 1)
  <2>1. j - o \in InFrame
    BY <1>1, SuperFramesAssumption DEF InFrame
  <2> QED BY <1>1, <2>1 DEF Samples
<1>2. CASE j \notin o .. (o + SamplesPerFrame - 1)
  BY <1>2 DEF Arrays
<1> QED BY <1>1, <1>2

(* Copying one more frame behind overlapped ones keeps them overlapped.    *)
LEMMA CopiedOverlaps ==
  ASSUME NEW array \in Arrays, NEW frames \in Seq(Nat), NEW f \in Nat,
         Len(frames) \in 0 .. (FramesPerSuperframe - 1),
         frames # << >> => Overlapped(array, frames)
  PROVE  Overlapped(Copied(array, Len(frames), f, SamplesPerFrame),
                    Append(frames, f))
<1> DEFINE n == Len(frames)
           all == Append(frames, f)
           new == Copied(array, n, f, SamplesPerFrame)
<1>0. n \in Nat /\ SamplesPerFrame \in Nat /\ SamplesPerFrame >= 1
  BY SuperFramesAssumption
<1>1. Len(all) = n + 1 /\ all[n + 1] = f /\ \A i \in 1 .. n : all[i] = frames[i]
  OBVIOUS
<1>2. n + SamplesPerFrame - 1 <= SAMPLES_PER_SUPERFRAME - 1
  BY OffsetInBounds
<1>3. SAMPLES_PER_SUPERFRAME \in Nat
  BY SuperFramesAssumption, SMT DEF SAMPLES_PER_SUPERFRAME
<1> SUFFICES ASSUME NEW j \in 0 .. (n + 1 + SamplesPerFrame - 2)
             PROVE  new[j] = <<all[Owner(all, j) + 1], j - Owner(all, j)>>
  BY <1>1 DEF Overlapped
<1>4. j \in Cells
  BY <1>0, <1>2, <1>3 DEF Cells
<1>5. new[j] = IF j \in n .. (n + SamplesPerFrame - 1) THEN <<f, j - n>> ELSE array[j]
  BY <1>4 DEF Copied
<1>6. CASE j >= n
  <2>1. Owner(all, j) = n
    BY <1>0, <1>1, <1>6 DEF Owner
  <2>2. j \in n .. (n + SamplesPerFrame - 1)
    BY <1>0, <1>6
  <2> QED BY <1>1, <1>5, <2>1, <2>2
<1>7. CASE j < n
  <2>1. Owner(all, j) = j /\ Owner(frames, j) = j
    BY <1>0, <1>1, <1>7 DEF Owner
  <2>2. new[j] = array[j]
    BY <1>0, <1>5, <1>7
  <2>3. frames # << >>
    BY <1>0, <1>7
  <2>4. array[j] = <<frames[j + 1], j - j>>
    BY <1>0, <1>7, <2>1, <2>3 DEF Overlapped
  <2>5. all[j + 1] = frames[j + 1]
    BY <1>0, <1>1, <1>7
  <2> QED BY <2>1, <2>2, <2>4, <2>5
<1>8. j >= n \/ j < n
  BY <1>0
<1> QED BY <1>6, <1>7, <1>8

-----------------------------------------------------------------------------
LEMMA InitHolds == Init => IInv
<1> SUFFICES ASSUME Init PROVE IInv
  OBVIOUS
<1>1. TypeOK
  BY SuperFramesAssumption DEF Init, TypeOK, Arrays
<1>2. ArraysInv
  BY DEF Init, ArraysInv
<1> QED BY <1>1, <1>2 DEF IInv

(* What both kinds of merge do to the array of channel c.                  *)
LEMMA MergeFacts ==
  ASSUME IInv, NEW c \in Channels, NEW sizeRead \in FrameSizes, ~Refused(sizeRead)
  PROVE  LET array == Copied(superFrames[c], superFrameOffsets[c], received,
                             sizeRead \div SampleBytes)
             frames == Append(merged[c], received)
         IN  /\ array \in Arrays
             /\ frames \in Seq(Nat)
             /\ Len(frames) = superFrameOffsets[c] + 1
             /\ Overlapped(array, frames)
<1> USE DEF IInv, TypeOK, ArraysInv
<1>1. sizeRead \div SampleBytes = SamplesPerFrame
  BY DEF Refused
<1>2. /\ superFrames[c] \in Arrays
      /\ superFrameOffsets[c] \in 0 .. (FramesPerSuperframe - 1)
      /\ superFrameOffsets[c] \in Nat
      /\ received \in Nat
      /\ merged[c] \in Seq(Nat)
      /\ Len(merged[c]) = superFrameOffsets[c]
      /\ merged[c] # << >> => Overlapped(superFrames[c], merged[c])
  OBVIOUS
<1> HIDE DEF IInv, TypeOK, ArraysInv
<1>3. Copied(superFrames[c], superFrameOffsets[c], received, SamplesPerFrame) \in Arrays
  BY <1>2, CopiedType
<1>4. Overlapped(Copied(superFrames[c], superFrameOffsets[c], received, SamplesPerFrame),
                 Append(merged[c], received))
  BY <1>2, CopiedOverlaps
<1>5. Append(merged[c], received) \in Seq(Nat)
      /\ Len(Append(merged[c], received)) = superFrameOffsets[c] + 1
  BY <1>2
<1> QED BY <1>1, <1>3, <1>4, <1>5

LEMMA StepHolds == IInv /\ [Next]_vars => IInv'
<1> SUFFICES ASSUME IInv, [Next]_vars PROVE IInv'
  OBVIOUS
<1>1. CASE RefuseFrame
  BY <1>1 DEF RefuseFrame, Receive, IInv, TypeOK, ArraysInv
<1>2. ASSUME NEW c \in Channels, NEW sizeRead \in FrameSizes, FillFrame(c, sizeRead)
      PROVE  IInv'
  <2> DEFINE array == Copied(superFrames[c], superFrameOffsets[c], received,
                             sizeRead \div SampleBytes)
             frames == Append(merged[c], received)
  <2>1. /\ array \in Arrays
        /\ frames \in Seq(Nat)
        /\ Len(frames) = superFrameOffsets[c] + 1
        /\ Overlapped(array, frames)
    BY <1>2, MergeFacts DEF FillFrame
  <2>2. /\ superFrames' = [superFrames EXCEPT ![c] = array]
        /\ superFrameOffsets' = [superFrameOffsets EXCEPT ![c] = @ + 1]
        /\ merged' = [merged EXCEPT ![c] = frames]
        /\ superFrameOffsets[c] + 1 < FramesPerSuperframe
        /\ received' = received + 1
        /\ analysed' = analysed
    BY <1>2 DEF FillFrame, Receive, Fills, OffsetAfter
  <2> HIDE DEF array, frames
  <2>3. TypeOK'
    BY <2>1, <2>2, SuperFramesAssumption DEF IInv, TypeOK, Analyses
  <2>4. ArraysInv'
    BY <2>1, <2>2 DEF IInv, TypeOK, ArraysInv
  <2> QED BY <2>3, <2>4 DEF IInv
<1>3. ASSUME NEW c \in Channels, NEW sizeRead \in FrameSizes, CompleteFrame(c, sizeRead)
      PROVE  IInv'
  <2> DEFINE array == Copied(superFrames[c], superFrameOffsets[c], received,
                             sizeRead \div SampleBytes)
             frames == Append(merged[c], received)
  <2>1. /\ array \in Arrays
        /\ frames \in Seq(Nat)
        /\ Len(frames) = superFrameOffsets[c] + 1
        /\ Overlapped(array, frames)
    BY <1>3, MergeFacts DEF CompleteFrame
  <2>2. /\ superFrames' = [superFrames EXCEPT ![c] = array]
        /\ superFrameOffsets' = [superFrameOffsets EXCEPT ![c] = 0]
        /\ merged' = [merged EXCEPT ![c] = << >>]
        /\ ~(superFrameOffsets[c] + 1 < FramesPerSuperframe)
        /\ received' = received + 1
        /\ analysed' = [array |-> array, frames |-> frames]
    BY <1>3 DEF CompleteFrame, Receive, Fills, OffsetAfter
  <2> HIDE DEF array, frames
  <2>3. TypeOK'
    BY <2>1, <2>2, SuperFramesAssumption DEF IInv, TypeOK, Analyses
  <2>4. Len(frames) = FramesPerSuperframe
    BY <2>1, <2>2, SuperFramesAssumption DEF IInv, TypeOK, Analyses
  <2>5. ArraysInv'
    BY <2>1, <2>2, <2>4 DEF IInv, TypeOK, ArraysInv
  <2> QED BY <2>3, <2>5 DEF IInv
<1>4. CASE UNCHANGED vars
  BY <1>4 DEF vars, IInv, TypeOK, ArraysInv
<1> QED BY <1>1, <1>2, <1>3, <1>4 DEF Next

(* The strengthened invariant holds in every reachable state.              *)
LEMMA IInvHolds == Spec => []IInv
<1> QED BY InitHolds, StepHolds, PTL DEF Spec

-----------------------------------------------------------------------------
(* The arrays stay arrays of samples and the offsets stay below            *)
(* FramesPerSuperframe (main.cpp:243-251).                                 *)
THEOREM TypeCorrect == Spec => []TypeOK
<1>1. IInv => TypeOK BY DEF IInv
<1> QED BY IInvHolds, <1>1, PTL

(* The copy loop never leaves the array (main.cpp:243-246).                *)
THEOREM CopiesStayInBounds == Spec => []CopyInBounds
<1>1. IInv => CopyInBounds
  <2> SUFFICES ASSUME IInv, NEW c \in Channels,
                      NEW j \in superFrameOffsets[c] ..
                                  (superFrameOffsets[c] + SamplesPerFrame - 1)
               PROVE  j \in Cells
    BY DEF CopyInBounds
  <2>1. superFrameOffsets[c] \in 0 .. (FramesPerSuperframe - 1)
    BY DEF IInv, TypeOK
  <2>2. superFrameOffsets[c] + SamplesPerFrame - 1 <= SAMPLES_PER_SUPERFRAME - 1
    BY <2>1, OffsetInBounds
  <2>3. SAMPLES_PER_SUPERFRAME \in Nat
    BY SuperFramesAssumption, SMT DEF SAMPLES_PER_SUPERFRAME
  <2> QED BY <2>1, <2>2, <2>3, SuperFramesAssumption DEF Cells
<1> QED BY IInvHolds, <1>1, PTL

(* What Gist hears comes from the frames of this superframe only, one      *)
(* sample of each but the last, and then the last (main.cpp:243-255).      *)
THEOREM WindowCorrect == Spec => []WindowContents
<1>1. IInv => WindowContents
  <2> SUFFICES ASSUME IInv, analysed # Nothing PROVE WindowContents
    BY DEF WindowContents
  <2>1. Len(analysed.frames) = FramesPerSuperframe
        /\ Overlapped(analysed.array, analysed.frames)
    BY DEF IInv, ArraysInv
  <2> SUFFICES ASSUME NEW j \in InFrame
               PROVE  LET k == IF j < FramesPerSuperframe THEN j
                               ELSE FramesPerSuperframe - 1
                      IN  analysed.array[j] = <<analysed.frames[k + 1], j - k>>
    BY <2>1 DEF WindowContents
  <2>2. j \in 0 .. (FramesPerSuperframe + SamplesPerFrame - 2)
    BY SuperFramesAssumption DEF InFrame
  <2> QED BY <2>1, <2>2 DEF Overlapped, Owner
<1> QED BY IInvHolds, <1>1, PTL

-----------------------------------------------------------------------------
(* The window of an array, slot by slot, after another copy.               *)
LEMMA WindowOfCopy ==
  ASSUME NEW array \in Arrays, NEW o \in 0 .. (FramesPerSuperframe - 1), NEW f \in Nat
  PROVE  Window(Copied(array, o, f, SamplesPerFrame)) =
           [k \in 0 .. (FramesPerSuperframe - 1) |->
              IF k < o THEN Window(array)[k] ELSE f]
<1> SUFFICES ASSUME NEW k \in 0 .. (FramesPerSuperframe - 1)
             PROVE  FrameIn(Copied(array, o, f, SamplesPerFrame)[k]) =
                      IF k < o THEN FrameIn(array[k]) ELSE f
  BY DEF Window
<1>1. k \in Cells
  <2>1. k + SamplesPerFrame - 1 <= SAMPLES_PER_SUPERFRAME - 1
    BY OffsetInBounds
  <2>2. SAMPLES_PER_SUPERFRAME \in Nat
    BY SuperFramesAssumption, SMT DEF SAMPLES_PER_SUPERFRAME
  <2> QED
    BY <2>1, <2>2, SuperFramesAssumption DEF Cells
<1>2. CASE k < o
  BY <1>1, <1>2 DEF Copied
<1>3. CASE k >= o
  <2>1. k \in o .. (o + SamplesPerFrame - 1) /\ k - o \in InFrame
    BY <1>3, SuperFramesAssumption DEF InFrame
  <2>2. Copied(array, o, f, SamplesPerFrame)[k] = <<f, k - o>>
    BY <1>1, <2>1 DEF Copied
  <2>3. <<f, k - o>> # Zero
    BY <2>1, EmptyAssumption DEF Samples
  <2> QED
    BY <1>3, <2>2, <2>3 DEF FrameIn
<1> QED
  BY <1>2, <1>3

LEMMA InitCollects == Init => Collection!Init
<1> SUFFICES ASSUME Init PROVE Collection!Init
  OBVIOUS
<1>1. ASSUME NEW c \in Channels
      PROVE  Window(superFrames[c]) = [k \in Collection!Slots |-> Nothing]
  <2>1. \A k \in 0 .. (FramesPerSuperframe - 1) : k \in Cells
    <3> SUFFICES ASSUME NEW k \in 0 .. (FramesPerSuperframe - 1) PROVE k \in Cells
      OBVIOUS
    <3>1. k + SamplesPerFrame - 1 <= SAMPLES_PER_SUPERFRAME - 1
      BY OffsetInBounds
    <3>2. SAMPLES_PER_SUPERFRAME \in Nat
      BY SuperFramesAssumption, SMT DEF SAMPLES_PER_SUPERFRAME
    <3> QED
      BY <3>1, <3>2, SuperFramesAssumption DEF Cells
  <2> QED
    BY <2>1 DEF Init, Window, FrameIn, Collection!Slots
<1> QED
  BY <1>1 DEF Init, Collection!Init

(* Received frames are not offered again.                                  *)
LEMMA SupplyShrinks ==
  ASSUME IInv, Receive
  PROVE  received' .. (MaxFrames - 1) \subseteq received .. (MaxFrames - 1)
<1>1. received \in Nat /\ received' = received + 1
  BY DEF IInv, TypeOK, Receive
<1> QED
  BY <1>1, SuperFramesAssumption

(* One frame merged, whether it completes the superframe or not.           *)
LEMMA MergeCollects ==
  ASSUME IInv, NEW c \in Channels, NEW sizeRead \in FrameSizes,
         FillFrame(c, sizeRead) \/ CompleteFrame(c, sizeRead)
  PROVE  Collection!Next
<1> DEFINE F == FramesPerSuperframe
           o == superFrameOffsets[c]
           array == Copied(superFrames[c], o, received, SamplesPerFrame)
           kept == [k \in 0 .. (F - 1) |->
                      IF k < o THEN Window(superFrames[c])[k] ELSE received]
<1>1. /\ F \in Nat \ {0}
      /\ superFrames \in [Channels -> Arrays]
      /\ superFrames[c] \in Arrays
      /\ superFrameOffsets \in [Channels -> 0 .. (F - 1)]
      /\ o \in 0 .. (F - 1)
      /\ received \in Nat
  BY SuperFramesAssumption DEF IInv, TypeOK
<1>2. sizeRead \div SampleBytes = SamplesPerFrame
  BY DEF FillFrame, CompleteFrame, Refused
<1>3. /\ superFrames' = [superFrames EXCEPT ![c] = array]
      /\ superFrameOffsets' = [superFrameOffsets EXCEPT ![c] = IF o = F - 1 THEN 0 ELSE o + 1]
  <2>1. OffsetAfter(o) = IF o = F - 1 THEN 0 ELSE o + 1
    BY <1>1 DEF OffsetAfter, Fills
  <2> QED
    BY <1>1, <1>2, <2>1 DEF FillFrame, CompleteFrame
<1>4. (IF analysed' = Nothing THEN Nothing ELSE Window(analysed'.array))
        = IF o = F - 1 THEN Window(array)
          ELSE IF analysed = Nothing THEN Nothing ELSE Window(analysed.array)
  <2>1. CASE FillFrame(c, sizeRead)
    BY <1>1, <2>1 DEF FillFrame, Fills
  <2>2. CASE CompleteFrame(c, sizeRead)
    <3>1. o = F - 1
      BY <1>1, <2>2 DEF CompleteFrame, Fills
    <3>2. analysed' = [array |-> array, frames |-> Append(merged[c], received)]
      BY <1>2, <2>2 DEF CompleteFrame
    <3>3. analysed' # Nothing
      <4>1. array \in Arrays
        BY <1>1, CopiedType
      <4>2. Append(merged[c], received) \in Seq(Nat)
        BY <1>1 DEF IInv, TypeOK
      <4> HIDE DEF array
      <4>3. [array |-> array, frames |-> Append(merged[c], received)] \in Analyses
        BY <4>1, <4>2 DEF Analyses
      <4> QED
        BY <3>2, <4>3, EmptyAssumption
    <3> QED
      BY <3>1, <3>2, <3>3
  <2> QED
    BY <2>1, <2>2
<1>5. Window(array) = kept
  BY <1>1, WindowOfCopy
<1> HIDE DEF array
<1>6. kept[F - 1] = received
  BY <1>1
<1>7. kept = Collection!Collected(c, received)
  BY <1>1 DEF Collection!Collected, Collection!Slots
<1>8. [d \in Channels |-> Window(superFrames'[d])]
        = [[d \in Channels |-> Window(superFrames[d])] EXCEPT ![c] = kept]
  <2>1. \A d \in Channels : superFrames'[d] = IF d = c THEN array ELSE superFrames[d]
    BY <1>1, <1>3
  <2> HIDE DEF kept
  <2> QED
    BY <1>5, <2>1
<1> HIDE DEF kept
<1>9. [d \in Channels |-> Window(superFrames'[d])][c][F - 1] = received
  BY <1>6, <1>8
<1>10. /\ received \in received .. (MaxFrames - 1)
       /\ received \notin received' .. (MaxFrames - 1)
  <2>1. received' = received + 1 /\ received < MaxFrames
    BY DEF FillFrame, CompleteFrame, Receive
  <2> QED
    BY <1>1, <2>1, SuperFramesAssumption
<1>11. Collection!Merge(c, received)
  BY <1>3, <1>4, <1>5, <1>7, <1>8, <1>10 DEF Collection!Merge
<1>12. \A e \in Channels : (received' .. (MaxFrames - 1)) \subseteq received .. (MaxFrames - 1)
  BY <1>1, SupplyShrinks DEF FillFrame, CompleteFrame
<1> QED
  BY <1>9, <1>11, <1>12 DEF Collection!Next

LEMMA StepCollects == IInv /\ [Next]_vars => [Collection!Next]_(Collection!vars)
<1> SUFFICES ASSUME IInv, [Next]_vars PROVE [Collection!Next]_(Collection!vars)
  OBVIOUS
<1>1. CASE RefuseFrame
  <2>1. UNCHANGED <<superFrames, superFrameOffsets, analysed>>
    BY <1>1 DEF RefuseFrame
  <2>2. received' .. (MaxFrames - 1) \subseteq received .. (MaxFrames - 1)
    BY <1>1, SupplyShrinks DEF RefuseFrame
  <2> QED
    BY <2>1, <2>2 DEF Collection!Next
<1>2. ASSUME NEW c \in Channels, NEW sizeRead \in FrameSizes,
             FillFrame(c, sizeRead) \/ CompleteFrame(c, sizeRead)
      PROVE  Collection!Next
  BY <1>2, MergeCollects
<1>3. CASE UNCHANGED vars
  BY <1>3 DEF vars, Collection!vars
<1> QED
  BY <1>1, <1>2, <1>3 DEF Next

(* For all sizes the arrays collect frames as FrameSlots promises: a       *)
(* packet is made of FramesPerSuperframe frames the channel was given, and *)
(* no frame is used twice. (main.cpp:229-256)                              *)
THEOREM FramesCollected == Spec => CollectsFrames
<1> QED
  BY InitCollects, StepCollects, IInvHolds, PTL DEF Spec, CollectsFrames, Collection!Spec
=============================================================================
