---------------------------- MODULE SessionProofs -----------------------------
(***************************************************************************)
(* Proofs about what a session leaves behind: files in order, files of one *)
(* session, and nothing lost that oscserver was told about.                *)
(***************************************************************************)
EXTENDS PipelineProofs, InductionProofs, FunctionTheorems

-----------------------------------------------------------------------------
(***************************************************************************)
(* Proof that files tell their channel's story in order, with any losses   *)
(* on the queue, any misread message and any kill.                         *)
(*                                                                         *)
(* Frames are numbered when they are announced.  What the analyser has     *)
(* still to read rises in these numbers, and what it has kept lies behind  *)
(* all of that.                                                            *)
(***************************************************************************)
IsMeta(i) == i \in 1 .. Len(Upcoming) /\ Upcoming[i] \in MetaMsg
IsFrame(i) == i \in 1 .. Len(Upcoming) /\ Upcoming[i] \in FrameMsg

(* The numbers that lie behind: of frames, of announcements, and of        *)
(* announcements whose frame may still come.                               *)
FramesPast ==
  {x \in Nat : /\ x < frameSequence
               /\ \A i \in Nat : IsFrame(i) => x < Upcoming[i].audio.frameSequence}

MetasPast ==
  {x \in Nat : /\ x < frameSequence
               /\ \A i \in Nat : IsMeta(i) => x < Upcoming[i].frameSequence}

MetasDue ==
  {x \in Nat : /\ x < frameSequence
               /\ \A i \in Nat : IsFrame(i) => x <= Upcoming[i].audio.frameSequence}

(***************************************************************************)
(* What is still to be read rises.                                         *)
(***************************************************************************)
MetasRise ==
  \A i, j \in Nat : IsMeta(i) /\ IsMeta(j) /\ i < j =>
    Upcoming[i].frameSequence < Upcoming[j].frameSequence

FramesOfQueueRise ==
  \A i, j \in Nat : IsFrame(i) /\ IsFrame(j) /\ i < j =>
    Upcoming[i].audio.frameSequence < Upcoming[j].audio.frameSequence

FramesFollowMetas ==
  \A i, j \in Nat : IsMeta(i) /\ IsFrame(j) /\ i < j =>
    Upcoming[i].frameSequence <= Upcoming[j].audio.frameSequence

NumbersGiven ==
  /\ \A i \in Nat : IsMeta(i) => Upcoming[i].frameSequence < frameSequence
  /\ \A i \in Nat : IsFrame(i) => Upcoming[i].audio.frameSequence < frameSequence

QueueRises == MetasRise /\ FramesOfQueueRise /\ FramesFollowMetas /\ NumbersGiven

-----------------------------------------------------------------------------
(* The frames collected of a channel.                                      *)
Collected(c, k) == k \in Slots /\ k < superFrameOffsets[c]

SlotsRise ==
  \A c \in Channels :
    /\ \A k \in Slots : Collected(c, k) =>
         superFrames[c][k] \in FrameIds /\ superFrames[c][k].frameSequence \in FramesPast
    /\ \A k, l \in Slots : Collected(c, l) /\ k < l =>
         superFrames[c][k].frameSequence < superFrames[c][l].frameSequence

(* The announcement that was read last.                                    *)
MetaInHand ==
  /\ pc \in {"frame", "write"} => receivedMeta.frameSequence \in MetasPast
  /\ pc = "frame" => receivedMeta.frameSequence \in MetasDue

LastFrame(p) == p.frames[FramesPerSuperframe - 1].frameSequence

Whole(p) == \A k \in Slots : p.frames[k] \in FrameIds

(* The packet that is about to be written.                                 *)
PacketRises ==
  pc = "write" =>
    /\ Whole(oscBuffer) /\ FramesRise(oscBuffer)
    /\ LastFrame(oscBuffer) \in FramesPast
    /\ oscBuffer.channelId = receivedMeta.channelId
    /\ oscBuffer.frameSequence = receivedMeta.frameSequence
    /\ superFrameOffsets[receivedMeta.channelId] = 0

(***************************************************************************)
(* What is in the file that is open for a channel comes before everything  *)
(* that may still get into it.                                             *)
(***************************************************************************)
InOpenFile(c, p) ==
  /\ oscFiles[c] # NoFile
  /\ \E i \in DOMAIN disk[oscFiles[c].dir][oscFiles[c].name] :
       p = disk[oscFiles[c].dir][oscFiles[c].name][i]

OpenFilesPast ==
  \A c \in Channels, p \in Packets : InOpenFile(c, p) =>
    /\ p.frameSequence \in MetasPast
    /\ LastFrame(p) \in FramesPast
    /\ \A k \in Slots : Collected(c, k) => LastFrame(p) < superFrames[c][k].frameSequence
    /\ pc \in {"frame", "write"} => p.frameSequence < receivedMeta.frameSequence
    /\ pc = "write" /\ receivedMeta.channelId = c => Precedes(p, oscBuffer)

WholeFile(file) == \A i \in DOMAIN file : Whole(file[i])

PlacesInOrder ==
  \A d \in SessionDirs, n \in Filenames :
    /\ InOrder(disk[d][n], n) /\ WholeFile(disk[d][n])
    /\ InOrder(s3[d][n], n) /\ WholeFile(s3[d][n])

OrderInv ==
  QueueRises /\ SlotsRise /\ MetaInHand /\ PacketRises /\ OpenFilesPast /\ PlacesInOrder

-----------------------------------------------------------------------------
(***************************************************************************)
(* A channel whose packets reach no file any more has no file in the open  *)
(* session: under the name its stream has, or could still get, is nothing. *)
(***************************************************************************)
UnlinkedGone ==
  \A d \in SessionDirs, c \in unlinked, n \in Filenames :
    /\ OpenSession(d)
    /\ n[1] = c
    /\ oscFiles[c] = NoFile \/ oscFiles[c].name = n
    => disk[d][n] = << >>

LEMMA InitGone == Init => UnlinkedGone
BY DEF Init, AnalyserInit, UnlinkedGone

LEMMA GoneKept ==
  ASSUME UnlinkedGone, unlinked' \subseteq unlinked, UNCHANGED <<disk, oscFiles>>,
         \A d \in SessionDirs : OpenSession(d)' => OpenSession(d)
  PROVE  UnlinkedGone'
BY DEF UnlinkedGone

LEMMA NoneUnlinked ==
  ASSUME unlinked' = {} \/ \A d \in SessionDirs : ~OpenSession(d)'
  PROVE  UnlinkedGone'
BY DEF UnlinkedGone

LEMMA MoveGone ==
  ASSUME IInv, UnlinkedGone, NEW d \in SessionDirs, NEW n \in Filenames, MoveFile(d, n)
  PROVE  UnlinkedGone'
<1>1. /\ disk \in [SessionDirs -> [Filenames -> Seq(Packets)]]
      /\ disk' = [disk EXCEPT ![d][n] = << >>]
      /\ unlinked' = unlinked \cup Streams(d, n)
      /\ UNCHANGED <<oscFiles, oscDirectoryName, pc>>
  BY DEF IInv, TypeOK, AnalyserTypeOK, MoveFile, memory
<1>2. disk'[d][n] = << >>
      /\ \A e \in SessionDirs, m \in Filenames : disk'[e][m] \in {<< >>, disk[e][m]}
  BY <1>1
<1>3. ASSUME NEW c \in Streams(d, n)
      PROVE  /\ oscFiles[c] # NoFile /\ oscFiles[c].name = n
             /\ \A e \in SessionDirs : OpenSession(e) => e = d
  <2>1. c \in Channels /\ oscFiles[c] = [dir |-> d, name |-> n]
    BY DEF Streams
  <2>2. oscFiles[c] # NoFile
    BY <2>1, NoFileAssumption DEF Files
  <2> QED BY <2>1, <2>2 DEF IInv, OpenFilesInSession, OpenSession
<1> SUFFICES ASSUME NEW e \in SessionDirs, NEW c \in unlinked', NEW m \in Filenames,
                    OpenSession(e), m[1] = c, oscFiles[c] = NoFile \/ oscFiles[c].name = m
             PROVE  disk'[e][m] = << >>
  BY <1>1 DEF UnlinkedGone, OpenSession
<1>4. CASE c \in unlinked
  BY <1>2, <1>4 DEF UnlinkedGone
<1>5. CASE c \in Streams(d, n)
  BY <1>2, <1>3, <1>5
<1> QED BY <1>1, <1>4, <1>5

(* The packet goes behind what is in the open file, into an empty one, or  *)
(* nowhere.                                                                *)
Writes(c, d, n, before) ==
  /\ c = receivedMeta.channelId /\ n[1] = c /\ d = oscDirectoryName
  /\ oscFiles' = [oscFiles EXCEPT ![c] = [dir |-> d, name |-> n]]
  /\ disk' = IF c \in unlinked THEN disk
             ELSE [disk EXCEPT ![d][n] = Append(before, oscBuffer)]
  /\ \/ oscFiles[c] = NoFile /\ before = << >>
     \/ /\ oscFiles[c] # NoFile
        /\ oscFiles[c].dir = d /\ oscFiles[c].name = n
        /\ before = disk[d][n]

LEMMA WrittenFile ==
  ASSUME IInv, WritePacket
  PROVE  \E c \in Channels, d \in SessionDirs, n \in Filenames, before \in Seq(Packets) :
           Writes(c, d, n, before)
<1>1. /\ receivedMeta \in MetaMsg /\ oscDirectoryName \in SessionDirs
      /\ oscFiles \in [Channels -> Files \cup {NoFile}]
      /\ disk \in [SessionDirs -> [Filenames -> Seq(Packets)]]
  BY DEF WritePacket, IInv, TypeOK, AnalyserTypeOK, SessionOpenInv, sessionOpen
<1>2. PICK c \in Channels : c = receivedMeta.channelId
  BY <1>1 DEF MetaMsg
<1>3. receivedMeta.filename \in Filenames /\ receivedMeta.filename[1] = c
  BY <1>1, <1>2 DEF MetaMsg
<1>4. CASE FirstPacket(c)
  <2>1. << >> \in Seq(Packets)
    OBVIOUS
  <2>2. /\ oscFiles' = [oscFiles EXCEPT
                        ![c] = [dir |-> oscDirectoryName, name |-> receivedMeta.filename]]
        /\ disk' = IF c \in unlinked THEN disk
                   ELSE [disk EXCEPT ![oscDirectoryName][receivedMeta.filename] =
                                        Append(<< >>, oscBuffer)]
    BY <1>2, <1>4 DEF WritePacket
  <2>3. Writes(c, oscDirectoryName, receivedMeta.filename, << >>)
    BY <1>2, <1>3, <1>4, <2>2 DEF FirstPacket, Writes
  <2> QED BY <1>1, <1>3, <2>1, <2>3
<1>5. CASE ~FirstPacket(c)
  <2> DEFINE d == oscFiles[c].dir
             n == oscFiles[c].name
  <2>1. /\ oscFiles[c] # NoFile /\ oscFiles[c] \in Files
        /\ n[1] = c /\ d = oscDirectoryName
    BY <1>1, <1>5 DEF FirstPacket, IInv, OpenFilesInSession
  <2>2. d \in SessionDirs /\ n \in Filenames /\ oscFiles[c] = [dir |-> d, name |-> n]
    BY <2>1 DEF Files
  <2>3. disk[d][n] \in Seq(Packets)
    BY <1>1, <2>2
  <2>4. /\ oscFiles' = [oscFiles EXCEPT ![c] = oscFiles[c]]
        /\ disk' = IF c \in unlinked THEN disk
                   ELSE [disk EXCEPT ![d][n] = Append(disk[d][n], oscBuffer)]
    BY <1>2, <1>5 DEF WritePacket
  <2> HIDE DEF d, n
  <2>5. oscFiles[c].dir = d /\ oscFiles[c].name = n
    BY DEF d, n
  <2>6. Writes(c, d, n, disk[d][n])
    BY <1>2, <2>1, <2>2, <2>4, <2>5 DEF Writes
  <2> QED BY <2>2, <2>3, <2>6
<1> QED BY <1>4, <1>5

LEMMA WriteGone ==
  ASSUME IInv, UnlinkedGone, WritePacket
  PROVE  UnlinkedGone'
<1>0. PICK c \in Channels, d \in SessionDirs, n \in Filenames, before \in Seq(Packets) :
        Writes(c, d, n, before)
  BY WrittenFile
<1>1. /\ c = receivedMeta.channelId /\ n[1] = c /\ d = oscDirectoryName
      /\ oscFiles' = [oscFiles EXCEPT ![c] = [dir |-> d, name |-> n]]
      /\ disk' = IF c \in unlinked THEN disk
                 ELSE [disk EXCEPT ![d][n] = Append(before, oscBuffer)]
      /\ oscFiles[c] = NoFile \/ oscFiles[c].name = n
  BY <1>0 DEF Writes
<1>2. /\ disk \in [SessionDirs -> [Filenames -> Seq(Packets)]]
      /\ oscFiles \in [Channels -> Files \cup {NoFile}]
      /\ unlinked \subseteq Channels
      /\ pc = "write" /\ UNCHANGED <<oscDirectoryName, unlinked>>
  BY DEF IInv, TypeOK, AnalyserTypeOK, WritePacket, uploads
<1>3. \A e \in SessionDirs, m \in Filenames :
        c \in unlinked \/ m[1] # c => disk'[e][m] = disk[e][m]
  BY <1>1, <1>2
<1>4. /\ oscFiles'[c] = [dir |-> d, name |-> n] /\ oscFiles'[c] # NoFile
      /\ \A e \in Channels : e # c => oscFiles'[e] = oscFiles[e]
  BY <1>1, <1>2, NoFileAssumption DEF Files
<1> SUFFICES ASSUME NEW a \in SessionDirs, NEW e \in unlinked, NEW m \in Filenames,
                    OpenSession(a)', m[1] = e,
                    oscFiles'[e] = NoFile \/ oscFiles'[e].name = m
             PROVE  disk'[a][m] = << >>
  BY <1>2 DEF UnlinkedGone
<1>5. OpenSession(a)
  BY <1>2 DEF OpenSession
<1>6. CASE e = c
  <2>1. m = n
    BY <1>4, <1>6
  <2> QED BY <1>1, <1>3, <1>5, <1>6, <2>1 DEF UnlinkedGone
<1>7. CASE e # c
  BY <1>2, <1>3, <1>4, <1>5, <1>7 DEF UnlinkedGone
<1> QED BY <1>6, <1>7

LEMMA OrphanGone ==
  ASSUME IInv, UnlinkedGone, OrphanStep
  PROVE  UnlinkedGone'
<1>1. PICK d \in orphans : OrphanEnds(d) \/ \E n \in Filenames : MoveFile(d, n)
  BY OrphanFacts
<1>2. d \in SessionDirs
  BY DEF IInv, TypeOK, AnalyserTypeOK
<1>3. CASE OrphanEnds(d)
  <2>1. UNCHANGED <<disk, oscFiles, oscDirectoryName, pc>>
    BY <1>3 DEF OrphanEnds, memory
  <2>2. CASE UNCHANGED unlinked
    BY <2>1, <2>2, GoneKept DEF OpenSession
  <2>3. CASE oscDirectoryName = d /\ \A n \in Filenames : disk[d][n] = << >>
    BY <2>1, <2>3 DEF UnlinkedGone, OpenSession
  <2> QED BY <1>3, <2>2, <2>3 DEF OrphanEnds
<1> QED BY <1>1, <1>2, <1>3, MoveGone

LEMMA StepGone == IInv /\ UnlinkedGone /\ [Next]_vars => UnlinkedGone'
<1> SUFFICES ASSUME IInv, UnlinkedGone, [Next]_vars PROVE UnlinkedGone'
  OBVIOUS
<1> USE DEF OpenSession, uploads, memory
<1>1. CASE StartSession \/ EndSession
  BY <1>1, NoneUnlinked DEF StartSession, EndSession, Die
<1>2. CASE \E n \in Filenames : UploadFile(n)
  BY <1>2, UploadMoves, MoveGone DEF UploadFile
<1>3. CASE UploadReturns
  BY <1>3, NoneUnlinked, NamesAssumption DEF UploadReturns, SessionDirs
<1>4. CASE FlushMessage \/ FlushDone \/ IgnoreMessage \/ AcceptMeta \/ RejectFrame
           \/ MergeFrame \/ CompleteSuperFrame
  BY <1>4, GoneKept DEF FlushMessage, FlushDone, IgnoreMessage, AcceptMeta, RejectFrame,
                        MergeFrame, CompleteSuperFrame, Receive
<1>5. CASE Start \/ Jamulus \/ OscServerReceive \/ UNCHANGED vars
  BY <1>5, GoneKept
  DEF Start, Boot, Jamulus, JamStart, JamEnd, JamMeta, JamFrame, JamChangeClient,
      OscServerReceive, vars, analyserVars
<1>6. CASE Kill
  BY <1>6, NoneUnlinked DEF Kill, Crash, Die
<1> QED BY <1>1, <1>2, <1>3, <1>4, <1>5, <1>6, WriteGone, OrphanGone
        DEF Next, Analyse, AnalyserStep

-----------------------------------------------------------------------------
(* A step of the queue: what rises still does, what is past stays so.      *)
FramesComeLater ==
  /\ frameSequence <= frameSequence'
  /\ \A i \in Nat : IsFrame(i)' =>
       \/ \E j \in Nat : IsFrame(j) /\ Upcoming'[i] = Upcoming[j]
       \/ frameSequence <= Upcoming'[i].audio.frameSequence

QueueMoves ==
  /\ FramesComeLater
  /\ QueueRises'
  /\ FramesPast \subseteq FramesPast'
  /\ MetasPast \subseteq MetasPast'
  /\ MetasDue \subseteq MetasDue'

(* Messages are not of two kinds.                                          *)
LEMMA NotFrame ==
  /\ \A m \in StartMsg : m \notin FrameMsg
  /\ \A m \in EndMsg : m \notin FrameMsg
  /\ \A m \in MetaMsg : m \notin FrameMsg
<1>1. \A m \in EndMsg : m \notin FrameMsg
  <2>1. \A m \in EndMsg : "audio" \notin DOMAIN m
    BY DEF EndMsg
  <2>2. \A m \in FrameMsg : "audio" \in DOMAIN m
    BY DEF FrameMsg
  <2> QED BY <2>1, <2>2
<1> QED BY <1>1, OtherMessages, NotMeta

LEMMA NumberTypes ==
  /\ TypeOK => frameSequence \in Nat
  /\ \A m \in MetaMsg : m.frameSequence \in Nat
  /\ \A m \in FrameMsg : m.audio.frameSequence \in Nat
BY DEF TypeOK, MetaMsg, FrameMsg, FrameIds

(* The first or the last message is taken away, or none.                   *)
LEMMA QueueShrinks ==
  ASSUME TypeOK, QueueRises, frameSequence' = frameSequence,
         NEW k \in {0, 1},
         \A i \in 1 .. Len(Upcoming') :
           i + k \in 1 .. Len(Upcoming) /\ Upcoming'[i] = Upcoming[i + k]
  PROVE  QueueMoves
<1>1. \A i \in Nat :
        /\ IsMeta(i)' => IsMeta(i + k) /\ Upcoming'[i] = Upcoming[i + k] /\ i + k \in Nat
        /\ IsFrame(i)' => IsFrame(i + k) /\ Upcoming'[i] = Upcoming[i + k] /\ i + k \in Nat
  BY DEF IsMeta, IsFrame
<1>2. \A i, j \in Nat : i < j => i + k < j + k
  OBVIOUS
<1>3. MetasRise'
  BY <1>1, <1>2 DEF QueueRises, MetasRise
<1>4. FramesOfQueueRise'
  BY <1>1, <1>2 DEF QueueRises, FramesOfQueueRise
<1>5. FramesFollowMetas'
  BY <1>1, <1>2 DEF QueueRises, FramesFollowMetas
<1>6. NumbersGiven'
  BY <1>1 DEF QueueRises, NumbersGiven
<1>7. FramesPast \subseteq FramesPast'
  BY <1>1 DEF FramesPast
<1>8. MetasPast \subseteq MetasPast'
  BY <1>1 DEF MetasPast
<1>9. MetasDue \subseteq MetasDue'
  BY <1>1 DEF MetasDue
<1>10. FramesComeLater
  BY <1>1 DEF FramesComeLater, TypeOK
<1> QED BY <1>3, <1>4, <1>5, <1>6, <1>7, <1>8, <1>9, <1>10 DEF QueueMoves, QueueRises

(* A marker is added, or an announcement and a frame of the next number,   *)
(* or the frame alone.                                                     *)
LEMMA QueueGrows ==
  ASSUME TypeOK, QueueRises, frameSequence' \in {frameSequence, frameSequence + 1},
         \A i \in 1 .. Len(Upcoming) :
           i \in 1 .. Len(Upcoming') /\ Upcoming'[i] = Upcoming[i],
         \A i \in 1 .. Len(Upcoming') : i > Len(Upcoming) =>
           /\ Upcoming'[i] \in MetaMsg =>
                /\ i = Len(Upcoming) + 1
                /\ Upcoming'[i].frameSequence = frameSequence
                /\ frameSequence' = frameSequence + 1
           /\ Upcoming'[i] \in FrameMsg =>
                /\ i = Len(Upcoming')
                /\ Upcoming'[i].audio.frameSequence = frameSequence
                /\ frameSequence' = frameSequence + 1
  PROVE  QueueMoves
<1>0. frameSequence \in Nat /\ Len(Upcoming) \in Nat /\ Upcoming \in Seq(Messages)
  BY UpcomingType DEF TypeOK
<1>1. \A i \in Nat : IsMeta(i)' =>
        \/ IsMeta(i) /\ Upcoming'[i] = Upcoming[i]
        \/ i = Len(Upcoming) + 1 /\ Upcoming'[i].frameSequence = frameSequence
             /\ frameSequence' = frameSequence + 1
  BY <1>0 DEF IsMeta
<1>2. \A i \in Nat : IsFrame(i)' =>
        \/ IsFrame(i) /\ Upcoming'[i] = Upcoming[i]
        \/ i = Len(Upcoming') /\ i > Len(Upcoming)
             /\ Upcoming'[i].audio.frameSequence = frameSequence
             /\ frameSequence' = frameSequence + 1
  BY <1>0 DEF IsFrame
<1>3. /\ \A i \in Nat : IsMeta(i) => i <= Len(Upcoming) /\ Upcoming[i].frameSequence < frameSequence
      /\ \A i \in Nat : IsFrame(i) =>
           i <= Len(Upcoming) /\ Upcoming[i].audio.frameSequence < frameSequence
      /\ \A i \in Nat : IsMeta(i) => Upcoming[i].frameSequence \in Nat
      /\ \A i \in Nat : IsFrame(i) => Upcoming[i].audio.frameSequence \in Nat
  BY <1>0, NumberTypes DEF QueueRises, NumbersGiven, IsMeta, IsFrame
<1>4. \A j \in Nat : IsFrame(j)' => j <= Len(Upcoming')
  BY DEF IsFrame
<1>5. MetasRise'
  BY <1>0, <1>1, <1>3 DEF QueueRises, MetasRise
<1>6. FramesOfQueueRise'
  BY <1>0, <1>2, <1>3, <1>4 DEF QueueRises, FramesOfQueueRise
<1>7. FramesFollowMetas'
  <2> SUFFICES ASSUME NEW i \in Nat, NEW j \in Nat, IsMeta(i)', IsFrame(j)', i < j
               PROVE  Upcoming'[i].frameSequence <= Upcoming'[j].audio.frameSequence
    BY DEF FramesFollowMetas
  <2>1. CASE IsFrame(j) /\ Upcoming'[j] = Upcoming[j]
    <3>1. IsMeta(i) /\ Upcoming'[i] = Upcoming[i]
      BY <1>0, <1>1, <1>3, <2>1
    <3> QED BY <2>1, <3>1 DEF QueueRises, FramesFollowMetas
  <2>2. CASE Upcoming'[j].audio.frameSequence = frameSequence
    BY <1>0, <1>1, <1>3, <2>2
  <2> QED BY <1>2, <2>1, <2>2
<1>8. NumbersGiven'
  <2>1. \A i \in Nat : IsMeta(i)' => Upcoming'[i].frameSequence < frameSequence'
    BY <1>0, <1>1, <1>3
  <2>2. \A i \in Nat : IsFrame(i)' => Upcoming'[i].audio.frameSequence < frameSequence'
    BY <1>0, <1>2, <1>3
  <2> QED BY <2>1, <2>2 DEF NumbersGiven
<1>9. FramesPast \subseteq FramesPast'
  BY <1>0, <1>2 DEF FramesPast
<1>10. MetasPast \subseteq MetasPast'
  BY <1>0, <1>1 DEF MetasPast
<1>11. MetasDue \subseteq MetasDue'
  BY <1>0, <1>2 DEF MetasDue
<1>12. FramesComeLater
  BY <1>0, <1>2 DEF FramesComeLater
<1> QED BY <1>5, <1>6, <1>7, <1>8, <1>9, <1>10, <1>11, <1>12 DEF QueueMoves, QueueRises

LEMMA ReceiveMoves ==
  ASSUME TypeOK, QueueRises, samples # << >>, samples' = Tail(samples),
         UNCHANGED <<jamPending, frameSequence>>
  PROVE  QueueMoves
<1>1. Upcoming \in Seq(Messages) /\ Upcoming # << >> /\ Upcoming' = Tail(Upcoming)
  BY UpcomingType, ReceiveUpcoming
<1>2. \A i \in 1 .. Len(Upcoming') :
        i + 1 \in 1 .. Len(Upcoming) /\ Upcoming'[i] = Upcoming[i + 1]
  BY <1>1
<1> QED BY <1>2, QueueShrinks

LEMMA QuietMoves ==
  ASSUME TypeOK, QueueRises, UNCHANGED <<samples, jamPending, frameSequence>>
  PROVE  QueueMoves
<1>1. Upcoming' = Upcoming /\ Upcoming \in Seq(Messages)
  BY UpcomingType DEF Upcoming
<1>2. \A i \in 1 .. Len(Upcoming') :
        i + 0 \in 1 .. Len(Upcoming) /\ Upcoming'[i] = Upcoming[i + 0]
  BY <1>1
<1> QED BY <1>2, QueueShrinks

(* A marker is sent, or dropped.                                           *)
LEMMA MarkerMoves ==
  ASSUME TypeOK, QueueRises, NEW m \in StartMsg \cup EndMsg, Send(m),
         jamPending = Nothing, UNCHANGED <<jamPending, frameSequence>>
  PROVE  QueueMoves
<1>1. m \in Messages /\ m \notin MetaMsg /\ m \notin FrameMsg
  BY NotMeta, NotFrame DEF Messages
<1>2. CASE samples' = samples
  BY <1>2, QuietMoves
<1>3. CASE samples' = Append(samples, m)
  <2>1. Upcoming \in Seq(Messages) /\ Upcoming' = Append(Upcoming, m)
    BY <1>3, UpcomingType DEF Upcoming
  <2>2. \A i \in 1 .. Len(Upcoming) :
          i \in 1 .. Len(Upcoming') /\ Upcoming'[i] = Upcoming[i]
    BY <1>1, <2>1
  <2>3. \A i \in 1 .. Len(Upcoming') : i > Len(Upcoming) => Upcoming'[i] = m
    BY <1>1, <2>1
  <2> QED BY <1>1, <2>2, <2>3, QueueGrows DEF TypeOK
<1> QED BY <1>2, <1>3 DEF Send

LEMMA AnnouncementMoves ==
  ASSUME IInv, QueueRises, NEW c \in Channels, NEW shape \in FrameShapes, JamMeta(c, shape)
  PROVE  QueueMoves
<1> DEFINE id == [session |-> jamSession, channelId |-> c, frameSequence |-> frameSequence]
           m == [size |-> AudioMetaBytes, metaType |-> audioFrame, channelId |-> c,
                 frameSequence |-> frameSequence, filename |-> <<c, client[c]>>,
                 session |-> jamSession]
           f == [size |-> shape.size, metaType |-> shape.metaType,
                 sessionDir |-> shape.sessionDir, audio |-> id]
<1>1. m \in MetaMsg
  BY DEF MetaMsg, Filenames, IInv, TypeOK
<1>2. f \in FrameMsg
  BY ShapesAssumption DEF FrameMsg, FrameIds, IInv, TypeOK
<1>3. /\ m \in Messages /\ f \in Messages /\ f # Nothing
      /\ m \notin FrameMsg /\ f \notin MetaMsg
      /\ m.frameSequence = frameSequence /\ f.audio.frameSequence = frameSequence
  BY <1>1, <1>2, NothingAssumption, NotMeta, NotFrame DEF Messages
<1>4. /\ jamPending = Nothing /\ jamPending' = f /\ Send(m)
      /\ frameSequence' = frameSequence + 1
  BY DEF JamMeta
<1> HIDE DEF m, f
<1>5. Upcoming \in Seq(Messages) /\ Upcoming = samples
  BY <1>4, UpcomingType DEF IInv, Upcoming
<1>6. CASE samples' = samples
  <2>1. Upcoming' = Append(Upcoming, f)
    BY <1>3, <1>4, <1>5, <1>6 DEF Upcoming
  <2>2. \A i \in 1 .. Len(Upcoming) :
          i \in 1 .. Len(Upcoming') /\ Upcoming'[i] = Upcoming[i]
    BY <1>3, <1>5, <2>1
  <2>3. \A i \in 1 .. Len(Upcoming') :
          i > Len(Upcoming) => Upcoming'[i] = f /\ i = Len(Upcoming')
    BY <1>3, <1>5, <2>1
  <2> QED BY <1>3, <1>4, <2>2, <2>3, QueueGrows DEF IInv
<1>7. CASE samples' = Append(samples, m)
  <2>1. Upcoming' = Append(Append(Upcoming, m), f)
    BY <1>3, <1>4, <1>5, <1>7 DEF Upcoming
  <2>2. \A i \in 1 .. Len(Upcoming) :
          i \in 1 .. Len(Upcoming') /\ Upcoming'[i] = Upcoming[i]
    BY <1>3, <1>5, <2>1
  <2>3. \A i \in 1 .. Len(Upcoming') : i > Len(Upcoming) =>
          \/ Upcoming'[i] = m /\ i = Len(Upcoming) + 1
          \/ Upcoming'[i] = f /\ i = Len(Upcoming')
    BY <1>3, <1>5, <2>1
  <2> QED BY <1>3, <1>4, <2>2, <2>3, QueueGrows DEF IInv
<1> QED BY <1>4, <1>6, <1>7 DEF Send

(* The frame goes where it was expected, or is dropped.                    *)
LEMMA FrameMoves ==
  ASSUME TypeOK, QueueRises, JamFrame
  PROVE  QueueMoves
<1>1. /\ samples \in Seq(Messages)
      /\ jamPending \in Messages /\ jamPending # Nothing /\ jamPending' = Nothing
      /\ samples' \in {samples, Append(samples, jamPending)}
      /\ frameSequence' = frameSequence
  BY UpcomingType DEF JamFrame, Send, TypeOK, Messages
<1>2. Upcoming = Append(samples, jamPending) /\ Upcoming' \in {samples, Upcoming}
  BY <1>1 DEF Upcoming
<1>3. \A i \in 1 .. Len(Upcoming') :
        i + 0 \in 1 .. Len(Upcoming) /\ Upcoming'[i] = Upcoming[i + 0]
  BY <1>1, <1>2
<1> QED BY <1>1, <1>3, QueueShrinks

LEMMA StepMoves ==
  ASSUME IInv, QueueRises, [Next]_vars
  PROVE  QueueMoves
<1>0. TypeOK
  BY DEF IInv
<1>1. CASE Analyse
  <2>1. CASE FlushMessage \/ IgnoreMessage \/ StartSession \/ EndSession \/ AcceptMeta
             \/ RejectFrame \/ MergeFrame \/ CompleteSuperFrame
    BY <1>0, <1>1, <2>1, ReceiveMoves
    DEF FlushMessage, IgnoreMessage, StartSession, EndSession, AcceptMeta, RejectFrame,
        MergeFrame, CompleteSuperFrame, Receive, Analyse, jamVars
  <2>2. CASE FlushDone \/ UploadReturns \/ WritePacket
    BY <1>0, <1>1, <2>2, QuietMoves
    DEF FlushDone, UploadReturns, WritePacket, Analyse, jamVars
  <2>3. CASE \E n \in Filenames : UploadFile(n)
    BY <1>0, <1>1, <2>3, UploadMoves, QuietMoves DEF Analyse, jamVars
  <2> QED BY <1>1, <2>1, <2>2, <2>3 DEF Analyse, AnalyserStep
<1>2. CASE Start \/ OscServerReceive \/ Kill \/ UNCHANGED vars
  BY <1>0, <1>2, QuietMoves
  DEF Start, Boot, OscServerReceive, Kill, Crash, vars, analyserVars, jamVars
<1>3. CASE Jamulus
  <2>1. ASSUME NEW d \in Dirs, JamStart(d) PROVE QueueMoves
    <3>1. [size |-> StartBytes, metaType |-> startSession, sessionDir |-> d] \in StartMsg
      BY DEF StartMsg
    <3> QED BY <1>0, <2>1, <3>1, MarkerMoves DEF JamStart
  <2>2. CASE JamEnd
    <3>1. [size |-> EndBytes, metaType |-> endSession] \in EndMsg
      BY DEF EndMsg
    <3> QED BY <1>0, <2>2, <3>1, MarkerMoves DEF JamEnd
  <2>3. ASSUME NEW c \in Channels, NEW k \in Clients, JamChangeClient(c, k)
        PROVE  QueueMoves
    BY <1>0, <2>3, QuietMoves DEF JamChangeClient, analyserVars
  <2> QED BY <1>0, <1>3, <2>1, <2>2, <2>3, AnnouncementMoves, FrameMoves DEF Jamulus
<1>4. CASE OrphanStep
  BY <1>0, <1>4, OrphanFacts, QuietMoves DEF jamVars
<1> QED BY <1>1, <1>2, <1>3, <1>4 DEF Next

-----------------------------------------------------------------------------
(* What is received comes after all that is past, and is past itself.      *)
LEMMA ReceivedNumbers ==
  ASSUME TypeOK, QueueRises, samples # << >>, samples' = Tail(samples),
         UNCHANGED <<jamPending, frameSequence>>
  PROVE  /\ message \in FrameMsg =>
              /\ message.audio.frameSequence \in FramesPast'
              /\ \A x \in FramesPast : x < message.audio.frameSequence
              /\ \A x \in MetasDue : x <= message.audio.frameSequence
         /\ message \in MetaMsg =>
              /\ message.frameSequence \in MetasPast' \cap MetasDue'
              /\ \A x \in MetasPast : x < message.frameSequence
<1>1. /\ Upcoming \in Seq(Messages) /\ Upcoming # << >> /\ Upcoming' = Tail(Upcoming)
      /\ Upcoming[1] = message
  BY UpcomingType, ReceiveUpcoming
<1>2. 1 \in 1 .. Len(Upcoming)
  BY <1>1
<1>3. \A i \in Nat : i \in 1 .. Len(Upcoming') =>
        i + 1 \in 1 .. Len(Upcoming) /\ 1 < i + 1 /\ Upcoming'[i] = Upcoming[i + 1]
  BY <1>1
<1>4. ASSUME message \in FrameMsg
      PROVE  /\ message.audio.frameSequence \in FramesPast'
             /\ \A x \in FramesPast : x < message.audio.frameSequence
             /\ \A x \in MetasDue : x <= message.audio.frameSequence
  <2>1. IsFrame(1) /\ message.audio.frameSequence \in Nat
    BY <1>1, <1>2, <1>4, NumberTypes DEF IsFrame
  <2>2. message.audio.frameSequence < frameSequence'
    BY <1>1, <2>1 DEF QueueRises, NumbersGiven
  <2>3. \A i \in Nat : IsFrame(i)' =>
          message.audio.frameSequence < Upcoming'[i].audio.frameSequence
    BY <1>1, <1>3, <2>1 DEF QueueRises, FramesOfQueueRise, IsFrame
  <2>4. message.audio.frameSequence \in FramesPast'
    BY <2>1, <2>2, <2>3 DEF FramesPast
  <2> QED BY <1>1, <2>1, <2>4 DEF FramesPast, MetasDue
<1>5. ASSUME message \in MetaMsg
      PROVE  /\ message.frameSequence \in MetasPast' \cap MetasDue'
             /\ \A x \in MetasPast : x < message.frameSequence
  <2>1. IsMeta(1) /\ message.frameSequence \in Nat
    BY <1>1, <1>2, <1>5, NumberTypes DEF IsMeta
  <2>2. message.frameSequence < frameSequence'
    BY <1>1, <2>1 DEF QueueRises, NumbersGiven
  <2>3. \A i \in Nat : IsMeta(i)' => message.frameSequence < Upcoming'[i].frameSequence
    BY <1>1, <1>3, <2>1 DEF QueueRises, MetasRise, IsMeta
  <2>4. \A i \in Nat : IsFrame(i)' =>
          message.frameSequence <= Upcoming'[i].audio.frameSequence
    BY <1>1, <1>3, <2>1 DEF QueueRises, FramesFollowMetas, IsMeta, IsFrame
  <2>5. message.frameSequence \in MetasPast'
    BY <2>1, <2>2, <2>3 DEF MetasPast
  <2>6. message.frameSequence \in MetasDue'
    BY <2>1, <2>2, <2>4 DEF MetasDue
  <2> QED BY <1>1, <2>1, <2>5, <2>6 DEF MetasPast
<1> QED BY <1>4, <1>5

-----------------------------------------------------------------------------
LEMMA InitOrders == Init => OrderInv
<1> SUFFICES ASSUME Init PROVE OrderInv
  OBVIOUS
<1>1. Upcoming = << >>
  BY DEF Init, AnalyserInit, Upcoming
<1>2. \A i \in Nat : ~IsMeta(i) /\ ~IsFrame(i)
  BY <1>1 DEF IsMeta, IsFrame
<1>3. QueueRises
  BY <1>2 DEF QueueRises, MetasRise, FramesOfQueueRise, FramesFollowMetas, NumbersGiven
<1>4. SlotsRise
  <2>1. \A c \in Channels : superFrameOffsets[c] = 0
    BY DEF Init, AnalyserInit, NoOffsets
  <2>2. \A c \in Channels, k \in Slots : ~Collected(c, k)
    BY <2>1, SizesAssumption DEF Collected, Slots
  <2> QED BY <2>2 DEF SlotsRise
<1>5. MetaInHand /\ PacketRises /\ OpenFilesPast
  BY DEF Init, AnalyserInit, MetaInHand, PacketRises, OpenFilesPast, InOpenFile, NoFiles
<1>6. PlacesInOrder
  BY DEF Init, AnalyserInit, PlacesInOrder, InOrder, WholeFile
<1> QED BY <1>3, <1>4, <1>5, <1>6 DEF OrderInv

-----------------------------------------------------------------------------
(* Files that are not touched stay in order.                               *)
LEMMA PlacesKept ==
  ASSUME PlacesInOrder, UNCHANGED <<disk, s3>>
  PROVE  PlacesInOrder'
BY DEF PlacesInOrder

LEMMA SlotsKept ==
  ASSUME SlotsRise, QueueMoves, UNCHANGED <<superFrames, superFrameOffsets>>
  PROVE  SlotsRise'
BY DEF SlotsRise, Collected, QueueMoves

(* A step after which the open files hold no packet they did not hold.     *)
LEMMA NothingGained ==
  ASSUME OrderInv, QueueMoves, PlacesInOrder',
         UNCHANGED <<receivedMeta, superFrames, superFrameOffsets, oscBuffer>>,
         pc' = pc \/ pc' \notin {"frame", "write"},
         \A c \in Channels, p \in Packets : InOpenFile(c, p)' => InOpenFile(c, p)
  PROVE  OrderInv'
<1>1. QueueRises' /\ SlotsRise'
  BY SlotsKept DEF OrderInv, QueueMoves
<1>2. MetaInHand'
  BY DEF OrderInv, MetaInHand, QueueMoves
<1>3. PacketRises'
  BY DEF OrderInv, PacketRises, QueueMoves, Whole, FramesRise, LastFrame
<1>4. OpenFilesPast'
  <2> SUFFICES ASSUME NEW c \in Channels, NEW p \in Packets, InOpenFile(c, p)'
               PROVE  /\ p.frameSequence \in MetasPast'
                      /\ LastFrame(p) \in FramesPast'
                      /\ \A k \in Slots : Collected(c, k)' =>
                           LastFrame(p) < superFrames'[c][k].frameSequence
                      /\ pc' \in {"frame", "write"} =>
                           p.frameSequence < receivedMeta'.frameSequence
                      /\ pc' = "write" /\ receivedMeta'.channelId = c =>
                           Precedes(p, oscBuffer')
    BY DEF OpenFilesPast, LastFrame, Precedes
  <2>1. InOpenFile(c, p) /\ \A k \in Slots : Collected(c, k)' => Collected(c, k)
    BY DEF Collected
  <2> QED BY <2>1 DEF OrderInv, OpenFilesPast, QueueMoves
<1> QED BY <1>1, <1>2, <1>3, <1>4 DEF OrderInv

(* A step that keeps what the analyser has.                                *)
LEMMA NothingKept ==
  ASSUME OrderInv, QueueMoves,
         UNCHANGED <<disk, s3, receivedMeta, superFrames, superFrameOffsets, oscFiles,
                     oscBuffer>>,
         pc' = pc \/ pc' \notin {"frame", "write"}
  PROVE  OrderInv'
<1>1. \A c \in Channels, p \in Packets : InOpenFile(c, p)' => InOpenFile(c, p)
  BY DEF InOpenFile
<1> QED BY <1>1, PlacesKept, NothingGained DEF OrderInv

(* A step after which no file is open and no frame is in hand.             *)
LEMMA NothingOpen ==
  ASSUME OrderInv, QueueMoves,
         \/ UNCHANGED <<superFrames, superFrameOffsets>>
         \/ superFrameOffsets' = NoOffsets,
         \A c \in Channels : oscFiles'[c] = NoFile,
         pc' \notin {"frame", "write"},
         PlacesInOrder'
  PROVE  OrderInv'
<1>1. SlotsRise'
  <2>1. CASE UNCHANGED <<superFrames, superFrameOffsets>>
    BY <2>1, SlotsKept DEF OrderInv
  <2>2. CASE superFrameOffsets' = NoOffsets
    <3>1. \A c \in Channels : superFrameOffsets'[c] = 0
      BY <2>2 DEF NoOffsets
    <3>2. \A c \in Channels, k \in Slots : ~Collected(c, k)'
      BY <3>1, SizesAssumption DEF Collected, Slots
    <3> QED BY <3>2 DEF SlotsRise
  <2> QED BY <2>1, <2>2
<1>2. MetaInHand' /\ PacketRises' /\ OpenFilesPast'
  BY DEF MetaInHand, PacketRises, OpenFilesPast, InOpenFile
<1> QED BY <1>1, <1>2 DEF OrderInv, QueueMoves

LEMMA SessionSteps ==
  ASSUME IInv, OrderInv, QueueMoves, StartSession \/ EndSession
  PROVE  OrderInv'
<1>1. UNCHANGED <<disk, s3>> /\ pc' \notin {"frame", "write"}
  BY DEF StartSession, EndSession, Die, Receive
<1>2. \A c \in Channels : oscFiles'[c] = NoFile
  BY DEF StartSession, EndSession, Die, FilesCleared, NoFiles
<1>3. UNCHANGED <<superFrames, superFrameOffsets>> \/ superFrameOffsets' = NoOffsets
  BY DEF StartSession, EndSession, Die
<1> QED BY <1>1, <1>2, <1>3, PlacesKept, NothingOpen DEF OrderInv

(* The beginning of a file is in order.                                    *)
LEMMA BeginningOrders ==
  ASSUME NEW n \in Filenames, NEW file \in Seq(Packets), NEW k \in 0 .. Len(file),
         InOrder(file, n), WholeFile(file)
  PROVE  InOrder(SubSeq(file, 1, k), n) /\ WholeFile(SubSeq(file, 1, k))
<1>1. /\ DOMAIN SubSeq(file, 1, k) \subseteq DOMAIN file
      /\ \A i \in DOMAIN SubSeq(file, 1, k) : SubSeq(file, 1, k)[i] = file[i]
  OBVIOUS
<1> QED BY <1>1 DEF InOrder, WholeFile

(* A file is moved: all of it, or what was found of one that is open.      *)
LEMMA MoveStep ==
  ASSUME IInv, OrderInv, QueueMoves, NEW d \in SessionDirs, NEW n \in Filenames,
         MoveFile(d, n)
  PROVE  OrderInv'
<1>1. /\ disk \in [SessionDirs -> [Filenames -> Seq(Packets)]]
      /\ s3 \in [SessionDirs -> [Filenames -> Seq(Packets)]]
      /\ oscFiles \in [Channels -> Files \cup {NoFile}]
      /\ disk[d][n] \in Seq(Packets)
  BY DEF IInv, TypeOK, AnalyserTypeOK
<1>2. disk' = [disk EXCEPT ![d][n] = << >>] /\ UNCHANGED memory
  BY DEF MoveFile
<1>3. PICK k \in 0 .. Len(disk[d][n]) :
        s3' = [s3 EXCEPT ![d][n] = SubSeq(disk[d][n], 1, k)]
  BY MoveFacts
<1>4. \A e \in SessionDirs, m \in Filenames :
        /\ disk'[e][m] \in {<< >>, disk[e][m]}
        /\ \/ s3'[e][m] = s3[e][m]
           \/ m = n /\ s3'[e][m] = SubSeq(disk[d][n], 1, k)
  BY <1>1, <1>2, <1>3
<1>5. /\ \A m \in Filenames : InOrder(<< >>, m) /\ WholeFile(<< >>)
      /\ InOrder(SubSeq(disk[d][n], 1, k), n) /\ WholeFile(SubSeq(disk[d][n], 1, k))
  <2>1. InOrder(disk[d][n], n) /\ WholeFile(disk[d][n])
    BY DEF OrderInv, PlacesInOrder
  <2>2. \A m \in Filenames : InOrder(<< >>, m) /\ WholeFile(<< >>)
    BY DEF InOrder, WholeFile
  <2> QED BY <1>1, <2>1, <2>2, BeginningOrders
<1>6. \A e \in SessionDirs, m \in Filenames :
        /\ InOrder(disk'[e][m], m) /\ WholeFile(disk'[e][m])
        /\ InOrder(s3'[e][m], m) /\ WholeFile(s3'[e][m])
  BY <1>4, <1>5 DEF OrderInv, PlacesInOrder
<1>7. PlacesInOrder'
  BY <1>6 DEF PlacesInOrder, InOrder, WholeFile, Whole, FramesRise, Precedes
<1>8. ASSUME NEW c \in Channels, NEW p \in Packets, InOpenFile(c, p)'
      PROVE  InOpenFile(c, p)
  <2>1. oscFiles' = oscFiles /\ oscFiles[c] # NoFile
    BY <1>2, <1>8 DEF memory, InOpenFile
  <2>2. oscFiles[c].dir \in SessionDirs /\ oscFiles[c].name \in Filenames
    BY <1>1, <2>1 DEF Files
  <2> QED BY <1>4, <1>8, <2>1, <2>2 DEF InOpenFile
<1> QED BY <1>2, <1>7, <1>8, NothingGained DEF memory

LEMMA UploadStep ==
  ASSUME IInv, OrderInv, QueueMoves, NEW n \in Filenames, UploadFile(n)
  PROVE  OrderInv'
BY UploadMoves, MoveStep DEF UploadFile

LEMMA OrphanOrders ==
  ASSUME IInv, OrderInv, QueueMoves, OrphanStep
  PROVE  OrderInv'
<1>1. PICK d \in orphans : OrphanEnds(d) \/ \E n \in Filenames : MoveFile(d, n)
  BY OrphanFacts
<1>2. d \in SessionDirs
  BY DEF IInv, TypeOK, AnalyserTypeOK
<1>3. CASE OrphanEnds(d)
  BY <1>3, NothingKept DEF OrphanEnds, memory
<1> QED BY <1>1, <1>2, <1>3, MoveStep

(* A kill leaves of every file its beginning.                              *)
LEMMA KillStep ==
  ASSUME IInv, OrderInv, QueueMoves, NEW kept \in [Channels -> Nat], Crash(kept)
  PROVE  OrderInv'
<1>1. ASSUME NEW d \in SessionDirs, NEW n \in Filenames
      PROVE  InOrder(disk'[d][n], n) /\ WholeFile(disk'[d][n])
  <2> DEFINE file == disk[d][n]
  <2>1. PICK k \in 0 .. Len(file) : disk'[d][n] = SubSeq(file, 1, k)
    BY CrashFacts
  <2>2. file \in Seq(Packets)
    BY DEF IInv, TypeOK, AnalyserTypeOK
  <2>3. InOrder(file, n) /\ WholeFile(file)
    BY DEF OrderInv, PlacesInOrder
  <2> HIDE DEF file
  <2> QED BY <2>1, <2>2, <2>3, BeginningOrders
<1>2. UNCHANGED s3
  BY DEF Crash
<1>3. PlacesInOrder'
  <2> SUFFICES ASSUME NEW d \in SessionDirs, NEW n \in Filenames
               PROVE  /\ InOrder(disk'[d][n], n) /\ WholeFile(disk'[d][n])
                      /\ InOrder(s3'[d][n], n) /\ WholeFile(s3'[d][n])
    BY DEF PlacesInOrder, InOrder, WholeFile, Whole, FramesRise, Precedes
  <2>1. InOrder(s3[d][n], n) /\ WholeFile(s3[d][n])
    BY DEF OrderInv, PlacesInOrder
  <2>2. s3'[d][n] = s3[d][n]
    BY <1>2
  <2> QED BY <1>1, <2>1, <2>2
<1>4. /\ superFrameOffsets' = NoOffsets /\ pc' = "down"
      /\ \A c \in Channels : oscFiles'[c] = NoFile
  BY DEF Crash, Die, NoFiles
<1> QED BY <1>3, <1>4, NothingOpen

-----------------------------------------------------------------------------
(* An announcement is accepted: it is later than all that was written.     *)
LEMMA AcceptStep ==
  ASSUME IInv, OrderInv, QueueMoves, AcceptMeta, UNCHANGED <<jamPending, frameSequence>>
  PROVE  OrderInv'
<1>1. /\ message \in Messages /\ pc = "meta" /\ pc' = "frame"
      /\ samples # << >> /\ samples' = Tail(samples)
      /\ receivedMeta' = message
      /\ UNCHANGED <<disk, s3, superFrames, superFrameOffsets, oscFiles>>
  BY ReceiveFacts DEF AcceptMeta, IInv, Receive
<1>2. message \in MetaMsg
  BY <1>1, MessageKinds DEF AcceptMeta
<1>3. /\ message.frameSequence \in MetasPast' \cap MetasDue'
      /\ \A x \in MetasPast : x < message.frameSequence
  BY <1>1, <1>2, ReceivedNumbers DEF OrderInv, IInv
<1>4. QueueRises' /\ SlotsRise' /\ PlacesInOrder'
  BY <1>1, SlotsKept, PlacesKept DEF OrderInv, QueueMoves
<1>5. MetaInHand' /\ PacketRises'
  BY <1>1, <1>3 DEF MetaInHand, PacketRises
<1>6. OpenFilesPast'
  <2> SUFFICES ASSUME NEW c \in Channels, NEW p \in Packets, InOpenFile(c, p)'
               PROVE  /\ p.frameSequence \in MetasPast'
                      /\ LastFrame(p) \in FramesPast'
                      /\ \A k \in Slots : Collected(c, k)' =>
                           LastFrame(p) < superFrames'[c][k].frameSequence
                      /\ p.frameSequence < message.frameSequence
    BY <1>1 DEF OpenFilesPast, LastFrame
  <2>1. InOpenFile(c, p) /\ \A k \in Slots : Collected(c, k)' => Collected(c, k)
    BY <1>1 DEF InOpenFile, Collected
  <2> QED BY <1>1, <1>3, <2>1 DEF OrderInv, OpenFilesPast, QueueMoves
<1> QED BY <1>4, <1>5, <1>6 DEF OrderInv

(* The array after a copy: what was collected, and the frame behind it.    *)
LEMMA MergedCells ==
  ASSUME IInv, NEW c \in Channels
  PROVE  /\ superFrameOffsets[c] \in Slots
         /\ \A k \in Slots : k < superFrameOffsets[c] => Merged(c)[k] = superFrames[c][k]
         /\ Merged(c)[superFrameOffsets[c]] = message.audio
<1>1. superFrameOffsets[c] \in Slots
  BY DEF IInv, TypeOK, AnalyserTypeOK
<1>2. superFrameOffsets[c] \in superFrameOffsets[c] .. (superFrameOffsets[c] + SamplesPerFrame - 1)
  BY <1>1, SizesAssumption DEF Slots
<1>3. \A k \in Slots : k < superFrameOffsets[c] =>
        k \notin superFrameOffsets[c] .. (superFrameOffsets[c] + SamplesPerFrame - 1)
  BY <1>1, SizesAssumption DEF Slots
<1> QED BY <1>1, <1>2, <1>3 DEF Merged

(* What a frame that is merged is told by.                                 *)
LEMMA FrameFacts ==
  ASSUME IInv, OrderInv, MergeFrame \/ CompleteSuperFrame,
         UNCHANGED <<jamPending, frameSequence>>
  PROVE  /\ pc = "frame"
         /\ receivedMeta \in MetaMsg /\ receivedMeta.channelId \in Channels
         /\ message.audio \in FrameIds /\ message.audio.frameSequence \in Nat
         /\ message.audio.frameSequence \in FramesPast'
         /\ \A x \in FramesPast : x < message.audio.frameSequence
         /\ \A x \in MetasDue : x <= message.audio.frameSequence
<1>1. /\ message \in Messages /\ pc = "frame"
      /\ samples # << >> /\ samples' = Tail(samples)
  BY ReceiveFacts DEF MergeFrame, CompleteSuperFrame, IInv, Receive
<1>2. message \in FrameMsg
  BY <1>1, MessageKinds DEF MergeFrame, CompleteSuperFrame
<1>3. receivedMeta \in MetaMsg
  BY <1>1 DEF IInv, TypeOK, AnalyserTypeOK
<1>4. message.audio \in FrameIds
  BY <1>2 DEF FrameMsg
<1> QED BY <1>1, <1>2, <1>3, <1>4, ReceivedNumbers, NumberTypes DEF OrderInv, IInv, MetaMsg

(* The frame joins those collected.                                        *)
LEMMA MergeStep ==
  ASSUME IInv, OrderInv, QueueMoves, MergeFrame, UNCHANGED <<jamPending, frameSequence>>
  PROVE  OrderInv'
<1>0. PICK c \in Channels : c = receivedMeta.channelId
  BY FrameFacts
<1> DEFINE o == superFrameOffsets[c]
           a == message.audio
<1>1. /\ pc = "frame" /\ c \in Channels
      /\ a \in FrameIds /\ a.frameSequence \in FramesPast'
      /\ \A x \in FramesPast : x < a.frameSequence
  BY <1>0, FrameFacts
<1>2. /\ superFrames' = [superFrames EXCEPT ![c] = Merged(c)]
      /\ superFrameOffsets' = [superFrameOffsets EXCEPT ![c] = o + 1]
      /\ pc' = "meta"
      /\ UNCHANGED <<disk, s3, oscFiles>>
  BY <1>0 DEF MergeFrame
<1>3. /\ superFrames \in [Channels -> SuperFrames]
      /\ superFrameOffsets \in [Channels -> Slots]
  BY DEF IInv, TypeOK, AnalyserTypeOK
<1>4. /\ o \in Slots
      /\ \A k \in Slots : k < o => Merged(c)[k] = superFrames[c][k]
      /\ Merged(c)[o] = a
  BY <1>1, MergedCells
<1>5. superFrames'[c] = Merged(c) /\ superFrameOffsets'[c] = o + 1
  BY <1>1, <1>2, <1>3
<1>6. \A e \in Channels : e # c =>
        superFrames'[e] = superFrames[e] /\ superFrameOffsets'[e] = superFrameOffsets[e]
  BY <1>1, <1>2, <1>3
<1>7. \A k \in Slots : Collected(c, k)' =>
        \/ Collected(c, k) /\ superFrames'[c][k] = superFrames[c][k]
        \/ k = o /\ superFrames'[c][k] = a
  BY <1>4, <1>5, SizesAssumption DEF Collected, Slots
<1>8. \A e \in Channels, k \in Slots : e # c /\ Collected(e, k)' =>
        Collected(e, k) /\ superFrames'[e][k] = superFrames[e][k]
  BY <1>6 DEF Collected
<1>9. \A k \in Slots : Collected(c, k) => k < o
  BY DEF Collected
<1> HIDE DEF o, a
<1>10. SlotsRise'
  <2> SUFFICES ASSUME NEW e \in Channels
               PROVE  /\ \A k \in Slots : Collected(e, k)' =>
                           /\ superFrames'[e][k] \in FrameIds
                           /\ superFrames'[e][k].frameSequence \in FramesPast'
                      /\ \A k, l \in Slots : Collected(e, l)' /\ k < l =>
                           superFrames'[e][k].frameSequence < superFrames'[e][l].frameSequence
    BY DEF SlotsRise
  <2>1. CASE e # c
    <3>1. \A k, l \in Slots : Collected(e, l) /\ k < l => Collected(e, k)
      BY <1>3, SizesAssumption DEF Collected, Slots
    <3>2. \A k \in Slots : superFrames'[e][k] = superFrames[e][k]
      BY <1>6, <2>1
    <3> QED BY <1>8, <2>1, <3>1, <3>2 DEF OrderInv, SlotsRise, QueueMoves
  <2>2. CASE e = c
    <3>1. \A k \in Slots : Collected(c, k)' =>
            /\ superFrames'[c][k] \in FrameIds
            /\ superFrames'[c][k].frameSequence \in FramesPast'
      BY <1>1, <1>7 DEF OrderInv, SlotsRise, QueueMoves
    <3>2. ASSUME NEW k \in Slots, NEW l \in Slots, Collected(c, l)', k < l
          PROVE  superFrames'[c][k].frameSequence < superFrames'[c][l].frameSequence
      <4>1. k < o /\ Collected(c, k) /\ superFrames'[c][k] = superFrames[c][k]
        <5>1. l <= o
          BY <1>4, <1>7, <1>9, <3>2, SizesAssumption DEF Slots
        <5>2. k < o
          BY <1>4, <3>2, <5>1, SizesAssumption DEF Slots
        <5> QED BY <1>4, <1>5, <5>2 DEF Collected, o
      <4>2. CASE Collected(c, l) /\ superFrames'[c][l] = superFrames[c][l]
        BY <1>1, <3>2, <4>1, <4>2 DEF OrderInv, SlotsRise
      <4>3. CASE superFrames'[c][l] = a
        BY <1>1, <4>1, <4>3 DEF OrderInv, SlotsRise
      <4> QED BY <1>7, <3>2, <4>2, <4>3
    <3> QED BY <2>2, <3>1, <3>2
  <2> QED BY <2>1, <2>2
<1>11. OpenFilesPast'
  <2> SUFFICES ASSUME NEW e \in Channels, NEW p \in Packets, InOpenFile(e, p)'
               PROVE  /\ p.frameSequence \in MetasPast'
                      /\ LastFrame(p) \in FramesPast'
                      /\ \A k \in Slots : Collected(e, k)' =>
                           LastFrame(p) < superFrames'[e][k].frameSequence
    BY <1>2 DEF OpenFilesPast, LastFrame
  <2>1. InOpenFile(e, p)
    BY <1>2 DEF InOpenFile
  <2>2. /\ p.frameSequence \in MetasPast /\ LastFrame(p) \in FramesPast
        /\ \A k \in Slots : Collected(e, k) => LastFrame(p) < superFrames[e][k].frameSequence
    BY <2>1 DEF OrderInv, OpenFilesPast
  <2> QED BY <1>1, <1>7, <1>8, <2>2 DEF QueueMoves
<1>12. QueueRises' /\ PlacesInOrder' /\ MetaInHand' /\ PacketRises'
  BY <1>2, PlacesKept DEF OrderInv, QueueMoves, MetaInHand, PacketRises
<1> QED BY <1>10, <1>11, <1>12 DEF OrderInv

(* The superframe is full, and the packet made of it rises.                *)
LEMMA CompleteOrders ==
  ASSUME IInv, OrderInv, QueueMoves, CompleteSuperFrame,
         UNCHANGED <<jamPending, frameSequence>>
  PROVE  OrderInv'
<1>0. PICK c \in Channels : c = receivedMeta.channelId
  BY FrameFacts
<1> DEFINE o == superFrameOffsets[c]
           a == message.audio
           packet == [channelId |-> c, frameSequence |-> receivedMeta.frameSequence,
                      session |-> receivedMeta.session, frames |-> Merged(c)]
<1>1. /\ pc = "frame" /\ c \in Channels /\ receivedMeta \in MetaMsg
      /\ a \in FrameIds /\ a.frameSequence \in FramesPast'
      /\ \A x \in FramesPast : x < a.frameSequence
      /\ \A x \in MetasDue : x <= a.frameSequence
  BY <1>0, FrameFacts
<1>2. /\ superFrames' = [superFrames EXCEPT ![c] = Merged(c)]
      /\ superFrameOffsets' = [superFrameOffsets EXCEPT ![c] = 0]
      /\ oscBuffer' = packet
      /\ pc' = "write"
      /\ UNCHANGED <<disk, s3, oscFiles, receivedMeta>>
  BY <1>0 DEF CompleteSuperFrame
<1>3. /\ superFrames \in [Channels -> SuperFrames]
      /\ superFrameOffsets \in [Channels -> Slots]
  BY DEF IInv, TypeOK, AnalyserTypeOK
<1>4. /\ o = FramesPerSuperframe - 1 /\ o \in Slots
      /\ \A k \in Slots : k < o => Merged(c)[k] = superFrames[c][k]
      /\ Merged(c)[o] = a
  <2>1. o \in Slots
    BY <1>1, <1>3
  <2>2. o = FramesPerSuperframe - 1
    BY <1>0, <2>1, SizesAssumption DEF CompleteSuperFrame, Fills, Slots
  <2>3. /\ \A k \in Slots : k < o => Merged(c)[k] = superFrames[c][k]
        /\ Merged(c)[o] = a
    BY <1>1, <1>3, MergedCells
  <2> QED BY <2>1, <2>2, <2>3
<1>5. \A k \in Slots : k = o \/ Collected(c, k)
  BY <1>4, SizesAssumption DEF Collected, Slots
<1>6. superFrameOffsets'[c] = 0 /\ \A k \in Slots : ~Collected(c, k)'
  <2>1. superFrameOffsets'[c] = 0
    BY <1>1, <1>2, <1>3
  <2> QED BY <2>1, SizesAssumption DEF Collected, Slots
<1>7. \A e \in Channels : e # c =>
        superFrames'[e] = superFrames[e] /\ superFrameOffsets'[e] = superFrameOffsets[e]
  BY <1>1, <1>2, <1>3
<1>8. \A e \in Channels, k \in Slots : Collected(e, k)' =>
        e # c /\ Collected(e, k) /\ superFrames'[e] = superFrames[e]
  BY <1>6, <1>7 DEF Collected
<1>9. /\ packet.channelId = c /\ packet.frameSequence = receivedMeta.frameSequence
      /\ packet.frames = Merged(c)
  OBVIOUS
<1>10. /\ \A k \in Slots : Merged(c)[k] \in FrameIds
       /\ \A k \in Slots : k # o =>
            Collected(c, k) /\ Merged(c)[k] = superFrames[c][k]
              /\ superFrames[c][k].frameSequence \in FramesPast
  BY <1>1, <1>4, <1>5 DEF OrderInv, SlotsRise, Collected
<1> HIDE DEF o, a, packet
<1>11. Whole(packet)
  BY <1>9, <1>10 DEF Whole
<1>12. FramesRise(packet) /\ LastFrame(packet) = a.frameSequence
  <2>1. ASSUME NEW k \in Slots, NEW l \in Slots, k < l
        PROVE  Merged(c)[k].frameSequence < Merged(c)[l].frameSequence
    <3>1. k # o
      BY <1>4, <2>1, SizesAssumption DEF Slots
    <3>2. CASE l = o
      BY <1>1, <1>4, <1>10, <3>1, <3>2
    <3>3. CASE l # o
      BY <1>1, <1>10, <2>1, <3>1, <3>3 DEF OrderInv, SlotsRise
    <3> QED BY <3>2, <3>3
  <2>2. receivedMeta.frameSequence <= a.frameSequence
    BY <1>1 DEF OrderInv, MetaInHand
  <2> QED BY <1>4, <1>9, <2>1, <2>2 DEF FramesRise, LastFrame
<1>13. PacketRises'
  <2>1. /\ Whole(oscBuffer') /\ FramesRise(oscBuffer') /\ LastFrame(oscBuffer') \in FramesPast'
        /\ oscBuffer'.channelId = receivedMeta'.channelId
        /\ oscBuffer'.frameSequence = receivedMeta'.frameSequence
        /\ superFrameOffsets'[receivedMeta'.channelId] = 0
    BY <1>0, <1>1, <1>2, <1>6, <1>9, <1>11, <1>12
  <2> QED BY <2>1 DEF PacketRises, Whole, FramesRise, LastFrame
<1>14. SlotsRise'
  <2> SUFFICES ASSUME NEW e \in Channels
               PROVE  /\ \A k \in Slots : Collected(e, k)' =>
                           /\ superFrames'[e][k] \in FrameIds
                           /\ superFrames'[e][k].frameSequence \in FramesPast'
                      /\ \A k, l \in Slots : Collected(e, l)' /\ k < l =>
                           superFrames'[e][k].frameSequence < superFrames'[e][l].frameSequence
    BY DEF SlotsRise
  <2> QED BY <1>8 DEF OrderInv, SlotsRise, QueueMoves
<1>15. OpenFilesPast'
  <2> SUFFICES ASSUME NEW e \in Channels, NEW p \in Packets, InOpenFile(e, p)'
               PROVE  /\ p.frameSequence \in MetasPast'
                      /\ LastFrame(p) \in FramesPast'
                      /\ \A k \in Slots : Collected(e, k)' =>
                           LastFrame(p) < superFrames'[e][k].frameSequence
                      /\ p.frameSequence < receivedMeta'.frameSequence
                      /\ receivedMeta'.channelId = e => Precedes(p, oscBuffer')
    BY DEF OpenFilesPast, LastFrame, Precedes
  <2>1. InOpenFile(e, p)
    BY <1>2 DEF InOpenFile
  <2>2. /\ p.frameSequence \in MetasPast /\ LastFrame(p) \in FramesPast
        /\ \A k \in Slots : Collected(e, k) => LastFrame(p) < superFrames[e][k].frameSequence
        /\ p.frameSequence < receivedMeta.frameSequence
    BY <1>1, <2>1 DEF OrderInv, OpenFilesPast
  <2>3. ASSUME receivedMeta.channelId = e
        PROVE  LastFrame(p) < Merged(c)[0].frameSequence
    <3>1. 0 \in Slots
      BY SizesAssumption DEF Slots
    <3>2. CASE 0 = o
      BY <1>1, <1>4, <2>2, <3>2
    <3>3. CASE 0 # o
      BY <1>0, <1>10, <2>2, <2>3, <3>1, <3>3
    <3> QED BY <3>2, <3>3
  <2>4. receivedMeta.channelId = e => Precedes(p, packet)
    BY <1>9, <2>2, <2>3 DEF Precedes, LastFrame
  <2> QED BY <1>2, <1>8, <2>2, <2>4 DEF QueueMoves
<1>16. QueueRises' /\ PlacesInOrder' /\ MetaInHand'
  BY <1>1, <1>2, PlacesKept DEF OrderInv, QueueMoves, MetaInHand
<1> QED BY <1>13, <1>14, <1>15, <1>16 DEF OrderInv

LEMMA AppendOrders ==
  ASSUME NEW n \in Filenames, NEW file \in Seq(Packets), NEW p \in Packets,
         InOrder(file, n), WholeFile(file), Whole(p), FramesRise(p), p.channelId = n[1],
         \A i \in DOMAIN file : Precedes(file[i], p)
  PROVE  InOrder(Append(file, p), n) /\ WholeFile(Append(file, p))
<1> DEFINE longer == Append(file, p)
<1>1. /\ DOMAIN longer = DOMAIN file \cup {Len(file) + 1}
      /\ longer[Len(file) + 1] = p
      /\ \A i \in DOMAIN file : longer[i] = file[i] /\ i \in Nat /\ i < Len(file) + 1
      /\ Len(file) \in Nat
  OBVIOUS
<1> HIDE DEF longer
<1>2. \A i \in DOMAIN longer :
        longer[i].channelId = n[1] /\ FramesRise(longer[i]) /\ Whole(longer[i])
  BY <1>1 DEF InOrder, WholeFile
<1>3. \A i, j \in DOMAIN longer : i < j => Precedes(longer[i], longer[j])
  <2> SUFFICES ASSUME NEW i \in DOMAIN longer, NEW j \in DOMAIN longer, i < j
               PROVE  Precedes(longer[i], longer[j])
    OBVIOUS
  <2>1. i \in DOMAIN file
    BY <1>1
  <2>2. CASE j \in DOMAIN file
    BY <1>1, <2>1, <2>2 DEF InOrder
  <2>3. CASE j = Len(file) + 1
    BY <1>1, <2>1, <2>3
  <2> QED BY <1>1, <2>2, <2>3
<1> QED BY <1>2, <1>3 DEF InOrder, WholeFile, longer

LEMMA WriteOrders ==
  ASSUME IInv, OrderInv, QueueMoves, WritePacket, receivedMeta.channelId \notin unlinked
  PROVE  OrderInv'
<1>0. PICK c \in Channels, d \in SessionDirs, n \in Filenames, before \in Seq(Packets) :
        Writes(c, d, n, before)
  BY WrittenFile
<1>1. /\ c = receivedMeta.channelId /\ n[1] = c
      /\ oscFiles' = [oscFiles EXCEPT ![c] = [dir |-> d, name |-> n]]
      /\ disk' = [disk EXCEPT ![d][n] = Append(before, oscBuffer)]
      /\ \/ before = << >>
         \/ /\ oscFiles[c] # NoFile
            /\ oscFiles[c].dir = d /\ oscFiles[c].name = n
            /\ before = disk[d][n]
  BY <1>0 DEF Writes
<1>2. /\ pc = "write" /\ pc' = "meta"
      /\ UNCHANGED <<s3, receivedMeta, superFrames, superFrameOffsets, oscBuffer>>
      /\ oscBuffer \in Packets
      /\ oscFiles \in [Channels -> Files \cup {NoFile}]
      /\ disk \in [SessionDirs -> [Filenames -> Seq(Packets)]]
  <2>1. pc = "write" /\ oscBuffer \in Packets
    BY DEF WritePacket, IInv, TypeOK, AnalyserTypeOK
  <2> QED BY <2>1 DEF WritePacket, IInv, TypeOK, AnalyserTypeOK
<1>3. /\ Whole(oscBuffer) /\ FramesRise(oscBuffer)
      /\ LastFrame(oscBuffer) \in FramesPast
      /\ oscBuffer.channelId = c
      /\ oscBuffer.frameSequence \in MetasPast
      /\ \A k \in Slots : ~Collected(c, k)
  <2>1. /\ superFrameOffsets[c] = 0 /\ oscBuffer.frameSequence = receivedMeta.frameSequence
        /\ Whole(oscBuffer) /\ FramesRise(oscBuffer)
        /\ LastFrame(oscBuffer) \in FramesPast
        /\ oscBuffer.channelId = c
    BY <1>1, <1>2 DEF OrderInv, PacketRises
  <2>2. receivedMeta.frameSequence \in MetasPast
    BY <1>2 DEF OrderInv, MetaInHand
  <2>3. \A k \in Slots : ~Collected(c, k)
    BY <2>1, SizesAssumption DEF Collected, Slots
  <2> QED BY <2>1, <2>2, <2>3
<1>4. \A i \in DOMAIN before : before[i] \in Packets /\ InOpenFile(c, before[i])
  <2>1. CASE before = << >>
    BY <2>1
  <2>2. CASE oscFiles[c] # NoFile /\ oscFiles[c].dir = d /\ oscFiles[c].name = n /\ before = disk[d][n]
    <3> TAKE i \in DOMAIN before
    <3>1. before[i] \in Packets
      OBVIOUS
    <3>2. InOpenFile(c, before[i])
      BY <2>2 DEF InOpenFile
    <3> QED
      BY <3>1, <3>2
  <2> QED BY <1>1, <2>1, <2>2
<1>5. \A i \in DOMAIN before :
        /\ Precedes(before[i], oscBuffer)
        /\ before[i].frameSequence \in MetasPast
        /\ LastFrame(before[i]) \in FramesPast
  BY <1>1, <1>2, <1>4 DEF OrderInv, OpenFilesPast
<1>6. InOrder(before, n) /\ WholeFile(before)
  <2>1. CASE before = << >>
    BY <2>1 DEF InOrder, WholeFile
  <2>2. CASE before = disk[d][n]
    BY <2>2 DEF OrderInv, PlacesInOrder
  <2> QED BY <1>1, <2>1, <2>2
<1> DEFINE file == Append(before, oscBuffer)
<1>7. InOrder(file, n) /\ WholeFile(file)
  BY <1>1, <1>2, <1>3, <1>5, <1>6, AppendOrders
<1>8. /\ disk'[d][n] = file
      /\ \A e \in SessionDirs, m \in Filenames :
           e # d \/ m # n => disk'[e][m] = disk[e][m]
  BY <1>1, <1>2
<1>9. \A i \in DOMAIN file :
        (i \in DOMAIN before /\ file[i] = before[i]) \/ file[i] = oscBuffer
  BY <1>2
<1> HIDE DEF file
<1>10. PlacesInOrder'
  <2>1. \A e \in SessionDirs, m \in Filenames :
          /\ InOrder(disk'[e][m], m) /\ WholeFile(disk'[e][m])
          /\ InOrder(s3'[e][m], m) /\ WholeFile(s3'[e][m])
    BY <1>2, <1>7, <1>8 DEF OrderInv, PlacesInOrder
  <2> QED BY <2>1 DEF PlacesInOrder, InOrder, WholeFile, Whole, FramesRise, Precedes
<1>11. OpenFilesPast'
  <2> SUFFICES ASSUME NEW e \in Channels, NEW p \in Packets, InOpenFile(e, p)'
               PROVE  /\ p.frameSequence \in MetasPast'
                      /\ LastFrame(p) \in FramesPast'
                      /\ \A k \in Slots : Collected(e, k)' =>
                           LastFrame(p) < superFrames'[e][k].frameSequence
    BY <1>2 DEF OpenFilesPast, LastFrame
  <2>1. \A k \in Slots : Collected(e, k)' => Collected(e, k)
    BY <1>2 DEF Collected
  <2>2. CASE e = c
    <3>1. oscFiles'[c] = [dir |-> d, name |-> n]
      BY <1>1, <1>2
    <3>2. \E i \in DOMAIN file : p = file[i]
      BY <1>8, <2>2, <3>1 DEF InOpenFile
    <3>3. p = oscBuffer \/ \E i \in DOMAIN before : p = before[i]
      BY <1>9, <3>2
    <3>4. p.frameSequence \in MetasPast /\ LastFrame(p) \in FramesPast
      BY <1>3, <1>5, <3>3
    <3> QED BY <1>3, <2>1, <2>2, <3>4 DEF QueueMoves
  <2>3. CASE e # c
    <3>1. oscFiles'[e] = oscFiles[e] /\ oscFiles[e] # NoFile
      BY <1>1, <1>2, <2>3 DEF InOpenFile
    <3>2. oscFiles[e].dir \in SessionDirs /\ oscFiles[e].name \in Filenames
      BY <1>2, <3>1 DEF Files
    <3>3. oscFiles[e].name # n
      BY <1>1, <2>3, <3>1 DEF IInv, OpenFilesInSession
    <3>4. InOpenFile(e, p)
      BY <1>8, <3>1, <3>2, <3>3 DEF InOpenFile
    <3> QED BY <1>2, <2>1, <3>4 DEF OrderInv, OpenFilesPast, QueueMoves
  <2> QED BY <2>2, <2>3
<1>12. QueueRises' /\ SlotsRise' /\ MetaInHand' /\ PacketRises'
  BY <1>2, SlotsKept DEF OrderInv, QueueMoves, MetaInHand, PacketRises
<1> QED BY <1>10, <1>11, <1>12 DEF OrderInv

(* A packet that reaches no file: the one its channel's stream stood for   *)
(* is gone.                                                                *)
LEMMA WriteLost ==
  ASSUME IInv, UnlinkedGone, OrderInv, QueueMoves, WritePacket,
         receivedMeta.channelId \in unlinked
  PROVE  OrderInv'
<1>0. PICK c \in Channels, d \in SessionDirs, n \in Filenames, before \in Seq(Packets) :
        Writes(c, d, n, before)
  BY WrittenFile
<1>1. /\ c = receivedMeta.channelId /\ n[1] = c /\ d = oscDirectoryName
      /\ oscFiles' = [oscFiles EXCEPT ![c] = [dir |-> d, name |-> n]]
      /\ disk' = disk
      /\ oscFiles[c] = NoFile \/ oscFiles[c].name = n
  BY <1>0 DEF Writes
<1>2. /\ pc = "write" /\ pc' = "meta"
      /\ UNCHANGED <<s3, receivedMeta, superFrames, superFrameOffsets, oscBuffer>>
      /\ oscFiles \in [Channels -> Files \cup {NoFile}]
  BY DEF WritePacket, IInv, TypeOK, AnalyserTypeOK
<1>3. disk[d][n] = << >>
  BY <1>1, <1>2 DEF UnlinkedGone, OpenSession
<1>4. ASSUME NEW e \in Channels, NEW p \in Packets, InOpenFile(e, p)'
      PROVE  InOpenFile(e, p)
  <2>1. e # c
    <3> SUFFICES ASSUME e = c PROVE FALSE
      OBVIOUS
    <3>1. oscFiles'[e] = [dir |-> d, name |-> n]
      BY <1>1, <1>2
    <3> QED BY <1>1, <1>3, <1>4, <3>1 DEF InOpenFile
  <2>2. oscFiles'[e] = oscFiles[e]
    BY <1>1, <1>2, <2>1
  <2> QED BY <1>1, <1>4, <2>2 DEF InOpenFile
<1>5. PlacesInOrder'
  BY <1>1, <1>2, PlacesKept DEF OrderInv
<1> QED BY <1>2, <1>4, <1>5, NothingGained

-----------------------------------------------------------------------------
LEMMA StepOrders == IInv /\ UnlinkedGone /\ OrderInv /\ [Next]_vars => OrderInv'
<1> SUFFICES ASSUME IInv, UnlinkedGone, OrderInv, [Next]_vars PROVE OrderInv'
  OBVIOUS
<1>0. QueueMoves
  BY StepMoves DEF OrderInv
<1>1. CASE Analyse
  <2>1. CASE FlushMessage \/ FlushDone \/ IgnoreMessage \/ RejectFrame \/ UploadReturns
    BY <1>0, <2>1, NothingKept
    DEF FlushMessage, FlushDone, IgnoreMessage, RejectFrame, UploadReturns, memory
  <2>2. CASE StartSession \/ EndSession
    BY <1>0, <2>2, SessionSteps
  <2>3. CASE \E n \in Filenames : UploadFile(n)
    BY <1>0, <2>3, UploadStep
  <2>4. CASE AcceptMeta \/ MergeFrame \/ CompleteSuperFrame
    BY <1>0, <1>1, <2>4, AcceptStep, MergeStep, CompleteOrders DEF Analyse, jamVars
  <2>5. CASE WritePacket
    BY <1>0, <2>5, WriteOrders, WriteLost
  <2> QED BY <1>1, <2>1, <2>2, <2>3, <2>4, <2>5 DEF Analyse, AnalyserStep
<1>2. CASE Start
  BY <1>0, <1>2, NothingKept DEF Start, Boot
<1>3. CASE Jamulus \/ OscServerReceive
  BY <1>0, <1>3, NothingKept
  DEF Jamulus, JamStart, JamEnd, JamMeta, JamFrame, JamChangeClient, OscServerReceive,
      analyserVars, memory
<1>4. CASE Kill
  <2>1. PICK kept \in [Channels -> 0 .. MaxFrames] : Crash(kept)
    BY <1>4 DEF Kill
  <2>2. kept \in [Channels -> Nat]
    BY BoundsAssumption
  <2> QED BY <1>0, <2>1, <2>2, KillStep
<1>5. CASE UNCHANGED vars
  BY <1>0, <1>5, NothingKept DEF vars, analyserVars, memory
<1>6. CASE OrphanStep
  BY <1>0, <1>6, OrphanOrders
<1> QED BY <1>1, <1>2, <1>3, <1>4, <1>5, <1>6 DEF Next

(* Whatever is lost, misread or killed, a file tells its channel's story   *)
(* in order and tells no frame twice (main.cpp:229-271).                   *)
THEOREM StoriesInOrder == Spec => []FilesInOrder
<1>1. OrderInv => FilesInOrder
  BY DEF OrderInv, PlacesInOrder, FilesInOrder
<1> QED BY InitHolds, StepHolds, InitGone, StepGone, InitOrders, StepOrders, <1>1, PTL
        DEF Spec

-----------------------------------------------------------------------------
(***************************************************************************)
(* Proof that the program collects frames as FrameSlots promises: the      *)
(* numbers give that no frame comes twice, and on a queue that loses       *)
(* nothing the pairs give whose frame it is.                               *)
(***************************************************************************)
LEMMA InitCollects == Init => Collection!Init
BY DEF Init, AnalyserInit, NoSuperFrames, NoOffsets, Collection!Init, Slots,
       Collection!Slots

(* The end of the process is a restart of the collection.                  *)
LEMMA DieForgets == Die => Collection!Restart
BY DEF Die, NoSuperFrames, NoOffsets, Slots, Collection!Restart, Collection!Slots

(* The frame that Merged(c) puts into the array fills its last slot.       *)
LEMMA MergedCollects ==
  ASSUME IInv, NEW c \in Channels
  PROVE  /\ Merged(c) = Collection!Collected(c, message.audio)
         /\ Merged(c)[FramesPerSuperframe - 1] = message.audio
<1>1. superFrameOffsets[c] \in Slots
  BY DEF IInv, TypeOK, AnalyserTypeOK
<1>2. ASSUME NEW k \in Slots
      PROVE  k \in superFrameOffsets[c] .. (superFrameOffsets[c] + SamplesPerFrame - 1)
               <=> ~(k < superFrameOffsets[c])
  BY <1>1, SizesAssumption DEF Slots
<1>3. FramesPerSuperframe - 1 \in Slots
      /\ ~(FramesPerSuperframe - 1 < superFrameOffsets[c])
  BY <1>1, SizesAssumption DEF Slots
<1>4. Merged(c) = [k \in Slots |-> IF k < superFrameOffsets[c] THEN superFrames[c][k]
                                   ELSE message.audio]
  BY <1>2 DEF Merged
<1> QED BY <1>3, <1>4 DEF Collection!Collected, Slots, Collection!Slots

(* Jamulus sends no more than MaxFrames frames.                            *)
NumbersBounded == frameSequence <= MaxFrames

LEMMA InitNumbers == Init => NumbersBounded
BY BoundsAssumption DEF Init, NumbersBounded

LEMMA StepNumbers == IInv /\ NumbersBounded /\ [Next]_vars => NumbersBounded'
<1> SUFFICES ASSUME IInv, NumbersBounded, [Next]_vars PROVE NumbersBounded'
  OBVIOUS
<1>1. ASSUME UNCHANGED frameSequence PROVE NumbersBounded'
  BY <1>1 DEF NumbersBounded
<1>2. ASSUME NEW c \in Channels, NEW shape \in FrameShapes, JamMeta(c, shape)
      PROVE  NumbersBounded'
  BY <1>2, BoundsAssumption DEF JamMeta, IInv, TypeOK, NumbersBounded
<1> QED BY <1>1, <1>2
        DEF Next, Start, Analyse, Jamulus, JamStart, JamEnd, JamFrame, JamChangeClient,
            OscServerReceive, Kill, OrphanStep, vars, jamVars

(* What is numbered later than all that is announced, or still to be read, *)
(* was so before.                                                          *)
LEMMA SupplyShrinks ==
  ASSUME IInv, IInv', QueueMoves, NEW c \in Channels
  PROVE  Mergeable(c)' \subseteq Mergeable(c)
<1>1. /\ Upcoming \in Seq(Messages) /\ Upcoming' \in Seq(Messages)
      /\ frameSequence \in Nat /\ frameSequence' \in Nat /\ frameSequence <= frameSequence'
  <2>1. TypeOK /\ TypeOK'
    BY DEF IInv
  <2>2. Upcoming' \in Seq(Messages)
    BY <2>1 DEF TypeOK, AnalyserTypeOK, Upcoming, Messages
  <2> QED BY <2>1, <2>2, UpcomingType DEF TypeOK, QueueMoves, FramesComeLater
<1>2. ASSUME NEW f \in Mergeable(c)' PROVE f \in Mergeable(c)
  <2>1. /\ f \in [session : Dirs \cup {NoDir}, channelId : Channels,
                  frameSequence : 0 .. (MaxFrames - 1)]
        /\ SendsAreDropped \/ f.channelId = c
        /\ \/ f.frameSequence >= frameSequence'
           \/ \E i \in DOMAIN Upcoming' : Upcoming'[i] \in FrameMsg /\ Upcoming'[i].audio = f
    BY DEF Mergeable
  <2>2. f.frameSequence \in Int
    BY <2>1
  <2>3. CASE f.frameSequence >= frameSequence'
    <3>1. f.frameSequence >= frameSequence
      BY <1>1, <2>2, <2>3
    <3> QED BY <2>1, <3>1 DEF Mergeable
  <2>4. ASSUME NEW i \in DOMAIN Upcoming', Upcoming'[i] \in FrameMsg, Upcoming'[i].audio = f
        PROVE  f \in Mergeable(c)
    <3>1. i \in Nat /\ IsFrame(i)'
      BY <1>1, <2>4 DEF IsFrame
    <3>2. CASE frameSequence <= Upcoming'[i].audio.frameSequence
      <4>1. f.frameSequence >= frameSequence
        BY <1>1, <2>2, <2>4, <3>2
      <4> QED BY <2>1, <4>1 DEF Mergeable
    <3>3. ASSUME NEW j \in Nat, IsFrame(j), Upcoming'[i] = Upcoming[j]
          PROVE  f \in Mergeable(c)
      <4>1. j \in DOMAIN Upcoming /\ Upcoming[j] \in FrameMsg /\ Upcoming[j].audio = f
        BY <1>1, <2>4, <3>3 DEF IsFrame
      <4> QED BY <2>1, <4>1 DEF Mergeable
    <3> QED BY <3>1, <3>2, <3>3 DEF QueueMoves, FramesComeLater
  <2> QED BY <2>1, <2>3, <2>4
<1> QED BY <1>2

(* The frame that is merged was still to be read, is of the channel while  *)
(* pairs stay together, and is behind all that is read afterwards.         *)
LEMMA FrameSupplied ==
  ASSUME IInv, NumbersBounded, OrderInv, ~SendsAreDropped => PairInv,
         MergeFrame \/ CompleteSuperFrame, UNCHANGED <<jamPending, frameSequence>>
  PROVE  /\ message.audio \in Mergeable(receivedMeta.channelId)
         /\ \A e : message.audio \notin Mergeable(e)'
<1> DEFINE a == message.audio
<1>1. /\ message \in Messages /\ pc = "frame"
      /\ samples # << >> /\ samples' = Tail(samples) /\ TypeOK
  BY ReceiveFacts DEF MergeFrame, CompleteSuperFrame, IInv, Receive
<1>2. message \in FrameMsg /\ a \in FrameIds /\ a.frameSequence \in FramesPast'
  BY <1>1, FrameFacts, MessageKinds DEF MergeFrame, CompleteSuperFrame
<1>3. /\ Upcoming \in Seq(Messages) /\ Upcoming # << >> /\ Upcoming' = Tail(Upcoming)
      /\ Upcoming[1] = message
  BY <1>1, UpcomingType, ReceiveUpcoming
<1>4. 1 \in DOMAIN Upcoming /\ IsFrame(1)
  BY <1>2, <1>3 DEF IsFrame
<1>5. a.frameSequence \in 0 .. (MaxFrames - 1)
  <2>1. a.frameSequence < frameSequence
    BY <1>3, <1>4 DEF OrderInv, QueueRises, NumbersGiven
  <2>2. a.frameSequence \in Nat /\ frameSequence \in Nat /\ MaxFrames \in Nat
    BY <1>1, <1>2, BoundsAssumption DEF FrameIds, TypeOK
  <2> QED BY <2>1, <2>2 DEF NumbersBounded
<1>6. SendsAreDropped \/ a.channelId = receivedMeta.channelId
  <2> SUFFICES ASSUME ~SendsAreDropped PROVE a.channelId = receivedMeta.channelId
    OBVIOUS
  <2>1. PairsStayTogether
    BY DEF PairInv
  <2> QED BY <1>1, <1>3, <2>1 DEF PairsStayTogether, Announces
<1>7. a \in [session : Dirs \cup {NoDir}, channelId : Channels,
            frameSequence : 0 .. (MaxFrames - 1)]
  BY <1>2, <1>5 DEF FrameIds
<1>8. a \in Mergeable(receivedMeta.channelId)
  BY <1>2, <1>3, <1>4, <1>6, <1>7 DEF Mergeable
<1>9. ASSUME NEW e, a \in Mergeable(e)' PROVE FALSE
  <2>1. /\ a.frameSequence \in Nat /\ a.frameSequence < frameSequence' /\ frameSequence' \in Nat
        /\ \A i \in Nat : IsFrame(i)' => a.frameSequence < Upcoming'[i].audio.frameSequence
    BY <1>1, <1>2 DEF FramesPast, TypeOK
  <2>2. PICK i \in DOMAIN Upcoming' : Upcoming'[i] \in FrameMsg /\ Upcoming'[i].audio = a
    BY <1>9, <2>1 DEF Mergeable
  <2>3. i \in Nat /\ IsFrame(i)'
    BY <1>3, <2>2 DEF IsFrame
  <2> QED BY <2>1, <2>2, <2>3
<1> QED BY <1>8, <1>9

(* A frame is merged, whether it completes the superframe or not.          *)
LEMMA FrameCollects ==
  ASSUME IInv, NumbersBounded, OrderInv, ~SendsAreDropped => PairInv,
         MergeFrame \/ CompleteSuperFrame, UNCHANGED <<jamPending, frameSequence>>
  PROVE  \E c \in Channels : Collection!Merge(c, superFrames'[c][FramesPerSuperframe - 1])
<1> DEFINE c == receivedMeta.channelId
           o == superFrameOffsets[c]
           packet == [channelId |-> c, frameSequence |-> receivedMeta.frameSequence,
                      session |-> receivedMeta.session, frames |-> Merged(c)]
<1>1. pc = "frame" /\ message \in Messages
  BY ReceiveFacts DEF MergeFrame, CompleteSuperFrame, IInv
<1>2. receivedMeta \in MetaMsg
  BY <1>1 DEF IInv, TypeOK, AnalyserTypeOK
<1>3. c \in Channels /\ receivedMeta.frameSequence \in Nat
      /\ receivedMeta.session \in Dirs \cup {NoDir}
  BY <1>2 DEF MetaMsg
<1>4. o \in Slots /\ superFrames \in [Channels -> SuperFrames]
      /\ superFrameOffsets \in [Channels -> Slots]
  BY <1>3 DEF IInv, TypeOK, AnalyserTypeOK
<1>5. Merged(c) \in SuperFrames
  BY <1>1, <1>3, MergedType, MessageKinds DEF MergeFrame, CompleteSuperFrame, IInv
<1>6. packet \in Packets /\ packet # Nothing /\ packet.frames = Merged(c)
  BY <1>3, <1>5, NothingAssumption DEF Packets
<1>7. Fills(c) <=> o # FramesPerSuperframe - 1
  BY <1>4, SizesAssumption DEF Fills, Slots
<1>8. /\ superFrames' = [superFrames EXCEPT ![c] = Merged(c)]
      /\ superFrameOffsets' = [superFrameOffsets EXCEPT
                                ![c] = IF o = FramesPerSuperframe - 1 THEN 0 ELSE o + 1]
  BY <1>4, <1>7 DEF MergeFrame, CompleteSuperFrame
<1>9. (IF oscBuffer' = Nothing THEN Nothing ELSE oscBuffer'.frames) =
        IF o = FramesPerSuperframe - 1 THEN Merged(c)
        ELSE IF oscBuffer = Nothing THEN Nothing ELSE oscBuffer.frames
  <2>1. CASE MergeFrame
    BY <1>7, <2>1 DEF MergeFrame
  <2>2. CASE CompleteSuperFrame
    <3>1. oscBuffer' = packet /\ ~Fills(c)
      BY <2>2 DEF CompleteSuperFrame
    <3> QED BY <1>6, <1>7, <3>1
  <2> QED BY <2>1, <2>2
<1>10. superFrames'[c][FramesPerSuperframe - 1] = message.audio
  BY <1>3, <1>4, <1>8, MergedCollects
<1>11. message.audio \in Mergeable(c) /\ \A e : message.audio \notin Mergeable(e)'
  BY FrameSupplied
<1> HIDE DEF c, o
<1>12. Collection!Merge(c, message.audio)
  BY <1>3, <1>4, <1>8, <1>9, <1>11, MergedCollects DEF Collection!Merge, o
<1> QED BY <1>3, <1>10, <1>12

(* What is collected changes by a frame, by a restart or not at all.       *)
LEMMA StepCollects ==
  ASSUME IInv, NumbersBounded, OrderInv, ~SendsAreDropped => PairInv, [Next]_vars
  PROVE  \/ \E c \in Channels :
              Collection!Merge(c, superFrames'[c][FramesPerSuperframe - 1])
         \/ Collection!Restart
         \/ UNCHANGED <<superFrames, superFrameOffsets, oscBuffer>>
<1>1. CASE StartSession
  BY <1>1, DieForgets DEF StartSession
<1>2. CASE Analyse /\ (MergeFrame \/ CompleteSuperFrame)
  BY <1>2, FrameCollects DEF Analyse, jamVars
<1>3. CASE Boot \/ FlushDone \/ EndSession \/ UploadReturns \/ AcceptMeta
           \/ RejectFrame \/ WritePacket
  BY <1>3 DEF Boot, FlushDone, EndSession, UploadReturns, AcceptMeta, RejectFrame,
              WritePacket
<1>4. CASE FlushMessage \/ IgnoreMessage \/ \E n \in Filenames : UploadFile(n)
  BY <1>4, UploadMoves DEF FlushMessage, IgnoreMessage, memory
<1>5. CASE Jamulus \/ OscServerReceive
  BY <1>5 DEF Jamulus, JamStart, JamEnd, JamMeta, JamFrame, JamChangeClient,
              OscServerReceive, analyserVars, memory
<1>6. CASE Kill
  BY <1>6, DieForgets DEF Kill, Crash
<1>7. CASE OrphanStep
  BY <1>7, OrphanFacts DEF memory
<1>8. CASE UNCHANGED vars
  BY <1>8 DEF vars, analyserVars, memory
<1> QED BY <1>1, <1>2, <1>3, <1>4, <1>5, <1>6, <1>7, <1>8
        DEF Next, Start, Analyse, AnalyserStep

LEMMA CollectionMoves ==
  ASSUME IInv, IInv', NumbersBounded, OrderInv, ~SendsAreDropped => PairInv, [Next]_vars
  PROVE  Collection!Next
<1>1. \A c \in Channels : Mergeable(c)' \subseteq Mergeable(c)
  BY StepMoves, SupplyShrinks DEF OrderInv
<1>2. \/ UNCHANGED <<superFrames, superFrameOffsets,
                    IF oscBuffer = Nothing THEN Nothing ELSE oscBuffer.frames>>
      \/ Collection!Restart
      \/ \E c \in Channels : Collection!Merge(c, superFrames'[c][FramesPerSuperframe - 1])
  BY StepCollects
<1> QED BY <1>1, <1>2 DEF Collection!Next

(* With any queues, sessions, losses and restarts a packet is made of the  *)
(* FramesPerSuperframe frames that one channel collected for it.  A frame  *)
(* comes from what was still to be read, no frame is merged twice, and     *)
(* where the queue loses nothing those of a channel are that channel's     *)
(* own (main.cpp:171-256).                                                 *)
THEOREM FramesCollected == Spec => CollectsFrames
<1>1. CASE SendsAreDropped
  <2>1. IInv /\ IInv' /\ NumbersBounded /\ OrderInv /\ [Next]_vars =>
          [Collection!Next]_(Collection!vars)
    BY <1>1, CollectionMoves
  <2> QED BY <2>1, InitHolds, StepHolds, InitGone, StepGone, InitOrders, StepOrders,
             InitNumbers, StepNumbers, InitCollects, PTL
          DEF Spec, CollectsFrames, Collection!Spec
<1>2. CASE ~SendsAreDropped
  <2>1. IInv /\ IInv' /\ NumbersBounded /\ OrderInv /\ PairInv /\ [Next]_vars =>
          [Collection!Next]_(Collection!vars)
    BY CollectionMoves
  <2>2. IInv /\ PairInv /\ [Next]_vars => PairInv'
    BY <1>2, PairStep
  <2> QED BY <2>1, <2>2, InitHolds, StepHolds, PairInit, InitGone, StepGone, InitOrders,
             StepOrders, InitNumbers, StepNumbers, InitCollects, PTL
          DEF Spec, CollectsFrames, Collection!Spec
<1> QED BY <1>1, <1>2

-----------------------------------------------------------------------------
(***************************************************************************)
(* Proof that sessions do not mix in their files on a queue that loses     *)
(* nothing: between the start marker of a session and the next end marker  *)
(* there are only announcements of that session, and while it is open no   *)
(* end marker is taken for a frame or skipped.                             *)
(***************************************************************************)
IsStart(i) == i \in 1 .. Len(Upcoming) /\ Upcoming[i] \in StartMsg
IsEnd(i) == i \in 1 .. Len(Upcoming) /\ Upcoming[i] \in EndMsg

NoEnd(j, i) == \A k \in Nat : j < k /\ k <= i => ~IsEnd(k)

(* Behind place j, up to the next end marker, all audio is of session d.   *)
SessionFollows(j, d) ==
  /\ \A i \in Nat : j < i /\ IsMeta(i) /\ NoEnd(j, i) => Upcoming[i].session = d
  /\ NoEnd(j, Len(Upcoming)) => jamSession = d

StartsFollow ==
  \A j \in Nat, d \in Dirs :
    IsStart(j) /\ Upcoming[j].sessionDir = d => SessionFollows(j, d)

OpenFollows == \A d \in Dirs : OpenSession(d) => SessionFollows(0, d)

(* The announcement and the packet in hand are of the open session.        *)
HandOfSession ==
  /\ pc \in {"down", "flush"} => oscDirectoryName = NoDir
  /\ pc \in {"frame", "write"} =>
       \A d \in Dirs : oscDirectoryName = d => receivedMeta.session = d
  /\ pc = "write" => oscBuffer.session = receivedMeta.session

Pure(file, d) == \A i \in DOMAIN file : file[i].session = d

PlacesPure ==
  \A d \in Dirs, n \in Filenames : Pure(disk[d][n], d) /\ Pure(s3[d][n], d)

PureInv == StartsFollow /\ OpenFollows /\ HandOfSession /\ PlacesPure

-----------------------------------------------------------------------------
LEMMA InitPure == Init => PureInv
<1> SUFFICES ASSUME Init PROVE PureInv
  OBVIOUS
<1>1. Upcoming = << >>
  BY DEF Init, AnalyserInit, Upcoming
<1>2. StartsFollow
  BY <1>1 DEF StartsFollow, IsStart
<1>3. OpenFollows /\ HandOfSession
  BY NamesAssumption DEF Init, AnalyserInit, OpenFollows, OpenSession, HandOfSession
<1>4. PlacesPure
  BY DEF Init, AnalyserInit, PlacesPure, Pure, SessionDirs
<1> QED BY <1>2, <1>3, <1>4 DEF PureInv

(* A message is taken away: every place moves up by one.                   *)
LEMMA FollowsTail ==
  ASSUME TypeOK, samples # << >>, samples' = Tail(samples),
         UNCHANGED <<jamPending, jamSession>>,
         NEW j \in Nat, NEW d \in Dirs
  PROVE  /\ SessionFollows(j + 1, d) => SessionFollows(j, d)'
         /\ SessionFollows(0, d) /\ ~IsEnd(1) => SessionFollows(0, d)'
<1>1. /\ Upcoming \in Seq(Messages) /\ Upcoming # << >> /\ Upcoming' = Tail(Upcoming)
  BY UpcomingType, ReceiveUpcoming
<1>2. /\ Len(Upcoming) \in Nat /\ Len(Upcoming') = Len(Upcoming) - 1
      /\ \A i \in 1 .. Len(Upcoming') : Upcoming'[i] = Upcoming[i + 1]
  BY <1>1
<1>3. \A i \in Nat : IsMeta(i)' => IsMeta(i + 1) /\ Upcoming'[i] = Upcoming[i + 1]
  BY <1>2 DEF IsMeta
<1>4. \A i \in Nat : i >= 1 /\ IsEnd(i + 1) => IsEnd(i)'
  BY <1>2 DEF IsEnd
<1>5. ASSUME NEW l \in Nat, NEW i \in Nat, NoEnd(l, i)'
      PROVE  NoEnd(l + 1, i + 1)
  <2> SUFFICES ASSUME NEW k \in Nat, l + 1 < k, k <= i + 1, IsEnd(k)
               PROVE  FALSE
    BY DEF NoEnd
  <2>1. k - 1 \in Nat /\ k - 1 >= 1 /\ (k - 1) + 1 = k /\ l < k - 1 /\ k - 1 <= i
    OBVIOUS
  <2>2. IsEnd(k - 1)'
    BY <1>4, <2>1
  <2> QED BY <1>5, <2>1, <2>2 DEF NoEnd
<1>6. ASSUME NEW l \in Nat, SessionFollows(l + 1, d)
      PROVE  SessionFollows(l, d)'
  <2>1. ASSUME NEW i \in Nat, l < i, IsMeta(i)', NoEnd(l, i)'
        PROVE  Upcoming'[i].session = d
    <3>1. i + 1 \in Nat /\ l + 1 < i + 1
      BY <2>1
    <3> QED BY <1>3, <1>5, <1>6, <2>1, <3>1 DEF SessionFollows
  <2>2. ASSUME NoEnd(l, Len(Upcoming))'
        PROVE  jamSession' = d
    <3>1. Len(Upcoming') \in Nat /\ Len(Upcoming') + 1 = Len(Upcoming)
      BY <1>1, <1>2
    <3>2. NoEnd(l + 1, Len(Upcoming))
      <4> SUFFICES ASSUME NEW k \in Nat, l + 1 < k, k <= Len(Upcoming), IsEnd(k)
                   PROVE  FALSE
        BY DEF NoEnd
      <4>1. k - 1 \in Nat /\ k - 1 >= 1 /\ (k - 1) + 1 = k /\ l < k - 1
            /\ k - 1 <= Len(Upcoming')
        BY <3>1
      <4>2. IsEnd(k - 1)'
        BY <1>4, <4>1
      <4> QED BY <2>2, <4>1, <4>2 DEF NoEnd
    <3> QED BY <1>6, <3>2 DEF SessionFollows
  <2> QED BY <2>1, <2>2 DEF SessionFollows
<1>7. ASSUME SessionFollows(0, d), ~IsEnd(1)
      PROVE  SessionFollows(0 + 1, d)
  <2>1. \A i : NoEnd(1, i) => NoEnd(0, i)
    BY <1>7 DEF NoEnd
  <2> QED BY <1>7, <2>1 DEF SessionFollows
<1> QED BY <1>6, <1>7

(* Something is added behind what was there.                               *)
LEMMA FollowsLonger ==
  ASSUME TypeOK, NEW j \in Nat, NEW d \in Dirs, j <= Len(Upcoming),
         SessionFollows(j, d),
         \A i \in 1 .. Len(Upcoming) :
           i \in 1 .. Len(Upcoming') /\ Upcoming'[i] = Upcoming[i],
         Len(Upcoming') \in Nat, Len(Upcoming) <= Len(Upcoming'),
         \A i \in Nat : i > Len(Upcoming) /\ IsMeta(i)' => Upcoming'[i].session = jamSession,
         \/ jamSession' = jamSession
         \/ jamSession = NoDir
         \/ \E i \in Nat : i > Len(Upcoming) /\ IsEnd(i)'
  PROVE  SessionFollows(j, d)'
<1>1. Len(Upcoming) \in Nat
  BY UpcomingType
<1>2. \A i \in Nat : IsEnd(i) => IsEnd(i)'
  BY DEF IsEnd
<1>3. \A i \in Nat : NoEnd(j, i)' => NoEnd(j, i)
  BY <1>2 DEF NoEnd
<1>4. \A i \in Nat : i > Len(Upcoming) /\ NoEnd(j, i)' => NoEnd(j, Len(Upcoming))
  <2> SUFFICES ASSUME NEW i \in Nat, i > Len(Upcoming), NoEnd(j, i)',
                      NEW k \in Nat, j < k, k <= Len(Upcoming), IsEnd(k)
               PROVE  FALSE
    BY DEF NoEnd
  <2>1. IsEnd(k)' /\ k <= i
    BY <1>1, <1>2
  <2> QED BY <2>1 DEF NoEnd
<1>5. ASSUME NEW i \in Nat, j < i, IsMeta(i)', NoEnd(j, i)'
      PROVE  Upcoming'[i].session = d
  <2>1. CASE i > Len(Upcoming)
    BY <1>4, <1>5, <2>1 DEF SessionFollows
  <2>2. CASE i <= Len(Upcoming)
    <3>1. i \in 1 .. Len(Upcoming)
      BY <1>1, <1>5, <2>2
    <3>2. IsMeta(i) /\ Upcoming'[i] = Upcoming[i]
      BY <1>5, <3>1 DEF IsMeta
    <3> QED BY <1>3, <1>5, <3>2 DEF SessionFollows
  <2> QED BY <1>1, <2>1, <2>2
<1>6. ASSUME NoEnd(j, Len(Upcoming))'
      PROVE  jamSession' = d
  <2>1. NoEnd(j, Len(Upcoming))
    <3> SUFFICES ASSUME NEW k \in Nat, j < k, k <= Len(Upcoming), IsEnd(k)
                 PROVE  FALSE
      BY DEF NoEnd
    <3>1. IsEnd(k)' /\ k <= Len(Upcoming')
      BY <1>1, <1>2
    <3> QED BY <1>6, <3>1 DEF NoEnd
  <2>2. jamSession = d /\ d # NoDir
    BY <2>1, NamesAssumption DEF SessionFollows
  <2>3. ~\E i \in Nat : i > Len(Upcoming) /\ IsEnd(i)'
    <3> SUFFICES ASSUME NEW i \in Nat, i > Len(Upcoming), IsEnd(i)' PROVE FALSE
      OBVIOUS
    <3>1. j < i /\ i <= Len(Upcoming')
      BY <1>1 DEF IsEnd
    <3> QED BY <1>6, <3>1 DEF NoEnd
  <2> QED BY <2>2, <2>3
<1> QED BY <1>5, <1>6 DEF SessionFollows

-----------------------------------------------------------------------------
(* A message is received that closes no session and opens none of          *)
(* Jamulus's but at its marker.                                            *)
LEMMA ReceivedFollows ==
  ASSUME TypeOK, PureInv, samples # << >>, samples' = Tail(samples),
         UNCHANGED <<jamPending, jamSession>>,
         \A d \in Dirs : OpenSession(d)' =>
           \/ OpenSession(d) /\ message \notin EndMsg
           \/ message \in StartMsg /\ message.sessionDir = d
  PROVE  StartsFollow' /\ OpenFollows'
<1>1. /\ Upcoming \in Seq(Messages) /\ Upcoming # << >> /\ Upcoming' = Tail(Upcoming)
      /\ Upcoming[1] = message
  BY UpcomingType, ReceiveUpcoming
<1>2. /\ 1 \in 1 .. Len(Upcoming)
      /\ \A i \in 1 .. Len(Upcoming') :
           i + 1 \in 1 .. Len(Upcoming) /\ Upcoming'[i] = Upcoming[i + 1]
  BY <1>1
<1>3. StartsFollow'
  <2> SUFFICES ASSUME NEW j \in Nat, NEW d \in Dirs, IsStart(j)', Upcoming'[j].sessionDir = d
               PROVE  SessionFollows(j, d)'
    BY DEF StartsFollow
  <2>1. j + 1 \in Nat /\ IsStart(j + 1) /\ Upcoming[j + 1].sessionDir = d
    BY <1>2 DEF IsStart
  <2>2. SessionFollows(j + 1, d)
    BY <2>1 DEF PureInv, StartsFollow
  <2> QED BY <2>2, FollowsTail
<1>4. OpenFollows'
  <2> SUFFICES ASSUME NEW d \in Dirs, OpenSession(d)' PROVE SessionFollows(0, d)'
    BY DEF OpenFollows
  <2>1. CASE OpenSession(d) /\ message \notin EndMsg
    <3>1. SessionFollows(0, d) /\ ~IsEnd(1)
      BY <1>1, <2>1 DEF PureInv, OpenFollows, IsEnd
    <3> QED BY <3>1, FollowsTail
  <2>2. CASE message \in StartMsg /\ message.sessionDir = d
    <3>1. SessionFollows(0 + 1, d)
      BY <1>1, <1>2, <2>2 DEF PureInv, StartsFollow, IsStart
    <3> QED BY <3>1, FollowsTail
  <2> QED BY <2>1, <2>2
<1> QED BY <1>3, <1>4

(* Nothing happens to the queue.                                           *)
LEMMA QuietFollows ==
  ASSUME TypeOK, PureInv, UNCHANGED <<Upcoming, jamSession>>,
         \A d \in Dirs : OpenSession(d)' => OpenSession(d)
  PROVE  StartsFollow' /\ OpenFollows'
<1>1. \A j, d : SessionFollows(j, d) => SessionFollows(j, d)'
  BY DEF SessionFollows, IsMeta, NoEnd, IsEnd
<1> QED BY <1>1 DEF PureInv, StartsFollow, OpenFollows, IsStart

(* Something is sent: a start marker after an end marker, audio of the     *)
(* session that is open at Jamulus.                                        *)
LEMMA SentFollows ==
  ASSUME TypeOK, PureInv,
         \A i \in 1 .. Len(Upcoming) :
           i \in 1 .. Len(Upcoming') /\ Upcoming'[i] = Upcoming[i],
         Len(Upcoming') \in Nat, Len(Upcoming) <= Len(Upcoming'),
         \A i \in Nat : i > Len(Upcoming) /\ IsMeta(i)' => Upcoming'[i].session = jamSession,
         \A i \in Nat : i > Len(Upcoming) /\ IsStart(i)' =>
           i = Len(Upcoming') /\ Upcoming'[i].sessionDir = jamSession',
         \/ jamSession' = jamSession
         \/ jamSession = NoDir
         \/ \E i \in Nat : i > Len(Upcoming) /\ IsEnd(i)',
         UNCHANGED <<pc, oscDirectoryName>>
  PROVE  StartsFollow' /\ OpenFollows'
<1>1. Len(Upcoming) \in Nat
  BY UpcomingType
<1>2. \A j \in Nat, d \in Dirs : j <= Len(Upcoming) /\ SessionFollows(j, d) =>
        SessionFollows(j, d)'
  BY FollowsLonger
<1>3. StartsFollow'
  <2> SUFFICES ASSUME NEW j \in Nat, NEW d \in Dirs, IsStart(j)', Upcoming'[j].sessionDir = d
               PROVE  SessionFollows(j, d)'
    BY DEF StartsFollow
  <2>1. CASE j > Len(Upcoming)
    <3>1. j = Len(Upcoming') /\ jamSession' = d
      BY <2>1
    <3>2. \A i \in Nat : IsMeta(i)' => i <= j
      BY <3>1 DEF IsMeta
    <3> QED BY <3>1, <3>2 DEF SessionFollows
  <2>2. CASE j <= Len(Upcoming)
    <3>1. j \in 1 .. Len(Upcoming)
      BY <1>1, <2>2 DEF IsStart
    <3>2. IsStart(j) /\ Upcoming[j].sessionDir = d
      BY <3>1 DEF IsStart
    <3> QED BY <1>2, <2>2, <3>2 DEF PureInv, StartsFollow
  <2> QED BY <1>1, <2>1, <2>2
<1>4. OpenFollows'
  BY <1>1, <1>2 DEF PureInv, OpenFollows, OpenSession
<1> QED BY <1>3, <1>4

LEMMA NotEnd ==
  /\ \A m \in StartMsg : m \notin EndMsg
  /\ \A m \in MetaMsg : m \notin EndMsg
  /\ \A m \in FrameMsg : m \notin EndMsg
<1>1. \A m \in StartMsg : m \notin EndMsg
  BY OtherMessages
<1>2. \A m \in MetaMsg : m \notin EndMsg
  BY NotMeta
<1>3. \A m \in FrameMsg : m \notin EndMsg
  BY NotFrame
<1> QED BY <1>1, <1>2, <1>3

(* One message is sent.                                                    *)
LEMMA MarkerFollows ==
  ASSUME ~SendsAreDropped, TypeOK, PureInv,
         NEW m \in StartMsg \cup EndMsg, Send(m),
         jamPending = Nothing, UNCHANGED <<jamPending, pc, oscDirectoryName>>,
         m \in StartMsg => jamSession = NoDir /\ m.sessionDir = jamSession'
  PROVE  StartsFollow' /\ OpenFollows'
<1>1. m \in Messages /\ m \notin MetaMsg /\ (m \in StartMsg \/ m \in EndMsg)
  BY NotMeta DEF Messages
<1>2. Upcoming \in Seq(Messages) /\ Upcoming' = Append(Upcoming, m)
  BY UpcomingType DEF Send, Upcoming
<1>3. /\ Len(Upcoming) \in Nat
      /\ Len(Upcoming') = Len(Upcoming) + 1
      /\ \A i \in 1 .. Len(Upcoming) :
           i \in 1 .. Len(Upcoming') /\ Upcoming'[i] = Upcoming[i]
      /\ Upcoming'[Len(Upcoming) + 1] = m
  BY <1>1, <1>2
<1>4. \A i \in Nat : i > Len(Upcoming) /\ i \in 1 .. Len(Upcoming') =>
        i = Len(Upcoming') /\ Upcoming'[i] = m
  BY <1>3
<1>5. \A i \in Nat : i > Len(Upcoming) => ~IsMeta(i)'
  BY <1>1, <1>4 DEF IsMeta
<1>6. \A i \in Nat : i > Len(Upcoming) /\ IsStart(i)' =>
        i = Len(Upcoming') /\ Upcoming'[i].sessionDir = jamSession'
  BY <1>4 DEF IsStart
<1>7. m \in EndMsg => \E i \in Nat : i > Len(Upcoming) /\ IsEnd(i)'
  <2> SUFFICES ASSUME m \in EndMsg
               PROVE  \E i \in Nat : i > Len(Upcoming) /\ IsEnd(i)'
    OBVIOUS
  <2>1. PICK k \in Nat : k = Len(Upcoming) + 1
    BY <1>3
  <2>2. k > Len(Upcoming) /\ IsEnd(k)'
    BY <1>3, <2>1 DEF IsEnd
  <2> QED BY <2>2
<1> QED BY <1>1, <1>3, <1>5, <1>6, <1>7, SentFollows

LEMMA AnnouncementFollows ==
  ASSUME ~SendsAreDropped, IInv, PureInv,
         NEW c \in Channels, NEW shape \in FrameShapes, JamMeta(c, shape)
  PROVE  StartsFollow' /\ OpenFollows'
<1> DEFINE id == [session |-> jamSession, channelId |-> c, frameSequence |-> frameSequence]
           m == [size |-> AudioMetaBytes, metaType |-> audioFrame, channelId |-> c,
                 frameSequence |-> frameSequence, filename |-> <<c, client[c]>>,
                 session |-> jamSession]
           f == [size |-> shape.size, metaType |-> shape.metaType,
                 sessionDir |-> shape.sessionDir, audio |-> id]
<1>1. m \in MetaMsg
  BY DEF MetaMsg, Filenames, IInv, TypeOK
<1>2. f \in FrameMsg
  BY ShapesAssumption DEF FrameMsg, FrameIds, IInv, TypeOK
<1>3. /\ m \in Messages /\ f \in Messages /\ f # Nothing
      /\ m \notin StartMsg /\ f \notin StartMsg /\ f \notin MetaMsg
      /\ m.session = jamSession
  BY <1>1, <1>2, NothingAssumption, NotMeta, OtherMessages DEF Messages
<1>4. /\ jamPending = Nothing /\ jamPending' = f /\ Send(m)
      /\ UNCHANGED <<jamSession, pc, oscDirectoryName>>
  BY DEF JamMeta, memory
<1> HIDE DEF m, f
<1>5. Upcoming \in Seq(Messages) /\ Upcoming' = Append(Append(Upcoming, m), f)
  BY <1>3, <1>4, UpcomingType DEF IInv, Send, Upcoming
<1>6. /\ Len(Upcoming) \in Nat
      /\ Len(Upcoming') = Len(Upcoming) + 2
      /\ \A i \in 1 .. Len(Upcoming) :
           i \in 1 .. Len(Upcoming') /\ Upcoming'[i] = Upcoming[i]
      /\ Upcoming'[Len(Upcoming) + 1] = m /\ Upcoming'[Len(Upcoming) + 2] = f
  BY <1>3, <1>5, SMTT(30)
<1>7. \A i \in Nat : i > Len(Upcoming) /\ i \in 1 .. Len(Upcoming') =>
        Upcoming'[i] = m \/ Upcoming'[i] = f
  BY <1>6
<1>8. \A i \in Nat : i > Len(Upcoming) /\ IsMeta(i)' => Upcoming'[i].session = jamSession
  BY <1>3, <1>7 DEF IsMeta
<1>9. \A i \in Nat : i > Len(Upcoming) => ~IsStart(i)'
  BY <1>3, <1>7 DEF IsStart
<1> QED BY <1>4, <1>6, <1>8, <1>9, SentFollows DEF IInv

(* What Jamulus and oscserver do.                                          *)
LEMMA OthersPure ==
  ASSUME ~SendsAreDropped, IInv, PureInv, Jamulus \/ OscServerReceive
  PROVE  PureInv'
<1>0. UNCHANGED <<disk, s3, memory>>
  BY DEF Jamulus, JamStart, JamEnd, JamMeta, JamFrame, JamChangeClient,
         OscServerReceive, analyserVars
<1>1. HandOfSession' /\ PlacesPure'
  BY <1>0 DEF PureInv, HandOfSession, PlacesPure, Pure, memory
<1>2. ASSUME UNCHANGED <<Upcoming, jamSession>> PROVE StartsFollow' /\ OpenFollows'
  BY <1>0, <1>2, QuietFollows DEF IInv, memory, OpenSession
<1>3. ASSUME NEW d \in Dirs, JamStart(d) PROVE StartsFollow' /\ OpenFollows'
  <2> DEFINE m == [size |-> StartBytes, metaType |-> startSession, sessionDir |-> d]
  <2>1. m \in StartMsg /\ m.sessionDir = d
    BY DEF StartMsg
  <2>2. Send(m) /\ jamSession = NoDir /\ jamSession' = d /\ jamPending = Nothing
        /\ jamPending' = jamPending
    BY <1>3 DEF JamStart
  <2> HIDE DEF m
  <2> QED BY <1>0, <2>1, <2>2, MarkerFollows DEF IInv, memory
<1>4. CASE JamEnd
  <2> DEFINE m == [size |-> EndBytes, metaType |-> endSession]
  <2>1. m \in EndMsg
    BY DEF EndMsg
  <2>2. Send(m) /\ jamPending = Nothing /\ jamPending' = jamPending
    BY <1>4 DEF JamEnd
  <2>3. m \notin StartMsg
    BY <2>1, OtherMessages
  <2> HIDE DEF m
  <2>4. StartsFollow' /\ OpenFollows'
    BY <1>0, <2>1, <2>2, <2>3, MarkerFollows DEF IInv, memory
  <2> QED BY <1>1, <2>4 DEF PureInv
<1>5. CASE JamFrame
  <2>1. UNCHANGED <<Upcoming, jamSession>>
    BY <1>5 DEF JamFrame, Send, Upcoming
  <2> QED BY <1>1, <1>2, <2>1 DEF PureInv
<1>6. ASSUME NEW c \in Channels, NEW k \in Clients, JamChangeClient(c, k)
      PROVE  StartsFollow' /\ OpenFollows'
  BY <1>2, <1>6 DEF JamChangeClient, analyserVars, Upcoming
<1>7. CASE OscServerReceive
  BY <1>1, <1>2, <1>7 DEF OscServerReceive, jamVars, Upcoming, PureInv
<1> QED BY <1>1, <1>3, <1>4, <1>5, <1>6, <1>7, AnnouncementFollows DEF Jamulus, PureInv

-----------------------------------------------------------------------------
(* The analyser skips a message, ends a session or begins one.             *)
LEMMA SessionOfMessage ==
  ASSUME IInv, PairInv, PureInv, UNCHANGED <<jamPending, jamSession>>,
         \/ FlushMessage \/ IgnoreMessage \/ StartSession \/ EndSession
         \/ AcceptMeta \/ RejectFrame \/ MergeFrame \/ CompleteSuperFrame
  PROVE  StartsFollow' /\ OpenFollows'
<1>0. /\ samples # << >> /\ samples' = Tail(samples) /\ TypeOK
      /\ message \in Messages
  BY UpcomingType DEF FlushMessage, IgnoreMessage, StartSession, EndSession, AcceptMeta,
     RejectFrame, MergeFrame, CompleteSuperFrame, Receive, IInv, message
<1>1. SUFFICES ASSUME NEW d \in Dirs, OpenSession(d)'
               PROVE  \/ OpenSession(d) /\ message \notin EndMsg
                      \/ message \in StartMsg /\ message.sessionDir = d
  BY <1>0, ReceivedFollows
<1>2. d # NoDir
  BY NamesAssumption
<1>3. CASE FlushMessage
  BY <1>1, <1>2, <1>3 DEF FlushMessage, memory, OpenSession, PureInv, HandOfSession
<1>4. CASE IgnoreMessage
  <2>1. OpenSession(d) /\ sessionOpen /\ Ignored(message)
    BY <1>1, <1>2, <1>4 DEF IgnoreMessage, memory, OpenSession, sessionOpen
  <2>2. message.metaType # endSession
    BY <2>1 DEF Ignored, startSession, endSession
  <2> QED BY <2>1, <2>2 DEF EndMsg
<1>5. CASE StartSession
  <2>1. message.metaType = startSession /\ message.sessionDir = d
    BY <1>1, <1>2, <1>5 DEF StartSession, Die, OpenSession
  <2> QED BY <1>0, <2>1, RealMarkers
<1>6. CASE EndSession
  BY <1>1, <1>6 DEF EndSession, OpenSession
<1>7. CASE AcceptMeta
  BY <1>0, <1>1, <1>7, MessageKinds, NotEnd DEF AcceptMeta, Receive, OpenSession
<1>8. CASE RejectFrame \/ MergeFrame \/ CompleteSuperFrame
  <2>1. pc = "frame" /\ oscDirectoryName' = oscDirectoryName
    BY <1>8 DEF RejectFrame, MergeFrame, CompleteSuperFrame, Receive
  <2>2. Upcoming # << >> /\ Upcoming[1] = message /\ Upcoming \in Seq(Messages)
    BY <1>0, ReceiveUpcoming, UpcomingType
  <2>3. message \in FrameMsg
    BY <2>1, <2>2 DEF PairInv, PairsStayTogether, Announces
  <2> QED BY <1>1, <2>1, <2>3, NotEnd DEF OpenSession
<1> QED BY <1>3, <1>4, <1>5, <1>6, <1>7, <1>8

(* What is accepted with a session open was sent in it.                    *)
LEMMA AcceptedOfSession ==
  ASSUME IInv, PureInv, AcceptMeta, UNCHANGED jamPending, NEW d \in Dirs,
         oscDirectoryName = d
  PROVE  message.session = d
<1>1. /\ samples # << >> /\ samples' = Tail(samples) /\ TypeOK
      /\ message \in Messages /\ pc = "meta"
  BY ReceiveFacts DEF AcceptMeta, Receive, IInv
<1>2. Upcoming # << >> /\ Upcoming[1] = message /\ Upcoming \in Seq(Messages)
  BY <1>1, ReceiveUpcoming, UpcomingType
<1>3. message \in MetaMsg /\ message \notin EndMsg
  BY <1>1, MessageKinds, NotEnd DEF AcceptMeta
<1>4. IsMeta(1)
  BY <1>2, <1>3 DEF IsMeta
<1>5. NoEnd(0, 1)
  <2> SUFFICES ASSUME NEW k \in Nat, 0 < k, k <= 1, IsEnd(k) PROVE FALSE
    BY DEF NoEnd
  <2>1. k = 1
    OBVIOUS
  <2> QED BY <1>2, <1>3, <2>1 DEF IsEnd
<1>6. SessionFollows(0, d)
  BY <1>1 DEF PureInv, OpenFollows, OpenSession
<1> QED BY <1>2, <1>4, <1>5, <1>6 DEF SessionFollows

(* The steps of the analyser that touch no file.                           *)
LEMMA LoopPure ==
  ASSUME IInv, PairInv, PureInv, UNCHANGED <<jamPending, jamSession>>,
         \/ Boot \/ FlushMessage \/ FlushDone \/ IgnoreMessage \/ StartSession
         \/ EndSession \/ UploadReturns \/ AcceptMeta \/ RejectFrame \/ MergeFrame
         \/ CompleteSuperFrame
  PROVE  PureInv'
<1>1. UNCHANGED <<disk, s3>>
  BY DEF Boot, FlushMessage, FlushDone, IgnoreMessage, StartSession, EndSession,
         UploadReturns, AcceptMeta, RejectFrame, MergeFrame, CompleteSuperFrame
<1>2. PlacesPure'
  BY <1>1 DEF PureInv, PlacesPure, Pure
<1>3. StartsFollow' /\ OpenFollows'
  <2>1. CASE Boot \/ FlushDone \/ UploadReturns
    <3>1. UNCHANGED <<Upcoming, jamSession>>
      BY <2>1 DEF Boot, FlushDone, UploadReturns, Upcoming
    <3>2. \A d \in Dirs : OpenSession(d)' => OpenSession(d)
      BY <2>1, NamesAssumption DEF Boot, FlushDone, UploadReturns, OpenSession
    <3> QED BY <3>1, <3>2, QuietFollows DEF IInv
  <2> QED BY <2>1, SessionOfMessage
<1>4. HandOfSession'
  <2>1. CASE Boot \/ FlushMessage \/ FlushDone \/ IgnoreMessage
    BY <2>1 DEF Boot, FlushMessage, FlushDone, IgnoreMessage, memory, Receive, PureInv,
                HandOfSession
  <2>2. CASE StartSession \/ EndSession \/ UploadReturns \/ RejectFrame \/ MergeFrame
    BY <2>2 DEF StartSession, Die, EndSession, UploadReturns, RejectFrame, MergeFrame,
                Receive, HandOfSession
  <2>3. CASE AcceptMeta
    <3>1. pc' = "frame" /\ receivedMeta' = message /\ UNCHANGED oscDirectoryName
      BY <2>3 DEF AcceptMeta
    <3>2. \A d \in Dirs : oscDirectoryName = d => message.session = d
      BY <2>3, AcceptedOfSession
    <3> QED BY <3>1, <3>2 DEF HandOfSession
  <2>4. CASE CompleteSuperFrame
    <3>1. /\ pc = "frame" /\ pc' = "write" /\ UNCHANGED <<oscDirectoryName, receivedMeta>>
          /\ oscBuffer'.session = receivedMeta.session
      BY <2>4 DEF CompleteSuperFrame, Receive
    <3> QED BY <3>1 DEF PureInv, HandOfSession
  <2> QED BY <2>1, <2>2, <2>3, <2>4
<1> QED BY <1>2, <1>3, <1>4 DEF PureInv

-----------------------------------------------------------------------------
(* The steps that touch files: nothing happens to the queue.               *)
LEMMA MovePure ==
  ASSUME IInv, PureInv, UNCHANGED <<jamPending, jamSession>>,
         NEW d \in SessionDirs, NEW n \in Filenames, MoveFile(d, n)
  PROVE  PureInv'
<1>1. /\ disk \in [SessionDirs -> [Filenames -> Seq(Packets)]]
      /\ s3 \in [SessionDirs -> [Filenames -> Seq(Packets)]]
      /\ disk[d][n] \in Seq(Packets)
      /\ disk' = [disk EXCEPT ![d][n] = << >>]
      /\ UNCHANGED <<samples, memory>>
  BY DEF MoveFile, IInv, TypeOK, AnalyserTypeOK
<1>2. PICK k \in 0 .. Len(disk[d][n]) :
        s3' = [s3 EXCEPT ![d][n] = SubSeq(disk[d][n], 1, k)]
  BY MoveFacts
<1>3. \A e \in Dirs, m \in Filenames :
        /\ disk'[e][m] \in {<< >>, disk[e][m]}
        /\ \/ s3'[e][m] = s3[e][m]
           \/ e = d /\ s3'[e][m] = SubSeq(disk[d][n], 1, k)
  BY <1>1, <1>2 DEF SessionDirs
<1>4. \A e : Pure(<< >>, e) /\ (Pure(disk[d][n], e) => Pure(SubSeq(disk[d][n], 1, k), e))
  BY <1>1 DEF Pure
<1>5. PlacesPure'
  <2>1. d \in Dirs => Pure(disk[d][n], d)
    BY DEF PureInv, PlacesPure
  <2>2. \A e \in Dirs, m \in Filenames : Pure(disk'[e][m], e) /\ Pure(s3'[e][m], e)
    BY <1>3, <1>4, <2>1 DEF PureInv, PlacesPure
  <2> QED BY <2>2 DEF PlacesPure, Pure
<1>6. StartsFollow' /\ OpenFollows'
  <2>1. UNCHANGED <<Upcoming, jamSession, pc, oscDirectoryName>>
    BY <1>1 DEF Upcoming, memory
  <2> QED BY <2>1, QuietFollows DEF IInv, OpenSession
<1>7. HandOfSession'
  BY <1>1 DEF PureInv, HandOfSession, memory
<1> QED BY <1>5, <1>6, <1>7 DEF PureInv

LEMMA UploadPure ==
  ASSUME IInv, PureInv, UNCHANGED <<jamPending, jamSession>>,
         NEW n \in Filenames, UploadFile(n)
  PROVE  PureInv'
BY UploadMoves, MovePure DEF UploadFile

LEMMA OrphanPure ==
  ASSUME IInv, PureInv, OrphanStep
  PROVE  PureInv'
<1>1. UNCHANGED <<jamPending, jamSession, samples, pc, oscDirectoryName, receivedMeta,
                  oscBuffer>>
  BY OrphanFacts DEF memory, jamVars
<1>2. PICK d \in orphans : OrphanEnds(d) \/ \E n \in Filenames : MoveFile(d, n)
  BY OrphanFacts
<1>3. d \in SessionDirs
  BY DEF IInv, TypeOK, AnalyserTypeOK
<1>4. CASE OrphanEnds(d)
  <2>1. UNCHANGED <<disk, s3, Upcoming>>
    BY <1>1, <1>4 DEF OrphanEnds, Upcoming
  <2>2. StartsFollow' /\ OpenFollows'
    BY <1>1, <2>1, QuietFollows DEF IInv, OpenSession
  <2> QED BY <1>1, <2>1, <2>2 DEF PureInv, HandOfSession, PlacesPure, Pure
<1> QED BY <1>1, <1>2, <1>3, <1>4, MovePure

LEMMA WritePure ==
  ASSUME IInv, PureInv, UNCHANGED <<jamPending, jamSession>>, WritePacket
  PROVE  PureInv'
<1>0. PICK c \in Channels, d \in SessionDirs, n \in Filenames, before \in Seq(Packets) :
        Writes(c, d, n, before)
  BY WrittenFile
<1>1. /\ d = oscDirectoryName
      /\ disk' \in {disk, [disk EXCEPT ![d][n] = Append(before, oscBuffer)]}
      /\ before = << >> \/ before = disk[d][n]
  BY <1>0 DEF Writes
<1>2. /\ pc = "write" /\ pc' = "meta"
      /\ UNCHANGED <<samples, s3, oscDirectoryName>>
      /\ oscBuffer \in Packets
      /\ disk \in [SessionDirs -> [Filenames -> Seq(Packets)]]
  <2>1. pc = "write" /\ oscBuffer \in Packets
    BY DEF WritePacket, IInv, TypeOK, AnalyserTypeOK
  <2> QED BY <2>1 DEF WritePacket, IInv, TypeOK, AnalyserTypeOK
<1> DEFINE file == Append(before, oscBuffer)
<1>3. d \in Dirs => Pure(file, d)
  <2> SUFFICES ASSUME d \in Dirs PROVE Pure(file, d)
    OBVIOUS
  <2>1. oscBuffer.session = d
    BY <1>1, <1>2 DEF PureInv, HandOfSession
  <2>2. Pure(before, d)
    BY <1>1 DEF PureInv, PlacesPure, Pure
  <2>3. \A i \in DOMAIN file :
          (i \in DOMAIN before /\ file[i] = before[i]) \/ file[i] = oscBuffer
    BY <1>2
  <2> QED BY <2>1, <2>2, <2>3 DEF Pure
<1>4. \A e \in Dirs, m \in Filenames :
        disk'[e][m] = disk[e][m] \/ (e = d /\ disk'[e][m] = file)
  BY <1>1, <1>2 DEF SessionDirs
<1> HIDE DEF file
<1>5. PlacesPure'
  <2>1. \A e \in Dirs, m \in Filenames : Pure(disk'[e][m], e) /\ Pure(s3'[e][m], e)
    BY <1>2, <1>3, <1>4 DEF PureInv, PlacesPure
  <2> QED BY <2>1 DEF PlacesPure, Pure
<1>6. StartsFollow' /\ OpenFollows'
  <2>1. UNCHANGED <<Upcoming, jamSession>> /\ \A e \in Dirs : OpenSession(e)' => OpenSession(e)
    BY <1>2 DEF Upcoming, OpenSession
  <2> QED BY <2>1, QuietFollows DEF IInv
<1>7. HandOfSession'
  BY <1>2 DEF HandOfSession
<1> QED BY <1>5, <1>6, <1>7 DEF PureInv

LEMMA CrashPure ==
  ASSUME IInv, PureInv, UNCHANGED <<jamPending, jamSession>>,
         NEW kept \in [Channels -> Nat], Crash(kept)
  PROVE  PureInv'
<1>1. /\ UNCHANGED <<samples, s3>>
      /\ pc' = "down" /\ oscDirectoryName' = NoDir
  BY DEF Crash, Die
<1>2. ASSUME NEW d \in Dirs, NEW n \in Filenames
      PROVE  Pure(disk'[d][n], d)
  <2> DEFINE file == disk[d][n]
  <2>0. d \in SessionDirs
    BY DEF SessionDirs
  <2>1. PICK k \in 0 .. Len(file) : disk'[d][n] = SubSeq(file, 1, k)
    BY <2>0, CrashFacts
  <2>2. file \in Seq(Packets) /\ Pure(file, d)
    BY <2>0 DEF IInv, TypeOK, AnalyserTypeOK, PureInv, PlacesPure
  <2>3. /\ DOMAIN SubSeq(file, 1, k) \subseteq DOMAIN file
        /\ \A i \in DOMAIN SubSeq(file, 1, k) : SubSeq(file, 1, k)[i] = file[i]
    BY <2>2
  <2> HIDE DEF file
  <2> QED BY <2>1, <2>2, <2>3 DEF Pure
<1>3. PlacesPure'
  BY <1>1, <1>2 DEF PureInv, PlacesPure, Pure
<1>4. StartsFollow' /\ OpenFollows'
  <2>1. UNCHANGED <<Upcoming, jamSession>> /\ \A e \in Dirs : ~OpenSession(e)'
    BY <1>1, NamesAssumption DEF Upcoming, OpenSession
  <2> QED BY <2>1, QuietFollows DEF IInv
<1>5. HandOfSession'
  BY <1>1 DEF HandOfSession
<1> QED BY <1>3, <1>4, <1>5 DEF PureInv

-----------------------------------------------------------------------------
LEMMA StepPure ==
  ASSUME ~SendsAreDropped
  PROVE  IInv /\ PairInv /\ PureInv /\ [Next]_vars => PureInv'
<1> SUFFICES ASSUME IInv, PairInv, PureInv, [Next]_vars PROVE PureInv'
  OBVIOUS
<1>1. CASE Start
  BY <1>1, LoopPure DEF Start, jamVars
<1>2. CASE Analyse
  BY <1>2, LoopPure, UploadPure, WritePure DEF Analyse, AnalyserStep, jamVars
<1>3. CASE Jamulus \/ OscServerReceive
  BY <1>3, OthersPure
<1>4. CASE Kill
  <2>1. PICK kept \in [Channels -> 0 .. MaxFrames] : Crash(kept)
    BY <1>4 DEF Kill
  <2>2. kept \in [Channels -> Nat] /\ UNCHANGED <<jamPending, jamSession>>
    BY <1>4, BoundsAssumption DEF Kill, jamVars
  <2> QED BY <2>1, <2>2, CrashPure
<1>5. CASE UNCHANGED vars
  <2>1. UNCHANGED <<Upcoming, jamSession, disk, s3, memory>>
    BY <1>5 DEF vars, analyserVars, jamVars, Upcoming
  <2>2. StartsFollow' /\ OpenFollows'
    BY <2>1, QuietFollows DEF IInv, OpenSession, memory
  <2> QED BY <2>1, <2>2 DEF PureInv, HandOfSession, PlacesPure, Pure, memory
<1>6. CASE OrphanStep
  BY <1>6, OrphanPure
<1> QED BY <1>1, <1>2, <1>3, <1>4, <1>5, <1>6 DEF Next

(* While the queue loses nothing, the directory of a session holds packets *)
(* of that session only, through kills, restarts, frames taken for markers *)
(* and audio between sessions (main.cpp:176-203).                          *)
THEOREM SessionsPure ==
  ASSUME ~SendsAreDropped
  PROVE  Spec => []SessionPurity
<1>1. IInv /\ PureInv => SessionPurity
  <2> SUFFICES ASSUME IInv, PureInv, NEW d \in Dirs, NEW n \in Filenames,
                      NEW i \in DOMAIN Recorded(d, n)
               PROVE  Recorded(d, n)[i].session = d
    BY DEF SessionPurity
  <2> DEFINE a == disk[d][n]
             b == s3[d][n]
  <2>1. a \in Seq(Packets) /\ b \in Seq(Packets)
    BY DEF IInv, TypeOK, AnalyserTypeOK, SessionDirs
  <2>2. Pure(a, d) /\ Pure(b, d) /\ Recorded(d, n) = a \o b
    BY DEF PureInv, PlacesPure, Recorded
  <2> HIDE DEF a, b
  <2>3. \/ i \in DOMAIN a /\ (a \o b)[i] = a[i]
        \/ i - Len(a) \in DOMAIN b /\ (a \o b)[i] = b[i - Len(a)]
    BY <2>1, <2>2
  <2> QED BY <2>2, <2>3 DEF Pure
<1>2. IInv /\ PairInv /\ PureInv /\ [Next]_vars => PureInv'
  BY StepPure
<1>3. IInv /\ PairInv /\ [Next]_vars => PairInv'
  BY PairStep
<1> QED BY InitHolds, StepHolds, PairInit, InitPure, <1>1, <1>2, <1>3, PTL DEF Spec

-----------------------------------------------------------------------------
(***************************************************************************)
(* Proof that what oscserver is told about is recorded, while the analyser *)
(* is not killed and no frame can be taken for a start marker: a packet    *)
(* that was written stays in some file, because a session opens no file    *)
(* twice and the upload overwrites none.                                   *)
(***************************************************************************)
NoMisreads == \A shape \in FrameShapes : shape.metaType # startSession

(* Only Jamulus's markers read as markers of a start.                      *)
MarkersReal ==
  \A i \in 1 .. Len(Upcoming) :
    Upcoming[i].metaType = startSession => Upcoming[i] \in StartMsg

RealInv == MarkersReal /\ OnlyRealSessions

Holds(file, p) == \E i \in DOMAIN file : file[i] = p

IsRecorded(p) ==
  \E d \in SessionDirs, n \in Filenames : Holds(disk[d][n], p) \/ Holds(s3[d][n], p)

ForwardInv ==
  \A i \in DOMAIN osc : (pc = "write" /\ osc[i] = oscBuffer) \/ IsRecorded(osc[i])

-----------------------------------------------------------------------------
(* Where nothing is killed no upload outlives the analyser.                *)
NoOrphans == orphans = {}

LEMMA StepNoOrphans ==
  ASSUME MaxCrashes = 0
  PROVE  IInv /\ NoOrphans /\ [Next]_vars => NoOrphans'
<1> SUFFICES ASSUME IInv, NoOrphans, [Next]_vars PROVE NoOrphans'
  OBVIOUS
<1> USE DEF NoOrphans, uploads
<1>1. CASE Start \/ Jamulus \/ OscServerReceive \/ UNCHANGED vars
  BY <1>1 DEF Start, Boot, Jamulus, JamStart, JamEnd, JamMeta, JamFrame, JamChangeClient,
              OscServerReceive, vars, analyserVars
<1>2. ASSUME NEW n \in Filenames, UploadFile(n) PROVE NoOrphans'
  BY <1>2, UploadMoves
<1>3. CASE StartSession \/ EndSession \/ UploadReturns \/ WritePacket \/ FlushMessage
           \/ FlushDone \/ IgnoreMessage \/ AcceptMeta \/ RejectFrame \/ MergeFrame
           \/ CompleteSuperFrame
  BY <1>3 DEF StartSession, EndSession, UploadReturns, WritePacket, FlushMessage, FlushDone,
              IgnoreMessage, AcceptMeta, RejectFrame, MergeFrame, CompleteSuperFrame
<1>4. CASE Kill
  BY <1>4 DEF Kill, IInv, TypeOK
<1>5. CASE OrphanStep
  BY <1>5 DEF OrphanStep
<1> QED BY <1>1, <1>2, <1>3, <1>4, <1>5 DEF Next, Analyse, AnalyserStep

LEMMA InitNoOrphans == Init => NoOrphans
BY DEF Init, AnalyserInit, NoOrphans

-----------------------------------------------------------------------------
(* What is still to be read was so before, or is new and reads as nothing  *)
(* it is not.                                                              *)
LEMMA MarkersStayReal ==
  ASSUME MarkersReal,
         \A i \in 1 .. Len(Upcoming') :
           \/ \E j \in 1 .. Len(Upcoming) : Upcoming'[i] = Upcoming[j]
           \/ Upcoming'[i].metaType # startSession
           \/ Upcoming'[i] \in StartMsg
  PROVE  MarkersReal'
BY DEF MarkersReal

LEMMA ReceivedReal ==
  ASSUME TypeOK, RealInv, samples # << >>, samples' = Tail(samples), UNCHANGED jamPending
  PROVE  /\ MarkersReal'
         /\ message.metaType = startSession => message \in StartMsg
<1>1. /\ Upcoming \in Seq(Messages) /\ Upcoming # << >> /\ Upcoming' = Tail(Upcoming)
      /\ Upcoming[1] = message
  BY UpcomingType, ReceiveUpcoming
<1>2. \A i \in 1 .. Len(Upcoming') :
        i + 1 \in 1 .. Len(Upcoming) /\ Upcoming'[i] = Upcoming[i + 1]
  BY <1>1
<1>3. 1 \in 1 .. Len(Upcoming)
  BY <1>1
<1> QED BY <1>1, <1>2, <1>3, MarkersStayReal DEF RealInv, MarkersReal

(* A message is sent, or dropped.                                          *)
LEMMA SentReal ==
  ASSUME TypeOK, RealInv, jamPending = Nothing, UNCHANGED jamPending,
         NEW m \in Messages, Send(m), m.metaType = startSession => m \in StartMsg
  PROVE  MarkersReal'
<1>1. Upcoming \in Seq(Messages) /\ Upcoming' \in {Upcoming, Append(Upcoming, m)}
  BY UpcomingType DEF Send, Upcoming
<1>2. \A i \in 1 .. Len(Upcoming') :
        (i \in 1 .. Len(Upcoming) /\ Upcoming'[i] = Upcoming[i]) \/ Upcoming'[i] = m
  BY <1>1
<1> QED BY <1>2, MarkersStayReal DEF RealInv

LEMMA AnnouncedReal ==
  ASSUME NoMisreads, IInv, RealInv,
         NEW c \in Channels, NEW shape \in FrameShapes, JamMeta(c, shape)
  PROVE  MarkersReal'
<1> DEFINE id == [session |-> jamSession, channelId |-> c, frameSequence |-> frameSequence]
           m == [size |-> AudioMetaBytes, metaType |-> audioFrame, channelId |-> c,
                 frameSequence |-> frameSequence, filename |-> <<c, client[c]>>,
                 session |-> jamSession]
           f == [size |-> shape.size, metaType |-> shape.metaType,
                 sessionDir |-> shape.sessionDir, audio |-> id]
<1>1. m \in MetaMsg
  BY DEF MetaMsg, Filenames, IInv, TypeOK
<1>2. f \in FrameMsg
  BY ShapesAssumption DEF FrameMsg, FrameIds, IInv, TypeOK
<1>3. /\ m \in Messages /\ f \in Messages /\ f # Nothing
      /\ m.metaType # startSession /\ f.metaType # startSession
  BY <1>1, <1>2, NothingAssumption DEF Messages, NoMisreads, startSession, audioFrame
<1>4. jamPending = Nothing /\ jamPending' = f /\ Send(m)
  BY DEF JamMeta
<1> HIDE DEF m, f
<1>5. Upcoming \in Seq(Messages)
      /\ Upcoming' \in {Append(Upcoming, f), Append(Append(Upcoming, m), f)}
  BY <1>3, <1>4, UpcomingType DEF IInv, Send, Upcoming
<1>6. \A i \in 1 .. Len(Upcoming') :
        \/ i \in 1 .. Len(Upcoming) /\ Upcoming'[i] = Upcoming[i]
        \/ Upcoming'[i] \in {m, f}
  BY <1>3, <1>5, SMTT(30)
<1> QED BY <1>3, <1>6, MarkersStayReal DEF RealInv

LEMMA QueueReal ==
  ASSUME NoMisreads, IInv, RealInv, Jamulus \/ OscServerReceive
  PROVE  RealInv'
<1>0. TypeOK
  BY DEF IInv
<1>1. OnlyRealSessions'
  BY DEF RealInv, OnlyRealSessions, Jamulus, JamStart, JamEnd, JamMeta, JamFrame,
         JamChangeClient, OscServerReceive, memory, analyserVars
<1>2. ASSUME NEW d \in Dirs, JamStart(d) PROVE MarkersReal'
  <2>1. [size |-> StartBytes, metaType |-> startSession, sessionDir |-> d] \in StartMsg
    BY DEF StartMsg
  <2> QED BY <1>0, <1>2, <2>1, SentReal DEF JamStart, Messages
<1>3. CASE JamEnd
  <2>1. [size |-> EndBytes, metaType |-> endSession] \in EndMsg
    BY DEF EndMsg
  <2>2. MarkersReal'
    BY <1>0, <1>3, <2>1, SentReal DEF JamEnd, Messages, startSession, endSession
  <2> QED BY <1>1, <2>2 DEF RealInv
<1>4. CASE JamFrame
  <2>1. /\ samples \in Seq(Messages)
        /\ jamPending \in Messages /\ jamPending # Nothing /\ jamPending' = Nothing
        /\ samples' \in {samples, Append(samples, jamPending)}
    BY <1>0, <1>4, UpcomingType DEF JamFrame, Send, TypeOK, Messages
  <2>2. Upcoming = Append(samples, jamPending) /\ Upcoming' \in {samples, Upcoming}
    BY <2>1 DEF Upcoming
  <2>3. \A i \in 1 .. Len(Upcoming') :
          i \in 1 .. Len(Upcoming) /\ Upcoming'[i] = Upcoming[i]
    BY <2>1, <2>2
  <2>4. MarkersReal'
    BY <2>3, MarkersStayReal DEF RealInv
  <2> QED BY <1>1, <2>4 DEF RealInv
<1>5. CASE OscServerReceive \/ \E c \in Channels, k \in Clients : JamChangeClient(c, k)
  <2>1. Upcoming' = Upcoming
    BY <1>5 DEF OscServerReceive, JamChangeClient, Upcoming, jamVars, analyserVars
  <2> QED BY <1>1, <2>1 DEF RealInv, MarkersReal
<1> QED BY <1>1, <1>2, <1>3, <1>4, <1>5, AnnouncedReal DEF Jamulus, RealInv

(* What the analyser reads opens a session of Jamulus or none.             *)
LEMMA LoopReal ==
  ASSUME IInv, RealInv, UNCHANGED jamPending, AnalyserStep \/ Boot
  PROVE  RealInv' /\ (StartSession => pc' = "meta" /\ oscDirectoryName' \in Dirs)
<1>0. TypeOK
  BY DEF IInv
<1>1. CASE StartSession
  <2>1. samples # << >> /\ samples' = Tail(samples) /\ message.metaType = startSession
        /\ pc = "meta"
    BY <1>1 DEF StartSession, Receive
  <2>2. MarkersReal' /\ message \in StartMsg
    BY <1>0, <2>1, ReceivedReal
  <2>3. message.sessionDir \in Dirs /\ message.sessionDir \notin UnmakeableDirs
    BY <2>2, NamesAssumption DEF StartMsg
  <2> QED BY <1>1, <2>1, <2>2, <2>3 DEF StartSession, RealInv, OnlyRealSessions
<1>2. CASE FlushMessage \/ IgnoreMessage \/ EndSession \/ AcceptMeta \/ RejectFrame
           \/ MergeFrame \/ CompleteSuperFrame
  <2>1. /\ samples # << >> /\ samples' = Tail(samples)
        /\ oscDirectoryName' = oscDirectoryName
    BY <1>2 DEF FlushMessage, IgnoreMessage, EndSession, AcceptMeta, RejectFrame,
                MergeFrame, CompleteSuperFrame, Receive, memory
  <2>2. MarkersReal' /\ OnlyRealSessions'
    BY <1>0, <2>1, ReceivedReal DEF RealInv, OnlyRealSessions
  <2>3. ~StartSession
    BY <1>2 DEF FlushMessage, IgnoreMessage, EndSession, AcceptMeta, RejectFrame,
                MergeFrame, CompleteSuperFrame, Receive, StartSession, Ignored,
                startSession, endSession, audioFrame, sessionOpen
  <2> QED BY <2>2, <2>3 DEF RealInv
<1>3. CASE FlushDone \/ UploadReturns \/ WritePacket \/ Boot
           \/ \E n \in Filenames : UploadFile(n)
  <2>1. CASE \E n \in Filenames : UploadFile(n)
    <3>1. UNCHANGED <<samples, memory>> /\ pc = "upload"
      BY <2>1, UploadMoves
    <3> QED BY <3>1 DEF memory, Upcoming, RealInv, MarkersReal, OnlyRealSessions,
                        StartSession, Receive
  <2>2. CASE FlushDone \/ UploadReturns \/ WritePacket \/ Boot
    <3>1. Upcoming' = Upcoming /\ oscDirectoryName' \in {NoDir, oscDirectoryName}
      BY <2>2 DEF FlushDone, UploadReturns, WritePacket, Boot, Upcoming
    <3>2. ~StartSession
      BY <2>2 DEF FlushDone, UploadReturns, WritePacket, Boot, StartSession, Receive
    <3> QED BY <3>1, <3>2 DEF RealInv, MarkersReal, OnlyRealSessions
  <2> QED BY <1>3, <2>1, <2>2
<1> QED BY <1>1, <1>2, <1>3 DEF AnalyserStep

-----------------------------------------------------------------------------
(* A packet that is in a file stays in one.                                *)
LEMMA UploadKeeps ==
  ASSUME IInv, RecInv, RealInv, NEW n \in Filenames, UploadFile(n),
         NEW p, IsRecorded(p)
  PROVE  IsRecorded(p)'
<1> DEFINE d == oscDirectoryName
<1>1. /\ d \in Dirs
      /\ disk \in [SessionDirs -> [Filenames -> Seq(Packets)]]
      /\ s3 \in [SessionDirs -> [Filenames -> Seq(Packets)]]
      /\ disk[d][n] # << >>
      /\ s3' = [s3 EXCEPT ![d][n] = disk[d][n]]
      /\ disk' = [disk EXCEPT ![d][n] = << >>]
  BY UploadMoves DEF IInv, SessionOpenInv, sessionOpen, TypeOK, AnalyserTypeOK, RealInv,
                     OnlyRealSessions
<1>2. s3[d][n] = << >>
  BY <1>1 DEF RecInv, FilesInv, FilesInOnePlace
<1> HIDE DEF d
<1>3. PICK e \in SessionDirs, m \in Filenames :
        Holds(disk[e][m], p) \/ Holds(s3[e][m], p)
  BY DEF IsRecorded
<1>4. CASE e = d /\ m = n
  <2>1. s3'[e][m] = disk[e][m]
    BY <1>1, <1>4 DEF SessionDirs
  <2>2. Holds(disk[e][m], p)
    BY <1>2, <1>3, <1>4 DEF Holds
  <2>3. Holds(s3[e][m], p)'
    BY <2>1, <2>2 DEF Holds
  <2> QED BY <2>3 DEF IsRecorded
<1>5. CASE ~(e = d /\ m = n)
  <2>1. s3'[e][m] = s3[e][m] /\ disk'[e][m] = disk[e][m]
    BY <1>1, <1>5
  <2>2. Holds(disk[e][m], p)' \/ Holds(s3[e][m], p)'
    BY <1>3, <2>1 DEF Holds
  <2> QED BY <2>2 DEF IsRecorded
<1> QED BY <1>4, <1>5

LEMMA WriteKeeps ==
  ASSUME IInv, RecInv, RealInv, WritePacket,
         NEW p, p = oscBuffer \/ IsRecorded(p)
  PROVE  IsRecorded(p)'
<1>1. /\ oscDirectoryName \in Dirs /\ oscBuffer \in Packets /\ s3' = s3
      /\ disk \in [SessionDirs -> [Filenames -> Seq(Packets)]]
  BY DEF WritePacket, IInv, SessionOpenInv, sessionOpen, TypeOK, AnalyserTypeOK,
         RealInv, OnlyRealSessions
<1>2. PICK d \in Dirs, q \in Packets : d = oscDirectoryName /\ q = oscBuffer
  BY <1>1
<1>3. PICK n \in Filenames : disk' = [disk EXCEPT ![d][n] = Append(@, q)]
  BY <1>2, WriteFacts
<1>4. PICK before \in Seq(Packets) : before = disk[d][n]
  BY <1>1 DEF SessionDirs
<1>5. disk'[d][n] = Append(before, q)
  BY <1>1, <1>3, <1>4 DEF SessionDirs
<1>6. \A e \in SessionDirs, m \in Filenames :
        disk'[e][m] = disk[e][m] \/ (e = d /\ m = n)
  BY <1>1, <1>3
<1>7. /\ DOMAIN Append(before, q) = DOMAIN before \cup {Len(before) + 1}
      /\ Append(before, q)[Len(before) + 1] = q
      /\ \A i \in DOMAIN before : Append(before, q)[i] = before[i]
  OBVIOUS
<1>8. CASE p = oscBuffer
  <2>1. Holds(disk'[d][n], p)
    BY <1>2, <1>5, <1>7, <1>8 DEF Holds
  <2> QED BY <2>1 DEF IsRecorded, Holds, SessionDirs
<1>9. CASE IsRecorded(p)
  <2>1. PICK e \in SessionDirs, m \in Filenames :
          Holds(disk[e][m], p) \/ Holds(s3[e][m], p)
    BY <1>9 DEF IsRecorded
  <2>2. Holds(before, p) => Holds(Append(before, q), p)
    BY <1>7 DEF Holds
  <2>3. Holds(disk'[e][m], p) \/ Holds(s3'[e][m], p)
    BY <1>1, <1>4, <1>5, <1>6, <2>1, <2>2
  <2> QED BY <2>3 DEF IsRecorded, Holds
<1> QED BY <1>8, <1>9

(* The files are not touched.                                              *)
LEMMA NothingForgotten ==
  ASSUME UNCHANGED <<disk, s3>>, NEW p, IsRecorded(p)
  PROVE  IsRecorded(p)'
BY DEF IsRecorded, Holds

LEMMA StepForwards ==
  ASSUME NoMisreads, MaxCrashes = 0
  PROVE  IInv /\ RecInv /\ NoOrphans /\ RealInv /\ ForwardInv /\ [Next]_vars =>
           RealInv' /\ ForwardInv'
<1> SUFFICES ASSUME IInv, RecInv, NoOrphans, RealInv, ForwardInv, [Next]_vars
             PROVE  RealInv' /\ ForwardInv'
  OBVIOUS
<1>0. osc \in Seq(Packets)
  BY DEF IInv, TypeOK, AnalyserTypeOK
<1>1. ASSUME UNCHANGED <<osc, disk, s3, oscBuffer>>, pc' = pc \/ pc # "write"
      PROVE  ForwardInv'
  <2>1. \A p : IsRecorded(p) => IsRecorded(p)'
    BY <1>1, NothingForgotten
  <2> QED BY <1>1, <2>1 DEF ForwardInv
<1>2. CASE Start
  <2>1. RealInv'
    BY <1>2, LoopReal DEF Start, jamVars
  <2>2. ForwardInv'
    BY <1>1, <1>2 DEF Start, Boot
  <2> QED BY <2>1, <2>2
<1>3. CASE Analyse
  <2>1. RealInv' /\ (StartSession => pc' = "meta" /\ oscDirectoryName' \in Dirs)
    BY <1>3, LoopReal DEF Analyse, jamVars
  <2>2. CASE FlushMessage \/ FlushDone \/ EndSession \/ UploadReturns \/ IgnoreMessage
             \/ AcceptMeta \/ RejectFrame \/ MergeFrame
    BY <1>1, <2>1, <2>2
    DEF FlushMessage, FlushDone, EndSession, UploadReturns, IgnoreMessage, AcceptMeta,
        RejectFrame, MergeFrame, Receive, memory
  <2>3. CASE StartSession
    <3>1. UNCHANGED <<osc, disk, s3, oscBuffer>> /\ pc # "write"
      BY <2>1, <2>3 DEF StartSession, Receive, Die
    <3> QED BY <1>1, <2>1, <3>1
  <2>4. CASE \E n \in Filenames : UploadFile(n)
    <3>1. UNCHANGED <<osc, oscBuffer>> /\ pc = "upload"
      BY <2>4, UploadMoves DEF memory
    <3>2. \A p : IsRecorded(p) => IsRecorded(p)'
      BY <2>4, UploadKeeps
    <3> QED BY <2>1, <3>1, <3>2 DEF ForwardInv
  <2>5. CASE WritePacket
    <3>1. UNCHANGED <<osc, oscBuffer>>
      BY <2>5 DEF WritePacket
    <3>2. \A p : p = oscBuffer \/ IsRecorded(p) => IsRecorded(p)'
      BY <2>5, WriteKeeps
    <3> QED BY <2>1, <3>1, <3>2 DEF ForwardInv
  <2>6. CASE CompleteSuperFrame
    <3>1. /\ UNCHANGED <<disk, s3>> /\ pc = "frame" /\ pc' = "write"
          /\ osc' \in {osc, Append(osc, oscBuffer')}
          /\ oscBuffer' \in Packets
      <4>1. oscBuffer' \in Packets
        BY <1>3, <2>6, StepHolds DEF IInv, TypeOK, AnalyserTypeOK, CompleteSuperFrame, Next
      <4> QED BY <2>6, <4>1 DEF CompleteSuperFrame, Receive
    <3>2. \A i \in DOMAIN osc' :
            (i \in DOMAIN osc /\ osc'[i] = osc[i]) \/ osc'[i] = oscBuffer'
      BY <1>0, <3>1
    <3>3. \A i \in DOMAIN osc : IsRecorded(osc[i])
      BY <3>1 DEF ForwardInv
    <3>4. \A p : IsRecorded(p) => IsRecorded(p)'
      BY <3>1, NothingForgotten
    <3> QED BY <2>1, <3>1, <3>2, <3>3, <3>4 DEF ForwardInv
  <2> QED BY <1>3, <2>2, <2>3, <2>4, <2>5, <2>6 DEF Analyse, AnalyserStep
<1>4. CASE Jamulus
  <2>1. UNCHANGED <<osc, disk, s3, oscBuffer, pc>>
    BY <1>4 DEF Jamulus, JamStart, JamEnd, JamMeta, JamFrame, JamChangeClient,
                analyserVars, memory
  <2> QED BY <1>1, <1>4, <2>1, QueueReal
<1>5. CASE OscServerReceive
  <2>1. /\ osc # << >> /\ osc' = Tail(osc)
        /\ UNCHANGED <<disk, s3, oscBuffer, pc>>
    BY <1>5 DEF OscServerReceive, memory
  <2>2. \A i \in DOMAIN osc' : i + 1 \in DOMAIN osc /\ osc'[i] = osc[i + 1]
    BY <1>0, <2>1
  <2>3. \A p : IsRecorded(p) => IsRecorded(p)'
    BY <2>1, NothingForgotten
  <2> QED BY <1>5, <2>1, <2>2, <2>3, QueueReal DEF ForwardInv
<1>6. CASE Kill
  BY <1>6 DEF Kill, IInv, TypeOK
<1>7. CASE UNCHANGED vars
  <2>1. UNCHANGED <<osc, disk, s3, oscBuffer, pc, Upcoming, oscDirectoryName>>
    BY <1>7 DEF vars, analyserVars, memory, jamVars, Upcoming
  <2> QED BY <1>1, <2>1 DEF RealInv, MarkersReal, OnlyRealSessions
<1>8. CASE OrphanStep
  BY <1>8 DEF OrphanStep, NoOrphans
<1> QED BY <1>2, <1>3, <1>4, <1>5, <1>6, <1>7, <1>8 DEF Next

LEMMA InitForwards == Init => RealInv /\ ForwardInv
<1> SUFFICES ASSUME Init PROVE RealInv /\ ForwardInv
  OBVIOUS
<1>1. Upcoming = << >> /\ osc = << >> /\ oscDirectoryName = NoDir
  BY DEF Init, AnalyserInit, Upcoming
<1> QED BY <1>1 DEF RealInv, MarkersReal, OnlyRealSessions, ForwardInv

(* Without kills, and while no frame reads as a start marker, every packet *)
(* that waits for oscserver is in a file, or about to be written, whatever *)
(* the queues lose (main.cpp:259 and 271).                                 *)
THEOREM ForwardedRecorded ==
  ASSUME NoMisreads, MaxCrashes = 0
  PROVE  Spec => []ForwardedIsRecorded
<1>1. IInv /\ ForwardInv => ForwardedIsRecorded
  <2> SUFFICES ASSUME IInv, ForwardInv, NEW i \in DOMAIN osc,
                      ~(pc = "write" /\ osc[i] = oscBuffer)
               PROVE  \E d \in SessionDirs, n \in Filenames :
                        \E j \in DOMAIN Recorded(d, n) : Recorded(d, n)[j] = osc[i]
    BY DEF ForwardedIsRecorded
  <2>1. PICK d \in SessionDirs, n \in Filenames :
          Holds(disk[d][n], osc[i]) \/ Holds(s3[d][n], osc[i])
    BY DEF ForwardInv, IsRecorded
  <2> DEFINE a == disk[d][n]
             b == s3[d][n]
  <2>2. a \in Seq(Packets) /\ b \in Seq(Packets) /\ Recorded(d, n) = a \o b
    BY DEF IInv, TypeOK, AnalyserTypeOK, Recorded
  <2>3. Holds(a, osc[i]) \/ Holds(b, osc[i])
    BY <2>1
  <2> HIDE DEF a, b
  <2>4. \A k \in DOMAIN a : k \in DOMAIN (a \o b) /\ (a \o b)[k] = a[k]
    BY <2>2
  <2>5. \A k \in DOMAIN b :
          Len(a) + k \in DOMAIN (a \o b) /\ (a \o b)[Len(a) + k] = b[k]
    BY <2>2
  <2>6. \E j \in DOMAIN (a \o b) : (a \o b)[j] = osc[i]
    BY <2>3, <2>4, <2>5 DEF Holds
  <2> QED BY <2>2, <2>6
<1>2. IInv /\ RecInv /\ NoOrphans /\ RealInv /\ ForwardInv /\ [Next]_vars =>
        RealInv' /\ ForwardInv'
  BY StepForwards
<1>3. IInv /\ NoOrphans /\ [Next]_vars => NoOrphans'
  BY StepNoOrphans
<1> QED BY InitHolds, StepHolds, InitRecords, StepRecords, InitNoOrphans, InitForwards,
           <1>1, <1>2, <1>3, PTL DEF Spec

-----------------------------------------------------------------------------
(***************************************************************************)
(* Proof that nothing is lost while Jamulus and the queue are orderly.     *)
(* What keeps the count right is that the loop never drops a message of    *)
(* audio: an announcement is only read while a session is open, because    *)
(* the marker that opens it comes before it on the queue and no end marker *)
(* lies between, and the message read as a frame is one, of the expected   *)
(* size.                                                                   *)
(***************************************************************************)
FinitelyMany ==
  /\ IsFiniteSet(Channels) /\ IsFiniteSet(Clients)
  /\ IsFiniteSet(Dirs) /\ IsFiniteSet(GarbageDirs)

Orderly ==
  /\ ~SendsAreDropped
  /\ ~AudioOutsideSession
  /\ AnalyserFirst
  /\ MaxCrashes = 0
  /\ \A shape \in FrameShapes : FrameUsable(shape)

(* Nothing is sent to an analyser that does not listen.                    *)
Listening ==
  pc \in {"down", "flush"} => samples = << >> /\ jamSession = NoDir /\ jamPending = Nothing

(* A frame is of the expected size and comes right after an announcement.  *)
FramesExpected ==
  \A i \in Nat : IsFrame(i) =>
    /\ FrameUsable(Upcoming[i])
    /\ i = 1 => pc = "frame"
    /\ i # 1 => IsMeta(i - 1)

sessionRuns == sessionOpen /\ pc # "upload"

(* When all up to place i is read, a session is open.                      *)
InSession(i) ==
  \/ \E j \in Nat : j <= i /\ IsStart(j) /\ NoEnd(j, i)
  \/ NoEnd(0, i) /\ sessionRuns

AudioInSession ==
  /\ \A i \in Nat : IsMeta(i) => InSession(i)
  /\ jamSession # NoDir => InSession(Len(Upcoming))

QueueInv == Listening /\ FramesExpected /\ AudioInSession /\ OnlyRealSessions

(* The property, with the sums of functions it is about.                   *)
AnnouncedIn(s) == {i \in DOMAIN s : s[i].metaType = audioFrame /\ s[i].size = AudioMetaBytes}

InHand(place) == IF pc = place THEN 1 ELSE 0

Lengths == [d \in SessionDirs |-> [n \in Filenames |-> Len(Recorded(d, n))]]

Total(lengths) == SumFunction([d \in SessionDirs |-> SumFunction(lengths[d])])

Conserved ==
  frameSequence =
    Cardinality(AnnouncedIn(samples)) + InHand("frame") + SumFunction(superFrameOffsets)
    + FramesPerSuperframe * (Total(Lengths) + InHand("write"))

LossInv == QueueInv /\ Conserved

-----------------------------------------------------------------------------
LEMMA FinitePlaces ==
  ASSUME FinitelyMany
  PROVE  IsFiniteSet(SessionDirs) /\ IsFiniteSet(Filenames)
BY FS_Union, FS_Product DEF FinitelyMany, SessionDirs, Filenames

LEMMA LengthsType ==
  ASSUME TypeOK
  PROVE  Lengths \in [SessionDirs -> [Filenames -> Nat]]
<1> SUFFICES ASSUME NEW d \in SessionDirs, NEW n \in Filenames
             PROVE  Len(Recorded(d, n)) \in Nat
  BY DEF Lengths
<1>1. disk[d][n] \in Seq(Packets) /\ s3[d][n] \in Seq(Packets)
  BY DEF TypeOK, AnalyserTypeOK
<1>2. Recorded(d, n) \in Seq(Packets)
  BY <1>1 DEF Recorded
<1> QED BY <1>2

(* The sums of the property are sums of functions.                         *)
LEMMA SumOfLengths ==
  ASSUME FinitelyMany, TypeOK, NEW d \in SessionDirs
  PROVE  MapThenSumSet(LAMBDA n : Len(Recorded(d, n)), Filenames) = SumFunction(Lengths[d])
<1> DEFINE P(i) == i = [s \in SUBSET Filenames |->
                   IF s = {} THEN 0
                   ELSE LET x == CHOOSE x \in s : TRUE IN Len(Recorded(d, x)) + i[s \ {x}]]
           c == CHOOSE i : P(i)
           f == Lengths[d]
<1>1. MapThenSumSet(LAMBDA n : Len(Recorded(d, n)), Filenames) = c[Filenames]
  BY DEF MapThenSumSet, MapThenFoldSet
<1>2. IsFiniteSet(Filenames) /\ f \in [Filenames -> Nat]
  BY FinitePlaces, LengthsType
<1>3. \A n \in Filenames : f[n] = Len(Recorded(d, n))
  BY DEF Lengths
<1>4. \A s \in SUBSET Filenames : s # {} => (CHOOSE x \in s : TRUE) \in Filenames
  OBVIOUS
<1>5. \A i : P(i) <=> Sums(i, f, Filenames)
  <2> HIDE DEF f
  <2> QED BY <1>3, <1>4 DEF Sums, AnyOf
<1> HIDE DEF P, f
<1>6. \E i : Sums(i, f, Filenames)
  BY <1>2, SumsExist
<1>7. Sums(c, f, Filenames)
  BY <1>5, <1>6
<1> HIDE DEF c
<1>8. c[Filenames] = SumFunction(f)
  BY <1>2, <1>7, SumFunctionIs
<1> QED BY <1>1, <1>8 DEF f

LEMMA SumOfTotals ==
  ASSUME FinitelyMany, TypeOK
  PROVE  MapThenSumSet(LAMBDA d : MapThenSumSet(LAMBDA n : Len(Recorded(d, n)), Filenames),
                       SessionDirs) = Total(Lengths)
<1> DEFINE packetsIn(d) == MapThenSumSet(LAMBDA n : Len(Recorded(d, n)), Filenames)
           P(i) == i = [s \in SUBSET SessionDirs |->
                   IF s = {} THEN 0
                   ELSE LET x == CHOOSE x \in s : TRUE IN packetsIn(x) + i[s \ {x}]]
           c == CHOOSE i : P(i)
           f == [d \in SessionDirs |-> SumFunction(Lengths[d])]
<1>1. MapThenSumSet(packetsIn, SessionDirs) = c[SessionDirs]
  BY DEF MapThenSumSet, MapThenFoldSet
<1>2. IsFiniteSet(SessionDirs) /\ f \in [SessionDirs -> Nat]
  <2>1. \A d \in SessionDirs : SumFunction(Lengths[d]) \in Nat
    <3> TAKE d \in SessionDirs
    <3>1. Lengths[d] \in [Filenames -> Nat] /\ IsFiniteSet(Filenames)
      BY FinitePlaces, LengthsType
    <3> QED BY <3>1, SumType
  <2> QED BY <2>1, FinitePlaces
<1>3. \A d \in SessionDirs : f[d] = packetsIn(d)
  BY SumOfLengths
<1>4. \A s \in SUBSET SessionDirs : s # {} => (CHOOSE x \in s : TRUE) \in SessionDirs
  OBVIOUS
<1>5. \A i : P(i) <=> Sums(i, f, SessionDirs)
  <2> HIDE DEF f, packetsIn
  <2> QED BY <1>3, <1>4 DEF Sums, AnyOf
<1> HIDE DEF P, f
<1>6. \E i : Sums(i, f, SessionDirs)
  BY <1>2, SumsExist
<1>7. Sums(c, f, SessionDirs)
  BY <1>5, <1>6
<1> HIDE DEF c
<1>8. c[SessionDirs] = SumFunction(f)
  BY <1>2, <1>7, SumFunctionIs
<1> QED BY <1>1, <1>8 DEF f, Total

LEMMA LossIsConserved ==
  ASSUME FinitelyMany, TypeOK
  PROVE  NothingLost <=> Conserved
BY SumOfTotals DEF NothingLost, Conserved, AnnouncedIn, InHand

-----------------------------------------------------------------------------
(* The announcements in a queue are counted by their place.                *)
LEMMA AnnouncedIs ==
  ASSUME NEW s \in Seq(Messages)
  PROVE  /\ AnnouncedIn(s) = {i \in 1 .. Len(s) : s[i] \in MetaMsg}
         /\ IsFiniteSet(AnnouncedIn(s)) /\ Cardinality(AnnouncedIn(s)) \in Nat
<1>1. \A m \in Messages :
        m.metaType = audioFrame /\ m.size = AudioMetaBytes <=> m \in MetaMsg
  BY MessageKinds DEF MetaMsg
<1>2. \A i \in DOMAIN s : s[i] \in Messages
  OBVIOUS
<1>3. DOMAIN s = 1 .. Len(s) /\ Len(s) \in Nat
  OBVIOUS
<1>4. AnnouncedIn(s) = {i \in 1 .. Len(s) : s[i] \in MetaMsg}
  BY <1>1, <1>2, <1>3 DEF AnnouncedIn
<1>5. IsFiniteSet(1 .. Len(s))
  BY <1>3, FS_Interval
<1>6. IsFiniteSet(AnnouncedIn(s))
  BY <1>4, <1>5, FS_Subset
<1> QED BY <1>4, <1>6, FS_CardinalityType

LEMMA AnnouncedInTail ==
  ASSUME NEW s \in Seq(Messages), s # << >>
  PROVE  Cardinality(AnnouncedIn(s)) =
           Cardinality(AnnouncedIn(Tail(s))) + IF Head(s) \in MetaMsg THEN 1 ELSE 0
<1> DEFINE t == Tail(s)
           A == AnnouncedIn(s)
           B == AnnouncedIn(t)
           f == [i \in B |-> i + 1]
<1>1. /\ t \in Seq(Messages) /\ Len(s) \in Nat \ {0} /\ Len(t) = Len(s) - 1
      /\ \A i \in 1 .. Len(t) : i + 1 \in 1 .. Len(s) /\ t[i] = s[i + 1]
      /\ Head(s) = s[1]
  OBVIOUS
<1>2. /\ A = {i \in 1 .. Len(s) : s[i] \in MetaMsg}
      /\ B = {i \in 1 .. Len(t) : t[i] \in MetaMsg}
      /\ IsFiniteSet(A) /\ IsFiniteSet(B)
      /\ Cardinality(A) \in Nat /\ Cardinality(B) \in Nat
  BY <1>1, AnnouncedIs
<1> HIDE DEF t, A, B
<1>3. f \in Bijection(B, A \ {1})
  <2>1. f \in [B -> A \ {1}] /\ \A i, j \in B : f[i] = f[j] => i = j
    <3>1. \A i \in B : i \in Nat /\ i + 1 \in A \ {1}
      BY <1>1, <1>2
    <3> QED BY <3>1
  <2>2. \A j \in A \ {1} : \E i \in B : f[i] = j
    <3> TAKE j \in A \ {1}
    <3>1. j \in 1 .. Len(s) /\ j # 1 /\ s[j] \in MetaMsg
      BY <1>2
    <3>2. j - 1 \in 1 .. Len(t) /\ (j - 1) + 1 = j
      BY <1>1, <3>1
    <3>3. j - 1 \in B
      BY <1>1, <1>2, <3>1, <3>2
    <3> QED BY <3>2, <3>3
  <2> QED BY <2>1, <2>2, Fun_IsBij
<1>4. Cardinality(A \ {1}) = Cardinality(B)
  BY <1>2, <1>3, FS_Bijection DEF ExistsBijection
<1>5. 1 \in A <=> Head(s) \in MetaMsg
  BY <1>1, <1>2
<1>6. Cardinality(A \ {1}) = IF 1 \in A THEN Cardinality(A) - 1 ELSE Cardinality(A)
  BY <1>2, FS_RemoveElement
<1>7. Cardinality(A) = Cardinality(B) + IF Head(s) \in MetaMsg THEN 1 ELSE 0
  BY <1>2, <1>4, <1>5, <1>6
<1> QED BY <1>7 DEF A, B, t

LEMMA AnnouncedInAppend ==
  ASSUME NEW s \in Seq(Messages), NEW m \in Messages
  PROVE  Cardinality(AnnouncedIn(Append(s, m))) =
           Cardinality(AnnouncedIn(s)) + IF m \in MetaMsg THEN 1 ELSE 0
<1> DEFINE t == Append(s, m)
           A == AnnouncedIn(s)
           B == AnnouncedIn(t)
<1>1. /\ t \in Seq(Messages) /\ Len(s) \in Nat /\ Len(t) = Len(s) + 1
      /\ \A i \in 1 .. Len(s) : t[i] = s[i]
      /\ t[Len(s) + 1] = m
  OBVIOUS
<1>2. /\ A = {i \in 1 .. Len(s) : s[i] \in MetaMsg}
      /\ B = {i \in 1 .. Len(t) : t[i] \in MetaMsg}
      /\ IsFiniteSet(A) /\ Cardinality(A) \in Nat
  BY <1>1, AnnouncedIs
<1> HIDE DEF t, A, B
<1>3. B = IF m \in MetaMsg THEN A \cup {Len(s) + 1} ELSE A
  <2>1. 1 .. Len(t) = (1 .. Len(s)) \cup {Len(s) + 1} /\ Len(s) + 1 \notin 1 .. Len(s)
    BY <1>1
  <2> QED BY <1>1, <1>2, <2>1
<1>4. Len(s) + 1 \notin A
  BY <1>1, <1>2
<1>5. Cardinality(A \cup {Len(s) + 1}) = Cardinality(A) + 1
  BY <1>2, <1>4, FS_AddElement
<1>6. Cardinality(B) = Cardinality(A) + IF m \in MetaMsg THEN 1 ELSE 0
  <2>1. CASE m \in MetaMsg
    BY <1>2, <1>3, <1>5, <2>1
  <2>2. CASE m \notin MetaMsg
    <3>1. B = A
      BY <1>3, <2>2
    <3>2. Cardinality(B) = Cardinality(A) /\ Cardinality(A) \in Nat
      BY <1>2, <3>1
    <3>3. Cardinality(B) = Cardinality(A) + 0
      BY <3>2
    <3> QED BY <2>2, <3>3
  <2> QED BY <2>1, <2>2
<1> QED BY <1>6 DEF A, B, t

-----------------------------------------------------------------------------
(* The message that is read next.                                          *)
LEMMA NextMessage ==
  ASSUME IInv, PairInv, QueueInv, samples # << >>
  PROVE  /\ message \in Messages
         /\ message \in MetaMsg => sessionRuns
         /\ message \in FrameMsg <=> pc = "frame"
         /\ message \in FrameMsg => FrameUsable(message)
         /\ pc \notin {"down", "flush"}
<1>1. Upcoming \in Seq(Messages) /\ Upcoming # << >> /\ Upcoming[1] = message
  <2>1. samples \in Seq(Messages) /\ Upcoming \in Seq(Messages)
    BY UpcomingType DEF IInv
  <2>2. \A m : Append(samples, m) # << >> /\ Append(samples, m)[1] = samples[1]
    BY <2>1, SMTT(30)
  <2> QED BY <2>1, <2>2 DEF Upcoming, message
<1>2. 1 \in 1 .. Len(Upcoming) /\ message \in Messages
  BY <1>1
<1>3. ASSUME message \in MetaMsg PROVE sessionRuns
  <2>1. IsMeta(1)
    BY <1>1, <1>2, <1>3 DEF IsMeta
  <2>2. InSession(1)
    BY <2>1 DEF QueueInv, AudioInSession
  <2>3. \A j \in Nat : j <= 1 /\ IsStart(j) => message \in StartMsg
    <3> TAKE j \in Nat
    <3> HAVE j <= 1 /\ IsStart(j)
    <3>1. j = 1
      BY DEF IsStart
    <3> QED BY <1>1, <3>1 DEF IsStart
  <2> QED BY <1>3, <2>2, <2>3, NotMeta DEF InSession
<1>4. ASSUME message \in FrameMsg PROVE pc = "frame" /\ FrameUsable(message)
  <2>1. IsFrame(1)
    BY <1>1, <1>2, <1>4 DEF IsFrame
  <2> QED BY <1>1, <2>1 DEF QueueInv, FramesExpected
<1>5. ASSUME pc = "frame" PROVE message \in FrameMsg
  BY <1>1, <1>5 DEF PairInv, PairsStayTogether, Announces
<1> QED BY <1>2, <1>3, <1>4, <1>5 DEF QueueInv, Listening

Reads ==
  \/ FlushMessage \/ IgnoreMessage \/ StartSession \/ EndSession
  \/ AcceptMeta \/ RejectFrame \/ MergeFrame \/ CompleteSuperFrame

(* What the loop does with each kind of message.                           *)
LEMMA ReadFacts ==
  ASSUME IInv, PairInv, QueueInv, Reads
  PROVE  /\ samples # << >> /\ samples' = Tail(samples)
         /\ pc' \notin {"down", "flush"}
         /\ message \in MetaMsg <=> pc' = "frame"
         /\ message \in StartMsg => sessionRuns'
         /\ sessionRuns /\ message \notin EndMsg => sessionRuns'
         /\ OnlyRealSessions'
         /\ ~FlushMessage /\ ~RejectFrame
         /\ StartSession => ~Die /\ message.sessionDir \in Dirs
<1>1. samples # << >> /\ samples' = Tail(samples)
  BY DEF Reads, FlushMessage, IgnoreMessage, StartSession, EndSession, AcceptMeta,
         RejectFrame, MergeFrame, CompleteSuperFrame, Receive
<1>2. /\ message \in Messages
      /\ message \in MetaMsg => sessionRuns
      /\ message \in FrameMsg <=> pc = "frame"
      /\ message \in FrameMsg => FrameUsable(message)
      /\ pc \notin {"down", "flush"}
  BY <1>1, NextMessage
<1>3. ~FlushMessage /\ ~RejectFrame
  BY <1>2 DEF FlushMessage, RejectFrame, Receive
<1>4. OnlyRealSessions
  BY DEF QueueInv
<1>5. CASE IgnoreMessage
  <2>1. /\ pc = "meta" /\ pc' = "meta" /\ oscDirectoryName' = oscDirectoryName
        /\ Ignored(message)
    BY <1>5 DEF IgnoreMessage, Receive, memory
  <2>2. message \notin MetaMsg
    BY <1>2, <2>1 DEF MetaMsg, Ignored, sessionRuns, startSession, endSession, audioFrame
  <2>3. message \in StartMsg => sessionOpen
    BY <2>1 DEF StartMsg, Ignored, startSession, endSession
  <2>4. ~StartSession
    BY <2>1 DEF StartSession, Ignored, startSession, endSession
  <2> QED BY <1>1, <1>3, <1>4, <2>1, <2>2, <2>3, <2>4 DEF sessionRuns, sessionOpen, OnlyRealSessions
<1>6. CASE StartSession
  <2>1. pc = "meta" /\ message.metaType = startSession
    BY <1>6 DEF StartSession, Receive
  <2>2. message \in StartMsg /\ message \notin MetaMsg
    BY <1>2, <2>1, NotMeta DEF Messages, MetaMsg, EndMsg, startSession, endSession, audioFrame
  <2>3. message.sessionDir \in Dirs /\ message.sessionDir # NoDir
        /\ message.sessionDir \notin UnmakeableDirs
    BY <2>2, NamesAssumption DEF StartMsg
  <2>4. pc' = "meta" /\ oscDirectoryName' = message.sessionDir
    BY <1>6, <2>1, <2>3 DEF StartSession
  <2> QED BY <1>1, <1>3, <2>2, <2>3, <2>4 DEF sessionRuns, sessionOpen, OnlyRealSessions, Die
<1>7. CASE EndSession
  <2>1. /\ pc = "meta" /\ message.metaType = endSession /\ pc' = "upload"
        /\ oscDirectoryName' = oscDirectoryName
    BY <1>7 DEF EndSession, Receive
  <2>2. message \in EndMsg /\ message \notin MetaMsg /\ message \notin StartMsg
    BY <1>2, <2>1, NotMeta DEF Messages, MetaMsg, StartMsg, startSession, endSession, audioFrame
  <2>3. ~StartSession
    BY <2>1 DEF StartSession, startSession, endSession
  <2> QED BY <1>1, <1>3, <1>4, <2>1, <2>2, <2>3 DEF OnlyRealSessions
<1>8. CASE AcceptMeta
  <2>1. /\ pc = "meta" /\ pc' = "frame" /\ oscDirectoryName' = oscDirectoryName
        /\ sessionOpen /\ message \in MetaMsg
    BY <1>2, <1>8, MessageKinds DEF AcceptMeta, Receive
  <2>2. ~StartSession
    BY <1>8 DEF StartSession, AcceptMeta
  <2> QED BY <1>1, <1>3, <1>4, <2>1, <2>2 DEF sessionRuns, sessionOpen, OnlyRealSessions
<1>9. CASE MergeFrame \/ CompleteSuperFrame
  <2>1. /\ pc = "frame" /\ pc' \in {"meta", "write"} /\ oscDirectoryName' = oscDirectoryName
    BY <1>9 DEF MergeFrame, CompleteSuperFrame, Receive
  <2>2. message \in FrameMsg /\ message \notin MetaMsg /\ message \notin StartMsg
    BY <1>2, <2>1, NotMeta, NotFrame
  <2>3. sessionOpen
    BY <2>1 DEF IInv, SessionOpenInv
  <2>4. ~StartSession
    BY <2>1 DEF StartSession, Receive
  <2> QED BY <1>1, <1>3, <1>4, <2>1, <2>2, <2>3, <2>4
          DEF sessionRuns, sessionOpen, OnlyRealSessions
<1> QED BY <1>3, <1>5, <1>6, <1>7, <1>8, <1>9 DEF Reads

-----------------------------------------------------------------------------
(* A message is taken away: every place moves up by one.                   *)
LEMMA ReceivedKeeps ==
  ASSUME IInv, PairInv, QueueInv, Reads, UNCHANGED <<jamPending, jamSession>>
  PROVE  QueueInv'
<1>1. /\ samples # << >> /\ samples' = Tail(samples)
      /\ pc' \notin {"down", "flush"}
      /\ message \in MetaMsg => pc' = "frame"
      /\ message \in StartMsg => sessionRuns'
      /\ sessionRuns /\ message \notin EndMsg => sessionRuns'
      /\ OnlyRealSessions'
  BY ReadFacts
<1>2. /\ Upcoming \in Seq(Messages) /\ Upcoming # << >> /\ Upcoming' = Tail(Upcoming)
      /\ Upcoming[1] = message
  BY <1>1, UpcomingType, ReceiveUpcoming DEF IInv
<1>3. /\ Len(Upcoming) \in Nat \ {0} /\ Len(Upcoming') \in Nat
      /\ Len(Upcoming) = Len(Upcoming') + 1
      /\ \A i \in Nat : i \in 1 .. Len(Upcoming') <=> i + 1 \in 1 .. Len(Upcoming) /\ i # 0
      /\ \A i \in 1 .. Len(Upcoming') : Upcoming'[i] = Upcoming[i + 1]
  BY <1>2
<1>4. \A i \in Nat :
        /\ IsFrame(i)' => IsFrame(i + 1) /\ Upcoming'[i] = Upcoming[i + 1] /\ i # 0
        /\ IsMeta(i)' <=> IsMeta(i + 1) /\ i # 0
        /\ IsStart(i)' <=> IsStart(i + 1) /\ i # 0
        /\ IsEnd(i)' => IsEnd(i + 1)
  BY <1>3 DEF IsFrame, IsMeta, IsStart, IsEnd
<1>5. FramesExpected'
  <2> SUFFICES ASSUME NEW i \in Nat, IsFrame(i)'
               PROVE  /\ FrameUsable(Upcoming'[i])
                      /\ i = 1 => pc' = "frame"
                      /\ i # 1 => IsMeta(i - 1)'
    BY DEF FramesExpected, FrameUsable
  <2>1. /\ i + 1 \in Nat /\ i # 0 /\ i + 1 # 1 /\ (i + 1) - 1 = i
        /\ IsFrame(i + 1) /\ Upcoming'[i] = Upcoming[i + 1]
    BY <1>4
  <2>2. FrameUsable(Upcoming[i + 1]) /\ IsMeta(i)
    BY <2>1 DEF QueueInv, FramesExpected
  <2>3. i = 1 => message \in MetaMsg
    BY <1>2, <2>2 DEF IsMeta
  <2>4. ASSUME i # 1 PROVE IsMeta(i - 1)'
    <3>1. i - 1 \in Nat /\ (i - 1) + 1 = i /\ i - 1 # 0
      BY <2>1, <2>4
    <3>2. PICK j \in Nat : j = i - 1
      BY <3>1
    <3>3. IsMeta(j)'
      BY <1>4, <2>2, <3>1, <3>2
    <3> QED BY <3>2, <3>3
  <2> QED BY <1>1, <2>1, <2>2, <2>3, <2>4
<1>6. \A j, i \in Nat : NoEnd(j + 1, i + 1) => NoEnd(j, i)'
  <2> SUFFICES ASSUME NEW j \in Nat, NEW i \in Nat, NoEnd(j + 1, i + 1),
                      NEW k \in Nat, j < k, k <= i, IsEnd(k)'
               PROVE  FALSE
    BY DEF NoEnd
  <2>1. k + 1 \in Nat /\ j + 1 < k + 1 /\ k + 1 <= i + 1 /\ IsEnd(k + 1)
    BY <1>4
  <2> QED BY <2>1 DEF NoEnd
<1>7. \A i \in Nat : InSession(i + 1) => InSession(i)'
  <2> SUFFICES ASSUME NEW i \in Nat, InSession(i + 1) PROVE InSession(i)'
    OBVIOUS
  <2>1. ASSUME NEW j \in Nat, j <= i + 1, IsStart(j), NoEnd(j, i + 1)
        PROVE  InSession(i)'
    <3>1. j # 0
      BY <2>1 DEF IsStart
    <3>2. PICK k \in Nat : k + 1 = j
      BY <3>1
    <3>3. k <= i /\ NoEnd(k, i)'
      BY <1>6, <2>1, <3>2
    <3>4. CASE k = 0
      <4>1. sessionRuns'
        BY <1>1, <1>2, <2>1, <3>2, <3>4 DEF IsStart
      <4> QED BY <3>3, <3>4, <4>1 DEF InSession
    <3>5. CASE k # 0
      <4>1. IsStart(k)'
        BY <1>4, <2>1, <3>2, <3>5
      <4> QED BY <3>3, <4>1 DEF InSession
    <3> QED BY <3>4, <3>5
  <2>2. ASSUME NoEnd(0, i + 1), sessionRuns
        PROVE  InSession(i)'
    <3>1. ~IsEnd(1) /\ NoEnd(0 + 1, i + 1)
      BY <2>2 DEF NoEnd
    <3>2. message \notin EndMsg
      BY <1>2, <1>3, <3>1 DEF IsEnd
    <3>3. NoEnd(0, i)'
      BY <1>6, <3>1
    <3> QED BY <1>1, <2>2, <3>2, <3>3 DEF InSession
  <2> QED BY <2>1, <2>2 DEF InSession
<1>8. AudioInSession'
  <2>1. \A i \in Nat : IsMeta(i)' => InSession(i)'
    BY <1>4, <1>7 DEF QueueInv, AudioInSession
  <2>2. jamSession' # NoDir => InSession(Len(Upcoming))
    BY DEF QueueInv, AudioInSession
  <2>3. PICK l \in Nat : l = Len(Upcoming') /\ l + 1 = Len(Upcoming)
    BY <1>3
  <2>4. jamSession' # NoDir => InSession(l)'
    BY <1>7, <2>2, <2>3
  <2> QED BY <2>1, <2>3, <2>4 DEF AudioInSession
<1> QED BY <1>1, <1>5, <1>8 DEF QueueInv, Listening

(* The analyser reads nothing.                                             *)
LEMMA QuietKeeps ==
  ASSUME QueueInv, UNCHANGED <<samples, jamPending, jamSession>>, OnlyRealSessions',
         pc = "frame" => pc' = "frame",
         pc' \in {"down", "flush"} => pc \in {"down", "flush"},
         sessionRuns => sessionRuns'
  PROVE  QueueInv'
<1>1. Upcoming' = Upcoming
  BY DEF Upcoming
<1>2. Listening'
  BY DEF QueueInv, Listening
<1>3. FramesExpected'
  BY <1>1 DEF QueueInv, FramesExpected, IsFrame, IsMeta, FrameUsable
<1>4. \A i : InSession(i) => InSession(i)'
  BY <1>1 DEF InSession, IsStart, NoEnd, IsEnd
<1>5. AudioInSession'
  BY <1>1, <1>4 DEF QueueInv, AudioInSession, IsMeta
<1> QED BY <1>2, <1>3, <1>5 DEF QueueInv

(* More is to be read, and none of it ends a session.                      *)
LEMMA LongerInSession ==
  ASSUME TypeOK, UNCHANGED memory, Len(Upcoming') \in Nat,
         \A i \in 1 .. Len(Upcoming) :
           i \in 1 .. Len(Upcoming') /\ Upcoming'[i] = Upcoming[i],
         NEW i \in Nat, InSession(i), i <= Len(Upcoming)
  PROVE  /\ InSession(i)'
         /\ \A l \in Nat :
              /\ i <= l
              /\ \A k \in 1 .. Len(Upcoming') : i < k => Upcoming'[k] \notin EndMsg
              => InSession(l)'
<1>0. Upcoming \in Seq(Messages) /\ Len(Upcoming) \in Nat
  BY UpcomingType
<1>1. sessionRuns' = sessionRuns
  BY DEF memory, sessionRuns, sessionOpen
<1>2. \A k \in Nat : IsEnd(k)' /\ k <= i => IsEnd(k)
  BY <1>0 DEF IsEnd
<1>3. \A j \in Nat : IsStart(j) => IsStart(j)'
  BY DEF IsStart
<1>4. \A j \in Nat : NoEnd(j, i) => NoEnd(j, i)'
  BY <1>2 DEF NoEnd
<1>5. ASSUME NEW l \in Nat, i <= l,
             \A k \in 1 .. Len(Upcoming') : i < k => Upcoming'[k] \notin EndMsg
      PROVE  \A j \in Nat : NoEnd(j, i) => NoEnd(j, l)'
  <2> SUFFICES ASSUME NEW j \in Nat, NoEnd(j, i), NEW k \in Nat, j < k, k <= l, IsEnd(k)'
               PROVE  FALSE
    BY DEF NoEnd
  <2>1. k <= i
    BY <1>5 DEF IsEnd
  <2> QED BY <1>2, <2>1 DEF NoEnd
<1>6. InSession(i)'
  BY <1>1, <1>3, <1>4 DEF InSession
<1>7. ASSUME NEW l \in Nat, i <= l,
             \A k \in 1 .. Len(Upcoming') : i < k => Upcoming'[k] \notin EndMsg
      PROVE  InSession(l)'
  <2>1. \A j \in Nat : j <= i => j <= l
    BY <1>7
  <2> QED BY <1>1, <1>3, <1>5, <1>7, <2>1 DEF InSession
<1> QED BY <1>6, <1>7

(* A marker is sent.                                                       *)
LEMMA MarkerSent ==
  ASSUME IInv, QueueInv, ~SendsAreDropped, NEW m \in StartMsg \cup EndMsg, Send(m),
         UNCHANGED memory, jamPending = Nothing, jamPending' = Nothing,
         pc \notin {"down", "flush"},
         jamSession' # NoDir => m \in StartMsg
  PROVE  QueueInv'
<1>1. m \in Messages /\ m \notin MetaMsg /\ m \notin FrameMsg
  BY NotMeta, NotFrame DEF Messages
<1>2. Upcoming \in Seq(Messages) /\ Upcoming' = Append(Upcoming, m)
  BY UpcomingType DEF IInv, Send, Upcoming
<1>3. /\ Len(Upcoming) \in Nat /\ Len(Upcoming') = Len(Upcoming) + 1
      /\ \A i \in 1 .. Len(Upcoming) :
           i \in 1 .. Len(Upcoming') /\ Upcoming'[i] = Upcoming[i]
      /\ Upcoming'[Len(Upcoming')] = m
  BY <1>1, <1>2
<1>4. \A i \in Nat :
        /\ IsFrame(i)' => IsFrame(i) /\ Upcoming'[i] = Upcoming[i]
        /\ IsMeta(i) => IsMeta(i)'
        /\ IsMeta(i)' => IsMeta(i) /\ i <= Len(Upcoming)
  BY <1>1, <1>3 DEF IsFrame, IsMeta
<1>5. FramesExpected'
  <2> SUFFICES ASSUME NEW i \in Nat, IsFrame(i)'
               PROVE  /\ FrameUsable(Upcoming'[i])
                      /\ i = 1 => pc' = "frame"
                      /\ i # 1 => IsMeta(i - 1)'
    BY DEF FramesExpected, FrameUsable
  <2>1. /\ IsFrame(i) /\ Upcoming'[i] = Upcoming[i] /\ pc' = pc
    BY <1>4 DEF memory
  <2>2. FrameUsable(Upcoming[i]) /\ (i = 1 => pc = "frame") /\ (i # 1 => IsMeta(i - 1))
    BY <2>1 DEF QueueInv, FramesExpected
  <2>3. i # 0
    BY <2>1 DEF IsFrame
  <2>4. PICK j \in Nat : j = i - 1
    BY <2>3
  <2>5. i # 1 => IsMeta(j)'
    BY <1>4, <2>2, <2>4
  <2> QED BY <2>1, <2>2, <2>4, <2>5
<1>6. \A i \in Nat : IsMeta(i)' => InSession(i)'
  <2> SUFFICES ASSUME NEW i \in Nat, IsMeta(i)' PROVE InSession(i)'
    OBVIOUS
  <2>1. InSession(i) /\ i <= Len(Upcoming)
    BY <1>4 DEF QueueInv, AudioInSession
  <2> QED BY <1>3, <2>1, LongerInSession DEF IInv
<1>7. ASSUME jamSession' # NoDir PROVE InSession(Len(Upcoming))'
  <2>1. PICK l \in Nat : l = Len(Upcoming')
    BY <1>3
  <2>2. IsStart(l)' /\ NoEnd(l, l)'
    BY <1>3, <1>7, <2>1 DEF IsStart, NoEnd
  <2>3. InSession(l)'
    BY <2>2 DEF InSession
  <2> QED BY <2>1, <2>3
<1>8. Listening' /\ OnlyRealSessions'
  BY DEF QueueInv, Listening, OnlyRealSessions, memory
<1> QED BY <1>5, <1>6, <1>7, <1>8 DEF QueueInv, AudioInSession

(* A frame is announced.                                                   *)
LEMMA AnnouncementSent ==
  ASSUME Orderly, IInv, QueueInv,
         NEW c \in Channels, NEW shape \in FrameShapes, JamMeta(c, shape)
  PROVE  /\ QueueInv'
         /\ Cardinality(AnnouncedIn(samples')) = Cardinality(AnnouncedIn(samples)) + 1
<1> DEFINE id == [session |-> jamSession, channelId |-> c, frameSequence |-> frameSequence]
           m == [size |-> AudioMetaBytes, metaType |-> audioFrame, channelId |-> c,
                 frameSequence |-> frameSequence, filename |-> <<c, client[c]>>,
                 session |-> jamSession]
           f == [size |-> shape.size, metaType |-> shape.metaType,
                 sessionDir |-> shape.sessionDir, audio |-> id]
<1>1. m \in MetaMsg
  BY DEF MetaMsg, Filenames, IInv, TypeOK
<1>2. f \in FrameMsg /\ FrameUsable(f)
  BY ShapesAssumption DEF FrameMsg, FrameIds, IInv, TypeOK, Orderly, FrameUsable
<1>3. /\ m \in Messages /\ f \in Messages /\ f # Nothing
      /\ m \notin FrameMsg /\ f \notin MetaMsg
      /\ m \notin EndMsg /\ f \notin EndMsg
  BY <1>1, <1>2, NothingAssumption, NotMeta, NotFrame, NotEnd DEF Messages
<1>4. /\ jamPending = Nothing /\ jamPending' = f /\ Send(m)
      /\ jamSession # NoDir /\ UNCHANGED <<memory, jamSession>>
      /\ pc \notin {"down", "flush"}
  BY DEF JamMeta, Orderly
<1> HIDE DEF m, f
<1>5. /\ samples \in Seq(Messages) /\ Upcoming \in Seq(Messages)
      /\ samples' = Append(samples, m)
      /\ Upcoming' = Append(Append(Upcoming, m), f)
  BY <1>3, <1>4, UpcomingType DEF IInv, Orderly, Send, Upcoming
<1>6. /\ Len(Upcoming) \in Nat /\ Len(Upcoming') = Len(Upcoming) + 2
      /\ \A i \in 1 .. Len(Upcoming) :
           i \in 1 .. Len(Upcoming') /\ Upcoming'[i] = Upcoming[i]
      /\ Upcoming'[Len(Upcoming) + 1] = m
      /\ Upcoming'[Len(Upcoming) + 2] = f
  BY <1>3, <1>5, SMTT(30)
<1>7. \A i \in Nat :
        /\ IsFrame(i)' => \/ IsFrame(i) /\ Upcoming'[i] = Upcoming[i]
                          \/ i = Len(Upcoming) + 2
        /\ IsMeta(i) => IsMeta(i)'
        /\ IsMeta(i)' => (IsMeta(i) /\ i <= Len(Upcoming)) \/ i = Len(Upcoming) + 1
  BY <1>1, <1>3, <1>6 DEF IsFrame, IsMeta
<1>8. FramesExpected'
  <2> SUFFICES ASSUME NEW i \in Nat, IsFrame(i)'
               PROVE  /\ FrameUsable(Upcoming'[i])
                      /\ i = 1 => pc' = "frame"
                      /\ i # 1 => IsMeta(i - 1)'
    BY DEF FramesExpected, FrameUsable
  <2>0. i # 0
    BY <1>6 DEF IsFrame
  <2>1. PICK j \in Nat : j = i - 1
    BY <2>0
  <2>2. CASE IsFrame(i) /\ Upcoming'[i] = Upcoming[i]
    <3>1. FrameUsable(Upcoming[i]) /\ (i = 1 => pc = "frame") /\ (i # 1 => IsMeta(i - 1))
      BY <2>2 DEF QueueInv, FramesExpected
    <3>2. i # 1 => IsMeta(j)'
      BY <1>7, <2>1, <3>1
    <3> QED BY <1>4, <2>1, <2>2, <3>1, <3>2 DEF memory
  <2>3. CASE i = Len(Upcoming) + 2
    <3>1. Upcoming'[i] = f /\ j = Len(Upcoming) + 1 /\ i # 1
      BY <1>6, <2>1, <2>3
    <3>2. IsMeta(j)'
      BY <1>1, <1>6, <3>1 DEF IsMeta
    <3> QED BY <1>2, <2>1, <3>1, <3>2
  <2> QED BY <1>7, <2>2, <2>3
<1>9. \A l \in Nat : Len(Upcoming) <= l => InSession(l)'
  <2>1. InSession(Len(Upcoming)) /\ Len(Upcoming) \in Nat /\ Len(Upcoming') \in Nat
        /\ Len(Upcoming) <= Len(Upcoming)
    BY <1>4, <1>6 DEF QueueInv, AudioInSession
  <2>2. \A k \in 1 .. Len(Upcoming') : Len(Upcoming) < k => Upcoming'[k] \notin EndMsg
    <3> TAKE k \in 1 .. Len(Upcoming')
    <3> HAVE Len(Upcoming) < k
    <3>1. k = Len(Upcoming) + 1 \/ k = Len(Upcoming) + 2
      BY <1>6
    <3> QED BY <1>3, <1>6, <3>1
  <2>3. TypeOK /\ UNCHANGED memory
    BY <1>4 DEF IInv
  <2> QED BY <1>6, <2>1, <2>2, <2>3, LongerInSession
<1>10. \A i \in Nat : IsMeta(i)' => InSession(i)'
  <2> SUFFICES ASSUME NEW i \in Nat, IsMeta(i)' PROVE InSession(i)'
    OBVIOUS
  <2>1. CASE IsMeta(i) /\ i <= Len(Upcoming)
    <3>1. InSession(i) /\ Len(Upcoming') \in Nat
      BY <1>6, <2>1 DEF QueueInv, AudioInSession
    <3> QED BY <1>4, <1>6, <2>1, <3>1, LongerInSession DEF IInv
  <2>2. CASE i = Len(Upcoming) + 1
    BY <1>6, <1>9, <2>2
  <2> QED BY <1>7, <2>1, <2>2
<1>11. InSession(Len(Upcoming))'
  <2>1. PICK l \in Nat : l = Len(Upcoming') /\ Len(Upcoming) <= l
    BY <1>6
  <2>2. InSession(l)'
    BY <1>9, <2>1
  <2> QED BY <2>1, <2>2
<1>12. Listening' /\ OnlyRealSessions'
  BY <1>4 DEF QueueInv, Listening, OnlyRealSessions, memory
<1>13. Cardinality(AnnouncedIn(samples')) = Cardinality(AnnouncedIn(samples)) + 1
  BY <1>1, <1>3, <1>5, AnnouncedInAppend
<1> QED BY <1>8, <1>10, <1>11, <1>12, <1>13 DEF QueueInv, AudioInSession

-----------------------------------------------------------------------------
(* What is recorded, in all.                                               *)
LEMMA TotalType ==
  ASSUME FinitelyMany, NEW f \in [SessionDirs -> [Filenames -> Nat]]
  PROVE  Total(f) \in Nat
<1> DEFINE t == [d \in SessionDirs |-> SumFunction(f[d])]
<1>1. t \in [SessionDirs -> Nat]
  <2>1. \A d \in SessionDirs : f[d] \in [Filenames -> Nat]
    OBVIOUS
  <2> QED BY <2>1, FinitePlaces, SumType
<1> HIDE DEF t
<1>2. SumFunction(t) \in Nat
  BY <1>1, FinitePlaces, SumType
<1> QED BY <1>2 DEF t, Total

LEMMA DirChanges ==
  ASSUME FinitelyMany, NEW f, NEW h, NEW d \in SessionDirs,
         \A e \in SessionDirs : SumFunction(f[e]) \in Nat /\ SumFunction(h[e]) \in Nat,
         \A e \in SessionDirs : e # d => SumFunction(h[e]) = SumFunction(f[e])
  PROVE  Total(h) + SumFunction(f[d]) = Total(f) + SumFunction(h[d])
<1> DEFINE tf == [e \in SessionDirs |-> SumFunction(f[e])]
           th == [e \in SessionDirs |-> SumFunction(h[e])]
<1>1. tf \in [SessionDirs -> Nat] /\ th \in [SessionDirs -> Nat]
  OBVIOUS
<1>2. \A e \in SessionDirs : e # d => th[e] = tf[e]
  OBVIOUS
<1>3. tf[d] = SumFunction(f[d]) /\ th[d] = SumFunction(h[d])
  OBVIOUS
<1> HIDE DEF tf, th
<1>4. SumFunction(th) + tf[d] = SumFunction(tf) + th[d]
  BY <1>1, <1>2, FinitePlaces, SumChanges
<1> QED BY <1>3, <1>4 DEF tf, th, Total

LEMMA TotalChanges ==
  ASSUME FinitelyMany,
         NEW f \in [SessionDirs -> [Filenames -> Nat]],
         NEW h \in [SessionDirs -> [Filenames -> Nat]],
         NEW d \in SessionDirs, NEW n \in Filenames,
         \A e \in SessionDirs, m \in Filenames : e # d \/ m # n => h[e][m] = f[e][m]
  PROVE  Total(h) + f[d][n] = Total(f) + h[d][n]
<1>1. IsFiniteSet(SessionDirs) /\ IsFiniteSet(Filenames)
  BY FinitePlaces
<1>2. \A e \in SessionDirs : SumFunction(f[e]) \in Nat /\ SumFunction(h[e]) \in Nat
  <2>1. \A e \in SessionDirs : f[e] \in [Filenames -> Nat] /\ h[e] \in [Filenames -> Nat]
    OBVIOUS
  <2> QED BY <1>1, <2>1, SumType
<1>3. SumFunction(h[d]) + f[d][n] = SumFunction(f[d]) + h[d][n]
  <2>1. f[d] \in [Filenames -> Nat] /\ h[d] \in [Filenames -> Nat]
    OBVIOUS
  <2>2. \A m \in Filenames : m # n => h[d][m] = f[d][m]
    OBVIOUS
  <2> QED BY <1>1, <2>1, <2>2, SumChanges
<1>4. \A e \in SessionDirs : e # d => SumFunction(h[e]) = SumFunction(f[e])
  <2> TAKE e \in SessionDirs
  <2> HAVE e # d
  <2>1. h[e] = f[e]
    OBVIOUS
  <2> QED BY <2>1
<1>5. Total(h) + SumFunction(f[d]) = Total(f) + SumFunction(h[d])
  BY <1>2, <1>4, DirChanges
<1>6. /\ f[d][n] \in Nat /\ h[d][n] \in Nat
      /\ Total(f) \in Nat /\ Total(h) \in Nat
      /\ SumFunction(f[d]) \in Nat /\ SumFunction(h[d]) \in Nat
  BY <1>2, TotalType
<1>7. \A a, b, x, y, u, v \in Nat :
        b + x = a + y /\ y + u = x + v => b + u = a + v
  OBVIOUS
<1> DEFINE x == SumFunction(f[d])
           y == SumFunction(h[d])
           a == Total(f)
           b == Total(h)
           u == f[d][n]
           v == h[d][n]
<1>8. x \in Nat /\ y \in Nat /\ a \in Nat /\ b \in Nat /\ u \in Nat /\ v \in Nat
  BY <1>6
<1>9. b + x = a + y /\ y + u = x + v
  BY <1>3, <1>5
<1> HIDE DEF x, y, a, b, u, v
<1>10. b + u = a + v
  BY <1>7, <1>8, <1>9
<1> QED BY <1>10 DEF a, b, u, v

(* The numbers of the property.                                            *)
LEMMA Numbers ==
  ASSUME FinitelyMany, TypeOK
  PROVE  /\ Cardinality(AnnouncedIn(samples)) \in Nat
         /\ SumFunction(superFrameOffsets) \in Nat
         /\ Total(Lengths) \in Nat
         /\ FramesPerSuperframe \in Nat
         /\ frameSequence \in Nat
<1>1. samples \in Seq(Messages) /\ frameSequence \in Nat
  BY DEF TypeOK, AnalyserTypeOK
<1>2. superFrameOffsets \in [Channels -> Nat] /\ IsFiniteSet(Channels)
  BY DEF FinitelyMany, TypeOK, AnalyserTypeOK, Slots
<1> QED BY <1>1, <1>2, AnnouncedIs, SumType, LengthsType, TotalType, SizesAssumption

-----------------------------------------------------------------------------
(* A step that keeps the length of every file.                             *)
LEMMA LengthsKept ==
  ASSUME \A d \in SessionDirs, n \in Filenames : Len(Recorded(d, n)') = Len(Recorded(d, n))
  PROVE  Lengths' = Lengths
BY DEF Lengths

LEMMA FilesStay == UNCHANGED <<disk, s3>> => Lengths' = Lengths
BY DEF Lengths, Recorded

(* One offset moves by one, or starts over.                                *)
LEMMA OffsetChanges ==
  ASSUME FinitelyMany, TypeOK, NEW c \in Channels, NEW k \in Slots,
         superFrameOffsets' = [superFrameOffsets EXCEPT ![c] = k]
  PROVE  /\ SumFunction(superFrameOffsets') + superFrameOffsets[c]
              = SumFunction(superFrameOffsets) + k
         /\ SumFunction(superFrameOffsets') \in Nat
<1>1. /\ IsFiniteSet(Channels) /\ k \in Nat
      /\ superFrameOffsets \in [Channels -> Nat]
  BY DEF FinitelyMany, TypeOK, AnalyserTypeOK, Slots
<1>2. PICK f \in [Channels -> Nat] : f = superFrameOffsets
  BY <1>1
<1>3. PICK h \in [Channels -> Nat] : h = superFrameOffsets'
  BY <1>1
<1>4. h[c] = k /\ \A e \in Channels : e # c => h[e] = f[e]
  BY <1>1, <1>2, <1>3
<1>5. SumFunction(h) \in Nat /\ SumFunction(h) + f[c] = SumFunction(f) + h[c]
  BY <1>1, <1>4, SumChanges
<1> QED BY <1>2, <1>3, <1>4, <1>5

(* A message is read: an announcement becomes a frame in hand, a frame     *)
(* goes into its superframe, and a full one into a packet.                 *)
LEMMA ReadConserves ==
  ASSUME FinitelyMany, IInv, PairInv, QueueInv, Conserved, Reads,
         UNCHANGED frameSequence
  PROVE  Conserved'
<1> DEFINE A == Cardinality(AnnouncedIn(samples))
           B == Cardinality(AnnouncedIn(samples'))
           O == SumFunction(superFrameOffsets)
           P == SumFunction(superFrameOffsets')
           T == Total(Lengths)
           F == FramesPerSuperframe
<1>0. TypeOK /\ samples \in Seq(Messages)
  BY DEF IInv, TypeOK, AnalyserTypeOK
<1>1. /\ samples # << >> /\ samples' = Tail(samples)
      /\ message \in MetaMsg <=> pc' = "frame"
      /\ ~FlushMessage /\ ~RejectFrame
      /\ StartSession => ~Die
  BY ReadFacts
<1>2. A = B + (IF message \in MetaMsg THEN 1 ELSE 0)
  BY <1>0, <1>1, AnnouncedInTail DEF message
<1>3. /\ A \in Nat /\ O \in Nat /\ T \in Nat /\ F \in Nat /\ frameSequence \in Nat
      /\ B \in Nat
  <2>1. samples' \in Seq(Messages)
    BY <1>0, <1>1
  <2>2. B \in Nat
    BY <2>1, AnnouncedIs
  <2> QED BY <1>0, <2>2, Numbers
<1>4. Total(Lengths)' = T
  <2>1. UNCHANGED <<disk, s3>>
    BY DEF Reads, FlushMessage, IgnoreMessage, StartSession, EndSession, AcceptMeta,
           RejectFrame, MergeFrame, CompleteSuperFrame
  <2> QED BY <2>1, FilesStay DEF Total
<1>5. frameSequence = A + InHand("frame") + O + F * (T + InHand("write"))
  BY DEF Conserved
<1>6. SUFFICES frameSequence = B + InHand("frame")' + P + F * (T + InHand("write")')
  BY <1>4 DEF Conserved
<1> HIDE DEF A, B, T
<1>7. CASE IgnoreMessage \/ StartSession \/ EndSession
  <2>1. pc = "meta" /\ pc' \in {"meta", "upload"} /\ superFrameOffsets' = superFrameOffsets
    BY <1>1, <1>7 DEF IgnoreMessage, StartSession, EndSession, Receive, memory
  <2>2. A = B /\ P = O
    BY <1>1, <1>2, <1>3, <2>1
  <2> QED BY <1>5, <2>1, <2>2 DEF InHand
<1>8. CASE AcceptMeta
  <2>1. pc = "meta" /\ pc' = "frame" /\ superFrameOffsets' = superFrameOffsets
    BY <1>8 DEF AcceptMeta, Receive
  <2>2. A = B + 1 /\ P = O
    BY <1>1, <1>2, <2>1
  <2>3. InHand("frame") = 0 /\ InHand("write") = 0 /\ InHand("frame")' = 1 /\ InHand("write")' = 0
    BY <2>1 DEF InHand
  <2> HIDE DEF O, P, F
  <2>4. F * (T + 0) \in Nat
    BY <1>3
  <2> QED BY <1>3, <1>5, <2>2, <2>3, <2>4
<1>9. CASE MergeFrame
  <2> DEFINE c == receivedMeta.channelId
             o == superFrameOffsets[c]
  <2>1. pc = "frame" /\ pc' = "meta" /\ o + 1 < F
        /\ superFrameOffsets' = [superFrameOffsets EXCEPT ![c] = o + 1]
    BY <1>9 DEF MergeFrame, Receive, Fills
  <2>2. receivedMeta \in MetaMsg /\ c \in Channels /\ o \in Slots /\ o \in Nat
    BY <1>0, <2>1 DEF TypeOK, AnalyserTypeOK, MetaMsg, Slots
  <2>3. o + 1 \in Slots
    BY <1>3, <2>1, <2>2 DEF Slots
  <2>4. P + o = O + (o + 1) /\ P \in Nat
    BY <1>0, <2>1, <2>2, <2>3, OffsetChanges
  <2>5. A = B
    BY <1>1, <1>2, <1>3, <2>1
  <2>6. InHand("frame") = 1 /\ InHand("write") = 0 /\ InHand("frame")' = 0 /\ InHand("write")' = 0
    BY <2>1 DEF InHand
  <2> HIDE DEF O, P, F, o
  <2>7. F * (T + 0) \in Nat
    BY <1>3
  <2>8. P = O + 1
    BY <1>3, <2>2, <2>4
  <2> QED BY <1>3, <1>5, <2>5, <2>6, <2>7, <2>8
<1>10. CASE CompleteSuperFrame
  <2> DEFINE c == receivedMeta.channelId
             o == superFrameOffsets[c]
  <2>1. pc = "frame" /\ pc' = "write" /\ ~(o + 1 < F)
        /\ superFrameOffsets' = [superFrameOffsets EXCEPT ![c] = 0]
    BY <1>10 DEF CompleteSuperFrame, Receive, Fills
  <2>2. receivedMeta \in MetaMsg /\ c \in Channels /\ o \in Slots /\ o \in Nat /\ 0 \in Slots
    BY <1>0, <2>1, SizesAssumption DEF TypeOK, AnalyserTypeOK, MetaMsg, Slots
  <2>3. o + 1 = F
    BY <1>3, <2>1, <2>2 DEF Slots
  <2>4. P + o = O + 0 /\ P \in Nat
    BY <1>0, <2>1, <2>2, OffsetChanges
  <2>5. A = B
    BY <1>1, <1>2, <1>3, <2>1
  <2>6. InHand("frame") = 1 /\ InHand("write") = 0 /\ InHand("frame")' = 0 /\ InHand("write")' = 1
    BY <2>1 DEF InHand
  <2> HIDE DEF O, P, F, o
  <2>7. F * (T + 0) \in Nat /\ F * (T + 1) = F * (T + 0) + F
    BY <1>3
  <2>8. O = P + o
    BY <1>3, <2>2, <2>4
  <2>9. B + 0 + P + (F * (T + 0) + F) = A + 1 + O + F * (T + 0)
    BY <1>3, <2>2, <2>3, <2>4, <2>5, <2>7, <2>8
  <2> QED BY <1>5, <2>6, <2>7, <2>9
<1> QED BY <1>1, <1>7, <1>8, <1>9, <1>10 DEF Reads

(* A file is moved, and keeps its length.                                  *)
LEMMA UploadConserves ==
  ASSUME IInv, RecInv, QueueInv, Conserved, NEW n \in Filenames, UploadFile(n),
         UNCHANGED frameSequence
  PROVE  Conserved'
<1> DEFINE d == oscDirectoryName
<1>1. /\ d \in Dirs
      /\ disk \in [SessionDirs -> [Filenames -> Seq(Packets)]]
      /\ s3 \in [SessionDirs -> [Filenames -> Seq(Packets)]]
      /\ disk[d][n] # << >>
      /\ s3' = [s3 EXCEPT ![d][n] = disk[d][n]]
      /\ disk' = [disk EXCEPT ![d][n] = << >>]
      /\ UNCHANGED <<samples, pc, superFrameOffsets>>
  BY UploadMoves DEF memory, IInv, SessionOpenInv, sessionOpen, TypeOK, AnalyserTypeOK,
                     QueueInv, OnlyRealSessions
<1>2. s3[d][n] = << >> /\ d \in SessionDirs
  BY <1>1 DEF RecInv, FilesInv, FilesInOnePlace, SessionDirs
<1> HIDE DEF d
<1>3. \A e \in SessionDirs, m \in Filenames : Len(Recorded(e, m)') = Len(Recorded(e, m))
  <2> TAKE e \in SessionDirs, m \in Filenames
  <2>1. CASE e = d /\ m = n
    <3>1. disk'[e][m] = << >> /\ s3'[e][m] = disk[e][m] /\ s3[e][m] = << >>
      BY <1>1, <1>2, <2>1
    <3>2. disk[e][m] \in Seq(Packets)
      BY <1>1
    <3>3. \A f \in Seq(Packets) : Len(<< >> \o f) = Len(f) /\ Len(f \o << >>) = Len(f)
      OBVIOUS
    <3> QED BY <3>1, <3>2, <3>3 DEF Recorded
  <2>2. CASE ~(e = d /\ m = n)
    <3>1. s3'[e][m] = s3[e][m] /\ disk'[e][m] = disk[e][m]
      BY <1>1, <2>2
    <3> QED BY <3>1 DEF Recorded
  <2> QED BY <2>1, <2>2
<1>4. Lengths' = Lengths
  BY <1>3, LengthsKept
<1> QED BY <1>1, <1>4 DEF Conserved, AnnouncedIn, InHand, Total

(* The packet in hand is recorded, behind what the file holds.             *)
LEMMA WriteConserves ==
  ASSUME FinitelyMany, IInv, RecInv, QueueInv, Conserved, WritePacket,
         UNCHANGED frameSequence
  PROVE  Conserved'
<1> DEFINE T == Total(Lengths)
           U == Total(Lengths')
           F == FramesPerSuperframe
<1>1. /\ oscDirectoryName \in Dirs /\ oscBuffer \in Packets /\ s3' = s3
      /\ disk \in [SessionDirs -> [Filenames -> Seq(Packets)]]
      /\ s3 \in [SessionDirs -> [Filenames -> Seq(Packets)]]
      /\ pc = "write" /\ pc' = "meta" /\ UNCHANGED <<samples, superFrameOffsets>>
  BY DEF WritePacket, IInv, SessionOpenInv, sessionOpen, TypeOK, AnalyserTypeOK,
         QueueInv, OnlyRealSessions
<1>2. PICK d \in Dirs, q \in Packets : d = oscDirectoryName /\ q = oscBuffer
  BY <1>1
<1>3. PICK n \in Filenames : disk' = [disk EXCEPT ![d][n] = Append(@, q)]
  BY <1>2, WriteFacts
<1>4. d \in SessionDirs /\ disk[d][n] \in Seq(Packets) /\ s3[d][n] \in Seq(Packets)
      /\ disk'[d][n] = Append(disk[d][n], q)
  BY <1>1, <1>3 DEF SessionDirs
<1>5. Lengths'[d][n] = Lengths[d][n] + 1
  <2>1. \A f, h \in Seq(Packets) : Len(Append(f, q) \o h) = Len(f \o h) + 1
    OBVIOUS
  <2>2. Lengths[d][n] = Len(disk[d][n] \o s3[d][n])
        /\ Lengths'[d][n] = Len(disk'[d][n] \o s3'[d][n])
    BY <1>4 DEF Lengths, Recorded
  <2> QED BY <1>1, <1>4, <2>1, <2>2
<1>6. \A e \in SessionDirs, m \in Filenames :
        e # d \/ m # n => Lengths'[e][m] = Lengths[e][m]
  <2> TAKE e \in SessionDirs, m \in Filenames
  <2> HAVE e # d \/ m # n
  <2>1. disk'[e][m] = disk[e][m] /\ s3'[e][m] = s3[e][m]
    BY <1>1, <1>3
  <2> QED BY <2>1 DEF Lengths, Recorded
<1>7. Lengths \in [SessionDirs -> [Filenames -> Nat]]
  BY LengthsType DEF IInv
<1>8. Lengths' \in [SessionDirs -> [Filenames -> Nat]]
  <2>1. \A e \in SessionDirs, m \in Filenames : Lengths'[e][m] \in Nat
    <3> TAKE e \in SessionDirs, m \in Filenames
    <3>1. Lengths[e][m] \in Nat
      BY <1>7
    <3> QED BY <1>5, <1>6, <3>1
  <2>2. Lengths' = [e \in SessionDirs |-> [m \in Filenames |-> Lengths'[e][m]]]
    BY DEF Lengths
  <2> QED BY <2>1, <2>2
<1>9. U + Lengths[d][n] = T + Lengths'[d][n]
  <2>1. PICK f \in [SessionDirs -> [Filenames -> Nat]] : f = Lengths
    BY <1>7
  <2>2. PICK h \in [SessionDirs -> [Filenames -> Nat]] : h = Lengths'
    BY <1>8
  <2>3. \A e \in SessionDirs, m \in Filenames : e # d \/ m # n => h[e][m] = f[e][m]
    BY <1>6, <2>1, <2>2
  <2>4. Total(h) + f[d][n] = Total(f) + h[d][n]
    BY <1>4, <2>3, TotalChanges
  <2> QED BY <2>1, <2>2, <2>4
<1>10. T \in Nat /\ U \in Nat /\ F \in Nat /\ Lengths[d][n] \in Nat
  BY <1>4, <1>7, <1>8, TotalType, SizesAssumption
<1> HIDE DEF T, U, F
<1>11. U = T + 1
  BY <1>5, <1>9, <1>10
<1>12. InHand("frame") = 0 /\ InHand("write") = 1 /\ InHand("frame")' = 0 /\ InHand("write")' = 0
  BY <1>1 DEF InHand
<1>13. F * (U + 0) = F * (T + 1)
  BY <1>10, <1>11
<1> QED BY <1>1, <1>12, <1>13 DEF Conserved, AnnouncedIn, T, U, F

(* Steps that leave all that is counted as it is.                          *)
LEMMA StillConserved ==
  ASSUME Conserved, UNCHANGED <<disk, s3, superFrameOffsets, frameSequence>>,
         Cardinality(AnnouncedIn(samples')) = Cardinality(AnnouncedIn(samples)),
         pc' = pc \/ (pc \notin {"frame", "write"} /\ pc' \notin {"frame", "write"})
  PROVE  Conserved'
<1>1. Lengths' = Lengths
  BY FilesStay
<1>2. InHand("frame")' = InHand("frame") /\ InHand("write")' = InHand("write")
  BY DEF InHand
<1> QED BY <1>1, <1>2 DEF Conserved, Total

LEMMA InitLoses == ASSUME FinitelyMany, Init PROVE LossInv
<1>1. Upcoming = << >> /\ samples = << >>
  BY DEF Init, AnalyserInit, Upcoming
<1>2. QueueInv
  BY <1>1 DEF Init, AnalyserInit, QueueInv, Listening, FramesExpected, IsFrame,
     AudioInSession, IsMeta, OnlyRealSessions
<1>3. Cardinality(AnnouncedIn(samples)) = 0
  <2>1. AnnouncedIn(samples) = {}
    BY <1>1 DEF AnnouncedIn
  <2> QED BY <2>1, FS_EmptySet
<1>4. SumFunction(superFrameOffsets) = 0
  <2>1. superFrameOffsets \in [Channels -> Nat] /\ \A c \in Channels : superFrameOffsets[c] = 0
    BY DEF Init, AnalyserInit, NoOffsets
  <2>2. IsFiniteSet(Channels)
    BY DEF FinitelyMany
  <2> QED BY <2>1, <2>2, SumOfZeros
<1>5. Total(Lengths) = 0
  <2>1. \A d \in SessionDirs, n \in Filenames : Lengths[d][n] = 0
    <3> TAKE d \in SessionDirs, n \in Filenames
    <3>1. Recorded(d, n) = << >>
      BY DEF Init, AnalyserInit, Recorded
    <3> QED BY <3>1 DEF Lengths
  <2>2. \A d \in SessionDirs : SumFunction(Lengths[d]) = 0
    <3> TAKE d \in SessionDirs
    <3>1. Lengths[d] \in [Filenames -> Nat]
      BY <2>1 DEF Lengths
    <3> QED BY <2>1, <3>1, FinitePlaces, SumOfZeros
  <2> DEFINE t == [d \in SessionDirs |-> SumFunction(Lengths[d])]
  <2>3. t \in [SessionDirs -> Nat] /\ \A d \in SessionDirs : t[d] = 0
    BY <2>2
  <2> HIDE DEF t
  <2>4. SumFunction(t) = 0
    BY <2>3, FinitePlaces, SumOfZeros
  <2> QED BY <2>4 DEF t, Total
<1>6. frameSequence = 0 /\ InHand("frame") = 0 /\ InHand("write") = 0
  BY DEF Init, AnalyserInit, InHand
<1>7. FramesPerSuperframe \in Nat
  BY SizesAssumption
<1> QED BY <1>2, <1>3, <1>4, <1>5, <1>6, <1>7 DEF LossInv, Conserved

LEMMA AnalyseConserves ==
  ASSUME FinitelyMany, IInv, PairInv, RecInv, LossInv, Analyse
  PROVE  LossInv'
<1>0. UNCHANGED <<jamPending, jamSession, frameSequence>> /\ AnalyserStep
  BY DEF Analyse, jamVars
<1>1. CASE Reads
  BY <1>0, <1>1, ReceivedKeeps, ReadConserves DEF LossInv
<1>2. CASE FlushDone
  <2>1. QueueInv'
    BY <1>0, <1>2, QuietKeeps
    DEF FlushDone, LossInv, QueueInv, OnlyRealSessions, sessionRuns, sessionOpen
  <2>2. Conserved'
    BY <1>0, <1>2, StillConserved DEF FlushDone, LossInv
  <2> QED BY <2>1, <2>2 DEF LossInv
<1>3. CASE UploadReturns
  <2>1. QueueInv'
    BY <1>0, <1>3, QuietKeeps
    DEF UploadReturns, LossInv, QueueInv, OnlyRealSessions, sessionRuns
  <2>2. Conserved'
    BY <1>0, <1>3, StillConserved DEF UploadReturns, LossInv
  <2> QED BY <2>1, <2>2 DEF LossInv
<1>4. ASSUME NEW n \in Filenames, UploadFile(n) PROVE LossInv'
  <2>1. QueueInv'
    BY <1>0, <1>4, UploadMoves, QuietKeeps
    DEF memory, LossInv, QueueInv, OnlyRealSessions, sessionRuns, sessionOpen
  <2>2. Conserved'
    BY <1>0, <1>4, UploadConserves DEF LossInv
  <2> QED BY <2>1, <2>2 DEF LossInv
<1>5. CASE WritePacket
  <2>1. QueueInv'
    BY <1>0, <1>5, QuietKeeps
    DEF WritePacket, LossInv, QueueInv, OnlyRealSessions, sessionRuns, sessionOpen
  <2>2. Conserved'
    BY <1>0, <1>5, WriteConserves DEF LossInv
  <2> QED BY <2>1, <2>2 DEF LossInv
<1> QED BY <1>0, <1>1, <1>2, <1>3, <1>4, <1>5 DEF AnalyserStep, Reads

LEMMA JamulusConserves ==
  ASSUME FinitelyMany, Orderly, IInv, LossInv, Jamulus
  PROVE  LossInv'
<1>0. /\ samples \in Seq(Messages) /\ frameSequence \in Nat
      /\ UNCHANGED <<disk, s3, memory>>
  BY DEF IInv, TypeOK, AnalyserTypeOK, Jamulus, JamStart, JamEnd, JamMeta, JamFrame,
         JamChangeClient, analyserVars
<1>1. ASSUME NEW m \in Messages, m \notin MetaMsg, Send(m), UNCHANGED frameSequence
      PROVE  Conserved'
  <2>1. samples' = Append(samples, m)
    BY <1>1 DEF Send, Orderly
  <2>2. Cardinality(AnnouncedIn(samples')) = Cardinality(AnnouncedIn(samples))
    BY <1>0, <1>1, <2>1, AnnouncedInAppend, AnnouncedIs
  <2> QED BY <1>0, <1>1, <2>2, StillConserved DEF memory, LossInv
<1>2. ASSUME NEW d \in Dirs, JamStart(d) PROVE LossInv'
  <2> DEFINE m == [size |-> StartBytes, metaType |-> startSession, sessionDir |-> d]
  <2>1. m \in StartMsg /\ m \in Messages /\ m \notin MetaMsg
    BY NotMeta DEF StartMsg, Messages
  <2>2. /\ Send(m) /\ jamPending = Nothing /\ jamPending' = Nothing
        /\ pc \notin {"down", "flush"} /\ UNCHANGED frameSequence
    BY <1>2 DEF JamStart, Orderly
  <2> HIDE DEF m
  <2>3. QueueInv'
    BY <1>0, <2>1, <2>2, MarkerSent DEF LossInv, Orderly
  <2> QED BY <1>1, <2>1, <2>2, <2>3 DEF LossInv
<1>3. CASE JamEnd
  <2> DEFINE m == [size |-> EndBytes, metaType |-> endSession]
  <2>1. m \in EndMsg /\ m \in Messages /\ m \notin MetaMsg
    BY NotMeta DEF EndMsg, Messages
  <2>2. /\ Send(m) /\ jamPending = Nothing /\ jamPending' = Nothing
        /\ jamSession # NoDir /\ jamSession' = NoDir /\ UNCHANGED frameSequence
    BY <1>3 DEF JamEnd
  <2>3. pc \notin {"down", "flush"}
    BY <2>2 DEF LossInv, QueueInv, Listening
  <2> HIDE DEF m
  <2>4. QueueInv'
    BY <1>0, <2>1, <2>2, <2>3, MarkerSent DEF LossInv, Orderly
  <2> QED BY <1>1, <2>1, <2>2, <2>4 DEF LossInv
<1>4. ASSUME NEW c \in Channels, NEW shape \in FrameShapes, JamMeta(c, shape)
      PROVE  LossInv'
  <2>1. /\ QueueInv'
        /\ Cardinality(AnnouncedIn(samples')) = Cardinality(AnnouncedIn(samples)) + 1
    BY <1>4, AnnouncementSent DEF LossInv
  <2>2. frameSequence' = frameSequence + 1
    BY <1>4 DEF JamMeta
  <2>3. /\ Lengths' = Lengths /\ superFrameOffsets' = superFrameOffsets
        /\ InHand("frame")' = InHand("frame") /\ InHand("write")' = InHand("write")
    BY <1>0, FilesStay DEF memory, InHand
  <2> DEFINE rest == SumFunction(superFrameOffsets)
             files == FramesPerSuperframe * (Total(Lengths) + InHand("write"))
             a == Cardinality(AnnouncedIn(samples))
  <2>4. a \in Nat /\ rest \in Nat /\ files \in Nat /\ InHand("frame") \in Nat
    BY Numbers DEF IInv, InHand
  <2>5. frameSequence = a + InHand("frame") + rest + files
    BY DEF LossInv, Conserved
  <2>6. Conserved' <=> frameSequence' = (a + 1) + InHand("frame") + rest + files
    BY <2>1, <2>3 DEF Conserved, Total
  <2> HIDE DEF rest, files, a
  <2>7. frameSequence' = (a + 1) + InHand("frame") + rest + files
    BY <1>0, <2>2, <2>4, <2>5
  <2> QED BY <2>1, <2>6, <2>7 DEF LossInv
<1>5. CASE JamFrame
  <2>1. /\ jamPending \in FrameMsg /\ jamPending # Nothing /\ jamPending' = Nothing
        /\ Send(jamPending) /\ UNCHANGED <<frameSequence, jamSession>>
    BY <1>5 DEF JamFrame, IInv, TypeOK
  <2>2. jamPending \in Messages /\ jamPending \notin MetaMsg
    BY <2>1, NotMeta DEF Messages
  <2>3. Upcoming' = Upcoming
    BY <2>1 DEF Upcoming, Send, Orderly
  <2>4. pc \notin {"down", "flush"}
    BY <2>1 DEF LossInv, QueueInv, Listening
  <2>5. QueueInv'
    BY <1>0, <2>1, <2>3, <2>4
    DEF memory, LossInv, QueueInv, Listening, FramesExpected, FrameUsable, IsFrame, IsMeta,
        AudioInSession, InSession, IsStart, NoEnd, IsEnd, sessionRuns, sessionOpen,
        OnlyRealSessions
  <2> QED BY <1>1, <2>1, <2>2, <2>5 DEF LossInv
<1>6. ASSUME NEW c \in Channels, NEW k \in Clients, JamChangeClient(c, k) PROVE LossInv'
  <2>1. UNCHANGED <<samples, jamPending, jamSession, frameSequence>>
    BY <1>6 DEF JamChangeClient, analyserVars
  <2>2. QueueInv'
    BY <1>0, <2>1, QuietKeeps
    DEF LossInv, memory, QueueInv, OnlyRealSessions, sessionRuns, sessionOpen
  <2>3. Conserved'
    BY <1>0, <2>1, StillConserved DEF LossInv, memory
  <2> QED BY <2>2, <2>3 DEF LossInv
<1> QED BY <1>2, <1>3, <1>4, <1>5, <1>6 DEF Jamulus

LEMMA StepConserves ==
  ASSUME FinitelyMany, Orderly
  PROVE  IInv /\ PairInv /\ RecInv /\ NoOrphans /\ LossInv /\ [Next]_vars => LossInv'
<1> SUFFICES ASSUME IInv, PairInv, RecInv, NoOrphans, LossInv, [Next]_vars PROVE LossInv'
  OBVIOUS
<1>1. CASE Start
  <2>1. /\ UNCHANGED <<samples, jamPending, jamSession, frameSequence, oscDirectoryName,
                       disk, s3, superFrameOffsets>>
        /\ pc = "down" /\ pc' = "flush"
    BY <1>1 DEF Start, Boot, jamVars
  <2>2. QueueInv'
    BY <2>1, QuietKeeps DEF LossInv, QueueInv, OnlyRealSessions, sessionRuns, sessionOpen
  <2>3. Conserved'
    BY <2>1, StillConserved DEF LossInv
  <2> QED BY <2>2, <2>3 DEF LossInv
<1>2. CASE OscServerReceive \/ UNCHANGED vars
  <2>1. UNCHANGED <<samples, jamPending, jamSession, frameSequence, oscDirectoryName,
                    disk, s3, superFrameOffsets, pc>>
    BY <1>2 DEF OscServerReceive, vars, analyserVars, memory, jamVars
  <2>2. QueueInv'
    BY <2>1, QuietKeeps DEF LossInv, QueueInv, OnlyRealSessions, sessionRuns, sessionOpen
  <2>3. Conserved'
    BY <2>1, StillConserved DEF LossInv
  <2> QED BY <2>2, <2>3 DEF LossInv
<1>3. CASE Kill
  BY <1>3 DEF Kill, IInv, TypeOK, Orderly
<1>4. CASE OrphanStep
  BY <1>4 DEF OrphanStep, NoOrphans
<1> QED BY <1>1, <1>2, <1>3, <1>4, AnalyseConserves, JamulusConserves DEF Next

(* While every frame is of the expected size, the queue loses nothing and  *)
(* the analyser stays up, every frame that was announced is on the queue,  *)
(* in hand, in a superframe or in a packet that is in hand or in a file,   *)
(* and counted once (main.cpp:171-272).                                    *)
THEOREM NothingIsLost ==
  ASSUME FinitelyMany, Orderly
  PROVE  Spec => []NothingLost
<1>1. Init => LossInv
  BY InitLoses
<1>2. IInv /\ PairInv /\ RecInv /\ NoOrphans /\ LossInv /\ [Next]_vars => LossInv'
  BY StepConserves
<1>3. IInv /\ LossInv => NothingLost
  BY LossIsConserved DEF IInv, LossInv
<1>4. IInv /\ PairInv /\ [Next]_vars => PairInv'
  BY PairStep DEF Orderly
<1>5. IInv /\ NoOrphans /\ [Next]_vars => NoOrphans'
  BY StepNoOrphans DEF Orderly
<1> QED BY InitHolds, StepHolds, PairInit, InitRecords, StepRecords, InitNoOrphans,
           <1>1, <1>2, <1>3, <1>4, <1>5, PTL DEF Spec
===============================================================================
