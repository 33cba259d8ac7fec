--------------------------- MODULE PipelineProofs ---------------------------
(***************************************************************************)
(* Proofs about Pipeline, for all sizes of queues and superframes and any  *)
(* numbers of channels, clients, sessions, frames and crashes.             *)
(***************************************************************************)
EXTENDS Pipeline, TLAPS

(* A session is open wherever the code relies on it: while it waits for a  *)
(* frame, writes a packet or uploads.                                      *)
SessionOpenInv == pc \in {"frame", "write", "upload"} => sessionOpen

IInv == TypeOK /\ SessionOpenInv /\ OpenFilesInSession

(* A session that is being uploaded is closed.                             *)
OpenSession(d) == oscDirectoryName = d /\ pc # "upload"

-----------------------------------------------------------------------------
(* What a message is, told from the fields the loop looks at.              *)
LEMMA MessageKinds ==
  ASSUME NEW m \in Messages
  PROVE  /\ m.metaType = startSession => m.sessionDir \in SessionDirs \cup {NoDir}
         /\ m.metaType = audioFrame /\ m.size = AudioMetaBytes => m \in MetaMsg
         /\ FrameUsable(m) => m \in FrameMsg
<1>1. CASE m \in StartMsg
  BY <1>1, SizesAssumption
  DEF StartMsg, FrameUsable, SessionDirs, startSession, audioFrame
<1>2. CASE m \in EndMsg
  BY <1>2, SizesAssumption
  DEF EndMsg, FrameUsable, startSession, endSession, audioFrame
<1>3. CASE m \in MetaMsg
  BY <1>3, SizesAssumption DEF MetaMsg, FrameUsable, startSession, audioFrame
<1>4. CASE m \in FrameMsg
  BY <1>4, SizesAssumption DEF FrameMsg, SessionDirs
<1> QED BY <1>1, <1>2, <1>3, <1>4 DEF Messages

(* Receiving leaves a queue of messages and hands over a message.          *)
LEMMA ReceiveFacts ==
  ASSUME TypeOK, NEW place, Receive(place)
  PROVE  message \in Messages /\ samples' \in Seq(Messages) /\ pc = place
BY DEF TypeOK, AnalyserTypeOK, Receive, message

LEMMA MergedType ==
  ASSUME TypeOK, NEW c \in Channels, message \in FrameMsg
  PROVE  Merged(c) \in SuperFrames
<1>1. message.audio \in FrameIds
  BY DEF FrameMsg
<1>2. superFrames[c] \in SuperFrames
  BY DEF TypeOK, AnalyserTypeOK
<1> QED BY <1>1, <1>2 DEF Merged, SuperFrames

(* Empty maps are maps of their type.                                      *)
LEMMA NoMapsType ==
  /\ NoSuperFrames \in [Channels -> SuperFrames]
  /\ NoOffsets \in [Channels -> Slots]
  /\ NoFiles \in [Channels -> Files \cup {NoFile}]
BY SizesAssumption DEF NoSuperFrames, NoOffsets, NoFiles, SuperFrames, Slots

-----------------------------------------------------------------------------
LEMMA InitHolds == Init => IInv
<1> SUFFICES ASSUME Init PROVE IInv
  OBVIOUS
<1>1. TypeOK
  BY NoMapsType DEF Init, AnalyserInit, TypeOK, AnalyserTypeOK
<1>2. SessionOpenInv
  BY DEF Init, AnalyserInit, SessionOpenInv
<1>3. OpenFilesInSession
  BY DEF Init, AnalyserInit, OpenFilesInSession, NoFiles
<1> QED BY <1>1, <1>2, <1>3 DEF IInv

(* What the steps of the analyser share: they leave Jamulus alone.         *)
LEMMA TypeFromParts ==
  ASSUME TypeOK, AnalyserTypeOK', UNCHANGED <<jamVars, crashes>>
  PROVE  TypeOK'
BY DEF TypeOK, jamVars

(* The steps before a session: start-up, flush, start of a session.        *)
LEMMA StartUpSteps ==
  ASSUME IInv, Boot \/ FlushMessage \/ FlushDone \/ StartSession
  PROVE  AnalyserTypeOK' /\ SessionOpenInv' /\ OpenFilesInSession'
<1> USE DEF IInv, TypeOK, uploads
<1>1. CASE Boot \/ FlushDone
  BY <1>1 DEF Boot, FlushDone, AnalyserTypeOK, SessionOpenInv, OpenFilesInSession,
              sessionOpen
<1>3. CASE FlushMessage
  <2>1. samples' \in Seq(Messages)
    BY <1>3 DEF FlushMessage, AnalyserTypeOK
  <2> QED BY <1>3, <2>1 DEF FlushMessage, AnalyserTypeOK, SessionOpenInv,
                            OpenFilesInSession, sessionOpen, memory
<1>2. CASE StartSession
  <2>1. message \in Messages /\ samples' \in Seq(Messages) /\ pc = "meta"
    BY <1>2, ReceiveFacts DEF StartSession
  <2>2. message.sessionDir \in SessionDirs \cup {NoDir}
    BY <1>2, <2>1, MessageKinds DEF StartSession
  <2>3. AnalyserTypeOK'
    BY <1>2, <2>1, <2>2, NoMapsType DEF StartSession, Die, FilesCleared, AnalyserTypeOK
  <2>4. SessionOpenInv' /\ OpenFilesInSession'
    BY <1>2, <2>1
    DEF StartSession, Die, FilesCleared, SessionOpenInv, OpenFilesInSession, NoFiles
  <2> QED BY <2>3, <2>4
<1> QED BY <1>1, <1>2, <1>3

(* A file moves: its copy is whole unless a stream still writes it.        *)
LEMMA MoveFacts ==
  ASSUME IInv, NEW d \in SessionDirs, NEW n \in Filenames, MoveFile(d, n)
  PROVE  /\ AnalyserTypeOK'
         /\ \E k \in 0 .. Len(disk[d][n]) :
              s3' = [s3 EXCEPT ![d][n] = SubSeq(disk[d][n], 1, k)]
         /\ ~OpenSession(d) => /\ s3' = [s3 EXCEPT ![d][n] = disk[d][n]]
                               /\ unlinked' = unlinked
<1>1. /\ disk \in [SessionDirs -> [Filenames -> Seq(Packets)]]
      /\ s3 \in [SessionDirs -> [Filenames -> Seq(Packets)]]
      /\ disk[d][n] \in Seq(Packets)
  BY DEF IInv, TypeOK, AnalyserTypeOK
<1>2. PICK k \in 0 .. Len(disk[d][n]) :
        /\ Streams(d, n) = {} => k = Len(disk[d][n])
        /\ s3' = [s3 EXCEPT ![d][n] = SubSeq(disk[d][n], 1, k)]
  BY DEF MoveFile
<1>3. /\ disk' = [disk EXCEPT ![d][n] = << >>]
      /\ unlinked' = unlinked \cup Streams(d, n)
      /\ UNCHANGED <<samples, osc, memory, orphans>>
  BY DEF MoveFile
<1>4. SubSeq(disk[d][n], 1, k) \in Seq(Packets)
  BY <1>1
<1>5. SubSeq(disk[d][n], 1, Len(disk[d][n])) = disk[d][n]
  BY <1>1
<1>6. s3' \in [SessionDirs -> [Filenames -> Seq(Packets)]]
  BY <1>1, <1>2, <1>4
<1>7. disk' \in [SessionDirs -> [Filenames -> Seq(Packets)]]
  <2>1. << >> \in Seq(Packets)
    OBVIOUS
  <2> QED BY <1>1, <1>3, <2>1
<1>8. AnalyserTypeOK'
  BY <1>3, <1>6, <1>7 DEF IInv, TypeOK, AnalyserTypeOK, memory, Streams
<1>9. ASSUME ~OpenSession(d) PROVE Streams(d, n) = {}
  <2>1. \A c \in Channels : oscFiles[c] # [dir |-> d, name |-> n]
    <3> SUFFICES ASSUME NEW c \in Channels, oscFiles[c] = [dir |-> d, name |-> n]
                 PROVE  FALSE
      OBVIOUS
    <3>1. oscFiles[c] # NoFile /\ oscFiles[c].dir = d
      BY NoFileAssumption DEF Files
    <3> QED BY <1>9, <3>1 DEF IInv, OpenFilesInSession, OpenSession
  <2> QED BY <2>1 DEF Streams
<1> QED BY <1>2, <1>3, <1>5, <1>8, <1>9

(* The upload of the analyser moves whole files, of no open session.       *)
LEMMA UploadMoves ==
  ASSUME IInv, NEW n \in Filenames, UploadFile(n)
  PROVE  /\ pc = "upload" /\ oscDirectoryName \in SessionDirs
         /\ AnalyserTypeOK'
         /\ disk[oscDirectoryName][n] # << >>
         /\ s3' = [s3 EXCEPT ![oscDirectoryName][n] = disk[oscDirectoryName][n]]
         /\ disk' = [disk EXCEPT ![oscDirectoryName][n] = << >>]
         /\ UNCHANGED <<samples, osc, memory, uploads>>
<1>1. pc = "upload" /\ MoveFile(oscDirectoryName, n)
  BY DEF UploadFile
<1>2. oscDirectoryName \in SessionDirs /\ ~OpenSession(oscDirectoryName)
  BY <1>1 DEF IInv, SessionOpenInv, sessionOpen, TypeOK, AnalyserTypeOK, OpenSession
<1> QED BY <1>1, <1>2, MoveFacts DEF MoveFile, uploads

(* The end of a session and the upload.                                    *)
LEMMA EndSteps ==
  ASSUME IInv,
         EndSession \/ UploadReturns \/ \E n \in Filenames : UploadFile(n)
  PROVE  AnalyserTypeOK' /\ SessionOpenInv' /\ OpenFilesInSession'
<1> USE DEF IInv, TypeOK, uploads
<1>1. CASE EndSession
  <2>1. samples' \in Seq(Messages) /\ pc = "meta"
    BY <1>1, ReceiveFacts DEF EndSession
  <2> QED BY <1>1, <2>1, NoMapsType
          DEF EndSession, AnalyserTypeOK, SessionOpenInv, OpenFilesInSession,
              sessionOpen, FilesCleared, NoFiles
<1>2. CASE UploadReturns
  BY <1>2 DEF UploadReturns, AnalyserTypeOK, SessionOpenInv, OpenFilesInSession,
              sessionOpen
<1>3. ASSUME NEW n \in Filenames, UploadFile(n)
      PROVE  AnalyserTypeOK' /\ SessionOpenInv' /\ OpenFilesInSession'
  <2>1. AnalyserTypeOK' /\ UNCHANGED memory
    BY <1>3, UploadMoves
  <2> QED BY <2>1 DEF SessionOpenInv, OpenFilesInSession, sessionOpen, memory
<1> QED BY <1>1, <1>2, <1>3

(* The steps of a frame up to a full superframe.                           *)
LEMMA FrameSteps ==
  ASSUME IInv,
         IgnoreMessage \/ AcceptMeta \/ RejectFrame \/ MergeFrame
  PROVE  AnalyserTypeOK' /\ SessionOpenInv' /\ OpenFilesInSession'
<1> USE DEF IInv, TypeOK, uploads
<1>1. CASE IgnoreMessage
  BY <1>1, ReceiveFacts DEF IgnoreMessage, AnalyserTypeOK, SessionOpenInv,
                            OpenFilesInSession, sessionOpen, memory
<1>2. CASE AcceptMeta
  <2>1. message \in Messages /\ samples' \in Seq(Messages) /\ pc = "meta"
    BY <1>2, ReceiveFacts DEF AcceptMeta
  <2>2. message \in MetaMsg /\ message # Nothing
    BY <1>2, <2>1, MessageKinds, NothingAssumption DEF AcceptMeta
  <2> QED BY <1>2, <2>1, <2>2
          DEF AcceptMeta, AnalyserTypeOK, SessionOpenInv, OpenFilesInSession,
              sessionOpen
<1>3. CASE RejectFrame
  BY <1>3, ReceiveFacts DEF RejectFrame, AnalyserTypeOK, SessionOpenInv,
                            OpenFilesInSession, sessionOpen
<1>4. CASE MergeFrame
  <2> DEFINE c == receivedMeta.channelId
  <2>1. message \in Messages /\ samples' \in Seq(Messages) /\ pc = "frame"
    BY <1>4, ReceiveFacts DEF MergeFrame
  <2>2. c \in Channels
    BY <2>1 DEF AnalyserTypeOK, MetaMsg
  <2>3. Merged(c) \in SuperFrames
    BY <1>4, <2>1, <2>2, MergedType, MessageKinds DEF MergeFrame
  <2>4. superFrameOffsets[c] + 1 \in Slots
    BY <1>4, <2>2, SizesAssumption DEF MergeFrame, Fills, AnalyserTypeOK, Slots
  <2> QED BY <1>4, <2>1, <2>2, <2>3, <2>4
          DEF MergeFrame, AnalyserTypeOK, SessionOpenInv, OpenFilesInSession,
              sessionOpen
<1> QED BY <1>1, <1>2, <1>3, <1>4

(* A full superframe becomes a packet ...                                  *)
LEMMA CompleteStep ==
  ASSUME IInv, CompleteSuperFrame
  PROVE  AnalyserTypeOK' /\ SessionOpenInv' /\ OpenFilesInSession'
<1> USE DEF IInv, TypeOK, uploads
<1> DEFINE c == receivedMeta.channelId
           packet == [channelId |-> c, frameSequence |-> receivedMeta.frameSequence,
                      session |-> receivedMeta.session, frames |-> Merged(c)]
<1>1. message \in Messages /\ samples' \in Seq(Messages) /\ pc = "frame"
  BY ReceiveFacts DEF CompleteSuperFrame
<1>2. receivedMeta \in MetaMsg
  BY <1>1 DEF AnalyserTypeOK
<1>3. c \in Channels /\ receivedMeta.frameSequence \in Nat
      /\ receivedMeta.session \in Dirs \cup {NoDir}
  BY <1>2 DEF MetaMsg
<1>4. Merged(c) \in SuperFrames
  BY <1>1, <1>3, MergedType, MessageKinds DEF CompleteSuperFrame
<1>5. packet \in Packets /\ packet # Nothing
  BY <1>3, <1>4, NothingAssumption DEF Packets
<1>6. /\ superFrames' = [superFrames EXCEPT ![c] = Merged(c)]
      /\ superFrameOffsets' = [superFrameOffsets EXCEPT ![c] = 0]
      /\ oscBuffer' = packet
      /\ osc' = IF Len(osc) < OscMaxMsg THEN Append(osc, packet) ELSE osc
      /\ pc' = "write"
      /\ UNCHANGED <<disk, s3, receivedMeta, oscDirectoryName, oscFiles, uploads>>
  BY DEF CompleteSuperFrame
<1> HIDE DEF packet
<1>7. osc' \in Seq(Packets)
  BY <1>5, <1>6 DEF AnalyserTypeOK
<1>8. 0 \in Slots
  BY SizesAssumption DEF Slots
<1> QED BY <1>1, <1>2, <1>3, <1>4, <1>5, <1>6, <1>7, <1>8
        DEF AnalyserTypeOK, SessionOpenInv, OpenFilesInSession, sessionOpen

(* ... that is written to the channel's file in the open session.          *)
LEMMA WriteStep ==
  ASSUME IInv, WritePacket
  PROVE  AnalyserTypeOK' /\ SessionOpenInv' /\ OpenFilesInSession'
<1> USE DEF IInv, TypeOK, uploads
<1> DEFINE c == receivedMeta.channelId
           opens == FirstPacket(c)
           file == IF opens
                   THEN [dir |-> oscDirectoryName, name |-> receivedMeta.filename]
                   ELSE oscFiles[c]
           before == IF opens THEN << >> ELSE disk[file.dir][file.name]
<1>1. receivedMeta \in MetaMsg /\ oscBuffer \in Packets /\ sessionOpen /\ pc = "write"
  BY DEF WritePacket, AnalyserTypeOK, SessionOpenInv
<1>2. c \in Channels /\ receivedMeta.filename \in Filenames
      /\ receivedMeta.filename[1] = c
  BY <1>1 DEF MetaMsg
<1>3. oscDirectoryName \in SessionDirs
  BY <1>1 DEF sessionOpen, AnalyserTypeOK
<1>4. /\ file \in Files
      /\ file.dir = oscDirectoryName
      /\ file.name[1] = c
      /\ file.dir \in SessionDirs
      /\ file.name \in Filenames
  <2>1. CASE opens
    BY <1>2, <1>3, <2>1 DEF Files
  <2>2. CASE ~opens
    BY <1>2, <1>3, <2>2 DEF FirstPacket, Files, AnalyserTypeOK, OpenFilesInSession
  <2> QED BY <2>1, <2>2
<1>5. before \in Seq(Packets)
  BY <1>4 DEF AnalyserTypeOK
<1>6. /\ oscFiles' = [oscFiles EXCEPT ![c] = file]
      /\ disk' = IF c \in unlinked THEN disk
                 ELSE [disk EXCEPT ![file.dir][file.name] = Append(before, oscBuffer)]
      /\ pc' = "meta"
      /\ UNCHANGED <<samples, osc, s3, receivedMeta, oscDirectoryName, superFrames,
                     superFrameOffsets, oscBuffer, uploads>>
  BY DEF WritePacket
<1>7. Append(before, oscBuffer) \in Seq(Packets)
  BY <1>1, <1>5
<1> HIDE DEF file, before, c
<1>8. disk' \in [SessionDirs -> [Filenames -> Seq(Packets)]]
  BY <1>4, <1>6, <1>7 DEF AnalyserTypeOK
<1>9. AnalyserTypeOK'
  BY <1>2, <1>4, <1>6, <1>8 DEF AnalyserTypeOK
<1>10. SessionOpenInv' /\ OpenFilesInSession'
  BY <1>1, <1>2, <1>4, <1>6
  DEF SessionOpenInv, OpenFilesInSession, sessionOpen, AnalyserTypeOK
<1> QED BY <1>9, <1>10

(* A crash leaves a prefix of every file.                                  *)
LEMMA CrashStep ==
  ASSUME IInv, NEW kept \in [Channels -> Nat], Crash(kept)
  PROVE  AnalyserTypeOK' /\ SessionOpenInv' /\ OpenFilesInSession'
<1> USE DEF IInv, TypeOK, uploads
<1>1. ASSUME NEW d \in SessionDirs, NEW n \in Filenames
      PROVE  Survives(d, n, kept) \in Seq(Packets)
  <2> DEFINE o == CHOOSE c \in Streams(d, n) : TRUE
  <2>1. disk[d][n] \in Seq(Packets)
    BY DEF AnalyserTypeOK
  <2>2. CASE Streams(d, n) # {}
    <3>1. o \in Channels /\ oscFiles[o] = [dir |-> d, name |-> n]
      BY <2>2 DEF Streams
    <3>2. Survives(d, n, kept) = SubSeq(disk[d][n], 1, kept[o])
      BY <2>2 DEF Survives
    <3>3. kept[o] \in Nat /\ kept[o] <= Written(o)
      BY <3>1 DEF Crash
    <3>4. kept[o] <= Len(disk[d][n])
      BY <2>1, <3>1, <3>3 DEF Written
    <3> HIDE DEF o
    <3> QED BY <2>1, <3>2, <3>3, <3>4
  <2>3. CASE Streams(d, n) = {}
    BY <2>1, <2>3 DEF Survives
  <2> QED BY <2>2, <2>3
<1>2. disk' \in [SessionDirs -> [Filenames -> Seq(Packets)]]
  BY <1>1 DEF Crash
<1>3. AnalyserTypeOK'
  <2>1. orphans' \subseteq SessionDirs
    BY DEF Crash, SessionOpenInv, sessionOpen, AnalyserTypeOK
  <2> QED BY <1>2, <2>1, NoMapsType DEF Crash, Die, AnalyserTypeOK
<1>4. SessionOpenInv' /\ OpenFilesInSession'
  BY DEF Crash, Die, SessionOpenInv, OpenFilesInSession, NoFiles
<1> QED BY <1>3, <1>4

(* An upload that outlived its analyser leaves the analyser's memory alone. *)
LEMMA OrphanHolds ==
  ASSUME IInv, OrphanStep
  PROVE  IInv'
<1>1. UNCHANGED <<jamVars, crashes>>
  BY DEF OrphanStep
<1>2. ASSUME AnalyserTypeOK', UNCHANGED memory PROVE IInv'
  BY <1>1, <1>2, TypeFromParts
  DEF IInv, SessionOpenInv, OpenFilesInSession, sessionOpen, memory
<1>3. PICK d \in orphans : OrphanEnds(d) \/ \E n \in Filenames : OrphanMoves(d, n)
  BY DEF OrphanStep
<1>4. d \in SessionDirs
  BY DEF IInv, TypeOK, AnalyserTypeOK
<1>5. CASE OrphanEnds(d)
  <2>1. orphans' \subseteq SessionDirs /\ unlinked' \subseteq Channels
    BY <1>5 DEF OrphanEnds, IInv, TypeOK, AnalyserTypeOK
  <2>2. UNCHANGED <<samples, osc, disk, s3, memory>>
    BY <1>5 DEF OrphanEnds
  <2>3. AnalyserTypeOK'
    BY <2>1, <2>2 DEF IInv, TypeOK, AnalyserTypeOK, memory
  <2> QED BY <1>2, <2>2, <2>3
<1>6. ASSUME NEW n \in Filenames, OrphanMoves(d, n) PROVE IInv'
  <2>1. MoveFile(d, n)
    BY <1>6 DEF OrphanMoves
  <2>2. AnalyserTypeOK' /\ UNCHANGED memory
    BY <1>4, <2>1, MoveFacts DEF MoveFile
  <2> QED BY <1>2, <2>2
<1> QED BY <1>3, <1>5, <1>6

(* What other proofs need of such an upload.                               *)
LEMMA OrphanFacts ==
  ASSUME IInv, OrphanStep
  PROVE  /\ UNCHANGED <<samples, osc, memory, jamVars, crashes>>
         /\ orphans' \subseteq orphans
         /\ \E d \in orphans : \/ OrphanEnds(d)
                              \/ \E n \in Filenames : MoveFile(d, n)
<1>1. PICK d \in orphans : OrphanEnds(d) \/ \E n \in Filenames : OrphanMoves(d, n)
  BY DEF OrphanStep
<1>2. CASE OrphanEnds(d)
  BY <1>2 DEF OrphanEnds, OrphanStep
<1>3. ASSUME NEW n \in Filenames, OrphanMoves(d, n)
      PROVE  MoveFile(d, n) /\ UNCHANGED <<samples, osc, memory, orphans>>
  BY <1>3 DEF OrphanMoves, MoveFile
<1> QED BY <1>1, <1>2, <1>3 DEF OrphanStep

(* Jamulus and oscserver touch the queues only.                            *)
LEMMA SendType ==
  ASSUME TypeOK, NEW m \in Messages, Send(m)
  PROVE  samples' \in Seq(Messages)
<1>1. samples \in Seq(Messages)
  BY DEF TypeOK, AnalyserTypeOK
<1>2. Append(samples, m) \in Seq(Messages)
  BY <1>1
<1> QED BY <1>1, <1>2 DEF Send

LEMMA QueueSteps ==
  ASSUME IInv, Jamulus \/ OscServerReceive
  PROVE  IInv'
<1> USE DEF IInv
<1>1. ASSUME UNCHANGED <<disk, s3, memory, uploads>>, samples' \in Seq(Messages),
             osc' \in Seq(Packets)
      PROVE  AnalyserTypeOK' /\ SessionOpenInv' /\ OpenFilesInSession'
  BY <1>1 DEF TypeOK, AnalyserTypeOK, SessionOpenInv, OpenFilesInSession, sessionOpen,
              memory, uploads
<1>2. osc \in Seq(Packets) /\ samples \in Seq(Messages)
  BY DEF TypeOK, AnalyserTypeOK
<1>3. ASSUME NEW d \in Dirs, JamStart(d) PROVE IInv'
  <2> DEFINE m == [size |-> StartBytes, metaType |-> startSession, sessionDir |-> d]
  <2>1. m \in Messages
    BY DEF Messages, StartMsg
  <2>2. samples' \in Seq(Messages)
    BY <1>3, <2>1, SendType DEF JamStart
  <2> QED BY <1>1, <1>2, <1>3, <2>2 DEF JamStart, TypeOK
<1>4. CASE JamEnd
  <2>1. [size |-> EndBytes, metaType |-> endSession] \in Messages
    BY DEF Messages, EndMsg
  <2>2. samples' \in Seq(Messages)
    BY <1>4, <2>1, SendType DEF JamEnd
  <2> QED BY <1>1, <1>2, <1>4, <2>2 DEF JamEnd, TypeOK
<1>5. ASSUME NEW c \in Channels, NEW shape \in FrameShapes, JamMeta(c, shape)
      PROVE  IInv'
  <2> DEFINE id == [session |-> jamSession, channelId |-> c,
                    frameSequence |-> frameSequence]
             m == [size |-> AudioMetaBytes, metaType |-> audioFrame, channelId |-> c,
                   frameSequence |-> frameSequence, filename |-> <<c, client[c]>>,
                   session |-> jamSession]
  <2>1. m \in Messages
    BY DEF Messages, MetaMsg, Filenames, TypeOK
  <2>2. samples' \in Seq(Messages)
    BY <1>5, <2>1, SendType DEF JamMeta
  <2>3. jamPending' \in FrameMsg
    BY <1>5, ShapesAssumption DEF JamMeta, FrameMsg, FrameIds, TypeOK
  <2> QED BY <1>1, <1>2, <1>5, <2>2, <2>3 DEF JamMeta, TypeOK
<1>6. CASE JamFrame
  <2>1. jamPending \in Messages
    BY <1>6 DEF JamFrame, Messages, TypeOK
  <2>2. samples' \in Seq(Messages)
    BY <1>6, <2>1, SendType DEF JamFrame
  <2> QED BY <1>1, <1>2, <1>6, <2>2 DEF JamFrame, TypeOK
<1>7. ASSUME NEW c \in Channels, NEW k \in Clients, JamChangeClient(c, k) PROVE IInv'
  BY <1>1, <1>2, <1>7 DEF JamChangeClient, TypeOK, analyserVars
<1>8. CASE OscServerReceive
  <2>1. osc' \in Seq(Packets)
    BY <1>2, <1>8 DEF OscServerReceive
  <2> QED BY <1>1, <1>2, <1>8, <2>1 DEF OscServerReceive, TypeOK, jamVars
<1> QED BY <1>3, <1>4, <1>5, <1>6, <1>7, <1>8 DEF Jamulus

LEMMA StepHolds == IInv /\ [Next]_vars => IInv'
<1> SUFFICES ASSUME IInv, [Next]_vars PROVE IInv'
  OBVIOUS
<1>1. CASE Start
  BY <1>1, StartUpSteps, TypeFromParts DEF Start, IInv
<1>2. CASE Analyse
  BY <1>2, StartUpSteps, EndSteps, FrameSteps, CompleteStep, WriteStep, TypeFromParts
  DEF Analyse, AnalyserStep, IInv
<1>3. CASE Jamulus \/ OscServerReceive
  BY <1>3, QueueSteps
<1>4. CASE Kill
  <2>1. PICK kept \in [Channels -> 0 .. MaxFrames] : Crash(kept)
    BY <1>4 DEF Kill
  <2>2. kept \in [Channels -> Nat]
    BY BoundsAssumption
  <2>3. AnalyserTypeOK' /\ SessionOpenInv' /\ OpenFilesInSession'
    BY <2>1, <2>2, CrashStep
  <2> QED BY <1>4, <2>3 DEF Kill, IInv, TypeOK, jamVars
<1>5. CASE UNCHANGED vars
  BY <1>5 DEF vars, analyserVars, memory, uploads, jamVars, IInv, TypeOK, AnalyserTypeOK,
              SessionOpenInv, OpenFilesInSession, sessionOpen
<1>6. CASE OrphanStep
  BY <1>6, OrphanHolds
<1> QED BY <1>1, <1>2, <1>3, <1>4, <1>5, <1>6 DEF Next

(* The strengthened invariant holds in every reachable state.              *)
LEMMA IInvHolds == Spec => []IInv
<1> QED BY InitHolds, StepHolds, PTL DEF Spec

-----------------------------------------------------------------------------
(* Every variable keeps its type: a marker or an announcement is never     *)
(* merged as audio, an announcement is at hand where a frame is handled,   *)
(* and offsets stay inside the superframe (main.cpp:171-272).              *)
THEOREM TypeCorrect == Spec => []TypeOK
<1>1. IInv => TypeOK BY DEF IInv
<1> QED BY IInvHolds, <1>1, PTL

(* Open files lie in the directory of the open session, and none is open   *)
(* while the directory is uploaded (main.cpp:186, 196, 264).               *)
THEOREM FilesBelongToSession == Spec => []OpenFilesInSession
<1>1. IInv => OpenFilesInSession BY DEF IInv
<1> QED BY IInvHolds, <1>1, PTL

-----------------------------------------------------------------------------
(***************************************************************************)
(* Proof that announcements and frames stay together on a queue that loses *)
(* nothing, through restarts, flushes and sessions opened by mistake.      *)
(***************************************************************************)
(* The queue alone: every announcement in s has its frame right behind it. *)
Paired(s) ==
  \A i \in 1 .. Len(s) :
    s[i] \in MetaMsg => i + 1 \in 1 .. Len(s) /\ Announces(s[i], s[i + 1])

(* The invariant that makes the property inductive.                        *)
PairInv == Paired(Upcoming) /\ PairsStayTogether

-----------------------------------------------------------------------------
(* No message is an announcement and something else.                       *)
LEMMA NotMeta ==
  /\ \A m \in FrameMsg : m \notin MetaMsg
  /\ \A m \in StartMsg : m \notin MetaMsg
  /\ \A m \in EndMsg : m \notin MetaMsg
BY SizesAssumption DEF FrameMsg, StartMsg, EndMsg, MetaMsg

LEMMA UpcomingType ==
  ASSUME TypeOK
  PROVE  Upcoming \in Seq(Messages) /\ samples \in Seq(Messages)
<1>1. samples \in Seq(Messages)
  BY DEF TypeOK, AnalyserTypeOK
<1>2. jamPending # Nothing => jamPending \in Messages
  BY DEF TypeOK, Messages
<1> QED BY <1>1, <1>2 DEF Upcoming

(* Adding a message that announces nothing, or a pair, keeps a queue paired. *)
LEMMA PairedAppend ==
  ASSUME NEW s \in Seq(Messages), Paired(s), NEW m \in Messages, m \notin MetaMsg
  PROVE  Paired(Append(s, m))
<1>1. Len(Append(s, m)) = Len(s) + 1 /\ Append(s, m)[Len(s) + 1] = m
      /\ \A i \in 1 .. Len(s) : Append(s, m)[i] = s[i]
  OBVIOUS
<1>2. Len(s) \in Nat
  OBVIOUS
<1> QED BY <1>1, <1>2 DEF Paired

LEMMA PairedAppendPair ==
  ASSUME NEW s \in Seq(Messages), Paired(s), NEW m \in MetaMsg, NEW f \in FrameMsg,
         Announces(m, f)
  PROVE  Paired(Append(Append(s, m), f))
<1> DEFINE t == Append(Append(s, m), f)
<1>0. m \in Messages /\ f \in Messages
  BY DEF Messages
<1>1. /\ Len(t) = Len(s) + 2
      /\ t[Len(s) + 1] = m
      /\ t[Len(s) + 2] = f
      /\ \A i \in 1 .. Len(s) : t[i] = s[i]
  BY <1>0
<1>2. Len(s) \in Nat
  OBVIOUS
<1>3. f \notin MetaMsg
  BY NotMeta
<1> HIDE DEF t
<1> QED BY <1>1, <1>2, <1>3 DEF Paired

(* Reading the first message keeps the rest paired.                        *)
LEMMA PairedTail ==
  ASSUME NEW s \in Seq(Messages), Paired(s), s # << >>
  PROVE  /\ Paired(Tail(s))
         /\ s[1] \in MetaMsg => Tail(s) # << >> /\ Announces(s[1], Head(Tail(s)))
<1>1. Len(Tail(s)) = Len(s) - 1 /\ \A i \in 1 .. Len(s) - 1 : Tail(s)[i] = s[i + 1]
  OBVIOUS
<1>2. Len(s) \in Nat /\ Len(s) >= 1
  OBVIOUS
<1>3. Paired(Tail(s))
  <2> SUFFICES ASSUME NEW i \in 1 .. Len(Tail(s)), Tail(s)[i] \in MetaMsg
               PROVE  i + 1 \in 1 .. Len(Tail(s)) /\ Announces(Tail(s)[i], Tail(s)[i + 1])
    BY DEF Paired
  <2>1. i \in 1 .. Len(s) - 1 /\ Tail(s)[i] = s[i + 1] /\ i + 1 \in 1 .. Len(s)
    BY <1>1, <1>2
  <2>2. (i + 1) + 1 \in 1 .. Len(s) /\ Announces(s[i + 1], s[(i + 1) + 1])
    BY <2>1 DEF Paired
  <2>3. i + 1 \in 1 .. Len(s) - 1
    BY <1>2, <2>1, <2>2
  <2>4. Tail(s)[i + 1] = s[(i + 1) + 1]
    BY <1>1, <2>3
  <2> QED BY <1>1, <2>1, <2>2, <2>3, <2>4
<1>4. ASSUME s[1] \in MetaMsg
      PROVE  Tail(s) # << >> /\ Announces(s[1], Head(Tail(s)))
  <2>1. 1 \in 1 .. Len(s) /\ 1 + 1 \in 1 .. Len(s) /\ Announces(s[1], s[1 + 1])
    BY <1>2, <1>4 DEF Paired
  <2>2. Tail(s) # << >> /\ Tail(s)[1] = s[1 + 1]
    <3>1. Len(s) >= 2 /\ Len(Tail(s)) >= 1
      BY <1>1, <1>2, <2>1
    <3>2. 1 \in 1 .. Len(s) - 1
      BY <1>2, <3>1
    <3>3. Tail(s)[1] = s[1 + 1]
      BY <1>1, <3>2
    <3> QED BY <3>1, <3>3
  <2>3. Head(Tail(s)) = Tail(s)[1]
    BY <2>2
  <2> QED BY <2>1, <2>2, <2>3
<1> QED BY <1>3, <1>4

-----------------------------------------------------------------------------
LEMMA PairInit == Init => PairInv
<1> SUFFICES ASSUME Init PROVE PairInv
  OBVIOUS
<1>1. Upcoming = << >> /\ pc # "frame"
  BY DEF Init, AnalyserInit, Upcoming
<1> QED BY <1>1 DEF PairInv, Paired, PairsStayTogether

(* Receiving takes the first of the upcoming messages.                     *)
LEMMA ReceiveUpcoming ==
  ASSUME TypeOK, samples # << >>, samples' = Tail(samples), UNCHANGED jamPending
  PROVE  /\ Upcoming' = Tail(Upcoming)
         /\ Upcoming # << >>
         /\ Upcoming[1] = message
<1>1. samples \in Seq(Messages)
  BY UpcomingType
<1>2. Tail(Append(samples, jamPending)) = Append(Tail(samples), jamPending)
      /\ Append(samples, jamPending)[1] = Head(samples)
      /\ Append(samples, jamPending) # << >>
  BY <1>1, SMTT(30)
<1>3. samples[1] = Head(samples)
  BY <1>1
<1> QED BY <1>1, <1>2, <1>3 DEF Upcoming, message

(* The steps of the analyser that receive something.                       *)
LEMMA PairReceive ==
  ASSUME IInv, PairInv, samples # << >>, samples' = Tail(samples), UNCHANGED jamPending,
         pc' # "frame" \/ (AcceptMeta /\ pc' = "frame") \/ (pc' = pc /\ pc # "frame")
  PROVE  PairInv'
<1>1. Upcoming' = Tail(Upcoming) /\ Upcoming # << >> /\ Upcoming[1] = message
  BY ReceiveUpcoming DEF IInv
<1>2. Upcoming \in Seq(Messages)
  BY UpcomingType DEF IInv
<1>3. Paired(Tail(Upcoming))
      /\ (message \in MetaMsg =>
            Tail(Upcoming) # << >> /\ Announces(message, Head(Tail(Upcoming))))
  BY <1>1, <1>2, PairedTail DEF PairInv
<1>4. Paired(Upcoming)'
  BY <1>1, <1>3 DEF Paired, Announces
<1>5. PairsStayTogether'
  <2>1. CASE pc' # "frame"
    BY <2>1 DEF PairsStayTogether
  <2>2. CASE AcceptMeta /\ pc' = "frame"
    <3>1. message \in Messages
      BY <2>2, ReceiveFacts DEF AcceptMeta, IInv
    <3>2. message \in MetaMsg /\ receivedMeta' = message
      BY <2>2, <3>1, MessageKinds DEF AcceptMeta
    <3> QED BY <1>1, <1>3, <3>2 DEF PairsStayTogether, Announces
  <2> QED BY <2>1, <2>2
<1> QED BY <1>4, <1>5 DEF PairInv

(* Steps that leave the queue and the pending frame alone.                 *)
LEMMA PairQuiet ==
  ASSUME PairInv, UNCHANGED <<samples, jamPending>>,
         pc' # "frame" \/ UNCHANGED <<pc, receivedMeta>>
  PROVE  PairInv'
BY DEF PairInv, Paired, PairsStayTogether, Upcoming, Announces

LEMMA PairAnalyse ==
  ASSUME IInv, PairInv, AnalyserStep, UNCHANGED jamPending
  PROVE  PairInv'
<1>1. CASE FlushMessage
  BY <1>1, PairReceive DEF FlushMessage, memory
<1>2. CASE FlushDone \/ UploadReturns \/ WritePacket
  BY <1>2, PairQuiet DEF FlushDone, UploadReturns, WritePacket
<1>3. CASE \E n \in Filenames : UploadFile(n)
  BY <1>3, UploadMoves, PairQuiet DEF memory
<1>4. CASE StartSession
  BY <1>4, PairReceive DEF StartSession, Receive, Die
<1>5. CASE EndSession \/ RejectFrame \/ MergeFrame \/ CompleteSuperFrame
  BY <1>5, PairReceive
  DEF EndSession, RejectFrame, MergeFrame, CompleteSuperFrame, Receive
<1>6. CASE IgnoreMessage
  BY <1>6, PairReceive DEF IgnoreMessage, Receive, memory
<1>7. CASE AcceptMeta
  BY <1>7, PairReceive DEF AcceptMeta, Receive
<1> QED BY <1>1, <1>2, <1>3, <1>4, <1>5, <1>6, <1>7 DEF AnalyserStep

(* A longer queue has the same head.                                       *)
LEMMA PairLonger ==
  ASSUME IInv, PairInv, UNCHANGED <<pc, receivedMeta>>, Paired(Upcoming'),
         NEW m \in Messages, NEW f \in Messages,
         Upcoming' \in {Append(Upcoming, m), Append(Append(Upcoming, m), f)}
  PROVE  PairInv'
<1>1. Upcoming \in Seq(Messages)
  BY UpcomingType DEF IInv
<1>2. Upcoming # << >> => Upcoming' # << >> /\ Head(Upcoming') = Head(Upcoming)
  BY <1>1, SMTT(30)
<1>3. Paired(Upcoming)'
  BY DEF Paired, Announces
<1> QED BY <1>2, <1>3 DEF PairInv, PairsStayTogether, Announces

LEMMA PairJamulus ==
  ASSUME ~SendsAreDropped, IInv, PairInv, Jamulus
  PROVE  PairInv'
<1>0. /\ Upcoming \in Seq(Messages)
      /\ samples \in Seq(Messages)
      /\ Paired(Upcoming)
  BY UpcomingType DEF IInv, PairInv
<1>1. ASSUME NEW m \in Messages, m \notin MetaMsg, Send(m), jamPending = Nothing,
             jamPending' = Nothing, UNCHANGED memory
      PROVE  PairInv'
  <2>1. Upcoming' = Append(Upcoming, m)
    BY <1>1 DEF Send, Upcoming
  <2>2. Paired(Upcoming')
    BY <1>0, <1>1, <2>1, PairedAppend
  <2> QED BY <1>1, <2>1, <2>2, PairLonger DEF memory
<1>2. ASSUME NEW d \in Dirs, JamStart(d) PROVE PairInv'
  <2>1. [size |-> StartBytes, metaType |-> startSession, sessionDir |-> d] \in StartMsg
    BY DEF StartMsg
  <2> QED BY <1>1, <1>2, <2>1, NotMeta DEF JamStart, Messages
<1>3. CASE JamEnd
  <2>1. [size |-> EndBytes, metaType |-> endSession] \in EndMsg
    BY DEF EndMsg
  <2> QED BY <1>1, <1>3, <2>1, NotMeta DEF JamEnd, Messages
<1>4. ASSUME NEW c \in Channels, NEW shape \in FrameShapes, JamMeta(c, shape)
      PROVE  PairInv'
  <2> DEFINE id == [session |-> jamSession, channelId |-> c,
                    frameSequence |-> frameSequence]
             m == [size |-> AudioMetaBytes, metaType |-> audioFrame, channelId |-> c,
                   frameSequence |-> frameSequence, filename |-> <<c, client[c]>>,
                   session |-> jamSession]
             f == [size |-> shape.size, metaType |-> shape.metaType,
                   sessionDir |-> shape.sessionDir, audio |-> id]
  <2>1. m \in MetaMsg
    BY DEF MetaMsg, Filenames, IInv, TypeOK
  <2>2. f \in FrameMsg
    BY ShapesAssumption DEF FrameMsg, FrameIds, IInv, TypeOK
  <2>3. Announces(m, f)
    BY <2>2 DEF Announces
  <2>4. m \in Messages /\ f \in Messages /\ f # Nothing
    BY <2>1, <2>2, NothingAssumption DEF Messages
  <2>5. jamPending = Nothing /\ jamPending' = f /\ Send(m) /\ UNCHANGED memory
    BY <1>4 DEF JamMeta
  <2> HIDE DEF m, f
  <2>6. Upcoming' = Append(Append(Upcoming, m), f)
    BY <2>4, <2>5 DEF Send, Upcoming
  <2>7. Paired(Upcoming')
    BY <1>0, <2>1, <2>2, <2>3, <2>6, PairedAppendPair
  <2> QED BY <2>4, <2>5, <2>6, <2>7, PairLonger DEF memory
<1>5. CASE JamFrame
  <2>1. Upcoming' = Upcoming /\ UNCHANGED <<pc, receivedMeta>>
    BY <1>5 DEF JamFrame, Send, Upcoming, memory
  <2> QED BY <2>1 DEF PairInv, Paired, PairsStayTogether, Announces
<1>6. ASSUME NEW c \in Channels, NEW k \in Clients, JamChangeClient(c, k) PROVE PairInv'
  BY <1>6, PairQuiet DEF JamChangeClient, analyserVars, memory
<1> QED BY <1>2, <1>3, <1>4, <1>5, <1>6 DEF Jamulus

LEMMA PairStep ==
  ASSUME ~SendsAreDropped
  PROVE  IInv /\ PairInv /\ [Next]_vars => PairInv'
<1> SUFFICES ASSUME IInv, PairInv, [Next]_vars PROVE PairInv'
  OBVIOUS
<1>1. CASE Start
  BY <1>1, PairQuiet DEF Start, Boot, jamVars
<1>2. CASE Analyse
  BY <1>2, PairAnalyse DEF Analyse, jamVars
<1>3. CASE Jamulus
  BY <1>3, PairJamulus
<1>4. CASE OscServerReceive
  BY <1>4, PairQuiet DEF OscServerReceive, memory, jamVars
<1>5. CASE Kill
  BY <1>5, PairQuiet DEF Kill, Crash, Die, jamVars
<1>6. CASE UNCHANGED vars
  BY <1>6, PairQuiet DEF vars, analyserVars, memory, jamVars
<1>7. CASE OrphanStep
  BY <1>7, OrphanFacts, PairQuiet DEF memory, jamVars
<1> QED BY <1>1, <1>2, <1>3, <1>4, <1>5, <1>6, <1>7 DEF Next

(* On a queue that loses nothing, what is read as a frame is the frame     *)
(* that was announced (main.cpp:224-225).                                  *)
THEOREM PairsNeverSplit ==
  ASSUME ~SendsAreDropped
  PROVE  Spec => []PairsStayTogether
<1>1. PairInv => PairsStayTogether
  BY DEF PairInv
<1>2. IInv /\ PairInv /\ [Next]_vars => PairInv'
  BY PairStep
<1> QED BY PairInit, IInvHolds, <1>1, <1>2, PTL DEF Spec

-----------------------------------------------------------------------------
(***************************************************************************)
(* Proof that Pipeline implements Recording: whatever is sent, lost or     *)
(* killed, the recordings of the sessions Jamulus names are kept as        *)
(* Recording promises, each channel in one file.                           *)
(***************************************************************************)
(* The start markers of session d in a queue.                              *)
Markers(s, d) == {i \in 1 .. Len(s) : s[i] \in StartMsg /\ s[i].sessionDir = d}

Untouched(d) ==
  /\ d \notin orphans
  /\ \A n \in Filenames : disk[d][n] = << >> /\ s3[d][n] = << >>

(***************************************************************************)
(* A session is announced once, under a name that was not used before:     *)
(* until its marker is read nothing is in its directory.                   *)
(***************************************************************************)
MarkersOnce(s, dirs) ==
  \A d \in Dirs : \A i, j \in Markers(s, d) : i = j /\ d \in dirs

SessionsNew ==
  /\ MarkersOnce(samples, jamDirs)
  /\ \A d \in Dirs :
       d \notin jamDirs \/ Markers(samples, d) # {} =>
         oscDirectoryName # d /\ Untouched(d)

(***************************************************************************)
(* While a session is open nothing of it is archived and what there is of  *)
(* a channel is in the file that is open for it; a file is never in two    *)
(* places; a channel never has two.                                        *)
(***************************************************************************)
FilesKnown ==
  \A d \in Dirs : OpenSession(d) =>
    \A n \in Filenames :
      /\ s3[d][n] = << >>
      /\ disk[d][n] # << >> => oscFiles[n[1]] = [dir |-> d, name |-> n]

FilesInOnePlace ==
  \A d \in Dirs, n \in Filenames : disk[d][n] = << >> \/ s3[d][n] = << >>

HasFile(d, n) == disk[d][n] # << >> \/ s3[d][n] # << >>

ChannelsHaveOneFile ==
  \A d \in Dirs, n, m \in Filenames :
    n[1] = m[1] /\ HasFile(d, n) /\ HasFile(d, m) => n = m

FilesInv == FilesKnown /\ FilesInOnePlace /\ ChannelsHaveOneFile

(* The packet that is written is one of the announced channel.             *)
PacketInHand == pc = "write" => oscBuffer.channelId = receivedMeta.channelId

(***************************************************************************)
(* An upload that outlived its analyser works on a session that is over,   *)
(* and the packets of an open session reach their files.                   *)
(***************************************************************************)
OrphansOver == \A d \in Dirs : d \in orphans => oscDirectoryName # d
StreamsLinked == oscDirectoryName \in Dirs => unlinked = {}
OrphansInv == OrphansOver /\ StreamsLinked

RecInv == SessionsNew /\ FilesInv /\ OrphansInv /\ PacketInHand

-----------------------------------------------------------------------------
(* Markers of a queue from which the head was taken.                       *)
LEMMA MarkersOfTail ==
  ASSUME NEW s \in Seq(Messages), s # << >>, NEW dirs, MarkersOnce(s, dirs),
         NEW d \in Dirs
  PROVE  /\ MarkersOnce(Tail(s), dirs)
         /\ Markers(Tail(s), d) # {} => Markers(s, d) # {}
         /\ 1 \in Markers(s, d) => Markers(Tail(s), d) = {}
<1>1. \A i \in 1 .. Len(Tail(s)) : Tail(s)[i] = s[i + 1] /\ i + 1 \in 1 .. Len(s)
  OBVIOUS
<1>2. \A e \in Dirs : \A i \in Markers(Tail(s), e) :
          i \in Nat /\ i >= 1 /\ i + 1 \in Markers(s, e)
  BY <1>1 DEF Markers
<1>3. MarkersOnce(Tail(s), dirs)
  BY <1>2 DEF MarkersOnce
<1>4. 1 \in Markers(s, d) => Markers(Tail(s), d) = {}
  BY <1>2 DEF MarkersOnce
<1> QED BY <1>2, <1>3, <1>4

(* Markers of a queue to which something else was added.                   *)
LEMMA MarkersOfAppend ==
  ASSUME NEW s \in Seq(Messages), NEW m \in Messages, m \notin StartMsg
  PROVE  \A d : Markers(Append(s, m), d) = Markers(s, d)
<1>1. /\ Len(Append(s, m)) = Len(s) + 1
      /\ Append(s, m)[Len(s) + 1] = m
      /\ \A i \in 1 .. Len(s) : Append(s, m)[i] = s[i]
      /\ Len(s) \in Nat
  OBVIOUS
<1> QED BY <1>1 DEF Markers

(* A message that opens one of Jamulus's sessions is a start marker.       *)
LEMMA RealMarkers ==
  ASSUME NEW m \in Messages
  PROVE  m.metaType = startSession /\ m.sessionDir \in Dirs => m \in StartMsg
<1>1. CASE m \in StartMsg
  BY <1>1
<1>2. CASE m \in EndMsg
  BY <1>2 DEF EndMsg, startSession, endSession
<1>3. CASE m \in MetaMsg
  BY <1>3 DEF MetaMsg, startSession, audioFrame
<1>4. CASE m \in FrameMsg
  BY <1>4, NamesAssumption DEF FrameMsg
<1> QED BY <1>1, <1>2, <1>3, <1>4 DEF Messages

LEMMA OtherMessages ==
  /\ \A m \in EndMsg : m \notin StartMsg
  /\ \A m \in MetaMsg : m \notin StartMsg
  /\ \A m \in FrameMsg : m \notin StartMsg
<1>1. \A m \in StartMsg : m.metaType = startSession /\ m.sessionDir \in Dirs
  BY DEF StartMsg
<1>2. \A m \in EndMsg : m \notin StartMsg
  BY <1>1 DEF EndMsg, startSession, endSession
<1>3. \A m \in MetaMsg : m \notin StartMsg
  BY <1>1 DEF MetaMsg, startSession, audioFrame
<1>4. \A m \in FrameMsg : m \notin StartMsg
  BY <1>1, NamesAssumption DEF FrameMsg
<1> QED BY <1>2, <1>3, <1>4

-----------------------------------------------------------------------------
LEMMA InitRecords == Init => RecInv
<1> SUFFICES ASSUME Init PROVE RecInv
  OBVIOUS
<1>1. Markers(samples, NoDir) = {} /\ \A d \in Dirs : Markers(samples, d) = {}
  BY DEF Init, AnalyserInit, Markers
<1>2. \A d \in Dirs, n \in Filenames : disk[d][n] = << >> /\ s3[d][n] = << >>
  BY DEF Init, AnalyserInit, SessionDirs
<1>3. orphans = {} /\ \A d \in Dirs : oscDirectoryName # d
  BY NamesAssumption DEF Init, AnalyserInit
<1>4. SessionsNew /\ OrphansInv
  BY <1>1, <1>2, <1>3
  DEF SessionsNew, MarkersOnce, Untouched, OrphansInv, OrphansOver, StreamsLinked
<1>5. FilesInv
  BY <1>2, <1>3 DEF FilesInv, FilesKnown, OpenSession, FilesInOnePlace,
                    ChannelsHaveOneFile, HasFile
<1>6. PacketInHand
  BY DEF Init, AnalyserInit, PacketInHand
<1> QED BY <1>4, <1>5, <1>6 DEF RecInv

-----------------------------------------------------------------------------
(* A message is taken from the queue.                                      *)
LEMMA Dequeued ==
  ASSUME TypeOK, SessionsNew, samples # << >>, samples' = Tail(samples)
  PROVE  /\ MarkersOnce(samples', jamDirs)
         /\ \A d \in Dirs : Markers(samples', d) # {} => Markers(samples, d) # {}
         /\ \A d \in Dirs : 1 \in Markers(samples, d) => Markers(samples', d) = {}
<1>1. samples \in Seq(Messages) /\ MarkersOnce(samples, jamDirs)
  BY DEF TypeOK, AnalyserTypeOK, SessionsNew
<1>2. ASSUME NEW d \in Dirs
      PROVE  /\ MarkersOnce(samples', jamDirs)
             /\ Markers(samples', d) # {} => Markers(samples, d) # {}
             /\ 1 \in Markers(samples, d) => Markers(samples', d) = {}
  BY <1>1, MarkersOfTail
<1>3. MarkersOnce(samples', jamDirs)
  BY <1>2 DEF MarkersOnce
<1> QED BY <1>2, <1>3

(* No new marker, no session opened, nothing put into a closed one.        *)
LEMMA SessionsKept ==
  ASSUME SessionsNew, jamDirs' = jamDirs, MarkersOnce(samples', jamDirs),
         \A d \in Dirs :
           /\ Markers(samples', d) # {} => Markers(samples, d) # {}
           /\ oscDirectoryName' = d => oscDirectoryName = d
           /\ Untouched(d) /\ oscDirectoryName # d => Untouched(d)'
  PROVE  SessionsNew'
BY DEF SessionsNew

(* Nothing happens to the files, and no upload ends.                       *)
LEMMA FilesKept ==
  ASSUME FilesInv, UNCHANGED <<disk, s3, oscDirectoryName, oscFiles>>,
         pc = "upload" => pc' = "upload"
  PROVE  FilesInv'
BY DEF FilesInv, FilesKnown, OpenSession, FilesInOnePlace, ChannelsHaveOneFile, HasFile

(* No upload is left behind, no session opened.                            *)
LEMMA OrphansKept ==
  ASSUME OrphansInv, UNCHANGED uploads, oscDirectoryName' \in {oscDirectoryName, NoDir}
  PROVE  OrphansInv'
BY NamesAssumption DEF OrphansInv, OrphansOver, StreamsLinked, uploads

(* The steps of the analyser on messages that open and close nothing.      *)
LEMMA LoopStepsRecord ==
  ASSUME IInv, RecInv, UNCHANGED jamVars,
         \/ Boot \/ FlushMessage \/ FlushDone \/ IgnoreMessage \/ AcceptMeta
         \/ RejectFrame \/ MergeFrame \/ CompleteSuperFrame
  PROVE  RecInv'
<1>1. UNCHANGED <<disk, s3, oscDirectoryName, oscFiles, jamDirs, uploads>>
  BY DEF Boot, FlushMessage, FlushDone, IgnoreMessage, AcceptMeta, RejectFrame,
         MergeFrame, CompleteSuperFrame, memory, jamVars
<1>2. pc # "upload"
  BY DEF Boot, FlushMessage, FlushDone, IgnoreMessage, AcceptMeta, RejectFrame,
         MergeFrame, CompleteSuperFrame, Receive
<1>3. samples' = samples \/ (samples # << >> /\ samples' = Tail(samples))
  <2>1. CASE Boot \/ FlushDone
    BY <2>1 DEF Boot, FlushDone
  <2>2. CASE FlushMessage
    BY <2>2 DEF FlushMessage
  <2>3. CASE IgnoreMessage \/ AcceptMeta \/ RejectFrame \/ MergeFrame \/ CompleteSuperFrame
    <3>1. Receive("meta") \/ Receive("frame")
      BY <2>3 DEF IgnoreMessage, AcceptMeta, RejectFrame, MergeFrame, CompleteSuperFrame
    <3> QED BY <3>1 DEF Receive
  <2> QED BY <2>1, <2>2, <2>3
<1>4. /\ MarkersOnce(samples', jamDirs)
      /\ \A d \in Dirs : Markers(samples', d) # {} => Markers(samples, d) # {}
  BY <1>3, Dequeued DEF IInv, RecInv, SessionsNew
<1>5. SessionsNew'
  <2>1. \A d : Untouched(d) => Untouched(d)'
    BY <1>1 DEF Untouched, uploads
  <2> QED BY <1>1, <1>4, <2>1, SessionsKept DEF RecInv
<1>6. FilesInv' /\ OrphansInv'
  BY <1>1, <1>2, FilesKept, OrphansKept DEF RecInv
<1>7. PacketInHand'
  <2>1. CASE CompleteSuperFrame
    BY <2>1 DEF CompleteSuperFrame, PacketInHand
  <2>2. CASE FlushMessage \/ IgnoreMessage
    BY <2>2 DEF FlushMessage, IgnoreMessage, memory, PacketInHand, RecInv
  <2>3. CASE Boot \/ FlushDone \/ AcceptMeta \/ RejectFrame \/ MergeFrame
    BY <2>3 DEF Boot, FlushDone, AcceptMeta, RejectFrame, MergeFrame, PacketInHand
  <2> QED BY <2>1, <2>2, <2>3
<1> QED BY <1>5, <1>6, <1>7 DEF RecInv

(* A session is opened: one of Jamulus's is new.                           *)
LEMMA StartRecords ==
  ASSUME IInv, RecInv, UNCHANGED jamVars, StartSession
  PROVE  /\ RecInv'
         /\ UNCHANGED <<disk, s3>>
         /\ ~sessionOpen
         /\ \A d \in Dirs : oscDirectoryName' = d => Untouched(d)
<1>1. /\ message \in Messages /\ pc = "meta" /\ samples # << >>
      /\ samples' = Tail(samples)
      /\ samples \in Seq(Messages)
  BY ReceiveFacts DEF StartSession, IInv, Receive, TypeOK, AnalyserTypeOK
<1>2. /\ UNCHANGED <<disk, s3, jamDirs, orphans>>
      /\ unlinked' = {}
      /\ oscDirectoryName' \in {message.sessionDir, NoDir}
      /\ message.metaType = startSession
      /\ oscDirectoryName = NoDir
      /\ pc' \in {"meta", "down"}
  BY <1>1 DEF StartSession, Die, jamVars, sessionOpen
<1>3. ASSUME NEW d \in Dirs, oscDirectoryName' = d
      PROVE  1 \in Markers(samples, d)
  <2>1. message.sessionDir = d
    BY <1>2, <1>3, NamesAssumption
  <2>2. message \in StartMsg
    BY <1>1, <1>2, <2>1, RealMarkers
  <2>3. 1 \in 1 .. Len(samples) /\ samples[1] = message
    BY <1>1 DEF message
  <2> QED BY <2>1, <2>2, <2>3 DEF Markers
<1>4. /\ MarkersOnce(samples', jamDirs)
      /\ \A d \in Dirs : Markers(samples', d) # {} => Markers(samples, d) # {}
      /\ \A d \in Dirs : 1 \in Markers(samples, d) => Markers(samples', d) = {} /\ d \in jamDirs
  BY <1>1, Dequeued DEF IInv, RecInv, SessionsNew, MarkersOnce
<1>5. \A d \in Dirs : oscDirectoryName' = d => Untouched(d)
  BY <1>3 DEF RecInv, SessionsNew
<1>6. SessionsNew'
  BY <1>2, <1>3, <1>4 DEF RecInv, SessionsNew, Untouched
<1>7. FilesInv'
  BY <1>2, <1>5 DEF RecInv, FilesInv, FilesKnown, OpenSession, FilesInOnePlace,
                    ChannelsHaveOneFile, HasFile, Untouched
<1>8. OrphansInv'
  BY <1>2, <1>5 DEF OrphansInv, OrphansOver, StreamsLinked, Untouched
<1>9. PacketInHand'
  BY <1>2 DEF PacketInHand
<1> QED BY <1>2, <1>5, <1>6, <1>7, <1>8, <1>9 DEF RecInv, sessionOpen

-----------------------------------------------------------------------------
LEMMA EndRecords ==
  ASSUME IInv, RecInv, UNCHANGED jamVars, EndSession
  PROVE  RecInv'
<1>1. /\ samples # << >> /\ samples' = Tail(samples)
      /\ UNCHANGED <<disk, s3, oscDirectoryName, jamDirs, uploads>>
      /\ pc' = "upload"
  BY DEF EndSession, Receive, jamVars
<1>2. SessionsNew'
  <2>1. /\ MarkersOnce(samples', jamDirs)
        /\ \A d \in Dirs : Markers(samples', d) # {} => Markers(samples, d) # {}
    BY <1>1, Dequeued DEF IInv, RecInv
  <2>2. \A d : Untouched(d) => Untouched(d)'
    BY <1>1 DEF Untouched, uploads
  <2> QED BY <1>1, <2>1, <2>2, SessionsKept DEF RecInv
<1>3. FilesInv'
  BY <1>1 DEF RecInv, FilesInv, FilesKnown, OpenSession, FilesInOnePlace,
              ChannelsHaveOneFile, HasFile
<1>4. OrphansInv'
  BY <1>1, OrphansKept DEF RecInv
<1> QED BY <1>1, <1>2, <1>3, <1>4 DEF RecInv, PacketInHand

(* A file moves, out of a session that is over.                            *)
LEMMA MoveRecords ==
  ASSUME IInv, RecInv, NEW d \in SessionDirs, NEW n \in Filenames, MoveFile(d, n),
         jamDirs' = jamDirs, ~OpenSession(d) \/ d \notin Dirs
  PROVE  RecInv'
<1>1. /\ disk \in [SessionDirs -> [Filenames -> Seq(Packets)]]
      /\ s3 \in [SessionDirs -> [Filenames -> Seq(Packets)]]
  BY DEF IInv, TypeOK, AnalyserTypeOK
<1>2. /\ UNCHANGED <<samples, jamDirs, pc, oscDirectoryName, oscFiles, receivedMeta,
                     oscBuffer, orphans>>
      /\ disk[d][n] # << >>
      /\ disk' = [disk EXCEPT ![d][n] = << >>]
  BY DEF MoveFile, memory
<1>3. PICK k \in 0 .. Len(disk[d][n]) :
        s3' = [s3 EXCEPT ![d][n] = SubSeq(disk[d][n], 1, k)]
  BY MoveFacts
<1>4. \A e \in SessionDirs, m \in Filenames :
        /\ e = d /\ m = n => disk'[e][m] = << >>
        /\ e # d \/ m # n => disk'[e][m] = disk[e][m] /\ s3'[e][m] = s3[e][m]
  BY <1>1, <1>2, <1>3
<1>5. Dirs \subseteq SessionDirs
  BY DEF SessionDirs
<1>6. SessionsNew'
  <2>1. ASSUME NEW e \in Dirs, Untouched(e) PROVE Untouched(e)'
    <3>1. e # d
      BY <1>2, <2>1 DEF Untouched
    <3> QED BY <1>2, <1>4, <1>5, <2>1, <3>1 DEF Untouched
  <2> QED BY <1>2, <2>1, SessionsKept DEF RecInv, SessionsNew
<1>7. FilesInv'
  <2>1. FilesKnown'
    <3>1. \A e \in Dirs : OpenSession(e)' => OpenSession(e) /\ e # d
      BY <1>2 DEF OpenSession
    <3> QED BY <1>2, <1>4, <1>5, <3>1 DEF RecInv, FilesInv, FilesKnown
  <2>2. FilesInOnePlace'
    BY <1>4, <1>5 DEF RecInv, FilesInv, FilesInOnePlace
  <2>3. \A e \in Dirs, m \in Filenames : HasFile(e, m)' => HasFile(e, m)
    BY <1>2, <1>4, <1>5 DEF HasFile
  <2>4. ChannelsHaveOneFile'
    BY <2>3 DEF RecInv, FilesInv, ChannelsHaveOneFile
  <2> QED BY <2>1, <2>2, <2>4 DEF FilesInv
<1>8. OrphansInv'
  <2>1. ASSUME oscDirectoryName \in Dirs PROVE unlinked' = {}
    <3>1. ~OpenSession(d)
      BY <2>1 DEF OpenSession
    <3> QED BY <2>1, <3>1, MoveFacts DEF RecInv, OrphansInv, StreamsLinked
  <2> QED BY <1>2, <2>1 DEF RecInv, OrphansInv, OrphansOver, StreamsLinked
<1>9. PacketInHand'
  BY <1>2 DEF RecInv, PacketInHand
<1> QED BY <1>6, <1>7, <1>8, <1>9 DEF RecInv

LEMMA UploadRecords ==
  ASSUME IInv, RecInv, UNCHANGED jamVars, NEW n \in Filenames, UploadFile(n)
  PROVE  RecInv'
<1>1. oscDirectoryName \in SessionDirs /\ ~OpenSession(oscDirectoryName)
  BY UploadMoves DEF OpenSession
<1> QED BY <1>1, MoveRecords DEF UploadFile, jamVars

(* The orphan of a session of Jamulus never meets that session again.      *)
LEMMA OrphanRecords ==
  ASSUME IInv, RecInv, OrphanStep
  PROVE  RecInv'
<1>1. jamDirs' = jamDirs /\ orphans' \subseteq orphans
  BY OrphanFacts DEF jamVars
<1>2. PICK d \in orphans : OrphanEnds(d) \/ \E n \in Filenames : MoveFile(d, n)
  BY OrphanFacts
<1>3. d \in SessionDirs /\ (d \in Dirs => oscDirectoryName # d)
  BY DEF IInv, TypeOK, AnalyserTypeOK, RecInv, OrphansInv, OrphansOver
<1>4. CASE OrphanEnds(d)
  <2>1. UNCHANGED <<samples, disk, s3, memory, jamDirs>>
    BY <1>1, <1>4 DEF OrphanEnds
  <2>2. oscDirectoryName \in Dirs => unlinked' = {}
    BY <1>3, <1>4 DEF OrphanEnds, RecInv, OrphansInv, StreamsLinked
  <2>3. OrphansInv'
    BY <1>1, <2>1, <2>2 DEF RecInv, OrphansInv, OrphansOver, StreamsLinked, memory
  <2>4. SessionsNew'
    BY <1>1, <2>1 DEF RecInv, SessionsNew, Untouched, memory
  <2>5. FilesInv' /\ PacketInHand'
    BY <2>1, FilesKept DEF RecInv, PacketInHand, memory
  <2> QED BY <2>3, <2>4, <2>5 DEF RecInv
<1>5. ASSUME NEW n \in Filenames, MoveFile(d, n) PROVE RecInv'
  BY <1>1, <1>3, <1>5, MoveRecords DEF OpenSession
<1> QED BY <1>2, <1>4, <1>5

LEMMA ReturnRecords ==
  ASSUME IInv, RecInv, UNCHANGED jamVars, UploadReturns
  PROVE  RecInv'
<1>1. /\ UNCHANGED <<samples, disk, s3, jamDirs, uploads>>
      /\ oscDirectoryName' = NoDir
      /\ pc' = "meta"
  BY DEF UploadReturns, jamVars
<1>2. SessionsNew'
  BY <1>1, NamesAssumption DEF RecInv, SessionsNew, Untouched, uploads
<1>3. FilesInv'
  BY <1>1, NamesAssumption DEF RecInv, FilesInv, FilesKnown, OpenSession,
                               FilesInOnePlace, ChannelsHaveOneFile, HasFile
<1>4. OrphansInv'
  BY <1>1, OrphansKept DEF RecInv
<1> QED BY <1>1, <1>2, <1>3, <1>4 DEF RecInv, PacketInHand

(* The packet goes to the end of the only file of its channel.             *)
LEMMA WriteFacts ==
  ASSUME IInv, RecInv, WritePacket
  PROVE  LET c == receivedMeta.channelId IN
         \E n \in Filenames :
           /\ n[1] = c
           /\ oscDirectoryName \in SessionDirs
           /\ oscFiles \in [Channels -> Files \cup {NoFile}] /\ c \in Channels
           /\ disk \in [SessionDirs -> [Filenames -> Seq(Packets)]]
           /\ oscFiles' = [oscFiles EXCEPT ![c] = [dir |-> oscDirectoryName, name |-> n]]
           /\ oscDirectoryName \in Dirs =>
                /\ disk' = [disk EXCEPT ![oscDirectoryName][n] = Append(@, oscBuffer)]
                /\ \A m \in Filenames :
                     m[1] = c /\ m # n => disk[oscDirectoryName][m] = << >>
           /\ \A d \in SessionDirs : d # oscDirectoryName => disk'[d] = disk[d]
<1> DEFINE c == receivedMeta.channelId
           d == oscDirectoryName
           opens == FirstPacket(c)
           file == IF opens THEN [dir |-> d, name |-> receivedMeta.filename]
                            ELSE oscFiles[c]
           before == IF opens THEN << >> ELSE disk[file.dir][file.name]
<1>1. /\ receivedMeta \in MetaMsg /\ pc = "write"
      /\ d \in SessionDirs
      /\ oscFiles \in [Channels -> Files \cup {NoFile}]
      /\ disk \in [SessionDirs -> [Filenames -> Seq(Packets)]]
  BY DEF WritePacket, IInv, TypeOK, AnalyserTypeOK, SessionOpenInv, sessionOpen
<1>2. c \in Channels /\ receivedMeta.filename \in Filenames
      /\ receivedMeta.filename[1] = c
  BY <1>1 DEF MetaMsg
<1>3. /\ file \in Files
      /\ file = [dir |-> d, name |-> file.name]
      /\ file.dir = d
      /\ file.name \in Filenames
      /\ file.name[1] = c
  <2>1. CASE opens
    BY <1>1, <1>2, <2>1 DEF Files
  <2>2. CASE ~opens
    <3>1. /\ oscFiles[c] \in Files
          /\ oscFiles[c].dir = d
          /\ oscFiles[c].name[1] = c
      BY <1>1, <1>2, <2>2 DEF FirstPacket, IInv, OpenFilesInSession
    <3>2. file = oscFiles[c]
      BY <2>2
    <3> QED BY <3>1, <3>2 DEF Files
  <2> QED BY <2>1, <2>2
<1>4. /\ oscFiles' = [oscFiles EXCEPT ![c] = file]
      /\ disk' = IF c \in unlinked THEN disk
                 ELSE [disk EXCEPT ![file.dir][file.name] = Append(before, oscBuffer)]
  BY DEF WritePacket
<1>7. d \in Dirs => c \notin unlinked
  BY DEF RecInv, OrphansInv, StreamsLinked
<1>5. d \in Dirs => \A m \in Filenames :
        /\ disk[d][m] # << >> => oscFiles[m[1]] = [dir |-> d, name |-> m]
  BY <1>1 DEF RecInv, FilesInv, FilesKnown, OpenSession
<1>6. d \in Dirs =>
        /\ before = disk[d][file.name]
        /\ \A m \in Filenames : m[1] = c /\ m # file.name => disk[d][m] = << >>
  <2>1. CASE opens
    <3>1. oscFiles[c] = NoFile
      BY <2>1 DEF FirstPacket
    <3>2. \A m \in Filenames : [dir |-> d, name |-> m] # NoFile
      BY <1>1, NoFileAssumption DEF Files
    <3> QED BY <1>3, <1>5, <2>1, <3>1, <3>2
  <2>2. CASE ~opens
    <3>1. file = oscFiles[c] /\ before = disk[file.dir][file.name]
      BY <2>2
    <3>2. \A m \in Filenames : [dir |-> d, name |-> m] = file => m = file.name
      BY <1>3
    <3> HIDE DEF file, before, c, d
    <3>3. d \in Dirs => \A m \in Filenames :
            m[1] = c /\ disk[d][m] # << >> => m = file.name
      <4> SUFFICES ASSUME d \in Dirs, NEW m \in Filenames, m[1] = c, disk[d][m] # << >>
                   PROVE  m = file.name
        OBVIOUS
      <4>1. oscFiles[m[1]] = [dir |-> d, name |-> m]
        BY <1>5
      <4>2. m \in Filenames /\ [dir |-> d, name |-> m] = file
        BY <3>1, <4>1
      <4> QED
        BY ONLY <3>2, <4>2
    <3> QED BY <1>3, <3>1, <3>3
  <2> QED BY <2>1, <2>2
<1> HIDE DEF file, before, c, d
<1> QED BY <1>1, <1>2, <1>3, <1>4, <1>6, <1>7 DEF c, d

LEMMA WriteRecords ==
  ASSUME IInv, RecInv, UNCHANGED jamVars, WritePacket
  PROVE  RecInv'
<1> DEFINE c == receivedMeta.channelId
           d == oscDirectoryName
<1>1. PICK n \in Filenames :
        /\ n[1] = c
        /\ d \in SessionDirs
        /\ oscFiles \in [Channels -> Files \cup {NoFile}] /\ c \in Channels
        /\ disk \in [SessionDirs -> [Filenames -> Seq(Packets)]]
        /\ oscFiles' = [oscFiles EXCEPT ![c] = [dir |-> d, name |-> n]]
        /\ d \in Dirs =>
             /\ disk' = [disk EXCEPT ![d][n] = Append(@, oscBuffer)]
             /\ \A m \in Filenames : m[1] = c /\ m # n => disk[d][m] = << >>
        /\ \A e \in SessionDirs : e # d => disk'[e] = disk[e]
  BY WriteFacts
<1>2. /\ UNCHANGED <<samples, s3, oscDirectoryName, jamDirs, uploads>>
      /\ pc = "write" /\ pc' = "meta"
  BY DEF WritePacket, jamVars
<1>3. Dirs \subseteq SessionDirs
  BY DEF SessionDirs
<1>4. \A m \in Filenames : m[1] \in Channels
  BY DEF Filenames
<1> HIDE DEF c
<1>5. SessionsNew'
  <2>1. \A e \in Dirs : Untouched(e) /\ d # e => Untouched(e)'
    BY <1>1, <1>2, <1>3 DEF Untouched, uploads
  <2> QED BY <1>2, <2>1, SessionsKept DEF RecInv, SessionsNew
<1>6. d \in Dirs => \A m \in Filenames :
        /\ s3[d][m] = << >>
        /\ disk[d][m] # << >> => oscFiles[m[1]] = [dir |-> d, name |-> m]
  BY <1>2 DEF RecInv, FilesInv, FilesKnown, OpenSession
<1>7. d \in Dirs => \A m \in Filenames : m # n => disk'[d][m] = disk[d][m]
  BY <1>1
<1> HIDE DEF d
<1>8. FilesKnown'
  <2> SUFFICES ASSUME d \in Dirs, NEW m \in Filenames
               PROVE  /\ s3'[d][m] = << >>
                      /\ disk'[d][m] # << >> => oscFiles'[m[1]] = [dir |-> d, name |-> m]
    BY <1>2 DEF FilesKnown, OpenSession, d
  <2>1. CASE m = n
    BY <1>1, <1>2, <1>6, <2>1
  <2>2. CASE m # n
    <3>1. disk[d][m] # << >> => m[1] # c
      BY <1>1, <2>2
    <3> QED BY <1>1, <1>2, <1>4, <1>6, <1>7, <2>2, <3>1
  <2> QED BY <2>1, <2>2
<1>9. FilesInOnePlace'
  <2>1. ASSUME NEW e \in Dirs, NEW m \in Filenames
        PROVE  disk'[e][m] = << >> \/ s3'[e][m] = << >>
    <3>1. CASE e = d
      BY <1>2, <1>6, <3>1
    <3>2. CASE e # d
      BY <1>1, <1>2, <1>3, <3>2 DEF RecInv, FilesInv, FilesInOnePlace
    <3> QED BY <3>1, <3>2
  <2> QED BY <2>1 DEF FilesInOnePlace
<1>10. \A e \in Dirs, m \in Filenames :
         HasFile(e, m)' => HasFile(e, m) \/ (e = d /\ m = n)
  BY <1>1, <1>2, <1>3, <1>7 DEF HasFile
<1>11. d \in Dirs => \A m \in Filenames : m[1] = n[1] /\ m # n => ~HasFile(d, m)
  BY <1>1, <1>6 DEF HasFile
<1>12. ChannelsHaveOneFile'
  BY <1>10, <1>11 DEF RecInv, FilesInv, ChannelsHaveOneFile
<1>13. OrphansInv'
  BY <1>2, OrphansKept DEF RecInv
<1> QED BY <1>2, <1>5, <1>8, <1>9, <1>12, <1>13 DEF RecInv, FilesInv, PacketInHand

(* A crash shortens open files, and these lie in the open session.         *)
LEMMA CrashFacts ==
  ASSUME IInv, NEW kept \in [Channels -> Nat], Crash(kept),
         NEW d \in SessionDirs, NEW n \in Filenames
  PROVE  /\ \E k \in 0 .. Len(disk[d][n]) : disk'[d][n] = SubSeq(disk[d][n], 1, k)
         /\ disk[d][n] = << >> => disk'[d][n] = << >>
         /\ ~OpenSession(d) => disk'[d][n] = disk[d][n]
<1> DEFINE o == CHOOSE c \in Streams(d, n) : TRUE
<1>1. disk[d][n] \in Seq(Packets)
  BY DEF IInv, TypeOK, AnalyserTypeOK
<1>2. disk'[d][n] = Survives(d, n, kept)
  BY DEF Crash
<1>3. CASE Streams(d, n) # {}
  <2>1. o \in Channels /\ oscFiles[o] = [dir |-> d, name |-> n]
    BY <1>3 DEF Streams
  <2>2. Survives(d, n, kept) = SubSeq(disk[d][n], 1, kept[o])
    BY <1>3 DEF Survives
  <2> HIDE DEF o
  <2>3. oscFiles[o] \in Files /\ oscFiles[o] # NoFile
    BY <2>1, NoFileAssumption DEF Files
  <2>4. kept[o] \in 0 .. Len(disk[d][n])
    BY <1>1, <2>1, <2>3 DEF Crash, Written
  <2>5. OpenSession(d)
    BY <2>1, <2>3 DEF IInv, OpenFilesInSession, OpenSession
  <2>6. disk[d][n] = << >> => SubSeq(disk[d][n], 1, kept[o]) = << >>
    BY <2>4
  <2> QED BY <1>2, <2>2, <2>4, <2>5, <2>6
<1>4. CASE Streams(d, n) = {}
  <2>1. disk'[d][n] = disk[d][n]
    BY <1>2, <1>4 DEF Survives
  <2>2. disk[d][n] = SubSeq(disk[d][n], 1, Len(disk[d][n])) /\ Len(disk[d][n]) \in Nat
    BY <1>1
  <2> QED BY <2>1, <2>2
<1> QED BY <1>3, <1>4

LEMMA CrashRecords ==
  ASSUME IInv, RecInv, UNCHANGED jamVars, NEW kept \in [Channels -> Nat], Crash(kept)
  PROVE  RecInv'
<1>1. /\ UNCHANGED <<samples, s3, jamDirs>>
      /\ oscDirectoryName' = NoDir
      /\ pc' = "down"
      /\ orphans' \subseteq orphans \cup {oscDirectoryName}
  BY DEF Crash, Die, jamVars
<1>2. \A d \in Dirs, n \in Filenames : disk[d][n] = << >> => disk'[d][n] = << >>
  BY CrashFacts DEF SessionDirs
<1>3. SessionsNew'
  BY <1>1, <1>2, NamesAssumption DEF RecInv, SessionsNew, Untouched
<1>4. FilesInv'
  <2>1. FilesKnown'
    BY <1>1, NamesAssumption DEF FilesKnown, OpenSession
  <2>2. FilesInOnePlace'
    BY <1>1, <1>2 DEF RecInv, FilesInv, FilesInOnePlace
  <2>3. \A d \in Dirs, n \in Filenames : HasFile(d, n)' => HasFile(d, n)
    BY <1>1, <1>2 DEF HasFile
  <2>4. ChannelsHaveOneFile'
    BY <2>3 DEF RecInv, FilesInv, ChannelsHaveOneFile
  <2> QED BY <2>1, <2>2, <2>4 DEF FilesInv
<1>5. OrphansInv'
  BY <1>1, NamesAssumption DEF OrphansInv, OrphansOver, StreamsLinked
<1> QED BY <1>1, <1>3, <1>4, <1>5 DEF RecInv, PacketInHand

(* Jamulus sends, oscserver receives: the queue may get a new marker.      *)
LEMMA SendKeepsMarkers ==
  ASSUME TypeOK, SessionsNew, NEW m \in Messages, m \notin StartMsg, Send(m)
  PROVE  /\ MarkersOnce(samples', jamDirs)
         /\ \A d : Markers(samples', d) = Markers(samples, d)
<1>1. samples \in Seq(Messages)
  BY DEF TypeOK, AnalyserTypeOK
<1>2. \A d : Markers(samples', d) = Markers(samples, d)
  BY <1>1, MarkersOfAppend DEF Send
<1> QED BY <1>2 DEF SessionsNew, MarkersOnce

LEMMA AnnouncementIsNew ==
  ASSUME IInv, RecInv, NEW d \in Dirs, JamStart(d)
  PROVE  SessionsNew'
<1> DEFINE m == [size |-> StartBytes, metaType |-> startSession, sessionDir |-> d]
<1>1. /\ d \notin jamDirs /\ jamDirs' = jamDirs \cup {d}
      /\ Send(m)
      /\ UNCHANGED <<disk, s3, oscDirectoryName, orphans>>
  BY DEF JamStart, memory, uploads
<1>2. samples \in Seq(Messages) /\ m \in Messages
  BY DEF IInv, TypeOK, AnalyserTypeOK, Messages, StartMsg
<1>3. Markers(samples, d) = {}
  BY <1>1 DEF RecInv, SessionsNew, MarkersOnce
<1>4. \A e \in Dirs : Markers(samples', e) \subseteq
         IF e = d THEN {Len(samples) + 1} ELSE Markers(samples, e)
  <2>1. CASE samples' = samples
    BY <1>3, <2>1
  <2>2. CASE samples' = Append(samples, m)
    <3>1. /\ Len(samples') = Len(samples) + 1
          /\ samples'[Len(samples) + 1] = m
          /\ \A i \in 1 .. Len(samples) : samples'[i] = samples[i]
          /\ Len(samples) \in Nat
      BY <1>2, <2>2
    <3>2. m.sessionDir = d
      OBVIOUS
    <3> HIDE DEF m
    <3> QED BY <1>3, <3>1, <3>2 DEF Markers
  <2> QED BY <1>1, <2>1, <2>2 DEF Send
<1>5. MarkersOnce(samples', jamDirs')
  BY <1>1, <1>4 DEF RecInv, SessionsNew, MarkersOnce
<1>6. \A e \in Dirs : e \notin jamDirs' \/ Markers(samples', e) # {} =>
        e \notin jamDirs \/ Markers(samples, e) # {}
  BY <1>1, <1>4
<1> QED BY <1>1, <1>5, <1>6 DEF RecInv, SessionsNew, Untouched

LEMMA QueueRecords ==
  ASSUME IInv, RecInv, Jamulus \/ OscServerReceive
  PROVE  RecInv' /\ UNCHANGED <<disk, s3, memory, uploads>>
<1>1. UNCHANGED <<disk, s3, memory, uploads>>
  BY DEF Jamulus, JamStart, JamEnd, JamMeta, JamFrame, JamChangeClient,
         OscServerReceive, analyserVars
<1>2. FilesInv' /\ OrphansInv' /\ PacketInHand'
  BY <1>1, FilesKept, OrphansKept DEF RecInv, PacketInHand, memory
<1>3. ASSUME jamDirs' = jamDirs, MarkersOnce(samples', jamDirs),
             \A d \in Dirs : Markers(samples', d) = Markers(samples, d)
      PROVE  SessionsNew'
  BY <1>1, <1>3 DEF RecInv, SessionsNew, Untouched, memory, uploads
<1>4. ASSUME NEW d \in Dirs, JamStart(d) PROVE SessionsNew'
  BY <1>4, AnnouncementIsNew
<1>5. ASSUME JamEnd PROVE SessionsNew'
  <2>1. [size |-> EndBytes, metaType |-> endSession] \in EndMsg
    BY DEF EndMsg
  <2>2. [size |-> EndBytes, metaType |-> endSession] \in Messages
    BY <2>1 DEF Messages
  <2> QED BY <1>3, <1>5, <2>1, <2>2, OtherMessages, SendKeepsMarkers
          DEF JamEnd, IInv, RecInv
<1>6. ASSUME NEW c \in Channels, NEW shape \in FrameShapes, JamMeta(c, shape)
      PROVE  SessionsNew'
  <2> DEFINE m == [size |-> AudioMetaBytes, metaType |-> audioFrame, channelId |-> c,
                   frameSequence |-> frameSequence, filename |-> <<c, client[c]>>,
                   session |-> jamSession]
  <2>1. m \in MetaMsg
    BY DEF MetaMsg, Filenames, IInv, TypeOK
  <2>2. m \in Messages /\ Send(m) /\ jamDirs' = jamDirs
    BY <1>6, <2>1 DEF JamMeta, Messages
  <2> HIDE DEF m
  <2> QED BY <1>3, <2>1, <2>2, OtherMessages, SendKeepsMarkers DEF IInv, RecInv
<1>7. ASSUME JamFrame PROVE SessionsNew'
  <2>1. jamPending \in FrameMsg
    BY <1>7 DEF JamFrame, IInv, TypeOK
  <2>2. jamPending \in Messages /\ Send(jamPending) /\ jamDirs' = jamDirs
    BY <1>7, <2>1 DEF JamFrame, Messages
  <2> QED BY <1>3, <2>1, <2>2, OtherMessages, SendKeepsMarkers DEF IInv, RecInv
<1>8. ASSUME UNCHANGED <<samples, jamDirs>> PROVE SessionsNew'
  BY <1>3, <1>8 DEF RecInv, SessionsNew
<1>9. ASSUME NEW c \in Channels, NEW k \in Clients, JamChangeClient(c, k)
      PROVE  SessionsNew'
  BY <1>8, <1>9 DEF JamChangeClient, analyserVars
<1>10. ASSUME OscServerReceive PROVE SessionsNew'
  BY <1>8, <1>10 DEF OscServerReceive, jamVars
<1>11. SessionsNew'
  BY <1>4, <1>5, <1>6, <1>7, <1>9, <1>10 DEF Jamulus
<1> QED BY <1>1, <1>2, <1>11 DEF RecInv

LEMMA StepRecords == IInv /\ RecInv /\ [Next]_vars => RecInv'
<1> SUFFICES ASSUME IInv, RecInv, [Next]_vars PROVE RecInv'
  OBVIOUS
<1>1. CASE Start
  BY <1>1, LoopStepsRecord DEF Start
<1>2. CASE Analyse
  BY <1>2, LoopStepsRecord, StartRecords, EndRecords, UploadRecords, ReturnRecords,
     WriteRecords
  DEF Analyse, AnalyserStep
<1>3. CASE Jamulus \/ OscServerReceive
  BY <1>3, QueueRecords
<1>4. CASE Kill
  <2>1. PICK kept \in [Channels -> 0 .. MaxFrames] : Crash(kept)
    BY <1>4 DEF Kill
  <2>2. kept \in [Channels -> Nat] /\ UNCHANGED jamVars
    BY <1>4, BoundsAssumption DEF Kill
  <2> QED BY <2>1, <2>2, CrashRecords
<1>5. CASE UNCHANGED vars
  BY <1>5 DEF vars, analyserVars, memory, uploads, jamVars, RecInv, SessionsNew,
              Untouched, FilesInv, FilesKnown, OpenSession, FilesInOnePlace,
              ChannelsHaveOneFile, HasFile, PacketInHand, OrphansInv, OrphansOver,
              StreamsLinked
<1>6. CASE OrphanStep
  BY <1>6, OrphanRecords
<1> QED BY <1>1, <1>2, <1>3, <1>4, <1>5, <1>6 DEF Next

LEMMA RecInvHolds == Spec => [](IInv /\ RecInv)
<1> QED BY InitHolds, StepHolds, InitRecords, StepRecords, PTL DEF Spec

-----------------------------------------------------------------------------
(* What Recording is told is the session that is open.                     *)
Session == IF oscDirectoryName \in Dirs /\ pc # "upload" THEN oscDirectoryName ELSE NoDir

LEMMA SessionIs ==
  /\ \A d \in Dirs : Session = d <=> OpenSession(d)
  /\ Session = NoDir <=> \A d \in Dirs : ~OpenSession(d)
  /\ Session \in Dirs \cup {NoDir}
BY NamesAssumption DEF Session, OpenSession

LEMMA InitPromises == Init => Promise!Init
BY NamesAssumption DEF Init, AnalyserInit, Promise!Init, Promise!Empty, SessionDirs

(* The session stays and so does what is in its files.                     *)
LEMMA Stutters ==
  ASSUME Session' = Session, UNCHANGED <<disk, s3>>
  PROVE  UNCHANGED Promise!vars
BY DEF Promise!vars, Session

LEMMA LoopStepsPromise ==
  ASSUME \/ Boot \/ FlushMessage \/ FlushDone \/ IgnoreMessage \/ AcceptMeta
         \/ RejectFrame \/ MergeFrame \/ CompleteSuperFrame \/ UploadReturns
  PROVE  UNCHANGED Promise!vars
<1>1. UNCHANGED <<disk, s3>>
  BY DEF Boot, FlushMessage, FlushDone, IgnoreMessage, AcceptMeta, RejectFrame,
         MergeFrame, CompleteSuperFrame, UploadReturns, memory
<1>2. Session' = Session
  <2>1. CASE UploadReturns
    BY <2>1, NamesAssumption DEF UploadReturns, Session
  <2>2. CASE FlushMessage \/ IgnoreMessage
    BY <2>2 DEF FlushMessage, IgnoreMessage, memory, Session
  <2>3. CASE Boot \/ FlushDone \/ AcceptMeta \/ RejectFrame \/ MergeFrame \/ CompleteSuperFrame
    BY <2>3 DEF Boot, FlushDone, AcceptMeta, RejectFrame, MergeFrame, CompleteSuperFrame,
                Receive, Session
  <2> QED BY <2>1, <2>2, <2>3
<1> QED BY <1>1, <1>2, Stutters

LEMMA StartPromises ==
  ASSUME IInv, RecInv, UNCHANGED jamVars, StartSession
  PROVE  [Promise!Next]_(Promise!vars)
<1>1. /\ UNCHANGED <<disk, s3>>
      /\ ~sessionOpen
      /\ \A d \in Dirs : oscDirectoryName' = d => Untouched(d)
  BY StartRecords
<1>2. Session = NoDir
  BY <1>1, NamesAssumption DEF Session, sessionOpen
<1>3. CASE Session' = NoDir
  BY <1>1, <1>2, <1>3, Stutters
<1>4. CASE Session' # NoDir
  <2>1. PICK d \in Dirs : Session' = d /\ oscDirectoryName' = d
    BY <1>4 DEF Session
  <2>2. \A n \in Filenames : disk[d][n] = << >> /\ s3[d][n] = << >>
    BY <1>1, <2>1 DEF Untouched
  <2>3. disk[d] = [n \in Filenames |-> << >>] /\ s3[d] = [n \in Filenames |-> << >>]
    BY <2>2 DEF IInv, TypeOK, AnalyserTypeOK, SessionDirs
  <2>4. Promise!Open(d)
    BY <1>1, <1>2, <2>1, <2>3 DEF Promise!Open, Promise!Empty, Session
  <2> QED BY <2>4 DEF Promise!Next
<1> QED BY <1>3, <1>4

LEMMA EndPromises ==
  ASSUME EndSession
  PROVE  [Promise!Next]_(Promise!vars)
<1>1. UNCHANGED <<disk, s3>> /\ Session' = NoDir
  BY DEF EndSession, Session
<1>2. CASE Session = NoDir
  BY <1>1, <1>2, Stutters
<1>3. CASE Session # NoDir
  BY <1>1, <1>3 DEF Promise!Close, Promise!Next, Session
<1> QED BY <1>2, <1>3

LEMMA MovePromises ==
  ASSUME IInv, RecInv, NEW d \in SessionDirs, NEW n \in Filenames, MoveFile(d, n),
         ~OpenSession(d) \/ d \notin Dirs
  PROVE  [Promise!Next]_(Promise!vars)
<1>1. /\ Session' = Session
      /\ disk[d][n] # << >>
      /\ disk' = [disk EXCEPT ![d][n] = << >>]
      /\ disk \in [SessionDirs -> [Filenames -> Seq(Packets)]]
      /\ s3 \in [SessionDirs -> [Filenames -> Seq(Packets)]]
  BY DEF MoveFile, memory, Session, IInv, TypeOK, AnalyserTypeOK
<1>2. Dirs \subseteq SessionDirs
  BY DEF SessionDirs
<1>3. CASE d \in Dirs
  <2>1. s3[d][n] = << >>
    BY <1>1, <1>3 DEF RecInv, FilesInv, FilesInOnePlace
  <2>2. s3' = [s3 EXCEPT ![d][n] = disk[d][n]]
    BY <1>3, MoveFacts
  <2>3. [e \in Dirs |-> s3'[e]] = [[e \in Dirs |-> s3[e]] EXCEPT ![d][n] = disk[d][n]]
    BY <1>1, <1>2, <1>3, <2>2
  <2>4. [e \in Dirs |-> disk'[e]] = [[e \in Dirs |-> disk[e]] EXCEPT ![d][n] = << >>]
    BY <1>1, <1>2, <1>3
  <2>5. Session # d
    BY <1>3, SessionIs
  <2>6. Promise!Archive(d, n)
    BY <1>1, <1>3, <2>1, <2>3, <2>4, <2>5 DEF Promise!Archive, Session
  <2> QED BY <1>3, <2>6 DEF Promise!Next
<1>4. CASE d \notin Dirs
  <2>1. PICK k \in 0 .. Len(disk[d][n]) :
          s3' = [s3 EXCEPT ![d][n] = SubSeq(disk[d][n], 1, k)]
    BY MoveFacts
  <2>2. \A e \in Dirs : disk'[e] = disk[e] /\ s3'[e] = s3[e]
    BY <1>1, <1>2, <1>4, <2>1
  <2> QED BY <1>1, <2>2 DEF Promise!vars, Session
<1> QED BY <1>3, <1>4

LEMMA UploadPromises ==
  ASSUME IInv, RecInv, NEW n \in Filenames, UploadFile(n)
  PROVE  [Promise!Next]_(Promise!vars)
<1>1. oscDirectoryName \in SessionDirs /\ ~OpenSession(oscDirectoryName)
  BY UploadMoves DEF OpenSession
<1> QED BY <1>1, MovePromises DEF UploadFile

(* Another session may be open then: Recording archives beside it.         *)
LEMMA OrphanPromises ==
  ASSUME IInv, RecInv, OrphanStep
  PROVE  [Promise!Next]_(Promise!vars)
<1>1. PICK d \in orphans : OrphanEnds(d) \/ \E n \in Filenames : MoveFile(d, n)
  BY OrphanFacts
<1>2. d \in SessionDirs /\ (d \in Dirs => ~OpenSession(d))
  BY DEF IInv, TypeOK, AnalyserTypeOK, RecInv, OrphansInv, OrphansOver, OpenSession
<1>3. CASE OrphanEnds(d)
  BY <1>3, Stutters DEF OrphanEnds, memory, Session
<1>4. ASSUME NEW n \in Filenames, MoveFile(d, n) PROVE [Promise!Next]_(Promise!vars)
  BY <1>2, <1>4, MovePromises
<1> QED BY <1>1, <1>3, <1>4

LEMMA WritePromises ==
  ASSUME IInv, RecInv, WritePacket
  PROVE  [Promise!Next]_(Promise!vars)
<1> DEFINE c == receivedMeta.channelId
           d == oscDirectoryName
<1>1. PICK n \in Filenames :
        /\ n[1] = c
        /\ d \in SessionDirs
        /\ disk \in [SessionDirs -> [Filenames -> Seq(Packets)]]
        /\ d \in Dirs =>
             /\ disk' = [disk EXCEPT ![d][n] = Append(@, oscBuffer)]
             /\ \A m \in Filenames : m[1] = c /\ m # n => disk[d][m] = << >>
        /\ \A e \in SessionDirs : e # d => disk'[e] = disk[e]
  BY WriteFacts
<1>2. /\ UNCHANGED <<s3, oscDirectoryName>>
      /\ pc = "write" /\ pc' = "meta"
      /\ oscBuffer.channelId = c
  BY DEF WritePacket, RecInv, PacketInHand
<1>3. Session' = Session /\ (d \in Dirs => Session = d)
  BY <1>2 DEF Session
<1>4. Dirs \subseteq SessionDirs
  BY DEF SessionDirs
<1>5. CASE d \in Dirs
  <2>1. s3[d] = [m \in Filenames |-> << >>]
    <3>1. \A m \in Filenames : s3[d][m] = << >>
      BY <1>2, <1>5 DEF RecInv, FilesInv, FilesKnown, OpenSession
    <3>2. s3 \in [SessionDirs -> [Filenames -> Seq(Packets)]]
      BY DEF IInv, TypeOK, AnalyserTypeOK
    <3> QED BY <1>1, <3>1, <3>2
  <2> DEFINE kept == [e \in Dirs |-> disk[e]]
  <2>2. [e \in Dirs |-> disk'[e]] = [kept EXCEPT ![d][n] = Append(@, oscBuffer)]
    BY <1>1, <1>4, <1>5
  <2>3. \A m \in Filenames : m[1] = n[1] /\ m # n => kept[d][m] = << >>
    BY <1>1, <1>5
  <2>4. Session # NoDir
    BY <1>3, <1>5, NamesAssumption
  <2>5. Promise!Record(n)
    BY <1>1, <1>2, <1>3, <1>5, <2>1, <2>2, <2>3, <2>4
    DEF Promise!Record, Promise!Empty, Session
  <2> QED BY <2>5 DEF Promise!Next
<1>6. CASE d \notin Dirs
  <2>1. \A e \in Dirs : disk'[e] = disk[e]
    BY <1>1, <1>4, <1>6
  <2> QED BY <1>2, <1>3, <2>1 DEF Promise!vars, Session
<1> QED BY <1>5, <1>6

LEMMA CrashPromises ==
  ASSUME IInv, RecInv, NEW kept \in [Channels -> Nat], Crash(kept)
  PROVE  [Promise!Next]_(Promise!vars)
<1>1. /\ UNCHANGED s3 /\ Session' = NoDir
      /\ disk \in [SessionDirs -> [Filenames -> Seq(Packets)]]
      /\ disk' \in [SessionDirs -> [Filenames -> Seq(Packets)]]
  BY CrashStep, NamesAssumption DEF Crash, Die, Session, IInv, TypeOK, AnalyserTypeOK
<1>2. Dirs \subseteq SessionDirs
  BY DEF SessionDirs
<1>3. ASSUME NEW e \in Dirs, ~OpenSession(e) PROVE disk'[e] = disk[e]
  <2>1. \A n \in Filenames : disk'[e][n] = disk[e][n]
    BY <1>2, <1>3, CrashFacts
  <2> QED BY <1>1, <1>2, <2>1
<1>4. CASE Session = NoDir
  <2>1. \A e \in Dirs : disk'[e] = disk[e]
    BY <1>3, <1>4, SessionIs
  <2> QED BY <1>1, <1>4, <2>1 DEF Promise!vars, Session
<1>5. CASE Session # NoDir
  <2>1. PICK d \in Dirs : Session = d
    BY <1>5, SessionIs
  <2>2. \A n \in Filenames : \E k \in 0 .. Len(disk[d][n]) :
          disk'[d][n] = SubSeq(disk[d][n], 1, k)
    BY <1>2, CrashFacts
  <2>3. \A e \in Dirs : e # d => disk'[e] = disk[e]
    BY <1>3, <2>1, SessionIs
  <2>4. [e \in Dirs |-> disk'[e]] = [[e \in Dirs |-> disk[e]] EXCEPT ![d] = disk'[d]]
    BY <2>3
  <2>5. Promise!Crash
    BY <1>1, <1>5, <2>1, <2>2, <2>4 DEF Promise!Crash, Session
  <2> QED BY <2>5 DEF Promise!Next
<1> QED BY <1>4, <1>5

LEMMA StepPromises == IInv /\ RecInv /\ [Next]_vars => [Promise!Next]_(Promise!vars)
<1> SUFFICES ASSUME IInv, RecInv, [Next]_vars PROVE [Promise!Next]_(Promise!vars)
  OBVIOUS
<1>1. CASE Start
  BY <1>1, LoopStepsPromise DEF Start
<1>2. CASE Analyse
  BY <1>2, LoopStepsPromise, StartPromises, EndPromises, UploadPromises, WritePromises
  DEF Analyse, AnalyserStep
<1>3. CASE Jamulus \/ OscServerReceive
  BY <1>3, QueueRecords, Stutters DEF memory, Session
<1>4. CASE Kill
  <2>1. PICK kept \in [Channels -> 0 .. MaxFrames] : Crash(kept)
    BY <1>4 DEF Kill
  <2>2. kept \in [Channels -> Nat]
    BY BoundsAssumption
  <2> QED BY <2>1, <2>2, CrashPromises
<1>5. CASE UNCHANGED vars
  BY <1>5, Stutters DEF vars, analyserVars, memory, Session
<1>6. CASE OrphanStep
  BY <1>6, OrphanPromises
<1> QED BY <1>1, <1>2, <1>3, <1>4, <1>5, <1>6 DEF Next

-----------------------------------------------------------------------------
(* Whatever is sent, lost or killed, the program keeps the promises of     *)
(* Recording: a session begins empty, a channel's packets go to the end of *)
(* its one file, closed files move once and whole - also those that an     *)
(* upload moves after its analyser was killed - and a crash only takes the *)
(* ends of open ones (main.cpp:176-203, 263-271).                          *)
THEOREM PromiseKept == Spec => KeepsPromise
<1> QED BY InitPromises, StepPromises, RecInvHolds, PTL
        DEF Spec, KeepsPromise, Promise!Spec

(* A channel has one file in a session, wherever it is, also after another *)
(* client took the channel or the analyser was restarted (main.cpp:264).   *)
THEOREM OneFileEach == Spec => []OneFilePerChannel
<1>1. IInv /\ RecInv => OneFilePerChannel
  <2> SUFFICES ASSUME IInv, RecInv, NEW d \in Dirs, NEW n \in Filenames,
                      NEW m \in Filenames, n[1] = m[1],
                      Recorded(d, n) # << >>, Recorded(d, m) # << >>
               PROVE  n = m
    BY DEF OneFilePerChannel
  <2>1. \A k \in Filenames : Recorded(d, k) # << >> => HasFile(d, k)
    <3>1. << >> \o << >> = << >>
      OBVIOUS
    <3> QED BY <3>1 DEF Recorded, HasFile
  <2> QED BY <2>1 DEF RecInv, FilesInv, ChannelsHaveOneFile
<1> QED BY <1>1, RecInvHolds, PTL
=============================================================================
