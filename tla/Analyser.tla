------------------------------ MODULE Analyser ------------------------------
(***************************************************************************)
(* The analyser process: pipeMessages() of src/src/main.cpp.               *)
(*                                                                         *)
(* One thread reads the POSIX queue /samples.  Every message is first read *)
(* as a "meta" (a session marker or the announcement of an audio frame)    *)
(* and, when an announcement is accepted, the next message is read as the  *)
(* frame.  FramesPerSuperframe accepted frames of a channel make one OSC   *)
(* packet, which is offered to the queue /osc and then written to the      *)
(* channel's file; the end of a session moves the files to S3.             *)
(*                                                                         *)
(* A step of the model ends where another process can observe or disturb   *)
(* the program: after each mq_receive, between the mq_send and the file    *)
(* write, and around the upload command.  The module only has the steps of *)
(* the analyser; Pipeline composes them with the processes around it.      *)
(***************************************************************************)
EXTENDS Integers, Sequences

CONSTANTS
  Channels,             \* channel ids of the Jamulus server
  Clients,              \* clients that may sit on a channel, one after another
  Dirs,                 \* session directory names that Jamulus announces
  GarbageDirs,          \* other non-empty strings a sessionDir field can read as
  UnmakeableDirs,       \* those of GarbageDirs for which create_directory throws
  NoDir,                \* the empty string: no session is open
  NoFile,               \* a channel that has no entry in oscFiles
  Nothing,              \* a buffer that was never filled
  MaxMsg,               \* mq_maxmsg of /samples
  OscMaxMsg,            \* mq_maxmsg of /osc
  FramesPerSuperframe,
  SamplesPerFrame,
  MinFrameBytes,        \* frames shorter than this are refused (200)
  StartBytes,           \* sizeof(startSessionMeta_t) (66)
  EndBytes,             \* sizeof(endSessionMeta_t) (1)
  AudioMetaBytes,       \* sizeof(audioMeta_t) (96)
  FrameSizes            \* sizes in bytes of the frames Jamulus sends

SampleBytes == 2        \* sizeof(int16_t)

(***************************************************************************)
(* The sizes of the program satisfy this: 1, 66 and 96 are below 200, and  *)
(* 128 samples take 256 bytes.  It is what keeps a marker or an            *)
(* announcement from ever being merged as audio.  FrameSizes is external:  *)
(* Jamulus sends frames of 64 or 128 samples on one or two channels, 128   *)
(* to 512 bytes, none of them as long as an announcement.                  *)
(***************************************************************************)
ASSUME SizesAssumption ==
  /\ FramesPerSuperframe \in Nat \ {0}
  /\ SamplesPerFrame \in Nat \ {0}
  /\ MinFrameBytes \in Nat
  /\ {StartBytes, EndBytes, AudioMetaBytes} \subseteq 1 .. (MinFrameBytes - 1)
  /\ AudioMetaBytes \notin {StartBytes, EndBytes}
  /\ SampleBytes * SamplesPerFrame >= MinFrameBytes
  /\ FramesPerSuperframe <= SamplesPerFrame
  /\ FrameSizes \subseteq Nat \ {AudioMetaBytes}
  /\ MaxMsg \in Nat \ {0}
  /\ OscMaxMsg \in Nat \ {0}

ASSUME NamesAssumption ==
  /\ NoDir \notin Dirs \cup GarbageDirs
  /\ Dirs \cap GarbageDirs = {}
  /\ UnmakeableDirs \subseteq GarbageDirs

VARIABLES
  samples,              \* the queue /samples: what is sent and not yet received
  osc,                  \* the queue /osc
  disk,                 \* disk[d][n]: packets of file n in /tmp/d (<<>>: no file)
  s3,                   \* s3[d][n]: the same below s3://meyfroidt/osc/d
  pc,                   \* where pipeMessages is
  receivedMeta,         \* the announcement whose frame is awaited or handled
  oscDirectoryName,     \* directory of the open session, NoDir when none is
  superFrames,          \* superFrames[c][k]: the frame cell k of the array came from
  superFrameOffsets,    \* the cell at which the channel's next frame is copied
  oscFiles,             \* the channel's open file in this session, or NoFile
  oscBuffer,            \* the last packet built
  orphans,              \* directories whose upload outlived the analyser
  unlinked              \* channels whose packets reach no file any more

memory == <<pc, receivedMeta, oscDirectoryName, superFrames, superFrameOffsets,
            oscFiles, oscBuffer>>
uploads == <<orphans, unlinked>>
analyserVars == <<samples, osc, disk, s3, memory, uploads>>

-----------------------------------------------------------------------------
(***************************************************************************)
(* Messages.  A record has the fields the program can read in it.  The     *)
(* first byte of every message is its metaType, that of an audio frame     *)
(* too: there it is the low byte of the first sample, and the bytes behind *)
(* it are what a sessionDir field reads.  `session` and `audio` are ghosts *)
(* that say what Jamulus meant; no guard below reads them.  A file name    *)
(* carries its channel and the address of the client that sits on it.      *)
(***************************************************************************)
startSession == 0
endSession == 1
audioFrame == 2
MetaTypes == 0 .. 3     \* 3 stands for every other byte

SessionDirs == Dirs \cup GarbageDirs
Filenames == Channels \X Clients

FrameIds == [session : Dirs \cup {NoDir}, channelId : Channels, frameSequence : Nat]

StartMsg == [size : {StartBytes}, metaType : {startSession}, sessionDir : Dirs]
EndMsg == [size : {EndBytes}, metaType : {endSession}]
MetaMsg ==
  {m \in [size : {AudioMetaBytes}, metaType : {audioFrame}, channelId : Channels,
          frameSequence : Nat, filename : Filenames, session : Dirs \cup {NoDir}] :
     m.filename[1] = m.channelId}
FrameMsg == [size : FrameSizes, metaType : MetaTypes, sessionDir : GarbageDirs \cup {NoDir},
             audio : FrameIds]
Messages == StartMsg \cup EndMsg \cup MetaMsg \cup FrameMsg

Slots == 0 .. (FramesPerSuperframe - 1)
SuperFrames == [Slots -> FrameIds \cup {Nothing}]
Packets == [channelId : Channels, frameSequence : Nat, session : Dirs \cup {NoDir},
            frames : SuperFrames]
Files == [dir : SessionDirs, name : Filenames]

ASSUME NothingAssumption == Nothing \notin MetaMsg \cup FrameMsg \cup Packets

ASSUME NoFileAssumption == NoFile \notin Files

-----------------------------------------------------------------------------
(* Maps at the start of main(): what a restart begins with.                *)
NoSuperFrames == [c \in Channels |-> [k \in Slots |-> Nothing]]
NoOffsets == [c \in Channels |-> 0]
NoFiles == [c \in Channels |-> NoFile]

AnalyserInit ==
  /\ samples = << >>
  /\ osc = << >>
  /\ disk = [d \in SessionDirs |-> [n \in Filenames |-> << >>]]
  /\ s3 = [d \in SessionDirs |-> [n \in Filenames |-> << >>]]
  /\ pc = "down"
  /\ receivedMeta = Nothing
  /\ oscDirectoryName = NoDir
  /\ superFrames = NoSuperFrames
  /\ superFrameOffsets = NoOffsets
  /\ oscFiles = NoFiles
  /\ oscBuffer = Nothing
  /\ orphans = {}
  /\ unlinked = {}

(* The process is gone, with everything it held in memory.                 *)
Die ==
  /\ pc' = "down"
  /\ receivedMeta' = Nothing
  /\ oscDirectoryName' = NoDir
  /\ superFrames' = NoSuperFrames
  /\ superFrameOffsets' = NoOffsets
  /\ oscFiles' = NoFiles
  /\ oscBuffer' = Nothing
  /\ unlinked' = {}

-----------------------------------------------------------------------------
(***************************************************************************)
(* Start-up: open both queues (created if need be), then read /samples     *)
(* without blocking until it is empty.                                     *)
(***************************************************************************)
Boot ==
  /\ pc = "down"
  /\ pc' = "flush"
  /\ UNCHANGED <<samples, osc, disk, s3, receivedMeta, oscDirectoryName, superFrames,
                 superFrameOffsets, oscFiles, oscBuffer, uploads>>

FlushMessage ==
  /\ pc = "flush"
  /\ samples # << >>
  /\ samples' = Tail(samples)
  /\ UNCHANGED <<osc, disk, s3, memory, uploads>>

FlushDone ==
  /\ pc = "flush"
  /\ samples = << >>
  /\ pc' = "meta"
  /\ UNCHANGED <<samples, osc, disk, s3, receivedMeta, oscDirectoryName, superFrames,
                 superFrameOffsets, oscFiles, oscBuffer, uploads>>

-----------------------------------------------------------------------------
(* The blocking mq_receive at the loop head, or the one for the frame.     *)
Receive(place) ==
  /\ pc = place
  /\ samples # << >>
  /\ samples' = Tail(samples)

message == Head(samples)

sessionOpen == oscDirectoryName # NoDir

(* oscFiles.clear(): every file is flushed and closed.                     *)
FilesLeftOpen == oscFiles              \* mutant: the files stay open
FilesCleared == NoFiles

(***************************************************************************)
(* A message whose first byte is 0, whatever it is: with no session open   *)
(* its string becomes the session, the directory is made and the file map  *)
(* emptied.  create_directory throws where the parent is missing, nothing  *)
(* catches it, and the process ends.                                       *)
(***************************************************************************)
StartSession ==
  /\ Receive("meta")
  /\ message.metaType = startSession
  /\ ~sessionOpen
  /\ \/ /\ message.sessionDir \notin UnmakeableDirs
        /\ oscDirectoryName' = message.sessionDir
        /\ oscFiles' = FilesCleared
        /\ unlinked' = {}
        /\ UNCHANGED <<pc, receivedMeta, superFrames, superFrameOffsets, oscBuffer>>
     \/ /\ message.sessionDir \in UnmakeableDirs
        /\ Die
  /\ UNCHANGED <<osc, disk, s3, orphans>>

(* First byte 1 with a session open: close the files, run the upload.      *)
EndSession ==
  /\ Receive("meta")
  /\ message.metaType = endSession
  /\ sessionOpen
  /\ oscFiles' = FilesCleared
  /\ pc' = "upload"
  /\ UNCHANGED <<osc, disk, s3, receivedMeta, oscDirectoryName, superFrames,
                 superFrameOffsets, oscBuffer, uploads>>

(* The channels whose open file lies in d under the name n.                *)
Streams(d, n) == {c \in Channels : oscFiles[c] = [dir |-> d, name |-> n]}

(***************************************************************************)
(* `aws s3 mv` copies a file and removes it.  Of a file that is being      *)
(* written it finds an arbitrary prefix, and what the stream writes after  *)
(* the removal is in no file.                                              *)
(***************************************************************************)
MoveFile(d, n) ==
  /\ disk[d][n] # << >>
  /\ \E k \in 0 .. Len(disk[d][n]) :
       /\ Streams(d, n) = {} => k = Len(disk[d][n])
       /\ s3' = [s3 EXCEPT ![d][n] = SubSeq(disk[d][n], 1, k)]
  /\ disk' = [disk EXCEPT ![d][n] = << >>]
  /\ unlinked' = unlinked \cup Streams(d, n)
  /\ UNCHANGED <<samples, osc, memory, orphans>>

(***************************************************************************)
(* The command `aws s3 mv --recursive && rmdir` moves file by file ...     *)
(***************************************************************************)
UploadFile(n) == pc = "upload" /\ MoveFile(oscDirectoryName, n)

UploadReturnsInSession ==              \* mutant: the session is not ended
  /\ pc = "upload"
  /\ pc' = "meta"
  /\ UNCHANGED <<samples, osc, disk, s3, receivedMeta, oscDirectoryName, superFrames,
                 superFrameOffsets, oscFiles, oscBuffer, uploads>>

(***************************************************************************)
(* ... and returns, with everything moved or not: nobody looks at its      *)
(* status, the files it left stay in /tmp and the session is over.         *)
(***************************************************************************)
UploadReturns ==
  /\ pc = "upload"
  /\ oscDirectoryName' = NoDir
  /\ pc' = "meta"
  /\ UNCHANGED <<samples, osc, disk, s3, receivedMeta, superFrames, superFrameOffsets,
                 oscFiles, oscBuffer, uploads>>

(***************************************************************************)
(* The messages the loop head drops: a start when a session is open, an    *)
(* end or audio when none is, and with a session open whatever is not an   *)
(* announcement of the right size and type.                                *)
(***************************************************************************)
Ignored(m) ==
  \/ m.metaType = startSession /\ sessionOpen
  \/ m.metaType = endSession /\ ~sessionOpen
  \/ /\ m.metaType \notin {startSession, endSession}
     /\ ~sessionOpen \/ m.size # AudioMetaBytes \/ m.metaType # audioFrame

IgnoreMessage ==
  /\ Receive("meta")
  /\ Ignored(message)
  /\ UNCHANGED <<osc, disk, s3, memory, uploads>>

AcceptMetaOnce ==                      \* mutant: the meta buffer is filled once
  /\ Receive("meta")
  /\ sessionOpen
  /\ message.metaType = audioFrame
  /\ message.size = AudioMetaBytes
  /\ receivedMeta' = IF receivedMeta = Nothing THEN message ELSE receivedMeta
  /\ pc' = "frame"
  /\ UNCHANGED <<osc, disk, s3, oscDirectoryName, superFrames, superFrameOffsets,
                 oscFiles, oscBuffer, uploads>>

AcceptMeta ==
  /\ Receive("meta")
  /\ sessionOpen
  /\ message.metaType = audioFrame
  /\ message.size = AudioMetaBytes
  /\ receivedMeta' = message
  /\ pc' = "frame"
  /\ UNCHANGED <<osc, disk, s3, oscDirectoryName, superFrames, superFrameOffsets,
                 oscFiles, oscBuffer, uploads>>

-----------------------------------------------------------------------------
(* The size checks on the message that is read as a frame.                 *)
FrameUsable(m) ==
  /\ m.size >= MinFrameBytes
  /\ m.size % 2 = 0
  /\ m.size \div SampleBytes = SamplesPerFrame

(***************************************************************************)
(* A frame of another size is dropped, and its announcement with it.  The  *)
(* map entries the code may create on the way hold the same zeros as no    *)
(* entry at all.                                                           *)
(***************************************************************************)
RejectFrame ==
  /\ Receive("frame")
  /\ ~FrameUsable(message)
  /\ pc' = "meta"
  /\ UNCHANGED <<osc, disk, s3, receivedMeta, oscDirectoryName, superFrames,
                 superFrameOffsets, oscFiles, oscBuffer, uploads>>

MergedAtStart(c) == [k \in Slots |-> message.audio]   \* mutant: no offset added

(* The channel's array after the copy loop: the arrived frame fills         *)
(* SamplesPerFrame cells from the cell the offset names.                    *)
Merged(c) ==
  [k \in Slots |->
     IF k \in superFrameOffsets[c] .. (superFrameOffsets[c] + SamplesPerFrame - 1)
     THEN message.audio
     ELSE superFrames[c][k]]

FillsUpTo(c) == superFrameOffsets[c] + 1 <= FramesPerSuperframe  \* mutant: <= for <

(* After this frame the superframe is still short of frames.               *)
Fills(c) == superFrameOffsets[c] + 1 < FramesPerSuperframe

(* The superframe is not full yet: back to the loop head.                  *)
MergeFrame ==
  LET c == receivedMeta.channelId IN
  /\ Receive("frame")
  /\ FrameUsable(message)
  /\ Fills(c)
  /\ superFrames' = [superFrames EXCEPT ![c] = Merged(c)]
  /\ superFrameOffsets' = [superFrameOffsets EXCEPT ![c] = @ + 1]
  /\ pc' = "meta"
  /\ UNCHANGED <<osc, disk, s3, receivedMeta, oscDirectoryName, oscFiles, oscBuffer,
                 uploads>>

(***************************************************************************)
(* The superframe is full: start it over, analyse it, build the packet and *)
(* offer it to /osc, which is opened O_NONBLOCK: a full queue refuses it   *)
(* and the refusal is ignored.                                             *)
(***************************************************************************)
CompleteSuperFrame ==
  LET c == receivedMeta.channelId
      packet == [channelId |-> c, frameSequence |-> receivedMeta.frameSequence,
                 session |-> receivedMeta.session, frames |-> Merged(c)]
  IN
  /\ Receive("frame")
  /\ FrameUsable(message)
  /\ ~Fills(c)
  /\ superFrames' = [superFrames EXCEPT ![c] = Merged(c)]
  /\ superFrameOffsets' = [superFrameOffsets EXCEPT ![c] = 0]
  /\ oscBuffer' = packet
  /\ osc' = IF Len(osc) < OscMaxMsg THEN Append(osc, packet) ELSE osc
  /\ pc' = "write"
  /\ UNCHANGED <<disk, s3, receivedMeta, oscDirectoryName, oscFiles, uploads>>

(* Mutants: every packet, or every change of the file name, opens a file.  *)
AnyPacket(c) == TRUE
FirstPacketOfName(c) ==
  oscFiles[c] = NoFile \/ oscFiles[c].name # receivedMeta.filename

(* The channel has no file in this session yet.                            *)
FirstPacket(c) == oscFiles[c] = NoFile

(***************************************************************************)
(* Write the packet to the channel's file.  The first packet of a channel  *)
(* in a session opens it, under the file name of that announcement, and    *)
(* opening truncates.  Where the file or its directory is gone, nothing is *)
(* written and nobody notices.                                             *)
(***************************************************************************)
WritePacket ==
  LET c == receivedMeta.channelId
      opens == FirstPacket(c)
      file == IF opens THEN [dir |-> oscDirectoryName, name |-> receivedMeta.filename]
                       ELSE oscFiles[c]
      before == IF opens THEN << >> ELSE disk[file.dir][file.name]
  IN
  /\ pc = "write"
  /\ oscFiles' = [oscFiles EXCEPT ![c] = file]
  /\ disk' = IF c \in unlinked THEN disk
             ELSE [disk EXCEPT ![file.dir][file.name] = Append(before, oscBuffer)]
  /\ pc' = "meta"
  /\ UNCHANGED <<samples, osc, s3, receivedMeta, oscDirectoryName, superFrames,
                 superFrameOffsets, oscBuffer, uploads>>

-----------------------------------------------------------------------------
(***************************************************************************)
(* The process is killed: nothing handles a signal.  An open ofstream has  *)
(* handed an arbitrary prefix of what was written to the system; the rest  *)
(* is lost with the process.  kept[c] is how much of channel c's file      *)
(* survives.  An upload runs in a process of its own, the child that       *)
(* std::system waits for, and goes on without the analyser.                *)
(***************************************************************************)
Survives(d, n, kept) ==
  IF Streams(d, n) = {} THEN disk[d][n]
  ELSE LET c == CHOOSE c \in Streams(d, n) : TRUE IN SubSeq(disk[d][n], 1, kept[c])

Written(c) ==
  IF oscFiles[c] = NoFile THEN 0 ELSE Len(disk[oscFiles[c].dir][oscFiles[c].name])

Crash(kept) ==
  /\ pc # "down"
  /\ \A c \in Channels : kept[c] <= Written(c)
  /\ Die
  /\ disk' = [d \in SessionDirs |-> [n \in Filenames |-> Survives(d, n, kept)]]
  /\ orphans' = orphans \cup (IF pc = "upload" THEN {oscDirectoryName} ELSE {})
  /\ UNCHANGED <<samples, osc, s3>>

(***************************************************************************)
(* An upload whose analyser was killed: it moves the files of its          *)
(* directory whatever a new analyser does ...                              *)
(***************************************************************************)
OrphanMoves(d, n) == d \in orphans /\ MoveFile(d, n)

(***************************************************************************)
(* ... and ends, as the only one left on d or not, with the directory      *)
(* removed or not.  Removed under a session that uses it again, no packet  *)
(* of that session is written any more.                                    *)
(***************************************************************************)
OrphanEnds(d) ==
  /\ d \in orphans
  /\ orphans' \in {orphans, orphans \ {d}}
  /\ \/ UNCHANGED unlinked
     \/ /\ oscDirectoryName = d
        /\ \A n \in Filenames : disk[d][n] = << >>
        /\ unlinked' = Channels
  /\ UNCHANGED <<samples, osc, disk, s3, memory>>

(* One step of pipeMessages, in program order.                             *)
AnalyserStep ==
  \/ FlushMessage
  \/ FlushDone
  \/ StartSession
  \/ EndSession
  \/ \E n \in Filenames : UploadFile(n)
  \/ UploadReturns
  \/ IgnoreMessage
  \/ AcceptMeta
  \/ RejectFrame
  \/ MergeFrame
  \/ CompleteSuperFrame
  \/ WritePacket

-----------------------------------------------------------------------------
(* Type invariant of the analyser's variables.                             *)
AnalyserTypeOK ==
  /\ samples \in Seq(Messages)
  /\ osc \in Seq(Packets)
  /\ disk \in [SessionDirs -> [Filenames -> Seq(Packets)]]
  /\ s3 \in [SessionDirs -> [Filenames -> Seq(Packets)]]
  /\ pc \in {"down", "flush", "meta", "frame", "write", "upload"}
  /\ receivedMeta \in MetaMsg \cup {Nothing}
  /\ oscDirectoryName \in SessionDirs \cup {NoDir}
  /\ superFrames \in [Channels -> SuperFrames]
  /\ superFrameOffsets \in [Channels -> Slots]
  /\ oscFiles \in [Channels -> Files \cup {NoFile}]
  /\ oscBuffer \in Packets \cup {Nothing}
  /\ orphans \subseteq SessionDirs
  /\ unlinked \subseteq Channels
  /\ pc \in {"frame", "write"} => receivedMeta # Nothing
  /\ pc = "write" => oscBuffer # Nothing
=============================================================================
