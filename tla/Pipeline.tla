------------------------------ MODULE Pipeline ------------------------------
(***************************************************************************)
(* The analyser with the processes around it: Jamulus, which sends session *)
(* markers and audio on /samples, oscserver, which empties /osc, and the   *)
(* operator, who starts and kills the analyser.                            *)
(*                                                                         *)
(* Jamulus and oscserver are not in the repository; they are modelled from *)
(* what main.cpp says and assumes of them.                                 *)
(***************************************************************************)
EXTENDS Analyser, FiniteSets, FiniteSetsExt, Functions

CONSTANTS
  FrameShapes,          \* what the bytes of a frame can look like to a reader
  SendsAreDropped,      \* a send on a full /samples fails, or else it waits
  AudioOutsideSession,  \* Jamulus also sends audio between sessions
  AnalyserFirst,        \* Jamulus starts after the analyser is listening
  MaxFrames,            \* bound: frames Jamulus sends
  MaxCrashes,           \* bound: times the analyser is killed
  MaxChanges            \* bound: times a channel gets another client

ASSUME ShapesAssumption ==
  FrameShapes \subseteq [size : FrameSizes, metaType : MetaTypes,
                         sessionDir : GarbageDirs \cup {NoDir}]

ASSUME BoundsAssumption ==
  /\ {SendsAreDropped, AudioOutsideSession, AnalyserFirst} \subseteq BOOLEAN
  /\ {MaxFrames, MaxCrashes, MaxChanges} \subseteq Nat

VARIABLES
  jamSession,           \* the session Jamulus is recording, or NoDir
  jamDirs,              \* directory names it has used: they carry a time stamp
  jamPending,           \* the frame that follows the announcement just sent
  frameSequence,        \* its frame counter
  client,               \* client[c]: who sits on channel c
  crashes, changes      \* counters for the bounds

jamVars == <<jamSession, jamDirs, jamPending, frameSequence, client, changes>>
vars == <<analyserVars, jamVars, crashes>>

-----------------------------------------------------------------------------
(* mq_send by Jamulus.                                                     *)
Send(m) ==
  \/ /\ Len(samples) < MaxMsg
     /\ samples' = Append(samples, m)
  \/ /\ Len(samples) >= MaxMsg
     /\ SendsAreDropped
     /\ UNCHANGED samples

JamStart(d) ==
  /\ jamSession = NoDir
  /\ jamPending = Nothing
  /\ d \notin jamDirs
  /\ AnalyserFirst => pc \notin {"down", "flush"}
  /\ Send([size |-> StartBytes, metaType |-> startSession, sessionDir |-> d])
  /\ jamSession' = d
  /\ jamDirs' = jamDirs \cup {d}
  /\ UNCHANGED <<osc, disk, s3, memory, uploads, jamPending, frameSequence, client,
                 changes, crashes>>

JamEnd ==
  /\ jamSession # NoDir
  /\ jamPending = Nothing
  /\ Send([size |-> EndBytes, metaType |-> endSession])
  /\ jamSession' = NoDir
  /\ UNCHANGED <<osc, disk, s3, memory, uploads, jamDirs, jamPending, frameSequence,
                 client, changes, crashes>>

(* The announcement of a frame; the frame itself is the next thing sent.   *)
JamMeta(c, shape) ==
  LET id == [session |-> jamSession, channelId |-> c, frameSequence |-> frameSequence]
  IN
  /\ jamPending = Nothing
  /\ jamSession # NoDir \/ AudioOutsideSession
  /\ AnalyserFirst => pc \notin {"down", "flush"}
  /\ frameSequence < MaxFrames
  /\ Send([size |-> AudioMetaBytes, metaType |-> audioFrame, channelId |-> c,
           frameSequence |-> frameSequence, filename |-> <<c, client[c]>>,
           session |-> jamSession])
  /\ jamPending' = [size |-> shape.size, metaType |-> shape.metaType,
                    sessionDir |-> shape.sessionDir, audio |-> id]
  /\ frameSequence' = frameSequence + 1
  /\ UNCHANGED <<osc, disk, s3, memory, uploads, jamSession, jamDirs, client, changes,
                 crashes>>

JamFrame ==
  /\ jamPending # Nothing
  /\ Send(jamPending)
  /\ jamPending' = Nothing
  /\ UNCHANGED <<osc, disk, s3, memory, uploads, jamSession, jamDirs, frameSequence,
                 client, changes, crashes>>

(* The client of channel c leaves and another one takes the channel.       *)
JamChangeClient(c, k) ==
  /\ jamPending = Nothing
  /\ changes < MaxChanges
  /\ client[c] # k
  /\ client' = [client EXCEPT ![c] = k]
  /\ changes' = changes + 1
  /\ UNCHANGED <<analyserVars, jamSession, jamDirs, jamPending, frameSequence, crashes>>

Jamulus ==
  \/ \E d \in Dirs : JamStart(d)
  \/ JamEnd
  \/ \E c \in Channels, shape \in FrameShapes : JamMeta(c, shape)
  \/ JamFrame
  \/ \E c \in Channels, k \in Clients : JamChangeClient(c, k)

(* oscserver takes a packet from /osc.                                     *)
OscServerReceive ==
  /\ osc # << >>
  /\ osc' = Tail(osc)
  /\ UNCHANGED <<samples, disk, s3, memory, uploads, jamVars, crashes>>

Kill ==
  /\ crashes < MaxCrashes
  /\ \E kept \in [Channels -> 0 .. MaxFrames] : Crash(kept)
  /\ crashes' = crashes + 1
  /\ UNCHANGED jamVars

(* The uploads that a kill left running.                                   *)
OrphanStep ==
  /\ \E d \in orphans : OrphanEnds(d) \/ \E n \in Filenames : OrphanMoves(d, n)
  /\ UNCHANGED <<jamVars, crashes>>

Analyse == AnalyserStep /\ UNCHANGED <<jamVars, crashes>>

Start == Boot /\ UNCHANGED <<jamVars, crashes>>

-----------------------------------------------------------------------------
Init ==
  /\ AnalyserInit
  /\ jamSession = NoDir
  /\ jamDirs = {}
  /\ jamPending = Nothing
  /\ frameSequence = 0
  /\ client \in [Channels -> Clients]
  /\ crashes = 0
  /\ changes = 0

Next ==
  \/ Start
  \/ Analyse
  \/ Jamulus
  \/ OscServerReceive
  \/ Kill
  \/ OrphanStep

Spec == Init /\ [][Next]_vars

(***************************************************************************)
(* The scheduler runs the analyser whenever it is not blocked, and Jamulus *)
(* sends the frame of an announcement right after it, in the same call.    *)
(* Nothing else is promised: neither that Jamulus goes on nor that         *)
(* oscserver reads.                                                        *)
(***************************************************************************)
FairSpec == Spec /\ WF_vars(Analyse) /\ WF_vars(JamFrame)

-----------------------------------------------------------------------------
(* Type invariant.                                                         *)
TypeOK ==
  /\ AnalyserTypeOK
  /\ jamSession \in Dirs \cup {NoDir}
  /\ jamDirs \subseteq Dirs
  /\ jamPending \in FrameMsg \cup {Nothing}
  /\ frameSequence \in Nat
  /\ client \in [Channels -> Clients]
  /\ crashes \in Nat
  /\ changes \in Nat

(***************************************************************************)
(* A file is only open while its session is: it lies in the directory of   *)
(* the session that is open, it belongs to the channel it is kept for, and *)
(* while the upload moves the directory no file in it is open.  (The       *)
(* oscFiles.clear() of main.cpp:186 and 196.)                              *)
(***************************************************************************)
OpenFilesInSession ==
  \A c \in Channels : oscFiles[c] # NoFile =>
    /\ sessionOpen
    /\ oscFiles[c].dir = oscDirectoryName
    /\ oscFiles[c].name[1] = c
    /\ pc # "upload"

(* What has been recorded under d and n, wherever the file is now.         *)
Recorded(d, n) == disk[d][n] \o s3[d][n]

(* The frames of a packet rise, and its announcement is not after the last. *)
FramesRise(p) ==
  /\ \A k, l \in Slots : k < l => p.frames[k].frameSequence < p.frames[l].frameSequence
  /\ p.frameSequence <= p.frames[FramesPerSuperframe - 1].frameSequence

(* Everything in packet p was announced and sent before what is in q.      *)
Precedes(p, q) ==
  /\ p.frameSequence < q.frameSequence
  /\ p.frames[FramesPerSuperframe - 1].frameSequence < q.frames[0].frameSequence

InOrder(file, n) ==
  /\ \A i \in DOMAIN file : file[i].channelId = n[1] /\ FramesRise(file[i])
  /\ \A i, j \in DOMAIN file : i < j => Precedes(file[i], file[j])

(***************************************************************************)
(* Whatever is lost on the queue, a file tells its channel's story in      *)
(* order and tells no frame twice: every packet is of the file's channel,  *)
(* the announcements rise, the frames merged into a packet rise, and so do *)
(* those of one packet and the next.  (main.cpp:229-271; the file is what  *)
(* a reader replays.)                                                      *)
(***************************************************************************)
FilesInOrder ==
  \A d \in SessionDirs, n \in Filenames :
    InOrder(disk[d][n], n) /\ InOrder(s3[d][n], n)

(***************************************************************************)
(* A channel has one file in a session, also when another client takes the *)
(* channel or the analyser restarts.  (main.cpp:264, and 141, "within a    *)
(* session, channelId -> ofstream ptr".)                                   *)
(***************************************************************************)
OneFilePerChannel ==
  \A d \in Dirs, n, m \in Filenames :
    n[1] = m[1] /\ Recorded(d, n) # << >> /\ Recorded(d, m) # << >> => n = m

(* What the analyser has still to read: the queue, then the frame Jamulus  *)
(* is about to send.                                                       *)
Upcoming == IF jamPending = Nothing THEN samples ELSE Append(samples, jamPending)

Announces(meta, frame) ==
  /\ frame \in FrameMsg
  /\ frame.audio = [session |-> meta.session, channelId |-> meta.channelId,
                    frameSequence |-> meta.frameSequence]

(***************************************************************************)
(* "the next message is an audio frame" (main.cpp:224): while the queue    *)
(* loses nothing, the message read after an accepted announcement is the   *)
(* frame it announced - also after a restart, and also when audio without  *)
(* a session is taken for a marker.                                        *)
(***************************************************************************)
PairsStayTogether ==
  pc = "frame" => Upcoming # << >> /\ Announces(receivedMeta, Head(Upcoming))

(***************************************************************************)
(* The directory of a session holds packets of that session only.          *)
(* (main.cpp:176-203: start and end of a session, seen through the queue.) *)
(***************************************************************************)
SessionPurity ==
  \A d \in Dirs, n \in Filenames :
    \A i \in DOMAIN Recorded(d, n) : Recorded(d, n)[i].session = d

(***************************************************************************)
(* What oscserver is told about is recorded: a packet waiting in /osc is   *)
(* in a file, or about to be written.  Holds without crashes only.         *)
(* (main.cpp:259 and 271.)                                                 *)
(***************************************************************************)
ForwardedIsRecorded ==
  \A i \in DOMAIN osc :
    \/ pc = "write" /\ osc[i] = oscBuffer
    \/ \E d \in SessionDirs, n \in Filenames :
         \E j \in DOMAIN Recorded(d, n) : Recorded(d, n)[j] = osc[i]

(***************************************************************************)
(* A frame that was sent is somewhere: announced on the queue or about to  *)
(* be read, in a superframe, or in a packet that is in hand or recorded.   *)
(* No end of a session, upload or reuse of a buffer makes one disappear.   *)
(* Holds while every frame has the expected size, the queue loses nothing  *)
(* and the analyser is up. (main.cpp:171-272.)                             *)
(***************************************************************************)
NothingLost ==
  LET InFlight == {i \in DOMAIN samples : samples[i].metaType = audioFrame
                                           /\ samples[i].size = AudioMetaBytes}
      InSuperframes == SumFunction(superFrameOffsets)
      PacketsIn(d) == MapThenSumSet(LAMBDA n : Len(Recorded(d, n)), Filenames)
      InFiles == MapThenSumSet(PacketsIn, SessionDirs)
  IN frameSequence =
       Cardinality(InFlight) + (IF pc = "frame" THEN 1 ELSE 0) + InSuperframes
       + FramesPerSuperframe * (InFiles + IF pc = "write" THEN 1 ELSE 0)

(***************************************************************************)
(* "within a session, channelId -> superframe" (main.cpp:139): the frames  *)
(* merged into a packet are of the session the packet belongs to.          *)
(***************************************************************************)
SuperframesWithinSession ==
  pc = "write" => \A k \in Slots : oscBuffer.frames[k].session = oscBuffer.session

(***************************************************************************)
(* "ignoring audio sent before session start" (main.cpp:206): only a start *)
(* marker of Jamulus opens a session.                                      *)
(***************************************************************************)
OnlyRealSessions == oscDirectoryName \in Dirs \cup {NoDir}

-----------------------------------------------------------------------------
(* A session that Jamulus starts is opened by the analyser. (main.cpp:176) *)
EverySessionOpened ==
  \A d \in Dirs : jamSession = d ~> oscDirectoryName = d

(***************************************************************************)
(* A session that Jamulus has ended is closed by the analyser, and stays   *)
(* closed. (main.cpp:191-203)                                              *)
(***************************************************************************)
SessionEnds ==
  \A d \in Dirs : d \in jamDirs /\ jamSession # d ~> [](oscDirectoryName # d)

(***************************************************************************)
(* The recording side of the program keeps the promises of Recording for   *)
(* the sessions Jamulus names.  A session whose upload runs is closed.     *)
(***************************************************************************)
Promise == INSTANCE Recording WITH
  packet <- oscBuffer,
  session <- IF oscDirectoryName \in Dirs /\ pc # "upload" THEN oscDirectoryName
                                                           ELSE NoDir,
  workspace <- [d \in Dirs |-> disk[d]],
  archive <- [d \in Dirs |-> s3[d]]

KeepsPromise == Promise!Spec

(***************************************************************************)
(* The frames a merge for channel c may take: those that Jamulus has still *)
(* to announce and those the analyser has still to read, of any channel    *)
(* where an announcement can be dropped, of c alone where the queue loses  *)
(* nothing.                                                                *)
(***************************************************************************)
Mergeable(c) ==
  {f \in [session : Dirs \cup {NoDir}, channelId : Channels,
          frameSequence : 0 .. (MaxFrames - 1)] :
     /\ \/ f.frameSequence >= frameSequence
        \/ \E i \in DOMAIN Upcoming : Upcoming[i] \in FrameMsg /\ Upcoming[i].audio = f
     /\ SendsAreDropped \/ f.channelId = c}

(***************************************************************************)
(* Whatever else happens - sessions begin and end, frames are refused,     *)
(* files are moved - the superframes only change by one frame of one       *)
(* channel or by a restart, every packet is made of the frames collected   *)
(* for it, and no frame is merged twice.  While the queue loses nothing, a *)
(* channel's superframe holds frames of that channel. (main.cpp:171-256)   *)
(***************************************************************************)
Collection == INSTANCE FrameSlots WITH
  supply <- [c \in Channels |-> Mergeable(c)],
  slots <- superFrames,
  offsets <- superFrameOffsets,
  packet <- IF oscBuffer = Nothing THEN Nothing ELSE oscBuffer.frames

CollectsFrames == Collection!Spec
=============================================================================
