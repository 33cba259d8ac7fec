------------------------------ MODULE Recording ------------------------------
(***************************************************************************)
(* What the recording side of the analyser promises, without queues,       *)
(* buffers or messages: a session opens on an empty directory, each of its *)
(* channels gets one file that only grows, a closed session is complete    *)
(* and its files move to the archive as they are.  Only a crash takes      *)
(* something away: the end of the files that were open.                    *)
(***************************************************************************)
EXTENDS Integers, Sequences

CONSTANTS
  Dirs,           \* session directories
  NoDir,          \* no session is open
  Filenames       \* pairs <<channel, client>>

VARIABLES
  packet,         \* an input: the packet in hand, a record with a channelId
  session,        \* the session that is open, or NoDir
  workspace,      \* workspace[d][n]: packets of file n in /tmp/d
  archive         \* the same in S3

vars == <<session, workspace, archive>>

Empty == [n \in Filenames |-> << >>]

Init ==
  /\ session = NoDir
  /\ workspace = [d \in Dirs |-> Empty]
  /\ archive = [d \in Dirs |-> Empty]

(* A session starts with a clean slate: no directory is used twice.        *)
Open(d) ==
  /\ session = NoDir
  /\ workspace[d] = Empty
  /\ archive[d] = Empty
  /\ session' = d
  /\ UNCHANGED <<workspace, archive>>

(* The packet goes to the end of the one file its channel has.             *)
Record(n) ==
  /\ session # NoDir
  /\ archive[session] = Empty
  /\ \A m \in Filenames : m[1] = n[1] /\ m # n => workspace[session][m] = << >>
  /\ workspace' = [workspace EXCEPT ![session][n] = Append(@, packet)]
  /\ n[1] = packet.channelId
  /\ UNCHANGED <<session, archive>>

Close ==
  /\ session # NoDir
  /\ session' = NoDir
  /\ UNCHANGED <<workspace, archive>>

(* A file of a closed session moves to the archive, whole and once, also   *)
(* while another session is open.                                          *)
Archive(d, n) ==
  /\ session # d
  /\ workspace[d][n] # << >>
  /\ archive[d][n] = << >>
  /\ archive' = [archive EXCEPT ![d][n] = workspace[d][n]]
  /\ workspace' = [workspace EXCEPT ![d][n] = << >>]
  /\ UNCHANGED session

(* A crash closes the session and cuts the end off its files.              *)
Crash ==
  /\ session # NoDir
  /\ session' = NoDir
  /\ workspace' = [workspace EXCEPT ![session] = workspace'[session]]
  /\ \A n \in Filenames : \E k \in 0 .. Len(workspace[session][n]) :
       workspace'[session][n] = SubSeq(workspace[session][n], 1, k)
  /\ UNCHANGED archive

Next ==
  \/ \E d \in Dirs : Open(d)
  \/ \E n \in Filenames : Record(n)
  \/ Close
  \/ \E d \in Dirs, n \in Filenames : Archive(d, n)
  \/ Crash

Spec == Init /\ [][Next]_vars
=============================================================================
