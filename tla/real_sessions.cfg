\* Does only a start marker open a session?
SPECIFICATION Spec
CONSTANTS
  c1 = c1
  c2 = c2
  k1 = k1
  k2 = k2
  d1 = d1
  d2 = d2
  garbage = garbage
  slashed = slashed
  Channels = {c1, c2}
  Clients = {k1}
  Dirs = {d1, d2}
  GarbageDirs = {garbage}
  UnmakeableDirs = {}
  NoDir = NoDir
  NoFile = NoFile
  Nothing = Nothing
  MaxMsg = 3
  OscMaxMsg = 1
  FramesPerSuperframe = 2
  SamplesPerFrame = 128
  MinFrameBytes = 200
  StartBytes = 66
  EndBytes = 1
  AudioMetaBytes = 96
  FrameSizes <- Sizes
  FrameShapes <- FullFrames
  SendsAreDropped = FALSE
  AudioOutsideSession = TRUE
  AnalyserFirst = TRUE
  MaxFrames = 3
  MaxCrashes = 0
  MaxChanges = 0
INVARIANT
  OnlyRealSessions
\* Jamulus stops at its bounds and the analyser waits for a message.
CHECK_DEADLOCK FALSE
