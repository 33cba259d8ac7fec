\* Does a superframe hold its frames?
SPECIFICATION Spec
CONSTANTS
  c1 = c1
  c2 = c2
  Channels = {c1, c2}
  FramesPerSuperframe = 3
  SamplesPerFrame = 4
  MinFrameBytes = 7
  FrameSizes <- Sizes
  Zero = Zero
  Nothing = Nothing
  MaxFrames = 11
INVARIANT
  SuperframeMergesFrames
\* The frames are counted up to their bound.
CHECK_DEADLOCK FALSE
