SPECIFICATION FairSpec
CONSTANTS
  c1 = c1
  c2 = c2
  Clients <- MCClients
  SampleCount = 2
  Wrap = 4
  MaxFrames = 3
INVARIANTS TypeOK StoppedWaveformIsLastFrame
PROPERTIES StopIsToldOnce FramesAreReported
