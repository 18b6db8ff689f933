SPECIFICATION Spec
CONSTANTS
  Wrap = 256
  FramesPerUpdate = 260
INVARIANTS TypeOK MeanOfFrames StartedInSync
