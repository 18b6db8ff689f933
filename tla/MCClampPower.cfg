SPECIFICATION FairSpec
CONSTANTS
  Pool = 2
  MaxFrames = 5
INVARIANTS TypeOK PublishesLastInterval FramesOnce
PROPERTIES FramesArePublished
