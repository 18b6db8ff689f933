SPECIFICATION Spec
CONSTANTS
  Configs <- MCConfigs
INVARIANTS TypeOK ResultsAreOfPins ReadFitsBuffer FrameInBounds
CHECK_DEADLOCK FALSE
