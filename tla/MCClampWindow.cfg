SPECIFICATION CalcSpec
CONSTANTS
  Crossings = 2
  Memories <- MCMemories
INVARIANTS StaysInFrame SamplesInStep WindowUsesFrame
