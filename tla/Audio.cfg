CONSTANTS
  FrameSamples = 2
  ChunkSizes = {1, 2, 3}
  StartupFrames = 2
  MaxSamples = 7
  MaxSilences = 1
CHECK_DEADLOCK FALSE
SPECIFICATION FairSpec
INVARIANTS
  SamplesConserved
PROPERTIES
  KeepsPromise
  DoneEnds
