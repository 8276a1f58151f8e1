\* With a failing card the decoder may wait for good.
SPECIFICATION Spec
CONSTANTS
  Songs = {s1, s2}
  NoSong = NoSong
  NBlocks = 4
  READB_FACTOR = 3
  MIXREADQ_DEPTH = 3
  CardErrors = TRUE
  SeekTargets <- NoTargets
INVARIANTS
  PipelineInv
PROPERTIES
  ReadsTheStream
CHECK_DEADLOCK FALSE
