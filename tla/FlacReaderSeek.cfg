\* The reader may stop for good when READER_STOP has been dropped by a full
\* queue (StopLost of MixPlayer).
SPECIFICATION FairSpec
CONSTANTS
  Songs = {s1, s2}
  NoSong = NoSong
  NBlocks = 4
  READB_FACTOR = 3
  MIXREADQ_DEPTH = 3
  CardErrors = FALSE
  SeekTargets <- LoopTargets
INVARIANTS
  NoBufferLost NoSlotRace NoLostWakeup
PROPERTIES
  ReadsAnswered
CHECK_DEADLOCK FALSE
