SPECIFICATION GuiSpec
CONSTANTS
  Songs = {s1, s2}
  NoSong = NoSong
  NBlocks = 4
  READB_FACTOR = 3
  MIXREADQ_DEPTH = 3
  CardErrors = FALSE
  SeekTargets <- NoTargets
  MIX_EV_DEPTH = 5
  FRAME_BLOCKS = 1
  FRAME_HALVES = 1
  LoopStart = 0
  LoopEnd = 0
  Priorities = TRUE
  Late = 0
  Clicks = 3
INVARIANTS
  PlayFindsIdle ButtonTellsTruth
PROPERTIES
  MixesOnward
\* The player may rest for good once the user has made the clicks, or wait
\* for good in MIX_PLAY: the reader's READER_STOP was lost, or the list was
\* clicked while a song was paused.
CHECK_DEADLOCK FALSE
