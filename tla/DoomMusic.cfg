SPECIFICATION DoomSpec
CONSTANTS
  Songs = {s1, s2}
  NoSong = NoSong
  NBlocks = 4
  READB_FACTOR = 3
  MIXREADQ_DEPTH = 3
  CardErrors = FALSE
  SeekTargets <- NoTargets
  MIX_EV_DEPTH = 5
  FRAME_BLOCKS = 1
  FRAME_HALVES = 1
  LoopStart = 1
  LoopEnd = 3
  Priorities = TRUE
  Late = 2
  Changes = 2
INVARIANTS
  InPhase PlaysSongAsked LoopNeverEnds
PROPERTIES
  MixesOpenSong ServedUnlessStopLost
\* The player may rest for good once Doom has made its changes, or wait for
\* good in MIX_PLAY (ServedUnlessStopLost says when).
CHECK_DEADLOCK FALSE
