SPECIFICATION Spec
CONSTANTS
  Chunks = 5
  PageChunks = 2
  SHOTQ_DEPTH = 6
  Shots = 2
  Blocks = 3
  FileList <- MCFileList
  WAD = "wad"
  Place <- MCPlace
  Copies = 2
  CopyFaults = 2
  REQCMD_DEPTH = 6
  EndWait = 3
  DummyWait = 2
  StepTime = 1
INVARIANTS
  BufferHeld PlayableIsWhole SavedDespiteEnd
PROPERTIES
  FilesComplete ScreenshotEnds GameEndsInReset
\* The board may be reset, or stay with a box whose button does nothing.
CHECK_DEADLOCK FALSE
