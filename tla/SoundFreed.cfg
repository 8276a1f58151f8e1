SPECIFICATION SoundSpec
CONSTANTS
  quiet = quiet
  loud = loud
  Effects = {quiet, loud}
  Priority <- Priorities
  NoEffect = NoEffect
  Origins = {o1}
  NoOrigin = NoOrigin
  Pitches = {127, 140}
  NORM_PITCH = 127
  Chunks <- Sounds
  NoChunk = NoChunk
  NumChannels = 2
  Length = 2
  CacheSize = 1
  HeapSize = 2
  MaxUse = 3
PROPERTIES
  FreesOnlySilent
CHECK_DEADLOCK FALSE
