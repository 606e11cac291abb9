CONSTANTS
  ka = ka
  kb = kb
  std = std
  none = none
  Keys <- MCKeySet
  StandardKey = std
  NoKey = none
  Frames <- MCFrames
  Configured <- MCConfigured
  BlockCipher <- MCCipher
SPECIFICATION MCSpec
INVARIANTS LearntInChain FirstKeysWork FrameRecovered EncodingsUnambiguous
CHECK_DEADLOCK FALSE
