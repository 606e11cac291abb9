CONSTANTS
  ka = ka
  kb = kb
  std = std
  none = none
  Keys <- MCKeySet
  StandardKey = std
  NoKey = none
  Frames <- MCFrames
  Configured <- MCConfigured
  BlockCipher <- MCCipher
SPECIFICATION MCSpec
INVARIANTS KnownKeysWork
CHECK_DEADLOCK FALSE
