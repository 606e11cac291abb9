CONSTANTS
  Frames <- AllFrames
  BufferSize = 4
  MaxFrames = 4
  MaxDamaged = 2
SPECIFICATION Spec
INVARIANTS TypeOK FramesAsSent NothingLost InStepAgain
