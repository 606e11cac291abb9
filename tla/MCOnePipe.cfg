CONSTANTS
  p1 = p1
  p2 = p2
  Pipes <- OnePipe
  QueueMax = 2
  MaxPackets = 3
  MaxReaders = 2
SPECIFICATION Spec
INVARIANTS KeysForNextReader
PROPERTIES StopEnds
