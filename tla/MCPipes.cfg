CONSTANTS
  p1 = p1
  p2 = p2
  Pipes <- TwoPipes
  QueueMax = 2
  MaxPackets = 2
  MaxReaders = 1
SPECIFICATION Spec
INVARIANTS TypeOK StreamIsPcap TakeFindsPacket
PROPERTIES LifeAsAssumed SentInOrder
SYMMETRY PipeSymmetry
