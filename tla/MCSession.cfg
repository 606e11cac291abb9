CONSTANTS
  NumDevices = 2
  QueueMax = 2
  MaxPackets = 2
  MaxPeriods = 1
  Keys = {}
  OtherCommands = {}
  LogSettings <- AllOutputs
  SavedPackets <- NothingSaved
  Timed = {TRUE, FALSE}
SPECIFICATION Spec
INVARIANTS TypeOK TakeFindsPacket Drained RecordsInPlace IndexInBounds KeptIsWritten
PROPERTIES UntimedForceFindsInterruption QueueLosesOldest
