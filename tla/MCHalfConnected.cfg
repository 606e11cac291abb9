CONSTANTS
  NumDevices = 2
  QueueMax = 1
  MaxPackets = 1
  MaxPeriods = 0
  Keys = {}
  OtherCommands = {}
  LogSettings <- PipeOnly
  SavedPackets <- NothingSaved
  Timed = {FALSE}
SPECIFICATION Spec
INVARIANTS AddedIsProcessed
