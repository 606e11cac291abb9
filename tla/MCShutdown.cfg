CONSTANTS
  NumDevices = 2
  QueueMax = 1
  MaxPackets = 1
  MaxPeriods = 0
  Keys = {"old"}
  OtherCommands = {}
  LogSettings <- Simulated
  SavedPackets <- KeySaved
  Timed = {FALSE}
SPECIFICATION Spec
INVARIANTS KeysReachPipesFirst
PROPERTIES StartedSessionEnds
