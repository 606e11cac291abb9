CONSTANTS
  Offered = "right"
  MaxHangups = 2
  MaxFaults = 1
  MaxLine = 1
SPECIFICATION FairSpec
INVARIANTS TypeOK InStep CapturesInMode EndsStopped
PROPERTIES InterruptedEnds
