CONSTANTS
  d1 = d1
  d2 = d2
  Devices <- MCDevices
  Simulated = simulated
  None = none
  Second = 3
  Width = 16
  Timezone <- MCTimezone
  StartTimes = {19, 20}
  Uptimes = {0, 2}
  SavedStamps = {7}
  Split = TRUE
  MaxTicks = 5
  MaxCaptures = 2
SPECIFICATION MCSpec
INVARIANTS NearCapture OrderAfterASecond RecordFits ToldApart
CHECK_DEADLOCK FALSE
