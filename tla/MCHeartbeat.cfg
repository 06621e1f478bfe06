SPECIFICATION Spec
CONSTANTS
  Threshold = 3
  CheckInterval = 2
  MaxTime = 14
  MaxStops = 1
  None = None
INVARIANTS
  SilenceIsNoticed
  AlarmEndsWithSilence
  OneAlarmPerSilence
  WatchdogGapIsNoticed
