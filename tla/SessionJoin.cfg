SPECIFICATION Spec
CONSTANTS
  Lo = 1
  Hi = 2
  ClockStart = 0
  ClockGain <- ClockRuns
  Pollers = {1, 2}
  Gamers = {}
  MaxBacklog = 4
  MaxLosses = 1
  MaxFailures = 1
  MaxRetirements = 0
  MaxStalePolls = 0
INVARIANTS TypeOK RaisedCounterIsNewAttempt LocalSdpIsCurrent
PROPERTIES LinkKept
CHECK_DEADLOCK FALSE
