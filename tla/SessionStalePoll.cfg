SPECIFICATION Spec
CONSTANTS
  Lo = 1
  Hi = 2
  ClockStart = 0
  ClockGain <- ClockRuns
  Pollers = {1, 2}
  Gamers = {}
  MaxBacklog = 3
  MaxLosses = 0
  MaxFailures = 0
  MaxRetirements = 0
  MaxStalePolls = 1
INVARIANTS RaisedCounterIsNewAttempt
CHECK_DEADLOCK FALSE
