SPECIFICATION FairSpec
CONSTANTS
  Lo = 1
  Hi = 2
  ClockStart = 0
  ClockGain = {3}
  Pollers = {1}
  Gamers = {1}
  MaxBacklog = 1
  MaxLosses = 1
  MaxFailures = 2
  MaxFaults = 2
INVARIANTS TypeOK
PROPERTIES EventuallyLinked PacketsRelink
CHECK_DEADLOCK FALSE
