SPECIFICATION Spec
CONSTANTS
  Lo = 1
  Hi = 2
  ClockStart = 0
  ClockGain <- ClockRuns
  Pollers = {2}
  Gamers = {1}
  MaxBacklog = 3
  MaxLosses = 0
  MaxFailures = 1
  MaxRetirements = 1
  MaxStalePolls = 1
INVARIANTS CountersInOrder ResponderHasOffer NobodyWaitsForever SessionsMatch CandidatesFit CandidatesArrive
CHECK_DEADLOCK FALSE
