CONSTANTS
  Last = 3
  Drainers = {d1, d2}
  BatchSize = 2
  Attempts = 2
  MaxDeaths = 1
  MaxQueueErrors = 1
  MaxFailures = 2
  MaxForgotten = 1

SPECIFICATION OutboxSpec
INVARIANTS
  HandledOnce
  NothingLost
PROPERTIES
  EveryEventIsHandled
CHECK_DEADLOCK FALSE
