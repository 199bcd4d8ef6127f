CONSTANTS
  Entries = {"e1", "e2"}
  Schedules = {"s1", "s2", "s3"}
  EntryOf <- TwoOfOne
  Workers = {"w1", "w2"}
  AttemptLimit = 2
  MaxCrashes = 1
  MaxPeriodChanges = 1
SPECIFICATION Spec
INVARIANTS
  ReversedAtMostOnce
  ExecutedIsTrue
PROPERTIES
  EveryScheduleSettles
CHECK_DEADLOCK FALSE
