CONSTANTS
  Today = 3
  Replicas = {w1, w2}
  Posts = TRUE
  MaxRestarts = 2
  MaxClosings = 2
SPECIFICATION RecurringSpec
INVARIANTS
  OneEntryPerOccurrence
  NoDateIsSkipped
PROPERTIES
  ScheduleCatchesUp
CHECK_DEADLOCK FALSE
