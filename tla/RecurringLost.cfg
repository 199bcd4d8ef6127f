CONSTANTS
  Today = 2
  Replicas = {w1}
  Posts = FALSE
  MaxRestarts = 1
  MaxClosings = 0
SPECIFICATION RecurringSpec
INVARIANTS
  NoOccurrenceIsLost
CHECK_DEADLOCK FALSE
