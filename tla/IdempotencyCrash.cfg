CONSTANTS
  Requests = {r1, r2, r3}
  Hashes = {h1}
  HashOf <- OnePayload
  MaxCrashes = 1
  MaxExpiries = 1
  MaxReaped = 0
SPECIFICATION Spec
INVARIANTS
  AtMostOnce
CHECK_DEADLOCK FALSE
