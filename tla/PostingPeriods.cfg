SPECIFICATION Spec
CONSTANTS
  s1 = s1
  s2 = s2
  s3 = s3
  e1 = e1
  e2 = e2
  e3 = e3
  a1 = a1
  a2 = a2
  b1 = b1
  Sessions = {s1, s2}
  Entries = {e1, e2}
  NoEntry = NoEntry
  Periods = {1, 2}
  Regular = {1, 2}
  Accounts = {a1}
  Branches = {}
  EntityWide = EntityWide
  Contents <- DraftContents
  SoftClosers = {s1}
  AllowPrivileged = TRUE
  Configured = TRUE
SYMMETRY Symmetric
INVARIANTS PostedIsBalanced NoDeadlock
PROPERTIES PostsOnlyIntoAcceptingPeriod PostedIsPermanent ImplementsLedger
