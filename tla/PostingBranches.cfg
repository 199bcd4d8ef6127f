SPECIFICATION Spec
CONSTANTS
  s1 = s1
  s2 = s2
  s3 = s3
  e1 = e1
  e2 = e2
  e3 = e3
  a1 = a1
  a2 = a2
  b1 = b1
  Sessions = {s1, s2}
  Entries = {e1, e2, e3}
  NoEntry = NoEntry
  Periods = {1, 2}
  Regular = {1, 2}
  Accounts = {a1, a2}
  Branches = {b1}
  EntityWide = EntityWide
  Contents <- BranchContents
  SoftClosers = {}
  AllowPrivileged = FALSE
  Configured = FALSE
SYMMETRY Interchangeable
INVARIANTS TypeOK ProjectionIsRebuildable NumbersAreGapless ReversedExactlyOnce
