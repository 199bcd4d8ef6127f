CONSTANTS
  x1 = x1
  x2 = x2
  Sources = {x1, x2}
  NoSource = NoSource
  Targets = {1, 2}
  Worth <- MCWorth
  Owed <- MCOwed
  Requests <- MCRequests
  Sessions = {s1, s2, s3}
SYMMETRY Interchangeable
SPECIFICATION SettlementSpec
INVARIANTS
  ReadsAreCurrent
  BackstopNeverFires
  RowsExplainColumns
PROPERTIES
  RefusedForCause
  ImplementsOpenItems
