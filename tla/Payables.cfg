CONSTANTS
  p1 = p1
  v1 = v1
  v2 = v2
  e1 = e1
  e2 = e2
  Bills = {1, 2}
  Payments = {p1}
  Credits = {c1}
  Vendors = {v1, v2}
  Entities = {e1, e2}
  Holds = {h1, h2}
  Runs = {r1}
  Total <- MCTotal
  Amount <- MCAmount
  CreditOf <- MCCreditOf
  VendorOf <- MCVendorOf
  EntityOf <- MCEntitiesApart
  MatchResults = {"EXCEPTION"}
SYMMETRY Interchangeable
SPECIFICATION Spec
INVARIANTS
  StatusFollowsBalance
  LedgerIsOpenItems
  ExcludedExactlyByHolds
PROPERTIES
  SettlesAsPromised
CHECK_DEADLOCK FALSE
