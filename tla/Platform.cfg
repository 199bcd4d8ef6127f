CONSTANTS
  r1 = r1
  r2 = r2
  r3 = r3
  r4 = r4
  h1 = h1
  h2 = h2
  Requests = {r1, r2, r3, r4}
  Hashes = {h1, h2}
  HashOf <- MCHashOf
  MaxCrashes = 2
  MaxExpiries = 2
  MaxReaped = 1
  Connections = {r1, r2, r3}
  LockRequests <- MCLockRequests
  VendorIds = {1}
  Banks = {"a", "b"}
  Refs = {"x"}
  BankVersions = 3
  TaxPeriods = {1, 2}
  TaxDocuments = {1, 2}
  TaxedDate <- MCDated
  TaxedRow <- MCRow
  Unseen = {2}
  ReturnVersions = {1, 2}
  TaxUsers = {"ann", "bob"}
  Codes = {"vat", "zero"}
  TaxComponents = {1, 2}
  TaxDates = {1, 2}
  Percents = {5, 20}
  OwnedBy <- MCOwnedBy
  TaxRules <- MCTaxRules
  Facts <- MCFacts
  Packages = {"p"}
  Installers = {1, 2}
  MaxTaxed = 1
  Prices <- MCPrices
  ChargedCodes <- MCCodes
  Discounts = {0, 3}
  SaleRates = {0, 73}
  RoundingModes = {"HALF_UP", "HALF_EVEN"}
  Tolerances = {0, 1}
  MaxLines = 2
  InvoiceTotal = 20
  RateDates = {1, 2}
  RateTypes = {"SPOT"}
  QuotedRates = {73, 130}
  MaxRates = 2
  AmountOf <- MCAmountOf
  Splits <- MCSplits
  ChartAccounts = {"a1", "a2"}
  AccountTypes = {"ASSET", "EXPENSE"}
  Creators = {"s"}
  Writers = {"w"}
  Dimensions = {"d"}
  DimensionValues = {}
  MonthLength <- MCMonths
  Lengths = {1, 3}
  Adjustments = {0, 2}
  MaxRegular = 4
  MaxYears = 2
  Currencies = {"usd", "eur"}
  PolicyDates = {1, 2}
  Methods = {"DERIVED", "CLOSING"}
  ShippedMethod = "DERIVED"
  ControlAccounts = {"x"}
  Posters = {1}
  PolicyVersions = 2
  MaxEntries = 1
  RuleSets <- MCRules
  RuleEvents <- MCEvents
  MappedAccounts = {"a"}
  RuleDates = {1, 2, 3}
  RuleVersions = 3
  Keepers = {"ann", "bob"}
  OpeningEntries = {"e1", "e2"}
  OpeningSets = {"s"}
  OpeningTotals = {0, 5}
  MaxSessions = 3
  Factors = {"f"}
  RecoveryCodes = {"k"}
  SignInRequests = {"q1", "q2"}
  FactorRequired = FALSE
  MaxStep = 2
  MaxRotations = 1
  People = {"ann", "bob"}
  Tenants = {"t"}
  Roles = {"accountant"}
  MemberRequests = {"q1", "q2"}
  MaxInvitations = 2
  FileIds = {"f1", "f2"}
  Contents = {"c1", "c2"}
  FileDocuments = {"d"}
  Deleters = {"s1"}
  Migrations = 3
  Runners = {"m1", "m2"}
  Checkouts <- MCCheckouts
  ReportAccounts = {"a1", "a2", "a3"}
  TypeOf <- MCTypeOf
  Amounts = {3}
  FiscalYears <- MCYears
  MaxReported = 2
  Parts = {"idempotency", "locks", "vendors", "returns", "taxes", "calculation", "foreign", "accounts", "calendar",
           "entity", "rules", "openings", "sessions", "members", "files", "migrator", "reports"}
SPECIFICATION PlatformSpec
INVARIANTS
  OneEffectPerKey
  NoWaitCycle
  SpentOnce
  RecordedIsThere
  RunsOnceInOrder
  OneIsInForce
  FiguresAddUp
  ReturnsStand
  LinesKeepTheirMeaning
CHECK_DEADLOCK FALSE
