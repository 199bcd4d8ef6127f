CONSTANTS
  q1 = q1
  o1 = o1
  o2 = o2
  i1 = i1
  i2 = i2
  g1 = g1
  r1 = r1
  c1 = c1
  c2 = c2
  b1 = b1
  b2 = b2
  Parts = {"sales", "recurring", "purchases", "claims", "receivables"}
  Quotes = {q1}
  SalesOrders = {o1, o2}
  SoldQuantity <- MCSold
  OrderInvoices = {i1, i2}
  InvoicedQuantities = {0, 1}
  Recognised = {i1}
  Attempts = 2
  Workers = {1, 2}
  Templates = {1, 2}
  Frequency <- MCFrequency
  Start <- MCStart
  End <- MCEnd
  MonthLength <- MCMonths
  AsOf = {131, 301, 430, 831}
  Requisitions = {q1}
  PurchaseOrders = {o1, o2}
  BoughtQuantity <- MCSold
  GoodsReceipts = {g1}
  Bills = {b1, b2}
  Quantities = {1, 2}
  Signals <- MCSignals
  Overriding = {}
  Destinations = {"expense"}
  Tolerances = {0, 1}
  Users = {1, 2}
  Claims = {1, 2, 3, 4}
  Claimant <- MCClaimant
  Item <- MCItem
  Invoices = {1, 2}
  Receipts = {r1}
  Notes = {c1, c2}
  Customers = {"k"}
  CustomerOf <- MCCustomerOf
  Figures <- MCFigures
  NoteTotals = {2}
  NoteRates = {2, 3}
  Amount <- MCReceived
  Rate <- MCBooked
  Limit = 3
  ReceiptTargets = {1, 2, c1}
SPECIFICATION SubledgerSpec
INVARIANTS
  HappensOnce
  QuantitiesAddUp
  ReceivablesAddUp
  EverySecondClaimIsFlagged
CHECK_DEADLOCK FALSE
