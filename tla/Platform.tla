------------------------------ MODULE Platform ------------------------------
(***************************************************************************)
(* What the documents stand on, checked together: retried requests, locks, *)
(* set-up and effective-dated data, tax, figures, reports, files, sign-in, *)
(* memberships and migrations.  A behaviour is one of one component, the   *)
(* others staying as they begin, and every property speaks of each         *)
(* component it concerns.                                                  *)
(***************************************************************************)
EXTENDS Idempotency, Integers, Sequences, FiniteSets, TLC

CONSTANTS
  r1, r2, r3, r4, h1, h2,
  Parts,            \* the components a run is about
  (* What the components take, under names of their own.                    *)
  Connections, LockRequests,
  VendorIds, Banks, Refs, BankVersions,
  TaxPeriods, TaxDocuments, TaxedDate, TaxedRow, Unseen, ReturnVersions, TaxUsers,
  Codes, TaxComponents, TaxDates, Percents, OwnedBy, TaxRules, Facts, Packages, Installers, MaxTaxed,
  Prices, ChargedCodes, Discounts, SaleRates, RoundingModes, Tolerances, MaxLines,
  InvoiceTotal, RateDates, RateTypes, QuotedRates, MaxRates, AmountOf, Splits,
  ChartAccounts, AccountTypes, Creators, Writers, Dimensions, DimensionValues,
  MonthLength, Lengths, Adjustments, MaxRegular, MaxYears,
  Currencies, PolicyDates, Methods, ShippedMethod, ControlAccounts, Posters, PolicyVersions, MaxEntries,
  RuleSets, RuleEvents, MappedAccounts, RuleDates, RuleVersions,
  Keepers, OpeningEntries, OpeningSets, OpeningTotals,
  MaxSessions, Factors, RecoveryCodes, SignInRequests, FactorRequired, MaxStep, MaxRotations,
  People, Tenants, Roles, MemberRequests, MaxInvitations,
  FileIds, Contents, FileDocuments, Deleters,
  Migrations, Runners, Checkouts,
  ReportAccounts, TypeOf, Amounts, FiscalYears, MaxReported

VARIABLES part,
  serving, plan, taken,
  details,
  period, document, stamp, return, reported,
  treatment, rates, taxed, installed, installing,
  stated, calculated, journal,
  fxRates, mode, fxInvoice, fxReceipt, control, rows, fxEntry,
  account, system, rules, creatingAccount, line,
  years,
  entity, book, setup, policy, closed, posting, entries,
  version, simulation,
  entry, set, creating, postingSet,
  now, session, factor, recovery, enrolled, request, opened,
  users, membership, suspended, invitation, bound, accepting, spent,
  file, object, links, posted, deleting, urls, verified, torn,
  recorded, executed, runner,
  reportYears, lines, balance

idempotency == <<row, at, seen, reply, effects, outlived, crashes, expiries, reaped>>
vLocks == <<serving, plan, taken>>
vReturns == <<period, document, stamp, return, reported>>
vTaxes == <<treatment, rates, taxed, installed, installing>>
vCalculation == <<stated, calculated, journal>>
vForeign == <<fxRates, mode, fxInvoice, fxReceipt, control, rows, fxEntry>>
vAccounts == <<account, system, rules, creatingAccount, line>>
vEntity == <<entity, book, setup, policy, closed, posting, entries>>
vRules == <<version, simulation>>
vOpenings == <<entry, set, creating, postingSet>>
vSessions == <<now, session, factor, recovery, enrolled, request, opened>>
vMembers == <<users, membership, suspended, invitation, bound, accepting, spent>>
vFiles == <<file, object, links, posted, deleting, urls, verified, torn>>
vMigrator == <<recorded, executed, runner>>
vReports == <<reportYears, lines, balance>>
-----------------------------------------------------------------------------
Locks == INSTANCE LockOrder WITH Sessions <- Connections, Requests <- LockRequests

Vendors == INSTANCE VendorBankDetails WITH
  Vendors <- VendorIds, Versions <- BankVersions

Returns == INSTANCE TaxReturns WITH
  Periods <- TaxPeriods, Documents <- TaxDocuments, Dated <- TaxedDate, Row <- TaxedRow,
  Versions <- ReturnVersions, Users <- TaxUsers

Taxes == INSTANCE TaxCodes WITH
  Components <- TaxComponents, Dates <- TaxDates, Rules <- TaxRules, Sessions <- Installers

Calculation == INSTANCE Calculation WITH
  Codes <- ChargedCodes, Rates <- SaleRates, Modes <- RoundingModes, document <- calculated

Foreign == INSTANCE ForeignCurrency WITH
  Total <- InvoiceTotal, Dates <- RateDates, Types <- RateTypes, Rates <- QuotedRates, Modes <- RoundingModes,
  rates <- fxRates, invoice <- fxInvoice, receipt <- fxReceipt, entry <- fxEntry

Chart == INSTANCE ChartOfAccounts WITH
  Accounts <- ChartAccounts, Types <- AccountTypes, Values <- DimensionValues, creating <- creatingAccount

Calendar == INSTANCE FiscalCalendar

Entity == INSTANCE EntitySetup WITH
  Dates <- PolicyDates, Accounts <- ControlAccounts, Sessions <- Posters, MaxVersions <- PolicyVersions

Rules == INSTANCE PostingRules WITH
  Rules <- RuleSets, Events <- RuleEvents, Mapped <- MappedAccounts, Dates <- RuleDates,
  MaxVersions <- RuleVersions

Openings == INSTANCE OpeningBalances WITH
  Users <- Keepers, Entries <- OpeningEntries, Sets <- OpeningSets, Totals <- OpeningTotals

SignIn == INSTANCE Sessions WITH Requests <- SignInRequests, Required <- FactorRequired

Members == INSTANCE Memberships WITH Requests <- MemberRequests, request <- accepting

Files == INSTANCE Files WITH Ids <- FileIds, Documents <- FileDocuments, Sessions <- Deleters

Migrator == INSTANCE Migrator WITH Versions <- Migrations

Reports == INSTANCE LedgerReports WITH
  Accounts <- ReportAccounts, Years <- FiscalYears, MaxEntries <- MaxReported, years <- reportYears

(* There are so many connections, and requests name documents of their      *)
(* handlers' kinds.                                                         *)
ASSUME LocksAssumption == IsFiniteSet(Connections) /\ Locks!RequestsAssumption

ASSUME SignInAssumption == SignIn!CodesAssumption

ASSUME MigrationsAssumption == Migrator!CheckoutsAssumption

ASSUME FilesAssumption == Files!ContentsAssumption

ASSUME TaxesAssumption == Taxes!RulesAssumption

ASSUME ReturnsAssumption == Returns!RowsAssumption

ASSUME DatesAssumption ==
  Calendar!CalendarAssumption /\ Entity!DatesAssumption /\ Rules!DatesAssumption

ASSUME FiguresAssumption ==
  /\ Calculation!CodesAssumption /\ Rules!RulesAssumption /\ Foreign!AmountsAssumption
  /\ Reports!YearsAssumption
-----------------------------------------------------------------------------
PlatformInit ==
  /\ part \in Parts
  /\ Init /\ (part # "accounts" => system = {}) /\ (part # "foreign" => mode = "HALF_UP")
  /\ Locks!Init /\ Vendors!Init /\ Returns!Init /\ Taxes!Init /\ Calculation!Init
  /\ Foreign!Init /\ Chart!Init /\ Calendar!Init /\ Entity!Init /\ Rules!Init /\ Openings!Init
  /\ SignIn!Init /\ Members!Init /\ Files!Init /\ Migrator!Init /\ Reports!Init

PlatformNext ==
  \/ /\ part = "idempotency" /\ Next
     /\ UNCHANGED <<part, vLocks, details, vReturns, vTaxes, vCalculation, vForeign, vAccounts,
                    years, vEntity, vRules, vOpenings, vSessions, vMembers, vFiles, vMigrator,
                    vReports>>
  \/ /\ part = "locks" /\ Locks!Next
     /\ UNCHANGED <<part, idempotency, details, vReturns, vTaxes, vCalculation, vForeign,
                    vAccounts, years, vEntity, vRules, vOpenings, vSessions, vMembers, vFiles,
                    vMigrator, vReports>>
  \/ /\ part = "vendors" /\ Vendors!Next
     /\ UNCHANGED <<part, idempotency, vLocks, vReturns, vTaxes, vCalculation, vForeign,
                    vAccounts, years, vEntity, vRules, vOpenings, vSessions, vMembers, vFiles,
                    vMigrator, vReports>>
  \/ /\ part = "returns" /\ Returns!Next
     /\ UNCHANGED <<part, idempotency, vLocks, details, vTaxes, vCalculation, vForeign,
                    vAccounts, years, vEntity, vRules, vOpenings, vSessions, vMembers, vFiles,
                    vMigrator, vReports>>
  \/ /\ part = "taxes" /\ Taxes!Next
     /\ UNCHANGED <<part, idempotency, vLocks, details, vReturns, vCalculation, vForeign,
                    vAccounts, years, vEntity, vRules, vOpenings, vSessions, vMembers, vFiles,
                    vMigrator, vReports>>
  \/ /\ part = "calculation" /\ Calculation!Next
     /\ UNCHANGED <<part, idempotency, vLocks, details, vReturns, vTaxes, vForeign, vAccounts,
                    years, vEntity, vRules, vOpenings, vSessions, vMembers, vFiles, vMigrator,
                    vReports>>
  \/ /\ part = "foreign" /\ Foreign!Next
     /\ UNCHANGED <<part, idempotency, vLocks, details, vReturns, vTaxes, vCalculation,
                    vAccounts, years, vEntity, vRules, vOpenings, vSessions, vMembers, vFiles,
                    vMigrator, vReports>>
  \/ /\ part = "accounts" /\ Chart!Next
     /\ UNCHANGED <<part, idempotency, vLocks, details, vReturns, vTaxes, vCalculation,
                    vForeign, years, vEntity, vRules, vOpenings, vSessions, vMembers, vFiles,
                    vMigrator, vReports>>
  \/ /\ part = "calendar" /\ Calendar!Next
     /\ UNCHANGED <<part, idempotency, vLocks, details, vReturns, vTaxes, vCalculation,
                    vForeign, vAccounts, vEntity, vRules, vOpenings, vSessions, vMembers,
                    vFiles, vMigrator, vReports>>
  \/ /\ part = "entity" /\ Entity!Next
     /\ UNCHANGED <<part, idempotency, vLocks, details, vReturns, vTaxes, vCalculation,
                    vForeign, vAccounts, years, vRules, vOpenings, vSessions, vMembers, vFiles,
                    vMigrator, vReports>>
  \/ /\ part = "rules" /\ Rules!Next
     /\ UNCHANGED <<part, idempotency, vLocks, details, vReturns, vTaxes, vCalculation,
                    vForeign, vAccounts, years, vEntity, vOpenings, vSessions, vMembers,
                    vFiles, vMigrator, vReports>>
  \/ /\ part = "openings" /\ Openings!Next
     /\ UNCHANGED <<part, idempotency, vLocks, details, vReturns, vTaxes, vCalculation,
                    vForeign, vAccounts, years, vEntity, vRules, vSessions, vMembers, vFiles,
                    vMigrator, vReports>>
  \/ /\ part = "sessions" /\ SignIn!Next
     /\ UNCHANGED <<part, idempotency, vLocks, details, vReturns, vTaxes, vCalculation,
                    vForeign, vAccounts, years, vEntity, vRules, vOpenings, vMembers, vFiles,
                    vMigrator, vReports>>
  \/ /\ part = "members" /\ Members!Next
     /\ UNCHANGED <<part, idempotency, vLocks, details, vReturns, vTaxes, vCalculation,
                    vForeign, vAccounts, years, vEntity, vRules, vOpenings, vSessions, vFiles,
                    vMigrator, vReports>>
  \/ /\ part = "files" /\ Files!Next
     /\ UNCHANGED <<part, idempotency, vLocks, details, vReturns, vTaxes, vCalculation,
                    vForeign, vAccounts, years, vEntity, vRules, vOpenings, vSessions,
                    vMembers, vMigrator, vReports>>
  \/ /\ part = "migrator" /\ Migrator!Next
     /\ UNCHANGED <<part, idempotency, vLocks, details, vReturns, vTaxes, vCalculation,
                    vForeign, vAccounts, years, vEntity, vRules, vOpenings, vSessions,
                    vMembers, vFiles, vReports>>
  \/ /\ part = "reports" /\ Reports!Next
     /\ UNCHANGED <<part, idempotency, vLocks, details, vReturns, vTaxes, vCalculation,
                    vForeign, vAccounts, years, vEntity, vRules, vOpenings, vSessions,
                    vMembers, vFiles, vMigrator>>

platform == <<part, idempotency, vLocks, details, vReturns, vTaxes, vCalculation, vForeign,
              vAccounts, years, vEntity, vRules, vOpenings, vSessions, vMembers, vFiles,
              vMigrator, vReports>>

PlatformSpec == PlatformInit /\ [][PlatformNext]_platform
-----------------------------------------------------------------------------
(* Handlers that wait for each other's locks: see LockOrder.                *)
NoWaitCycle == part = "locks" => Locks!NoWaitCycle

(* Of what is valid from a date, one is valid on every date: the period of  *)
(* a posting date, the accounting policy, the posting rule, the bank        *)
(* details of a vendor, however they were split, superseded or back-dated.  *)
OneIsInForce ==
  /\ part = "calendar" => Calendar!EveryDayHasOnePeriod
  /\ part = "entity" => Entity!OnePolicyPerDay
  /\ part = "rules" => Rules!OneRulePerDay
  /\ part = "vendors" => Vendors!OneVersionIsValid

(* The code of a second factor, a recovery code, a sign-in to complete, an  *)
(* invitation: whatever requests race for it, each is used once.            *)
SpentOnce ==
  /\ part = "sessions" => SignIn!SpentOnce
  /\ part = "members" => Members!InvitationsAreSpentOnce

(* Figures that were rounded add up: a document and its lines, the entry it *)
(* posts, the lines of a rule, what settles an invoice at other rates, the  *)
(* columns of every report.                                                 *)
FiguresAddUp ==
  /\ part = "calculation" => Calculation!DocumentAddsUp /\ Calculation!PostsWhatItCalculates
  /\ part = "rules" => Rules!BalancingLineBalances
  /\ part = "foreign" => Foreign!SettlementPosts /\ Foreign!ResidueIsRounding
  /\ part = "reports" => Reports!ReportsAddUp

(* Versions of tax returns, their signatures and what they report: see      *)
(* TaxReturns.                                                              *)
ReturnsStand ==
  part = "returns" =>
    Returns!OneReturnStands /\ Returns!FiguresHaveTwoSignatures /\ Returns!StampedIsReportedOnce
      /\ Returns!ReturnsComeToTheirTax

(* What a posted line was recorded under stays what it was: its tax rates   *)
(* can be recalculated, its account keeps its type.                         *)
LinesKeepTheirMeaning ==
  /\ part = "taxes" => Taxes!SnapshotsReproduce
  /\ part = "accounts" => Chart!TypeIsLocked

(* What one transaction records of another, or of the object store, is so:  *)
(* a posted opening balance has a posted entry, an attachment has bytes.    *)
RecordedIsThere ==
  /\ part = "openings" => Openings!PostedSetsArePosted
  /\ part = "files" => Files!AttachmentsAreThere

(* Runners that race, crash and disagree: see Migrator.                     *)
RunsOnceInOrder == part = "migrator" => Migrator!RunsOnceInOrder

(* The stored balances and the journal lines yield one trial balance        *)
(* (refuted: a new fiscal year has no stored balances).                     *)
SourcesAgree == part = "reports" => Reports!SourcesAgree
-----------------------------------------------------------------------------
(* The values TLC checks it with.                                           *)

(* Retries of one payload, and a request that reuses the key for another.   *)
MCHashOf == [r \in Requests |-> IF r = r4 THEN h2 ELSE h1]

(* Documents: receipts 1 2, invoices 3 4, a credit note 5, bills 6 7,       *)
(* payments 8 9, a vendor credit 10, a payment run 11; the requests clients *)
(* may send, in any order and several at once.                              *)
R(h, s, t) == [handler |-> h, source |-> s, targets |-> t]

Settling == {
  R("createReceipt", 0, <<<<4, 3>>>>), R("allocateReceipt", 1, <<<<3, 4>>>>),
  R("allocateReceipt", 1, <<<<3, 5>>>>),
  R("postInvoice", 3, <<>>), R("voidOrCreditInvoice", 4, <<>>), R("postCreditNote", 5, <<>>),
  R("applyCreditNote", 5, <<<<3, 4>>>>), R("createArWriteOff", 3, <<>>),
  R("createCustomerRefund", 5, <<>>)}

Paying == {
  R("postBill", 6, <<>>), R("createPayment", 0, <<<<6, 7>>>>), R("allocatePayment", 8, <<<<7, 6>>>>),
  R("allocatePayment", 8, <<<<10, 7>>>>), R("confirmPayment", 8, <<>>), R("createVendorCredit", 7, <<>>),
  R("postVendorCredit", 10, <<>>), R("applyVendorCredit", 10, <<<<6, 7>>>>),
  R("placeHold", 7, <<>>), R("createPaymentRun", 0, <<<<>>>>),
  R("createPaymentRun", 0, <<<<6, 7>>>>), R("executePaymentRun", 11, <<<<>>>>),
  R("failPayment", 9, <<<<7>>>>), R("failPayment", 9, <<<<6, 7>>>>)}

MCLockRequests == Settling \cup Paying

MCDated == <<1, 1>>
MCRow == <<[direction |-> "OUTPUT", code |-> "vat", tax |-> 20, recoverable |-> 0],
           [direction |-> "INPUT", code |-> "vat", tax |-> 10, recoverable |-> 5]>>

(* Of the rules, two compete on one date, and one is for goods only.        *)
MCOwnedBy == <<"vat", "vat">>
MCTaxRules == {
  [priority |-> 2, from |-> 1, to |-> 2, when |-> "kind" :> {"goods"}, code |-> "vat"],
  [priority |-> 1, from |-> 0, to |-> 1000, when |-> "kind" :> {"goods", "services"}, code |-> "none"],
  [priority |-> 1, from |-> 1, to |-> 1000, when |-> "kind" :> {"goods"}, code |-> "zero"]}
MCFacts == {<<>>, "kind" :> "goods"}

(* Amounts on and beside the half, negative ones, and compound taxes.       *)
Component(id, r, cmp, rec) == [id |-> id, rate |-> r, compound |-> cmp, recoverable |-> rec]
MCPrices == {-174, 0, 310}
MCCodes == {
  [inclusive |-> FALSE, components |-> <<>>],
  [inclusive |-> FALSE, components |-> <<Component(1, 20, FALSE, 50), Component(2, 5, TRUE, 100)>>],
  [inclusive |-> TRUE, components |-> <<Component(1, 20, FALSE, 50), Component(2, 5, TRUE, 100)>>],
  [inclusive |-> TRUE, components |-> <<Component(3, 3, FALSE, 0), Component(4, 3, FALSE, 100)>>],
  [inclusive |-> TRUE, components |-> <<Component(5, 20, FALSE, 0), Component(6, -20, FALSE, 100)>>]}

(* Settled in two or three parts, at once or later, at rates that differ.   *)
MCAmountOf == <<20, 13>>
MCSplits == {<<7>>, <<6, 7>>}

MCMonths == <<3, 2, 3, 2, 2>>   \* a year of short months

(* A rule that repeats a line for every item and rounds down what it halves,*)
(* one of a constant, one that must not parse.                              *)
RuleLine(side, amount, halves, each, omit) ==
  [side |-> side, account |-> "a", amount |-> amount, const |-> 3, halves |-> halves,
   forEach |-> each, omitIfZero |-> omit]
MCRules == {
  <<RuleLine("DEBIT", "event", 2, TRUE, TRUE), RuleLine("CREDIT", "event", -1, FALSE, FALSE),
    RuleLine("CREDIT", "balancing", 2, FALSE, TRUE)>>,
  <<RuleLine("DEBIT", "const", 1, FALSE, TRUE), RuleLine("CREDIT", "balancing", 2, TRUE, TRUE)>>,
  <<RuleLine("DEBIT", "balancing", 2, FALSE, TRUE), RuleLine("CREDIT", "balancing", 2, FALSE, TRUE)>>}
Missing == -1000
Money(a, c) == [amount |-> a, currency |-> c]
MCEvents == {[self |-> Money(a, "usd"), items |-> i] :
  a \in {-3, 0, 5, Missing},
  i \in {<<>>, <<Money(5, "usd")>>, <<Money(5, "usd"), Money(-7, "usd")>>,
         <<Money(5, "eur"), Money(1, "usd")>>}}

(* Checkouts of three migrations: all of them, one behind, one where the    *)
(* second file was edited, one where it is yet to come.                     *)
MCCheckouts == {<<1, 1, 0>>, <<1, 1, 1>>, <<1, 2, 1>>, <<1, 0, 1>>}

(* Two fiscal years, the first with an adjustment period on its last day.   *)
MCYears == <<<<[start |-> 1, end |-> 1], [start |-> 2, end |-> 3], [start |-> 3, end |-> 3]>>,
             <<[start |-> 4, end |-> 4]>>>>

MCTypeOf == "a1" :> "ASSET" @@ "a2" :> "REVENUE" @@ "a3" :> "EXPENSE"
=============================================================================
