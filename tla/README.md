# Formal models of the accounting platform

TLA+ modules, TLC configurations and TLAPS proofs for the back end of the
accounting and finance platform in `src/`: the general ledger, the receivables
and payables subledgers, tax, master data and set-up, sign-in, files, the
background worker and the plumbing under them. Every definition is a translation
of the TypeScript services and of the SQL constraints they lean on;
`PROJECT.json` gives the lines each one stands for.

1. Inventory of the system
2. Modules
3. Runs, bounds and fairness
4. What the runs show about the code
5. Proofs
6. What the models leave out
7. Plan

## 1. Inventory of the system

The API process (NestJS) and one or more worker replicas share a PostgreSQL
database at READ COMMITTED; Redis carries the queue. A request is one handler,
and a handler is, almost always, one database transaction (`writeInTenant`,
`withTransaction`). Everything hard therefore happens between transactions of
concurrent requests, between the several transactions of a job or of a call
that is made of several handlers, and where a process dies.

| Component (source) | State it keeps | Operations | What makes it correct |
| --- | --- | --- | --- |
| Journal entries and posting (`packages/ledger/src/journal.service.ts`, `posting.service.ts`, `numbering.ts`) | `journal_entries`, `journal_lines`, `number_sequences` | create, update, discard, submit, approve, post, reverse, schedule a reversal | posted history is permanent and balanced, numbers are gapless, one reversal per entry |
| Balance projection (`projection.service.ts`) | `ledger_account_balances` | refresh after a posting, rebuild | always what a rebuild from the entries would give |
| Accounting periods and rates (`finance-setup.service.ts`) | `fiscal_years`, `accounting_periods`, `exchange_rates` | create a year, soft-close, hard-close, reopen, lock, record a rate | every day has one period; nothing is posted into one that does not accept it |
| Chart of accounts (`chart.service.ts`) | `accounts`, dimension rules | create, update, set rules | a line's account keeps its type |
| Posting rules, opening balances (`rules.service.ts`, `packages/domain/src/posting-rules.ts`) | rule versions, opening balance sets | new version, simulate; create and post a set | one rule a day, drafts that balance, a posted set has a posted entry |
| Ledger reports (`reports.service.ts`) | none of their own | trial balance from two sources, general ledger, activity | every report balances and opens where another closed |
| Domain values (`packages/domain/src`) | none | round, allocate, calculate a document, prepare a posting | totals are sums of parts, postings balance |
| Settlement (`packages/subledger/src/allocation.ts`) | settlement columns of six document tables, allocation rows | lock targets, validate, apply, record, post at two rates | nothing is settled or used beyond its amount; rows and columns agree |
| Payables and procurement (`ap.service.ts`, `procurement.service.ts`) | requisitions, orders, goods receipts, bills, payments, vendor credits, holds, runs, claims, bank details | draft, order, receive, match, approve, post, pay, allocate, confirm, credit, hold, run, claim | quantities agree, the control account is the open items, held bills are not paid |
| Receivables and sales (`ar.service.ts`, `sales.service.ts`) | quotes, orders, invoices, receipts, credit notes, write-offs, refunds, templates, e-invoices | convert, confirm, draft, edit, post, void or credit, allocate, apply, write off, refund, generate, submit | the same, mirrored, and once what may happen once |
| Tax (`tax.service.ts`, `tax-return.service.ts`, `localization.service.ts`) | codes, rates, installations, tax transactions, periods, returns | resolve, record, close, create, prepare, approve, file, amend | one rate a day, each transaction in one return, two signatures |
| Ledger scheduler (`packages/ledger/src/scheduler.ts`, `apps/worker/src/ledger-scheduler.ts`) | `scheduled_reversals`, `recurring_journals`, their occurrences | claim, reverse, record; reserve, generate, post, advance | once per schedule and per occurrence, none lost, across replicas and crashes |
| Idempotency (`packages/database/src/idempotency.ts`, the HTTP interceptor) | `idempotency_keys` | reserve, take over, execute, store, replay, reap | one execution per key while its lock lasts, replays that belong to the request |
| Outbox (`packages/database/src/outbox.ts`, `apps/worker/src/outbox-drainer.ts`, `main.ts`) | `outbox_events`, checkpoints, processed events; the BullMQ queue | publish, claim, send, mark, consume | every committed event takes effect once |
| Sign-in and users (`apps/api/src/auth`, `apps/api/src/iam`) | sessions, factors, recovery codes, users, memberships, invitations | log in, verify, refresh, revoke; sign up, invite, accept, suspend | a code, a token and an invitation are spent once |
| Organization and configuration (`apps/api/src/organization`) | legal entities, books, policies, sequences | create, update, activate, new policy version | one policy a day |
| Files (`packages/subledger/src/files.service.ts`) | `files`, `file_links`; the object store | sign a URL, complete, link, delete | an attachment has bytes, the recorded ones where that was verified |
| Migrator (`packages/database/src/migrator.ts`) | `schema_migrations` | status, migrate | each migration once, in the order of the files |
| Audit chain (`packages/database/src/audit.ts`) | `audit_events` | append under an advisory lock, verify | one chain per tenant |
| HTTP layer, web application, contracts, test kits | none the back end depends on | | not modelled; reasons in `PROJECT.json` |

Interaction: subledger handlers call `DocumentPostingService.post`, which calls
the ledger's `commitPosting`, in the handler's own transaction; `commitPosting`
takes the journal number, refreshes the projection, writes the audit row and
publishes to the outbox. Documents are calculated by `packages/domain` with the
rates `tax.service` resolves, and stamp their tax transactions with the period
that is to report them. The scheduler and the opening balances call the journal
service like a user. The idempotency interceptor wraps a handler from outside
its transaction.

What is hard here: locks taken in an order that differs between handlers;
checks that are read in one statement and relied on in another; the scheduler's
and the idempotency layer's *sequences* of transactions, with a crash or a
second replica between any two; a provider and an object store that no rollback reaches;
redelivery by the queue; data that is valid from
a date and superseded while it is used; two sides of the books, written by
different code, that have to agree after every sequence of calls; rounding.
`PROJECT.json` lists these hazards at their lines.

## 2. Modules

| Module | Models | State and steps |
| --- | --- | --- |
| `LedgerData` | rows of the ledger's tables, what post and reverse write, the recomputation of balances, the table of period transitions | no state: operators shared by the next two |
| `Ledger` | the abstract ledger: each of createDraft, updateDraft, discardDraft, post, reverse, transition happens at once | the committed tables |
| `Posting` | the same handlers as transactions: locks on entry, period, sequence, projection and audit chain, statement by statement, with rollback | committed tables, and per session a label, a request, locks and its uncommitted writes |
| `LockOrder` | the locks of nineteen document handlers, in the order of their statements | per session the request, the locks it takes and how many it has |
| `OpenItems` | the abstract settlement: a request takes effect at once or not at all | what sources have used and targets have been settled by |
| `Settlement` | the allocation protocol statement by statement: lock source, lock targets, validate, apply, record | settlement columns, allocation rows, per session what it has locked and read |
| `Payables` | the accounts payable documents with their journals on the control and advance accounts | document rows, allocation rows, holds, runs, two account balances per entity |
| `Receivables` | invoices, receipts, credit notes, write-offs and refunds, each booked at a rate of its own, with the same two accounts in base currency | document rows, allocation rows, refunds, two balances |
| `SalesDocuments` | quotes, orders, the drafting and undoing of invoices, e-invoice submissions with the provider's call, the commit and the rollback apart | the documents, what each order line has invoiced, what the provider entered |
| `RecurringInvoices` | the generation tick: scan, then template by template under its lock | cursors, invoices issued, per worker its run |
| `PurchaseDocuments` | requisitions, orders, goods receipts, duplicate search, matching, posting of bills | the documents with their quantities, the accrual account |
| `ExpenseClaims` | claims from draft to posted and their duplicate flag | status, flags, approvers, entries |
| `VendorBankDetails` | versions of a vendor's bank details | the versions |
| `TaxCodes` | components and dated rates of a code, the rules that pick one, the installation of a regime | rates, snapshots on lines, installations |
| `TaxReturns` | stamping of transactions, tax periods, versions of returns from creation to filing and amendment | periods, stamps, versions, what each filed |
| `Calculation` | the arithmetic: rounding, proportional allocation, inclusive prices, totals, posting lines, preparation of a posting | what was stated, what was calculated, the journal |
| `ForeignCurrency` | exchange rates, an invoice and the receipts that settle it in parts, at other rates | rates, invoice, receipts, the control account, the last entry |
| `ChartOfAccounts` | changes of accounts beside the writing of lines that have read them | accounts, rules, lines in their transactions |
| `FiscalCalendar` | generation of years and periods, resolution of a date | the years |
| `EntitySetup` | an entity from creation to activation, its policy versions beside postings | entity, book, policies, closed periods, entries |
| `PostingRules` | parsing and evaluating a rule, versions and their lookup | versions, the last simulation |
| `OpeningBalances` | drafts to submitted, approved and posted; opening balance sets in their several transactions | entries, sets, the calls under way |
| `LedgerReports` | stored balances, both trial balances, general ledger, activity, accounting equation | fiscal years, lines, stored balances |
| `Files` | upload, completion, links, deletion, with an object store in no transaction and URLs that outlive both | rows, objects, links, live URLs, deletions under way |
| `Sessions` | login, second factors, rotation and revocation | clock, sessions, factors, recovery codes, requests under way |
| `Memberships` | sign-up, invitations, memberships, suspension, choice of a tenant | the rows, requests under way |
| `Migrator` | runs of the migrator from differing checkouts, with and without gaps | the record, what was executed, the runners |
| `ScheduledReversals` | `runDueReversals` in several replicas, with cancelling, reversing by hand and closing beside it | schedules, reversals per entry, per worker its claim and the row it is at |
| `RecurringJournals` | `runDueRecurringJournals` likewise: reserve, draft, link, post, advance | template, reservations, entries, per worker its claim and step |
| `Idempotency` | `withIdempotency` for the requests that share one key | the row of the key, per request its step and reply, the executions that took effect |
| `Outbox` | publication, drainers, queue, consumer | events, jobs, per drainer its batch, processed events, effects |
| `Platform` | the components a document stands on, side by side, and what holds of them together | the union of their variables, and which component a behaviour is of |
| `Subledger` | the components documents are written in, side by side, as `Platform` does for those they stand on | the union of their variables |
| `Sums` | what holds of the sum of a function over a finite set: a term replaced, a term more, two sums added, a sum taken in groups | no state: lemmas |
| `PostingProofs`, `SettlementProofs`, `PayablesProofs`, `WorkerProofs`, `SubledgerProofs`, `PlatformProofs`, `FiguresProofs` | theorems of the modules they extend (`WorkerProofs` of both schedules and the outbox, `FiguresProofs` of the arithmetic in `Platform`) | |
| `MCPosting`, `MCSettlement`, `MCPayables` | finite instances for TLC; the other runs take a module as it is | |

`Posting` implements `Ledger` and `Settlement` implements `OpenItems` (both with
`INSTANCE` and a refinement mapping); `Payables` takes whole handlers as steps,
which `Settlement` justifies, and implements `OpenItems` too. `Posting` has the
details of one posting and `LockOrder` the order of locks across the nineteen
document handlers it lists.
`ForeignCurrency` takes its arithmetic from `Calculation`.

`Subledger` and `Platform` extend one component and instantiate the others
beside it. They share no variable, so every behaviour is one of one component:
the variable `part` says which, the others stay as they begin, and each property
is the conjunction of what it means for the components it is about. Both
take all that their components take as constants of their own, so that
`SubledgerProofs`, `PlatformProofs` and `FiguresProofs` speak of every value of
them.

Each operator named `Definition_Something` next to `Definition` is a mutant: the
definition with a plausible bug. `PROJECT.json` pairs every checked property with
one that TLC must find to violate it.

### Correspondence in brief

* **Row locks.** A `SELECT ... FOR UPDATE` (or `FOR SHARE` on a period) is a step
  whose guard is that no other session holds a conflicting lock; locks are held
  to the end of the transaction. In `Posting` they follow from a session's label
  (`HoldsEntry`, `SharesPeriod`, `OwnsPeriod`, `HoldsSequence`, `HoldsAudit`).
* **Handlers as steps.** A handler that locks everything it reads before it
  reads it is one step (`Receivables`, `SalesDocuments`, `Payables`). Where it
  reads without a lock and writes later, it is two: `Begin...` and `Commit...`
  (or `FindDuplicateBills` and `CreateBill`, `ReadParent` and `CreateAccount`,
  `StartPosting` and `RecordTransactions`), and `Rollback` may come between.
* **Uncommitted writes.** `Posting` keeps a session's writes apart and publishes
  them in its commit step; `View` is what the session's own statements read.
* **Refresh.** The projection's `DELETE` and `INSERT ... SELECT` are separate
  steps, because another transaction may commit between them: `StartClear`,
  `FinishClear`, `InsertRows`; `Collides` is the primary key that then refuses.
* **Workers.** Each transaction of a scheduler's loop is one step; a crash
  between any two forgets what the process knew and keeps what it committed.
* **Idempotency.** Every statement of `withIdempotency` is a step. `holder` is a
  ghost: the row has no owner column, which is the point of `OneAtATime`. A lock
  runs out on a request that is still at work as well as on a dead one, because
  nothing bounds an operation (`pool.ts` bounds its statements and idle time);
  `outlived` is the history of the former.
* **Queue.** BullMQ is external: a job is added once while its id is known,
  delivered until acknowledged, dropped after `Attempts` failures. The worker
  that ships only logs the event; the model gives it one effect inside the
  transaction of `markProcessed`, the use that function is written for.
* **Object store.** External: `Upload` and `RemoveObject` change it at once and
  nothing rolls them back. `Upload` is possible while the signed URL lasts,
  whatever has become of the row. The store may or may not report a hash (`head`
  in `CompleteUpload`); `S3Storage.head` does not ask for one.
* **E-invoice provider.** External, and none is implemented. `CallProvider` is
  the call in the middle of `submitEInvoice`'s transaction, `SubmitEInvoice` the
  statements after it with their commit, `RollBack` what a failing statement, a
  crash or a retry of `withTransaction` leaves. That a provider enters what comes
  twice under one key once is an assumption of its own: `Recognised` is the set
  of invoices whose provider does.
* **Amounts.** In `Calculation` and `ForeignCurrency` an amount is a number of
  minor units and a rate a number of hundredths; every rounding the code does is
  done. Elsewhere amounts are small whole units.

## 3. Runs

Deadlock is checked in the runs of `Posting` and `Settlement`. The other machines
really may stop: a schedule that is settled, events that are handled, bills that
are paid, a request whose locks another session holds, a calendar that is full.

| Run | Question and bounds |
| --- | --- |
| `posting_branches` | Is the projection always a rebuild's result, are numbers gapless, is there one reversal? Two sessions, three entries (two originals and a reversal, or three originals), two periods (opening balances carry over), two accounts, the entity's sequence and one branch's (concurrent postings), sequences created on first use. |
| `posting_periods` | Can a posting slip into a closing period? Two sessions, two entries, two periods, one user who may post into soft-closed periods; drafts may be unbalanced. Also the refinement of `Ledger`, permanence and freedom from deadlock once the sequence exists. |
| `settlement` | Do concurrent allocations over-settle or refuse wrongly? Three sessions, two sources, two targets; create, allocate, refund and write-off requests whose sums just fit and just do not. |
| `payables` | Do documents, allocation rows and accounts agree after every handler? Two bills of two vendors and two entities, a payment that may name either bill or the credit and exceeds the second, a credit of two units, two holds (the second to outlive the first), one run, a match that blocks. |
| `scheduled_reversals` | Once, and eventually? Two replicas, two schedules of one entry (the second only after the first ended) and one of another, a crash, a period that changes once. |
| `recurring_journals` | Once per date, no date jumped over, and caught up? Two replicas, three overdue dates, two crashes, a period that closes and reopens. |
| `outbox` | One effect each, none lost, all handled? Three events, batches of two, two drainers, a crash, a queue error, two consumer failures (as many as a job has attempts), a forgotten job id. |
| `documents` | `Subledger`: does what may happen once happen once, and do quantities and receivables add up? The components and bounds are below. |
| `platform` | `Platform`: the same of what the documents stand on, seventeen components side by side. |
| `payables_open_credit` | *Violation.* The two sides `reconcile` compares differ while a vendor credit is open (docs/PHASE_3.md, first claim). |
| `recurring_lost` | *Violation.* An occurrence whose generation fails after its reservation is never generated (comment at scheduler.ts:333). |
| `idempotency_crash` | *Violation.* A crash after the commit and before the answer is stored runs an operation twice (idempotency.ts:77). |

The properties of the two composite runs, by component:

| Property | Says of |
| --- | --- |
| `HappensOnce` | `SalesDocuments`: a quote becomes one document; the provider has what a row says it took, and entered it once, and once more for each transaction lost after the call, or once in all where it knows the key; `RecurringInvoices`: one invoice for each month of the rhythm; `PurchaseDocuments`: a requisition is ordered once and an exactly matched receipt billed once |
| `QuantitiesAddUp` | `SalesDocuments` and `PurchaseDocuments`: what orders and receipts say was invoiced, received and billed is what the documents hold |
| `ReceivablesAddUp` | `Receivables`: columns are the sums of their rows, credit is used once, the two accounts are the open items at the rates they were booked at |
| `EverySecondClaimIsFlagged` | `ExpenseClaims` |
| `OneEffectPerKey` | `Idempotency`: until a request outlives its lock, one request at a time (`OneAtATime`), a replay is of the same payload (`ReplayIsOwn`), two effects need a process that died (`OneEffectPerAnswer`); whatever outlives it, one effect and at most one more for each lock that ran out (`EffectsAreBounded`) |
| `NoWaitCycle` | `LockOrder`, all but the three kinds of request it names |
| `OneIsInForce` | one period, policy, posting rule and set of bank details for a date: `FiscalCalendar`, `EntitySetup`, `PostingRules`, `VendorBankDetails` |
| `SpentOnce` | codes and sign-ins in `Sessions`, invitations in `Memberships` |
| `FiguresAddUp` | `Calculation`: totals are sums of their parts and the document can be posted; `PostingRules`: drafts balance; `ForeignCurrency`: a settlement posts whatever the rates, and what it leaves is at most a unit and a half for each allocation; `LedgerReports`: every report balances, opens where another closes, and agrees with the lines after a rebuild |
| `ReturnsStand` | `TaxReturns`: one return stands for a period, with two signatures under its figures; a stamped transaction is reported once; boxes and totals come to the transactions' tax |
| `LinesKeepTheirMeaning` | `TaxCodes`: a posted line's rates can be reproduced; `ChartOfAccounts`: an account with lines keeps its type |
| `RecordedIsThere` | `OpeningBalances`: a set that says POSTED has a posted entry; `Files`: a link leads to a confirmed file, a confirmed file has bytes unless a deletion has removed them, and those of its hash where the store confirmed it and nothing was put since |
| `RunsOnceInOrder` | `Migrator`: once, recorded, and after those before it, but for one that some checkout lacked which had the later |

Bounds of the composite runs, chosen so that each race has its two actors and
each sequence its steps:

* `SalesDocuments`: one quote, two orders, two invoices, one unit ordered, two
  calls of the provider, which knows the key of one invoice and not the other's. `RecurringInvoices`: two workers, a monthly and a quarterly
  template, from the 31st of January and of March of a calendar with months of
  28, 30 and 31 days, which end in May and September, as of four days between.
  `PurchaseDocuments`: a requisition, two orders, one receipt and two bills, of one or two units.
  `ExpenseClaims`: four claims of two people, two for the same item.
  `Receivables`: two invoices of one or two units with and without a document
  discount, two notes of the same customer at two rates, a receipt of two units
  at another that may pay either invoice or one of the notes.
* `Idempotency`: three retries of one payload and a request with another, two
  crashes, two locks that run out on whoever holds them, one reaping. `LockOrder`: three sessions (cycles of two
  and three), twenty-two requests to nineteen handlers that share documents and
  list them in clashing orders. `TaxReturns`: two periods, two documents, two
  versions, two users. `TaxCodes`: two codes and components, two dates, three
  rules. `Calculation`: two lines with negative, zero and positive amounts on and
  beside the half, simple, compound and inclusive codes, both rounding modes, a
  foreign rate. `ForeignCurrency`: 20 units settled in two or three parts at two
  rates. `FiscalCalendar`: months of two and three days, monthly and quarterly,
  at most four regular periods (24 in the code). `ChartOfAccounts`: a parent and
  a child, one creator and one writer. `EntitySetup`, `PostingRules`,
  `VendorBankDetails`: two or three versions over two or three dates.
  `OpeningBalances`, `Sessions`, `Memberships`: two people or requests
  and the rows they can fight over. `Files`: two files, two contents, one
  document, one deletion under way beside uploads, completions and postings.
  `Migrator`: three migrations, two runners, four checkouts (all files, one
  behind, one edited, one with a gap). `LedgerReports`: two years, the first with an adjustment
  period on its last day, three accounts, two entries.

**Symmetry.** `payables` permutes the two holds, which no property and no
constant tells apart; no other run uses symmetry.

**Why the bounds suffice.** They are the smallest at which each hazard needs all
its actors: two concurrent transactions and a third document or period that one
of them disturbs; one more retry, crash or failure than the code's recovery path
consumes. Larger instances of the recurring scheduler (three replicas) and of
`Payables` (three bills, two payments, matches that unblock) were run while
developing and found nothing else.

**Fairness.** `ScheduledReversals` and `RecurringJournals`: weak fairness of each
replica's work, because `ledger-scheduler.ts` ticks on a timer for as long as the
process lives and a restarted process starts ticking again; crashes are bounded.
`Outbox`: weak fairness of each drainer's pass (the poll timer of
`outbox-drainer.ts`) and of the consumer (BullMQ redelivers). Nothing else is
assumed fair: no user is obliged to reopen a period, and no transaction to commit.

## 4. What the runs show about the code

Most of what the code says of itself holds. In particular "two workers cannot
produce the same journal twice and a restart mid-run cannot either"
(docs/PHASE_2.md:168) is `OneEntryPerOccurrence` and `ReversedAtMostOnce`, and
both are also proved. Three statements do not hold and have runs (above). The
following were met with TLC too, and are kept as definitions marked "refuted", or
as assumptions of a run, rather than as runs of their own.

Ledger:

* **Lock order.** Three kinds of request leave the order ADR-0004 calls
  load-bearing, and `NoWaitCycle` names them as its exceptions: building a
  payment run (bills before the payment sequence), recording a failed payment of
  several bills (no order), settling a credit note by a receipt while the note is
  applied (or a vendor credit by a payment). Dropping any one of the three
  exceptions makes TLC find its cycle; that there is no other is proved.
  PostgreSQL breaks it and `withTransaction` retries; the cost is latency.
* **First posting of an entity.** Creating the number sequence audits before the
  balances are refreshed; with a second branch that is a cycle
  (`posting.service.ts:538`; `NoDeadlock` with `Configured = FALSE`).
* **Branches do not post concurrently.** Two sequences and a shared account make
  the second posting fail on the balances' primary key, and 23505 is not retried
  (`ConcurrentPostsDoNotCollide`); ADR-0004:97 offers branches as the remedy.
* **Signed-off openings.** An earlier period can be reopened and posted into
  under a hard-closed later one (`SignedOffOpeningFrozen`;
  finance-setup.service.ts:596 gives the reason it should not).
* **Claims.** `scheduler.ts:114` says two replicas never take the same row; the
  row locks end with the claim (`NoRowTakenTwice`). A schedule cancelled after
  the claim is executed (`CancelledIsNotExecuted`).
* **Stored balances of a new year.** "The same figures, derived from
  journal_lines with no projection involved" (reports.service.ts:137): a fiscal
  year that is added has no stored balances, not even openings, until an account
  is posted to again (`SourcesAgree`, `LedgerReports`).
* **Long years.** Generation stops after 24 periods; a longer year, which nothing
  refuses, has days without a period (`EveryDayHasOnePeriod` leaves it out).
* **Two levels.** An account that carries lines becomes a parent with them
  (`BalancesAtOneLevel`; chart.service.ts:200 says why a parent stops posting).
* **Opening balances.** Two calls that check before either inserts make two sets
  (`OneOpeningBalance`); the draft of a set may be edited, after which its totals
  are another's (`TotalsAreTheJournals`); an approved entry may be edited and
  posted as approved (`ApprovedIsWhatIsPosted`; contracts/openapi.yaml:167).
* **Policies.** A version that does not name the retained-earnings method changes
  it after a hard close (`MethodIsFrozen`; configuration.service.ts:152); only a
  policy's own first day is protected from back-dating (`EntriesKeepTheirPolicy`);
  a currency changed before the first posting leaves the book behind
  (`PostedInFunctionalCurrency`); with a book's own policy, document and entry
  take different ones (`OnePolicyPerDocument`).

Subledger:

* **Payables.** `allocatePayment` compares neither entity nor vendor, nor what
  kind of document is named. A payment to another entity's bill debits its own
  control account while the other's aging falls, and one to a vendor credit moves
  account and credit the same way; `Misplaced` in `LedgerIsOpenItems` is exactly
  what that leaves in an entity's account. Recording a failed payment always ends in a database error
  (`FailedPaymentIsReversed`), and so does building a run with a payment in it
  (`RunIsBuilt`).
* **Purchasing.** Two requests look for duplicates before either inserts
  (`NoSilentDuplicate`; ap.service.ts, above `createBill`); the accrual of a
  receipt is not released by its bill, which debits the account its lines name
  (`AccrualIsReleased`); a change of bank details drops the stored reference when
  it states none (`CarriedForward`).
* **Receivables and sales.** Two drafts are each held against the limit and both
  posted (`WithinCreditLimit`); a document discount lowers the total and not the
  journal (`TotalIsJournal`); an order opened by hand may name a quote that has
  become another document (`OrderedOnce`). An invoice cannot be approved or
  voided as a draft at all, for want of its number.
* **E-invoices.** "Retry must never cause a duplicate government submission"
  (sales.service.ts:1868). The call is made before the row is updated, announced,
  audited and committed; if any of that fails, the next call finds nothing of it
  and sends again (`NeverSubmittedTwice`). transaction.ts:39 says that such side
  effects must check the attempt, and no handler does. Only a provider that knows
  the key keeps the invoice to one entry.
* **Exchange.** An invoice settled in parts leaves a rounding residue in the
  control account (`NoResidue`; the comment in allocation.ts says it must not).
  `ResidueIsRounding` bounds it at a unit and a half for each allocation, because
  what is realized is rounded twice on top of the receipt itself; one unit, which
  one would expect, is refuted by a receipt that a book rounding half up splits
  in parts. A credit note applied to an invoice at another rate posts nothing,
  and one that a receipt settles credits the control account a second time
  (`LeftBehind` in `Receivables` is what both leave there); of two rates recorded for one day the lookup
  takes either (`OneRateResolves`; ar.service.ts:922 names neither type nor
  source, 0015_fx_consolidation.sql:290 warns of just that).
* **Inclusive prices.** Components too small to round to a unit break the promise
  that net and taxes re-sum to the price (`InclusivePriceHolds`).
* **Tax.** Two first installations have no row to lock and both install
  (`OneRegime`). A transaction posted before the next period existed has no
  stamp, and is reported by the next return and again by an amendment of its own
  period (`ReportedOnce`; tax-return.service.ts:64); when the later of two periods
  files first, a late transaction lands nowhere (`NotNowhere`; tax.service.ts:447).

Platform:

* **Idempotency locks.** An operation that outlives its sixty seconds deletes or
  overwrites a row that is another's: two requests are then at work at once, and
  the answer to one payload may be replayed to another. `OneEffectPerKey` says
  what is kept until then and what is kept after.
* **Checkpoint.** `updateCheckpoint` writes a position behind which unpublished
  events may remain (`CheckpointIsAPosition`); nothing reads it.
* **Unverified bytes.** "Confirms the bytes arrived, and verifies it rather than
  believing it" (files.service.ts:150): the declared hash is compared only where
  the store reports one, and the signed URL accepts other bytes after the file was
  confirmed (`ConfirmedIsVerified`).
* **Evidence.** A document posted between `deleteFile`'s look at it and its
  commit loses its attachment (`EvidenceIsKept`; files.service.ts:345).
* **Last administrator.** Two people who suspend each other leave a tenant
  without an active member (`SomeoneIsLeft`).

## 5. Proofs

TLAPS checks the theorems for every number of sessions, entries, periods,
accounts, branches, documents, replicas, events, requests, claims, people, files
and migrations; the runs check the same formulas on the instances above.
Assumptions are the named `ASSUME`s of the modules (types of the constants, sets
of the right shape), which TLC evaluates in the runs, and those a theorem names:

| Hypothesis | Theorem | Why it is there |
| --- | --- | --- |
| `Configured` | `DeadlockFree` | the entity's sequence exists before the first posting; section 4 has the cycle without it |
| `Bills # {}` | `PayablesProofs!TypeCorrect` | a hold that is not placed has the type of one on some bill |

Sums over documents, rows and lines are folds, which no prover here unfolds.
`Sums` shows once that a fold over a finite set exists, is unique and does not
depend on the order it is taken in (by induction over subsets), and from that the
few facts the other modules need: one term changes, one is added, two sums are
summed, a term is at most its sum. `SubsetInduction` there has the set of good
subsets as a parameter, not an operator, and so stays within the provers' reach.

* `PostingProofs`. The invariant is `TypeInv /\ LockInv /\ CheckedInv /\
  ReversalsPosted`. `LockInv` says locks exclude each other, so that labels can
  stand for them; `CheckedInv` that what a session read before (the entry's row,
  the period's status, the number) is still what the tables hold while it has the
  lock; only with it is a commit a step that respects periods and validation.
  From it: types, periods, permanence, balance, gapless numbers, one reversal.
  `NoDrift` adds that no two transactions have rows of one balance (the primary
  key: `RowsExclusive`), and that what a session has cleared and inserted is the
  rebuild of what it will have committed (`Refreshing`): so a commit of another
  sequence disturbs neither. `RefinesLedger` shows each commit to be one operation
  of `Ledger` on the committed tables. `DeadlockFree` ranks the resources (entry,
  period, sequence, balances, audit chain): whoever waits, waits for a session
  further on.
* `SettlementProofs`. `Inv == TypeOK /\ Clean /\ Bounded /\ ReadsAreCurrent`:
  sessions without locks remember nothing, amounts are within bounds, reads are
  current. From it: the backstop never fires, the refinement of `OpenItems`
  (initial states map to initial states, steps to steps or stutters), refusals are
  of requests that do not fit (`RefusalsAreTrue`), and, with `Explained`, that
  the columns are the sums of the rows (`RowsExplain`).
* `PayablesProofs`. The shape of the tables, the columns within what is due, a
  hold behind every flag, the rows behind every column, and the two accounts:
  each handler keeps all of them, and a bill's status follows from its columns.
  Four theorems: statuses and rows, holds and runs, the accounts of each entity
  are its open items and what allocations misplaced, and every settling handler
  implements `OpenItems`. None assumes anything of what a payment names: an
  allocation moves the payer's account by its whole amount, and each open item
  and `Misplaced` by the part of it that is theirs.
* `WorkerProofs`. Reversals: beside the two theorems the invariant needs that a
  worker between its transactions holds a promise, that the reversal it is about
  to record is the entry's only one. Recurring journals: reservations lie at or
  before the template's date, each step of a worker has its occurrence counted
  once, and no two workers are past the same reservation; then one entry per
  occurrence and no gap. Outbox: batches contain locked, committed events; what is
  added to the queue was claimed; processed events are those handled.
* `SubledgerProofs`. A step of the subledger is a step of one component, which
  keeps its own invariant. None of the four properties is inductive: a column
  says what a sum of other rows is, and a handler trusts the column.
  - Claims (`ClaimsInv`): approvals and entries follow the status, since a draft
    counts as prior and no claim leaves the table.
  - Sales (`SalesInv`): a converted quote and the one document it became name
    each other; what a submission, or the transaction that is still open, says the
    provider took was entered (`TakenAsKnown`), and nothing was but for that and
    for what was lost; documents not yet written hold nothing, and an order line has
    invoiced what its invoices hold of it. So each handler changes one term of one
    sum, and a second conversion or submission finds a status that refuses it.
  - Purchases (`PurchasesInv`): a requisition is converted exactly when one order
    names it, rows not yet written count nothing, and the received and billed
    columns are the sums of the receipts and bills behind them; a bill that
    matched its receipt exactly has taken the whole of it, so no other fits.
  - Recurring invoices (`RecurringInv`): the cursor of a template stands on a
    month of its rhythm or is parked past the last, and what was issued is one
    invoice for each earlier month; under its lock a worker issues the cursor's.
  - Receivables (`BooksInv`): columns of invoices, receipts and notes are the sums
    of their rows, over both sides of a row where it has two; and the two
    accounts are the open items at the rates they were booked at. Each posting
    changes the account and exactly one or two terms of those sums. What a note
    leaves behind is a term of its own, written over its rows at their rates.
* `PlatformProofs`. A step of the platform is a step of one component, so each
  component's invariant is an invariant of the whole.
  - Idempotency: until a request outlives its lock the row's holder is the one
    executing request, the row keeps the hash it was reserved with, and an effect
    is known to a stored answer, to its holder or to nobody who lives. The bound
    on the effects is an invariant of its own (`EffectsInv`): the requests that
    have run the operation or still may, and one more while the row is free to be
    taken, are at most one more than the locks that ran out.
  - Locks: every plan but those of the three exceptions takes its locks in one
    common order (`Stage`, then the id). Of the sessions in a circle of waiting,
    take the one whose wanted lock is last: whoever holds that lock wants one
    after it, which is a contradiction.
  - Migrations: whatever comes before a migration that a runner may still apply
    is recorded, pending with it, or lacking in the runner's checkout, so the
    lowest pending one without a record has before it what is not missing.
  - Sign-in: a code counter and a recovery code are consumed by the update that
    accepts them, and what a request opened is tied to what it consumed.
    Invitations: an accepted invitation has one membership written with it.
  - Opening balances and files: a set that says POSTED has its entry, which stays
    posted; a session that deletes holds the file's row, a confirmed file has an
    object or a deletion to blame, and what was verified is verified until
    something is put.
  - Tax codes: rates of one component never overlap and nothing closes one, so on
    the date of a taxed line the one rate in force stays the only one, and a code
    that resolved then still resolves. Accounts: the account of an inserted line
    exists and has the line's type, and a type changes only while no line has it.
  - In force: versions of a policy or a rule tile the dates from the first on
    (`Tiled`: each ends where the next begins), which superseding keeps because
    it ends the last and begins a later one; bank details have one open version,
    the last. Periods: the starts of `GeneratePeriods` come from a recursive
    function, whose existence `StepByStep` proves by induction over a set; each
    is later than the one before for every calendar and every starting day, the
    day a month lacks included, so the periods tile the year unless it needs more
    of them than are made.
  - Tax returns: a version follows a filed one, which is amended when it is
    filed itself, so the last filed version stands; figures are signed when they
    become READY and cleared with the signature; what is on a return of a period
    was posted and stamped with that period or not at all. A sum grouped by the
    keys of the boxes, or by the stamps, is the sum (`SumGrouped`).

* `FiguresProofs`. The four components behind `FiguresAddUp`; each handler
  replaces what is there by something computed, and the work is in the lemmas
  about what is computed. Their recursive functions exist and obey their equation
  for every input (`StepByStep`).
  - Rules: what a line drafts is on one side or is left open; one open slot gets
    what the others lack, or is left out at zero (`ResidualBalances`).
  - Documents (`CalculationInv`): the document is the one calculated from its
    lines. A discount or a base amount is allocated by whole shares and a
    remainder that is smaller than the number of shares, given to as many of
    them as rank first: so the parts sum to the whole. Taxes by line and by
    component are one double sum. From there the entry balances, in transaction
    and in base currency, once its rounding line is added.
  - Foreign currency (`ForeignInv`): a hundred times the control account differs
    from what is due, at the invoice's rate, by at most so much for each
    allocation so far, how much depending on the rounding mode (`Within`). Each
    settlement moves both by amounts that differ at most by two roundings
    (`Drift`). At nothing due this is the bound of `ResidueIsRounding`.
  - Reports (`ReportsInv`): the lines of any set of periods sum to zero, because
    an entry's lines share its period; a stored balance is what the lines of its
    account and period sum to, and every line has one. A rebuild makes that true
    again of every account it goes over, and opening and closing balances are
    sums over earlier periods, which are ordered.

**Only model-checked:** liveness under fairness (`EveryScheduleSettles`,
`ScheduleCatchesUp`, `EveryEventIsHandled`), which the prover does not reach.
Every other property of a passing run is stated by a theorem.

## 6. What the models leave out

* Journals: `Posting` keeps of an entry's lines the accounts they touch and
  whether they balance; `Receivables` and `Payables` keep two accounts. Tax lines
  and rounding are in `Calculation`, exchange differences in `ForeignCurrency`,
  for one document at a time.
* `LockOrder` leaves out foreign-key share locks, balance rows, branch sequences
  and the shared locks on periods (all but the first of them are in `Posting`).
* `Payables` has one control and one advance account per entity, and bills that
  exist from the start; its handlers are atomic. Bills come from
  `PurchaseDocuments` in the code; the two are not composed, since posting is the
  only step they share.
* Decimals: scale 8 and what is dropped below it; parsing and formatting.
* Retries of a whole transaction after 40001 or 40P01 start from the first
  statement, as a new request would; what the first attempt did outside the
  database stays (`SalesDocuments`, `Files`).
* `RecurringJournals` counts occurrences and does not compute the calendar;
  `RecurringInvoices` has the same date arithmetic and does, but for the weekly
  rhythm.
* The audit chain's hashes and `verifyChain`; permissions and validation of
  requests, apart from the soft-close privilege and the four-eyes rules;
  row-level security; roles and their templates; branches, dimension values and
  effective settings, which are single rows; the HTTP layer and the web
  application; generated contracts.
* Tax return snapshots add base and transaction currency columns as the code
  does; the model has one currency there.

## 7. Plan

Done: the ledger's posting protocol, settlement, payables, schedules, idempotency
and the outbox; receivables, sales and purchase documents, tax, calculation,
master data, set-up, reports, files and sign-in as components of the composite
runs; theorems for every safety property of the passing runs.

To come are models, with the theorems they make possible:

1. An open-item ledger that `Receivables` implements, as `Payables` and
   `Settlement` implement `OpenItems`.
2. Posting under the idempotency layer; the two schedules under one worker tick.
3. The audit chain, of which `Posting` has the lock and not the hashes.
