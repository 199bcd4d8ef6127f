------------------------------ MODULE TaxReturns ------------------------------
(***************************************************************************)
(* The tax subledger of one legal entity and the returns filed from it:    *)
(* tax.service stamps what a posting taxes with the period whose return is *)
(* to report it, tax-return.service prepares, approves, files and amends.  *)
(*                                                                         *)
(* One jurisdiction, one form.  Tax periods follow each other, and a date  *)
(* is the place of the period it falls into.  Handlers lock the return or  *)
(* the period they change; a posting reads the periods without a lock and  *)
(* commits later, so it is two steps.                                      *)
(***************************************************************************)
EXTENDS Integers, FiniteSetsExt

CONSTANTS
  Periods,         \* 1..n
  Documents,       \* what is posted with tax, one taxed line each
  Unseen,          \* those closing a period does not look at: credit notes, claims
  Dated,           \* posting date of a document
  Row,             \* what its line says: direction, code, tax, recoverable
  Versions,        \* bound on the versions of a return, 1..n
  Users

None == "none"
NoPeriod == 0

(* Periods follow each other from the first, versions of a return too, and  *)
(* whoever prepares or approves one is somebody.                            *)
RowsAssumption ==
  /\ IsFiniteSet(Periods) /\ Periods \subseteq Nat \ {NoPeriod}
  /\ Versions \subseteq Nat /\ \E n \in {0} \union Versions : Versions = 1..n
  /\ IsFiniteSet(Documents)
  /\ \A d \in Documents : Row[d].tax \in Int /\ Row[d].recoverable \in Int
  /\ None \notin Users

VARIABLES
  period,      \* tax_periods: status
  document,    \* status
  stamp,       \* tax_transactions.tax_period_id of a document, as read and then written
  return,      \* tax_returns by period and version: status, snapshot, preparer, approver
  reported     \* per version, the transactions on it when it was filed

vars == <<period, document, stamp, return, reported>>

NoReturn == [status |-> None, snapshot |-> {}, preparer |-> None, approver |-> None]

Init ==
  /\ period = [p \in Periods |-> None]
  /\ document = [d \in Documents |-> None]
  /\ stamp = [d \in Documents |-> NoPeriod]
  /\ return = [p \in Periods |-> [v \in Versions |-> NoReturn]]
  /\ reported = [p \in Periods |-> [v \in Versions |-> {}]]

Filed(p) == {v \in Versions : return[p][v].status \in {"FILED", "AMENDED"}}
Transactions == {d \in Documents : document[d] = "POSTED"}
-----------------------------------------------------------------------------
CreatePeriod(p) ==
  /\ period[p] = None
  /\ period' = [period EXCEPT ![p] = "OPEN"]
  /\ UNCHANGED <<document, stamp, return, reported>>

ClosePeriod(p) ==   \* not while a bill or invoice dated in it is unposted
  /\ period[p] = "OPEN"
  /\ \A d \in Documents \ Unseen : Dated[d] = p => document[d] \notin {"DRAFT", "posting"}
  /\ period' = [period EXCEPT ![p] = "CLOSED"]
  /\ UNCHANGED <<document, stamp, return, reported>>

CreateDocument(d) ==   \* its date may lie in a closed tax period
  /\ document[d] = None
  /\ document' = [document EXCEPT ![d] = "DRAFT"]
  /\ UNCHANGED <<period, stamp, return, reported>>

(* The first period that is open and not over before the date, if any.      *)
ResolveReportingPeriod(d) ==
  LET open == {p \in Periods : period[p] = "OPEN" /\ p >= Dated[d]}
  IN IF open = {} THEN NoPeriod ELSE Min(open)

StartPosting(d) ==
  /\ document[d] = "DRAFT"
  /\ document' = [document EXCEPT ![d] = "posting"]
  /\ stamp' = [stamp EXCEPT ![d] = ResolveReportingPeriod(d)]
  /\ UNCHANGED <<period, return, reported>>

RecordTransactions(d) ==
  /\ document[d] = "posting"
  /\ document' = [document EXCEPT ![d] = "POSTED"]
  /\ UNCHANGED <<period, stamp, return, reported>>
-----------------------------------------------------------------------------
(* loadFiledCoverage: the earlier periods that have filed.                  *)
Coverage(p) == {q \in Periods : q < p /\ Filed(q) # {}}
Covered(q) == UNION {return[q][v].snapshot : v \in Filed(q)}

(* What is stamped with the period, and what has no stamp since the first   *)
(* period that has filed.                                                   *)
Candidates(p) ==
  {t \in Transactions : \/ stamp[t] = p
                        \/ stamp[t] = NoPeriod /\ Dated[t] \in Min(Coverage(p) \cup {p})..p}

(* Dated in the period, or in a filed one that did not report it.           *)
PartitionForReturn(p) ==
  {t \in Candidates(p) : Dated[t] = p \/ (Dated[t] \in Coverage(p) /\ t \notin Covered(Dated[t]))}

(* buildReturnSnapshot: a box for each direction and code, the late ones    *)
(* apart, and what is payable: the tax charged less what can be recovered.  *)
Key(p, t) == <<Row[t].direction, Row[t].code, Dated[t] # p>>
Tax == [t \in Documents |-> Row[t].tax]
Recoverable == [t \in Documents |-> Row[t].recoverable]
SumOf(column, S) == MapThenSumSet(LAMBDA x : column[x], S)
Boxes(p, ts) ==
  [k \in {Key(p, t) : t \in ts} |-> LET of == {t \in ts : Key(p, t) = k} IN
     [tax |-> SumOf(Tax, of), recoverable |-> SumOf(Recoverable, of), count |-> Cardinality(of)]]
NetPayable(ts) ==
  SumOf(Tax, {t \in ts : Row[t].direction = "OUTPUT"})
    - SumOf(Recoverable, {t \in ts : Row[t].direction = "INPUT"})

(* Without a return to amend it is version 1, which is unique.              *)
CreateTaxReturn(p, v) ==
  /\ period[p] # None /\ return[p][v].status = None
  /\ v > 1 => return[p][v - 1].status = "FILED"
  /\ return' = [return EXCEPT ![p][v].status = "DRAFT"]
  /\ UNCHANGED <<period, document, stamp, reported>>

PrepareTaxReturn_KeepsApproval(p, v, u) ==   \* mutant: an approval survives new figures
  /\ return[p][v].status \in {"DRAFT", "PREPARING", "READY"} /\ PartitionForReturn(p) # {}
  /\ return' = [return EXCEPT ![p][v].status = IF @ = "READY" THEN "READY" ELSE "PREPARING",
                              ![p][v].preparer = u, ![p][v].snapshot = PartitionForReturn(p)]
  /\ UNCHANGED <<period, document, stamp, reported>>

PrepareTaxReturn(p, v, u) ==   \* never empty; new figures clear the approval
  /\ return[p][v].status \in {"DRAFT", "PREPARING", "READY"} /\ PartitionForReturn(p) # {}
  /\ return' = [return EXCEPT ![p][v] = [status |-> "PREPARING", snapshot |-> PartitionForReturn(p),
                                         preparer |-> u, approver |-> None]]
  /\ UNCHANGED <<period, document, stamp, reported>>

ApproveTaxReturn(p, v, u) ==
  /\ return[p][v].status = "PREPARING" /\ return[p][v].preparer # u
  /\ return' = [return EXCEPT ![p][v].status = "READY", ![p][v].approver = u]
  /\ UNCHANGED <<period, document, stamp, reported>>

(* Over a closed period, with the figures the subledger gives now.  The     *)
(* return it amends is amended only then.                                   *)
MarkTaxReturnFiled(p, v) ==
  /\ return[p][v].status = "READY" /\ period[p] = "CLOSED"
  /\ return[p][v].snapshot = PartitionForReturn(p)
  /\ return' = [return EXCEPT ![p] = [w \in Versions |->
                  [return[p][w] EXCEPT !.status = CASE w = v -> "FILED"
                                                    [] w = v - 1 -> "AMENDED"
                                                    [] OTHER -> return[p][w].status]]]
  /\ reported' = [reported EXCEPT ![p][v] = return[p][v].snapshot]
  /\ UNCHANGED <<period, document, stamp>>

Next ==
  \/ \E p \in Periods : \/ CreatePeriod(p) \/ ClosePeriod(p)
                        \/ \E v \in Versions :
                             \/ CreateTaxReturn(p, v) \/ MarkTaxReturnFiled(p, v)
                             \/ \E u \in Users : PrepareTaxReturn(p, v, u) \/ ApproveTaxReturn(p, v, u)
  \/ \E d \in Documents : CreateDocument(d) \/ StartPosting(d) \/ RecordTransactions(d)

Spec == Init /\ [][Next]_vars
-----------------------------------------------------------------------------
(* At any time a period's authoritative return is one: the versions filed   *)
(* before it are amended, those after it are not filed.                     *)
OneReturnStands ==
  \A p \in Periods : \A v \in Filed(p) :
    /\ 1..v \subseteq Filed(p)
    /\ return[p][v].status = IF v = Max(Filed(p)) THEN "FILED" ELSE "AMENDED"

(* Two people stand behind the figures that are ready or filed, which are   *)
(* those that were prepared; what was filed never changes.                  *)
FiguresHaveTwoSignatures ==
  \A p \in Periods, v \in Versions : LET r == return[p][v] IN
    /\ r.status \in {"READY", "FILED", "AMENDED"} =>
         None \notin {r.preparer, r.approver} /\ r.preparer # r.approver
    /\ r.status \in {"FILED", "AMENDED"} => r.snapshot = reported[p][v]

(* A transaction that was stamped is reported for one period, however late  *)
(* it was posted and however often returns are amended.                     *)
ReportedFor(t) == {p \in Periods : t \in Covered(p)}
StampedIsReportedOnce ==
  \A t \in Transactions : stamp[t] # NoPeriod => Cardinality(ReportedFor(t)) <= 1

(* What the returns that stand come to is what the transactions they report *)
(* come to, each once, and the boxes of a return say the same as its total. *)
Standing(p) == return[p][Max(Filed(p))].snapshot
BoxTotal(boxes, direction, column) == SumOf(column, {k \in DOMAIN boxes : k[1] = direction})
ReturnsComeToTheirTax ==
  /\ \A p \in Periods, v \in Versions :
       LET ts == return[p][v].snapshot
           boxes == Boxes(p, ts)
       IN NetPayable(ts) = BoxTotal(boxes, "OUTPUT", [k \in DOMAIN boxes |-> boxes[k].tax])
                             - BoxTotal(boxes, "INPUT", [k \in DOMAIN boxes |-> boxes[k].recoverable])
  /\ LET filed == {p \in Periods : Filed(p) # {}}
         reporting == UNION {Standing(p) : p \in filed}
     IN (\A t \in reporting : stamp[t] # NoPeriod) =>
          SumOf([p \in filed |-> NetPayable(Standing(p))], filed) = NetPayable(reporting)

(* "Reporting these again would double-count them" (refuted: what was       *)
(* posted before the next period existed has no stamp; the next return      *)
(* reports it as late, an amendment of its own period reports it again).    *)
ReportedOnce == \A t \in Transactions : Cardinality(ReportedFor(t)) <= 1

(* "A late transaction lands on the next open return, not on a filed one    *)
(* and not nowhere": once every period up to its stamp has filed, it is on  *)
(* a return (refuted: the later period may file first).                     *)
NotNowhere ==
  \A t \in Transactions : (\A p \in Dated[t]..stamp[t] : Filed(p) # {}) /\ stamp[t] # NoPeriod
    => ReportedFor(t) # {}
=============================================================================
