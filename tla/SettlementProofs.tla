-------------------------- MODULE SettlementProofs --------------------------
(***************************************************************************)
(* For every set of documents, requests and sessions: what a transaction   *)
(* reads under its locks stays current, validation therefore suffices, and *)
(* the statements implement the indivisible settlement of OpenItems.       *)
(*                                                                         *)
(* ReadsAreCurrent is not inductive alone.  It needs the types, that a     *)
(* transaction holds nothing before its source is settled (Clean), and     *)
(* that an unposted source is unused and nothing is over-settled (Bounded).*)
(***************************************************************************)
EXTENDS Settlement

(* A transaction that has not settled its source has read nothing; one that *)
(* is about to lock a source names one.                                     *)
Clean ==
  \A s \in Sessions :
    /\ pc[s] # "locking" => seenUsed[s] = 0 /\ locked[s] = {}
    /\ pc[s] = "begun" => req[s].op \notin {"create", "writeOff"}

Bounded ==
  /\ \A x \in Sources : ~source[x].posted => source[x].used = 0
  /\ \A x \in Sources : source[x].used <= Worth[x]
  /\ \A t \in Targets : target[t] <= Owed[t]

Inv == TypeOK /\ Clean /\ Bounded /\ ReadsAreCurrent

USE DocumentsAssumption, OrderAssumption, RequestsAssumption
-----------------------------------------------------------------------------
(* The fields of a request, and what a session's request is.                *)
LEMMA RequestFields ==
  ASSUME NEW r \in Requests
  PROVE  /\ r.op \in Operation
         /\ r.source \in Sources \cup {NoSource}
         /\ r.amount \in [Targets -> Nat]
         /\ r.total \in Nat
         /\ r.op = "writeOff" <=> r.source = NoSource
<1>1. r \in [op : Operation, source : Sources \cup {NoSource},
             amount : [Targets -> Nat], total : Nat]
  OBVIOUS
<1>2. QED BY <1>1

LEMMA AnyRequestIsOne == AnyRequest \in Requests
BY DEF AnyRequest

(* A validated request whose locks are all held fits the documents as they  *)
(* are, not only as they were read.                                         *)
LEMMA ValidatedFits ==
  ASSUME Inv, NEW s \in Sessions, Ready(s), Valid(s)
  PROVE  Fits(req[s])
<1>1. req[s] \in Requests
  BY DEF Inv, TypeOK
<1>2. ASSUME req[s].source # NoSource
      PROVE  source[req[s].source].used + req[s].total <= Worth[req[s].source]
  BY <1>2 DEF Inv, ReadsAreCurrent, Ready, Valid
<1>3. ASSUME NEW t \in Targets
      PROVE  target[t] + req[s].amount[t] <= Owed[t]
  <2>1. CASE req[s].amount[t] > 0
    <3>1. t \in locked[s]
      BY <2>1 DEF Ready, Missing, Wanted
    <3>2. seenSettled[s][t] = target[t]
      BY <3>1 DEF Inv, ReadsAreCurrent
    <3>3. QED BY <3>2 DEF Valid
  <2>2. CASE ~(req[s].amount[t] > 0)
    <3>1. req[s].amount[t] \in Nat
      BY <1>1, RequestFields
    <3>2. target[t] \in Nat /\ Owed[t] \in Nat /\ target[t] <= Owed[t]
      BY DEF Inv, TypeOK, Bounded
    <3>3. QED BY <2>2, <3>1, <3>2
  <2>3. QED BY <2>1, <2>2
<1>4. QED BY <1>2, <1>3 DEF Fits
-----------------------------------------------------------------------------
LEMMA InitInv == SettlementInit => Inv
<1> SUFFICES ASSUME SettlementInit PROVE Inv
  OBVIOUS
<1> USE DEF SettlementInit, Init, Unposted
<1>1. TypeOK
  BY AnyRequestIsOne DEF TypeOK, SourceRow
<1>2. Clean /\ Bounded /\ ReadsAreCurrent
  BY DEF Clean, Bounded, ReadsAreCurrent
<1>3. QED BY <1>1, <1>2 DEF Inv

LEMMA TypeStep == Inv /\ [SettlementNext]_all => TypeOK'
<1> SUFFICES ASSUME Inv, [SettlementNext]_all PROVE TypeOK'
  OBVIOUS
<1> USE DEF Inv, TypeOK, SourceRow, documents
<1>1. ASSUME NEW s \in Sessions, Begin(s) PROVE TypeOK'
  BY <1>1 DEF Begin
<1>2. ASSUME NEW s \in Sessions, LockSource(s) PROVE TypeOK'
  <2>1. req[s] \in Requests /\ pc[s] = "begun"
    BY <1>2 DEF LockSource
  <2>2. req[s].source \in Sources
    BY <2>1, RequestFields DEF Clean, Operation
  <2>3. source[req[s].source].used \in Nat
    BY <2>2
  <2>4. QED BY <1>2, <2>3 DEF LockSource
<1>3. ASSUME NEW s \in Sessions, LockTarget(s) PROVE TypeOK'
  BY <1>3 DEF LockTarget, Missing, Wanted
<1>4. ASSUME NEW s \in Sessions, Refuse(s) PROVE TypeOK'
  BY <1>4, AnyRequestIsOne DEF Refuse, Forget
<1>5. ASSUME NEW s \in Sessions, Abort(s) PROVE TypeOK'
  BY <1>5, AnyRequestIsOne DEF Abort, Forget
<1>6. ASSUME NEW s \in Sessions, SettleLocked(s) PROVE TypeOK'
  <2>1. req[s] \in Requests
    OBVIOUS
  <2> DEFINE r == req[s]
  <2>2. /\ r.source \in Sources \cup {NoSource}
        /\ r.amount \in [Targets -> Nat]
        /\ r.total \in Nat
    BY <2>1, RequestFields
  <2>3. source' \in [Sources -> SourceRow]
    BY <1>6, <2>2 DEF SettleLocked, SourceAfter
  <2>4. target' \in [Targets -> Nat] /\ writtenOff' \in [Targets -> Nat]
    BY <1>6, <2>2 DEF SettleLocked, TargetAfter
  <2>5. alloc' \in [Sources -> [Targets -> Nat]]
    BY <1>6, <2>2 DEF SettleLocked
  <2>6. refunded' \in [Sources -> Nat]
    BY <1>6, <2>2 DEF SettleLocked
  <2>7. /\ pc' \in [Sessions -> {"idle", "begun", "locking"}]
        /\ req' \in [Sessions -> Requests]
        /\ locked' \in [Sessions -> SUBSET Targets]
        /\ seenUsed' \in [Sessions -> Nat]
        /\ seenSettled' \in [Sessions -> [Targets -> Nat]]
    BY <1>6, AnyRequestIsOne DEF SettleLocked, Forget
  <2>8. QED BY <2>3, <2>4, <2>5, <2>6, <2>7
<1>7. CASE UNCHANGED all
  BY <1>7 DEF all, mine
<1>8. QED BY <1>1, <1>2, <1>3, <1>4, <1>5, <1>6, <1>7 DEF SettlementNext

LEMMA CleanStep == Inv /\ [SettlementNext]_all => Clean'
<1> SUFFICES ASSUME Inv, [SettlementNext]_all PROVE Clean'
  OBVIOUS
<1> USE DEF Inv, TypeOK, Clean
<1>1. ASSUME NEW s \in Sessions, Begin(s) PROVE Clean'
  BY <1>1 DEF Begin
<1>2. ASSUME NEW s \in Sessions, LockSource(s) PROVE Clean'
  BY <1>2 DEF LockSource
<1>3. ASSUME NEW s \in Sessions, LockTarget(s) PROVE Clean'
  BY <1>3 DEF LockTarget
<1>4. ASSUME NEW s \in Sessions, Refuse(s) PROVE Clean'
  BY <1>4 DEF Refuse, Forget
<1>5. ASSUME NEW s \in Sessions, Abort(s) PROVE Clean'
  BY <1>5 DEF Abort, Forget
<1>6. ASSUME NEW s \in Sessions, SettleLocked(s) PROVE Clean'
  BY <1>6 DEF SettleLocked, Forget
<1>7. CASE UNCHANGED all
  BY <1>7 DEF all, mine
<1>8. QED BY <1>1, <1>2, <1>3, <1>4, <1>5, <1>6, <1>7 DEF SettlementNext

(* Only the final writes touch the documents.                               *)
LEMMA DocumentsStay ==
  ASSUME NEW s \in Sessions,
         Begin(s) \/ LockSource(s) \/ LockTarget(s) \/ Refuse(s) \/ Abort(s)
  PROVE  UNCHANGED documents
BY DEF Begin, LockSource, LockTarget, Refuse, Abort

LEMMA BoundedStep == Inv /\ [SettlementNext]_all => Bounded'
<1> SUFFICES ASSUME Inv, [SettlementNext]_all PROVE Bounded'
  OBVIOUS
<1>1. ASSUME NEW s \in Sessions, SettleLocked(s) PROVE Bounded'
  <2>1. req[s] \in Requests
    BY DEF Inv, TypeOK
  <2> DEFINE r == req[s]
  <2>2. Fits(r)
    BY <1>1 DEF SettleLocked, Backstop
  <2>3. /\ r.source \in Sources \cup {NoSource}
        /\ r.amount \in [Targets -> Nat]
        /\ r.total \in Nat
    BY <2>1, RequestFields
  <2>4. \A t \in Targets : target'[t] <= Owed[t]
    BY <1>1, <2>2 DEF SettleLocked, TargetAfter, Fits
  <2>5. ASSUME NEW x \in Sources
        PROVE  (~source'[x].posted => source'[x].used = 0) /\ source'[x].used <= Worth[x]
    <3>1. CASE x = r.source
      BY <1>1, <2>2, <2>3, <3>1 DEF SettleLocked, SourceAfter, Fits, Inv, TypeOK, SourceRow
    <3>2. CASE x # r.source
      BY <1>1, <2>3, <3>2 DEF SettleLocked, SourceAfter, Inv, TypeOK, Bounded
    <3>3. QED BY <3>1, <3>2
  <2>6. QED BY <2>4, <2>5 DEF Bounded
<1>2. CASE UNCHANGED documents
  BY <1>2 DEF documents, Inv, Bounded
<1>3. QED BY <1>1, <1>2, DocumentsStay DEF SettlementNext, all
-----------------------------------------------------------------------------
(* What a session has read, stated for one session, so that a step can be   *)
(* followed session by session.                                             *)
SourceIsCurrent(s) ==
  pc[s] = "locking" /\ req[s].source # NoSource =>
    /\ seenUsed[s] = source[req[s].source].used
    /\ source[req[s].source].posted <=> req[s].op # "create"
    /\ \A o \in Sessions \ {s} : ~HoldsSource(o, req[s].source)

TargetsAreCurrent(s) ==
  \A t \in locked[s] :
    /\ seenSettled[s][t] = target[t]
    /\ \A o \in Sessions \ {s} : ~HoldsTarget(o, t)

LEMMA CurrentBySession ==
  ReadsAreCurrent <=> \A s \in Sessions : SourceIsCurrent(s) /\ TargetsAreCurrent(s)
BY DEF ReadsAreCurrent, SourceIsCurrent, TargetsAreCurrent

(* A request that begins by creating its source names one nobody has        *)
(* posted or is about to post; a write-off names none.                      *)
LEMMA BeginKeepsReads ==
  ASSUME Inv, NEW s \in Sessions, Begin(s), TypeOK'
  PROVE  ReadsAreCurrent'
<1>1. PICK r \in Requests :
        /\ r.op = "create" => /\ ~source[r.source].posted
                              /\ \A o \in Sessions : ~HoldsSource(o, r.source)
        /\ req' = [req EXCEPT ![s] = r]
        /\ pc' = [pc EXCEPT ![s] = IF r.op \in {"create", "writeOff"} THEN "locking" ELSE "begun"]
  BY DEF Begin
<1>2. UNCHANGED <<documents, locked, seenUsed, seenSettled>> /\ pc[s] = "idle"
  BY DEF Begin
<1>3. seenUsed[s] = 0 /\ locked[s] = {}
  BY <1>2 DEF Inv, Clean
<1>4. r.op = "writeOff" <=> r.source = NoSource
  BY RequestFields
<1>5. r.source \in Sources \cup {NoSource}
  BY RequestFields
<1>6. ASSUME NEW o \in Sessions PROVE SourceIsCurrent(o)'
  <2>1. CASE o = s
    BY <1>1, <1>2, <1>3, <1>4, <1>5, <2>1
       DEF SourceIsCurrent, HoldsSource, documents, Inv, TypeOK, Bounded
  <2>2. CASE o # s
    <3>1. pc'[o] = pc[o] /\ req'[o] = req[o]
      BY <1>1, <2>2 DEF Inv, TypeOK
    <3>2. SourceIsCurrent(o)
      BY CurrentBySession DEF Inv
    <3>3. QED
      BY <1>1, <1>2, <1>4, <2>2, <3>1, <3>2
         DEF SourceIsCurrent, HoldsSource, documents, Inv, TypeOK
  <2>3. QED BY <2>1, <2>2
<1>7. ASSUME NEW o \in Sessions PROVE TargetsAreCurrent(o)'
  <2>1. TargetsAreCurrent(o)
    BY CurrentBySession DEF Inv
  <2>2. QED
    BY <1>1, <1>2, <1>3, <2>1 DEF TargetsAreCurrent, HoldsTarget, documents, Inv, TypeOK
<1>8. QED BY <1>6, <1>7 DEF ReadsAreCurrent, SourceIsCurrent, TargetsAreCurrent

LEMMA LockSourceKeepsReads ==
  ASSUME Inv, NEW s \in Sessions, LockSource(s)
  PROVE  ReadsAreCurrent'
<1>1. /\ pc[s] = "begun" /\ source[req[s].source].posted
      /\ \A o \in Sessions : ~HoldsSource(o, req[s].source)
      /\ pc' = [pc EXCEPT ![s] = "locking"]
      /\ seenUsed' = [seenUsed EXCEPT ![s] = source[req[s].source].used]
      /\ UNCHANGED <<documents, req, locked, seenSettled>>
  BY DEF LockSource
<1>2. req[s].op # "create" /\ locked[s] = {}
  BY <1>1 DEF Inv, Clean
<1>3. ASSUME NEW o \in Sessions PROVE SourceIsCurrent(o)'
  <2>1. SourceIsCurrent(o)
    BY CurrentBySession DEF Inv
  <2>2. CASE o = s
    BY <1>1, <1>2, <2>2 DEF SourceIsCurrent, HoldsSource, documents, Inv, TypeOK
  <2>3. CASE o # s
    BY <1>1, <2>1, <2>3 DEF SourceIsCurrent, HoldsSource, documents, Inv, TypeOK
  <2>4. QED BY <2>2, <2>3
<1>4. ASSUME NEW o \in Sessions PROVE TargetsAreCurrent(o)'
  <2>1. TargetsAreCurrent(o)
    BY CurrentBySession DEF Inv
  <2>2. QED
    BY <1>1, <1>2, <2>1 DEF TargetsAreCurrent, HoldsTarget, documents, Inv, TypeOK
<1>5. QED BY <1>3, <1>4 DEF ReadsAreCurrent, SourceIsCurrent, TargetsAreCurrent

LEMMA LockTargetKeepsReads ==
  ASSUME Inv, NEW s \in Sessions, LockTarget(s)
  PROVE  ReadsAreCurrent'
<1>1. PICK t \in Missing(s) :
        /\ \A o \in Sessions : ~HoldsTarget(o, t)
        /\ locked' = [locked EXCEPT ![s] = @ \cup {t}]
        /\ seenSettled' = [seenSettled EXCEPT ![s][t] = target[t]]
  BY DEF LockTarget
<1>2. pc[s] = "locking" /\ UNCHANGED <<documents, pc, req, seenUsed>>
  BY DEF LockTarget
<1>3. t \in Targets
  BY DEF Missing, Wanted
<1>4. ASSUME NEW o \in Sessions PROVE SourceIsCurrent(o)'
  <2>1. SourceIsCurrent(o)
    BY CurrentBySession DEF Inv
  <2>2. QED BY <1>2, <2>1 DEF SourceIsCurrent, HoldsSource, documents
<1>5. ASSUME NEW o \in Sessions PROVE TargetsAreCurrent(o)'
  <2>1. TargetsAreCurrent(o)
    BY CurrentBySession DEF Inv
  <2>2. CASE o = s
    <3>1. \A u \in locked'[s] : seenSettled'[s][u] = target'[u]
      BY <1>1, <1>2, <1>3, <2>1, <2>2 DEF TargetsAreCurrent, documents, Inv, TypeOK
    <3>2. \A u \in locked'[s], p \in Sessions \ {s} : ~HoldsTarget(p, u)'
      BY <1>1, <1>2, <1>3, <2>1, <2>2 DEF TargetsAreCurrent, HoldsTarget, Inv, TypeOK
    <3>3. QED BY <2>2, <3>1, <3>2 DEF TargetsAreCurrent
  <2>3. CASE o # s
    <3>1. locked'[o] = locked[o] /\ seenSettled'[o] = seenSettled[o]
      BY <1>1, <2>3 DEF Inv, TypeOK
    <3>2. pc[o] # "locking" => locked[o] = {}
      BY DEF Inv, Clean
    <3>3. QED
      BY <1>1, <1>2, <1>3, <2>1, <2>3, <3>1, <3>2
         DEF TargetsAreCurrent, HoldsTarget, documents, Inv, TypeOK
  <2>4. QED BY <2>2, <2>3
<1>6. QED BY <1>4, <1>5 DEF ReadsAreCurrent, SourceIsCurrent, TargetsAreCurrent

(* A transaction that ends, and changes nothing, disturbs no other's reads. *)
LEMMA EndKeepsReads ==
  ASSUME Inv, NEW s \in Sessions, Forget(s), UNCHANGED documents
  PROVE  ReadsAreCurrent'
<1>1. ASSUME NEW o \in Sessions PROVE SourceIsCurrent(o)' /\ TargetsAreCurrent(o)'
  <2>1. SourceIsCurrent(o) /\ TargetsAreCurrent(o)
    BY CurrentBySession DEF Inv
  <2>2. CASE o = s
    BY <2>2 DEF SourceIsCurrent, TargetsAreCurrent, Forget, Inv, TypeOK
  <2>3. CASE o # s
    BY <2>1, <2>3
       DEF SourceIsCurrent, TargetsAreCurrent, HoldsSource, HoldsTarget, Forget, documents,
           Inv, TypeOK
  <2>4. QED BY <2>2, <2>3
<1>2. QED BY <1>1 DEF ReadsAreCurrent, SourceIsCurrent, TargetsAreCurrent

(* The writes of one transaction move only rows that no other has locked.   *)
LEMMA SettleKeepsReads ==
  ASSUME Inv, NEW s \in Sessions, SettleLocked(s)
  PROVE  ReadsAreCurrent'
<1> DEFINE r == req[s]
<1>1. r \in Requests
  BY DEF Inv, TypeOK
<1>2. /\ r.source \in Sources \cup {NoSource}
      /\ r.amount \in [Targets -> Nat]
      /\ r.total \in Nat
  BY <1>1, RequestFields
<1>3. /\ Ready(s) /\ source' = SourceAfter(r) /\ target' = TargetAfter(r)
      /\ Forget(s)
  BY DEF SettleLocked
<1>4. ASSUME NEW o \in Sessions PROVE SourceIsCurrent(o)'
  <2>1. CASE o = s
    BY <1>3, <2>1 DEF SourceIsCurrent, Forget, Inv, TypeOK
  <2>2. CASE o # s
    <3>1. SourceIsCurrent(o) /\ SourceIsCurrent(s)
      BY CurrentBySession DEF Inv
    <3>2. pc'[o] = pc[o] /\ req'[o] = req[o] /\ seenUsed'[o] = seenUsed[o]
      BY <1>3, <2>2 DEF Forget, Inv, TypeOK
    <3>3. ASSUME pc[o] = "locking", req[o].source # NoSource
          PROVE  source'[req[o].source] = source[req[o].source]
      <4>1. req[o].source # r.source
        BY <1>3, <2>2, <3>1, <3>3 DEF SourceIsCurrent, HoldsSource, Ready
      <4>2. req[o].source \in Sources
        BY <3>3, RequestFields DEF Inv, TypeOK
      <4>3. QED BY <1>2, <1>3, <4>1, <4>2 DEF SourceAfter, Inv, TypeOK
    <3>4. \A p \in Sessions : HoldsSource(p, req[o].source)' => HoldsSource(p, req[o].source)
      BY <1>3, <2>2, <3>2 DEF HoldsSource, Forget, Inv, TypeOK
    <3>5. QED BY <3>1, <3>2, <3>3, <3>4 DEF SourceIsCurrent
  <2>3. QED BY <2>1, <2>2
<1>5. ASSUME NEW o \in Sessions PROVE TargetsAreCurrent(o)'
  <2>1. CASE o = s
    BY <1>3, <2>1 DEF TargetsAreCurrent, Forget, Inv, TypeOK
  <2>2. CASE o # s
    <3>1. TargetsAreCurrent(o)
      BY CurrentBySession DEF Inv
    <3>2. locked'[o] = locked[o] /\ seenSettled'[o] = seenSettled[o]
      BY <1>3, <2>2 DEF Forget, Inv, TypeOK
    <3>3. ASSUME NEW t \in locked[o] PROVE target'[t] = target[t]
      <4>1. t \in Targets /\ t \notin locked[s]
        BY <1>3, <2>2, <3>1 DEF TargetsAreCurrent, HoldsTarget, Ready, Inv, TypeOK
      <4>2. r.amount[t] = 0
        BY <1>2, <1>3, <4>1 DEF Ready, Missing, Wanted
      <4>3. target[t] \in Nat
        BY <4>1 DEF Inv, TypeOK
      <4>4. QED BY <1>3, <4>1, <4>2, <4>3 DEF TargetAfter
    <3>4. \A t \in locked[o], p \in Sessions : HoldsTarget(p, t)' => HoldsTarget(p, t)
      BY <1>3 DEF HoldsTarget, Forget, Inv, TypeOK
    <3>5. QED BY <2>2, <3>1, <3>2, <3>3, <3>4 DEF TargetsAreCurrent
  <2>3. QED BY <2>1, <2>2
<1>6. QED BY <1>4, <1>5 DEF ReadsAreCurrent, SourceIsCurrent, TargetsAreCurrent

LEMMA ReadsStep == Inv /\ [SettlementNext]_all => ReadsAreCurrent'
<1> SUFFICES ASSUME Inv, [SettlementNext]_all PROVE ReadsAreCurrent'
  OBVIOUS
<1>1. ASSUME NEW s \in Sessions, Begin(s) PROVE ReadsAreCurrent'
  BY <1>1, TypeStep, BeginKeepsReads
<1>2. ASSUME NEW s \in Sessions, LockSource(s) PROVE ReadsAreCurrent'
  BY <1>2, LockSourceKeepsReads
<1>3. ASSUME NEW s \in Sessions, LockTarget(s) PROVE ReadsAreCurrent'
  BY <1>3, LockTargetKeepsReads
<1>4. ASSUME NEW s \in Sessions, Refuse(s) \/ Abort(s) PROVE ReadsAreCurrent'
  BY <1>4, EndKeepsReads DEF Refuse, Abort
<1>5. ASSUME NEW s \in Sessions, SettleLocked(s) PROVE ReadsAreCurrent'
  BY <1>5, SettleKeepsReads
<1>6. CASE UNCHANGED all
  BY <1>6 DEF all, mine, documents, Inv, ReadsAreCurrent, HoldsSource, HoldsTarget
<1>7. QED BY <1>1, <1>2, <1>3, <1>4, <1>5, <1>6 DEF SettlementNext

LEMMA Invariance == SettlementSpec => []Inv
<1>1. SettlementInit => Inv
  BY InitInv
<1>2. Inv /\ [SettlementNext]_all => Inv'
  BY TypeStep, CleanStep, BoundedStep, ReadsStep DEF Inv
<1>3. QED BY <1>1, <1>2, PTL DEF SettlementSpec
-----------------------------------------------------------------------------
(* What a session has read of any target, locked or not, is a balance that  *)
(* target may have.                                                         *)
SeenBounded == \A s \in Sessions : \A t \in Targets : seenSettled[s][t] <= Owed[t]

LEMMA SeenInvariance == SettlementSpec => []SeenBounded
<1>1. SettlementInit => SeenBounded
  BY DEF SettlementInit, SeenBounded
<1>2. Inv /\ SeenBounded /\ [SettlementNext]_all => SeenBounded'
  <2> SUFFICES ASSUME Inv, SeenBounded, [SettlementNext]_all PROVE SeenBounded'
    OBVIOUS
  <2> USE DEF Inv, TypeOK, SeenBounded
  <2>1. ASSUME NEW s \in Sessions, LockTarget(s) PROVE SeenBounded'
    <3>1. PICK t \in Targets : seenSettled' = [seenSettled EXCEPT ![s][t] = target[t]]
      BY <2>1 DEF LockTarget, Missing, Wanted
    <3>2. target[t] <= Owed[t]
      BY DEF Bounded
    <3>3. ASSUME NEW o \in Sessions, NEW u \in Targets
          PROVE  seenSettled'[o][u] = seenSettled[o][u] \/ (u = t /\ seenSettled'[o][u] = target[t])
      BY <3>1
    <3> QED
      BY <3>2, <3>3
  <2>2. ASSUME NEW s \in Sessions, Forget(s) PROVE SeenBounded'
    BY <2>2 DEF Forget
  <2>3. ASSUME NEW s \in Sessions, Begin(s) \/ LockSource(s) PROVE SeenBounded'
    BY <2>3 DEF Begin, LockSource
  <2>4. CASE UNCHANGED all
    BY <2>4 DEF all, mine
  <2> QED
    BY <2>1, <2>2, <2>3, <2>4 DEF SettlementNext, Refuse, Abort, SettleLocked
<1> QED
  BY <1>1, <1>2, Invariance, PTL DEF SettlementSpec

(* The rows of the documents after a settlement, one document at a time:    *)
(* either the request has its whole total from a source, as a refund or as  *)
(* allocations, or it is a write-off.                                       *)
Explained ==
  /\ \A x \in Sources : source[x].used = refunded[x] + Sum(alloc[x], Targets)
  /\ \A t \in Targets : target[t] = writtenOff[t] + Sum([x \in Sources |-> alloc[x][t]], Sources)

LEMMA SettleExplainsSource ==
  ASSUME Inv, Explained, NEW s \in Sessions, SettleLocked(s), NEW x \in Sources
  PROVE  source'[x].used = refunded'[x] + Sum(alloc'[x], Targets)
<1> DEFINE r == req[s]
<1>1. r \in Requests
  BY DEF Inv, TypeOK
<1>2. r.amount \in [Targets -> Nat] /\ r.total \in Nat /\ r.source \in Sources \cup {NoSource}
  BY <1>1, RequestFields
<1>3. /\ alloc'[x] = [t \in Targets |-> alloc[x][t] + (IF x = r.source THEN r.amount[t] ELSE 0)]
      /\ refunded'[x] = refunded[x] + (IF x = r.source /\ r.op = "refund" THEN r.total ELSE 0)
      /\ source' = SourceAfter(r)
  BY DEF SettleLocked
<1>4. /\ source[x].used = refunded[x] + Sum(alloc[x], Targets)
      /\ source[x].used \in Nat /\ refunded[x] \in Nat /\ alloc[x] \in [Targets -> Nat]
  BY DEF Explained, Inv, TypeOK, SourceRow
<1>5. Sum(alloc[x], Targets) \in Int
  <2>1. \A t \in Targets : alloc[x][t] \in Int
    BY <1>4
  <2> QED
    BY ONLY <2>1, SumInt, FiniteAssumption
<1>6. CASE x # r.source
  <2>1. source'[x] = source[x]
    BY <1>2, <1>3, <1>6 DEF SourceAfter, Inv, TypeOK
  <2>2. alloc'[x] = alloc[x] /\ refunded'[x] = refunded[x]
    BY <1>3, <1>4, <1>6
  <2> QED
    BY <1>4, <2>1, <2>2
<1>7. CASE x = r.source
  <2>1. source'[x].used = source[x].used + r.total
    BY <1>3, <1>7, NoSource \notin Sources DEF SourceAfter, Inv, TypeOK
  <2>2. Sum(alloc'[x], Targets) = Sum(alloc[x], Targets) + Sum(r.amount, Targets)
    <3> DEFINE a == alloc[x]
               b == r.amount
               c == alloc'[x]
    <3>1. \A t \in Targets : a[t] \in Int /\ b[t] \in Int /\ c[t] = a[t] + b[t]
      <4>1. \A t \in Targets : a[t] \in Nat /\ b[t] \in Nat
        BY <1>2, <1>4
      <4>2. \A t \in Targets : c[t] = a[t] + b[t]
        BY <1>3, <1>7
      <4> QED
        BY ONLY <4>1, <4>2
    <3> HIDE DEF a, b, c
    <3>2. Sum(c, Targets) = Sum(a, Targets) + Sum(b, Targets)
      BY ONLY <3>1, SumPlus, FiniteAssumption
    <3> QED
      BY <3>2 DEF a, b, c
  <2>3. CASE r.op = "refund"
    <3>1. \A t \in Targets : r.amount[t] = 0
      BY <1>1, <2>3, TotalsAssumption
    <3>2. Sum(r.amount, Targets) = 0
      <4> DEFINE b == r.amount
      <4>1. \A t \in Targets : b[t] \in Nat /\ b[t] = 0
        BY <3>1
      <4> HIDE DEF b
      <4>2. Sum(b, Targets) = 0
        BY ONLY <4>1, SumNat, FiniteAssumption
      <4> QED
        BY <4>2 DEF b
    <3> QED
      BY <1>2, <1>3, <1>4, <1>5, <1>7, <2>1, <2>2, <2>3, <3>2
  <2>4. CASE r.op # "refund"
    <3>1. r.total = Sum(r.amount, Targets)
      BY <1>1, <2>4, TotalsAssumption
    <3> QED
      BY <1>2, <1>3, <1>4, <1>5, <1>7, <2>1, <2>2, <2>4, <3>1
  <2> QED
    BY <2>3, <2>4
<1> QED
  BY <1>6, <1>7

LEMMA SettleExplainsTarget ==
  ASSUME Inv, Explained, NEW s \in Sessions, SettleLocked(s), NEW t \in Targets
  PROVE  target'[t] = writtenOff'[t] + Sum([x \in Sources |-> alloc'[x][t]], Sources)
<1> DEFINE r == req[s]
           before == [x \in Sources |-> alloc[x][t]]
           after == [x \in Sources |-> alloc'[x][t]]
<1>1. r \in Requests
  BY DEF Inv, TypeOK
<1>2. /\ r.amount[t] \in Nat /\ r.source \in Sources \cup {NoSource}
      /\ r.op = "writeOff" <=> r.source = NoSource
  BY <1>1, RequestFields
<1>3. /\ after = [x \in Sources |-> before[x] + (IF x = r.source THEN r.amount[t] ELSE 0)]
      /\ writtenOff'[t] = writtenOff[t] + (IF r.op = "writeOff" THEN r.amount[t] ELSE 0)
      /\ target'[t] = target[t] + r.amount[t]
  BY DEF SettleLocked, TargetAfter
<1>4. /\ target[t] = writtenOff[t] + Sum(before, Sources)
      /\ target[t] \in Nat /\ writtenOff[t] \in Nat /\ before \in [Sources -> Nat]
  BY DEF Explained, Inv, TypeOK
<1>5. Sum(before, Sources) \in Int
  BY <1>4, SumInt, FiniteAssumption
<1>6. CASE r.source = NoSource
  <2>1. after = before
    BY <1>3, <1>4, <1>6
  <2> HIDE DEF before, after, r
  <2> QED
    BY <1>2, <1>3, <1>4, <1>5, <1>6, <2>1 DEF after
<1>7. CASE r.source \in Sources
  <2>1. Sum(after, Sources) = Sum(before, Sources) + (after[r.source] - before[r.source])
    <3>1. \A x \in Sources : before[x] \in Int /\ after[x] \in Int
      BY <1>2, <1>3, <1>4
    <3>2. \A x \in Sources \ {r.source} : before[x] = after[x]
      BY <1>2, <1>3, <1>4
    <3> DEFINE p == r.source
    <3>3. p \in Sources /\ \A x \in Sources \ {p} : before[x] = after[x]
      BY <1>7, <3>2
    <3>4. Sum(after, Sources) = Sum(before, Sources) + (after[p] - before[p])
      <4> HIDE DEF before, after, p
      <4> QED
        BY ONLY <3>1, <3>3, SumChange, FiniteAssumption
    <3> QED
      BY <3>4
  <2>2. after[r.source] - before[r.source] = r.amount[t]
    BY <1>2, <1>3, <1>4, <1>7
  <2> HIDE DEF before, after, r
  <2> QED
    BY <1>2, <1>3, <1>4, <1>5, <1>7, <2>1, <2>2 DEF after
<1> QED
  BY <1>2, <1>6, <1>7

LEMMA ExplainedInvariance == SettlementSpec => []Explained
<1>1. SettlementInit => Explained
  <2> SUFFICES ASSUME SettlementInit PROVE Explained
    OBVIOUS
  <2>1. ASSUME NEW x \in Sources PROVE source[x].used = refunded[x] + Sum(alloc[x], Targets)
    <3>1. Sum(alloc[x], Targets) = 0
      BY SumNat, FiniteAssumption DEF SettlementInit
    <3> QED
      BY <3>1 DEF SettlementInit, Init, Unposted
  <2>2. ASSUME NEW t \in Targets
        PROVE  target[t] = writtenOff[t] + Sum([x \in Sources |-> alloc[x][t]], Sources)
    <3>1. Sum([x \in Sources |-> alloc[x][t]], Sources) = 0
      BY SumNat, FiniteAssumption DEF SettlementInit
    <3> QED
      BY <3>1 DEF SettlementInit, Init
  <2> QED
    BY <2>1, <2>2 DEF Explained
<1>2. Inv /\ Explained /\ [SettlementNext]_all => Explained'
  <2> SUFFICES ASSUME Inv, Explained, [SettlementNext]_all PROVE Explained'
    OBVIOUS
  <2>1. ASSUME NEW s \in Sessions, SettleLocked(s) PROVE Explained'
    BY <2>1, SettleExplainsSource, SettleExplainsTarget DEF Explained
  <2>2. CASE UNCHANGED documents
    BY <2>2 DEF documents, Explained
  <2> QED
    BY <2>1, <2>2, DocumentsStay DEF SettlementNext, all
<1> QED
  BY <1>1, <1>2, Invariance, PTL DEF SettlementSpec
-----------------------------------------------------------------------------
(* The columns and the sessions' memory keep their types.                   *)
THEOREM TypeCorrect == SettlementSpec => []TypeOK
<1>1. Inv => TypeOK
  BY DEF Inv
<1>2. QED BY <1>1, Invariance, PTL

(* Whatever the others do, a row read under its lock still holds what was   *)
(* read: the FOR UPDATE of lockTargets and of the source.                   *)
THEOREM ReadsStayCurrent == SettlementSpec => []ReadsAreCurrent
<1>1. Inv => ReadsAreCurrent
  BY DEF Inv
<1>2. QED BY <1>1, Invariance, PTL

(* What validateAllocations lets through, the CHECKs and triggers accept.   *)
THEOREM ValidationSuffices == SettlementSpec => []BackstopNeverFires
<1>1. Inv => BackstopNeverFires
  BY ValidatedFits DEF BackstopNeverFires, Backstop
<1>2. QED BY <1>1, Invariance, PTL

(* Whatever is settled at the same time, each column is the sum of the rows *)
(* written with it, and within its document: what recordAllocation and      *)
(* applyToTarget write apart stays together.                                *)
THEOREM RowsExplain == SettlementSpec => []RowsExplainColumns
<1>1. Inv /\ Explained => RowsExplainColumns
  BY DEF Inv, Bounded, Explained, RowsExplainColumns
<1>2. QED BY <1>1, Invariance, ExplainedInvariance, PTL

(* OVER_ALLOCATION is answered only where the request does not fit the      *)
(* documents as they are at that moment.                                    *)
THEOREM RefusalsAreTrue == SettlementSpec => RefusedForCause
<1>1. ASSUME Inv, SeenBounded, NEW s \in Sessions, Refuse(s) PROVE ~Fits(req[s])
  <2> SUFFICES ASSUME Fits(req[s]) PROVE Valid(s)
    BY <1>1 DEF Refuse
  <2>1. Ready(s) /\ req[s] \in Requests
    BY <1>1 DEF Refuse, Inv, TypeOK
  <2>2. req[s].source # NoSource => seenUsed[s] + req[s].total <= Worth[req[s].source]
    BY <1>1, <2>1 DEF Fits, Ready, Inv, ReadsAreCurrent
  <2>3. ASSUME NEW t \in Targets PROVE seenSettled[s][t] + req[s].amount[t] <= Owed[t]
    <3>1. req[s].amount[t] \in Nat
      BY <2>1, RequestFields
    <3>2. CASE req[s].amount[t] > 0
      <4>1. t \in locked[s]
        BY <2>1, <3>2 DEF Ready, Missing, Wanted
      <4> QED
        BY <1>1, <4>1 DEF Inv, ReadsAreCurrent, Fits
    <3>3. CASE req[s].amount[t] = 0
      BY <1>1, <3>3 DEF SeenBounded, Inv, TypeOK
    <3> QED
      BY <3>1, <3>2, <3>3
  <2> QED
    BY <2>2, <2>3 DEF Valid
<1>2. Inv /\ SeenBounded /\ [SettlementNext]_all => [\A s \in Sessions : Refuse(s) => ~Fits(req[s])]_all
  BY <1>1
<1> QED
  BY <1>2, Invariance, SeenInvariance, PTL DEF SettlementSpec, RefusedForCause

(* Every step of the protocol is a settlement of OpenItems or none.         *)
LEMMA StepRefines == Inv /\ [SettlementNext]_all => [Atomic!Next]_<<source, target>>
<1> SUFFICES ASSUME Inv, [SettlementNext]_all PROVE [Atomic!Next]_<<source, target>>
  OBVIOUS
<1>1. ASSUME NEW s \in Sessions, SettleLocked(s) PROVE Atomic!Next
  <2>1. req[s] \in Requests
    BY DEF Inv, TypeOK
  <2>2. Atomic!Fits(req[s])
    BY <1>1 DEF SettleLocked, Backstop, Fits, Atomic!Fits
  <2>3. req[s].source # NoSource => (source[req[s].source].posted <=> req[s].op # "create")
    BY <1>1 DEF SettleLocked, Ready, Inv, ReadsAreCurrent
  <2>4. Atomic!Settle(req[s])
    BY <1>1, <2>2, <2>3 DEF SettleLocked, SourceAfter, TargetAfter, Atomic!Settle
  <2>5. QED BY <2>1, <2>4 DEF Atomic!Next
<1>2. CASE UNCHANGED documents
  BY <1>2 DEF documents
<1>3. QED BY <1>1, <1>2, DocumentsStay DEF SettlementNext, all

(* The statement-by-statement protocol implements the indivisible           *)
(* settlement, for every instance.                                          *)
THEOREM Refinement == SettlementSpec => ImplementsOpenItems
<1>1. SettlementInit => Atomic!Init
  BY DEF SettlementInit, Init, Unposted, Atomic!Init, Atomic!Unposted
<1>2. QED
  BY <1>1, StepRefines, Invariance, PTL
     DEF SettlementSpec, ImplementsOpenItems, Atomic!Spec, Atomic!vars
=============================================================================
