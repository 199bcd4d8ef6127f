--------------------------- MODULE PlatformProofs ---------------------------
(***************************************************************************)
(* Proofs about the components Platform puts side by side, for every value *)
(* of its constants.  A step of the platform is a step of one component    *)
(* and leaves the others alone, so each component keeps the invariant it   *)
(* keeps by itself; Only... below says so of each.                         *)
(***************************************************************************)
EXTENDS Platform, Sums, FiniteSetTheorems, TLAPS

(***************************************************************************)
(* Retried requests (Idempotency).  For any number of requests, payloads,  *)
(* crashes, expiries and reapings.  Until a request outlives its lock, the *)
(* protocol runs one request at a time, replays a response only to its own *)
(* payload, and lets nothing but a dead process leave an effect            *)
(* unanswered (KeyInv); and whatever outlives its lock, the operation runs *)
(* once more at most for each lock that ran out (EffectsInv).              *)
(*                                                                         *)
(* Release and Store address the row by key, so the argument for KeyInv    *)
(* rests on KeyIsHeld: whoever is at work still holds the row.  HashKept   *)
(* ties a row's hash to its id, which is what a takeover compares.         *)
(***************************************************************************)
KeyRows ==
  [id : Requests, hash : Hashes, response : Requests \cup {None}, locked : BOOLEAN,
   holder : Requests]

KeyShape ==
  /\ row \in KeyRows \cup {NoRow}
  /\ at \in [Requests -> {"reserve", "load", "take", "answered", "dead"} \cup Working]
  /\ seen \in [Requests -> Requests \cup {None}]
  /\ reply \in [Requests -> Replies]
  /\ effects \subseteq Requests

KeyIsHeld ==
  \A r \in Requests : at[r] \in Working =>
    ~Absent /\ row.holder = r /\ row.locked /\ row.response = None /\ row.hash = HashOf[r]

HashKept ==
  /\ ~Absent => /\ row.hash = HashOf[row.id]
                /\ row.response # None => HashOf[row.response] = row.hash
  /\ \A r \in Requests : at[r] = "take" => seen[r] \in Requests /\ HashOf[seen[r]] = HashOf[r]

EffectKnown ==
  \A r \in effects : \/ at[r] \in {"dead", "store"}
                     \/ at[r] = "answered" /\ ~Absent /\ row.response = r

KeyInv == KeyShape /\ KeyIsHeld /\ HashKept /\ ReplayIsOwn /\ EffectKnown
-----------------------------------------------------------------------------
(* A row is there exactly when it is one of the rows.                       *)
LEMMA Present == ASSUME KeyShape PROVE ~Absent <=> row \in KeyRows
  BY IdempotencyAssumption DEF KeyShape, Absent, NoRow, KeyRows, IdempotencyAssumption

LEMMA KeyInit == Init => KeyInv
  <1> SUFFICES ASSUME Init PROVE KeyInv
    OBVIOUS
  <1>1. KeyShape
    BY DEF Init, KeyShape, Replies, NoReply
  <1>2. KeyIsHeld /\ EffectKnown
    BY DEF Init, KeyIsHeld, EffectKnown, Working
  <1>3. HashKept /\ ReplayIsOwn
    BY DEF Init, HashKept, ReplayIsOwn, Absent, NoReply, None
  <1> QED
    BY <1>1, <1>2, <1>3 DEF KeyInv

LEMMA ReserveInv == ASSUME KeyInv, NEW r \in Requests, Reserve(r) PROVE KeyInv'
  <1> USE IdempotencyAssumption DEF IdempotencyAssumption
  <1>1. CASE Absent
    <2>1. /\ row' = Reservation(r) /\ at' = [at EXCEPT ![r] = "execute"]
          /\ UNCHANGED <<seen, reply, effects>>
      BY <1>1 DEF Reserve, Go
    <2>2. \A q \in Requests : at[q] \notin Working
      BY <1>1 DEF KeyInv, KeyIsHeld
    <2>3. row' \in KeyRows /\ ~Absent'
      BY <2>1 DEF KeyRows, Reservation, Absent, NoRow
    <2>4. KeyShape'
      BY <2>1, <2>3 DEF KeyInv, KeyShape, Working
    <2>5. KeyIsHeld'
      BY <2>1, <2>2, <2>3 DEF KeyInv, KeyShape, KeyIsHeld, Reservation
    <2>6. HashKept'
      BY <2>1 DEF KeyInv, KeyShape, HashKept, Reservation
    <2>7. ReplayIsOwn'
      BY <2>1 DEF KeyInv, ReplayIsOwn
    <2>8. EffectKnown'
      BY <1>1, <2>1, Reserve(r) DEF KeyInv, KeyShape, EffectKnown, Reserve
    <2> QED
      BY <2>4, <2>5, <2>6, <2>7, <2>8 DEF KeyInv
  <1>2. CASE ~Absent
    <2>1. at' = [at EXCEPT ![r] = "load"] /\ UNCHANGED <<row, seen, reply, effects>> /\ at[r] = "reserve"
      BY <1>2 DEF Reserve, Go
    <2>2. KeyShape' /\ KeyIsHeld'
      BY <2>1 DEF KeyInv, KeyShape, KeyIsHeld, Working, Absent
    <2>3. HashKept' /\ ReplayIsOwn' /\ EffectKnown'
      BY <2>1 DEF KeyInv, KeyShape, HashKept, ReplayIsOwn, EffectKnown, Absent
    <2> QED
      BY <2>2, <2>3 DEF KeyInv
  <1> QED
    BY <1>1, <1>2

LEMMA LoadInv == ASSUME KeyInv, NEW r \in Requests, Load(r) PROVE KeyInv'
  <1> USE IdempotencyAssumption DEF IdempotencyAssumption
  <1>1. at[r] = "load" /\ UNCHANGED <<row, effects>>
    BY DEF Load
  <1>2. CASE Absent /\ Go(r, "reserve") /\ UNCHANGED <<seen, reply>>
    <2>1. KeyShape' /\ KeyIsHeld'
      BY <1>1, <1>2 DEF KeyInv, KeyShape, KeyIsHeld, Working, Absent, Go
    <2>2. HashKept' /\ ReplayIsOwn' /\ EffectKnown'
      BY <1>1, <1>2 DEF KeyInv, KeyShape, HashKept, ReplayIsOwn, EffectKnown, Absent, Go
    <2> QED
      BY <2>1, <2>2 DEF KeyInv
  <1>3. ASSUME NEW kind \in {"reuse", "in progress"}, Answer(r, kind, None), UNCHANGED seen PROVE KeyInv'
    <2>1. [kind |-> kind, from |-> None] \in Replies
      BY DEF Replies
    <2>2. KeyShape' /\ KeyIsHeld'
      BY <1>1, <1>3, <2>1 DEF KeyInv, KeyShape, KeyIsHeld, Working, Absent, Answer, Go
    <2>3. HashKept' /\ ReplayIsOwn' /\ EffectKnown'
      BY <1>1, <1>3 DEF KeyInv, KeyShape, HashKept, ReplayIsOwn, EffectKnown, Absent, Answer, Go
    <2> QED
      BY <2>2, <2>3 DEF KeyInv
  <1>4. CASE /\ ~Absent /\ row.hash = HashOf[r] /\ row.response # None
             /\ Answer(r, "replayed", row.response) /\ UNCHANGED seen
    <2>1. row.response \in Requests /\ HashOf[row.response] = HashOf[r]
      BY <1>4, Present DEF KeyInv, HashKept, KeyRows
    <2>2. [kind |-> "replayed", from |-> row.response] \in Replies
      BY <2>1 DEF Replies
    <2>3. KeyShape' /\ KeyIsHeld'
      BY <1>1, <1>4, <2>2 DEF KeyInv, KeyShape, KeyIsHeld, Working, Absent, Answer, Go
    <2>4. HashKept' /\ ReplayIsOwn' /\ EffectKnown'
      BY <1>1, <1>4, <2>1 DEF KeyInv, KeyShape, HashKept, ReplayIsOwn, EffectKnown, Absent, Answer, Go
    <2> QED
      BY <2>3, <2>4 DEF KeyInv
  <1>5. CASE /\ ~Absent /\ row.hash = HashOf[r]
             /\ seen' = [seen EXCEPT ![r] = row.id] /\ Go(r, "take") /\ UNCHANGED reply
    <2>1. row.id \in Requests /\ HashOf[row.id] = HashOf[r]
      BY <1>5, Present DEF KeyInv, HashKept, KeyRows
    <2>2. KeyShape' /\ KeyIsHeld'
      BY <1>1, <1>5, <2>1 DEF KeyInv, KeyShape, KeyIsHeld, Working, Absent, Go
    <2>3. HashKept' /\ ReplayIsOwn' /\ EffectKnown'
      BY <1>1, <1>5, <2>1 DEF KeyInv, KeyShape, HashKept, ReplayIsOwn, EffectKnown, Absent, Go
    <2> QED
      BY <2>2, <2>3 DEF KeyInv
  <1> QED
    BY <1>2, <1>3, <1>4, <1>5 DEF Load

LEMMA TakeInv == ASSUME KeyInv, NEW r \in Requests, Take(r) PROVE KeyInv'
  <1> USE IdempotencyAssumption DEF IdempotencyAssumption
  <1>1. at[r] = "take" /\ UNCHANGED <<seen, effects>>
    BY DEF Take
  <1>2. CASE ~Absent /\ Takeable(r)
    <2>1. /\ row' = [row EXCEPT !.locked = TRUE, !.holder = r]
          /\ at' = [at EXCEPT ![r] = "execute"] /\ UNCHANGED reply
      BY <1>2 DEF Take, Go
    <2>2. row \in KeyRows /\ row.response = None /\ ~row.locked /\ row.id = seen[r]
      BY <1>2, Present DEF KeyInv, Takeable
    <2>3. /\ row' \in KeyRows /\ ~Absent'
          /\ row'.id = row.id /\ row'.hash = row.hash /\ row'.response = None
          /\ row'.locked /\ row'.holder = r
      BY <2>1, <2>2 DEF KeyRows, Absent, NoRow
    <2>4. \A q \in Requests : at[q] \notin Working
      BY <2>2 DEF KeyInv, KeyIsHeld
    <2>5. row.hash = HashOf[r]
      BY <1>1, <1>2, <2>2 DEF KeyInv, HashKept
    <2>6. KeyShape'
      BY <1>1, <2>1, <2>3 DEF KeyInv, KeyShape, Working
    <2>7. KeyIsHeld'
      BY <2>1, <2>3, <2>4, <2>5 DEF KeyInv, KeyShape, KeyIsHeld
    <2>8. HashKept' /\ ReplayIsOwn'
      BY <1>1, <1>2, <2>1, <2>3 DEF KeyInv, KeyShape, HashKept, ReplayIsOwn
    <2>9. EffectKnown'
      BY <1>1, <2>1, <2>2 DEF KeyInv, KeyShape, EffectKnown
    <2> QED
      BY <2>6, <2>7, <2>8, <2>9 DEF KeyInv
  <1>3. CASE ~(~Absent /\ Takeable(r))
    <2>1. row' = row /\ Answer(r, "in progress", None)
      BY <1>3 DEF Take
    <2>2. [kind |-> "in progress", from |-> None] \in Replies
      BY DEF Replies
    <2>3. KeyShape' /\ KeyIsHeld'
      BY <1>1, <2>1, <2>2 DEF KeyInv, KeyShape, KeyIsHeld, Working, Absent, Answer, Go
    <2>4. HashKept' /\ ReplayIsOwn' /\ EffectKnown'
      BY <1>1, <2>1 DEF KeyInv, KeyShape, HashKept, ReplayIsOwn, EffectKnown, Absent, Answer, Go
    <2> QED
      BY <2>3, <2>4 DEF KeyInv
  <1> QED
    BY <1>2, <1>3

LEMMA WorkInv == ASSUME KeyInv, NEW r \in Requests, Execute(r) \/ Fail(r) \/ Crash(r) PROVE KeyInv'
  <1>1. at[r] \in Working
    BY DEF Execute, Fail, Crash, Working
  <1>2. PICK step \in {"store", "release", "dead"} :
          /\ at' = [at EXCEPT ![r] = step]
          /\ (step = "store" /\ effects' = effects \cup {r}) \/ effects' = effects
          /\ step = "release" => at[r] = "execute"
    BY DEF Execute, Fail, Crash, Go
  <1>3. UNCHANGED <<row, seen, reply>>
    BY DEF Execute, Fail, Crash
  <1>4. KeyShape' /\ KeyIsHeld'
    BY <1>1, <1>2, <1>3 DEF KeyInv, KeyShape, KeyIsHeld, Working, Absent
  <1>5. HashKept' /\ ReplayIsOwn'
    BY <1>2, <1>3 DEF KeyInv, KeyShape, HashKept, ReplayIsOwn, Absent
  <1>6. EffectKnown'
    BY <1>1, <1>2, <1>3 DEF KeyInv, KeyShape, EffectKnown, Absent, Working
  <1> QED
    BY <1>4, <1>5, <1>6 DEF KeyInv

LEMMA ReleaseInv == ASSUME KeyInv, NEW r \in Requests, Release(r) PROVE KeyInv'
  <1> USE IdempotencyAssumption DEF IdempotencyAssumption
  <1>1. at[r] = "release" /\ row.response = None /\ row.holder = r
    BY DEF KeyInv, KeyIsHeld, Release, Working
  <1>2. row' = NoRow /\ Answer(r, "failed", None) /\ UNCHANGED <<seen, effects>>
    BY <1>1 DEF Release
  <1>3. \A q \in Requests \ {r} : at[q] \notin Working
    BY <1>1 DEF KeyInv, KeyIsHeld
  <1>4. [kind |-> "failed", from |-> None] \in Replies
    BY DEF Replies
  <1>5. KeyShape'
    BY <1>2, <1>4 DEF KeyInv, KeyShape, Answer, Go
  <1>6. KeyIsHeld' /\ HashKept'
    BY <1>2, <1>3 DEF KeyInv, KeyShape, KeyIsHeld, HashKept, Absent, Answer, Go, Working
  <1>7. ReplayIsOwn'
    BY <1>2 DEF KeyInv, KeyShape, ReplayIsOwn, Answer
  <1>8. EffectKnown'
    BY <1>1, <1>2 DEF KeyInv, KeyShape, EffectKnown, Answer, Go
  <1> QED
    BY <1>5, <1>6, <1>7, <1>8 DEF KeyInv

LEMMA StoreInv == ASSUME KeyInv, NEW r \in Requests, Store(r) PROVE KeyInv'
  <1> USE IdempotencyAssumption DEF IdempotencyAssumption
  <1>1. /\ at[r] = "store" /\ ~Absent /\ row \in KeyRows
        /\ row.holder = r /\ row.response = None /\ row.hash = HashOf[r]
    BY Present DEF KeyInv, KeyIsHeld, Store, Working
  <1>2. /\ row' = [row EXCEPT !.response = r, !.locked = FALSE]
        /\ Answer(r, "executed", r) /\ UNCHANGED <<seen, effects>>
    BY <1>1 DEF Store, Stored
  <1>3. /\ row' \in KeyRows /\ ~Absent'
        /\ row'.id = row.id /\ row'.hash = row.hash /\ row'.response = r
    BY <1>1, <1>2 DEF KeyRows, Absent, NoRow
  <1>4. \A q \in Requests \ {r} : at[q] \notin Working
    BY <1>1 DEF KeyInv, KeyIsHeld
  <1>5. [kind |-> "executed", from |-> r] \in Replies
    BY DEF Replies
  <1>6. KeyShape'
    BY <1>2, <1>3, <1>5 DEF KeyInv, KeyShape, Answer, Go
  <1>7. KeyIsHeld'
    BY <1>2, <1>4 DEF KeyInv, KeyShape, KeyIsHeld, Answer, Go, Working
  <1>8. HashKept'
    BY <1>1, <1>2, <1>3 DEF KeyInv, KeyShape, HashKept, Answer, Go
  <1>9. ReplayIsOwn'
    BY <1>2 DEF KeyInv, KeyShape, ReplayIsOwn, Answer
  <1>10. EffectKnown'
    <2>1. \A q \in effects \ {r} : at[q] = "dead"
      BY <1>1, <1>4 DEF KeyInv, KeyShape, EffectKnown, Working
    <2> QED
      BY <1>2, <1>3, <2>1 DEF KeyInv, KeyShape, EffectKnown, Answer, Go
  <1> QED
    BY <1>6, <1>7, <1>8, <1>9, <1>10 DEF KeyInv

LEMMA ExpireInv == ASSUME KeyInv, outlived' = {}, Expire PROVE KeyInv'
  <1>1. row.locked /\ at[row.holder] = "dead"
    BY DEF Expire
  <1>2. row' = [row EXCEPT !.locked = FALSE] /\ UNCHANGED <<at, seen, reply, effects>>
    BY DEF Expire
  <1>3. \A q \in Requests : at[q] \notin Working
    BY <1>1 DEF KeyInv, KeyIsHeld, Working
  <1>4. row \in KeyRows
    BY <1>1 DEF KeyInv, KeyShape, NoRow
  <1>5. /\ row' \in KeyRows /\ ~Absent /\ ~Absent'
        /\ row'.id = row.id /\ row'.hash = row.hash /\ row'.response = row.response
    <2>1. row' \in KeyRows /\ row'.id = row.id /\ row'.hash = row.hash /\ row'.response = row.response
      BY <1>2, <1>4 DEF KeyRows
    <2>2. \A x \in KeyRows : x # NoRow
      BY IdempotencyAssumption DEF KeyRows, NoRow, IdempotencyAssumption
    <2> QED
      BY <1>4, <2>1, <2>2 DEF Absent
  <1>6. KeyShape' /\ KeyIsHeld'
    BY <1>2, <1>3, <1>5 DEF KeyInv, KeyShape, KeyIsHeld
  <1>7. HashKept' /\ ReplayIsOwn' /\ EffectKnown'
    BY <1>2, <1>5 DEF KeyInv, HashKept, ReplayIsOwn, EffectKnown
  <1> QED
    BY <1>6, <1>7 DEF KeyInv

LEMMA ReapInv == ASSUME KeyInv, Reap PROVE KeyInv'
  <1>1. row' = NoRow /\ effects' = {} /\ UNCHANGED <<at, seen, reply>>
    BY DEF Reap
  <1>2. \A r \in Requests : at[r] \notin Working \cup {"take"}
    BY DEF Reap
  <1>3. KeyShape' /\ KeyIsHeld'
    BY <1>1, <1>2 DEF KeyInv, KeyShape, KeyIsHeld
  <1>4. HashKept' /\ ReplayIsOwn' /\ EffectKnown'
    BY <1>1, <1>2 DEF KeyInv, HashKept, ReplayIsOwn, EffectKnown, Absent
  <1> QED
    BY <1>3, <1>4 DEF KeyInv

(* A request that has outlived its lock is not forgotten.                   *)
LEMMA OutlivedStays == ASSUME [Next]_vars, outlived' = {} PROVE outlived = {}
  BY DEF Next, Step, Reserve, Load, Take, Execute, Fail, Release, Store, Crash, Expire, Reap, vars

KeyInvUntil == outlived = {} => KeyInv

LEMMA KeyStep == KeyInvUntil /\ [Next]_vars => KeyInvUntil'
  <1> SUFFICES ASSUME KeyInv, [Next]_vars, outlived' = {} PROVE KeyInv'
    BY OutlivedStays DEF KeyInvUntil
  <1>1. CASE Next
    BY <1>1, ReserveInv, LoadInv, TakeInv, WorkInv, ReleaseInv, StoreInv, ExpireInv, ReapInv
    DEF Next, Step
  <1>2. CASE UNCHANGED vars
    BY <1>2 DEF vars, KeyInv, KeyShape, KeyIsHeld, HashKept, ReplayIsOwn, EffectKnown, Absent
  <1> QED
    BY <1>1, <1>2

LEMMA KeyImplies == KeyInv => OneAtATime /\ ReplayIsOwn /\ OneEffectPerAnswer
  <1>1. KeyInv => OneAtATime
    BY DEF KeyInv, KeyIsHeld, OneAtATime
  <1>2. KeyInv => OneEffectPerAnswer
    BY IdempotencyAssumption
    DEF KeyInv, KeyShape, KeyIsHeld, EffectKnown, OneEffectPerAnswer, Working, IdempotencyAssumption
  <1> QED
    BY <1>1, <1>2 DEF KeyInv
-----------------------------------------------------------------------------
(* Who has run or may still run the operation, and whether one more may     *)
(* start: the row is gone, or it is there without a lock and a response.    *)
(* Only a lock that runs out adds to the two together.                      *)
MayRun(r) == at[r] \in {"execute", "release"}
HasRun(r) == at[r] \in {"store", "answered", "dead"}
Chances == effects \cup {r \in Requests : MayRun(r)}
Open == row = NoRow \/ (row.response = None /\ ~row.locked)

EffectsInv ==
  /\ row # NoRow => row \in KeyRows
  /\ at \in [Requests -> {"reserve", "load", "take", "answered", "dead"} \cup Working]
  /\ effects \subseteq Requests /\ IsFiniteSet(Chances) /\ expiries \in Nat
  /\ \A r \in effects : HasRun(r)
  /\ Cardinality(Chances) + (IF Open THEN 1 ELSE 0) <= 1 + expiries

LEMMA EffectsInit == Init => EffectsInv
  <1> SUFFICES ASSUME Init PROVE EffectsInv
    OBVIOUS
  <1>1. Chances = {}
    BY DEF Init, Chances, MayRun
  <1>2. IsFiniteSet(Chances) /\ Cardinality(Chances) = 0
    BY <1>1, FS_EmptySet
  <1> QED
    BY <1>2 DEF Init, EffectsInv

(* The chances after a step, counted: nobody's change, r's gained or lost.  *)
LEMMA ChancesKept ==
  ASSUME EffectsInv, Chances' = Chances, expiries' = expiries, Open' => Open
  PROVE  /\ IsFiniteSet(Chances)' /\ expiries' \in Nat
         /\ Cardinality(Chances)' + (IF Open' THEN 1 ELSE 0) <= 1 + expiries'
  <1>1. Cardinality(Chances) \in Nat
    BY FS_CardinalityType DEF EffectsInv
  <1> QED
    BY <1>1 DEF EffectsInv

LEMMA ChanceTaken ==
  ASSUME EffectsInv, NEW r, Chances' = Chances \cup {r}, expiries' = expiries, Open, ~Open'
  PROVE  /\ IsFiniteSet(Chances)' /\ expiries' \in Nat
         /\ Cardinality(Chances)' + (IF Open' THEN 1 ELSE 0) <= 1 + expiries'
  <1>1. Cardinality(Chances) \in Nat
    BY FS_CardinalityType DEF EffectsInv
  <1>2. /\ IsFiniteSet(Chances \cup {r})
        /\ Cardinality(Chances \cup {r}) \in {Cardinality(Chances), Cardinality(Chances) + 1}
    BY <1>1, FS_AddElement DEF EffectsInv
  <1> QED
    BY <1>1, <1>2 DEF EffectsInv

LEMMA ChanceLost ==
  ASSUME EffectsInv, NEW r \in Chances, Chances' = Chances \ {r}, expiries' = expiries
  PROVE  /\ IsFiniteSet(Chances)' /\ expiries' \in Nat
         /\ Cardinality(Chances)' + (IF Open' THEN 1 ELSE 0) <= 1 + expiries'
  <1>1. Cardinality(Chances) \in Nat
    BY FS_CardinalityType DEF EffectsInv
  <1>2. IsFiniteSet(Chances \ {r}) /\ Cardinality(Chances \ {r}) = Cardinality(Chances) - 1
    BY FS_RemoveElement DEF EffectsInv
  <1> QED
    BY <1>1, <1>2 DEF EffectsInv

LEMMA EffectsStep == EffectsInv /\ [Next]_vars => EffectsInv'
  <1> SUFFICES ASSUME EffectsInv, [Next]_vars PROVE EffectsInv'
    OBVIOUS
  <1> USE IdempotencyAssumption DEF IdempotencyAssumption
  <1> DEFINE Steps == {"reserve", "load", "take", "answered", "dead"} \cup Working
  <1>0. /\ at \in [Requests -> Steps] /\ effects \subseteq Requests
        /\ row # NoRow => row \in KeyRows
        /\ \A q \in effects : HasRun(q)
    BY DEF EffectsInv
  <1>1. ASSUME NEW r \in Requests, Reserve(r), Absent PROVE EffectsInv'
    <2>1. /\ row' = Reservation(r) /\ at' = [at EXCEPT ![r] = "execute"] /\ at[r] = "reserve"
          /\ effects' = effects /\ expiries' = expiries /\ Open
      BY <1>1 DEF Reserve, Go, Absent, Open
    <2>2. row' \in KeyRows /\ ~Open'
      BY <2>1 DEF Reservation, KeyRows, Open, NoRow
    <2>3. Chances' = Chances \cup {r}
      BY <1>0, <2>1 DEF Chances, MayRun, HasRun
    <2>4. IsFiniteSet(Chances)' /\ expiries' \in Nat
          /\ Cardinality(Chances)' + (IF Open' THEN 1 ELSE 0) <= 1 + expiries'
      BY <2>1, <2>2, <2>3, ChanceTaken
    <2>5. at' \in [Requests -> Steps] /\ \A q \in effects' : HasRun(q)'
      BY <1>0, <2>1 DEF HasRun, Working
    <2> QED
      BY <1>0, <2>1, <2>2, <2>4, <2>5 DEF EffectsInv
  <1>2. ASSUME NEW r \in Requests, Take(r), ~Absent, Takeable(r) PROVE EffectsInv'
    <2>1. /\ row' = [row EXCEPT !.locked = TRUE, !.holder = r] /\ row \in KeyRows
          /\ at' = [at EXCEPT ![r] = "execute"] /\ at[r] = "take"
          /\ effects' = effects /\ expiries' = expiries /\ Open
      BY <1>0, <1>2 DEF Take, Takeable, Go, Absent, Open
    <2>2. row' \in KeyRows /\ ~Open'
      BY <2>1 DEF KeyRows, Open, NoRow
    <2>3. Chances' = Chances \cup {r}
      BY <1>0, <2>1 DEF Chances, MayRun, HasRun
    <2>4. IsFiniteSet(Chances)' /\ expiries' \in Nat
          /\ Cardinality(Chances)' + (IF Open' THEN 1 ELSE 0) <= 1 + expiries'
      BY <2>1, <2>2, <2>3, ChanceTaken
    <2>5. at' \in [Requests -> Steps] /\ \A q \in effects' : HasRun(q)'
      BY <1>0, <2>1 DEF HasRun, Working
    <2> QED
      BY <1>0, <2>1, <2>2, <2>4, <2>5 DEF EffectsInv
  <1>3. ASSUME NEW r \in Requests, NEW step \in Steps, at' = [at EXCEPT ![r] = step],
               step \notin {"execute", "release"}, ~MayRun(r), HasRun(r) => step \in {"answered", "dead"},
               row' = row, effects' = effects, expiries' = expiries
        PROVE  EffectsInv'
    <2>1. Chances' = Chances /\ (Open' <=> Open)
      BY <1>0, <1>3 DEF Chances, MayRun, HasRun, Open
    <2>2. at' \in [Requests -> Steps] /\ \A q \in effects' : HasRun(q)'
      BY <1>0, <1>3 DEF HasRun
    <2>3. IsFiniteSet(Chances)' /\ expiries' \in Nat
          /\ Cardinality(Chances)' + (IF Open' THEN 1 ELSE 0) <= 1 + expiries'
      BY <1>3, <2>1, ChancesKept
    <2> QED
      BY <1>0, <1>3, <2>2, <2>3 DEF EffectsInv
  <1>4. ASSUME NEW r \in Requests, Execute(r) PROVE EffectsInv'
    <2>1. /\ at[r] = "execute" /\ at' = [at EXCEPT ![r] = "store"] /\ effects' = effects \cup {r}
          /\ row' = row /\ expiries' = expiries
      BY <1>4 DEF Execute, Go
    <2>2. Chances' = Chances /\ (Open' <=> Open)
      BY <1>0, <2>1 DEF Chances, MayRun, HasRun, Open
    <2> QED
      BY <1>0, <2>1, <2>2, ChancesKept DEF EffectsInv, HasRun, Working
  <1>5. ASSUME NEW r \in Requests, Fail(r) PROVE EffectsInv'
    <2>1. /\ at[r] = "execute" /\ at' = [at EXCEPT ![r] = "release"] /\ effects' = effects
          /\ row' = row /\ expiries' = expiries
      BY <1>5 DEF Fail, Go
    <2>2. Chances' = Chances /\ (Open' <=> Open)
      BY <1>0, <2>1 DEF Chances, MayRun, HasRun, Open
    <2> QED
      BY <1>0, <2>1, <2>2, ChancesKept DEF EffectsInv, HasRun, Working
  <1>6. ASSUME NEW r \in Requests, Release(r) PROVE EffectsInv'
    <2>1. /\ at[r] = "release" /\ at' = [at EXCEPT ![r] = "answered"] /\ effects' = effects
          /\ row' \in {row, NoRow} /\ expiries' = expiries
      BY <1>6 DEF Release, Answer, Go
    <2>2. r \in Chances /\ Chances' = Chances \ {r}
      BY <1>0, <2>1 DEF Chances, MayRun, HasRun
    <2> QED
      BY <1>0, <2>1, <2>2, ChanceLost DEF EffectsInv, HasRun
  <1>7. ASSUME NEW r \in Requests, Store(r) PROVE EffectsInv'
    <2>1. /\ at[r] = "store" /\ at' = [at EXCEPT ![r] = "answered"] /\ effects' = effects
          /\ row' = (IF row = NoRow THEN row ELSE Stored(r))
          /\ expiries' = expiries
      BY <1>7 DEF Store, Answer, Go, Absent
    <2>2. Chances' = Chances
      BY <1>0, <2>1 DEF Chances, MayRun, HasRun
    <2>3. (row' # NoRow => row' \in KeyRows) /\ (Open' => Open)
      <3>1. CASE row = NoRow
        BY <2>1, <3>1 DEF Open
      <3>2. CASE row # NoRow
        <4>1. row' = [row EXCEPT !.response = r, !.locked = FALSE] /\ row \in KeyRows
          BY <1>0, <2>1, <3>2 DEF Stored
        <4>2. row' \in KeyRows /\ row'.response = r
          BY <4>1 DEF KeyRows
        <4> QED
          BY <4>2 DEF Open, KeyRows, NoRow
      <3> QED
        BY <3>1, <3>2
    <2> QED
      BY <1>0, <2>1, <2>2, <2>3, ChancesKept DEF EffectsInv, HasRun
  <1>8. ASSUME NEW r \in Requests, Crash(r) PROVE EffectsInv'
    <2>1. /\ at' = [at EXCEPT ![r] = "dead"] /\ effects' = effects
          /\ row' = row /\ expiries' = expiries
      BY <1>8 DEF Crash, Go
    <2>2. CASE MayRun(r)
      <3>1. r \in Chances /\ Chances' = Chances \ {r}
        BY <1>0, <2>1, <2>2 DEF Chances, MayRun, HasRun
      <3>2. IsFiniteSet(Chances)' /\ expiries' \in Nat
            /\ Cardinality(Chances)' + (IF Open' THEN 1 ELSE 0) <= 1 + expiries'
        BY <2>1, <3>1, ChanceLost
      <3>3. at' \in [Requests -> Steps] /\ \A q \in effects' : HasRun(q)'
        BY <1>0, <2>1 DEF HasRun
      <3> QED
        BY <1>0, <2>1, <3>2, <3>3 DEF EffectsInv
    <2>3. CASE ~MayRun(r)
      <3>1. "dead" \in Steps /\ "dead" \notin {"execute", "release"} /\ "dead" \in {"answered", "dead"}
        OBVIOUS
      <3> QED
        BY <1>3, <2>1, <2>3, <3>1
    <2> QED
      BY <2>2, <2>3
  <1>9. ASSUME Expire PROVE EffectsInv'
    <2>1. /\ row' = [row EXCEPT !.locked = FALSE] /\ row.locked /\ at' = at /\ effects' = effects
          /\ expiries' = expiries + 1
      BY <1>9 DEF Expire
    <2>2. row \in KeyRows /\ ~Open
      BY <1>0, <2>1 DEF NoRow, KeyRows, Open
    <2>3. row' \in KeyRows /\ Chances' = Chances
      BY <2>1, <2>2 DEF KeyRows, Chances, MayRun
    <2>4. Cardinality(Chances) \in Nat
      BY FS_CardinalityType DEF EffectsInv
    <2>5. Cardinality(Chances)' + (IF Open' THEN 1 ELSE 0) <= 1 + expiries'
      BY <2>1, <2>2, <2>3, <2>4 DEF EffectsInv
    <2> QED
      BY <1>0, <2>1, <2>3, <2>5 DEF EffectsInv, HasRun
  <1>10. ASSUME Reap PROVE EffectsInv'
    <2>1. /\ row' = NoRow /\ effects' = {} /\ at' = at /\ expiries' = expiries
          /\ \A r \in Requests : at[r] \notin Working
      BY <1>10 DEF Reap
    <2>2. Chances' = {}
      BY <2>1 DEF Chances, MayRun, HasRun, Working
    <2>3. IsFiniteSet(Chances)' /\ Cardinality(Chances)' = 0
      BY <2>2, FS_EmptySet
    <2> QED
      BY <1>0, <2>1, <2>3 DEF EffectsInv
  <1>11. CASE UNCHANGED vars
    <2>1. UNCHANGED <<row, at, effects, expiries>>
      BY <1>11 DEF vars
    <2>2. Chances' = Chances /\ (Open' <=> Open)
      BY <2>1 DEF Chances, MayRun, HasRun, Open
    <2> QED
      BY <1>0, <2>1, <2>2, ChancesKept DEF EffectsInv, HasRun
  <1>12. ASSUME NEW r \in Requests, Reserve(r), ~Absent PROVE EffectsInv'
    <2>1. /\ at[r] = "reserve" /\ at' = [at EXCEPT ![r] = "load"]
          /\ row' = row /\ effects' = effects /\ expiries' = expiries
      BY <1>12 DEF Reserve, Go
    <2> QED
      BY <1>3, <2>1 DEF MayRun, HasRun
  <1>13. ASSUME NEW r \in Requests, Load(r) PROVE EffectsInv'
    <2>1. at[r] = "load" /\ row' = row /\ effects' = effects /\ expiries' = expiries
      BY <1>13 DEF Load
    <2>2. PICK step \in {"reserve", "take", "answered"} : at' = [at EXCEPT ![r] = step]
      BY <1>13 DEF Load, Answer, Go
    <2> QED
      BY <1>3, <2>1, <2>2 DEF MayRun, HasRun
  <1>14. ASSUME NEW r \in Requests, Take(r), ~(~Absent /\ Takeable(r)) PROVE EffectsInv'
    <2>1. /\ at[r] = "take" /\ at' = [at EXCEPT ![r] = "answered"]
          /\ row' = row /\ effects' = effects /\ expiries' = expiries
      BY <1>14 DEF Take, Answer, Go
    <2> QED
      BY <1>3, <2>1 DEF MayRun, HasRun
  <1> QED
    BY <1>1, <1>2, <1>4, <1>5, <1>6, <1>7, <1>8, <1>9, <1>10, <1>11, <1>12, <1>13, <1>14 DEF Next, Step

LEMMA EffectsImply == EffectsInv => EffectsAreBounded
  <1> SUFFICES ASSUME EffectsInv PROVE EffectsAreBounded
    OBVIOUS
  <1>1. /\ IsFiniteSet(Chances) /\ effects \subseteq Chances
        /\ Cardinality(effects) <= Cardinality(Chances)
    BY FS_Subset DEF EffectsInv, Chances
  <1>2. Cardinality(Chances) \in Nat /\ Cardinality(effects) \in Nat
    BY <1>1, FS_Subset, FS_CardinalityType
  <1> QED
    BY <1>1, <1>2 DEF EffectsInv, EffectsAreBounded

(* However requests with one key are retried, raced and crash: until one    *)
(* outlives its lock, one runs at a time, each is answered for its own      *)
(* payload, and only a dead process leaves an effect besides; and however   *)
(* many outlive theirs, the operation runs once more at most for each lock  *)
(* that ran out.                                                            *)
THEOREM KeyIsHonoured == Spec => []OneEffectPerKey
  <1>1. Init => KeyInvUntil /\ EffectsInv
    BY KeyInit, EffectsInit DEF KeyInvUntil
  <1>2. KeyInvUntil /\ EffectsInv => OneEffectPerKey
    BY KeyImplies, EffectsImply DEF KeyInvUntil, OneEffectPerKey
  <1> QED
    BY <1>1, <1>2, KeyStep, EffectsStep, PTL DEF Spec

(***************************************************************************)
(* One component among the others.                                         *)
(***************************************************************************)
LEMMA OnlyLocks ==
  /\ PlatformInit => Locks!Init
  /\ [PlatformNext]_platform => [Locks!Next]_(Locks!vars)
  BY DEF PlatformInit, PlatformNext, platform, vLocks, Locks!vars

LEMMA OnlyMigrator ==
  /\ PlatformInit => Migrator!Init
  /\ [PlatformNext]_platform => [Migrator!Next]_(Migrator!vars)
  BY DEF PlatformInit, PlatformNext, platform, vMigrator, Migrator!vars

LEMMA OnlyOpenings ==
  /\ PlatformInit => Openings!Init
  /\ [PlatformNext]_platform => [Openings!Next]_(Openings!vars)
  BY DEF PlatformInit, PlatformNext, platform, vOpenings, Openings!vars

LEMMA OnlyFiles ==
  /\ PlatformInit => Files!Init
  /\ [PlatformNext]_platform => [Files!Next]_(Files!vars)
  BY DEF PlatformInit, PlatformNext, platform, vFiles, Files!vars

LEMMA OnlySignIn ==
  /\ PlatformInit => SignIn!Init
  /\ [PlatformNext]_platform => [SignIn!Next]_(SignIn!vars)
  BY DEF PlatformInit, PlatformNext, platform, vSessions, SignIn!vars

LEMMA OnlyMembers ==
  /\ PlatformInit => Members!Init
  /\ [PlatformNext]_platform => [Members!Next]_(Members!vars)
  BY DEF PlatformInit, PlatformNext, platform, vMembers, Members!vars

LEMMA OnlyTaxes ==
  /\ PlatformInit => Taxes!Init
  /\ [PlatformNext]_platform => [Taxes!Next]_(Taxes!vars)
  BY DEF PlatformInit, PlatformNext, platform, vTaxes, Taxes!vars

LEMMA OnlyChart ==
  /\ PlatformInit => Chart!Init
  /\ [PlatformNext]_platform => [Chart!Next]_(Chart!vars)
  BY DEF PlatformInit, PlatformNext, platform, vAccounts, Chart!vars

LEMMA OnlyReturns ==
  /\ PlatformInit => Returns!Init
  /\ [PlatformNext]_platform => [Returns!Next]_(Returns!vars)
  BY DEF PlatformInit, PlatformNext, platform, vReturns, Returns!vars

LEMMA OnlyVendors ==
  /\ PlatformInit => Vendors!Init
  /\ [PlatformNext]_platform => [Vendors!Next]_details
  BY DEF PlatformInit, PlatformNext, platform

LEMMA OnlyCalendar ==
  /\ PlatformInit => Calendar!Init
  /\ [PlatformNext]_platform => [Calendar!Next]_(Calendar!vars)
  BY DEF PlatformInit, PlatformNext, platform, Calendar!vars

LEMMA OnlyEntity ==
  /\ PlatformInit => Entity!Init
  /\ [PlatformNext]_platform => [Entity!Next]_(Entity!vars)
  BY DEF PlatformInit, PlatformNext, platform, vEntity, Entity!vars

LEMMA OnlyRules ==
  /\ PlatformInit => Rules!Init
  /\ [PlatformNext]_platform => [Rules!Next]_(Rules!vars)
  BY DEF PlatformInit, PlatformNext, platform, vRules, Rules!vars

(***************************************************************************)
(* Locks (LockOrder).                                                      *)
(***************************************************************************)
(* The common order of locks: number sequences first that a handler takes   *)
(* before it has a row, then the rows that are drawn on, then those they    *)
(* settle, by id, then what a posting takes at its end.                     *)
Locked == [table : {"document", "RECEIPT", "PAYMENT", "CUSTOMER_REFUND", "VENDOR_CREDIT", "PAYMENT_RUN",
                    "journal", "audit", "INVOICE", "CREDIT_NOTE"}, id : Nat]
DrawnOn == {q.source : q \in {q \in LockRequests : q.handler \in Locks!Drawing \cup Locks!Crediting}}
Stage(l) ==
  CASE l.table \in {"RECEIPT", "PAYMENT"} -> 0
    [] l.table = "document" -> IF l.id \in DrawnOn THEN 1 ELSE 2
    [] l.table \in {"CUSTOMER_REFUND", "VENDOR_CREDIT", "PAYMENT_RUN"} -> 3
    [] l.table = "journal" -> 4
    [] l.table = "audit" -> 5
    [] l.table \in {"INVOICE", "CREDIT_NOTE"} -> 6
Precedes(k, l) == Stage(k) < Stage(l) \/ (Stage(k) = 2 /\ Stage(l) = 2 /\ k.id < l.id)
InOrder(p) == \A i, j \in 1..Len(p) : i < j => Precedes(p[i], p[j])

LocksInv ==
  /\ serving \in [Connections -> LockRequests \cup {Locks!Nothing}]
  /\ plan \in [Connections -> Seq(Locked)]
  /\ taken \in [Connections -> Nat]
  /\ \A s \in Connections :
       /\ taken[s] <= Len(plan[s])
       /\ serving[s] = Locks!Nothing => plan[s] = <<>>
       /\ Locks!OutOfOrder(serving[s]) \/ InOrder(plan[s])
  /\ \A s, t \in Connections : s # t => Locks!Held(s) \cap Locks!Held(t) = {}

LEMMA StageType == ASSUME NEW l \in Locked PROVE Stage(l) \in 0..6
  BY DEF Locked, Stage

(* The rows of a set of documents, in whatever order they come.             *)
LEMMA RowsOf ==
  ASSUME NEW listed \in Seq(Nat), NEW order \in Locks!AnyOrder(Locks!ToSet(listed))
  PROVE  /\ order \in Seq(Locked)
         /\ \A i \in 1..Len(order) : order[i].table = "document" /\ order[i].id \in Locks!ToSet(listed)
         /\ Len(listed) <= 1 => Len(order) <= 1
<1> DEFINE S == Locks!ToSet(listed)
           n == Cardinality(S)
<1>1. IsFiniteSet(1..Len(listed)) /\ Cardinality(1..Len(listed)) = Len(listed)
  <2> DEFINE m == Len(listed)
  <2>1. 1 \in Int /\ m \in Int /\ m >= 0
    OBVIOUS
  <2> HIDE DEF m
  <2>2. IsFiniteSet(1..m) /\ Cardinality(1..m) = IF 1 > m THEN 0 ELSE m - 1 + 1
    BY <2>1, FS_Interval, Zenon
  <2>3. IsFiniteSet(1..m) /\ Cardinality(1..m) = m
    BY <2>1, <2>2
  <2> QED
    BY <2>3 DEF m
<1>2. S \subseteq Nat /\ listed \in Surjection(1..Len(listed), S)
  BY DEF Locks!ToSet, Surjection
<1>4. IsFiniteSet(S) /\ n <= Len(listed)
  BY <1>1, <1>2, FS_Surjection
<1>5. n \in Nat
  BY <1>4, FS_CardinalityType
<1>6. PICK o \in [1..n -> S] : order = [i \in DOMAIN o |-> Locks!Row(o[i])]
  <2>1. PICK o \in Locks!SetToSeqs(S) : order = [i \in DOMAIN o |-> Locks!Row(o[i])]
    BY DEF Locks!AnyOrder
  <2>2. Locks!Cardinality(S) = Cardinality(S)
    BY DEF Locks!Cardinality, Cardinality
  <2>3. o \in [1..n -> S]
    BY <2>2 DEF Locks!SetToSeqs
  <2> QED
    BY <2>1, <2>3
<1> HIDE DEF S, n
<1>7. DOMAIN o = 1..n
  OBVIOUS
<1>8. \A i \in 1..n : order[i] \in Locked /\ order[i].table = "document" /\ order[i].id \in S
  BY <1>2, <1>6, <1>7 DEF Locks!Row, Locked
<1>9. DOMAIN order = 1..n
  BY <1>6, <1>7
<1>10. order = [i \in 1..n |-> order[i]]
  BY <1>6, <1>7
<1>11. order \in Seq(Locked) /\ Len(order) = n
  BY <1>5, <1>8, <1>10
<1> QED
  BY <1>4, <1>5, <1>8, <1>11 DEF S

(* A sequence of locks in the common order, its stages between two bounds.  *)
Ranked(p, a, b) ==
  /\ p \in Seq(Locked) /\ InOrder(p)
  /\ \A i \in 1..Len(p) : a <= Stage(p[i]) /\ Stage(p[i]) <= b

LEMMA Joined ==
  ASSUME NEW a \in 0..6, NEW b \in 0..6, NEW c \in 0..6, NEW d \in 0..6, a <= b, b < c, c <= d,
         NEW p, NEW q, Ranked(p, a, b), Ranked(q, c, d)
  PROVE  Ranked(p \o q, a, d)
<1> DEFINE m == Len(p)
           n == Len(q)
           pq == p \o q
<1>1. p \in Seq(Locked) /\ q \in Seq(Locked) /\ m \in Nat /\ n \in Nat
  BY DEF Ranked
<1>2. pq \in Seq(Locked) /\ Len(pq) = m + n
  BY <1>1
<1>3. \A i \in 1..(m + n) : pq[i] = IF i <= m THEN p[i] ELSE q[i - m]
  BY <1>1
<1>4. \A i \in 1..m : Stage(p[i]) \in 0..6 /\ a <= Stage(p[i]) /\ Stage(p[i]) <= b
  BY <1>1, StageType DEF Ranked
<1>5. \A i \in 1..n : Stage(q[i]) \in 0..6 /\ c <= Stage(q[i]) /\ Stage(q[i]) <= d
  BY <1>1, StageType DEF Ranked
<1> HIDE DEF m, n, pq
<1>6. \A i, j \in 1..m : i < j => Precedes(p[i], p[j])
  BY DEF Ranked, InOrder, m
<1>7. \A i, j \in 1..n : i < j => Precedes(q[i], q[j])
  BY DEF Ranked, InOrder, n
<1>8. \A i \in 1..m, j \in 1..n : Precedes(p[i], q[j])
  BY <1>4, <1>5 DEF Precedes
<1>9. \A i \in 1..(m + n) : a <= Stage(pq[i]) /\ Stage(pq[i]) <= d
  <2> SUFFICES ASSUME NEW i \in 1..(m + n) PROVE a <= Stage(pq[i]) /\ Stage(pq[i]) <= d
    OBVIOUS
  <2>1. CASE i <= m
    BY <1>1, <1>3, <1>4, <2>1
  <2>2. CASE ~(i <= m)
    <3>1. i - m \in 1..n
      BY <1>1, <2>2
    <3>2. c <= Stage(q[i - m]) /\ Stage(q[i - m]) <= d /\ Stage(q[i - m]) \in 0..6
      BY <1>5, <3>1
    <3> QED
      BY <1>3, <2>2, <3>2
  <2> QED
    BY <2>1, <2>2
<1>10. ASSUME NEW i \in 1..(m + n), NEW j \in 1..(m + n), i < j PROVE Precedes(pq[i], pq[j])
  <2>1. CASE j <= m
    BY <1>1, <1>3, <1>6, <1>10, <2>1
  <2>2. CASE i <= m /\ ~(j <= m)
    BY <1>1, <1>3, <1>8, <2>2
  <2>3. CASE ~(i <= m)
    <3>1. i - m \in 1..n /\ j - m \in 1..n /\ i - m < j - m /\ ~(j <= m)
      BY <1>1, <1>10, <2>3
    <3> QED
      BY <1>3, <1>7, <2>3, <3>1
  <2> QED
    BY <2>1, <2>2, <2>3
<1> QED
  BY <1>2, <1>9, <1>10 DEF Ranked, InOrder, pq

LEMMA Wider ==
  ASSUME NEW p, NEW a \in 0..6, NEW b \in 0..6, NEW c \in 0..6, NEW d \in 0..6,
         Ranked(p, b, c), a <= b, c <= d
  PROVE  Ranked(p, a, d)
  BY StageType DEF Ranked

LEMMA OneLock ==
  ASSUME NEW l \in Locked, NEW a \in 0..6, NEW b \in 0..6, a <= Stage(l), Stage(l) <= b
  PROVE  Ranked(<<l>>, a, b)
  BY DEF Ranked, InOrder

(* What handlers take beside the rows of a request's targets.               *)
LEMMA Steps ==
  ASSUME NEW r \in LockRequests
  PROVE  /\ Ranked(Locks!Number("RECEIPT"), 0, 0) /\ Ranked(Locks!Number("PAYMENT"), 0, 0)
         /\ Ranked(Locks!Source(r), 1, 2)
         /\ r.handler \in Locks!Drawing \cup Locks!Crediting => Ranked(Locks!Source(r), 1, 1)
         /\ \A type \in {"CUSTOMER_REFUND", "VENDOR_CREDIT", "PAYMENT_RUN"} : Ranked(Locks!Number(type), 3, 3)
         /\ Ranked(Locks!Posting, 4, 5) /\ Ranked(Locks!Audit, 5, 5)
         /\ Ranked(Locks!Number("INVOICE"), 6, 6) /\ Ranked(Locks!Number("CREDIT_NOTE"), 6, 6)
<1>1. ASSUME NEW l \in Locked PROVE Ranked(<<l>>, Stage(l), Stage(l))
  BY StageType, OneLock
<1>2. ASSUME NEW type \in {"RECEIPT", "PAYMENT", "CUSTOMER_REFUND", "VENDOR_CREDIT", "PAYMENT_RUN",
                         "journal", "audit", "INVOICE", "CREDIT_NOTE"}
      PROVE  [table |-> type, id |-> 0] \in Locked
  BY DEF Locked
<1>3. /\ Stage([table |-> "RECEIPT", id |-> 0]) = 0 /\ Stage([table |-> "PAYMENT", id |-> 0]) = 0
      /\ \A type \in {"CUSTOMER_REFUND", "VENDOR_CREDIT", "PAYMENT_RUN"} : Stage([table |-> type, id |-> 0]) = 3
      /\ Stage([table |-> "journal", id |-> 0]) = 4 /\ Stage([table |-> "audit", id |-> 0]) = 5
      /\ Stage([table |-> "INVOICE", id |-> 0]) = 6 /\ Stage([table |-> "CREDIT_NOTE", id |-> 0]) = 6
  BY DEF Stage
<1>4. Ranked(Locks!Number("RECEIPT"), 0, 0) /\ Ranked(Locks!Number("PAYMENT"), 0, 0)
  BY <1>1, <1>2, <1>3 DEF Locks!Number
<1>5. \A type \in {"CUSTOMER_REFUND", "VENDOR_CREDIT", "PAYMENT_RUN"} : Ranked(Locks!Number(type), 3, 3)
  BY <1>1, <1>2, <1>3 DEF Locks!Number
<1>6. Ranked(Locks!Number("INVOICE"), 6, 6) /\ Ranked(Locks!Number("CREDIT_NOTE"), 6, 6)
  BY <1>1, <1>2, <1>3 DEF Locks!Number
<1>7. Ranked(Locks!Number("journal"), 4, 4) /\ Ranked(Locks!Audit, 5, 5)
  BY <1>1, <1>2, <1>3 DEF Locks!Number, Locks!Audit
<1>8. Ranked(Locks!Posting, 4, 5)
  BY <1>7, Joined DEF Locks!Posting
<1>9. LET l == Locks!Row(r.source)
      IN  /\ l \in Locked /\ 1 <= Stage(l) /\ Stage(l) <= 2
          /\ r.handler \in Locks!Drawing \cup Locks!Crediting => Stage(l) = 1
  <2>1. r.source \in Nat
    BY LocksAssumption DEF Locks!RequestsAssumption
  <2>2. r.handler \in Locks!Drawing \cup Locks!Crediting => r.source \in DrawnOn
    BY DEF DrawnOn
  <2> QED
    BY <2>1, <2>2 DEF Locks!Row, Locked, Stage
<1>10. /\ Ranked(Locks!Source(r), 1, 2)
       /\ r.handler \in Locks!Drawing \cup Locks!Crediting => Ranked(Locks!Source(r), 1, 1)
  <2> DEFINE l == Locks!Row(r.source)
  <2>1. /\ l \in Locked /\ 1 <= Stage(l) /\ Stage(l) <= 2
        /\ r.handler \in Locks!Drawing \cup Locks!Crediting => Stage(l) = 1
    BY <1>9
  <2>2. Locks!Source(r) = <<l>>
    BY DEF Locks!Source
  <2> HIDE DEF l
  <2>3. Ranked(<<l>>, 1, 2)
    BY <2>1, OneLock
  <2>4. Stage(l) = 1 => Ranked(<<l>>, 1, 1)
    BY <1>1, <2>1
  <2> QED
    BY <2>1, <2>2, <2>3, <2>4
<1> QED
  BY <1>4, <1>5, <1>6, <1>7, <1>8, <1>10

(* The targets of a request that is not out of order: rows nobody draws on, *)
(* by id, or one row.                                                       *)
LEMMA TargetsRanked ==
  ASSUME NEW r \in LockRequests, r.handler \in Locks!Listing, ~Locks!SettlesCredit(r),
         NEW order \in Locks!AnyOrder(Locks!ToSet(r.targets[1])),
         order \in Locks!Ascending(r.targets[1]) \/ Len(r.targets[1]) <= 1
  PROVE  Ranked(order, 2, 2)
<1> DEFINE listed == r.targets[1]
<1>1. listed \in Seq(Nat)
  BY LocksAssumption DEF Locks!RequestsAssumption
<1>2. \A q \in LockRequests : q.source \in Locks!ToSet(listed) => q.handler \notin Locks!Drawing \cup Locks!Crediting
  BY LocksAssumption DEF Locks!RequestsAssumption, Locks!SettlesCredit
<1>3. Locks!ToSet(listed) \cap DrawnOn = {}
  BY <1>2 DEF DrawnOn
<1> HIDE DEF listed
<1>4. /\ order \in Seq(Locked)
      /\ \A i \in 1..Len(order) : order[i].table = "document" /\ order[i].id \in Locks!ToSet(listed)
      /\ Len(listed) <= 1 => Len(order) <= 1
  BY <1>1, RowsOf DEF listed
<1>5. \A i \in 1..Len(order) : Stage(order[i]) = 2
  BY <1>3, <1>4 DEF Stage
<1>6. ASSUME NEW i \in 1..Len(order), NEW j \in 1..Len(order), i < j PROVE order[i].id < order[j].id
  <2>1. Len(order) \in Nat /\ DOMAIN order = 1..Len(order)
    BY <1>4
  <2>2. CASE order \in Locks!Ascending(listed)
    BY <1>6, <2>1, <2>2 DEF Locks!Ascending
  <2>3. CASE Len(listed) <= 1
    BY <1>4, <1>6, <2>1, <2>3
  <2> QED
    BY <2>2, <2>3 DEF listed
<1> QED
  BY <1>4, <1>5, <1>6 DEF Ranked, InOrder, Precedes

(* Every plan is a sequence of locks, and in the common order unless the    *)
(* request is one of those that are not.                                    *)
LEMMA PlansInOrder ==
  ASSUME NEW r \in LockRequests, NEW p \in Locks!Plans(r)
  PROVE  p \in Seq(Locked) /\ (Locks!OutOfOrder(r) \/ InOrder(p))
<1> DEFINE Orders == Locks!AnyOrder(Locks!ToSet(r.targets[1]))
<1>2. /\ r.handler \in Locks!Listing \cup Locks!Others
      /\ r.handler \in Locks!Listing => r.targets[1] \in Seq(Nat)
  BY LocksAssumption DEF Locks!RequestsAssumption
<1>3. ASSUME r.handler \in Locks!Listing, NEW o \in Orders PROVE o \in Seq(Locked)
  BY <1>2, <1>3, RowsOf
<1>4. Locks!Ascending(r.targets[1]) \subseteq Orders
  BY DEF Locks!Ascending
<1>5. ASSUME r.handler \in Locks!Listing, NEW o \in Orders,
             o \in Locks!Ascending(r.targets[1]) \/ Len(r.targets[1]) <= 1, ~Locks!SettlesCredit(r)
      PROVE  Ranked(o, 2, 2)
  BY <1>5, TargetsRanked
<1> HIDE DEF Orders
<1>6. Ranked(Locks!Source(r) \o Locks!Posting, 1, 5) /\ Ranked(Locks!Source(r) \o Locks!Audit, 1, 5)
  BY Steps, Joined
<1>7. CASE r.handler \in Locks!Others
  <2>1. \/ p = Locks!Source(r) \o Locks!Posting \o Locks!Number("INVOICE")
        \/ p = Locks!Source(r) \o Locks!Posting \o Locks!Number("CREDIT_NOTE")
        \/ p = Locks!Source(r) \o Locks!Posting \/ p = Locks!Source(r) \o Locks!Audit
        \/ p = Locks!Source(r) \o Locks!Number("CUSTOMER_REFUND") \o Locks!Posting
        \/ p = Locks!Source(r) \o Locks!Number("VENDOR_CREDIT") \o Locks!Audit
    BY <1>7 DEF Locks!Others, Locks!Plans, Locks!PostInvoice, Locks!VoidOrCreditInvoice, Locks!PostCreditNote,
         Locks!CreateArWriteOff, Locks!CreateCustomerRefund, Locks!PostBill, Locks!ConfirmPayment,
         Locks!CreateVendorCredit, Locks!PostVendorCredit, Locks!PlaceHold, Locks!ExecutePaymentRun
  <2>2. \A n \in {"INVOICE", "CREDIT_NOTE"} : Ranked(Locks!Source(r) \o Locks!Posting \o Locks!Number(n), 1, 6)
    BY <1>6, Steps, Joined
  <2>3. \A n \in {"CUSTOMER_REFUND", "VENDOR_CREDIT"} : Ranked(Locks!Source(r) \o Locks!Number(n), 1, 3)
    BY Steps, Joined
  <2>4. /\ Ranked(Locks!Source(r) \o Locks!Number("CUSTOMER_REFUND") \o Locks!Posting, 1, 5)
        /\ Ranked(Locks!Source(r) \o Locks!Number("VENDOR_CREDIT") \o Locks!Audit, 1, 5)
    BY <2>3, Steps, Joined
  <2> QED
    BY <1>6, <2>1, <2>2, <2>4 DEF Ranked
<1>8. CASE r.handler \in Locks!Settling \cup Locks!Crediting
  <2> DEFINE First == IF r.handler = "createReceipt" THEN Locks!Number("RECEIPT")
                      ELSE IF r.handler = "createPayment" THEN Locks!Number("PAYMENT") ELSE Locks!Source(r)
             Last == IF r.handler \in Locks!Crediting THEN Locks!Audit ELSE Locks!Posting
  <2>1. PICK o \in Locks!Ascending(r.targets[1]) : p = First \o o \o Last
    BY <1>8 DEF Locks!Settling, Locks!Crediting, Locks!Plans, Locks!CreateReceipt, Locks!AllocateReceipt,
         Locks!ApplyCreditNote, Locks!CreatePayment, Locks!AllocatePayment, Locks!ApplyVendorCredit,
         Locks!Between, Locks!Targets
  <2>2. Ranked(First, 0, 1)
    <3>1. \/ First = Locks!Number("RECEIPT") \/ First = Locks!Number("PAYMENT")
          \/ First = Locks!Source(r) /\ r.handler \in Locks!Drawing \cup Locks!Crediting
      BY <1>8 DEF Locks!Settling, Locks!Crediting, Locks!Drawing
    <3> HIDE DEF First
    <3>2. Ranked(First, 0, 0) \/ Ranked(First, 1, 1)
      BY <3>1, Steps
    <3> QED
      BY <3>2, Wider
  <2>3. Ranked(Last, 4, 5)
    BY Steps, Wider
  <2> HIDE DEF First, Last
  <2>4. r.handler \in Locks!Listing /\ o \in Orders
    BY <1>4, <1>8 DEF Locks!Listing
  <2>5. p \in Seq(Locked)
    BY <1>3, <2>1, <2>2, <2>3, <2>4 DEF Ranked
  <2>6. ASSUME ~Locks!SettlesCredit(r) PROVE InOrder(p)
    <3>1. Ranked(o, 2, 2)
      BY <1>5, <2>4, <2>6
    <3>2. Ranked(First \o o, 0, 2)
      BY <2>2, <3>1, Joined
    <3>3. Ranked(First \o o \o Last, 0, 5)
      BY <2>3, <3>2, Joined
    <3> QED
      BY <2>1, <3>3 DEF Ranked
  <2> QED
    BY <2>5, <2>6 DEF Locks!OutOfOrder
<1>9. CASE r.handler = "failPayment"
  <2>1. PICK o \in Orders : p = Locks!Source(r) \o o \o <<>>
    BY <1>9 DEF Locks!Plans, Locks!FailPayment, Locks!Between, Orders
  <2>2. r.handler \in Locks!Listing /\ r.handler \in Locks!Drawing /\ ~Locks!SettlesCredit(r)
    BY <1>9 DEF Locks!Listing, Locks!Drawing, Locks!SettlesCredit, Locks!Settling
  <2>3. Ranked(Locks!Source(r), 1, 1)
    BY <2>2, Steps
  <2>4. Locks!Source(r) \in Seq(Locked) /\ o \in Seq(Locked)
    BY <1>3, <2>2, <2>3 DEF Ranked
  <2>5. p = Locks!Source(r) \o o /\ p \in Seq(Locked)
    BY <2>1, <2>4
  <2>6. ASSUME ~Locks!ReopensSeveral(r) PROVE InOrder(p)
    <3>1. Len(r.targets[1]) <= 1
      BY <1>2, <1>9, <2>2, <2>6 DEF Locks!ReopensSeveral
    <3>2. Ranked(o, 2, 2)
      BY <1>5, <2>2, <3>1
    <3>3. Ranked(Locks!Source(r) \o o, 1, 2)
      BY <2>3, <3>2, Joined
    <3> QED
      BY <2>5, <3>3 DEF Ranked
  <2> QED
    BY <2>5, <2>6 DEF Locks!OutOfOrder
<1>10. CASE r.handler = "createPaymentRun"
  <2>1. CASE r.targets[1] = <<>>
    <3>1. p = Locks!Number("PAYMENT_RUN") \o Locks!Audit
      BY <1>10, <2>1 DEF Locks!Plans, Locks!CreatePaymentRun
    <3>2. Ranked(Locks!Number("PAYMENT_RUN") \o Locks!Audit, 3, 5)
      BY Steps, Joined
    <3> QED
      BY <3>1, <3>2 DEF Ranked
  <2>2. CASE r.targets[1] # <<>>
    <3>1. PICK o \in Locks!Ascending(r.targets[1]) :
            p = <<>> \o o \o (Locks!Number("PAYMENT_RUN") \o Locks!Number("PAYMENT"))
      BY <1>10, <2>2 DEF Locks!Plans, Locks!CreatePaymentRun, Locks!Between, Locks!Targets
    <3>2. o \in Seq(Locked)
      BY <1>3, <1>4, <1>10 DEF Locks!Listing
    <3>3. Locks!Number("PAYMENT_RUN") \in Seq(Locked) /\ Locks!Number("PAYMENT") \in Seq(Locked)
      BY Steps DEF Ranked
    <3>4. <<>> \in Seq(Locked)
      OBVIOUS
    <3>5. p \in Seq(Locked)
      BY <3>1, <3>2, <3>3, <3>4
    <3> QED
      BY <1>10, <2>2, <3>5 DEF Locks!OutOfOrder, Locks!BuildsRun
  <2> QED
    BY <2>1, <2>2
<1> QED
  BY <1>2, <1>7, <1>8, <1>9, <1>10 DEF Locks!Listing

(* No finite set of transactions can each want a lock that precedes one     *)
(* that another of them wants.                                              *)
LEMMA OneWantsLast ==
  ASSUME NEW D, IsFiniteSet(D), D # {}, NEW W \in [D -> Locked]
  PROVE  \E s \in D : \A t \in D : ~Precedes(W[s], W[t])
<1> SUFFICES ASSUME \A s \in D : \E t \in D : Precedes(W[s], W[t]) PROVE FALSE
  OBVIOUS
<1> DEFINE g == [s \in D |-> Stage(W[s])]
           E == {s \in D : g[s] = 2}
           f == [s \in E |-> W[s].id]
           S == {f[s] : s \in E}
<1>1. /\ g \in [D -> 0..6]
      /\ \A s \in D : \E t \in D : g[s] < g[t] \/ (g[s] = 2 /\ g[t] = 2 /\ W[s].id < W[t].id)
  BY StageType DEF Precedes
<1>2. S \in SUBSET Nat
  BY DEF Locked
<1>3. IsFiniteSet(S)
  <2>1. IsFiniteSet(E)
    BY FS_Subset
  <2>2. f \in Surjection(E, S)
    BY DEF Surjection
  <2> HIDE DEF E, f, S
  <2> QED
    BY <2>1, <2>2, FS_Surjection
<1>9. /\ \A s \in D : g[s] \in 0..6
      /\ \A s \in D : \E t \in D : g[s] < g[t] \/ (g[s] = 2 /\ g[t] = 2)
  BY <1>1
<1>4. \A s \in D : g[s] \notin {3, 4, 5, 6}
  <2> HIDE DEF g, E, f, S
  <2>1. ASSUME NEW n \in {3, 4, 5, 6}, \A s \in D : g[s] <= n PROVE \A s \in D : g[s] <= n - 1
    <3> SUFFICES ASSUME NEW s \in D, ~(g[s] <= n - 1) PROVE FALSE
      OBVIOUS
    <3>1. PICK t \in D : g[s] < g[t] \/ (g[s] = 2 /\ g[t] = 2)
      BY <1>9
    <3>2. g[s] \in 0..6 /\ g[t] \in 0..6 /\ g[s] <= n /\ g[t] <= n /\ n \in 3..6
      BY <1>9, <2>1
    <3> QED
      BY ONLY <3>1, <3>2, ~(g[s] <= n - 1)
  <2>2. \A s \in D : g[s] <= 6
    BY ONLY <1>9
  <2>3. \A s \in D : g[s] <= 5
    BY ONLY <2>1, <2>2
  <2>4. \A s \in D : g[s] <= 4
    BY ONLY <2>1, <2>3
  <2>5. \A s \in D : g[s] <= 3
    BY ONLY <2>1, <2>4
  <2>6. \A s \in D : g[s] <= 2
    BY ONLY <2>1, <2>5
  <2> QED
    BY ONLY <1>9, <2>6
<1>5. E = {}
  <2> SUFFICES ASSUME E # {} PROVE FALSE
    OBVIOUS
  <2>1. S # {}
    OBVIOUS
  <2>2. \E x \in S : \A y \in S : y <= x
    <3> HIDE DEF S
    <3> QED
      BY <1>2, <1>3, <2>1, GreatestExists
  <2>3. PICK s \in E : \A y \in S : y <= f[s]
    BY <2>2
  <2>4. PICK t \in D : g[s] < g[t] \/ (g[s] = 2 /\ g[t] = 2 /\ W[s].id < W[t].id)
    BY <1>1
  <2>5. g[s] = 2 /\ ~(2 < g[t])
    <3>1. s \in D /\ g[s] = 2
      OBVIOUS
    <3> HIDE DEF g, E, f, S
    <3>2. g[t] \in 0..6 /\ g[t] \notin {3, 4, 5, 6}
      BY <1>4, <1>9
    <3> QED
      BY ONLY <3>1, <3>2
  <2>6. t \in E /\ W[s].id < W[t].id
    BY <2>4, <2>5
  <2>7. f[s] \in Nat /\ f[t] \in Nat /\ f[s] < f[t] /\ f[t] <= f[s]
    BY <1>2, <2>3, <2>6
  <2> QED
    BY <2>7
<1> HIDE DEF g, E
<1>6. \A s \in D : g[s] # 2
  BY <1>5 DEF E
<1>7. \A s \in D : g[s] # 1
  BY <1>4, <1>6, <1>9, SMTT(60)
<1>8. \A s \in D : g[s] # 0
  BY <1>4, <1>6, <1>7, <1>9
<1> QED
  BY <1>4, <1>6, <1>7, <1>8, <1>9
-----------------------------------------------------------------------------
LEMMA LocksInit == Locks!Init => LocksInv
  BY DEF Locks!Init, LocksInv, Locks!Held, InOrder

LEMMA LocksStep == LocksInv /\ [Locks!Next]_(Locks!vars) => LocksInv'
<1> SUFFICES ASSUME LocksInv, [Locks!Next]_(Locks!vars) PROVE LocksInv'
  OBVIOUS
<1> USE DEF LocksInv
<1>1. ASSUME NEW s \in Connections, Locks!Begin(s) PROVE LocksInv'
  <2>1. PICK r \in LockRequests : \E p \in Locks!Plans(r) :
          /\ serving' = [serving EXCEPT ![s] = r] /\ plan' = [plan EXCEPT ![s] = p] /\ taken' = taken
          /\ serving[s] = Locks!Nothing
    BY <1>1 DEF Locks!Begin
  <2>2. PICK p \in Locks!Plans(r) :
          /\ serving' = [serving EXCEPT ![s] = r] /\ plan' = [plan EXCEPT ![s] = p] /\ taken' = taken
          /\ serving[s] = Locks!Nothing
    BY <2>1
  <2>3. p \in Seq(Locked) /\ (Locks!OutOfOrder(r) \/ InOrder(p))
    BY PlansInOrder
  <2>4. taken[s] = 0
    BY <2>2
  <2>5. serving' \in [Connections -> LockRequests \cup {Locks!Nothing}] /\ plan' \in [Connections -> Seq(Locked)]
    BY <2>2, <2>3
  <2>6. taken' \in [Connections -> Nat]
    BY <2>2
  <2>7. r # Locks!Nothing
    <3>1. r.handler \in Locks!Listing \cup Locks!Others
      BY LocksAssumption DEF Locks!RequestsAssumption
    <3> QED
      BY <3>1 DEF Locks!Nothing, Locks!Listing, Locks!Others, Locks!Settling, Locks!Crediting
  <2>8. ASSUME NEW u \in Connections
        PROVE  /\ taken'[u] <= Len(plan'[u])
               /\ serving'[u] = Locks!Nothing => plan'[u] = <<>>
               /\ Locks!OutOfOrder(serving'[u]) \/ InOrder(plan'[u])
    <3>1. CASE u = s
      BY <2>2, <2>3, <2>4, <2>7, <3>1
    <3>2. CASE u # s
      BY <2>2, <3>2
    <3> QED
      BY <3>1, <3>2
  <2>9. \A u \in Connections : Locks!Held(u)' = Locks!Held(u)
    BY <2>2, <2>4 DEF Locks!Held
  <2> QED
    BY <2>5, <2>6, <2>8, <2>9 DEF Locks!OutOfOrder, Locks!BuildsRun, Locks!ReopensSeveral, Locks!SettlesCredit
<1>2. ASSUME NEW s \in Connections, Locks!Take(s) PROVE LocksInv'
  <2>1. /\ taken[s] < Len(plan[s]) /\ \A t \in Connections : ~Locks!WaitsFor(s, t)
        /\ taken' = [taken EXCEPT ![s] = taken[s] + 1] /\ serving' = serving /\ plan' = plan
    BY <1>2 DEF Locks!Take, Locks!Wants
  <2>2. \A t \in Connections : t # s => Locks!Wanted(s) \notin Locks!Held(t)
    BY <1>2, <2>1 DEF Locks!WaitsFor, Locks!Take
  <2>3. taken' \in [Connections -> Nat] /\ \A u \in Connections : taken'[u] <= Len(plan[u])
    BY <2>1
  <2>4. \A u \in Connections : u # s => Locks!Held(u)' = Locks!Held(u)
    BY <2>1 DEF Locks!Held
  <2>5. Locks!Held(s)' = Locks!Held(s) \cup {Locks!Wanted(s)}
    <3>1. taken[s] \in Nat /\ taken'[s] = taken[s] + 1
      BY <2>1
    <3>2. 1..(taken[s] + 1) = (1..taken[s]) \cup {taken[s] + 1}
      BY <3>1
    <3> QED
      BY <2>1, <3>1, <3>2 DEF Locks!Held, Locks!Wanted
  <2>6. ASSUME NEW u \in Connections, NEW t \in Connections, u # t
        PROVE  Locks!Held(u)' \cap Locks!Held(t)' = {}
    <3>1. CASE u = s
      BY <2>2, <2>4, <2>5, <2>6, <3>1
    <3>2. CASE t = s
      BY <2>2, <2>4, <2>5, <2>6, <3>2
    <3>3. CASE u # s /\ t # s
      BY <2>4, <2>6, <3>3
    <3> QED
      BY <3>1, <3>2, <3>3
  <2> QED
    BY <2>1, <2>3, <2>6 DEF Locks!OutOfOrder, Locks!BuildsRun, Locks!ReopensSeveral, Locks!SettlesCredit
<1>3. ASSUME NEW s \in Connections, Locks!End(s) PROVE LocksInv'
  <2>1. /\ serving' = [serving EXCEPT ![s] = Locks!Nothing] /\ plan' = [plan EXCEPT ![s] = <<>>]
        /\ taken' = [taken EXCEPT ![s] = 0]
    BY <1>3 DEF Locks!End
  <2>2. /\ serving' \in [Connections -> LockRequests \cup {Locks!Nothing}]
        /\ plan' \in [Connections -> Seq(Locked)] /\ taken' \in [Connections -> Nat]
    BY <2>1
  <2>3. InOrder(<<>>)
    BY DEF InOrder
  <2>4. ASSUME NEW u \in Connections
        PROVE  /\ taken'[u] <= Len(plan'[u])
               /\ serving'[u] = Locks!Nothing => plan'[u] = <<>>
               /\ Locks!OutOfOrder(serving'[u]) \/ InOrder(plan'[u])
    <3>1. CASE u = s
      BY <2>1, <2>3, <3>1
    <3>2. CASE u # s
      BY <2>1, <3>2
    <3> QED
      BY <3>1, <3>2
  <2>5. \A u \in Connections : Locks!Held(u)' \subseteq Locks!Held(u)
    <3> SUFFICES ASSUME NEW u \in Connections PROVE Locks!Held(u)' \subseteq Locks!Held(u)
      OBVIOUS
    <3>1. CASE u = s
      BY <2>1, <3>1 DEF Locks!Held
    <3>2. CASE u # s
      BY <2>1, <3>2 DEF Locks!Held
    <3> QED
      BY <3>1, <3>2
  <2>6. \A u, t \in Connections : u # t => Locks!Held(u)' \cap Locks!Held(t)' = {}
    BY <2>5
  <2> QED
    BY <2>2, <2>4, <2>6 DEF Locks!OutOfOrder, Locks!BuildsRun, Locks!ReopensSeveral, Locks!SettlesCredit
<1>4. CASE UNCHANGED Locks!vars
  <2>1. serving' = serving /\ plan' = plan /\ taken' = taken
    BY <1>4 DEF Locks!vars
  <2>2. \A u \in Connections : Locks!Held(u)' = Locks!Held(u)
    BY <2>1 DEF Locks!Held
  <2> QED
    BY <2>1, <2>2
<1> QED
  BY <1>1, <1>2, <1>3, <1>4 DEF Locks!Next

LEMMA LocksImply == LocksInv => Locks!NoWaitCycle
<1> SUFFICES ASSUME LocksInv, NEW D \in SUBSET Connections, D # {},
                    \A s \in D : \E t \in D : Locks!WaitsFor(s, t),
                    \A s \in D : ~Locks!OutOfOrder(serving[s])
             PROVE  FALSE
  BY DEF Locks!NoWaitCycle
<1> DEFINE W == [s \in D |-> Locks!Wanted(s)]
<1>1. \A s \in D : taken[s] \in Nat /\ taken[s] < Len(plan[s]) /\ plan[s] \in Seq(Locked) /\ InOrder(plan[s])
  BY DEF LocksInv, Locks!WaitsFor, Locks!Wants
<1>2. W \in [D -> Locked]
  BY <1>1 DEF Locks!Wanted
<1>3. ASSUME NEW s \in D PROVE \E t \in D : Precedes(W[s], W[t])
  <2>1. PICK t \in D : Locks!WaitsFor(s, t)
    OBVIOUS
  <2>2. PICK i \in 1..taken[t] : Locks!Wanted(s) = plan[t][i]
    BY <2>1 DEF Locks!WaitsFor, Locks!Held
  <2>3. Precedes(plan[t][i], plan[t][taken[t] + 1])
    <3>1. i \in 1..Len(plan[t]) /\ taken[t] + 1 \in 1..Len(plan[t]) /\ i < taken[t] + 1
      BY <1>1
    <3> QED
      BY <1>1, <3>1 DEF InOrder
  <2> QED
    BY <2>2, <2>3 DEF Locks!Wanted
<1>4. IsFiniteSet(D)
  BY LocksAssumption, FS_Subset
<1> HIDE DEF W
<1> QED
  BY <1>2, <1>3, <1>4, OneWantsLast

(* Whatever handlers run at the same time on whatever documents, those that *)
(* keep the common order never wait in a circle.                            *)
THEOREM NoDeadlock == PlatformSpec => []NoWaitCycle
<1>1. PlatformInit => LocksInv
  BY OnlyLocks, LocksInit
<1>2. LocksInv /\ [PlatformNext]_platform => LocksInv'
  BY OnlyLocks, LocksStep
<1>3. LocksInv => NoWaitCycle
  BY LocksImply DEF NoWaitCycle
<1> QED
  BY <1>1, <1>2, <1>3, PTL DEF PlatformSpec

(***************************************************************************)
(* Migrations (Migrator).                                                  *)
(***************************************************************************)
Runs == [step : {Migrator!None, "ready"}, files : Checkouts \cup {<<>>}, pending : SUBSET (1..Migrations)]

(* What a checkout has is recorded, or its runner is still to apply it.     *)
MigratorInv ==
  /\ recorded \in [1..Migrations -> Nat]
  /\ executed \in Seq(1..Migrations) /\ Migrator!RunsOnceInOrder
  /\ runner \in [Runners -> Runs]
  /\ \A r \in Runners : runner[r].pending # {} =>
       /\ runner[r].files \in Checkouts
       /\ \A v \in 1..Migrations :
            IF v \in runner[r].pending THEN runner[r].files[v] # 0
            ELSE runner[r].files[v] = 0 \/ recorded[v] # 0

(* For any number of migrations, runners, checkouts and editions of the     *)
(* files: each migration runs once, and after those before it that were     *)
(* not missing where it was there.                                          *)
THEOREM MigratesOnceInOrder == PlatformSpec => []RunsOnceInOrder
<1>0. Migrations \in Nat /\ Checkouts \subseteq [1..Migrations -> Nat]
  BY MigrationsAssumption DEF Migrator!CheckoutsAssumption
<1>1. Migrator!Init => MigratorInv
  BY <1>0 DEF Migrator!Init, MigratorInv, Migrator!Idle, Runs, Migrator!RunsOnceInOrder, Migrator!None
<1>2. MigratorInv /\ [Migrator!Next]_(Migrator!vars) => MigratorInv'
  <2> SUFFICES ASSUME MigratorInv, [Migrator!Next]_(Migrator!vars) PROVE MigratorInv'
    OBVIOUS
  <2>1. ASSUME NEW r \in Runners, NEW files \in Checkouts, Migrator!Migrate(r, files) PROVE MigratorInv'
    <3>1. /\ runner' = [runner EXCEPT ![r] = [step |-> "ready", files |-> files,
                                              pending |-> Migrator!PendingOf(files)]]
          /\ UNCHANGED <<recorded, executed>> /\ files \in [1..Migrations -> Nat]
      BY <1>0, <2>1 DEF Migrator!Migrate
    <3>2. Migrator!RunsOnceInOrder'
      BY <3>1 DEF MigratorInv, Migrator!RunsOnceInOrder, Migrator!RanBefore, Migrator!Missing
    <3> QED
      BY <3>1, <3>2 DEF Migrator!PendingOf, MigratorInv, Runs
  <2>2. ASSUME NEW r \in Runners, Migrator!Apply(r) PROVE MigratorInv'
    <3>1. PICK v \in Migrator!Lowest(r) :
            /\ recorded[v] = 0
            /\ recorded' = [recorded EXCEPT ![v] = runner[r].files[v]]
            /\ executed' = Append(executed, v)
            /\ runner' = [runner EXCEPT ![r].pending = @ \ {v}]
      BY <2>2 DEF Migrator!Apply
    <3>2. /\ v \in runner[r].pending /\ v \in 1..Migrations /\ runner[r].files \in Checkouts
          /\ \A w \in runner[r].pending : v <= w
      BY DEF MigratorInv, Runs, Migrator!Lowest
    <3>3. runner[r].files[v] \in Nat \ {0}
      BY <1>0, <3>2 DEF MigratorInv
    <3>4. /\ executed \in Seq(1..Migrations) /\ Len(executed) \in Nat
          /\ executed' \in Seq(1..Migrations) /\ Len(executed') = Len(executed) + 1
          /\ executed'[Len(executed) + 1] = v
          /\ \A i \in 1..Len(executed) : executed'[i] = executed[i]
      BY <3>1, <3>2 DEF MigratorInv
    <3>5. \A i \in 1..Len(executed) : executed[i] # v
      BY <3>1, <3>2 DEF MigratorInv, Migrator!RunsOnceInOrder
    <3>6. Migrator!RunsOnceInOrder'
      <4>1. \A i, j \in 1..Len(executed') : executed'[i] = executed'[j] => i = j
        BY <3>4, <3>5 DEF MigratorInv, Migrator!RunsOnceInOrder
      <4>2. ASSUME NEW w \in 1..Migrations
            PROVE  recorded'[w] # 0 <=> \E i \in 1..Len(executed') : executed'[i] = w
        <5>1. CASE w = v
          BY <3>1, <3>2, <3>3, <3>4, <5>1 DEF MigratorInv
        <5>2. CASE w # v
          <6>1. recorded'[w] = recorded[w]
            BY <3>1, <3>2, <5>2 DEF MigratorInv
          <6>2. (\E i \in 1..Len(executed') : executed'[i] = w) <=> (\E i \in 1..Len(executed) : executed[i] = w)
            BY <3>4, <5>2
          <6> QED
            BY <6>1, <6>2 DEF MigratorInv, Migrator!RunsOnceInOrder
        <5> QED
          BY <5>1, <5>2
      <4>3. ASSUME NEW i \in 1..Len(executed), NEW w \in 1..(executed[i] - 1)
            PROVE  Migrator!RanBefore(w, i)' \/ Migrator!Missing(w, executed'[i])
        <5>1. Migrator!RanBefore(w, i) => Migrator!RanBefore(w, i)'
          BY <3>4 DEF Migrator!RanBefore
        <5>2. executed'[i] = executed[i]
          BY <3>4
        <5> QED
          BY <5>1, <5>2 DEF MigratorInv, Migrator!RunsOnceInOrder
      <4>4. ASSUME NEW w \in 1..(v - 1)
            PROVE  (\E j \in 1..Len(executed) : executed'[j] = w) \/ Migrator!Missing(w, v)
        <5>1. w \in 1..Migrations /\ w \notin runner[r].pending
          BY <1>0, <3>2
        <5>2. CASE runner[r].files[w] = 0
          BY <3>2, <3>3, <5>2 DEF Migrator!Missing
        <5>3. CASE recorded[w] # 0
          <6>1. PICK j \in 1..Len(executed) : executed[j] = w
            BY <5>1, <5>3 DEF MigratorInv, Migrator!RunsOnceInOrder
          <6> QED
            BY <3>4, <6>1
        <5>4. runner[r].files[w] = 0 \/ recorded[w] # 0
          BY <3>2, <5>1 DEF MigratorInv
        <5> QED
          BY <5>2, <5>3, <5>4
      <4>5. ASSUME NEW i \in 1..Len(executed'), NEW w \in 1..(executed'[i] - 1)
            PROVE  Migrator!RanBefore(w, i)' \/ Migrator!Missing(w, executed'[i])
        <5>1. CASE i \in 1..Len(executed)
          BY <3>4, <4>3, <5>1
        <5>2. CASE i = Len(executed) + 1
          <6>1. executed'[i] = v /\ i - 1 = Len(executed)
            BY <3>4, <5>2
          <6>2. (\E j \in 1..(i - 1) : executed'[j] = w) \/ Migrator!Missing(w, executed'[i])
            BY <4>4, <6>1
          <6> QED
            BY <6>2 DEF Migrator!RanBefore
        <5> QED
          BY <3>4, <5>1, <5>2
      <4>6. \A i \in 1..Len(executed') : \A w \in 1..(executed'[i] - 1) :
              Migrator!RanBefore(w, i)' \/ Migrator!Missing(w, executed'[i])
        BY <4>5
      <4>7. \A i \in 1..Len(executed') : \A w : Migrator!Missing(w, executed'[i]) = Migrator!Missing(w, executed[i])'
        BY DEF Migrator!Missing
      <4> QED
        BY <4>1, <4>2, <4>6, <4>7 DEF Migrator!RunsOnceInOrder
    <3>7. recorded' \in [1..Migrations -> Nat] /\ runner' \in [Runners -> Runs]
      BY <3>1, <3>3, ZenonT(60) DEF MigratorInv, Runs
    <3>8. ASSUME NEW q \in Runners, runner'[q].pending # {}
          PROVE  /\ runner'[q].files \in Checkouts
                 /\ \A u \in 1..Migrations :
                      IF u \in runner'[q].pending THEN runner'[q].files[u] # 0
                      ELSE runner'[q].files[u] = 0 \/ recorded'[u] # 0
      <4>1. /\ runner'[q].files = runner[q].files
            /\ runner'[q].pending = IF q = r THEN runner[q].pending \ {v} ELSE runner[q].pending
        BY <3>1 DEF MigratorInv, Runs
      <4>2. \A u \in 1..Migrations : recorded'[u] = IF u = v THEN runner[r].files[v] ELSE recorded[u]
        BY <3>1, <3>2 DEF MigratorInv
      <4> QED
        BY <3>2, <3>3, <3>8, <4>1, <4>2 DEF MigratorInv
    <3> QED
      BY <3>4, <3>6, <3>7, <3>8 DEF MigratorInv
  <2>3. ASSUME NEW r \in Runners, Migrator!Stop(r) PROVE MigratorInv'
    <3>1. runner' = [runner EXCEPT ![r] = Migrator!Idle] /\ UNCHANGED <<recorded, executed>>
      BY <2>3 DEF Migrator!Stop
    <3>2. Migrator!RunsOnceInOrder'
      BY <3>1 DEF MigratorInv, Migrator!RunsOnceInOrder, Migrator!RanBefore, Migrator!Missing
    <3> QED
      BY <3>1, <3>2 DEF MigratorInv, Runs, Migrator!Idle, Migrator!None
  <2>4. CASE UNCHANGED Migrator!vars
    <3>1. UNCHANGED <<recorded, executed, runner>>
      BY <2>4 DEF Migrator!vars
    <3>2. Migrator!RunsOnceInOrder'
      BY <3>1 DEF MigratorInv, Migrator!RunsOnceInOrder, Migrator!RanBefore, Migrator!Missing
    <3> QED
      BY <3>1, <3>2 DEF MigratorInv
  <2> QED
    BY <2>1, <2>2, <2>3, <2>4 DEF Migrator!Next
<1>3. MigratorInv => RunsOnceInOrder
  BY DEF MigratorInv, RunsOnceInOrder
<1>4. PlatformInit => MigratorInv
  BY <1>1, OnlyMigrator
<1>5. MigratorInv /\ [PlatformNext]_platform => MigratorInv'
  BY <1>2, OnlyMigrator
<1> QED
  BY <1>3, <1>4, <1>5, PTL DEF PlatformSpec

(***************************************************************************)
(* Codes and invitations (Sessions, Memberships).                          *)
(***************************************************************************)
SessionRow == [state : {SignIn!None, "live", "revoked"}, mfa : BOOLEAN, rotation : Int]
FactorRow == [state : {SignIn!None, "unconfirmed", "confirmed", "deleted"}, last : Int]
Verification ==
  [step : {SignIn!None, "session", "code"}, session : SignIn!Ids \cup {0},
   code : Factors \cup RecoveryCodes \cup {SignIn!None}, at : Int]
Opening == [session : SignIn!Ids, from : SignIn!Ids, code : Factors \cup RecoveryCodes, at : Int]

SignInTypes ==
  /\ session \in [SignIn!Ids -> SessionRow]
  /\ factor \in [Factors -> FactorRow]
  /\ recovery \in [RecoveryCodes -> {SignIn!None, "unused", "used", "deleted"}]
  /\ request \in [SignInRequests -> Verification]
  /\ opened \subseteq Opening

(* The session a verification is for is live and held by it alone; a code   *)
(* it has taken is unspent until it commits, and no other verification has  *)
(* it, nor a code of any factor beside one of a factor.                     *)
SessionsHeld ==
  \A r \in SignInRequests : request[r].step # SignIn!None =>
    /\ request[r].session \in SignIn!Ids /\ session[request[r].session].state = "live"
    /\ \A q \in SignInRequests :
         q # r /\ request[q].step # SignIn!None => request[q].session # request[r].session
Unspent(code, when) ==
  \/ code \in Factors /\ factor[code].state \in {"unconfirmed", "confirmed"} /\ factor[code].last < when
  \/ code \in RecoveryCodes /\ recovery[code] = "unused" /\ when = 0
CodesHeld ==
  \A r \in SignInRequests :
    /\ request[r].step = "session" => request[r].at = 0
    /\ request[r].step = "code" =>
         /\ Unspent(request[r].code, request[r].at)
         /\ \A q \in SignInRequests : q # r /\ request[q].step = "code" =>
              /\ request[q].code # request[r].code
              /\ request[q].code \notin Factors \/ request[r].code \notin Factors

(* A code that opened a session is spent, the session it began in revoked.  *)
Spent(code, when) ==
  \/ code \in Factors /\ factor[code].state = "confirmed" /\ when <= factor[code].last
  \/ code \in RecoveryCodes /\ recovery[code] = "used" /\ when = 0
OpenedBySpent == \A x \in opened : Spent(x.code, x.at) /\ session[x.from].state = "revoked"
OpenedOnce == \A x, y \in opened : (x.code = y.code /\ x.at = y.at) \/ x.from = y.from => x = y

SignInInv == SignInTypes /\ SessionsHeld /\ CodesHeld /\ OpenedBySpent /\ OpenedOnce

LEMMA SignInInit == SignIn!Init => SignInInv
  BY DEF SignIn!Init, SignInInv, SignInTypes, SessionsHeld, CodesHeld, OpenedBySpent, OpenedOnce,
     SessionRow, FactorRow, Verification, SignIn!NoSession, SignIn!NoFactor, SignIn!Idle, SignIn!None

LEMMA GoneIsEnded == SignIn!Gone \in SessionRow /\ SignIn!Gone.state = "revoked"
<1>1. SignIn!NoSession \in SessionRow
  BY DEF SignIn!NoSession, SessionRow
<1>2. \A s \in SessionRow :
        [s EXCEPT !.state = "revoked"] \in SessionRow /\ [s EXCEPT !.state = "revoked"].state = "revoked"
  BY DEF SessionRow
<1> QED
  BY <1>1, <1>2 DEF SignIn!Gone

(* What a verification becomes when it has taken a code.                    *)
LEMMA TakesCode ==
  ASSUME NEW v \in Verification, NEW code, NEW when
  PROVE  /\ [[[v EXCEPT !.step = "code"] EXCEPT !.code = code] EXCEPT !.at = when]
              = [step |-> "code", session |-> v.session, code |-> code, at |-> when]
         /\ [[v EXCEPT !.step = "code"] EXCEPT !.code = code]
              = [step |-> "code", session |-> v.session, code |-> code, at |-> v.at]
<1>1. [v EXCEPT !.step = "code"] = [step |-> "code", session |-> v.session, code |-> v.code, at |-> v.at]
  BY DEF Verification
<1>2. [[step |-> "code", session |-> v.session, code |-> v.code, at |-> v.at] EXCEPT !.code = code]
        = [step |-> "code", session |-> v.session, code |-> code, at |-> v.at]
  OBVIOUS
<1>3. [[step |-> "code", session |-> v.session, code |-> code, at |-> v.at] EXCEPT !.at = when]
        = [step |-> "code", session |-> v.session, code |-> code, at |-> when]
  OBVIOUS
<1>4. [[v EXCEPT !.step = "code"] EXCEPT !.code = code]
        = [step |-> "code", session |-> v.session, code |-> code, at |-> v.at]
  BY ONLY <1>1, <1>2, Zenon
<1>5. [[[v EXCEPT !.step = "code"] EXCEPT !.code = code] EXCEPT !.at = when]
        = [step |-> "code", session |-> v.session, code |-> code, at |-> when]
  BY ONLY <1>3, <1>4, Zenon
<1> QED
  BY ONLY <1>4, <1>5, Zenon

(* Sessions may be opened, refreshed and ended, as long as none that a      *)
(* verification is for is touched and none that was ended comes back.       *)
LEMMA SessionWritten ==
  ASSUME SignInInv, NEW i \in SignIn!Ids, NEW x \in SessionRow, session' = [session EXCEPT ![i] = x],
         session[i].state # "revoked",
         \A r \in SignInRequests : request[r].step # SignIn!None => request[r].session # i, UNCHANGED <<factor, recovery, request, opened>>
  PROVE  SignInInv'
<1>1. factor' = factor /\ recovery' = recovery /\ request' = request /\ opened' = opened
  OBVIOUS
<1>2. SignInTypes'
  BY <1>1 DEF SignInInv, SignInTypes
<1>3. \A j \in SignIn!Ids : j # i => session'[j] = session[j]
  BY DEF SignInInv, SignInTypes
<1>4. SessionsHeld'
  BY <1>1, <1>3 DEF SignInInv, SessionsHeld
<1>5. CodesHeld'
  BY <1>1 DEF SignInInv, CodesHeld, Unspent
<1>6. OpenedBySpent'
  <2>1. \A y \in opened : y.from \in SignIn!Ids /\ y.from # i
    BY DEF SignInInv, SignInTypes, OpenedBySpent, Opening
  <2> QED
    BY <1>1, <1>3, <2>1 DEF SignInInv, OpenedBySpent, Spent
<1>7. OpenedOnce'
  BY <1>1 DEF SignInInv, OpenedOnce
<1> QED
  BY <1>2, <1>4, <1>5, <1>6, <1>7 DEF SignInInv

(* A verification goes on, holding at most what is allowed.                 *)
LEMMA VerificationWritten ==
  ASSUME SignInInv, NEW r \in SignInRequests, NEW x \in Verification, request' = [request EXCEPT ![r] = x],
         UNCHANGED <<session, factor, recovery, opened>>,
         x.step # SignIn!None =>
           /\ x.session \in SignIn!Ids /\ session[x.session].state = "live"
           /\ \A q \in SignInRequests : q # r /\ request[q].step # SignIn!None => request[q].session # x.session,
         x.step = "session" => x.at = 0,
         x.step = "code" =>
           /\ Unspent(x.code, x.at)
           /\ \A q \in SignInRequests : q # r /\ request[q].step = "code" =>
                request[q].code # x.code /\ (request[q].code \notin Factors \/ x.code \notin Factors)
  PROVE  SignInInv'
<1>1. factor' = factor /\ recovery' = recovery /\ session' = session /\ opened' = opened
  OBVIOUS
<1>2. SignInTypes'
  BY <1>1 DEF SignInInv, SignInTypes
<1>3. request'[r] = x /\ \A q \in SignInRequests : q # r => request'[q] = request[q]
  BY DEF SignInInv, SignInTypes
<1>4. SessionsHeld'
  BY <1>1, <1>3 DEF SignInInv, SessionsHeld
<1>5. CodesHeld'
  <2>1. \A code, when : Unspent(code, when)' = Unspent(code, when)
    BY <1>1 DEF Unspent
  <2> SUFFICES ASSUME NEW p \in SignInRequests
      PROVE  /\ request'[p].step = "session" => request'[p].at = 0
             /\ request'[p].step = "code" =>
                  /\ Unspent(request'[p].code, request'[p].at)
                  /\ \A q \in SignInRequests : q # p /\ request'[q].step = "code" =>
                       /\ request'[q].code # request'[p].code
                       /\ request'[q].code \notin Factors \/ request'[p].code \notin Factors
    BY <1>1 DEF CodesHeld, Unspent
  <2>2. CASE p = r
    BY <1>3, <2>2
  <2>3. CASE p # r
    BY <1>3, <2>3 DEF SignInInv, CodesHeld
  <2> QED
    BY <2>2, <2>3
<1>6. OpenedBySpent' /\ OpenedOnce'
  BY <1>1 DEF SignInInv, OpenedBySpent, Spent, OpenedOnce
<1> QED
  BY <1>2, <1>4, <1>5, <1>6 DEF SignInInv

LEMMA SignInStep == SignInInv /\ [SignIn!Next]_(SignIn!vars) => SignInInv'
<1> SUFFICES ASSUME SignInInv, [SignIn!Next]_(SignIn!vars) PROVE SignInInv'
  OBVIOUS
<1>0. /\ \A i \in SignIn!Ids : session[i] \in SessionRow
      /\ \A r \in SignInRequests : request[r] \in Verification
      /\ SignInTypes /\ SessionsHeld /\ CodesHeld /\ OpenedBySpent /\ OpenedOnce
  BY DEF SignInInv, SignInTypes
<1>1. CASE SignIn!Tick \/ UNCHANGED SignIn!vars
  <2>1. UNCHANGED <<session, factor, recovery, request, opened>>
    BY <1>1 DEF SignIn!Tick, SignIn!vars
  <2> QED
    BY <2>1 DEF SignInInv, SignInTypes, SessionsHeld, CodesHeld, Unspent, OpenedBySpent, Spent, OpenedOnce
<1>2. ASSUME NEW i \in SignIn!Ids, SignIn!Login(i) \/ SignIn!Revoke(i) \/ SignIn!Refresh(i, session[i].rotation)
      PROVE  SignInInv'
  <2>1. /\ session[i].state # "revoked" /\ UNCHANGED <<factor, recovery, request, opened>>
        /\ \A r \in SignInRequests : request[r].step # SignIn!None => request[r].session # i
    <3>1. CASE SignIn!Login(i)
      <4>1. session[i].state = SignIn!None
        BY <3>1 DEF SignIn!Login, SignIn!Fresh, SignIn!NoSession
      <4>2. \A r \in SignInRequests : request[r].step # SignIn!None => request[r].session # i
        BY <1>0, <4>1 DEF SessionsHeld, SignIn!None
      <4> QED
        BY <3>1, <4>1, <4>2 DEF SignIn!Login, SignIn!None
    <3>2. CASE SignIn!Revoke(i) \/ SignIn!Refresh(i, session[i].rotation)
      BY <3>2 DEF SignIn!Revoke, SignIn!Refresh, SignIn!Live, SignIn!SessionLocked
    <3> QED
      BY <1>2, <3>1, <3>2
  <2>2. PICK x \in SessionRow : session' = [session EXCEPT ![i] = x]
    <3>1. CASE SignIn!Login(i)
      <4>1. (~(FactorRequired \/ enrolled)) \in BOOLEAN
        OBVIOUS
      <4>2. [state |-> "live", mfa |-> ~(FactorRequired \/ enrolled), rotation |-> 0] \in SessionRow
        BY <4>1 DEF SessionRow
      <4> QED
        BY <3>1, <4>2 DEF SignIn!Login, SignIn!Create
    <3>2. CASE SignIn!Revoke(i)
      <4>1. SignIn!Gone \in SessionRow
        BY GoneIsEnded
      <4> QED
        BY <3>2, <4>1 DEF SignIn!Revoke
    <3>3. CASE SignIn!Refresh(i, session[i].rotation)
      <4>1. [session[i] EXCEPT !.rotation = session[i].rotation + 1] \in SessionRow
        BY <1>0 DEF SessionRow
      <4> QED
        BY <3>3, <4>1 DEF SignIn!Refresh
    <3> QED
      BY <1>2, <3>1, <3>2, <3>3
  <2> QED
    BY <2>1, <2>2, SessionWritten
<1>3. ASSUME NEW f \in Factors, SignIn!BeginEnrolment(f) PROVE SignInInv'
  <2>1. session' = session /\ recovery' = recovery /\ request' = request /\ opened' = opened
    BY <1>3 DEF SignIn!BeginEnrolment
  <2>2. factor' \in [Factors -> FactorRow] /\ \A g \in Factors : factor[g].state = "confirmed" => factor'[g] = factor[g]
    BY <1>0, <1>3 DEF SignIn!BeginEnrolment, SignInTypes, FactorRow, SignIn!NoFactor, SignIn!None
  <2>3. \A r \in SignInRequests : request[r].step = "code" => request[r].code \notin Factors
    BY <1>3 DEF SignIn!BeginEnrolment, SignIn!FactorsLocked
  <2>4. SignInTypes' /\ SessionsHeld' /\ OpenedOnce'
    BY <1>0, <2>1, <2>2 DEF SignInTypes, SessionsHeld, OpenedOnce
  <2>5. CodesHeld'
    BY <1>0, <2>1, <2>3 DEF CodesHeld, Unspent
  <2>6. OpenedBySpent'
    BY <1>0, <2>1, <2>2 DEF OpenedBySpent, Spent
  <2> QED
    BY <2>4, <2>5, <2>6 DEF SignInInv
<1>4. ASSUME NEW ks \in SUBSET RecoveryCodes, SignIn!IssueRecoveryCodes(ks) PROVE SignInInv'
  <2>1. session' = session /\ factor' = factor /\ request' = request /\ opened' = opened
    BY <1>4 DEF SignIn!IssueRecoveryCodes
  <2>2. /\ recovery' \in [RecoveryCodes -> {SignIn!None, "unused", "used", "deleted"}]
        /\ \A k \in RecoveryCodes : recovery[k] = "used" => recovery'[k] = "used"
    BY <1>0, <1>4 DEF SignIn!IssueRecoveryCodes, SignInTypes, SignIn!None
  <2>3. \A r \in SignInRequests : request[r].step = "code" => request[r].code \notin RecoveryCodes
    BY <1>4 DEF SignIn!IssueRecoveryCodes, SignIn!CodeLocked
  <2>4. SignInTypes' /\ SessionsHeld' /\ OpenedOnce'
    BY <1>0, <2>1, <2>2 DEF SignInTypes, SessionsHeld, OpenedOnce
  <2>5. CodesHeld'
    BY <1>0, <2>1, <2>3 DEF CodesHeld, Unspent
  <2>6. OpenedBySpent'
    BY <1>0, <2>1, <2>2 DEF OpenedBySpent, Spent
  <2> QED
    BY <2>4, <2>5, <2>6 DEF SignInInv
<1>5. ASSUME NEW r \in SignInRequests, NEW i \in SignIn!Ids, SignIn!BeginVerify(r, i) PROVE SignInInv'
  <2> DEFINE x == [step |-> "session", session |-> i, code |-> SignIn!None, at |-> 0]
  <2>1. request' = [request EXCEPT ![r] = x] /\ UNCHANGED <<session, factor, recovery, opened>>
    BY <1>5 DEF SignIn!BeginVerify
  <2>2. x \in Verification /\ x.step = "session" /\ x.session = i /\ x.at = 0
    BY DEF Verification
  <2>3. session[i].state = "live" /\ \A q \in SignInRequests : request[q].session # i
    BY <1>5 DEF SignIn!BeginVerify, SignIn!Live, SignIn!SessionLocked
  <2> HIDE DEF x
  <2> QED
    BY <2>1, <2>2, <2>3, VerificationWritten
<1>6. ASSUME NEW r \in SignInRequests, NEW f \in Factors, NEW when \in 1..MaxStep, SignIn!ConsumeTotp(r, f, when)
      PROVE  SignInInv'
  <2> DEFINE x == [step |-> "code", session |-> request[r].session, code |-> f, at |-> when]
  <2>1. /\ request' = [request EXCEPT ![r].step = "code", ![r].code = f, ![r].at = when]
        /\ UNCHANGED <<session, factor, recovery, opened>> /\ request[r].step = "session"
        /\ Unspent(f, when) /\ when \in Int
    BY <1>0, <1>6 DEF SignIn!ConsumeTotp, SignIn!Verifies, Unspent, SignInTypes, FactorRow
  <2>2. request' = [request EXCEPT ![r] = x]
    <3>1. request' = [request EXCEPT ![r] =
            [[[request[r] EXCEPT !.step = "code"] EXCEPT !.code = f] EXCEPT !.at = when]]
      BY <1>0, <2>1 DEF SignInTypes
    <3>2. [[[request[r] EXCEPT !.step = "code"] EXCEPT !.code = f] EXCEPT !.at = when] = x
      BY <1>0, TakesCode, ZenonT(60)
    <3> QED
      BY ONLY <3>1, <3>2, Zenon
  <2>5. /\ request[r].session \in SignIn!Ids /\ session[request[r].session].state = "live"
        /\ \A q \in SignInRequests : q # r /\ request[q].step # SignIn!None => request[q].session # request[r].session
    BY <1>0, <2>1 DEF SessionsHeld, SignIn!None
  <2>3. x \in Verification /\ x.step = "code" /\ x.session = request[r].session /\ x.code = f /\ x.at = when
    BY <1>0, <2>1 DEF Verification
  <2>4. \A q \in SignInRequests : request[q].step = "code" => request[q].code \notin Factors
    BY <1>6 DEF SignIn!ConsumeTotp, SignIn!FactorsLocked
  <2> HIDE DEF x
  <2>7. Unspent(x.code, x.at)
    BY <2>1, <2>3 DEF Unspent
  <2>8. x.session \in SignIn!Ids /\ session[x.session].state = "live"
    BY <2>3, <2>5
  <2>9. \A q \in SignInRequests : q # r /\ request[q].step # SignIn!None => request[q].session # x.session
    BY <2>3, <2>5
  <2>10. \A q \in SignInRequests : q # r /\ request[q].step = "code" =>
           request[q].code # x.code /\ (request[q].code \notin Factors \/ x.code \notin Factors)
    BY <2>3, <2>4
  <2> QED
    BY <2>1, <2>2, <2>3, <2>7, <2>8, <2>9, <2>10, VerificationWritten
<1>7. ASSUME NEW r \in SignInRequests, NEW k \in RecoveryCodes, SignIn!ConsumeRecoveryCode(r, k) PROVE SignInInv'
  <2> DEFINE x == [step |-> "code", session |-> request[r].session, code |-> k, at |-> 0]
  <2>1. /\ request' = [request EXCEPT ![r].step = "code", ![r].code = k]
        /\ UNCHANGED <<session, factor, recovery, opened>> /\ request[r].step = "session" /\ request[r].at = 0
        /\ Unspent(k, 0)
    BY <1>0, <1>7 DEF SignIn!ConsumeRecoveryCode, Unspent, CodesHeld
  <2>2. request' = [request EXCEPT ![r] = x]
    <3>1. request' = [request EXCEPT ![r] = [[request[r] EXCEPT !.step = "code"] EXCEPT !.code = k]]
      BY <1>0, <2>1 DEF SignInTypes
    <3>2. [[request[r] EXCEPT !.step = "code"] EXCEPT !.code = k] = x
      BY <1>0, <2>1, TakesCode
    <3> QED
      BY ONLY <3>1, <3>2, Zenon
  <2>6. /\ request[r].session \in SignIn!Ids /\ session[request[r].session].state = "live"
        /\ \A q \in SignInRequests : q # r /\ request[q].step # SignIn!None => request[q].session # request[r].session
    BY <1>0, <2>1 DEF SessionsHeld, SignIn!None
  <2>3. x \in Verification /\ x.step = "code" /\ x.session = request[r].session /\ x.code = k /\ x.at = 0
    BY <1>0, <2>1 DEF Verification
  <2>4. \A q \in SignInRequests : request[q].step = "code" => request[q].code # k
    BY <1>7 DEF SignIn!ConsumeRecoveryCode, SignIn!CodeLocked
  <2>5. k \notin Factors
    BY SignInAssumption DEF SignIn!CodesAssumption
  <2> HIDE DEF x
  <2>7. Unspent(x.code, x.at)
    BY <2>1, <2>3 DEF Unspent
  <2>8. x.session \in SignIn!Ids /\ session[x.session].state = "live"
    BY <2>3, <2>6
  <2>9. \A q \in SignInRequests : q # r /\ request[q].step # SignIn!None => request[q].session # x.session
    BY <2>3, <2>6
  <2>10. \A q \in SignInRequests : q # r /\ request[q].step = "code" =>
           request[q].code # x.code /\ (request[q].code \notin Factors \/ x.code \notin Factors)
    BY <2>3, <2>4, <2>5
  <2> QED
    BY <2>1, <2>2, <2>3, <2>7, <2>8, <2>9, <2>10, VerificationWritten
<1>8. ASSUME NEW r \in SignInRequests, SignIn!Rollback(r) PROVE SignInInv'
  <2>1. request' = [request EXCEPT ![r] = SignIn!Idle] /\ UNCHANGED <<session, factor, recovery, opened>>
    BY <1>8 DEF SignIn!Rollback
  <2>2. SignIn!Idle \in Verification /\ SignIn!Idle.step = SignIn!None /\ SignIn!None \notin {"session", "code"}
    BY DEF SignIn!Idle, SignIn!None, Verification
  <2> QED
    BY <2>1, <2>2, VerificationWritten
<1>9. ASSUME NEW r \in SignInRequests, NEW i \in SignIn!Ids, SignIn!CommitVerify(r, i) PROVE SignInInv'
  <2>0. PICK q \in Verification : q = request[r]
    BY <1>0
  <2>a. PICK x : x = [session |-> i, from |-> q.session, code |-> q.code, at |-> q.at]
    OBVIOUS
  <2>1. /\ q.step = "code" /\ session[i] = SignIn!NoSession
        /\ session' = [session EXCEPT ![i] = [state |-> "live", mfa |-> TRUE, rotation |-> 0],
                                      ![q.session] = SignIn!Gone]
        /\ factor' = [f \in Factors |-> IF f = q.code THEN [state |-> "confirmed", last |-> q.at] ELSE factor[f]]
        /\ recovery' = [k \in RecoveryCodes |-> IF k = q.code THEN "used" ELSE recovery[k]]
        /\ opened' = opened \cup {x} /\ request' = [request EXCEPT ![r] = SignIn!Idle]
    BY <1>9, <2>0, <2>a DEF SignIn!CommitVerify, SignIn!Create, SignIn!Fresh
  <2>2. /\ q \in Verification /\ q.session \in SignIn!Ids /\ session[q.session].state = "live"
        /\ Unspent(q.code, q.at) /\ q.code \in Factors \cup RecoveryCodes /\ q.at \in Int
        /\ \A p \in SignInRequests : p # r /\ request[p].step # SignIn!None => request[p].session # q.session
        /\ \A p \in SignInRequests : p # r /\ request[p].step = "code" =>
             request[p].code # q.code /\ (request[p].code \notin Factors \/ q.code \notin Factors)
    BY <1>0, <2>0, <2>1 DEF SessionsHeld, CodesHeld, Unspent, Verification, SignIn!None
  <2>3. x \in Opening /\ x.from = q.session /\ x.code = q.code /\ x.at = q.at
    BY <2>2, <2>a DEF Opening
  <2>4. session[i].state = SignIn!None /\ i # q.session
    BY <2>1, <2>2 DEF SignIn!NoSession, SignIn!None
  <2>5. /\ session' \in [SignIn!Ids -> SessionRow] /\ session'[q.session].state = "revoked"
        /\ \A j \in SignIn!Ids : j \notin {i, q.session} => session'[j] = session[j]
    <3>1. SignIn!Gone \in SessionRow /\ SignIn!Gone.state = "revoked"
      BY GoneIsEnded
    <3>2. [state |-> "live", mfa |-> TRUE, rotation |-> 0] \in SessionRow
      BY DEF SessionRow
    <3> QED
      BY <1>0, <2>1, <2>2, <2>4, <3>1, <3>2 DEF SignInTypes
  <2>6. factor' \in [Factors -> FactorRow]
    BY <1>0, <2>1, <2>2 DEF SignInTypes, FactorRow
  <2>7. recovery' \in [RecoveryCodes -> {SignIn!None, "unused", "used", "deleted"}]
    BY <1>0, <2>1 DEF SignInTypes
  <2>8. request' \in [SignInRequests -> Verification]
    BY <1>0, <2>1 DEF SignInTypes, SignIn!Idle, Verification
  <2>9. /\ request'[r].step = SignIn!None
        /\ \A p \in SignInRequests : p # r => request'[p] = request[p]
    BY <1>0, <2>1 DEF SignInTypes, SignIn!Idle
  <2>10. SignInTypes'
    BY <1>0, <2>1, <2>3, <2>5, <2>6, <2>7, <2>8 DEF SignInTypes
  <2>11. SessionsHeld'
    <3>1. \A p \in SignInRequests : p # r /\ request[p].step # SignIn!None =>
            request[p].session \notin {i, q.session}
      BY <1>0, <2>2, <2>4 DEF SessionsHeld, SignIn!None
    <3> QED
      BY <1>0, <2>5, <2>9, <3>1 DEF SessionsHeld
  <2>12. \A code, when : code # q.code /\ Unspent(code, when) => Unspent(code, when)'
    BY <2>1 DEF Unspent
  <2>13. CodesHeld'
    BY <1>0, <2>2, <2>9, <2>12 DEF CodesHeld, SignIn!None
  <2>14. \A y \in opened : y.from # x.from /\ ~(y.code = x.code /\ y.at = x.at)
    <3>1. \A y \in opened : y.from # x.from
      BY <1>0, <2>2, <2>3 DEF OpenedBySpent
    <3>2. \A y \in opened : y \in Opening /\ Spent(y.code, y.at)
      BY <1>0 DEF OpenedBySpent, SignInTypes
    <3>3. \A y \in opened : ~(y.code = q.code /\ y.at = q.at)
      BY <1>0, <2>2, <3>2, SignInAssumption
      DEF Spent, Unspent, SignIn!CodesAssumption, SignInTypes, FactorRow, Opening
    <3> QED
      BY <2>3, <3>1, <3>3
  <2>15. OpenedOnce'
    BY <1>0, <2>1, <2>14 DEF OpenedOnce
  <2>16. OpenedBySpent'
    <3>1. Spent(q.code, q.at)'
      BY <2>1, <2>2 DEF Spent, Unspent
    <3>2. ASSUME NEW y \in opened PROVE Spent(y.code, y.at)'
      <4>1. y \in Opening /\ Spent(y.code, y.at)
        BY <1>0 DEF OpenedBySpent, SignInTypes
      <4>2. y.code = q.code /\ q.code \in Factors => factor[q.code].last < q.at /\ y.at \in Int /\ factor[q.code].last \in Int
        BY <1>0, <2>2, <4>1, SignInAssumption
        DEF Unspent, SignIn!CodesAssumption, SignInTypes, FactorRow, Opening
      <4> QED
        BY <2>1, <2>2, <4>1, <4>2, SignInAssumption DEF Spent, SignIn!CodesAssumption
    <3>3. \A y \in opened : y.from \in SignIn!Ids /\ y.from \notin {i, q.session} /\ session[y.from].state = "revoked"
      BY <1>0, <2>2, <2>4 DEF OpenedBySpent, SignInTypes, Opening, SignIn!None
    <3>4. \A y \in opened : session'[y.from].state = "revoked"
      BY <2>5, <3>3
    <3>5. Spent(x.code, x.at)' /\ session'[x.from].state = "revoked"
      BY <2>3, <2>5, <3>1 DEF Spent
    <3> QED
      BY <2>1, <3>2, <3>4, <3>5 DEF OpenedBySpent
  <2> QED
    BY <2>10, <2>11, <2>13, <2>15, <2>16 DEF SignInInv
<1> QED
  BY <1>1, <1>2, <1>3, <1>4, <1>5, <1>6, <1>7, <1>8, <1>9 DEF SignIn!Next

MemberRow == [tenant : Tenants, person : People, role : Roles, status : {"PENDING", "REVOKED", "ACCEPTED"}]
Asked ==
  [step : {Members!None, "inviting", "accepting", "suspending", "reinstating", "selecting"},
   tenant : Tenants \cup {Members!None}, person : People \cup {Members!None}, invitation : Nat, known : BOOLEAN]

MemberTypes ==
  /\ membership \in [Tenants \X People -> SUBSET (Roles \cup {"owner"})]
  /\ invitation \in Seq(MemberRow)
  /\ DOMAIN spent = 1..Len(invitation) /\ spent \in Seq(Nat)
  /\ accepting \in [MemberRequests -> Asked]

(* Of a tenant's invitations to an address one is pending.                  *)
OnePending ==
  \A i, j \in 1..Len(invitation) :
    /\ invitation[i].status = "PENDING" /\ invitation[j].status = "PENDING"
    /\ invitation[i].tenant = invitation[j].tenant /\ invitation[i].person = invitation[j].person
    => i = j

(* What a request holds is pending, and held by it alone.                   *)
HeldByOne ==
  \A r \in MemberRequests :
    /\ accepting[r].step = "inviting" => accepting[r].tenant \in Tenants /\ accepting[r].person \in People
    /\ accepting[r].step = "accepting" => accepting[r].invitation # 0
    /\ accepting[r].invitation # 0 =>
         /\ accepting[r].invitation \in 1..Len(invitation)
         /\ invitation[accepting[r].invitation].status = "PENDING"
         /\ \A q \in MemberRequests : q # r => accepting[q].invitation # accepting[r].invitation

SpentWhenAccepted ==
  \A i \in 1..Len(invitation) :
    /\ spent[i] = IF invitation[i].status = "ACCEPTED" THEN 1 ELSE 0
    /\ invitation[i].status = "ACCEPTED" =>
         /\ invitation[i].person \in users
         /\ invitation[i].role \in membership[<<invitation[i].tenant, invitation[i].person>>]

MembersInv == MemberTypes /\ OnePending /\ HeldByOne /\ SpentWhenAccepted

LEMMA MembersInit == Members!Init => MembersInv
<1> SUFFICES ASSUME Members!Init PROVE MembersInv
  OBVIOUS
<1> USE DEF Members!Init, Members!Idle, Members!None
<1>1. MemberTypes
  BY DEF MemberTypes, Asked
<1>2. OnePending /\ HeldByOne /\ SpentWhenAccepted
  BY DEF OnePending, HeldByOne, SpentWhenAccepted
<1> QED
  BY <1>1, <1>2 DEF MembersInv

(* What a request becomes when it takes a step.                             *)
LEMMA StepWritten ==
  ASSUME NEW v \in Asked, NEW s \in {"inviting", "accepting", "suspending", "reinstating", "selecting"}, NEW w, w = [v EXCEPT !.step = s]
  PROVE  w \in Asked /\ w.step = s /\ w.tenant = v.tenant /\ w.person = v.person /\ w.invitation = v.invitation
  BY DEF Asked

LEMMA IdleAsks ==
  Members!Idle \in Asked /\ Members!Idle.invitation = 0 /\ Members!Idle.step \notin {"inviting", "accepting"}
  BY DEF Members!Idle, Asked, Members!None

(* Memberships and accounts only grow, the invitations stay.                *)
LEMMA MembersGrow ==
  ASSUME MembersInv, UNCHANGED <<invitation, accepting, spent>>, users \subseteq users',
         membership' \in [Tenants \X People -> SUBSET (Roles \cup {"owner"})],
         \A k \in Tenants \X People : membership[k] \subseteq membership'[k]
  PROVE  MembersInv'
<1>1. invitation' = invitation /\ accepting' = accepting /\ spent' = spent
  OBVIOUS
<1>2. MemberTypes' /\ OnePending' /\ HeldByOne'
  BY <1>1 DEF MembersInv, MemberTypes, OnePending, HeldByOne
<1>3. \A i \in 1..Len(invitation) : <<invitation[i].tenant, invitation[i].person>> \in Tenants \X People
  <2>1. \A i \in 1..Len(invitation) : invitation[i] \in MemberRow
    BY DEF MembersInv, MemberTypes
  <2> QED
    BY <2>1 DEF MemberRow
<1>4. SpentWhenAccepted'
  BY <1>1, <1>3 DEF MembersInv, SpentWhenAccepted
<1> QED
  BY <1>2, <1>4 DEF MembersInv

(* A request takes an invitation that is pending and that nobody has, or    *)
(* none.                                                                    *)
LEMMA RequestWritten ==
  ASSUME MembersInv, NEW r \in MemberRequests, NEW x \in Asked, accepting' = [accepting EXCEPT ![r] = x],
         UNCHANGED <<users, membership, invitation, spent>>,
         x.step = "inviting" => x.tenant \in Tenants /\ x.person \in People,
         x.step = "accepting" => x.invitation # 0,
         x.invitation # 0 =>
           /\ x.invitation \in 1..Len(invitation) /\ invitation[x.invitation].status = "PENDING"
           /\ \A q \in MemberRequests : q # r => accepting[q].invitation # x.invitation
  PROVE  MembersInv'
<1>1. users' = users /\ membership' = membership /\ invitation' = invitation /\ spent' = spent
  OBVIOUS
<1>2. MemberTypes' /\ OnePending' /\ SpentWhenAccepted'
  BY <1>1 DEF MembersInv, MemberTypes, OnePending, SpentWhenAccepted
<1>3. accepting'[r] = x /\ \A q \in MemberRequests : q # r => accepting'[q] = accepting[q]
  BY DEF MembersInv, MemberTypes
<1>4. HeldByOne'
  <2> SUFFICES ASSUME NEW p \in MemberRequests
      PROVE  /\ accepting'[p].step = "inviting" => accepting'[p].tenant \in Tenants /\ accepting'[p].person \in People
             /\ accepting'[p].step = "accepting" => accepting'[p].invitation # 0
             /\ accepting'[p].invitation # 0 =>
                  /\ accepting'[p].invitation \in 1..Len(invitation)
                  /\ invitation[accepting'[p].invitation].status = "PENDING"
                  /\ \A q \in MemberRequests : q # p => accepting'[q].invitation # accepting'[p].invitation
    BY <1>1 DEF HeldByOne
  <2>1. CASE p = r
    BY <1>3, <2>1
  <2>2. CASE p # r
    BY <1>3, <2>2 DEF MembersInv, HeldByOne
  <2> QED
    BY <2>1, <2>2
<1> QED
  BY <1>2, <1>4 DEF MembersInv

LEMMA MembersStep == MembersInv /\ [Members!Next]_(Members!vars) => MembersInv'
<1> SUFFICES ASSUME MembersInv, [Members!Next]_(Members!vars) PROVE MembersInv'
  OBVIOUS
<1>0. /\ MemberTypes /\ OnePending /\ HeldByOne /\ SpentWhenAccepted
      /\ \A r \in MemberRequests : accepting[r] \in Asked
      /\ \A i \in 1..Len(invitation) : invitation[i] \in MemberRow
      /\ Len(invitation) \in Nat /\ DOMAIN invitation = 1..Len(invitation)
  BY DEF MembersInv, MemberTypes
<1>1. ASSUME NEW t \in Tenants, NEW p \in People, Members!SignUp(t, p) PROVE MembersInv'
  <2>1. /\ users' = users \cup {p} /\ membership' = [membership EXCEPT ![<<t, p>>] = {"owner"}]
        /\ UNCHANGED <<invitation, accepting, spent>> /\ membership[<<t, p>>] = {}
    BY <1>1 DEF Members!SignUp, Members!Member
  <2> QED
    BY <1>0, <2>1, MembersGrow DEF MemberTypes
<1>2. ASSUME NEW by \in People, NEW p \in People, NEW t \in Tenants, NEW role \in Roles,
             Members!CreateMembership(by, t, p, role)
      PROVE  MembersInv'
  <2>1. /\ membership' = [membership EXCEPT ![<<t, p>>] = membership[<<t, p>>] \cup {role}]
        /\ users' = users /\ UNCHANGED <<invitation, accepting, spent>>
    BY <1>2 DEF Members!CreateMembership
  <2> QED
    BY <1>0, <2>1, MembersGrow DEF MemberTypes
<1>3. CASE UNCHANGED Members!vars \/ \E p \in People : Members!Login(p)
  <2>1. UNCHANGED <<users, membership, invitation, accepting, spent>>
    BY <1>3 DEF Members!vars, Members!Login
  <2> QED
    BY <1>0, <2>1, MembersGrow DEF MemberTypes
<1>4. ASSUME NEW r \in MemberRequests, NEW t \in Tenants, NEW p \in People, NEW by \in People,
             Members!BeginInvite(r, by, t, p)
      PROVE  MembersInv'
  <2> DEFINE P == Members!Pending(t, p)
             n == IF P = {} THEN 0 ELSE CHOOSE i \in P : TRUE
             x1 == [Members!Idle EXCEPT !.step = "inviting"]
             x2 == [x1 EXCEPT !.tenant = t]
             x3 == [x2 EXCEPT !.person = p]
             x == [x3 EXCEPT !.invitation = n]
  <2>1. accepting' = [accepting EXCEPT ![r] = x] /\ UNCHANGED <<users, membership, invitation, spent>>
    BY <1>4 DEF Members!BeginInvite
  <2>2. \A i \in P : i \in 1..Len(invitation) /\ invitation[i].status = "PENDING"
    BY <1>0 DEF Members!Pending
  <2>3. \A i \in P : \A q \in MemberRequests : accepting[q].invitation # i
    BY <1>4 DEF Members!BeginInvite, Members!Holders
  <2>4. n = 0 \/ n \in P
    OBVIOUS
  <2>5. n \in Nat
    BY <1>0, <2>2, <2>4
  <2>a. /\ x1 = [Members!Idle EXCEPT !.step = "inviting"] /\ x2 = [x1 EXCEPT !.tenant = t]
        /\ x3 = [x2 EXCEPT !.person = p] /\ x = [x3 EXCEPT !.invitation = n]
    OBVIOUS
  <2> HIDE DEF P, n, x1, x2, x3, x
  <2>b. x1 \in Asked /\ x1.step = "inviting"
    BY <2>a, IdleAsks, StepWritten
  <2>c. x2 \in Asked /\ x2.step = "inviting" /\ x2.tenant = t
    <3>1. x2 = [x1 EXCEPT !.tenant = t] /\ x1 \in Asked /\ t \in Tenants
      BY <2>a, <2>b
    <3>2. x2 \in Asked /\ x2.step = x1.step /\ x2.tenant = t
      BY ONLY <3>1 DEF Asked
    <3> QED
      BY <2>a, <2>b, <3>2
  <2>d. x3 \in Asked /\ x3.step = "inviting" /\ x3.tenant = t /\ x3.person = p
    <3>1. x3 = [x2 EXCEPT !.person = p] /\ x2 \in Asked /\ p \in People
      BY <2>a, <2>c
    <3>2. /\ x3 \in Asked
          /\ x3.step = x2.step /\ x3.tenant = x2.tenant /\ x3.person = p /\ x3.invitation = x2.invitation
      BY ONLY <3>1 DEF Asked
    <3> QED
      BY <2>a, <2>c, <3>2
  <2>6. x \in Asked /\ x.step = "inviting" /\ x.tenant = t /\ x.person = p /\ x.invitation = n
    <3>1. x = [x3 EXCEPT !.invitation = n] /\ x3 \in Asked /\ n \in Nat
      BY <2>a, <2>5, <2>d
    <3>2. /\ x \in Asked
          /\ x.step = x3.step /\ x.tenant = x3.tenant /\ x.person = x3.person /\ x.invitation = n
      BY ONLY <3>1 DEF Asked
    <3> QED
      BY <2>a, <2>5, <2>d, <3>2
  <2>7. x.invitation # 0 =>
           /\ x.invitation \in 1..Len(invitation) /\ invitation[x.invitation].status = "PENDING"
           /\ \A q \in MemberRequests : q # r => accepting[q].invitation # x.invitation
    BY <2>2, <2>3, <2>4, <2>6
  <2> QED
    BY <2>1, <2>6, <2>7, RequestWritten
<1>5. ASSUME NEW r \in MemberRequests, NEW i \in DOMAIN invitation, Members!BeginAccept(r, i) PROVE MembersInv'
  <2> DEFINE known == invitation[i].person \in users
             x1 == [Members!Idle EXCEPT !.step = "accepting"]
             x2 == [x1 EXCEPT !.invitation = i]
             x == [x2 EXCEPT !.known = known]
  <2>1. accepting' = [accepting EXCEPT ![r] = x] /\ UNCHANGED <<users, membership, invitation, spent>>
    BY <1>5 DEF Members!BeginAccept
  <2>2. known \in BOOLEAN
    OBVIOUS
  <2>3. i \in Nat
    BY <1>0
  <2>a. /\ x1 = [Members!Idle EXCEPT !.step = "accepting"] /\ x2 = [x1 EXCEPT !.invitation = i]
        /\ x = [x2 EXCEPT !.known = known]
    OBVIOUS
  <2> HIDE DEF known, x1, x2, x
  <2>b. x1 \in Asked /\ x1.step = "accepting"
    BY <2>a, IdleAsks, StepWritten
  <2>c. x2 \in Asked /\ x2.step = "accepting" /\ x2.invitation = i
    <3>1. x2 = [x1 EXCEPT !.invitation = i] /\ x1 \in Asked /\ i \in Nat
      BY <2>a, <2>3, <2>b
    <3>2. x2 \in Asked /\ x2.step = x1.step /\ x2.invitation = i
      BY ONLY <3>1 DEF Asked
    <3> QED
      BY <2>a, <2>3, <2>b, <3>2
  <2>4. x \in Asked /\ x.step = "accepting" /\ x.invitation = i
    <3>1. x = [x2 EXCEPT !.known = known] /\ x2 \in Asked /\ known \in BOOLEAN
      BY <2>a, <2>2, <2>c
    <3>2. x \in Asked /\ x.step = x2.step /\ x.invitation = x2.invitation
      BY ONLY <3>1 DEF Asked
    <3> QED
      BY <2>a, <2>2, <2>c, <3>2
  <2>5. /\ i \in 1..Len(invitation) /\ i # 0 /\ invitation[i].status = "PENDING"
        /\ \A q \in MemberRequests : accepting[q].invitation # i
    BY <1>0, <1>5 DEF Members!BeginAccept, Members!Holders
  <2> QED
    BY <2>1, <2>3, <2>4, <2>5, RequestWritten
<1>6. ASSUME NEW r \in MemberRequests,
             \/ Members!BindTenant(r) \/ Members!Rollback(r)
             \/ \E by, p \in People, t \in Tenants :
                  \/ Members!SelectTenant(r, t, p)
                  \/ \E on \in BOOLEAN : Members!RequestSuspension(r, by, t, p, on)
             \/ Members!SetUserSuspension(r)
      PROVE  MembersInv'
  <2>1. UNCHANGED <<users, membership, invitation, spent>>
    BY <1>6 DEF Members!BindTenant, Members!Rollback, Members!SelectTenant, Members!RequestSuspension,
         Members!SetUserSuspension
  <2>2. PICK x \in Asked : /\ accepting' = [accepting EXCEPT ![r] = x]
                           /\ x.invitation = 0 /\ x.step \notin {"inviting", "accepting"}
    <3>1. CASE Members!BindTenant(r) \/ Members!Rollback(r) \/ Members!SetUserSuspension(r)
      <4>1. accepting' = [accepting EXCEPT ![r] = Members!Idle]
        BY <3>1 DEF Members!BindTenant, Members!Rollback, Members!SetUserSuspension
      <4>2. Members!Idle \in Asked /\ Members!Idle.invitation = 0 /\ Members!Idle.step \notin {"inviting", "accepting"}
        BY IdleAsks
      <4> QED
        BY <4>1, <4>2
    <3>2. ASSUME NEW p \in People, NEW t \in Tenants, NEW step \in {"selecting", "suspending", "reinstating"},
                 accepting' = [accepting EXCEPT ![r] =
                   [[[Members!Idle EXCEPT !.step = step] EXCEPT !.tenant = t] EXCEPT !.person = p]]
          PROVE  \E x \in Asked : /\ accepting' = [accepting EXCEPT ![r] = x]
                                  /\ x.invitation = 0 /\ x.step \notin {"inviting", "accepting"}
      <4> DEFINE x1 == [Members!Idle EXCEPT !.step = step]
                 x2 == [x1 EXCEPT !.tenant = t]
                 x == [x2 EXCEPT !.person = p]
      <4>0. accepting' = [accepting EXCEPT ![r] = x]
        BY <3>2
      <4>a. x1 = [Members!Idle EXCEPT !.step = step] /\ x2 = [x1 EXCEPT !.tenant = t] /\ x = [x2 EXCEPT !.person = p]
        OBVIOUS
      <4> HIDE DEF x1, x2, x
      <4>1. x1 \in Asked /\ x1.step = step /\ x1.invitation = 0
        BY <4>a, IdleAsks, StepWritten
      <4>2. x2 \in Asked /\ x2.step = step /\ x2.invitation = 0
        <5>1. x2 = [x1 EXCEPT !.tenant = t] /\ x1 \in Asked /\ t \in Tenants
          BY <4>a, <4>1
        <5>2. x2 \in Asked /\ x2.step = x1.step /\ x2.invitation = x1.invitation
          BY ONLY <5>1 DEF Asked
        <5> QED
          BY <4>a, <4>1, <5>2
      <4>3. x \in Asked /\ x.step = step /\ x.invitation = 0
        <5>1. x = [x2 EXCEPT !.person = p] /\ x2 \in Asked /\ p \in People
          BY <4>a, <4>2
        <5>2. x \in Asked /\ x.step = x2.step /\ x.invitation = x2.invitation
          BY ONLY <5>1 DEF Asked
        <5> QED
          BY <4>a, <4>2, <5>2
      <4> QED
        BY <4>0, <4>3
    <3> DEFINE Becomes == \E x \in Asked : /\ accepting' = [accepting EXCEPT ![r] = x]
                                           /\ x.invitation = 0 /\ x.step \notin {"inviting", "accepting"}
    <3>3. ASSUME NEW p \in People, NEW t \in Tenants, Members!SelectTenant(r, t, p) PROVE Becomes
      <4>1. accepting' = [accepting EXCEPT ![r] =
              [[[Members!Idle EXCEPT !.step = "selecting"] EXCEPT !.tenant = t] EXCEPT !.person = p]]
        BY <3>3 DEF Members!SelectTenant
      <4>2. PICK step \in {"selecting"} : TRUE
        OBVIOUS
      <4>3. step = "selecting" /\ step \in {"selecting", "suspending", "reinstating"}
        OBVIOUS
      <4> QED
        BY <3>2, <4>1, <4>3
    <3>4. ASSUME NEW by \in People, NEW p \in People, NEW t \in Tenants, NEW on \in BOOLEAN,
                 Members!RequestSuspension(r, by, t, p, on)
          PROVE  Becomes
      <4> DEFINE step == IF on THEN "suspending" ELSE "reinstating"
      <4>1. accepting' = [accepting EXCEPT ![r] =
              [[[Members!Idle EXCEPT !.step = step] EXCEPT !.tenant = t] EXCEPT !.person = p]]
        BY <3>4 DEF Members!RequestSuspension
      <4>2. step \in {"selecting", "suspending", "reinstating"}
        OBVIOUS
      <4> HIDE DEF step
      <4> QED
        BY <3>2, <4>1, <4>2
    <3>5. (Members!BindTenant(r) \/ Members!Rollback(r) \/ Members!SetUserSuspension(r)) => Becomes
      BY <3>1
    <3> HIDE DEF Becomes
    <3>6. Becomes
      BY <1>6, <3>3, <3>4, <3>5
    <3> QED
      BY <3>6 DEF Becomes
  <2> QED
    BY <2>1, <2>2, RequestWritten
<1>7. ASSUME NEW r \in MemberRequests, NEW role \in Roles, Members!CommitInvite(r, role) PROVE MembersInv'
  <2>0. PICK q \in Asked : q = accepting[r]
    BY <1>0, SMTT(60)
  <2>1. PICK n \in Nat : n = Len(invitation)
    BY <1>0
  <2>2. PICK new : new = [tenant |-> q.tenant, person |-> q.person, role |-> role, status |-> "PENDING"]
    OBVIOUS
  <2>3. PICK old : old = [i \in 1..n |-> IF i = q.invitation THEN [invitation[i] EXCEPT !.status = "REVOKED"]
                                         ELSE invitation[i]]
    OBVIOUS
  <2>4. /\ q.step = "inviting" /\ Members!Pending(q.tenant, q.person) \subseteq {q.invitation}
        /\ invitation' = Append(old, new) /\ spent' = Append(spent, 0)
        /\ accepting' = [accepting EXCEPT ![r] = Members!Idle] /\ users' = users /\ membership' = membership
    BY <1>0, <1>7, <2>0, <2>1, <2>2, <2>3 DEF Members!CommitInvite
  <2>5. new \in MemberRow /\ new.status = "PENDING"
    BY <1>0, <2>0, <2>2, <2>4 DEF HeldByOne, MemberRow
  <2>6. old \in Seq(MemberRow) /\ Len(old) = n
    <3>1. \A i \in 1..n : old[i] \in MemberRow
      BY <1>0, <2>1, <2>3 DEF MemberRow
    <3> QED
      BY <2>1, <2>3, <3>1
  <2>7. invitation' \in Seq(MemberRow) /\ Len(invitation') = n + 1 /\ invitation'[n + 1] = new
    BY <2>4, <2>5, <2>6
  <2>8. \A i \in 1..n : i # q.invitation => invitation'[i] = invitation[i]
    BY <2>3, <2>4, <2>5, <2>6
  <2>9. q.invitation # 0 =>
          /\ q.invitation \in 1..n /\ invitation[q.invitation].status = "PENDING"
          /\ invitation'[q.invitation].status = "REVOKED"
    <3>1. q.invitation # 0 => q.invitation \in 1..n /\ invitation[q.invitation].status = "PENDING"
      BY <1>0, <2>0, <2>1 DEF HeldByOne
    <3>2. q.invitation \in 1..n => invitation'[q.invitation] = [invitation[q.invitation] EXCEPT !.status = "REVOKED"]
      BY <2>3, <2>4, <2>5, <2>6
    <3> QED
      BY <1>0, <2>1, <3>1, <3>2 DEF MemberRow
  <2>10. /\ DOMAIN spent' = 1..(n + 1) /\ spent' \in Seq(Nat) /\ spent'[n + 1] = 0
         /\ \A i \in 1..n : spent'[i] = spent[i]
    BY <1>0, <2>1, <2>4 DEF MemberTypes
  <2>11. /\ accepting' \in [MemberRequests -> Asked] /\ accepting'[r] = Members!Idle
         /\ \A p \in MemberRequests : p # r => accepting'[p] = accepting[p]
    BY <1>0, <2>4 DEF MemberTypes, Members!Idle, Members!None, Asked
  <2>12. MemberTypes'
    BY <1>0, <2>4, <2>7, <2>10, <2>11 DEF MemberTypes
  <2>13. \A i \in 1..n : invitation'[i].status = "PENDING" => i # q.invitation /\ invitation'[i] = invitation[i]
    BY <2>8, <2>9
  <2>14. OnePending'
    <3>1. \A i \in 1..n : /\ invitation[i].status = "PENDING"
                          /\ invitation[i].tenant = new.tenant /\ invitation[i].person = new.person
                          => i = q.invitation
      BY <1>0, <2>1, <2>2, <2>4 DEF Members!Pending
    <3> SUFFICES ASSUME NEW i \in 1..(n + 1), NEW j \in 1..(n + 1),
                        invitation'[i].status = "PENDING", invitation'[j].status = "PENDING",
                        invitation'[i].tenant = invitation'[j].tenant, invitation'[i].person = invitation'[j].person
                 PROVE  i = j
      BY <2>7 DEF OnePending
    <3>2. CASE i = n + 1 /\ j = n + 1
      BY <3>2
    <3>3. CASE i = n + 1 /\ j \in 1..n
      BY <2>7, <2>13, <3>1, <3>3
    <3>4. CASE j = n + 1 /\ i \in 1..n
      BY <2>7, <2>13, <3>1, <3>4
    <3>5. CASE i \in 1..n /\ j \in 1..n
      BY <1>0, <2>1, <2>13, <3>5 DEF OnePending
    <3> QED
      BY <3>2, <3>3, <3>4, <3>5
  <2>15. HeldByOne'
    <3> SUFFICES ASSUME NEW p \in MemberRequests
        PROVE  /\ accepting'[p].step = "inviting" => accepting'[p].tenant \in Tenants /\ accepting'[p].person \in People
               /\ accepting'[p].step = "accepting" => accepting'[p].invitation # 0
               /\ accepting'[p].invitation # 0 =>
                    /\ accepting'[p].invitation \in 1..(n + 1)
                    /\ invitation'[accepting'[p].invitation].status = "PENDING"
                    /\ \A s \in MemberRequests : s # p => accepting'[s].invitation # accepting'[p].invitation
      BY <2>7 DEF HeldByOne
    <3>1. accepting'[r].invitation = 0 /\ accepting'[r].step = "none"
      BY <2>11 DEF Members!Idle, Members!None
    <3>2. CASE p = r
      BY <3>1, <3>2
    <3>3. CASE p # r
      <4>1. accepting'[p] = accepting[p]
        BY <2>11, <3>3
      <4>2. accepting[p].invitation # 0 =>
              /\ accepting[p].invitation \in 1..n /\ invitation[accepting[p].invitation].status = "PENDING"
              /\ accepting[p].invitation # q.invitation
              /\ \A s \in MemberRequests : s # p => accepting[s].invitation # accepting[p].invitation
        BY <1>0, <2>0, <2>1, <3>3 DEF HeldByOne
      <4>3. accepting[p].invitation # 0 => invitation'[accepting[p].invitation] = invitation[accepting[p].invitation]
        BY <2>8, <4>2
      <4>4. \A s \in MemberRequests : s = r \/ accepting'[s] = accepting[s]
        BY <2>11
      <4> QED
        BY <1>0, <3>1, <4>1, <4>2, <4>3, <4>4 DEF HeldByOne
    <3> QED
      BY <3>2, <3>3
  <2>16. SpentWhenAccepted'
    <3> SUFFICES ASSUME NEW i \in 1..(n + 1)
        PROVE  /\ spent'[i] = IF invitation'[i].status = "ACCEPTED" THEN 1 ELSE 0
               /\ invitation'[i].status = "ACCEPTED" =>
                    /\ invitation'[i].person \in users
                    /\ invitation'[i].role \in membership[<<invitation'[i].tenant, invitation'[i].person>>]
      BY <2>4, <2>7 DEF SpentWhenAccepted
    <3>1. CASE i = n + 1
      BY <2>5, <2>7, <2>10, <3>1
    <3>2. CASE i \in 1..n /\ i = q.invitation
      <4>1. i # 0 /\ invitation[i].status = "PENDING" /\ invitation'[i].status = "REVOKED"
        BY <2>9, <3>2
      <4>2. spent'[i] = 0
        BY <1>0, <2>1, <2>10, <3>2, <4>1 DEF SpentWhenAccepted
      <4> QED
        BY <4>1, <4>2
    <3>3. CASE i \in 1..n /\ i # q.invitation
      BY <1>0, <2>1, <2>8, <2>10, <3>3 DEF SpentWhenAccepted
    <3> QED
      BY <3>1, <3>2, <3>3
  <2> QED
    BY <2>12, <2>14, <2>15, <2>16 DEF MembersInv
<1>8. ASSUME NEW r \in MemberRequests, Members!CommitAccept(r) PROVE MembersInv'
  <2>0. PICK i \in 1..Len(invitation) : i = accepting[r].invitation /\ invitation[i].status = "PENDING"
    BY <1>0, <1>8 DEF HeldByOne, Members!CommitAccept
  <2>1. PICK v \in MemberRow : v = invitation[i]
    BY <1>0
  <2>2. PICK k \in Tenants \X People : k = <<v.tenant, v.person>>
    BY DEF MemberRow
  <2>3. /\ users' = users \cup {v.person} /\ membership' = [membership EXCEPT ![k] = membership[k] \cup {v.role}]
        /\ invitation' = [invitation EXCEPT ![i].status = "ACCEPTED"]
        /\ spent' = [spent EXCEPT ![i] = spent[i] + 1]
        /\ accepting' = [accepting EXCEPT ![r] = Members!Idle]
    BY <1>8, <2>0, <2>1, <2>2 DEF Members!CommitAccept
  <2>4. PICK w \in MemberRow : /\ w = [v EXCEPT !.status = "ACCEPTED"] /\ w.status = "ACCEPTED"
                               /\ w.tenant = v.tenant /\ w.person = v.person /\ w.role = v.role
    <3> DEFINE w == [v EXCEPT !.status = "ACCEPTED"]
    <3>1. /\ w \in MemberRow /\ w.status = "ACCEPTED"
          /\ w.tenant = v.tenant /\ w.person = v.person /\ w.role = v.role
      BY DEF MemberRow
    <3>2. w = [v EXCEPT !.status = "ACCEPTED"]
      OBVIOUS
    <3> HIDE DEF w
    <3> QED
      BY <3>1, <3>2
  <2>5. invitation' = [invitation EXCEPT ![i] = w]
    BY <2>1, <2>3, <2>4
  <2>6. /\ invitation' \in Seq(MemberRow) /\ Len(invitation') = Len(invitation) /\ invitation'[i] = w
        /\ \A j \in 1..Len(invitation) : j # i => invitation'[j] = invitation[j]
    BY <1>0, <2>5 DEF MemberTypes
  <2>7. /\ membership' \in [Tenants \X People -> SUBSET (Roles \cup {"owner"})]
        /\ \A m \in Tenants \X People : membership[m] \subseteq membership'[m]
        /\ v.role \in membership'[k]
    BY <1>0, <2>2, <2>3 DEF MemberTypes, MemberRow
  <2>8. /\ spent' \in Seq(Nat) /\ DOMAIN spent' = 1..Len(invitation) /\ spent'[i] = 1
        /\ \A j \in 1..Len(invitation) : j # i => spent'[j] = spent[j]
    <3>1. spent[i] = 0
      BY <1>0, <2>0 DEF SpentWhenAccepted
    <3>2. spent \in Seq(Nat) /\ DOMAIN spent = 1..Len(invitation) /\ spent' = [spent EXCEPT ![i] = 1]
      BY <1>0, <2>3, <3>1 DEF MemberTypes
    <3> QED
      BY <3>2
  <2>9. /\ accepting' \in [MemberRequests -> Asked] /\ accepting'[r] = Members!Idle
         /\ \A p \in MemberRequests : p # r => accepting'[p] = accepting[p]
    BY <1>0, <2>3 DEF MemberTypes, Members!Idle, Members!None, Asked
  <2>10. MemberTypes'
    BY <2>6, <2>7, <2>8, <2>9 DEF MemberTypes
  <2>11. OnePending'
    <3>1. \A j \in 1..Len(invitation) : invitation'[j].status = "PENDING" => invitation'[j] = invitation[j]
      BY <2>4, <2>6
    <3> QED
      BY <1>0, <2>6, <3>1 DEF OnePending
  <2>12. HeldByOne'
    <3> SUFFICES ASSUME NEW p \in MemberRequests
        PROVE  /\ accepting'[p].step = "inviting" => accepting'[p].tenant \in Tenants /\ accepting'[p].person \in People
               /\ accepting'[p].step = "accepting" => accepting'[p].invitation # 0
               /\ accepting'[p].invitation # 0 =>
                    /\ accepting'[p].invitation \in 1..Len(invitation)
                    /\ invitation'[accepting'[p].invitation].status = "PENDING"
                    /\ \A s \in MemberRequests : s # p => accepting'[s].invitation # accepting'[p].invitation
      BY <2>6 DEF HeldByOne
    <3>1. accepting'[r].invitation = 0 /\ accepting'[r].step = "none"
      BY <2>9 DEF Members!Idle, Members!None
    <3>2. CASE p = r
      BY <3>1, <3>2
    <3>3. CASE p # r
      <4>1. accepting'[p] = accepting[p]
        BY <2>9, <3>3
      <4>2. accepting[p].invitation # 0 =>
              /\ accepting[p].invitation \in 1..Len(invitation)
              /\ invitation[accepting[p].invitation].status = "PENDING"
              /\ accepting[p].invitation # i
              /\ \A s \in MemberRequests : s # p => accepting[s].invitation # accepting[p].invitation
        BY <1>0, <2>0, <3>3 DEF HeldByOne
      <4>3. accepting[p].invitation # 0 => invitation'[accepting[p].invitation] = invitation[accepting[p].invitation]
        BY <2>6, <4>2
      <4>4. \A s \in MemberRequests : s = r \/ accepting'[s] = accepting[s]
        BY <2>9
      <4> QED
        BY <1>0, <3>1, <4>1, <4>2, <4>3, <4>4 DEF HeldByOne
    <3> QED
      BY <3>2, <3>3
  <2>13. SpentWhenAccepted'
    <3> SUFFICES ASSUME NEW j \in 1..Len(invitation)
        PROVE  /\ spent'[j] = IF invitation'[j].status = "ACCEPTED" THEN 1 ELSE 0
               /\ invitation'[j].status = "ACCEPTED" =>
                    /\ invitation'[j].person \in users'
                    /\ invitation'[j].role \in membership'[<<invitation'[j].tenant, invitation'[j].person>>]
      BY <2>6 DEF SpentWhenAccepted
    <3>1. CASE j = i
      <4>1. invitation'[j] = w /\ spent'[j] = 1 /\ <<w.tenant, w.person>> = k
        BY <2>2, <2>4, <2>6, <2>8, <3>1
      <4>2. w.person \in users' /\ w.role \in membership'[k] /\ w.status = "ACCEPTED"
        BY <2>3, <2>4, <2>7
      <4> QED
        BY <4>1, <4>2
    <3>2. CASE j # i
      <4>1. <<invitation[j].tenant, invitation[j].person>> \in Tenants \X People
        BY <1>0 DEF MemberRow
      <4> QED
        BY <1>0, <2>3, <2>6, <2>7, <2>8, <3>2, <4>1 DEF SpentWhenAccepted
    <3> QED
      BY <3>1, <3>2
  <2> QED
    BY <2>10, <2>11, <2>12, <2>13 DEF MembersInv
<1> QED
  BY <1>1, <1>2, <1>3, <1>4, <1>5, <1>6, <1>7, <1>8 DEF Members!Next

LEMMA MembersImply == MembersInv => Members!InvitationsAreSpentOnce
<1> SUFFICES ASSUME MembersInv PROVE Members!InvitationsAreSpentOnce
  OBVIOUS
<1>1. DOMAIN invitation = 1..Len(invitation)
  BY DEF MembersInv, MemberTypes
<1>2. ASSUME NEW t \in Tenants, NEW p \in People PROVE Members!Cardinality(Members!Pending(t, p)) <= 1
  <2> DEFINE S == Members!Pending(t, p)
  <2>1. \A i, j \in S : i = j
    BY <1>1 DEF MembersInv, OnePending, Members!Pending
  <2> HIDE DEF S
  <2>2. Cardinality(S) <= 1
    <3>1. CASE S = {}
      <4>1. Cardinality(S) = 0
        BY <3>1, FS_EmptySet
      <4> QED
        BY <4>1
    <3>2. ASSUME NEW i \in S PROVE Cardinality(S) <= 1
      <4>1. S = {i}
        BY <2>1
      <4>2. Cardinality({i}) = 1
        BY FS_Singleton
      <4> QED
        BY <4>1, <4>2
    <3> QED
      BY <3>1, <3>2
  <2> QED
    BY <2>2 DEF S, Members!Cardinality, Cardinality
<1> QED
  BY <1>1, <1>2 DEF MembersInv, SpentWhenAccepted, Members!InvitationsAreSpentOnce

(* However many requests race for it: a code, a sign-in to complete and an  *)
(* invitation are each used once.                                           *)
THEOREM UsedOnce == PlatformSpec => []SpentOnce
<1>1. PlatformInit => SignInInv /\ MembersInv
  BY OnlySignIn, OnlyMembers, SignInInit, MembersInit
<1>2. SignInInv /\ MembersInv /\ [PlatformNext]_platform => SignInInv' /\ MembersInv'
  BY OnlySignIn, OnlyMembers, SignInStep, MembersStep
<1>3. SignInInv /\ MembersInv => SpentOnce
  BY MembersImply DEF SignInInv, OpenedOnce, OpenedBySpent, SignIn!SpentOnce, SpentOnce
<1> QED
  BY <1>1, <1>2, <1>3, PTL DEF PlatformSpec

(***************************************************************************)
(* What is recorded of another (OpeningBalances, Files).                   *)
(***************************************************************************)
OpeningEntry ==
  [status : Openings!Editable \cup {Openings!None, "POSTED"}, lines : OpeningTotals \cup {Openings!Unbalanced},
   author : Keepers \cup {Openings!None}, approver : Keepers \cup {Openings!None},
   approved : OpeningTotals \cup {Openings!Unbalanced}]

MakingSet ==
  [step : {Openings!None, "checked", "drafted"}, set : OpeningSets \cup {Openings!None},
   total : OpeningTotals \cup {Openings!Unbalanced}, entry : OpeningEntries \cup {Openings!None}]

OpeningTypes ==
  /\ set \in [OpeningSets -> [status : {Openings!None, "VALIDATED", "POSTED"},
                              total : OpeningTotals \cup {Openings!Unbalanced},
                              entry : OpeningEntries \cup {Openings!None}]]
  /\ creating \in [Keepers -> MakingSet]
  /\ postingSet \in [Keepers -> [step : {Openings!None, "read", "posted"}, set : OpeningSets \cup {Openings!None}]]

(* A set that is being made is not there yet, and nobody else is making it; *)
(* a set that is there has an entry for good, posted once the set is; a     *)
(* call that has posted the entry of a set finds it posted.                 *)
BeingMade ==
  \A u \in Keepers : creating[u].step # Openings!None =>
    /\ creating[u].set \in OpeningSets /\ set[creating[u].set] = Openings!NoSet
    /\ \A v \in Keepers : v # u /\ creating[v].step # Openings!None => creating[v].set # creating[u].set
    /\ creating[u].step = "drafted" => creating[u].entry \in OpeningEntries
OfItsEntry ==
  \A s \in OpeningSets :
    /\ set[s].status # Openings!None => set[s].entry \in OpeningEntries
    /\ set[s].status = "POSTED" => entry[set[s].entry].status = "POSTED"
BeingPosted ==
  \A u \in Keepers : postingSet[u].step # Openings!None =>
    /\ postingSet[u].set \in OpeningSets /\ set[postingSet[u].set].status # Openings!None
    /\ postingSet[u].step = "posted" => entry[set[postingSet[u].set].entry].status = "POSTED"

OpeningsInv == entry \in [OpeningEntries -> OpeningEntry] /\ OpeningTypes /\ BeingMade /\ OfItsEntry /\ BeingPosted

LEMMA OpeningsInit == Openings!Init => OpeningsInv
<1> SUFFICES ASSUME Openings!Init PROVE OpeningsInv
  OBVIOUS
<1> USE DEF Openings!Init, Openings!NoEntry, Openings!NoSet, Openings!NotCreating, Openings!NotPosting,
            Openings!None, Openings!Unbalanced
<1>1. entry \in [OpeningEntries -> OpeningEntry]
  BY DEF OpeningEntry
<1>2. OpeningTypes
  BY DEF OpeningTypes, MakingSet
<1>3. BeingMade /\ OfItsEntry /\ BeingPosted
  BY DEF BeingMade, OfItsEntry, BeingPosted
<1> QED
  BY <1>1, <1>2, <1>3 DEF OpeningsInv

(* A step on an entry alone, which is not taken back once it is posted.     *)
LEMMA EntryWritten ==
  ASSUME OpeningsInv, NEW e \in OpeningEntries, NEW x \in OpeningEntry, entry' = [entry EXCEPT ![e] = x],
         entry[e].status = "POSTED" => x.status = "POSTED"
  PROVE  /\ entry' \in [OpeningEntries -> OpeningEntry]
         /\ \A y \in OpeningEntries : entry[y].status = "POSTED" => entry'[y].status = "POSTED"
         /\ UNCHANGED <<set, creating, postingSet>> => OpeningsInv'
<1>1. entry' \in [OpeningEntries -> OpeningEntry]
  BY DEF OpeningsInv
<1>2. \A y \in OpeningEntries : entry[y].status = "POSTED" => entry'[y].status = "POSTED"
  BY DEF OpeningsInv
<1>3. ASSUME UNCHANGED <<set, creating, postingSet>> PROVE OpeningsInv'
  <2>1. set' = set /\ creating' = creating /\ postingSet' = postingSet
    BY <1>3
  <2>2. OpeningTypes' /\ BeingMade'
    BY <2>1 DEF OpeningsInv, OpeningTypes, BeingMade
  <2>3. OfItsEntry'
    BY <1>2, <2>1 DEF OpeningsInv, OfItsEntry, Openings!None
  <2>4. BeingPosted'
    BY <1>2, <2>1 DEF OpeningsInv, OfItsEntry, BeingPosted
  <2> QED
    BY <1>1, <2>2, <2>3, <2>4 DEF OpeningsInv
<1> QED
  BY <1>1, <1>2, <1>3

LEMMA OpeningsStep == OpeningsInv /\ [Openings!Next]_(Openings!vars) => OpeningsInv'
<1> SUFFICES ASSUME OpeningsInv, [Openings!Next]_(Openings!vars) PROVE OpeningsInv'
  OBVIOUS
<1>0. /\ \A e \in OpeningEntries : entry[e] \in OpeningEntry
      /\ OpeningTypes /\ BeingMade /\ OfItsEntry /\ BeingPosted
  BY DEF OpeningsInv
<1>d. ASSUME NEW u \in Keepers, NEW made \in OpeningTotals \cup {Openings!Unbalanced}
      PROVE  Openings!Draft(u, made) \in OpeningEntry
  BY <1>d DEF Openings!Draft, Openings!NoEntry, OpeningEntry, Openings!None, Openings!Unbalanced, Openings!Editable
<1>1. ASSUME NEW e \in OpeningEntries, NEW u \in Keepers, NEW made \in OpeningTotals,
             Openings!CreateDraft(u, e, made)
      PROVE  OpeningsInv'
  <2>1. entry' = [entry EXCEPT ![e] = Openings!Draft(u, made)] /\ UNCHANGED <<set, creating, postingSet>>
    BY <1>1 DEF Openings!CreateDraft
  <2>2. entry[e].status # "POSTED"
    BY <1>1 DEF Openings!CreateDraft, Openings!Free, Openings!NoEntry, Openings!None
  <2> QED
    BY <1>d, <2>1, <2>2, EntryWritten
<1>2. ASSUME NEW e \in OpeningEntries, NEW made \in OpeningTotals, Openings!UpdateDraft(e, made)
      PROVE  OpeningsInv'
  <2> DEFINE x == [entry[e] EXCEPT !.lines = made]
  <2>1. entry' = [entry EXCEPT ![e] = x] /\ UNCHANGED <<set, creating, postingSet>>
    BY <1>2 DEF Openings!UpdateDraft
  <2>2. x \in OpeningEntry /\ x.status = entry[e].status
    BY <1>0 DEF OpeningEntry
  <2> HIDE DEF x
  <2> QED
    BY <2>1, <2>2, EntryWritten
<1>3. ASSUME NEW e \in OpeningEntries, Openings!DiscardDraft(e) PROVE OpeningsInv'
  <2>1. entry' = [entry EXCEPT ![e] = Openings!NoEntry] /\ UNCHANGED <<set, creating, postingSet>>
    BY <1>3 DEF Openings!DiscardDraft
  <2>2. Openings!NoEntry \in OpeningEntry /\ entry[e].status # "POSTED"
    BY <1>3 DEF Openings!NoEntry, OpeningEntry, Openings!None, Openings!Unbalanced, Openings!Editable,
         Openings!DiscardDraft
  <2> QED
    BY <2>1, <2>2, EntryWritten
<1>4. ASSUME NEW e \in OpeningEntries, Openings!Submit(e) \/ Openings!Post(e)
             \/ (\E u \in Keepers : Openings!Approve(u, e))
      PROVE  OpeningsInv'
  <2>1. PICK x \in OpeningEntry : entry' = [entry EXCEPT ![e] = x] /\ UNCHANGED <<set, creating, postingSet>>
                                    /\ (entry[e].status = "POSTED" => x.status = "POSTED")
    <3>1. CASE Openings!Submit(e)
      <4> [entry[e] EXCEPT !.status = "SUBMITTED"] \in OpeningEntry
        BY <1>0 DEF OpeningEntry, Openings!Editable
      <4> WITNESS [entry[e] EXCEPT !.status = "SUBMITTED"] \in OpeningEntry
      <4> QED
        BY <1>0, <3>1 DEF Openings!Submit, OpeningEntry, Openings!Editable
    <3>2. CASE Openings!Post(e)
      <4> [entry[e] EXCEPT !.status = "POSTED"] \in OpeningEntry
        BY <1>0 DEF OpeningEntry, Openings!Editable
      <4> WITNESS [entry[e] EXCEPT !.status = "POSTED"] \in OpeningEntry
      <4> QED
        BY <1>0, <3>2 DEF Openings!Post, OpeningEntry
    <3>3. ASSUME NEW u \in Keepers, Openings!Approve(u, e)
          PROVE  \E x \in OpeningEntry : entry' = [entry EXCEPT ![e] = x] /\ UNCHANGED <<set, creating, postingSet>>
                                    /\ (entry[e].status = "POSTED" => x.status = "POSTED")
      <4> [entry[e] EXCEPT !.status = "APPROVED", !.approver = u, !.approved = entry[e].lines] \in OpeningEntry
        BY <1>0 DEF OpeningEntry, Openings!Editable
      <4> WITNESS [entry[e] EXCEPT !.status = "APPROVED", !.approver = u, !.approved = entry[e].lines] \in OpeningEntry
      <4> QED
        BY <1>0, <3>3 DEF Openings!Approve, OpeningEntry, Openings!Editable
    <3> QED
      BY <1>4, <3>1, <3>2, <3>3
  <2> QED
    BY <2>1, EntryWritten
<1>7. ASSUME NEW u \in Keepers, NEW s \in OpeningSets, Openings!ReadSet(u, s) PROVE OpeningsInv'
  <2>1. /\ postingSet' = [postingSet EXCEPT ![u] = [step |-> "read", set |-> s]]
        /\ set[s].status = "VALIDATED" /\ entry' = entry /\ set' = set /\ creating' = creating
    BY <1>7 DEF Openings!ReadSet
  <2>2. OpeningTypes' /\ BeingMade' /\ OfItsEntry'
    BY <1>0, <2>1 DEF OpeningTypes, BeingMade, OfItsEntry
  <2>3. BeingPosted'
    BY <1>0, <2>1 DEF OpeningTypes, BeingPosted, Openings!None
  <2> QED
    BY <2>1, <2>2, <2>3 DEF OpeningsInv
<1>8. ASSUME NEW u \in Keepers, NEW s \in OpeningSets, NEW total \in OpeningTotals, Openings!BeginOpening(u, s, total)
      PROVE  OpeningsInv'
  <2>1. /\ creating' = [creating EXCEPT ![u] = [step |-> "checked", set |-> s, total |-> total, entry |-> Openings!None]]
        /\ set[s] = Openings!NoSet /\ \A v \in Keepers : creating[v].set # s
        /\ entry' = entry /\ set' = set /\ postingSet' = postingSet
    BY <1>8 DEF Openings!BeginOpening
  <2>2. OpeningTypes'
    BY <1>0, <2>1 DEF OpeningTypes, MakingSet
  <2>4. OfItsEntry' /\ BeingPosted'
    BY <1>0, <2>1 DEF BeingPosted, OfItsEntry
  <2>3. BeingMade'
    BY <1>0, <2>1 DEF OpeningTypes, BeingMade
  <2> QED
    BY <2>1, <2>2, <2>3, <2>4 DEF OpeningsInv
<1>9. ASSUME NEW u \in Keepers, NEW e \in OpeningEntries, Openings!DraftOpening(u, e) PROVE OpeningsInv'
  <2>1. /\ creating' = [creating EXCEPT ![u].step = "drafted", ![u].entry = e]
        /\ creating[u].step = "checked" /\ set' = set /\ postingSet' = postingSet
        /\ entry' = [entry EXCEPT ![e] = Openings!Draft(u, creating[u].total)]
        /\ entry[e].status # "POSTED"
    BY <1>9 DEF Openings!DraftOpening, Openings!Free, Openings!NoEntry, Openings!None
  <2>2. Openings!Draft(u, creating[u].total) \in OpeningEntry
    BY <1>0, <1>d DEF OpeningTypes, MakingSet
  <2>3. /\ entry' \in [OpeningEntries -> OpeningEntry]
        /\ \A y \in OpeningEntries : entry[y].status = "POSTED" => entry'[y].status = "POSTED"
    BY <2>1, <2>2, EntryWritten
  <2>8. PICK c \in MakingSet : /\ c.step = "drafted" /\ c.entry = e /\ c.set = creating[u].set
                               /\ creating' = [creating EXCEPT ![u] = c]
    <3>1. creating[u] \in MakingSet
      BY <1>0 DEF OpeningTypes
    <3> DEFINE c == [step |-> "drafted", set |-> creating[u].set, total |-> creating[u].total, entry |-> e]
    <3>2. c \in MakingSet
      BY <3>1 DEF MakingSet
    <3>5. [creating[u] EXCEPT !.step = "drafted"] =
            [step |-> "drafted", set |-> creating[u].set, total |-> creating[u].total, entry |-> creating[u].entry]
      BY <3>1 DEF MakingSet
    <3>6. [[step |-> "drafted", set |-> creating[u].set, total |-> creating[u].total, entry |-> creating[u].entry]
            EXCEPT !.entry = e] = c
      OBVIOUS
    <3>3. [[creating[u] EXCEPT !.step = "drafted"] EXCEPT !.entry = e] = c
      BY ONLY <3>5, <3>6, Zenon
    <3>4. creating' = [creating EXCEPT ![u] = [[creating[u] EXCEPT !.step = "drafted"] EXCEPT !.entry = e]]
      BY <1>0, <2>1 DEF OpeningTypes
    <3> QED
      BY <3>2, <3>3, <3>4
  <2>4. OpeningTypes'
    BY <1>0, <2>1, <2>8, ZenonT(60) DEF OpeningTypes
  <2>6. /\ creating'[u].step = "drafted" /\ creating'[u].entry = e /\ creating'[u].set = creating[u].set
        /\ \A v \in Keepers : v # u => creating'[v] = creating[v]
    BY <1>0, <2>1, <2>8 DEF OpeningTypes
  <2>7. BeingMade'
    <3> SUFFICES ASSUME NEW w \in Keepers, creating'[w].step # Openings!None
                 PROVE  /\ creating'[w].set \in OpeningSets /\ set[creating'[w].set] = Openings!NoSet
                        /\ \A v \in Keepers : v # w /\ creating'[v].step # Openings!None =>
                             creating'[v].set # creating'[w].set
                        /\ creating'[w].step = "drafted" => creating'[w].entry \in OpeningEntries
      BY <2>1 DEF BeingMade
    <3>1. /\ \A v \in Keepers : creating'[v].set = creating[v].set
          /\ \A v \in Keepers : creating'[v].step # Openings!None => creating[v].step # Openings!None
      BY <2>1, <2>6 DEF Openings!None
    <3>2. creating'[w].step = "drafted" => creating'[w].entry \in OpeningEntries
      BY <1>0, <2>6 DEF BeingMade, Openings!None
    <3> QED
      BY <1>0, <3>1, <3>2 DEF BeingMade
  <2>5. OfItsEntry' /\ BeingPosted'
    BY <1>0, <2>1, <2>3 DEF OfItsEntry, BeingPosted, Openings!None
  <2> QED
    BY <2>3, <2>4, <2>5, <2>7 DEF OpeningsInv
<1>10. ASSUME NEW u \in Keepers, Openings!InsertOpening(u) PROVE OpeningsInv'
  <2>1. /\ creating' = [creating EXCEPT ![u] = Openings!NotCreating] /\ entry' = entry /\ postingSet' = postingSet
        /\ creating[u].set \in OpeningSets
        /\ set[creating[u].set] = Openings!NoSet /\ creating[u].entry \in OpeningEntries
        /\ \A v \in Keepers : v # u /\ creating[v].step # Openings!None => creating[v].set # creating[u].set
    BY <1>0, <1>10 DEF BeingMade, Openings!InsertOpening, Openings!None
  <2>2. CASE set' = set
    <3>1. OpeningTypes' /\ OfItsEntry' /\ BeingPosted'
      BY <1>0, <2>1, <2>2 DEF OpeningTypes, OfItsEntry, BeingPosted, Openings!NotCreating, MakingSet, Openings!Unbalanced
    <3>2. BeingMade'
      BY <1>0, <2>1, <2>2 DEF OpeningTypes, BeingMade, Openings!NotCreating, Openings!None
    <3> QED
      BY <2>1, <3>1, <3>2 DEF OpeningsInv
  <2>3. CASE set' = [set EXCEPT ![creating[u].set] =
                       [status |-> "VALIDATED", total |-> creating[u].total, entry |-> creating[u].entry]]
    <3>1. OpeningTypes'
      BY <1>0, <2>1, <2>3 DEF OpeningTypes, Openings!NotCreating, MakingSet, Openings!Unbalanced
    <3>2. \A s \in OpeningSets : s # creating[u].set => set'[s] = set[s]
      BY <2>3
    <3>3. /\ set'[creating[u].set].status = "VALIDATED" /\ set'[creating[u].set].entry = creating[u].entry
          /\ set[creating[u].set].status = Openings!None
      BY <1>0, <2>1, <2>3 DEF OpeningTypes, Openings!NoSet
    <3>4. BeingMade'
      BY <1>0, <2>1, <3>2 DEF OpeningTypes, BeingMade, Openings!NotCreating, Openings!None
    <3>5. OfItsEntry'
      BY <1>0, <2>1, <3>2, <3>3 DEF OfItsEntry
    <3>6. BeingPosted'
      BY <1>0, <2>1, <3>2, <3>3 DEF BeingPosted, Openings!None
    <3> QED
      BY <2>1, <3>1, <3>4, <3>5, <3>6 DEF OpeningsInv
  <2> QED
    BY <1>10, <2>2, <2>3 DEF Openings!InsertOpening
<1>11. ASSUME NEW u \in Keepers, Openings!PostItsEntry(u) PROVE OpeningsInv'
  <2> DEFINE e == set[postingSet[u].set].entry
             x == [entry[e] EXCEPT !.status = "POSTED"]
  <2>1. e \in OpeningEntries /\ set' = set /\ creating' = creating /\ postingSet[u].step = "read"
    BY <1>0, <1>11 DEF BeingPosted, OfItsEntry, Openings!PostItsEntry, Openings!None
  <2>2. CASE entry' = [entry EXCEPT ![e] = x] /\ postingSet' = [postingSet EXCEPT ![u].step = "posted"]
    <3>1. x \in OpeningEntry /\ x.status = "POSTED"
      BY <1>0, <2>1 DEF OpeningEntry
    <3>2. entry'[e].status = "POSTED"
      BY <2>1, <2>2, <3>1 DEF OpeningsInv
    <3> HIDE DEF x
    <3>3. /\ entry' \in [OpeningEntries -> OpeningEntry]
          /\ \A y \in OpeningEntries : entry[y].status = "POSTED" => entry'[y].status = "POSTED"
      BY <2>1, <2>2, <3>1, EntryWritten
    <3>4. OpeningTypes' /\ BeingMade'
      BY <1>0, <2>1, <2>2 DEF OpeningTypes, BeingMade
    <3>5. OfItsEntry'
      BY <1>0, <2>1, <3>3 DEF OfItsEntry, Openings!None
    <3>6. BeingPosted'
      BY <1>0, <2>1, <2>2, <3>2, <3>3 DEF OpeningTypes, BeingPosted, OfItsEntry, Openings!None
    <3> QED
      BY <3>3, <3>4, <3>5, <3>6 DEF OpeningsInv
  <2>3. CASE entry' = entry /\ postingSet' = [postingSet EXCEPT ![u] = Openings!NotPosting]
    <3>1. OpeningTypes' /\ BeingMade' /\ OfItsEntry'
      BY <1>0, <2>1, <2>3 DEF OpeningTypes, OfItsEntry, BeingMade, Openings!NotPosting
    <3>2. BeingPosted'
      BY <1>0, <2>1, <2>3 DEF OpeningTypes, BeingPosted, Openings!NotPosting
    <3> QED
      BY <2>3, <3>1, <3>2 DEF OpeningsInv
  <2> QED
    BY <1>11, <2>2, <2>3 DEF Openings!PostItsEntry
<1>12. ASSUME NEW u \in Keepers, Openings!MarkSet(u) PROVE OpeningsInv'
  <2> DEFINE s == postingSet[u].set
  <2>1. /\ set' = [set EXCEPT ![s].status = "POSTED"] /\ entry' = entry /\ creating' = creating
        /\ postingSet' = [postingSet EXCEPT ![u] = Openings!NotPosting]
        /\ s \in OpeningSets /\ set[s].status # Openings!None /\ entry[set[s].entry].status = "POSTED"
    BY <1>0, <1>12 DEF BeingPosted, Openings!MarkSet, Openings!None
  <2> HIDE DEF s
  <2>2. OpeningTypes'
    BY <1>0, <2>1 DEF OpeningTypes, Openings!NotPosting
  <2>3. /\ \A q \in OpeningSets : set'[q].entry = set[q].entry /\ (q # s => set'[q] = set[q])
        /\ set'[s].status = "POSTED"
    BY <1>0, <2>1 DEF OpeningTypes
  <2>4. BeingMade'
    <3>1. \A q \in OpeningSets : set[q] = Openings!NoSet => set'[q] = set[q]
      BY <2>1, <2>3 DEF Openings!NoSet
    <3> QED
      BY <1>0, <2>1, <3>1 DEF BeingMade
  <2>5. OfItsEntry'
    BY <1>0, <2>1, <2>3 DEF OfItsEntry
  <2>6. BeingPosted'
    <3>1. \A q \in OpeningSets : set[q].status # Openings!None => set'[q].status # Openings!None
      BY <2>3 DEF Openings!None
    <3> QED
      BY <1>0, <2>1, <2>3, <3>1 DEF OpeningTypes, BeingPosted, Openings!NotPosting
  <2> QED
    BY <2>1, <2>2, <2>4, <2>5, <2>6 DEF OpeningsInv
<1>13. ASSUME NEW u \in Keepers, Openings!Crash(u) PROVE OpeningsInv'
  <2>1. /\ creating' = [creating EXCEPT ![u] = Openings!NotCreating]
        /\ postingSet' = [postingSet EXCEPT ![u] = Openings!NotPosting] /\ entry' = entry /\ set' = set
    BY <1>13 DEF Openings!Crash
  <2>2. OpeningTypes' /\ OfItsEntry'
    BY <1>0, <2>1 DEF OpeningTypes, OfItsEntry, Openings!NotCreating, MakingSet, Openings!NotPosting, Openings!Unbalanced
  <2>3. BeingMade'
    BY <1>0, <2>1 DEF OpeningTypes, BeingMade, Openings!NotCreating, Openings!None
  <2>4. BeingPosted'
    BY <1>0, <2>1 DEF OpeningTypes, BeingPosted, Openings!NotPosting
  <2> QED
    BY <2>1, <2>2, <2>3, <2>4 DEF OpeningsInv
<1>14. CASE UNCHANGED Openings!vars
  BY <1>14 DEF OpeningsInv, OpeningTypes, BeingMade, OfItsEntry, BeingPosted, Openings!vars
<1> QED
  BY <1>1, <1>2, <1>3, <1>4, <1>7, <1>8, <1>9, <1>10, <1>11, <1>12, <1>13, <1>14 DEF Openings!Next

(* A file being deleted is locked by one session; the store confirmed the   *)
(* hash of completed files only.                                            *)
FileRow == [state : {Files!None, "PENDING", "COMPLETED"}, sha256 : Contents \cup {Files!None}]
FileTypes ==
  /\ file \in [FileIds -> FileRow]
  /\ object \in [FileIds -> Contents \cup {Files!None}]
  /\ links \subseteq FileIds \X FileDocuments

Deletions ==
  /\ deleting \in [Deleters -> [file : FileIds \cup {Files!None}, step : {Files!None, "rows", "removed"}]]
  /\ \A s, t \in Deleters :
       s # t /\ deleting[s].step # Files!None /\ deleting[t].step # Files!None => deleting[t].file # deleting[s].file
  /\ \A s \in Deleters : deleting[s].step # Files!None => deleting[s].file \in FileIds

OnlyCompletedVerified == \A f \in FileIds : f \in verified => file[f].state = "COMPLETED"

FilesInv == FileTypes /\ Deletions /\ OnlyCompletedVerified /\ Files!AttachmentsAreThere

LEMMA FilesInit == Files!Init => FilesInv
  BY DEF Files!Init, FilesInv, FileTypes, FileRow, Deletions, OnlyCompletedVerified, Files!NoFile, Files!Idle,
         Files!None, Files!AttachmentsAreThere

(* A session ends its deletion, or begins with a file nobody has locked.    *)
LEMMA DeletionEnds ==
  ASSUME Deletions, NEW s \in Deleters, deleting' = [deleting EXCEPT ![s] = Files!Idle]
  PROVE  /\ Deletions'
         /\ \A t \in Deleters : deleting'[t] = IF t = s THEN Files!Idle ELSE deleting[t]
<1>1. /\ deleting' \in [Deleters -> [file : FileIds \cup {Files!None}, step : {Files!None, "rows", "removed"}]]
      /\ \A t \in Deleters : deleting'[t] = IF t = s THEN Files!Idle ELSE deleting[t]
  BY DEF Deletions, Files!Idle
<1> QED
  BY <1>1 DEF Deletions, Files!Idle

LEMMA FilesStep == FilesInv /\ [Files!Next]_(Files!vars) => FilesInv'
<1> SUFFICES ASSUME FilesInv, [Files!Next]_(Files!vars) PROVE FilesInv'
  OBVIOUS
<1> USE DEF Files!None
<1>0. FileTypes /\ Deletions /\ OnlyCompletedVerified /\ Files!AttachmentsAreThere /\ Files!None \notin Contents
  BY FilesAssumption DEF FilesInv, Files!ContentsAssumption
<1>1. ASSUME NEW f \in FileIds, NEW c \in Contents \cup {Files!None}, Files!CreateUploadUrl(f, c) PROVE FilesInv'
  <2>1. /\ file' = [file EXCEPT ![f] = [state |-> "PENDING", sha256 |-> c]] /\ file[f] = Files!NoFile
        /\ UNCHANGED <<object, links, deleting, verified, torn>>
    BY <1>1 DEF Files!CreateUploadUrl
  <2>2. FileTypes' /\ Deletions' /\ OnlyCompletedVerified'
    BY <1>0, <2>1 DEF FileTypes, FileRow, Deletions, OnlyCompletedVerified, Files!NoFile
  <2>3. Files!AttachmentsAreThere'
    BY <1>0, <2>1 DEF FileTypes, FileRow, Files!AttachmentsAreThere, Files!Gone, Files!Removed, Files!NoFile
  <2> QED
    BY <2>2, <2>3 DEF FilesInv
<1>2. ASSUME NEW f \in FileIds, NEW c \in Contents, Files!Upload(f, c) PROVE FilesInv'
  <2>1. /\ object' = [object EXCEPT ![f] = c] /\ verified' = verified \ {f} /\ torn' = torn \ {f}
        /\ UNCHANGED <<file, links, deleting>>
    BY <1>2 DEF Files!Upload
  <2>2. FileTypes' /\ Deletions' /\ OnlyCompletedVerified'
    BY <1>0, <2>1 DEF FileTypes, Deletions, OnlyCompletedVerified
  <2>3. \A g \in FileIds \ {f} : object'[g] = object[g] /\ (Files!Gone(g) => Files!Gone(g)')
    BY <1>0, <2>1 DEF FileTypes, Files!Gone, Files!Removed
  <2>4. object'[f] # Files!None /\ f \notin verified'
    BY <1>0, <2>1 DEF FileTypes
  <2>5. Files!AttachmentsAreThere'
    BY <1>0, <2>1, <2>3, <2>4 DEF Files!AttachmentsAreThere
  <2> QED
    BY <2>2, <2>5 DEF FilesInv
<1>3. ASSUME NEW f \in FileIds, NEW c \in Contents \cup {Files!None}, NEW head \in Contents \cup {Files!None},
             NEW ds \in SUBSET FileDocuments, Files!CompleteUpload(f, c, head, ds)
      PROVE  FilesInv'
  <2>1. links' = links \cup ({f} \X ds) /\ UNCHANGED <<object, deleting, torn>>
    BY <1>3 DEF Files!CompleteUpload
  <2>2. CASE file[f].state = "COMPLETED" /\ UNCHANGED <<file, verified>>
    <3>1. FileTypes' /\ Deletions' /\ OnlyCompletedVerified'
      BY <1>0, <2>1, <2>2 DEF FileTypes, Deletions, OnlyCompletedVerified
    <3>2. Files!AttachmentsAreThere'
      BY <1>0, <2>1, <2>2 DEF Files!AttachmentsAreThere, Files!Gone, Files!Removed
    <3> QED
      BY <3>1, <3>2 DEF FilesInv
  <2>3. ASSUME NEW declared \in Contents \cup {Files!None}, Files!Arrived(f, declared, head),
               file' = [file EXCEPT ![f] = [state |-> "COMPLETED",
                          sha256 |-> IF declared # Files!None THEN declared ELSE head]],
               verified' = IF head = Files!None THEN verified ELSE verified \cup {f},
               file[f].state = "PENDING"
        PROVE  FilesInv'
    <3>1. /\ object[f] # Files!None /\ head \in {Files!None, object[f]}
          /\ declared = Files!None \/ head = Files!None \/ head = declared
      BY <2>3 DEF Files!Arrived
    <3>2. PICK hash \in Contents \cup {Files!None} :
            /\ file' = [file EXCEPT ![f] = [state |-> "COMPLETED", sha256 |-> hash]]
            /\ head # Files!None => hash = object[f]
      BY <2>3, <3>1
    <3>3. FileTypes' /\ Deletions'
      BY <1>0, <2>1, <3>2 DEF FileTypes, FileRow, Deletions
    <3>4. /\ file'[f].state = "COMPLETED" /\ file'[f].sha256 = hash
          /\ \A g \in FileIds \ {f} : file'[g] = file[g]
      BY <1>0, <3>2 DEF FileTypes
    <3>5. OnlyCompletedVerified'
      BY <1>0, <2>3, <3>4 DEF OnlyCompletedVerified
    <3>6. \A g \in FileIds : Files!Gone(g) => Files!Gone(g)'
      BY <2>1 DEF Files!Gone, Files!Removed
    <3>7. f \in verified' => object[f] = hash
      BY <1>0, <2>3, <3>2 DEF OnlyCompletedVerified
    <3>8. Files!AttachmentsAreThere'
      BY <1>0, <2>1, <2>3, <3>1, <3>4, <3>6, <3>7 DEF Files!AttachmentsAreThere
    <3> QED
      BY <3>3, <3>5, <3>8 DEF FilesInv
  <2>4. ASSUME ~(file[f].state = "COMPLETED" /\ UNCHANGED <<file, verified>>) PROVE FilesInv'
    <3>1. PICK declared : declared = IF c # Files!None THEN c ELSE file[f].sha256
      OBVIOUS
    <3>2. declared \in Contents \cup {Files!None}
      BY <1>0, <3>1 DEF FileTypes, FileRow
    <3>3. /\ Files!Arrived(f, declared, head) /\ file[f].state = "PENDING"
          /\ file' = [file EXCEPT ![f] = [state |-> "COMPLETED",
                        sha256 |-> IF declared # Files!None THEN declared ELSE head]]
          /\ verified' = IF head = Files!None THEN verified ELSE verified \cup {f}
      BY <1>3, <2>4, <3>1 DEF Files!CompleteUpload
    <3> QED
      BY <2>3, <3>2, <3>3
  <2> QED
    BY <2>2, <2>4
<1>4. ASSUME NEW d \in FileDocuments, Files!PostDocument(d) PROVE FilesInv'
  BY <1>0, <1>4
  DEF Files!PostDocument, FilesInv, FileTypes, Deletions, OnlyCompletedVerified, Files!AttachmentsAreThere,
      Files!Gone, Files!Removed
<1>5. ASSUME NEW f \in FileIds, Files!ExpireUrl(f) PROVE FilesInv'
  BY <1>0, <1>5
  DEF Files!ExpireUrl, FilesInv, FileTypes, Deletions, OnlyCompletedVerified, Files!AttachmentsAreThere,
      Files!Gone, Files!Removed
<1>6. ASSUME NEW s \in Deleters, NEW f \in FileIds, Files!DeleteRows(s, f) PROVE FilesInv'
  <2>1. /\ deleting' = [deleting EXCEPT ![s] = [file |-> f, step |-> "rows"]] /\ deleting[s] = Files!Idle
        /\ \A t \in Deleters : deleting[t].file # f
        /\ UNCHANGED <<file, object, links, verified, torn>>
    BY <1>6 DEF Files!DeleteRows, Files!Locked
  <2>2. Deletions'
    BY <1>0, <2>1 DEF Deletions, Files!Idle
  <2>3. \A g \in FileIds : Files!Gone(g) => Files!Gone(g)'
    BY <1>0, <2>1 DEF Deletions, Files!Gone, Files!Removed, Files!Idle
  <2>4. FileTypes' /\ OnlyCompletedVerified' /\ Files!AttachmentsAreThere'
    BY <1>0, <2>1, <2>3 DEF FileTypes, OnlyCompletedVerified, Files!AttachmentsAreThere
  <2> QED
    BY <2>2, <2>4 DEF FilesInv
<1>7. ASSUME NEW s \in Deleters, Files!RemoveObject(s) PROVE FilesInv'
  <2>1. PICK f \in FileIds : f = deleting[s].file
    BY <1>0, <1>7 DEF Deletions, Files!RemoveObject
  <2>2. /\ deleting[s].step = "rows" /\ object' = [object EXCEPT ![f] = Files!None]
        /\ deleting' = [deleting EXCEPT ![s] = [file |-> f, step |-> "removed"]]
        /\ UNCHANGED <<file, links, verified, torn>>
    <3>1. deleting[s] = [file |-> f, step |-> "rows"]
      BY <1>0, <1>7, <2>1 DEF Deletions, Files!RemoveObject
    <3>2. [deleting[s] EXCEPT !.step = "removed"] = [file |-> f, step |-> "removed"]
      BY <3>1
    <3> QED
      BY <1>7, <2>1, <3>1, <3>2 DEF Files!RemoveObject
  <2>3. Deletions'
    BY <1>0, <2>1, <2>2 DEF Deletions
  <2>4. \A g \in FileIds : Files!Gone(g) \/ g = f => Files!Gone(g)'
    BY <1>0, <2>1, <2>2 DEF Deletions, FileTypes, Files!Gone, Files!Removed
  <2>5. FileTypes' /\ OnlyCompletedVerified' /\ \A g \in FileIds \ {f} : object'[g] = object[g]
    BY <1>0, <2>2 DEF FileTypes, OnlyCompletedVerified
  <2>6. Files!AttachmentsAreThere'
    BY <1>0, <2>2, <2>4, <2>5 DEF Files!AttachmentsAreThere
  <2> QED
    BY <2>3, <2>5, <2>6 DEF FilesInv
<1>8. ASSUME NEW s \in Deleters, Files!CommitDelete(s) PROVE FilesInv'
  <2>1. PICK f \in FileIds : f = deleting[s].file
    BY <1>0, <1>8 DEF Deletions, Files!CommitDelete
  <2>2. /\ file' = [file EXCEPT ![f] = Files!NoFile] /\ links' = {l \in links : l[1] # f}
        /\ deleting' = [deleting EXCEPT ![s] = Files!Idle] /\ object' = object
        /\ verified' = verified \ {f} /\ torn' = torn \ {f}
    BY <1>8, <2>1 DEF Files!CommitDelete
  <2>3. Deletions' /\ \A t \in Deleters : deleting'[t] = IF t = s THEN Files!Idle ELSE deleting[t]
    BY <1>0, <2>2, DeletionEnds
  <2>4. \A g \in FileIds \ {f} : file'[g] = file[g] /\ (Files!Gone(g) => Files!Gone(g)')
    BY <1>0, <2>1, <2>2, <2>3 DEF FileTypes, Files!Gone, Files!Removed
  <2>5. FileTypes' /\ OnlyCompletedVerified' /\ file'[f].state # "COMPLETED"
    BY <1>0, <2>2 DEF FileTypes, FileRow, OnlyCompletedVerified, Files!NoFile
  <2>6. Files!AttachmentsAreThere'
    BY <1>0, <2>2, <2>4, <2>5 DEF FileTypes, Files!AttachmentsAreThere
  <2> QED
    BY <2>3, <2>5, <2>6 DEF FilesInv
<1>9. ASSUME NEW s \in Deleters, Files!RollbackDelete(s) PROVE FilesInv'
  <2>1. /\ deleting' = [deleting EXCEPT ![s] = Files!Idle]
        /\ torn' = torn \cup {f \in FileIds : Files!Removed(s, f)}
        /\ UNCHANGED <<file, object, links, verified>>
    BY <1>9 DEF Files!RollbackDelete
  <2>2. Deletions' /\ \A t \in Deleters : deleting'[t] = IF t = s THEN Files!Idle ELSE deleting[t]
    BY <1>0, <2>1, DeletionEnds
  <2>3. \A g \in FileIds : Files!Gone(g) => Files!Gone(g)'
    BY <2>1, <2>2 DEF Files!Gone, Files!Removed
  <2>4. FileTypes' /\ OnlyCompletedVerified' /\ Files!AttachmentsAreThere'
    BY <1>0, <2>1, <2>3 DEF FileTypes, OnlyCompletedVerified, Files!AttachmentsAreThere
  <2> QED
    BY <2>2, <2>4 DEF FilesInv
<1>10. CASE UNCHANGED Files!vars
  BY <1>0, <1>10
  DEF Files!vars, FilesInv, FileTypes, Deletions, OnlyCompletedVerified, Files!AttachmentsAreThere,
      Files!Gone, Files!Removed
<1> QED
  BY <1>1, <1>2, <1>3, <1>4, <1>5, <1>6, <1>7, <1>8, <1>9, <1>10 DEF Files!Next

(* However an opening entry's draft is edited, posted or discarded between  *)
(* the transactions of a call, and whenever a deletion stops between the    *)
(* object store and its commit, what is recorded of the other side is so.   *)
THEOREM RecordsAreTrue == PlatformSpec => []RecordedIsThere
<1>1. PlatformInit => OpeningsInv /\ FilesInv
  BY OnlyOpenings, OnlyFiles, OpeningsInit, FilesInit
<1>2. OpeningsInv /\ FilesInv /\ [PlatformNext]_platform => OpeningsInv' /\ FilesInv'
  BY OnlyOpenings, OnlyFiles, OpeningsStep, FilesStep
<1>3. OpeningsInv /\ FilesInv => RecordedIsThere
  BY DEF OpeningsInv, OfItsEntry, Openings!PostedSetsArePosted, FilesInv, RecordedIsThere
<1> QED
  BY <1>1, <1>2, <1>3, PTL DEF PlatformSpec
-----------------------------------------------------------------------------
(***************************************************************************)
(* Lines and what they were recorded under (TaxCodes, ChartOfAccounts).    *)
(***************************************************************************)
RateRow == [from : Int, to : Int, percent : Percents]
RatesApart ==
  /\ rates \in [TaxComponents -> SUBSET RateRow]
  /\ \A c \in TaxComponents : \A r, q \in rates[c] : r = q \/ r.to <= q.from \/ q.to <= r.from

(* A line that is taxed was resolved, and still resolves.                   *)
StillResolves ==
  /\ treatment \in [Codes -> {Taxes!None, "STANDARD", "ZERO_RATED"}]
  /\ \A x \in taxed : x.code # Taxes!None =>
       /\ x.code \in Codes /\ x.on \in Int /\ treatment[x.code] # Taxes!None
       /\ \A c \in Taxes!ComponentsOf(x.code) : Taxes!InForce(c, x.on) # {}

TaxesInv == RatesApart /\ StillResolves /\ Taxes!SnapshotsReproduce

LEMMA TaxesInit == Taxes!Init => TaxesInv
<1> SUFFICES ASSUME Taxes!Init PROVE TaxesInv
  OBVIOUS
<1>1. RatesApart
  BY DEF Taxes!Init, RatesApart
<1>2. StillResolves
  BY DEF Taxes!Init, StillResolves
<1>3. Taxes!SnapshotsReproduce
  BY DEF Taxes!Init, Taxes!SnapshotsReproduce
<1> QED
  BY <1>1, <1>2, <1>3 DEF TaxesInv

(* Where a rate is in force a new one is not, so what is resolved stays.    *)
LEMMA ResolvedStays ==
  ASSUME NEW k, NEW on, \A c \in Taxes!ComponentsOf(k) : Taxes!InForce(c, on)' = Taxes!InForce(c, on)
  PROVE  Taxes!ResolveCode(k, on)' = Taxes!ResolveCode(k, on)
<1>1. \A c \in Taxes!ComponentsOf(k) : Taxes!RateOn(c, on)' = Taxes!RateOn(c, on)
  BY DEF Taxes!RateOn
<1>2. Taxes!ComponentsOf(k)' = Taxes!ComponentsOf(k)
  BY DEF Taxes!ComponentsOf
<1> QED
  BY <1>1, <1>2 DEF Taxes!ResolveCode

(* The code a line is taxed under is one of the tenant's.                   *)
LEMMA DeterminedCode ==
  ASSUME NEW facts, NEW on PROVE Taxes!Determine(facts, on) \in Codes \cup {Taxes!None}
<1> DEFINE M == Taxes!Matching(facts, on)
           f == [r \in TaxRules |-> r.priority]
<1>1. M \subseteq TaxRules
  BY DEF Taxes!Matching
<1> HIDE DEF M
<1>2. \A x \in M : f[x] = x.priority /\ f[x] \in Nat
  BY <1>1, TaxesAssumption DEF Taxes!RulesAssumption
<1> HIDE DEF f
<1>a. IsFiniteSet(M)
  <2>1. IsFiniteSet(TaxRules)
    BY TaxesAssumption DEF Taxes!RulesAssumption, Taxes!IsFiniteSet, IsFiniteSet
  <2> QED
    BY ONLY <1>1, <2>1, FS_Subset
<1>3. M # {} => \E x \in M : \A y \in M : f[y] <= f[x]
  BY <1>2, <1>a, GreatestBy
<1>4. M # {} => (CHOOSE r \in M : \A q \in M : q.priority <= r.priority) \in TaxRules
  <2>1. M # {} => \E x \in M : \A y \in M : y.priority <= x.priority
    BY <1>2, <1>3
  <2> QED
    BY <1>1, <2>1
<1> QED
  BY <1>4, TaxesAssumption DEF Taxes!Determine, Taxes!RulesAssumption, M

LEMMA TaxesStep == TaxesInv /\ [Taxes!Next]_(Taxes!vars) => TaxesInv'
<1> SUFFICES ASSUME TaxesInv, [Taxes!Next]_(Taxes!vars) PROVE TaxesInv'
  OBVIOUS
<1>0. TaxDates \subseteq Int /\ Taxes!Never \in Int
  BY TaxesAssumption DEF Taxes!RulesAssumption, Taxes!Never
<1>1. ASSUME UNCHANGED <<treatment, rates, taxed>> PROVE TaxesInv'
  <2>1. treatment' = treatment /\ rates' = rates /\ taxed' = taxed
    BY <1>1
  <2>2. RatesApart'
    BY <2>1 DEF TaxesInv, RatesApart
  <2>3. StillResolves'
    BY <2>1 DEF TaxesInv, StillResolves, Taxes!InForce, Taxes!ComponentsOf
  <2>4. \A x \in taxed : Taxes!ResolveCode(x.code, x.on)' = Taxes!ResolveCode(x.code, x.on)
    BY <2>1, ResolvedStays DEF Taxes!InForce
  <2>5. Taxes!SnapshotsReproduce'
    BY <2>1, <2>4 DEF TaxesInv, Taxes!SnapshotsReproduce
  <2> QED
    BY <2>2, <2>3, <2>5 DEF TaxesInv
<1>2. ASSUME NEW k \in Codes, NEW t \in {"STANDARD", "ZERO_RATED"}, Taxes!CreateTaxCode(k, t) PROVE TaxesInv'
  <2>1. /\ treatment[k] = Taxes!None /\ treatment' = [treatment EXCEPT ![k] = t]
        /\ rates' = rates /\ taxed' = taxed
    BY <1>2 DEF Taxes!CreateTaxCode
  <2>2. RatesApart'
    BY <2>1 DEF TaxesInv, RatesApart
  <2>a. \A x \in taxed : x.code # Taxes!None => treatment'[x.code] = treatment[x.code]
    BY <2>1 DEF TaxesInv, StillResolves
  <2>3. StillResolves'
    <3>1. treatment' \in [Codes -> {Taxes!None, "STANDARD", "ZERO_RATED"}]
      BY <2>1 DEF TaxesInv, StillResolves
    <3> QED
      BY <2>1, <2>a, <3>1 DEF TaxesInv, StillResolves, Taxes!InForce, Taxes!ComponentsOf
  <2>4. \A x \in taxed : Taxes!ResolveCode(x.code, x.on)' = Taxes!ResolveCode(x.code, x.on)
    BY <2>1, ResolvedStays DEF Taxes!InForce
  <2>5. Taxes!SnapshotsReproduce'
    BY <2>1, <2>a, <2>4 DEF TaxesInv, Taxes!SnapshotsReproduce
  <2> QED
    BY <2>2, <2>3, <2>5 DEF TaxesInv
<1>3. ASSUME NEW c \in TaxComponents, NEW from \in TaxDates, NEW to \in TaxDates \cup {Taxes!Never},
             NEW p \in Percents, Taxes!CreateTaxRate(c, from, to, p)
      PROVE  TaxesInv'
  <2> DEFINE new == [from |-> from, to |-> to, percent |-> p]
  <2>1. /\ \A r \in rates[c] : r.to <= from \/ to <= r.from
        /\ rates' = [rates EXCEPT ![c] = rates[c] \cup {new}] /\ treatment' = treatment /\ taxed' = taxed
    BY <1>3 DEF Taxes!CreateTaxRate
  <2>2. from \in Int /\ to \in Int /\ new \in RateRow /\ new.from = from /\ new.to = to
    BY <1>0 DEF RateRow
  <2> HIDE DEF new
  <2>3. /\ rates' \in [TaxComponents -> SUBSET RateRow] /\ rates'[c] = rates[c] \cup {new}
        /\ \A d \in TaxComponents : d # c => rates'[d] = rates[d]
    BY <2>1, <2>2 DEF TaxesInv, RatesApart
  <2>4. RatesApart'
    BY <2>1, <2>2, <2>3 DEF TaxesInv, RatesApart
  <2>5. ASSUME NEW x \in taxed, x.code # Taxes!None, NEW d \in Taxes!ComponentsOf(x.code)
        PROVE  Taxes!InForce(d, x.on)' = Taxes!InForce(d, x.on) /\ Taxes!InForce(d, x.on) # {}
    <3>1. d \in TaxComponents /\ x.on \in Int /\ Taxes!InForce(d, x.on) # {}
      BY <2>5 DEF TaxesInv, StillResolves, Taxes!ComponentsOf
    <3>2. CASE d # c
      BY <2>3, <3>1, <3>2 DEF Taxes!InForce
    <3>3. CASE d = c
      <4>1. PICK r \in rates[c] : r.from <= x.on /\ x.on < r.to
        BY <3>1, <3>3 DEF Taxes!InForce
      <4>2. r.from \in Int /\ r.to \in Int
        BY DEF TaxesInv, RatesApart, RateRow
      <4>3. ~(new.from <= x.on /\ x.on < new.to)
        BY <2>1, <2>2, <3>1, <4>1, <4>2
      <4> QED
        BY <2>3, <3>1, <3>3, <4>3 DEF Taxes!InForce
    <3> QED
      BY <3>2, <3>3
  <2>6. StillResolves'
    <3>1. \A k : Taxes!ComponentsOf(k)' = Taxes!ComponentsOf(k)
      BY DEF Taxes!ComponentsOf
    <3> QED
      BY <2>1, <2>5, <3>1 DEF TaxesInv, StillResolves
  <2>7. \A x \in taxed : x.code # Taxes!None => Taxes!ResolveCode(x.code, x.on)' = Taxes!ResolveCode(x.code, x.on)
    BY <2>5, ResolvedStays
  <2>8. Taxes!SnapshotsReproduce'
    BY <2>1, <2>7 DEF TaxesInv, Taxes!SnapshotsReproduce
  <2> QED
    BY <2>4, <2>6, <2>8 DEF TaxesInv
<1>4. ASSUME NEW stated1 \in Codes \cup {Taxes!None}, NEW facts \in Facts, NEW on \in TaxDates,
             Taxes!Calculate(stated1, facts, on)
      PROVE  TaxesInv'
  <2>1. PICK k : k = IF stated1 # Taxes!None THEN stated1 ELSE Taxes!Determine(facts, on)
    OBVIOUS
  <2>2. PICK new : new = [code |-> k, on |-> on, rates |-> Taxes!ResolveCode(k, on)]
    OBVIOUS
  <2>3. /\ k # Taxes!None => Taxes!Resolvable(k, on)
        /\ taxed' = taxed \cup {new} /\ treatment' = treatment /\ rates' = rates
    BY <1>4, <2>1, <2>2 DEF Taxes!Calculate
  <2>4. k \in Codes \cup {Taxes!None}
    BY <2>1, DeterminedCode
  <2>5. new.code = k /\ new.on = on /\ new.rates = Taxes!ResolveCode(k, on) /\ on \in Int
    BY <1>0, <2>2
  <2>6. RatesApart'
    BY <2>3 DEF TaxesInv, RatesApart
  <2>7. StillResolves'
    BY <2>3, <2>4, <2>5 DEF TaxesInv, StillResolves, Taxes!Resolvable, Taxes!InForce, Taxes!ComponentsOf
  <2>8. \A d, q : Taxes!ResolveCode(d, q)' = Taxes!ResolveCode(d, q)
    BY <2>3, ResolvedStays DEF Taxes!InForce
  <2>9. k # Taxes!None /\ treatment[k] = "STANDARD" => Taxes!ResolveCode(k, on) # {}
    BY <2>3 DEF Taxes!Resolvable, Taxes!ResolveCode
  <2>10. Taxes!SnapshotsReproduce'
    BY <2>3, <2>5, <2>8, <2>9 DEF TaxesInv, Taxes!SnapshotsReproduce
  <2> QED
    BY <2>6, <2>7, <2>10 DEF TaxesInv
<1>5. CASE \E s \in Installers : Taxes!InstallLocalization(s) \/ \E p \in Packages : Taxes!DecideInstallation(s, p)
  BY <1>1, <1>5 DEF Taxes!InstallLocalization, Taxes!DecideInstallation
<1>6. CASE UNCHANGED Taxes!vars
  BY <1>1, <1>6 DEF Taxes!vars
<1> QED
  BY <1>2, <1>3, <1>4, <1>5, <1>6 DEF Taxes!Next

(* What a writer holds of an account.                                       *)
AccountRow ==
  [status : {Chart!None, "ACTIVE", "ARCHIVED"}, type : AccountTypes \cup {Chart!None}, posting : BOOLEAN,
   parent : ChartAccounts \cup {Chart!Root}]
CreatingRow ==
  [parent : ChartAccounts \cup {Chart!Root}, child : ChartAccounts] \cup {[parent |-> Chart!None, child |-> Chart!None]}
LineRow ==
  [step : {Chart!None, "prepared", "inserted", "committed"}, account : ChartAccounts \cup {Chart!None},
   type : AccountTypes \cup {Chart!None}, dimensions : [Dimensions -> DimensionValues \cup {Chart!None}] \cup {<<>>}]

ChartTypes ==
  /\ account \in [ChartAccounts -> AccountRow]
  /\ rules \in [ChartAccounts -> Chart!Given]
  /\ creatingAccount \in [Creators -> CreatingRow]
  /\ line \in [Writers -> LineRow]

WrittenToAccounts ==
  \A w \in Writers :
    /\ line[w].step # Chart!None => line[w].account \in ChartAccounts
    /\ line[w].step \in {"inserted", "committed"} =>
         Chart!Exists(line[w].account) /\ account[line[w].account].type = line[w].type

ChartInv == ChartTypes /\ WrittenToAccounts

LEMMA ChartInit == Chart!Init => ChartInv
<1> SUFFICES ASSUME Chart!Init PROVE ChartInv
  OBVIOUS
<1>1. Chart!NoAccount \in AccountRow
  BY DEF Chart!NoAccount, AccountRow
<1>2. Chart!NoLine \in LineRow /\ Chart!NoLine.step = Chart!None
  BY DEF Chart!NoLine, LineRow
<1>3. Chart!None \notin {"inserted", "committed"}
  BY DEF Chart!None
<1>4. [d \in Dimensions |-> Chart!Optional] \in Chart!Given
  BY DEF Chart!Given, Chart!Optional
<1>5. ChartTypes
  BY <1>1, <1>2, <1>4 DEF Chart!Init, ChartTypes, CreatingRow
<1>6. WrittenToAccounts
  BY <1>2, <1>3 DEF Chart!Init, WrittenToAccounts
<1> QED
  BY <1>5, <1>6 DEF ChartInv

(* Accounts may change, but not the type of one that has lines.             *)
LEMMA AccountsWritten ==
  ASSUME ChartInv, account' \in [ChartAccounts -> AccountRow], UNCHANGED line,
         rules' \in [ChartAccounts -> Chart!Given],
         creatingAccount' \in [Creators -> CreatingRow],
         \A a \in ChartAccounts : (\E w \in Writers : line[w].step \in {"inserted", "committed"} /\ line[w].account = a)
           => account'[a].status # Chart!None /\ account'[a].type = account[a].type
  PROVE  ChartInv'
<1>1. ChartTypes'
  BY DEF ChartInv, ChartTypes
<1>2. WrittenToAccounts'
  <2> SUFFICES ASSUME NEW w \in Writers
      PROVE  /\ line[w].step # Chart!None => line[w].account \in ChartAccounts
             /\ line[w].step \in {"inserted", "committed"} =>
                  /\ account'[line[w].account].status # Chart!None
                  /\ account'[line[w].account].type = line[w].type
    BY DEF WrittenToAccounts, Chart!Exists
  <2>1. /\ line[w].step # Chart!None => line[w].account \in ChartAccounts
        /\ line[w].step \in {"inserted", "committed"} => account[line[w].account].type = line[w].type
    BY DEF ChartInv, WrittenToAccounts
  <2>2. line[w].step \in {"inserted", "committed"} => line[w].step # Chart!None
    BY DEF Chart!None
  <2> QED
    BY <2>1, <2>2
<1> QED
  BY <1>1, <1>2 DEF ChartInv

(* A line takes its next step with the account it names.                    *)
LEMMA LineWritten ==
  ASSUME ChartInv, NEW w \in Writers, NEW x \in LineRow, line' = [line EXCEPT ![w] = x],
         UNCHANGED <<account, rules, creatingAccount>>, x.account \in ChartAccounts,
         x.step \in {"inserted", "committed"} =>
           account[x.account].status # Chart!None /\ account[x.account].type = x.type
  PROVE  ChartInv'
<1>1. line' \in [Writers -> LineRow] /\ line'[w] = x /\ \A v \in Writers : v # w => line'[v] = line[v]
  BY DEF ChartInv, ChartTypes
<1>2. ChartTypes'
  BY <1>1 DEF ChartInv, ChartTypes
<1>3. WrittenToAccounts'
  BY <1>1 DEF ChartInv, WrittenToAccounts, Chart!Exists
<1> QED
  BY <1>2, <1>3 DEF ChartInv

LEMMA ChartStep == ChartInv /\ [Chart!Next]_(Chart!vars) => ChartInv'
<1> SUFFICES ASSUME ChartInv, [Chart!Next]_(Chart!vars) PROVE ChartInv'
  OBVIOUS
<1>0. /\ \A a \in ChartAccounts : account[a] \in AccountRow
      /\ \A w \in Writers : line[w] \in LineRow
  BY DEF ChartInv, ChartTypes
<1>a. ASSUME NEW w \in Writers, line[w].step \in {"inserted", "committed"}
      PROVE  line[w].account \in ChartAccounts /\ account[line[w].account].status # Chart!None
  BY <1>a DEF ChartInv, WrittenToAccounts, Chart!Exists, Chart!None
<1>1. CASE UNCHANGED Chart!vars
  BY <1>a, <1>1, AccountsWritten DEF Chart!vars, ChartInv, ChartTypes
<1>2. ASSUME NEW s \in Creators, NEW p \in ChartAccounts \cup {Chart!Root}, NEW a \in ChartAccounts,
             Chart!ReadParent(s, p, a)
      PROVE  ChartInv'
  <2>1. /\ creatingAccount' = [creatingAccount EXCEPT ![s] = [parent |-> p, child |-> a]]
        /\ UNCHANGED <<account, rules, line>>
    BY <1>2 DEF Chart!ReadParent
  <2>2. creatingAccount' \in [Creators -> CreatingRow]
    BY <2>1 DEF ChartInv, ChartTypes, CreatingRow
  <2> QED
    BY <1>a, <2>1, <2>2, AccountsWritten DEF ChartInv, ChartTypes
<1>3. ASSUME NEW s \in Creators, NEW type \in AccountTypes, NEW posts \in BOOLEAN, Chart!CreateAccount(s, type, posts)
      PROVE  ChartInv'
  <2>1. PICK p, a : p = creatingAccount[s].parent /\ a = creatingAccount[s].child
    OBVIOUS
  <2>2. PICK new : new = [status |-> "ACTIVE", type |-> type, posting |-> posts, parent |-> p]
    OBVIOUS
  <2>3. /\ a # Chart!None
        /\ account' = IF account[a].status # Chart!None THEN account
                      ELSE [b \in ChartAccounts |-> IF b = a THEN new
                                                    ELSE IF b = p THEN [account[b] EXCEPT !.posting = FALSE]
                                                    ELSE account[b]]
        /\ creatingAccount' = [creatingAccount EXCEPT ![s] = [parent |-> Chart!None, child |-> Chart!None]]
        /\ UNCHANGED <<rules, line>>
    BY <1>3, <2>1, <2>2 DEF Chart!CreateAccount, Chart!Exists
  <2>a. p \in ChartAccounts \cup {Chart!Root} /\ a \in ChartAccounts
    BY <2>1, <2>3 DEF ChartInv, ChartTypes, CreatingRow
  <2>4. creatingAccount' \in [Creators -> CreatingRow]
    BY <2>3 DEF ChartInv, ChartTypes, CreatingRow
  <2>5. CASE account[a].status # Chart!None
    BY <1>a, <2>3, <2>4, <2>5, AccountsWritten DEF ChartInv, ChartTypes
  <2>6. CASE account[a].status = Chart!None
    <3>1. new \in AccountRow
      BY <2>a, <2>2 DEF AccountRow
    <3>2. ASSUME NEW b \in ChartAccounts, NEW x, x = [account[b] EXCEPT !.posting = FALSE]
          PROVE  x \in AccountRow /\ x.status = account[b].status /\ x.type = account[b].type
      BY <1>0, <3>2 DEF AccountRow
    <3>3. \A b \in ChartAccounts : account'[b] = IF b = a THEN new
                                                ELSE IF b = p THEN [account[b] EXCEPT !.posting = FALSE]
                                                ELSE account[b]
      BY <2>3, <2>6
    <3>4. \A b \in ChartAccounts : account'[b] \in AccountRow
      BY <1>0, <3>1, <3>2, <3>3
    <3>5. account' \in [ChartAccounts -> AccountRow]
      BY <2>3, <2>6, <3>4
    <3>6. \A b \in ChartAccounts : b # a => account'[b].status = account[b].status /\ account'[b].type = account[b].type
      BY <3>2, <3>3
    <3>7. \A w \in Writers : line[w].step \in {"inserted", "committed"} => line[w].account # a
      BY <1>a, <2>6
    <3> QED
      BY <1>a, <2>3, <2>4, <3>5, <3>6, <3>7, AccountsWritten DEF ChartInv, ChartTypes
  <2> QED
    BY <2>5, <2>6
<1>4. ASSUME NEW a \in ChartAccounts, NEW type \in AccountTypes, NEW posts \in BOOLEAN,
             NEW status \in {"ACTIVE", "ARCHIVED"}, Chart!UpdateAccount(a, type, posts, status)
      PROVE  ChartInv'
  <2>1. PICK new : new = [[[account[a] EXCEPT !.type = type] EXCEPT !.posting = posts] EXCEPT !.status = status]
    OBVIOUS
  <2>2. /\ ~Chart!Shared(a) /\ (type # account[a].type => Chart!Committed(a) = {})
        /\ account' = [account EXCEPT ![a] = new] /\ UNCHANGED <<rules, creatingAccount, line>>
    BY <1>4, <2>1 DEF Chart!UpdateAccount, ChartInv, ChartTypes
  <2>3. new \in AccountRow /\ new.type = type /\ new.status = status
    <3>1. PICK x : x = [account[a] EXCEPT !.type = type]
      OBVIOUS
    <3>2. PICK y : y = [x EXCEPT !.posting = posts]
      OBVIOUS
    <3>3. x \in AccountRow /\ x.type = type
      BY <1>0, <3>1 DEF AccountRow
    <3>4. y \in AccountRow /\ y.type = type
      BY <3>2, <3>3 DEF AccountRow
    <3>5. new = [y EXCEPT !.status = status]
      BY <2>1, <3>1, <3>2
    <3> QED
      BY <3>4, <3>5 DEF AccountRow
  <2>4. /\ account' \in [ChartAccounts -> AccountRow] /\ account'[a] = new
        /\ \A b \in ChartAccounts : b # a => account'[b] = account[b]
    BY <2>2, <2>3 DEF ChartInv, ChartTypes
  <2>5. (\E w \in Writers : line[w].step \in {"inserted", "committed"} /\ line[w].account = a) => type = account[a].type
    BY <2>2 DEF Chart!Shared, Chart!Committed
  <2>6. status # Chart!None
    BY DEF Chart!None
  <2> QED
    BY <1>a, <2>2, <2>3, <2>4, <2>5, <2>6, AccountsWritten DEF ChartInv, ChartTypes
<1>5. ASSUME NEW a \in ChartAccounts, NEW given \in Chart!Given, Chart!SetAccountDimensionRules(a, given)
      PROVE  ChartInv'
  <2>1. rules' = [rules EXCEPT ![a] = given] /\ UNCHANGED <<account, creatingAccount, line>>
    BY <1>5 DEF Chart!SetAccountDimensionRules
  <2> QED
    BY <1>a, <2>1, AccountsWritten DEF ChartInv, ChartTypes
<1>6. ASSUME NEW w \in Writers, NEW a \in ChartAccounts,
             NEW supplied \in [Dimensions -> DimensionValues \cup {Chart!None}], Chart!PrepareLine(w, a, supplied)
      PROVE  ChartInv'
  <2>1. PICK given : given = [d \in Dimensions |-> Chart!Resolved(rules[a][d], supplied[d])]
    OBVIOUS
  <2>2. PICK x : x = [step |-> "prepared", account |-> a, type |-> Chart!None, dimensions |-> given]
    OBVIOUS
  <2>3. line' = [line EXCEPT ![w] = x] /\ UNCHANGED <<account, rules, creatingAccount>>
    BY <1>6, <2>1, <2>2 DEF Chart!PrepareLine
  <2>4. given \in [Dimensions -> DimensionValues \cup {Chart!None}]
    <3>1. \A d \in Dimensions : rules[a][d].default \in DimensionValues \cup {Chart!None}
      BY DEF ChartInv, ChartTypes, Chart!Given
    <3> QED
      BY <2>1, <3>1 DEF Chart!Resolved
  <2>5. x \in LineRow /\ x.step = "prepared" /\ x.account = a
    BY <2>2, <2>4 DEF LineRow
  <2> QED
    BY <2>3, <2>5, LineWritten
<1>7. ASSUME NEW w \in Writers, Chart!InsertLine(w) PROVE ChartInv'
  <2>1. PICK y \in LineRow : y = line[w]
    BY <1>0
  <2>2. PICK a : a = y.account
    OBVIOUS
  <2>3. PICK x : x = [[y EXCEPT !.step = "inserted"] EXCEPT !.type = account[a].type]
    OBVIOUS
  <2>4. /\ y.step = "prepared" /\ account[a].status = "ACTIVE" /\ line' = [line EXCEPT ![w] = x]
        /\ UNCHANGED <<account, rules, creatingAccount>>
    BY <1>7, <2>1, <2>2, <2>3 DEF Chart!InsertLine, Chart!Postable, ChartInv, ChartTypes
  <2>5. a \in ChartAccounts /\ account[a].type \in AccountTypes \cup {Chart!None} /\ account[a].status # Chart!None
    BY <1>0, <2>1, <2>2, <2>4 DEF ChartInv, WrittenToAccounts, AccountRow, Chart!None
  <2>6. x \in LineRow /\ x.account = a /\ x.type = account[a].type
    <3>1. PICK z : z = [y EXCEPT !.step = "inserted"]
      OBVIOUS
    <3>2. z \in LineRow /\ z.account = a
      BY <2>2, <3>1 DEF LineRow
    <3>3. x = [z EXCEPT !.type = account[a].type]
      BY <2>3, <3>1
    <3> QED
      BY <2>5, <3>2, <3>3 DEF LineRow
  <2> QED
    BY <2>4, <2>5, <2>6, LineWritten
<1>8. ASSUME NEW w \in Writers, Chart!CommitLine(w) PROVE ChartInv'
  <2>1. PICK y \in LineRow : y = line[w]
    BY <1>0
  <2>2. PICK x : x = [y EXCEPT !.step = "committed"]
    OBVIOUS
  <2>3. y.step = "inserted" /\ line' = [line EXCEPT ![w] = x] /\ UNCHANGED <<account, rules, creatingAccount>>
    BY <1>8, <2>1, <2>2 DEF Chart!CommitLine
  <2>4. x \in LineRow /\ x.account = y.account /\ x.type = y.type
    BY <2>2 DEF LineRow
  <2>5. y.account \in ChartAccounts /\ account[y.account].status # Chart!None /\ account[y.account].type = y.type
    BY <1>a, <2>1, <2>3 DEF ChartInv, WrittenToAccounts
  <2> QED
    BY <2>3, <2>4, <2>5, LineWritten
<1> QED
  BY <1>1, <1>2, <1>3, <1>4, <1>5, <1>6, <1>7, <1>8 DEF Chart!Next

(* However configuration and recording overlap, a taxed line can be         *)
(* recalculated to the rates it was posted with, and an account keeps the   *)
(* type under which its first line was written.                             *)
THEOREM MeaningIsKept == PlatformSpec => []LinesKeepTheirMeaning
<1>1. PlatformInit => TaxesInv /\ ChartInv
  BY OnlyTaxes, OnlyChart, TaxesInit, ChartInit
<1>2. TaxesInv /\ ChartInv /\ [PlatformNext]_platform => (TaxesInv /\ ChartInv)'
  BY OnlyTaxes, OnlyChart, TaxesStep, ChartStep
<1>3. TaxesInv /\ ChartInv => LinesKeepTheirMeaning
  BY DEF TaxesInv, ChartInv, WrittenToAccounts, LinesKeepTheirMeaning, Chart!TypeIsLocked
<1> QED
  BY <1>1, <1>2, <1>3, PTL DEF PlatformSpec
-----------------------------------------------------------------------------
(***************************************************************************)
(* OneIsInForce: versions and periods follow each other.                   *)
(***************************************************************************)
(* Where each version ends when the next begins, a date has one.            *)
Begins(p) == \A i \in 1..Len(p) : p[i].from \in Nat \ {0} /\ p[i].to \in Nat
Ends(p) == \A i \in 1..Len(p) : p[i].to = IF i = Len(p) THEN 0 ELSE p[i + 1].from
Follow(p) == \A i, j \in 1..Len(p) : i < j => p[i].from < p[j].from
Tiled(p) == Begins(p) /\ Ends(p) /\ Follow(p)

LEMMA OneOfTiled ==
  ASSUME NEW p, Len(p) \in Nat, Tiled(p), p # <<>>, Len(p) > 0, NEW date \in Nat, p[1].from <= date
  PROVE  Cardinality({i \in 1..Len(p) : p[i].from <= date /\ (p[i].to = 0 \/ date < p[i].to)}) = 1
<1> DEFINE S == {i \in 1..Len(p) : p[i].from <= date}
           F == {i \in 1..Len(p) : p[i].from <= date /\ (p[i].to = 0 \/ date < p[i].to)}
<1>1. IsFiniteSet(S) /\ S \in SUBSET Nat /\ S # {}
  <2>1. IsFiniteSet(1..Len(p))
    <3>1. 1 \in Int /\ Len(p) \in Int
      OBVIOUS
    <3> QED
      BY ONLY <3>1, FS_Interval, Zenon
  <2>2. S \in SUBSET (1..Len(p)) /\ 1 \in S
    OBVIOUS
  <2>3. IsFiniteSet(S)
    BY ONLY <2>1, <2>2, FS_Subset
  <2> QED
    BY <2>2, <2>3
<1>2. PICK n \in S : \A i \in S : i <= n
  <2> HIDE DEF S
  <2> QED
    BY ONLY <1>1, GreatestExists
<1>3. n \in F
  <2>1. CASE n = Len(p)
    BY <2>1 DEF Tiled, Ends
  <2>2. CASE n # Len(p)
    <3>1. n + 1 \in 1..Len(p) /\ n + 1 \notin S
      BY <2>2, <1>2
    <3>2. date < p[n + 1].from
      BY <3>1 DEF Tiled, Begins
    <3> QED
      BY <3>2, <2>2 DEF Tiled, Ends
  <2> QED
    BY <2>1, <2>2
<1>4. ASSUME NEW i \in F PROVE i = n
  <2>1. i <= n /\ i \in 1..Len(p) /\ n \in 1..Len(p)
    BY <1>2
  <2> SUFFICES ASSUME i < n PROVE FALSE
    BY <2>1
  <2>2. p[i].to = p[i + 1].from /\ p[i].to # 0 /\ date < p[i].to
    BY <2>1 DEF Tiled, Ends, Begins
  <2>3. p[i + 1].from <= p[n].from
    BY <2>1 DEF Tiled, Follow, Begins
  <2> QED
    BY <2>1, <2>2, <2>3 DEF Tiled, Begins
<1>5. F = {n}
  BY <1>3, <1>4
<1> QED
  BY <1>5, FS_Singleton

LEMMA Longer ==
  ASSUME NEW S, NEW s \in Seq(S), NEW x \in S, NEW t, t = Append(s, x)
  PROVE  /\ t \in Seq(S) /\ Len(t) = Len(s) + 1 /\ t[Len(s) + 1] = x
         /\ \A i \in 1..Len(s) : t[i] = s[i]
  OBVIOUS

(* It stays so when the last is ended where a later one begins.             *)
LEMMA Superseded ==
  ASSUME NEW p, NEW q, Len(p) \in Nat, Tiled(p), NEW from \in Nat \ {0},
         Len(p) > 0 => p[Len(p)].from < from, Len(q) = Len(p) + 1,
         \A i \in 1..Len(p) : q[i].from = p[i].from /\ q[i].to = IF i = Len(p) THEN from ELSE p[i].to,
         q[Len(p) + 1].from = from /\ q[Len(p) + 1].to = 0
  PROVE  Tiled(q)
<1>1. Begins(q)
  BY DEF Tiled, Begins
<1>2. Ends(q)
  <2> SUFFICES ASSUME NEW i \in 1..Len(q) PROVE q[i].to = IF i = Len(q) THEN 0 ELSE q[i + 1].from
    BY DEF Ends
  <2>1. CASE i = Len(q)
    BY <2>1
  <2>2. CASE i = Len(p)
    BY <2>2
  <2>3. CASE i < Len(p)
    BY <2>3 DEF Tiled, Ends
  <2> QED
    BY <2>1, <2>2, <2>3
<1>3. Follow(q)
  <2> SUFFICES ASSUME NEW i \in 1..Len(q), NEW j \in 1..Len(q), i < j PROVE q[i].from < q[j].from
    BY DEF Follow
  <2>1. CASE j <= Len(p)
    BY <2>1 DEF Tiled, Follow
  <2>2. CASE j = Len(p) + 1
    <3>1. p[i].from <= p[Len(p)].from
      BY <2>2 DEF Tiled, Follow, Begins
    <3> QED
      BY <3>1, <2>2 DEF Tiled, Begins
  <2> QED
    BY <2>1, <2>2
<1> QED
  BY <1>1, <1>2, <1>3 DEF Tiled
-----------------------------------------------------------------------------
BankRow == [version : Nat, bank : Banks \cup {Vendors!Unstated}, ref : Refs \cup {Vendors!Unstated}, open : BOOLEAN]
VendorsInv ==
  /\ details \in [VendorIds -> Seq(BankRow)]
  /\ Vendors!OneVersionIsValid

LEMMA VendorsInit == Vendors!Init => VendorsInv
  BY DEF Vendors!Init, Vendors!CreateVendor, VendorsInv, Vendors!OneVersionIsValid

LEMMA VendorsStep == VendorsInv /\ [Vendors!Next]_details => VendorsInv'
<1> SUFFICES ASSUME VendorsInv, [Vendors!Next]_details PROVE VendorsInv'
  OBVIOUS
<1>1. ASSUME NEW v \in VendorIds, NEW input \in Vendors!Fields, Vendors!UpdateVendorBankDetails(v, input)
      PROVE  VendorsInv'
  <2> DEFINE old == details[v]
             was == Vendors!Closed(v)
  <2>1. old \in Seq(BankRow) /\ Len(old) \in Nat
    BY DEF VendorsInv
  <2>2. was \in Seq(BankRow) /\ Len(was) = Len(old)
        /\ \A n \in 1..Len(old) : was[n].version = old[n].version /\ was[n].open = FALSE
    <3>1. DOMAIN old = 1..Len(old) /\ \A n \in 1..Len(old) : old[n] \in BankRow
      BY <2>1
    <3>2. was = [n \in 1..Len(old) |-> [old[n] EXCEPT !.open = FALSE]]
      BY <3>1 DEF Vendors!Closed
    <3>3. \A n \in 1..Len(old) : LET r == [old[n] EXCEPT !.open = FALSE] IN
            r \in BankRow /\ r.version = old[n].version /\ r.open = FALSE
      BY <3>1 DEF BankRow
    <3> HIDE DEF was, old
    <3>4. \A n \in 1..Len(old) : was[n] = [old[n] EXCEPT !.open = FALSE]
      BY <3>2
    <3>5. \A n \in 1..Len(old) : was[n] \in BankRow /\ was[n].version = old[n].version /\ was[n].open = FALSE
      BY <3>3, <3>4
    <3>6. was = [n \in 1..Len(old) |-> was[n]]
      BY <3>2
    <3> QED
      BY ONLY <2>1, <3>5, <3>6
  <2>3. PICK row1 \in BankRow : row1.version = Len(old) + 1 /\ row1.open = TRUE
                             /\ details' = [details EXCEPT ![v] = Append(was, row1)]
    <3>1. /\ Vendors!Current(v).version = Len(old)
          /\ Vendors!Current(v).bank \in Banks \cup {Vendors!Unstated}
      <4>1. CASE old = <<>>
        BY <4>1 DEF Vendors!Current
      <4>2. CASE old # <<>>
        <5>1. Len(old) \in 1..Len(old) /\ Len(old) \in DOMAIN details[v]
          BY <4>2, <2>1
        <5>2. old[Len(old)] \in BankRow /\ old[Len(old)].version = Len(old)
          BY <5>1, <2>1 DEF VendorsInv, Vendors!OneVersionIsValid
        <5> QED
          BY <5>2, <4>2 DEF Vendors!Current, BankRow
      <4> QED
        BY <4>1, <4>2
    <3>2. input.bank \in Banks \cup {Vendors!Unstated} /\ input.ref \in Refs \cup {Vendors!Unstated}
      BY DEF Vendors!Fields
    <3> DEFINE row2 == [version |-> Vendors!Current(v).version + 1,
                        bank |-> IF input.bank = Vendors!Unstated THEN Vendors!Current(v).bank ELSE input.bank,
                        ref |-> input.ref, open |-> TRUE]
    <3>3. details' = [details EXCEPT ![v] = Append(was, row2)]
      BY <1>1 DEF Vendors!UpdateVendorBankDetails
    <3>4. row2 \in BankRow /\ row2.version = Len(old) + 1 /\ row2.open = TRUE
      BY <2>1, <3>1, <3>2 DEF BankRow
    <3> QED
      BY <3>3, <3>4
  <2> HIDE DEF was, old
  <2>4. /\ Append(was, row1) \in Seq(BankRow) /\ Len(Append(was, row1)) = Len(old) + 1
        /\ Append(was, row1)[Len(old) + 1] = row1
        /\ \A n \in 1..Len(old) : Append(was, row1)[n] = was[n]
    BY <2>1, <2>2, <2>3
  <2>5. details' \in [VendorIds -> Seq(BankRow)]
    BY <2>3, <2>4 DEF VendorsInv
  <2>6. ASSUME NEW u \in VendorIds, NEW n \in DOMAIN details'[u]
        PROVE  details'[u][n].version = n /\ (details'[u][n].open <=> n = Len(details'[u]))
    <3>1. CASE u # v
      <4>1. details'[u] = details[u]
        BY <3>1, <2>3 DEF VendorsInv
      <4> QED
        BY <4>1, <2>6 DEF VendorsInv, Vendors!OneVersionIsValid
    <3>2. CASE u = v
      <4>1. details'[u] = Append(was, row1)
        BY <3>2, <2>3 DEF VendorsInv
      <4>2. n \in 1..(Len(old) + 1)
        BY <4>1, <2>4, <2>6
      <4>3. CASE n = Len(old) + 1
        BY <4>1, <4>3, <2>3, <2>4
      <4>4. CASE n \in 1..Len(old)
        <5>1. n \in DOMAIN details[v] /\ old[n].version = n
          BY <4>4, <2>1 DEF old, VendorsInv, Vendors!OneVersionIsValid
        <5> QED
          BY <5>1, <4>1, <4>4, <2>1, <2>2, <2>4
      <4> QED
        BY <4>2, <4>3, <4>4, <2>1
    <3> QED
      BY <3>1, <3>2
  <2> QED
    BY <2>5, <2>6 DEF VendorsInv, Vendors!OneVersionIsValid
<1>2. CASE UNCHANGED details
  BY <1>2 DEF VendorsInv, Vendors!OneVersionIsValid
<1> QED
  BY <1>1, <1>2 DEF Vendors!Next
-----------------------------------------------------------------------------
PolicyRow == [from : PolicyDates, to : PolicyDates \cup {0}, method : Methods \cup {ShippedMethod}, account : ControlAccounts]
EntityInv ==
  /\ policy \in [Entity!Scopes -> Seq(PolicyRow)]
  /\ \A s \in Entity!Scopes : Tiled(policy[s])

LEMMA EntityInit == Entity!Init => EntityInv
  BY DEF Entity!Init, EntityInv, Tiled, Begins, Ends, Follow

LEMMA EntityStep == EntityInv /\ [Entity!Next]_(Entity!vars) => EntityInv'
<1> SUFFICES ASSUME EntityInv, [Entity!Next]_(Entity!vars) PROVE EntityInv'
  OBVIOUS
<1>1. CASE UNCHANGED policy
  BY <1>1 DEF EntityInv, Tiled, Begins, Ends, Follow
<1>2. ASSUME NEW s \in Entity!Scopes, NEW from \in PolicyDates, NEW m \in Methods \cup {Entity!None},
             NEW a \in ControlAccounts, Entity!CreatePolicyVersion(s, from, m, a)
      PROVE  EntityInv'
  <2> DEFINE old == policy[s]
             was == [i \in 1..Len(old) |-> IF i = Len(old) THEN [old[i] EXCEPT !.to = from] ELSE old[i]]
             row1 == [from |-> from, to |-> 0, method |-> Entity!Given(m), account |-> a]
  <2>1. old \in Seq(PolicyRow) /\ Len(old) \in Nat /\ Tiled(old)
    BY DEF EntityInv
  <2>2. from \in Nat \ {0}
    BY DatesAssumption DEF Entity!DatesAssumption
  <2>3. was \in Seq(PolicyRow) /\ Len(was) = Len(old)
        /\ \A i \in 1..Len(old) : was[i].from = old[i].from /\ was[i].to = IF i = Len(old) THEN from ELSE old[i].to
    <3>1. \A i \in 1..Len(old) : old[i] \in PolicyRow
      BY <2>1
    <3>2. \A i \in 1..Len(old) : LET r == [old[i] EXCEPT !.to = from] IN
            r \in PolicyRow /\ r.from = old[i].from /\ r.to = from
      BY <3>1 DEF PolicyRow
    <3> HIDE DEF old
    <3> QED
      BY <2>1, <3>1, <3>2
  <2>4. row1 \in PolicyRow /\ row1.from = from /\ row1.to = 0
    BY DEF PolicyRow, Entity!Given
  <2>5. policy' = [policy EXCEPT ![s] = Append(was, row1)] /\ (Len(old) > 0 => old[Len(old)].from < from)
    BY <1>2, <2>1, <2>2 DEF Entity!CreatePolicyVersion, Entity!Latest, Tiled, Begins
  <2> HIDE DEF was, row1, old
  <2>6. PICK new : new = Append(was, row1)
    OBVIOUS
  <2>7. /\ new \in Seq(PolicyRow) /\ Len(new) = Len(old) + 1 /\ new[Len(old) + 1] = row1
        /\ \A i \in 1..Len(old) : new[i] = was[i]
    <3>1. was \in Seq(PolicyRow) /\ row1 \in PolicyRow /\ Len(was) = Len(old)
      BY <2>3, <2>4
    <3>2. /\ new \in Seq(PolicyRow) /\ Len(new) = Len(was) + 1 /\ new[Len(was) + 1] = row1
          /\ \A i \in 1..Len(was) : new[i] = was[i]
      BY ONLY <3>1, <2>6, Longer
    <3> QED
      BY ONLY <3>1, <3>2, Zenon
  <2>8. Tiled(new)
    <3>1. \A i \in 1..Len(old) : new[i].from = old[i].from /\ new[i].to = IF i = Len(old) THEN from ELSE old[i].to
      BY <2>3, <2>7
    <3>2. new[Len(old) + 1].from = from /\ new[Len(old) + 1].to = 0
      BY <2>4, <2>7
    <3> QED
      BY ONLY <2>1, <2>2, <2>5, <2>7, <3>1, <3>2, Superseded
  <2>9. policy'[s] = new /\ \A t \in Entity!Scopes : t # s => policy'[t] = policy[t]
    BY <2>5, <2>6 DEF EntityInv
  <2>10. policy' \in [Entity!Scopes -> Seq(PolicyRow)]
    BY <2>5, <2>6, <2>7 DEF EntityInv
  <2>11. ASSUME NEW t \in Entity!Scopes PROVE Tiled(policy'[t])
    BY <2>8, <2>9 DEF EntityInv
  <2> QED
    BY <2>10, <2>11 DEF EntityInv, Tiled, Begins, Ends, Follow
<1> QED
  BY <1>1, <1>2 DEF Entity!Next, Entity!vars, Entity!CreateLegalEntity, Entity!UpdateLegalEntity,
     Entity!Configure, Entity!ActivateLegalEntity, Entity!TransitionPeriod, Entity!BeginPost, Entity!CommitPost

LEMMA EntityImply == EntityInv => Entity!OnePolicyPerDay
<1> SUFFICES ASSUME EntityInv, NEW s \in Entity!Scopes, NEW date \in PolicyDates,
                    policy[s] # <<>>, policy[s][1].from <= date
             PROVE  Cardinality(Entity!InForce(s, date)) = 1
  BY Zenon DEF Entity!OnePolicyPerDay, Entity!Cardinality, Cardinality, Entity!IsFiniteSet, IsFiniteSet
<1>1. date \in Nat
  BY DatesAssumption DEF Entity!DatesAssumption
<1>2. policy[s] \in Seq(PolicyRow) /\ Tiled(policy[s])
  BY DEF EntityInv
<1>3. Len(policy[s]) \in Nat /\ Len(policy[s]) > 0 /\ DOMAIN policy[s] = 1..Len(policy[s])
  BY <1>2
<1>4. Cardinality({i \in 1..Len(policy[s]) : policy[s][i].from <= date /\ (policy[s][i].to = 0 \/ date < policy[s][i].to)}) = 1
  BY <1>1, <1>2, <1>3, OneOfTiled
<1> QED
  BY <1>3, <1>4 DEF Entity!InForce
-----------------------------------------------------------------------------
RuleRow == [from : RuleDates, to : RuleDates \cup {0}, rule : RuleSets]
RulesInv == version \in Seq(RuleRow) /\ Tiled(version)

LEMMA RulesInit == Rules!Init => RulesInv
  BY DEF Rules!Init, RulesInv, Tiled, Begins, Ends, Follow

(* Only the last version is still in effect later than all have begun.      *)
LEMMA RulesStep == RulesInv /\ [Rules!Next]_(Rules!vars) => RulesInv'
<1> SUFFICES ASSUME RulesInv, [Rules!Next]_(Rules!vars) PROVE RulesInv'
  OBVIOUS
<1>1. CASE UNCHANGED version
  BY <1>1 DEF RulesInv, Tiled, Begins, Ends, Follow
<1>2. ASSUME NEW from \in RuleDates, NEW rule \in RuleSets, NEW supersede \in BOOLEAN,
             Rules!CreatePostingRuleVersion(from, rule, supersede)
      PROVE  RulesInv'
  <2> DEFINE was == [i \in 1..Len(version) |->
                       IF i \in Rules!StillEffective(from) THEN [version[i] EXCEPT !.to = from] ELSE version[i]]
             row1 == [from |-> from, to |-> 0, rule |-> rule]
  <2>1. version \in Seq(RuleRow) /\ Len(version) \in Nat /\ Tiled(version) /\ DOMAIN version = 1..Len(version)
    BY DEF RulesInv
  <2>2. from \in Nat \ {0}
    BY DatesAssumption DEF Rules!DatesAssumption
  <2>a. \A i \in Rules!StillEffective(from) : version[i].from < from
    BY <1>2, SMTT(60) DEF Rules!CreatePostingRuleVersion
  <2>c. \A i \in 1..Len(version) : /\ version[i].from \in Nat \ {0} /\ version[i].to \in Nat
                                   /\ version[i].to = IF i = Len(version) THEN 0 ELSE version[i + 1].from
                                   /\ \A j \in 1..Len(version) : i < j => version[i].from < version[j].from
    BY <2>1, ZenonT(60) DEF Tiled, Begins, Ends, Follow
  <2>d. \A i \in 1..Len(version) :
          i \in Rules!StillEffective(from) <=> version[i].to = 0 \/ version[i].to > from
    BY <2>1 DEF Rules!StillEffective
  <2>b. ASSUME NEW i \in 1..Len(version) PROVE i \in Rules!StillEffective(from) <=> i = Len(version)
    <3>1. CASE i = Len(version)
      BY <3>1, <2>c, <2>d
    <3>2. CASE i # Len(version)
      <4>1. Len(version) \in 1..Len(version) /\ i + 1 \in 1..Len(version)
        <5>1. i \in 1..Len(version) /\ Len(version) \in Nat
          BY <2>1
        <5> QED
          BY ONLY <3>2, <5>1
      <4>2. version[Len(version)].from < from
        BY <4>1, <2>a, <2>c, <2>d
      <4>3. version[i].to = version[i + 1].from /\ version[i + 1].from <= version[Len(version)].from
        <5>1. i + 1 = Len(version) \/ i + 1 < Len(version)
          BY ONLY <4>1
        <5> QED
          BY <5>1, <4>1, <3>2, <2>c, SMTT(60)
      <4>4. version[i].to # 0 /\ version[i].to < from
        BY <4>1, <4>2, <4>3, <2>c, <2>2
      <4> QED
        BY <4>4, <3>2, <2>c, <2>d, <2>2
    <3> QED
      BY <3>1, <3>2
  <2>3. was \in Seq(RuleRow) /\ Len(was) = Len(version)
        /\ \A i \in 1..Len(version) : was[i].from = version[i].from /\ was[i].to = IF i = Len(version) THEN from ELSE version[i].to
    <3>1. \A i \in 1..Len(version) : version[i] \in RuleRow
      BY <2>1
    <3>2. \A i \in 1..Len(version) : LET r == [version[i] EXCEPT !.to = from] IN
            r \in RuleRow /\ r.from = version[i].from /\ r.to = from
      BY <3>1 DEF RuleRow
    <3> QED
      BY <2>1, <3>1, <3>2, <2>b
  <2>4. row1 \in RuleRow /\ row1.from = from /\ row1.to = 0
    BY DEF RuleRow
  <2>5. version' = Append(was, row1)
    BY <1>2, <2>1 DEF Rules!CreatePostingRuleVersion
  <2>6. Len(version) > 0 => version[Len(version)].from < from
    BY <2>1, <2>a, <2>b
  <2> HIDE DEF was, row1
  <2>9. PICK new : new = Append(was, row1)
    OBVIOUS
  <2>7. /\ new \in Seq(RuleRow) /\ Len(new) = Len(version) + 1 /\ new[Len(version) + 1] = row1
        /\ \A i \in 1..Len(version) : new[i] = was[i]
    <3>1. was \in Seq(RuleRow) /\ row1 \in RuleRow /\ Len(was) = Len(version)
      BY <2>3, <2>4
    <3>2. /\ new \in Seq(RuleRow) /\ Len(new) = Len(was) + 1 /\ new[Len(was) + 1] = row1
          /\ \A i \in 1..Len(was) : new[i] = was[i]
      BY ONLY <3>1, <2>9, Longer
    <3> QED
      BY ONLY <3>1, <3>2, Zenon
  <2>8. Tiled(new)
    <3>1. \A i \in 1..Len(version) :
            new[i].from = version[i].from /\ new[i].to = IF i = Len(version) THEN from ELSE version[i].to
      BY <2>3, <2>7
    <3>2. new[Len(version) + 1].from = from /\ new[Len(version) + 1].to = 0
      BY <2>4, <2>7
    <3> QED
      BY ONLY <2>1, <2>2, <2>6, <2>7, <3>1, <3>2, Superseded
  <2>10. version' = new
    BY <2>5, <2>9
  <2> QED
    BY <2>7, <2>8, <2>10 DEF RulesInv, Tiled, Begins, Ends, Follow
<1> QED
  BY <1>1, <1>2 DEF Rules!Next, Rules!vars, Rules!Simulate

LEMMA RulesImply == RulesInv => Rules!OneRulePerDay
<1> SUFFICES ASSUME RulesInv, NEW date \in RuleDates, version # <<>>, version[1].from <= date
             PROVE  Cardinality(Rules!InForce(date)) = 1
  BY Zenon DEF Rules!OneRulePerDay, Rules!Cardinality, Cardinality, Rules!IsFiniteSet, IsFiniteSet
<1>1. date \in Nat
  BY DatesAssumption DEF Rules!DatesAssumption
<1>2. version \in Seq(RuleRow) /\ Tiled(version)
  BY DEF RulesInv
<1>3. Len(version) \in Nat /\ Len(version) > 0 /\ DOMAIN version = 1..Len(version)
  BY <1>2
<1>4. Cardinality({i \in 1..Len(version) : version[i].from <= date /\ (version[i].to = 0 \/ date < version[i].to)}) = 1
  BY <1>1, <1>2, <1>3, OneOfTiled
<1> QED
  BY <1>3, <1>4 DEF Rules!InForce
-----------------------------------------------------------------------------
MonthCount == Len(MonthLength)

LEMMA MonthsType == MonthCount \in Nat /\ \A m \in 1..MonthCount : MonthLength[m] \in Nat \ {0}
  BY DatesAssumption DEF Calendar!CalendarAssumption, MonthCount

LEMMA FirstDays ==
  /\ Calendar!FirstDay \in [1..MonthCount + 1 -> Nat]
  /\ Calendar!FirstDay[1] = 1
  /\ \A m \in 1..MonthCount : Calendar!FirstDay[m + 1] = Calendar!FirstDay[m] + MonthLength[m]
<1>1. PICK f : f = [p \in (1..MonthCount + 1) \X Nat |-> p[2] + MonthLength[p[1] - 1]]
  OBVIOUS
<1>2. \A m \in 2..MonthCount + 1, x \in Nat : f[<<m, x>>] = x + MonthLength[m - 1] /\ f[<<m, x>>] \in Nat
  BY <1>1, MonthsType
<1>3. PICK g \in [1..MonthCount + 1 -> Nat] : \A m \in 1..MonthCount + 1 : g[m] = IF m = 1 THEN 1 ELSE f[<<m, g[m - 1]>>]
  <2>1. MonthCount + 1 \in Nat /\ 1 \in Nat
    BY MonthsType
  <2>2. \A m \in 2..(MonthCount + 1), x \in Nat : f[<<m, x>>] \in Nat
    BY <1>2
  <2>3. PICK n : n = MonthCount + 1
    OBVIOUS
  <2>4. n \in Nat /\ \A m \in 2..n, x \in Nat : f[<<m, x>>] \in Nat
    BY <2>1, <2>2, <2>3
  <2>5. n \in Nat /\ 1 \in Nat /\ Stepping(f, n, Nat)
    BY <2>4 DEF Stepping
  <2>6. \E g \in [1..n -> Nat] : Run(g, f, n, 1)
    BY ONLY <2>5, StepByStep
  <2> QED
    BY <2>3, <2>6 DEF Run
<1>4. g = [m \in 1..MonthCount + 1 |-> IF m = 1 THEN 1 ELSE g[m - 1] + MonthLength[m - 1]]
  <2>1. ASSUME NEW m \in 1..MonthCount + 1, m # 1 PROVE f[<<m, g[m - 1]>>] = g[m - 1] + MonthLength[m - 1]
    <3>1. m \in 2..MonthCount + 1 /\ m - 1 \in 1..MonthCount + 1
      BY <2>1, MonthsType
    <3> QED
      BY <3>1, <1>2
  <2> QED
    BY <1>3, <2>1
<1>5. Calendar!FirstDay = [m \in 1..MonthCount + 1 |->
        IF m = 1 THEN 1 ELSE Calendar!FirstDay[m - 1] + MonthLength[m - 1]]
  BY <1>4 DEF Calendar!FirstDay, MonthCount
<1> HIDE DEF Calendar!FirstDay
<1>6. ASSUME NEW h, h = [m \in 1..MonthCount + 1 |-> IF m = 1 THEN 1 ELSE h[m - 1] + MonthLength[m - 1]]
      PROVE  \A m \in 1..MonthCount + 1 : h[m] \in Nat
  <2> DEFINE G == {m \in 1..MonthCount + 1 : h[m] \in Nat}
  <2>1. 1 \in G
    BY <1>6, MonthsType
  <2>2. ASSUME NEW m \in 1..MonthCount + 1, m < MonthCount + 1, m \in G PROVE m + 1 \in G
    <3>1. m + 1 \in 1..MonthCount + 1 /\ m + 1 # 1 /\ m \in 1..MonthCount /\ (m + 1) - 1 = m
      BY <2>2, MonthsType
    <3> QED
      BY <3>1, <2>2, <1>6, MonthsType
  <2> HIDE DEF G
  <2>3. \A m \in 1..MonthCount + 1 : m \in G
    <3>1. MonthCount + 1 \in Nat
      BY MonthsType
    <3> QED
      BY ONLY <2>1, <2>2, <3>1, OneByOne
  <2> QED
    BY <2>3 DEF G
<1>7. \A m \in 1..MonthCount + 1 : Calendar!FirstDay[m] \in Nat
  BY ONLY <1>5, <1>6
<1>8. 1 \in 1..MonthCount + 1 /\ \A m \in 1..MonthCount : m + 1 \in 1..MonthCount + 1 /\ m + 1 # 1 /\ (m + 1) - 1 = m
  BY MonthsType
<1> QED
  BY <1>5, <1>7, <1>8

LEMMA MonthsFollow ==
  \A k, m \in 1..MonthCount + 1 : m < k => Calendar!FirstDay[m] < Calendar!FirstDay[k]
<1> DEFINE G == {k \in 1..MonthCount + 1 : \A m \in 1..MonthCount + 1 : m < k => Calendar!FirstDay[m] < Calendar!FirstDay[k]}
<1>1. 1 \in G
  BY MonthsType
<1>2. ASSUME NEW k \in 1..MonthCount + 1, k < MonthCount + 1, k \in G PROVE k + 1 \in G
  <2>1. k \in 1..MonthCount /\ k + 1 \in 1..MonthCount + 1
    BY <1>2, MonthsType
  <2>2. Calendar!FirstDay[k] < Calendar!FirstDay[k + 1]
    BY <2>1, FirstDays, MonthsType
  <2>3. ASSUME NEW m \in 1..MonthCount + 1, m < k + 1 PROVE Calendar!FirstDay[m] < Calendar!FirstDay[k + 1]
    <3>1. m = k \/ m < k
      BY <2>1, <2>3
    <3>2. Calendar!FirstDay[m] \in Nat /\ Calendar!FirstDay[k] \in Nat /\ Calendar!FirstDay[k + 1] \in Nat
      BY <2>1, FirstDays
    <3> QED
      BY <3>1, <3>2, <2>2, <1>2
  <2> QED
    BY <2>1, <2>3
<1> HIDE DEF G
<1>3. \A k \in 1..MonthCount + 1 : k \in G
  <2>1. MonthCount + 1 \in Nat
    BY MonthsType
  <2> QED
    BY ONLY <1>1, <1>2, <2>1, OneByOne
<1> QED
  BY <1>3 DEF G

LEMMA LastDayType == Calendar!LastDay \in Nat /\ Calendar!LastDay = Calendar!FirstDay[MonthCount + 1] - 1
<1>1. MonthCount + 1 \in 1..MonthCount + 1 /\ 1 \in 1..MonthCount + 1
  BY MonthsType
<1>2. Calendar!FirstDay[MonthCount + 1] >= 1 /\ Calendar!FirstDay[MonthCount + 1] \in Nat
  BY <1>1, FirstDays, MonthsFollow, MonthsType
<1> QED
  BY <1>2 DEF Calendar!LastDay, MonthCount

(* The month of a day is one that has begun, and the next period is later.  *)
LEMMA Later ==
  ASSUME NEW day \in Nat \ {0}, NEW step \in Nat \ {0}
  PROVE  /\ Calendar!NextStart(day, step) \in Nat \ {0}
         /\ day <= Calendar!LastDay => day < Calendar!NextStart(day, step)
         /\ day > Calendar!LastDay => Calendar!LastDay < Calendar!NextStart(day, step)
<1>1. Calendar!LastDay \in Nat /\ Calendar!LastDay = Calendar!FirstDay[MonthCount + 1] - 1
  BY LastDayType
<1>2. CASE day > Calendar!LastDay
  BY <1>1, <1>2 DEF Calendar!NextStart
<1>3. ASSUME day <= Calendar!LastDay
      PROVE  /\ Calendar!NextStart(day, step) \in Nat \ {0}
             /\ day < Calendar!NextStart(day, step)
  <2> DEFINE S == {m \in Calendar!Months : Calendar!FirstDay[m] <= day}
             k == Calendar!MonthOf(day)
  <2>1. MonthCount # 0 /\ 1 \in S /\ Calendar!Months = 1..MonthCount
    <3>1. Calendar!Months = 1..MonthCount
      BY DatesAssumption DEF Calendar!Months, Calendar!CalendarAssumption, MonthCount
    <3>2. MonthCount # 0
      BY <1>1, <1>3, FirstDays, MonthsType
    <3> QED
      BY <3>1, <3>2, FirstDays, MonthsType
  <2>2. S \in SUBSET Nat /\ S # {} /\ IsFiniteSet(S)
    <3>1. IsFiniteSet(1..MonthCount)
      <4>1. 1 \in Int /\ MonthCount \in Int
        BY MonthsType
      <4> QED
        BY ONLY <4>1, FS_Interval, Zenon
    <3>2. S \in SUBSET (1..MonthCount)
      BY <2>1
    <3>3. IsFiniteSet(S)
      BY ONLY <3>1, <3>2, FS_Subset
    <3> QED
      BY <3>2, <3>3, <2>1
  <2> HIDE DEF S
  <2>3. \E x \in S : \A y \in S : y <= x
    BY ONLY <2>2, GreatestExists
  <2>4. k \in S
    <3>1. \E x \in S : \A y \in S : x >= y
      BY <2>2, <2>3
    <3> QED
      BY <3>1 DEF Calendar!MonthOf, Calendar!Max, S
  <2> HIDE DEF k
  <2>5. k \in 1..MonthCount /\ Calendar!FirstDay[k] <= day /\ k \in 1..MonthCount + 1 /\ Calendar!FirstDay[k] \in Nat
    BY <2>1, <2>4, FirstDays, MonthsType DEF S
  <2>6. CASE k + step > MonthCount
    BY <2>6, <1>1, <1>3, <2>5 DEF Calendar!NextStart, k, MonthCount
  <2>7. CASE ~(k + step > MonthCount)
    <3>1. k + step \in 1..MonthCount + 1 /\ k < k + step
      BY <2>5, <2>7, MonthsType
    <3>2. Calendar!FirstDay[k] < Calendar!FirstDay[k + step] /\ Calendar!FirstDay[k + step] \in Nat
      BY <3>1, <2>5, MonthsFollow, FirstDays
    <3>3. Calendar!NextStart(day, step) = Calendar!FirstDay[k + step] + day - Calendar!FirstDay[k]
      BY <2>7, <1>1, <1>3 DEF Calendar!NextStart, k, MonthCount
    <3> QED
      BY <3>2, <3>3, <2>5
  <2> QED
    BY <2>6, <2>7
<1> QED
  BY <1>1, <1>2, <1>3

-----------------------------------------------------------------------------
(* Where the periods of a year begin and end: one after the other.          *)
Regular(g, end) == {n \in 1..MaxRegular : g[n] <= end}
Starts(g, start) ==
  /\ g \in [1..MaxRegular -> Nat \ {0}] /\ g[1] = start
  /\ \A n \in 1..MaxRegular : n < MaxRegular =>
       /\ g[n] <= Calendar!LastDay => g[n] < g[n + 1]
       /\ g[n] > Calendar!LastDay => g[n + 1] > Calendar!LastDay
EndsOf(e, g, end) ==
  \A n \in Regular(g, end) :
    /\ e[n] \in Nat /\ g[n] <= e[n] /\ e[n] <= end
    /\ n < MaxRegular => e[n] < g[n + 1] /\ (e[n] = end \/ e[n] + 1 = g[n + 1])

(* The last day of a period: the day before the next, or the year's.        *)
LEMMA Least ==
  ASSUME NEW a \in Nat, NEW b \in Nat
  PROVE  Calendar!Min({a, b}) = IF a <= b THEN a ELSE b
<1>1. ASSUME NEW x \in {a, b}, NEW y \in {a, b}, \A z \in {a, b} : x <= z, \A z \in {a, b} : y <= z
      PROVE  x = y
  BY <1>1
<1>2. \E x \in {a, b} : \A z \in {a, b} : x <= z
  OBVIOUS
<1>3. Calendar!Min({a, b}) \in {a, b} /\ \A z \in {a, b} : Calendar!Min({a, b}) <= z
  BY <1>2 DEF Calendar!Min
<1> QED
  BY <1>3

LEMMA Generated ==
  ASSUME NEW start \in Nat \ {0}, NEW end \in Nat, start <= end, end <= Calendar!LastDay,
         NEW step \in Lengths, NEW adjustments \in Adjustments
  PROVE  \E g, e, last :
           /\ Starts(g, start) /\ EndsOf(e, g, end)
           /\ Calendar!GeneratePeriods(start, end, step, adjustments)
                = {Calendar!Period(n, g[n], e[n], FALSE) : n \in Regular(g, end)}
                  \cup {Calendar!Period(Calendar!Max(Regular(g, end)) + i, last, last, TRUE) : i \in 1..adjustments}
           /\ last \in Nat /\ start <= last /\ last <= end
<1>1. MaxRegular \in Nat \ {0} /\ step \in Nat \ {0} /\ adjustments \in Nat
  BY DatesAssumption DEF Calendar!CalendarAssumption
<1>2. PICK f : f = [p \in (1..MaxRegular) \X (Nat \ {0}) |-> Calendar!NextStart(p[2], step)]
  OBVIOUS
<1>3. \A m \in 1..MaxRegular, x \in Nat \ {0} :
        f[<<m, x>>] = Calendar!NextStart(x, step) /\ f[<<m, x>>] \in Nat \ {0}
  BY <1>1, <1>2, Later
<1>4. PICK g \in [1..MaxRegular -> Nat \ {0}] :
        \A m \in 1..MaxRegular : g[m] = IF m = 1 THEN start ELSE f[<<m, g[m - 1]>>]
  <2>1. PICK V : V = Nat \ {0}
    OBVIOUS
  <2>2. \A m \in 2..MaxRegular : m \in 1..MaxRegular
    BY <1>1
  <2>3. \A m \in 2..MaxRegular, x \in V : f[<<m, x>>] \in V
    BY <1>3, <2>1, <2>2
  <2>4. MaxRegular \in Nat /\ start \in V /\ Stepping(f, MaxRegular, V)
    BY <1>1, <2>1, <2>3 DEF Stepping
  <2>5. \E g \in [1..MaxRegular -> V] : Run(g, f, MaxRegular, start)
    BY ONLY <2>4, StepByStep
  <2> QED
    BY <2>1, <2>5 DEF Run
<1>5. g = [m \in 1..MaxRegular |-> IF m = 1 THEN start ELSE Calendar!NextStart(g[m - 1], step)]
  <2>1. ASSUME NEW m \in 1..MaxRegular, m # 1 PROVE f[<<m, g[m - 1]>>] = Calendar!NextStart(g[m - 1], step)
    <3>1. m - 1 \in 1..MaxRegular
      BY <2>1, <1>1
    <3> QED
      BY <3>1, <1>3
  <2> QED
    BY <1>4, <2>1
<1> DEFINE h == CHOOSE from : from = [n \in 1..MaxRegular |->
                  IF n = 1 THEN start ELSE Calendar!NextStart(from[n - 1], step)]
           Begun == Regular(h, end)
           lastDay(n) == Calendar!Min({Calendar!NextStart(h[n], step) - 1, end})
           last == lastDay(Calendar!Max(Begun))
<1>6. h = [n \in 1..MaxRegular |-> IF n = 1 THEN start ELSE Calendar!NextStart(h[n - 1], step)]
  BY ONLY <1>5
<1>7. Calendar!GeneratePeriods(start, end, step, adjustments)
        = {Calendar!Period(n, h[n], lastDay(n), FALSE) : n \in Begun}
          \cup {Calendar!Period(Calendar!Max(Begun) + i, last, last, TRUE) : i \in 1..adjustments}
  BY Zenon DEF Calendar!GeneratePeriods, Regular
<1> HIDE DEF h
<1>8. \A n \in 1..MaxRegular : h[n] \in Nat \ {0}
  <2> DEFINE G == {n \in 1..MaxRegular : h[n] \in Nat \ {0}}
  <2>1. 1 \in G
    BY <1>1, <1>6
  <2>2. ASSUME NEW n \in 1..MaxRegular, n < MaxRegular, n \in G PROVE n + 1 \in G
    <3>1. n + 1 \in 1..MaxRegular /\ n + 1 # 1 /\ (n + 1) - 1 = n
      BY <2>2, <1>1
    <3>2. Calendar!NextStart(h[n], step) \in Nat \ {0}
      BY <2>2, <1>1, Later
    <3> QED
      BY <3>1, <3>2, <1>6
  <2> HIDE DEF G
  <2>3. \A n \in 1..MaxRegular : n \in G
    <3>1. MaxRegular \in Nat
      BY <1>1
    <3> QED
      BY ONLY <2>1, <2>2, <3>1, OneByOne
  <2> QED
    BY <2>3 DEF G
<1>9. \A n \in 1..MaxRegular : n < MaxRegular => h[n + 1] = Calendar!NextStart(h[n], step)
  <2> SUFFICES ASSUME NEW n \in 1..MaxRegular, n < MaxRegular PROVE h[n + 1] = Calendar!NextStart(h[n], step)
    OBVIOUS
  <2>1. n + 1 \in 1..MaxRegular /\ n + 1 # 1 /\ (n + 1) - 1 = n
    BY <1>1
  <2> QED
    BY <2>1, <1>6
<1>10. Starts(h, start)
  <2>1. h \in [1..MaxRegular -> Nat \ {0}]
    BY <1>6, <1>8
  <2>2. h[1] = start
    BY <1>1, <1>6
  <2>3. ASSUME NEW n \in 1..MaxRegular, n < MaxRegular
        PROVE  /\ h[n] <= Calendar!LastDay => h[n] < h[n + 1]
               /\ h[n] > Calendar!LastDay => h[n + 1] > Calendar!LastDay
    <3>1. PICK day \in Nat \ {0} : day = h[n]
      BY <1>8
    <3>2. PICK x : x = Calendar!NextStart(day, step)
      OBVIOUS
    <3>3. x \in Nat \ {0} /\ (day <= Calendar!LastDay => day < x)
          /\ (day > Calendar!LastDay => Calendar!LastDay < x)
      BY <3>2, <1>1, Later
    <3>4. h[n + 1] = x
      BY <2>3, <3>1, <3>2, <1>9
    <3> QED
      BY <3>1, <3>3, <3>4, LastDayType
  <2> QED
    BY <2>1, <2>2, <2>3 DEF Starts
<1>11. ASSUME NEW n \in Begun
       PROVE  /\ lastDay(n) \in Nat /\ h[n] <= lastDay(n) /\ lastDay(n) <= end
              /\ n < MaxRegular => lastDay(n) < h[n + 1] /\ (lastDay(n) = end \/ lastDay(n) + 1 = h[n + 1])
  <2>1. n \in 1..MaxRegular /\ h[n] <= end /\ h[n] \in Nat \ {0}
    BY <1>8 DEF Regular
  <2>2. PICK x : x = Calendar!NextStart(h[n], step)
    OBVIOUS
  <2>3. x \in Nat \ {0} /\ h[n] < x
    <3>1. PICK day \in Nat \ {0} : day = h[n]
      BY <2>1
    <3>2. x = Calendar!NextStart(day, step) /\ day <= Calendar!LastDay
      BY <2>1, <2>2, <3>1, LastDayType
    <3>3. x \in Nat \ {0} /\ day < x
      BY <3>2, <1>1, Later
    <3> QED
      BY <3>1, <3>3
  <2>4. lastDay(n) = IF x - 1 <= end THEN x - 1 ELSE end
    BY <2>2, <2>3, Least
  <2>5. n < MaxRegular => h[n + 1] = x
    BY <1>9, <2>1, <2>2
  <2> HIDE DEF lastDay
  <2> QED
    BY <2>1, <2>3, <2>4, <2>5
<1>12. Calendar!Max(Begun) \in Begun
  <2>1. Begun \in SUBSET Nat /\ 1 \in Begun
    BY <1>1, <1>10 DEF Regular, Starts
  <2>2. IsFiniteSet(Begun)
    <3>1. 1 \in Int /\ MaxRegular \in Int
      BY <1>1
    <3>2. IsFiniteSet(1..MaxRegular)
      BY ONLY <3>1, FS_Interval, Zenon
    <3>3. Begun \in SUBSET (1..MaxRegular)
      BY DEF Regular
    <3> HIDE DEF Begun
    <3> QED
      BY ONLY <3>2, <3>3, FS_Subset
  <2> HIDE DEF Begun
  <2>3. \E x \in Begun : \A y \in Begun : y <= x
    BY <2>1, <2>2, GreatestExists
  <2>4. \E x \in Begun : \A y \in Begun : x >= y
    BY <2>1, <2>3
  <2> QED
    BY <2>4 DEF Calendar!Max
<1> HIDE DEF Begun
<1>13. last \in Nat /\ start <= last /\ last <= end
  <2>1. start <= h[Calendar!Max(Begun)]
    <3>1. \A n \in Begun : n \in 1..MaxRegular /\ h[n] <= end
      BY DEF Begun, Regular
    <3> DEFINE G == {n \in 1..MaxRegular : start <= h[n] \/ Calendar!LastDay < h[n]}
    <3>2. 1 \in G
      BY <1>1, <1>10 DEF Starts
    <3>3. ASSUME NEW n \in 1..MaxRegular, n < MaxRegular, n \in G PROVE n + 1 \in G
      <4>1. n + 1 \in 1..MaxRegular /\ h[n] \in Nat /\ h[n + 1] \in Nat
        BY <3>3, <1>1, <1>8
      <4>2. (h[n] <= Calendar!LastDay => h[n] < h[n + 1]) /\ (h[n] > Calendar!LastDay => h[n + 1] > Calendar!LastDay)
        BY <3>3, <1>10 DEF Starts
      <4>3. Calendar!LastDay \in Int
        BY LastDayType
      <4> QED
        BY <4>1, <4>2, <4>3, <3>3
    <3> HIDE DEF G
    <3>4. \A n \in 1..MaxRegular : n \in G
      <4>1. MaxRegular \in Nat
        BY <1>1
      <4> QED
        BY ONLY <3>2, <3>3, <4>1, OneByOne
    <3> QED
      BY <3>1, <3>4, <1>8, <1>12, LastDayType DEF G
  <2> HIDE DEF lastDay
  <2> QED
    BY <2>1, <1>8, <1>11, <1>12 DEF Begun, Regular
<1>14. PICK e : e = [n \in Begun |-> lastDay(n)]
  OBVIOUS
<1>15. EndsOf(e, h, end)
  <2> HIDE DEF lastDay
  <2> QED
    BY <1>11, <1>14 DEF EndsOf, Begun
<1>16. {Calendar!Period(n, h[n], lastDay(n), FALSE) : n \in Begun}
         = {Calendar!Period(n, h[n], e[n], FALSE) : n \in Begun}
  <2> HIDE DEF lastDay
  <2> QED
    BY <1>14
<1> HIDE DEF lastDay, last
<1>17. Calendar!GeneratePeriods(start, end, step, adjustments)
        = {Calendar!Period(n, h[n], e[n], FALSE) : n \in Regular(h, end)}
          \cup {Calendar!Period(Calendar!Max(Regular(h, end)) + i, last, last, TRUE) : i \in 1..adjustments}
  BY <1>7, <1>16 DEF Begun
<1> QED
  BY <1>10, <1>13, <1>15, <1>17

IsRegular(p, no, start, end) == p.no = no /\ p.start = start /\ p.end = end /\ ~p.adjustment
IsAdjustment(p, day) == p.start = day /\ p.end = day /\ p.adjustment

LEMMA RegularFields ==
  ASSUME NEW n, NEW a, NEW b
  PROVE  IsRegular(Calendar!Period(n, a, b, FALSE), n, a, b)
<1>1. Calendar!Period(n, a, b, FALSE) = [no |-> n, start |-> a, end |-> b, adjustment |-> FALSE]
  BY DEF Calendar!Period
<1>2. IsRegular([no |-> n, start |-> a, end |-> b, adjustment |-> FALSE], n, a, b)
  BY DEF IsRegular
<1> QED
  BY <1>1, <1>2

LEMMA AdjustmentFields ==
  ASSUME NEW n, NEW a
  PROVE  IsAdjustment(Calendar!Period(n, a, a, TRUE), a)
<1>1. Calendar!Period(n, a, a, TRUE) = [no |-> n, start |-> a, end |-> a, adjustment |-> TRUE]
  BY DEF Calendar!Period
<1>2. IsAdjustment([no |-> n, start |-> a, end |-> a, adjustment |-> TRUE], a)
  BY DEF IsAdjustment
<1> QED
  BY <1>1, <1>2

LEMMA Rising ==
  ASSUME NEW g, NEW start \in Nat \ {0}, Starts(g, start), NEW k \in 1..MaxRegular, g[k] <= Calendar!LastDay
  PROVE  \A n \in 1..MaxRegular : n < k => g[n] < g[k] /\ g[n + 1] <= g[k]
<1> DEFINE G == {m \in 1..MaxRegular : g[m] <= Calendar!LastDay =>
                   \A n \in 1..MaxRegular : n < m => g[n] < g[m] /\ g[n + 1] <= g[m]}
<1>0. MaxRegular \in Nat \ {0}
  BY DatesAssumption DEF Calendar!CalendarAssumption
<1>1. 1 \in G
  BY <1>0
<1>2. ASSUME NEW m \in 1..MaxRegular, m < MaxRegular, m \in G PROVE m + 1 \in G
  <2>1. m + 1 \in 1..MaxRegular /\ g[m] \in Nat /\ g[m + 1] \in Nat
    BY <1>0, <1>2 DEF Starts
  <2>2. CASE g[m] > Calendar!LastDay
    BY <2>1, <2>2, <1>2, LastDayType DEF Starts
  <2>3. CASE g[m] <= Calendar!LastDay
    <3>1. g[m] < g[m + 1]
      BY <2>3, <1>2 DEF Starts
    <3>2. ASSUME NEW n \in 1..MaxRegular, n < m + 1 PROVE g[n] < g[m + 1] /\ g[n + 1] <= g[m + 1]
      <4>1. CASE n = m
        BY <4>1, <3>1, <2>1
      <4>2. CASE n < m
        <5>1. n + 1 \in 1..MaxRegular /\ g[n] \in Nat /\ g[n + 1] \in Nat
          BY <4>2, <2>1, <1>0 DEF Starts
        <5>2. g[n] < g[m] /\ g[n + 1] <= g[m]
          BY <4>2, <2>3, <1>2
        <5> QED
          BY <5>1, <5>2, <3>1, <2>1
      <4> QED
        BY <3>2, <4>1, <4>2
    <3> QED
      BY <2>1, <3>2
  <2> QED
    BY <2>1, <2>2, <2>3, LastDayType
<1> HIDE DEF G
<1>3. \A m \in 1..MaxRegular : m \in G
  <2>1. MaxRegular \in Nat
    BY <1>0
  <2> QED
    BY ONLY <1>1, <1>2, <2>1, OneByOne
<1> QED
  BY <1>3 DEF G

(* The periods made for a year lie in it, apart from each other, and, if    *)
(* there are enough of them, leave no day of it out.                        *)
InForceOn(P, day) == {p \in P : ~p.adjustment /\ p.start <= day /\ day <= p.end}
TilesYear(P, start, end) ==
  /\ \A p \in P : /\ p.start \in Nat /\ p.end \in Nat
                  /\ start <= p.start /\ p.start <= p.end /\ p.end <= end
  /\ \A p, q \in P : ~p.adjustment /\ ~q.adjustment => p = q \/ p.end < q.start \/ q.end < p.start
  /\ Cardinality({p \in P : ~p.adjustment}) < MaxRegular =>
       \A day \in start..end : InForceOn(P, day) # {}

LEMMA GeneratedTiles ==
  ASSUME NEW start \in Nat \ {0}, NEW end \in Nat, start <= end, end <= Calendar!LastDay,
         NEW step \in Lengths, NEW adjustments \in Adjustments
  PROVE  TilesYear(Calendar!GeneratePeriods(start, end, step, adjustments), start, end)
<1>0. MaxRegular \in Nat \ {0}
  BY DatesAssumption DEF Calendar!CalendarAssumption
<1>1. PICK g, e, last :
           /\ Starts(g, start) /\ EndsOf(e, g, end)
           /\ Calendar!GeneratePeriods(start, end, step, adjustments)
                = {Calendar!Period(n, g[n], e[n], FALSE) : n \in Regular(g, end)}
                  \cup {Calendar!Period(Calendar!Max(Regular(g, end)) + i, last, last, TRUE) : i \in 1..adjustments}
           /\ last \in Nat /\ start <= last /\ last <= end
  BY Generated
<1> DEFINE Begun == Regular(g, end)
           most == Calendar!Max(Begun)
           made(n) == Calendar!Period(n, g[n], e[n], FALSE)
           Q == {made(n) : n \in Begun}
           A == {Calendar!Period(most + i, last, last, TRUE) : i \in 1..adjustments}
<1>2. PICK P : P = Calendar!GeneratePeriods(start, end, step, adjustments)
  OBVIOUS
<1>3. P = Q \cup A
  BY <1>1, <1>2
<1>4. \A n \in Begun : n \in 1..MaxRegular /\ g[n] \in Nat /\ g[n] <= end /\ g[n] <= Calendar!LastDay
  BY <1>1, LastDayType DEF Regular, Starts
<1>5. \A n \in Begun : e[n] \in Nat /\ g[n] <= e[n] /\ e[n] <= end
                   /\ (n < MaxRegular => e[n] < g[n + 1] /\ (e[n] = end \/ e[n] + 1 = g[n + 1]))
  BY <1>1 DEF EndsOf
<1>6. \A n \in Begun : made(n).no = n /\ made(n).start = g[n] /\ made(n).end = e[n] /\ ~made(n).adjustment
  <2>1. ASSUME NEW n \in Begun PROVE IsRegular(made(n), n, g[n], e[n])
    BY ONLY RegularFields
  <2> HIDE DEF made
  <2> QED
    BY <2>1 DEF IsRegular
<1>7. \A p \in A : p.start = last /\ p.end = last /\ p.adjustment
  <2>1. ASSUME NEW i \in 1..adjustments PROVE IsAdjustment(Calendar!Period(most + i, last, last, TRUE), last)
    BY ONLY AdjustmentFields
  <2>2. ASSUME NEW p \in A PROVE IsAdjustment(p, last)
    BY <2>1
  <2> QED
    BY <2>2 DEF IsAdjustment
<1> HIDE DEF A, made, most
<1>8. \A n \in Begun : start <= g[n]
  <2> SUFFICES ASSUME NEW n \in Begun PROVE start <= g[n]
    OBVIOUS
  <2>1. 1 \in 1..MaxRegular /\ g[1] = start
    BY <1>0, <1>1 DEF Starts
  <2>2. n = 1 \/ g[1] < g[n]
    BY <2>1, <1>1, <1>4, Rising
  <2> QED
    BY <2>1, <2>2, <1>4
<1>9. \A n, k \in Begun : n < k => e[n] < g[k]
  <2> SUFFICES ASSUME NEW n \in Begun, NEW k \in Begun, n < k PROVE e[n] < g[k]
    OBVIOUS
  <2>1. n \in 1..MaxRegular /\ k \in 1..MaxRegular /\ n < MaxRegular /\ n + 1 \in 1..MaxRegular
    BY <1>0, <1>4
  <2>2. g[n + 1] <= g[k]
    BY <2>1, <1>1, <1>4, Rising
  <2>3. g[n + 1] \in Nat /\ e[n] < g[n + 1] /\ e[n] \in Nat /\ g[k] \in Nat
    BY <2>1, <1>1, <1>4, <1>5 DEF Starts
  <2> QED
    BY <2>2, <2>3
<1> HIDE DEF Begun
<1>10. \A p \in P : /\ p.start \in Nat /\ p.end \in Nat
                    /\ start <= p.start /\ p.start <= p.end /\ p.end <= end
  <2>1. \A p \in Q : /\ p.start \in Nat /\ p.end \in Nat
                     /\ start <= p.start /\ p.start <= p.end /\ p.end <= end
    BY <1>4, <1>5, <1>6, <1>8
  <2>2. \A p \in A : /\ p.start \in Nat /\ p.end \in Nat
                     /\ start <= p.start /\ p.start <= p.end /\ p.end <= end
    BY <1>1, <1>7
  <2> QED
    BY <1>3, <2>1, <2>2
<1>11. {p \in P : ~p.adjustment} = Q
  BY <1>3, <1>6, <1>7
<1>12. ASSUME NEW p \in Q, NEW q \in Q PROVE p = q \/ p.end < q.start \/ q.end < p.start
  <2>1. PICK n \in Begun, k \in Begun : p = made(n) /\ q = made(k)
    OBVIOUS
  <2>2. n = k \/ n < k \/ k < n
    BY <1>4
  <2> QED
    BY <2>1, <2>2, <1>6, <1>9
<1>13. ASSUME Cardinality(Q) < MaxRegular, NEW day \in start..end PROVE InForceOn(P, day) # {}
  <2>1. IsFiniteSet(1..MaxRegular) /\ Cardinality(1..MaxRegular) = MaxRegular
    <3>1. 1 \in Int /\ MaxRegular \in Int /\ ~(1 > MaxRegular) /\ MaxRegular - 1 + 1 = MaxRegular
      BY <1>0
    <3>2. IsFiniteSet(1..MaxRegular) /\ Cardinality(1..MaxRegular) = MaxRegular - 1 + 1
      BY ONLY <3>1, FS_Interval, Zenon
    <3> QED
      BY <3>1, <3>2
  <2>2. Begun \in SUBSET (1..MaxRegular) /\ IsFiniteSet(Begun)
    <3>1. Begun \in SUBSET (1..MaxRegular)
      BY <1>4
    <3> QED
      BY ONLY <2>1, <3>1, FS_Subset
  <2>3. Cardinality(Q) = Cardinality(Begun)
    <3>1. PICK f : f = [n \in Begun |-> made(n)]
      OBVIOUS
    <3>2. f \in [Begun -> Q] /\ (\A n \in Begun : f[n] = made(n)) /\ \A p \in Q : \E n \in Begun : f[n] = p
      BY <3>1
    <3>3. \A n, k \in Begun : f[n] = f[k] => n = k
      BY <3>2, <1>6
    <3> HIDE DEF Q
    <3>4. f \in Bijection(Begun, Q)
      <4>1. f \in Injection(Begun, Q)
        BY ONLY <3>2, <3>3, Zenon DEF Injection, IsInjective
      <4>2. f \in Surjection(Begun, Q)
        BY ONLY <3>2, Zenon DEF Surjection
      <4> QED
        BY ONLY <4>1, <4>2 DEF Bijection
    <3>5. ExistsBijection(Begun, Q)
      BY <3>4 DEF ExistsBijection
    <3> QED
      BY ONLY <3>5, <2>2, FS_Bijection
  <2>4. PICK u \in 1..MaxRegular : u \notin Begun
    <3>1. Begun # 1..MaxRegular
      BY <1>13, <1>0, <2>1, <2>3
    <3> QED
      BY <2>2, <3>1
  <2> DEFINE S == {n \in Begun : g[n] <= day}
  <2>5. 1 \in S
    <3>1. 1 \in 1..MaxRegular /\ g[1] = start
      BY <1>0, <1>1 DEF Starts
    <3> QED
      BY <3>1, <1>13 DEF Begun, Regular
  <2>6. S \in SUBSET Nat /\ IsFiniteSet(S)
    <3>1. S \in SUBSET Begun
      OBVIOUS
    <3>2. IsFiniteSet(S)
      <4> HIDE DEF S
      <4> QED
        BY ONLY <2>2, <3>1, FS_Subset
    <3> QED
      BY <3>2, <1>4
  <2>7. PICK n \in S : \A k \in S : k <= n
    <3> HIDE DEF S
    <3>1. S # {}
      BY <2>5
    <3> QED
      BY ONLY <2>6, <3>1, GreatestExists
  <2>8. n < MaxRegular
    <3> SUFFICES ASSUME n = MaxRegular PROVE FALSE
      BY <1>4, <1>0
    <3>1. u < n /\ n \in Begun
      BY <2>4, <1>4
    <3>2. g[u] < g[n]
      BY <3>1, <1>1, <1>4, Rising
    <3>3. g[u] \in Nat /\ g[u] <= end
      BY <3>1, <3>2, <1>1, <1>4 DEF Starts
    <3> QED
      BY <3>3, <2>4 DEF Begun, Regular
  <2>9. n + 1 \in 1..MaxRegular /\ n \in Begun /\ n + 1 \notin S /\ g[n + 1] \in Nat
    BY <2>7, <2>8, <1>0, <1>1, <1>4 DEF Starts
  <2>10. day < g[n + 1]
    <3>1. CASE n + 1 \in Begun
      BY <3>1, <2>9, <1>13
    <3>2. CASE n + 1 \notin Begun
      BY <3>2, <2>9, <1>13 DEF Begun, Regular
    <3> QED
      BY <3>1, <3>2
  <2>11. g[n] <= day /\ day <= e[n]
    BY <2>7, <2>8, <2>9, <2>10, <1>5, <1>13
  <2>12. made(n) \in P /\ ~made(n).adjustment /\ made(n).start <= day /\ day <= made(n).end
    BY <2>9, <2>11, <1>3, <1>6
  <2> QED
    BY <2>12 DEF InForceOn
<1>14. \A p, q \in P : ~p.adjustment /\ ~q.adjustment => p = q \/ p.end < q.start \/ q.end < p.start
  BY <1>11, <1>12
<1>15. Cardinality({p \in P : ~p.adjustment}) < MaxRegular =>
         \A day \in start..end : InForceOn(P, day) # {}
  BY <1>11, <1>13
<1> QED
  BY <1>2, <1>10, <1>14, <1>15 DEF TilesYear
-----------------------------------------------------------------------------
(* Years apart from each other, each tiled by its periods.                  *)
YearTiled(y) ==
  /\ y.start \in Nat \ {0} /\ y.end \in Nat /\ y.start <= y.end /\ y.end <= Calendar!LastDay
  /\ TilesYear(y.periods, y.start, y.end)
CalendarInv ==
  /\ \A y \in years : YearTiled(y)
  /\ \A y, z \in years : y = z \/ y.end < z.start \/ z.end < y.start

LEMMA CalendarInit == Calendar!Init => CalendarInv
  BY DEF Calendar!Init, CalendarInv

LEMMA CalendarStep == CalendarInv /\ [Calendar!Next]_(Calendar!vars) => CalendarInv'
<1> SUFFICES ASSUME CalendarInv, [Calendar!Next]_(Calendar!vars) PROVE CalendarInv'
  OBVIOUS
<1>1. CASE UNCHANGED years
  BY <1>1 DEF CalendarInv
<1>2. ASSUME NEW start \in Calendar!Days, NEW end \in Calendar!Days, NEW step \in Lengths,
             NEW adjustments \in Adjustments, Calendar!CreateFiscalYear(start, end, step, adjustments)
      PROVE  CalendarInv'
  <2>1. start \in Nat \ {0} /\ end \in Nat /\ start <= end /\ end <= Calendar!LastDay
    BY <1>2, LastDayType DEF Calendar!CreateFiscalYear, Calendar!Days
  <2>2. PICK P : P = Calendar!GeneratePeriods(start, end, step, adjustments)
    OBVIOUS
  <2>3. TilesYear(P, start, end)
    BY <2>1, <2>2, GeneratedTiles
  <2>4. PICK new : new = [start |-> start, end |-> end, step |-> step, periods |-> P]
    OBVIOUS
  <2>5. new.start = start /\ new.end = end /\ new.periods = P
    BY ONLY <2>4
  <2>6. years' = years \cup {new} /\ \A y \in years : ~(y.start <= end /\ start <= y.end)
    BY <1>2, <2>2, <2>4 DEF Calendar!CreateFiscalYear, Calendar!Overlapping
  <2>7. YearTiled(new)
    BY <2>1, <2>3, <2>5 DEF YearTiled
  <2>8. \A y \in years' : YearTiled(y)
    BY <2>6, <2>7 DEF CalendarInv
  <2>9. \A y \in years : y.end < new.start \/ new.end < y.start
    BY <2>1, <2>5, <2>6 DEF CalendarInv, YearTiled
  <2>10. \A y, z \in years' : y = z \/ y.end < z.start \/ z.end < y.start
    BY <2>6, <2>9 DEF CalendarInv
  <2> QED
    BY <2>8, <2>10 DEF CalendarInv
<1> QED
  BY <1>1, <1>2 DEF Calendar!Next, Calendar!vars

LEMMA CalendarImply == CalendarInv => Calendar!EveryDayHasOnePeriod
<1> SUFFICES ASSUME CalendarInv PROVE Calendar!EveryDayHasOnePeriod
  OBVIOUS
<1>0. \A S : Calendar!Cardinality(S) = Cardinality(S)
  BY Zenon DEF Calendar!Cardinality, Cardinality, Calendar!IsFiniteSet, IsFiniteSet
<1>1. \A y \in years : YearTiled(y)
  BY DEF CalendarInv
<1>2. ASSUME NEW day \in Calendar!Days PROVE Calendar!Cardinality(Calendar!ResolvePeriod(day)) <= 1
  <2>1. day \in Nat
    BY LastDayType DEF Calendar!Days
  <2>2. ASSUME NEW p \in Calendar!ResolvePeriod(day), NEW q \in Calendar!ResolvePeriod(day) PROVE p = q
    <3>1. PICK y \in years, z \in years : p \in y.periods /\ q \in z.periods
      BY DEF Calendar!ResolvePeriod
    <3>2. /\ ~p.adjustment /\ p.start <= day /\ day <= p.end
          /\ ~q.adjustment /\ q.start <= day /\ day <= q.end
      BY DEF Calendar!ResolvePeriod
    <3>3. /\ p.start \in Nat /\ p.end \in Nat /\ y.start <= p.start /\ p.end <= y.end
          /\ q.start \in Nat /\ q.end \in Nat /\ z.start <= q.start /\ q.end <= z.end
          /\ y.start \in Nat /\ y.end \in Nat /\ z.start \in Nat /\ z.end \in Nat
      BY <1>1, <3>1 DEF YearTiled, TilesYear
    <3>4. y = z
      BY <2>1, <3>2, <3>3 DEF CalendarInv
    <3>5. p = q \/ p.end < q.start \/ q.end < p.start
      BY <1>1, <3>1, <3>2, <3>4 DEF YearTiled, TilesYear
    <3> QED
      BY <2>1, <3>2, <3>3, <3>5
  <2>3. PICK S : S = Calendar!ResolvePeriod(day)
    OBVIOUS
  <2>4. S = {} \/ \E p : S = {p}
    BY <2>2, <2>3
  <2>5. Cardinality(S) = 0 \/ Cardinality(S) = 1
    BY ONLY <2>4, FS_EmptySet, FS_Singleton
  <2> QED
    BY <1>0, <2>3, <2>5
<1>3. ASSUME NEW y \in years, NEW day \in y.start..y.end, Calendar!Complete(y)
      PROVE  Calendar!ResolvePeriod(day) \cap y.periods # {}
  <2>1. Cardinality({p \in y.periods : ~p.adjustment}) < MaxRegular
    BY <1>0, <1>3 DEF Calendar!Complete
  <2>2. InForceOn(y.periods, day) # {}
    BY <1>1, <2>1 DEF YearTiled, TilesYear
  <2> QED
    BY <2>2 DEF InForceOn, Calendar!ResolvePeriod
<1>4. \A y \in years : \A p \in y.periods : y.start <= p.start /\ p.start <= p.end /\ p.end <= y.end
  BY <1>1 DEF YearTiled, TilesYear
<1> QED
  BY <1>2, <1>3, <1>4 DEF Calendar!EveryDayHasOnePeriod

(* Every day of a calendar has one period, one accounting policy, one       *)
(* posting rule and one version of a vendor's bank details in force:        *)
(* versions follow each other without gaps, periods tile their year.        *)
THEOREM OneVersionInForce == PlatformSpec => []OneIsInForce
<1>1. Vendors!Init /\ [][Vendors!Next]_details => []VendorsInv
  BY VendorsInit, VendorsStep, PTL
<1>2. Calendar!Init /\ [][Calendar!Next]_(Calendar!vars) => []CalendarInv
  BY CalendarInit, CalendarStep, PTL
<1>3. Entity!Init /\ [][Entity!Next]_(Entity!vars) => []EntityInv
  BY EntityInit, EntityStep, PTL
<1>4. Rules!Init /\ [][Rules!Next]_(Rules!vars) => []RulesInv
  BY RulesInit, RulesStep, PTL
<1>5. VendorsInv /\ CalendarInv /\ EntityInv /\ RulesInv => OneIsInForce
  BY CalendarImply, EntityImply, RulesImply DEF OneIsInForce, VendorsInv
<1> QED
  BY <1>1, <1>2, <1>3, <1>4, <1>5, OnlyVendors, OnlyCalendar, OnlyEntity, OnlyRules, PTL DEF PlatformSpec
-----------------------------------------------------------------------------
(***************************************************************************)
(* Tax returns (TaxReturns).                                               *)
(***************************************************************************)
ReturnRow == [status : {Returns!None, "DRAFT", "PREPARING", "READY", "FILED", "AMENDED"},
              snapshot : SUBSET TaxDocuments,
              preparer : TaxUsers \cup {Returns!None}, approver : TaxUsers \cup {Returns!None}]

ReturnTypes ==
  /\ return \in [TaxPeriods -> [ReturnVersions -> ReturnRow]]
  /\ reported \in [TaxPeriods -> [ReturnVersions -> SUBSET TaxDocuments]]
  /\ DOMAIN document = TaxDocuments /\ DOMAIN stamp = TaxDocuments

(* A version follows a filed one, which is amended when it is filed.        *)
VersionsFollow ==
  \A p \in TaxPeriods : \A v, w \in ReturnVersions : w = v + 1 =>
    /\ return[p][w].status # Returns!None => v \in Returns!Filed(p)
    /\ return[p][v].status = "AMENDED" <=> w \in Returns!Filed(p)
LastIsFiled ==
  \A p \in TaxPeriods : \A v \in ReturnVersions : v + 1 \notin ReturnVersions => return[p][v].status # "AMENDED"

Signed(r) ==
  /\ r.status = "PREPARING" => r.preparer \in TaxUsers
  /\ r.status \in {"READY", "FILED", "AMENDED"} =>
       r.preparer \in TaxUsers /\ r.approver \in TaxUsers /\ r.preparer # r.approver

FiguresSigned ==
  \A p \in TaxPeriods : \A v \in ReturnVersions :
    /\ Signed(return[p][v])
    /\ v \in Returns!Filed(p) => return[p][v].snapshot = reported[p][v]

(* What is on a return of a period was posted, and stamped with it if with  *)
(* any.                                                                     *)
OwnTransactions ==
  \A p \in TaxPeriods : \A v \in ReturnVersions : \A t \in return[p][v].snapshot :
    document[t] = "POSTED" /\ stamp[t] \in {p, Returns!NoPeriod}

ReturnsInv == ReturnTypes /\ VersionsFollow /\ LastIsFiled /\ FiguresSigned /\ OwnTransactions

LEMMA VersionsType == \E n \in Nat : ReturnVersions = 1..n
  BY ReturnsAssumption DEF Returns!RowsAssumption

LEMMA ReturnsInit == Returns!Init => ReturnsInv
<1> SUFFICES ASSUME Returns!Init PROVE ReturnsInv
  OBVIOUS
<1>1. Returns!NoReturn \in ReturnRow /\ Returns!NoReturn.status = Returns!None /\ Returns!NoReturn.snapshot = {}
  BY DEF Returns!NoReturn, ReturnRow
<1>2. \A p \in TaxPeriods : \A v \in ReturnVersions : return[p][v] = Returns!NoReturn
  BY DEF Returns!Init
<1>3. Returns!None \notin {"FILED", "AMENDED", "READY", "PREPARING"}
  BY DEF Returns!None
<1>4. \A p \in TaxPeriods : Returns!Filed(p) = {}
  BY <1>1, <1>2, <1>3 DEF Returns!Filed
<1>5. ReturnTypes
  BY <1>1 DEF Returns!Init, ReturnTypes
<1>6. VersionsFollow /\ LastIsFiled
  BY <1>1, <1>2, <1>3, <1>4 DEF VersionsFollow, LastIsFiled
<1>7. FiguresSigned /\ OwnTransactions
  BY <1>1, <1>2, <1>3, <1>4 DEF FiguresSigned, Signed, OwnTransactions
<1> QED
  BY <1>5, <1>6, <1>7 DEF ReturnsInv

(* Changing a version that is not filed.                                    *)
LEMMA UnfiledWritten ==
  ASSUME ReturnsInv, NEW p \in TaxPeriods, NEW v \in ReturnVersions, NEW r \in ReturnRow,
         return' = [return EXCEPT ![p][v] = r],
         return[p][v].status \notin {"FILED", "AMENDED"}, r.status \in {"DRAFT", "PREPARING", "READY"},
         \A w \in ReturnVersions : v = w + 1 => w \in Returns!Filed(p),
         Signed(r), \A t \in r.snapshot : document[t] = "POSTED" /\ stamp[t] \in {p, Returns!NoPeriod},
         UNCHANGED <<document, stamp, reported>>
  PROVE  ReturnsInv'
<1>1. /\ return' \in [TaxPeriods -> [ReturnVersions -> ReturnRow]] /\ return'[p][v] = r
      /\ \A q \in TaxPeriods : \A w \in ReturnVersions : q # p \/ w # v => return'[q][w] = return[q][w]
  BY DEF ReturnsInv, ReturnTypes
<1>2. \A q \in TaxPeriods : Returns!Filed(q)' = Returns!Filed(q)
  BY <1>1 DEF Returns!Filed
<1>3. ReturnTypes'
  BY <1>1 DEF ReturnsInv, ReturnTypes
<1>4. VersionsFollow' /\ LastIsFiled'
  <2>1. ASSUME NEW q \in TaxPeriods, NEW x \in ReturnVersions, NEW w \in ReturnVersions, w = x + 1
        PROVE  /\ return'[q][w].status # Returns!None => x \in Returns!Filed(q)
               /\ return'[q][x].status = "AMENDED" <=> w \in Returns!Filed(q)
    <3>1. v \notin Returns!Filed(p)
      BY DEF Returns!Filed
    <3>2. return'[q][w].status # Returns!None => x \in Returns!Filed(q)
      BY <1>1, <2>1 DEF ReturnsInv, VersionsFollow
    <3>3. return'[q][x].status = "AMENDED" <=> w \in Returns!Filed(q)
      <4>1. CASE q = p /\ x = v
        <5>1. return[p][w].status = Returns!None
          BY <2>1, <3>1, <4>1 DEF ReturnsInv, VersionsFollow
        <5> QED
          BY <1>1, <4>1, <5>1 DEF Returns!Filed, Returns!None
      <4>2. CASE ~(q = p /\ x = v)
        BY <1>1, <2>1, <4>2 DEF ReturnsInv, VersionsFollow
      <4> QED
        BY <4>1, <4>2
    <3> QED
      BY <3>2, <3>3
  <2>2. VersionsFollow'
    BY <1>2, <2>1 DEF VersionsFollow
  <2>3. LastIsFiled'
    BY <1>1 DEF ReturnsInv, LastIsFiled
  <2> QED
    BY <2>2, <2>3
<1>5. FiguresSigned'
  <2>1. ASSUME NEW q \in TaxPeriods, NEW w \in ReturnVersions
        PROVE  Signed(return'[q][w]) /\ (w \in Returns!Filed(q) => return'[q][w].snapshot = reported[q][w])
    <3>1. v \notin Returns!Filed(p)
      BY DEF Returns!Filed
    <3>2. CASE q = p /\ w = v
      BY <1>1, <3>1, <3>2
    <3>3. CASE ~(q = p /\ w = v)
      BY <1>1, <3>3 DEF ReturnsInv, FiguresSigned
    <3> QED
      BY <3>2, <3>3
  <2> QED
    BY <1>2, <2>1 DEF FiguresSigned
<1>6. OwnTransactions'
  BY <1>1 DEF ReturnsInv, OwnTransactions
<1> QED
  BY <1>3, <1>4, <1>5, <1>6 DEF ReturnsInv

LEMMA ReturnsStep == ReturnsInv /\ [Returns!Next]_(Returns!vars) => ReturnsInv'
<1> SUFFICES ASSUME ReturnsInv, [Returns!Next]_(Returns!vars) PROVE ReturnsInv'
  OBVIOUS
<1>0. \A p \in TaxPeriods : \A v \in ReturnVersions : return[p][v] \in ReturnRow /\ Signed(return[p][v])
  BY DEF ReturnsInv, ReturnTypes, FiguresSigned
<1>1. CASE UNCHANGED <<document, stamp, return, reported>>
  BY <1>1 DEF ReturnsInv, ReturnTypes, VersionsFollow, LastIsFiled, FiguresSigned, OwnTransactions, Returns!Filed
<1>2. ASSUME NEW d \in TaxDocuments,
             Returns!CreateDocument(d) \/ Returns!StartPosting(d) \/ Returns!RecordTransactions(d)
      PROVE  ReturnsInv'
  <2>1. return' = return /\ reported' = reported
    BY <1>2 DEF Returns!CreateDocument, Returns!StartPosting, Returns!RecordTransactions
  <2>2. DOMAIN document' = TaxDocuments /\ DOMAIN stamp' = TaxDocuments
    BY <1>2 DEF Returns!CreateDocument, Returns!StartPosting, Returns!RecordTransactions, ReturnsInv, ReturnTypes
  <2>3. \A t \in TaxDocuments : document[t] = "POSTED" => document'[t] = "POSTED" /\ stamp'[t] = stamp[t]
    BY <1>2 DEF Returns!CreateDocument, Returns!StartPosting, Returns!RecordTransactions, ReturnsInv, ReturnTypes,
       Returns!None
  <2>4. \A p \in TaxPeriods : \A v \in ReturnVersions : return[p][v].snapshot \in SUBSET TaxDocuments
    BY <1>0 DEF ReturnRow
  <2>5. OwnTransactions'
    BY <2>1, <2>3, <2>4 DEF ReturnsInv, OwnTransactions
  <2> QED
    BY <2>1, <2>2, <2>5 DEF ReturnsInv, ReturnTypes, VersionsFollow, LastIsFiled, FiguresSigned, Returns!Filed
<1>3. ASSUME NEW p \in TaxPeriods, NEW v \in ReturnVersions, Returns!CreateTaxReturn(p, v) PROVE ReturnsInv'
  <2>1. PICK r : r = [return[p][v] EXCEPT !.status = "DRAFT"]
    OBVIOUS
  <2>2. r \in ReturnRow /\ r.status = "DRAFT" /\ r.snapshot = return[p][v].snapshot
    BY <1>0, <2>1 DEF ReturnRow
  <2>3. return' = [return EXCEPT ![p][v] = r]
    BY <1>3, <2>1 DEF Returns!CreateTaxReturn, ReturnsInv, ReturnTypes
  <2>4. return[p][v].status \notin {"FILED", "AMENDED"}
    BY <1>3 DEF Returns!CreateTaxReturn, Returns!None
  <2>5. ASSUME NEW w \in ReturnVersions, v = w + 1 PROVE w \in Returns!Filed(p)
    <3>1. v > 1 /\ v - 1 = w
      BY <2>5, VersionsType
    <3> QED
      BY <1>3, <3>1 DEF Returns!CreateTaxReturn, Returns!Filed
  <2>6. Signed(r)
    BY <2>2 DEF Signed
  <2>7. \A t \in r.snapshot : document[t] = "POSTED" /\ stamp[t] \in {p, Returns!NoPeriod}
    BY <2>2 DEF ReturnsInv, OwnTransactions
  <2>8. UNCHANGED <<document, stamp, reported>>
    BY <1>3 DEF Returns!CreateTaxReturn
  <2> QED
    BY <2>2, <2>3, <2>4, <2>5, <2>6, <2>7, <2>8, UnfiledWritten
<1>4. ASSUME NEW p \in TaxPeriods, NEW v \in ReturnVersions, NEW u \in TaxUsers, Returns!PrepareTaxReturn(p, v, u)
      PROVE  ReturnsInv'
  <2>1. PICK ts : ts = Returns!PartitionForReturn(p)
    OBVIOUS
  <2>2. ts \in SUBSET TaxDocuments /\ \A t \in ts : document[t] = "POSTED" /\ stamp[t] \in {p, Returns!NoPeriod}
    BY <2>1 DEF Returns!PartitionForReturn, Returns!Candidates, Returns!Transactions
  <2>3. PICK r : r = [status |-> "PREPARING", snapshot |-> ts, preparer |-> u, approver |-> Returns!None]
    OBVIOUS
  <2>4. r \in ReturnRow /\ r.status = "PREPARING" /\ r.snapshot = ts /\ r.preparer = u
    BY <2>2, <2>3 DEF ReturnRow
  <2>5. return' = [return EXCEPT ![p][v] = r]
    BY <1>4, <2>1, <2>3 DEF Returns!PrepareTaxReturn
  <2>6. return[p][v].status \in {"DRAFT", "PREPARING", "READY"} /\ UNCHANGED <<document, stamp, reported>>
    BY <1>4 DEF Returns!PrepareTaxReturn
  <2>7. \A w \in ReturnVersions : v = w + 1 => w \in Returns!Filed(p)
    BY <2>6 DEF ReturnsInv, VersionsFollow, Returns!None
  <2>8. Signed(r)
    BY <2>4 DEF Signed
  <2>9. return[p][v].status \notin {"FILED", "AMENDED"}
    BY <2>6
  <2> QED
    BY <2>2, <2>4, <2>5, <2>6, <2>7, <2>8, <2>9, UnfiledWritten
<1>5. ASSUME NEW p \in TaxPeriods, NEW v \in ReturnVersions, NEW u \in TaxUsers, Returns!ApproveTaxReturn(p, v, u)
      PROVE  ReturnsInv'
  <2>1. PICK r : r = [return[p][v] EXCEPT !.status = "READY", !.approver = u]
    OBVIOUS
  <2>2. /\ r \in ReturnRow /\ r.status = "READY" /\ r.snapshot = return[p][v].snapshot
        /\ r.preparer = return[p][v].preparer /\ r.approver = u
    BY <1>0, <2>1 DEF ReturnRow
  <2>3. return' = [return EXCEPT ![p][v] = r]
    BY <1>5, <2>1 DEF Returns!ApproveTaxReturn, ReturnsInv, ReturnTypes
  <2>4. return[p][v].status = "PREPARING" /\ return[p][v].preparer # u /\ UNCHANGED <<document, stamp, reported>>
    BY <1>5 DEF Returns!ApproveTaxReturn
  <2>5. \A w \in ReturnVersions : v = w + 1 => w \in Returns!Filed(p)
    BY <2>4 DEF ReturnsInv, VersionsFollow, Returns!None
  <2>6. Signed(r)
    BY <1>0, <2>2, <2>4 DEF Signed
  <2>7. \A t \in r.snapshot : document[t] = "POSTED" /\ stamp[t] \in {p, Returns!NoPeriod}
    BY <2>2 DEF ReturnsInv, OwnTransactions
  <2>8. return[p][v].status \notin {"FILED", "AMENDED"}
    BY <2>4
  <2> QED
    BY <2>2, <2>3, <2>4, <2>5, <2>6, <2>7, <2>8, UnfiledWritten
<1>6. ASSUME NEW p \in TaxPeriods, NEW v \in ReturnVersions, Returns!MarkTaxReturnFiled(p, v) PROVE ReturnsInv'
  <2>1. return[p][v].status = "READY" /\ UNCHANGED <<document, stamp>>
        /\ reported' = [reported EXCEPT ![p][v] = return[p][v].snapshot]
    BY <1>6 DEF Returns!MarkTaxReturnFiled
  <2>2. PICK filed : filed = [w \in ReturnVersions |->
                  [return[p][w] EXCEPT !.status = CASE w = v -> "FILED" [] w = v - 1 -> "AMENDED"
                                                    [] OTHER -> return[p][w].status]]
    OBVIOUS
  <2>3. return' = [return EXCEPT ![p] = filed]
    BY <1>6, <2>2, Zenon DEF Returns!MarkTaxReturnFiled
  <2>4. \A w \in ReturnVersions : /\ filed[w] \in ReturnRow
                                   /\ filed[w].snapshot = return[p][w].snapshot
                                   /\ filed[w].preparer = return[p][w].preparer
                                   /\ filed[w].approver = return[p][w].approver
    BY <1>0, <2>2 DEF ReturnRow
  <2>5. \A w \in ReturnVersions : filed[w].status = IF w = v THEN "FILED" ELSE
                                     IF w = v - 1 THEN "AMENDED" ELSE return[p][w].status
    <3> SUFFICES ASSUME NEW w \in ReturnVersions
                 PROVE  filed[w].status = IF w = v THEN "FILED" ELSE
                                     IF w = v - 1 THEN "AMENDED" ELSE return[p][w].status
      OBVIOUS
    <3>1. PICK s : s = CASE w = v -> "FILED" [] w = v - 1 -> "AMENDED" [] OTHER -> return[p][w].status
      OBVIOUS
    <3>2. filed[w].status = s
      BY <1>0, <2>2, <3>1 DEF ReturnRow
    <3>3. ~(w = v /\ w = v - 1)
      BY VersionsType
    <3>4. CASE w = v
      BY <3>1, <3>2, <3>3, <3>4
    <3>5. CASE w = v - 1
      BY <3>1, <3>2, <3>3, <3>5
    <3>6. CASE w # v /\ w # v - 1
      BY <3>1, <3>2, <3>6
    <3> QED
      BY <3>3, <3>4, <3>5, <3>6
  <2>6. /\ return' \in [TaxPeriods -> [ReturnVersions -> ReturnRow]]
        /\ \A w \in ReturnVersions : return'[p][w] = filed[w]
        /\ \A q \in TaxPeriods : q # p => return'[q] = return[q]
    <3>1. filed \in [ReturnVersions -> ReturnRow]
      BY <2>2, <2>4
    <3> QED
      BY <2>3, <3>1 DEF ReturnsInv, ReturnTypes
  <2>7. /\ reported' \in [TaxPeriods -> [ReturnVersions -> SUBSET TaxDocuments]]
        /\ reported'[p][v] = return[p][v].snapshot
        /\ \A q \in TaxPeriods : \A w \in ReturnVersions : q # p \/ w # v => reported'[q][w] = reported[q][w]
    BY <1>0, <2>1 DEF ReturnsInv, ReturnTypes, ReturnRow
  <2>8. \A w \in ReturnVersions : w = v - 1 => w \in Returns!Filed(p)
    <3>1. \A w \in ReturnVersions : w = v - 1 => v = w + 1
      BY VersionsType
    <3> QED
      BY <2>1, <3>1 DEF ReturnsInv, VersionsFollow, Returns!None
  <2>9. Returns!Filed(p)' = Returns!Filed(p) \cup {v} /\ \A q \in TaxPeriods : q # p => Returns!Filed(q)' = Returns!Filed(q)
    BY <2>5, <2>6, <2>8 DEF Returns!Filed
  <2>10. ReturnTypes'
    BY <2>1, <2>6, <2>7 DEF ReturnsInv, ReturnTypes
  <2>11. VersionsFollow'
    <3> SUFFICES ASSUME NEW q \in TaxPeriods, NEW x \in ReturnVersions, NEW w \in ReturnVersions, w = x + 1
                 PROVE  /\ return'[q][w].status # Returns!None => x \in Returns!Filed(q)'
                        /\ return'[q][x].status = "AMENDED" <=> w \in Returns!Filed(q)'
      BY DEF VersionsFollow
    <3>1. CASE q # p
      BY <2>6, <2>9, <3>1 DEF ReturnsInv, VersionsFollow
    <3>2. CASE q = p
      <4>1. x \in Nat /\ w \in Nat /\ v \in Nat /\ (w = v <=> x = v - 1) /\ w # x
        BY VersionsType
      <4>2. /\ return[p][w].status # Returns!None => x \in Returns!Filed(p)
            /\ return[p][x].status = "AMENDED" <=> w \in Returns!Filed(p)
        BY DEF ReturnsInv, VersionsFollow
      <4>3. CASE x = v
        <5>1. w \notin Returns!Filed(p) /\ w # v
          BY <2>1, <4>1, <4>2, <4>3 DEF Returns!Filed, Returns!None
        <5>2. return'[p][x].status = "FILED"
          BY <2>5, <2>6, <4>3
        <5> QED
          BY <2>9, <3>2, <4>3, <5>1, <5>2
      <4>4. CASE x # v /\ w = v
        <5>1. return'[p][x].status = "AMENDED"
          BY <2>5, <2>6, <4>1, <4>4
        <5>2. x \in Returns!Filed(p)
          BY <2>8, <4>1, <4>4
        <5> QED
          BY <2>9, <3>2, <4>4, <5>1, <5>2
      <4>5. CASE x # v /\ w # v
        <5>1. return'[p][x].status = return[p][x].status
          BY <2>5, <2>6, <4>1, <4>5
        <5>2. return'[p][w].status # Returns!None => return[p][w].status # Returns!None
          <6>1. w = v - 1 => return[p][w].status # Returns!None
            BY <2>8 DEF Returns!Filed, Returns!None
          <6> QED
            BY <2>5, <2>6, <4>5, <6>1
        <5> QED
          BY <2>9, <3>2, <4>2, <4>5, <5>1, <5>2
      <4> QED
        BY <4>3, <4>4, <4>5
    <3> QED
      BY <3>1, <3>2
  <2>12. LastIsFiled'
    <3>1. \A w \in ReturnVersions : w + 1 \notin ReturnVersions => w # v - 1
      BY VersionsType
    <3> QED
      BY <2>5, <2>6, <3>1 DEF ReturnsInv, LastIsFiled
  <2>13. FiguresSigned'
    <3>1. ASSUME NEW w \in ReturnVersions
          PROVE  Signed(filed[w]) /\ (w \in Returns!Filed(p)' => filed[w].snapshot = reported'[p][w])
      <4>1. CASE w = v
        BY <1>0, <2>1, <2>4, <2>5, <2>7, <4>1 DEF Signed
      <4>2. CASE w # v
        <5>1. w = v - 1 => return[p][w].status \in {"FILED", "AMENDED"}
          BY <2>8 DEF Returns!Filed
        <5>2. Signed(filed[w])
          BY <1>0, <2>4, <2>5, <4>2, <5>1 DEF Signed
        <5> QED
          BY <2>4, <2>7, <2>9, <4>2, <5>2 DEF ReturnsInv, FiguresSigned
      <4> QED
        BY <4>1, <4>2
    <3>2. ASSUME NEW q \in TaxPeriods, q # p, NEW w \in ReturnVersions
          PROVE  Signed(return'[q][w]) /\ (w \in Returns!Filed(q)' => return'[q][w].snapshot = reported'[q][w])
      BY <2>6, <2>7, <2>9, <3>2 DEF ReturnsInv, FiguresSigned
    <3> QED
      BY <2>6, <3>1, <3>2 DEF FiguresSigned
  <2>14. OwnTransactions'
    BY <2>1, <2>4, <2>6 DEF ReturnsInv, OwnTransactions
  <2> QED
    BY <2>10, <2>11, <2>12, <2>13, <2>14 DEF ReturnsInv
<1>7. ASSUME NEW p \in TaxPeriods, Returns!CreatePeriod(p) \/ Returns!ClosePeriod(p) PROVE ReturnsInv'
  BY <1>1, <1>7 DEF Returns!CreatePeriod, Returns!ClosePeriod
<1>8. CASE UNCHANGED Returns!vars
  BY <1>1, <1>8 DEF Returns!vars
<1> QED
  BY <1>2, <1>3, <1>4, <1>5, <1>6, <1>7, <1>8 DEF Returns!Next
-----------------------------------------------------------------------------
(* The last filed version stands, those before it are amended.              *)
LEMMA LastFiled ==
  ASSUME NEW p \in TaxPeriods, Returns!Filed(p) # {}
  PROVE  Returns!Max(Returns!Filed(p)) \in Returns!Filed(p)
         /\ \A v \in Returns!Filed(p) : v <= Returns!Max(Returns!Filed(p))
<1>1. PICK F : F = Returns!Filed(p)
  OBVIOUS
<1>2. PICK n \in Nat : ReturnVersions = 1..n
  BY VersionsType
<1>3. F \in SUBSET (1..n) /\ F \in SUBSET Nat /\ F # {}
  BY <1>1, <1>2 DEF Returns!Filed
<1>4. IsFiniteSet(F)
  <2>1. 1 \in Int /\ n \in Int
    OBVIOUS
  <2>2. IsFiniteSet(1..n)
    BY ONLY <2>1, FS_Interval, Zenon
  <2> QED
    BY ONLY <1>3, <2>2, FS_Subset
<1>5. \E v \in F : \A w \in F : v >= w
  <2>1. \E v \in F : \A w \in F : w <= v
    BY ONLY <1>3, <1>4, GreatestExists
  <2> QED
    BY <1>3, <2>1
<1>6. Returns!Max(F) \in F /\ \A w \in F : Returns!Max(F) >= w
  BY <1>5 DEF Returns!Max
<1> QED
  BY <1>1, <1>3, <1>6

LEMMA ReturnsImplyOne == ReturnsInv => Returns!OneReturnStands
<1> SUFFICES ASSUME ReturnsInv, NEW p \in TaxPeriods, NEW v \in Returns!Filed(p)
             PROVE  /\ 1..v \subseteq Returns!Filed(p)
                    /\ return[p][v].status = IF v = Returns!Max(Returns!Filed(p)) THEN "FILED" ELSE "AMENDED"
  BY DEF Returns!OneReturnStands
<1>1. PICK n \in Nat : ReturnVersions = 1..n
  BY VersionsType
<1>2. \A x \in Returns!Filed(p) : x \in 1..n
  BY <1>1 DEF Returns!Filed
<1>3. ASSUME NEW y \in Returns!Filed(p) PROVE 1..y \subseteq Returns!Filed(p)
  <2> DEFINE Unfiled == {w \in 1..y : w \notin Returns!Filed(p)}
  <2> SUFFICES ASSUME Unfiled # {} PROVE FALSE
    OBVIOUS
  <2>1. y \in Int /\ 1 \in Int
    BY <1>2
  <2>2. IsFiniteSet(Unfiled)
    <3>1. IsFiniteSet(1..y)
      BY ONLY <2>1, FS_Interval, Zenon
    <3>2. Unfiled \in SUBSET (1..y)
      OBVIOUS
    <3> QED
      BY ONLY <3>1, <3>2, FS_Subset
  <2>3. Unfiled \in SUBSET Nat
    BY <2>1
  <2>4. PICK w \in Unfiled : \A x \in Unfiled : x <= w
    <3> HIDE DEF Unfiled
    <3> QED
      BY ONLY <2>2, <2>3, Unfiled # {}, GreatestExists
  <2>5. w \in Nat /\ w # y /\ w + 1 \in 1..y /\ w \in 1..n /\ w + 1 \in 1..n
    BY <1>2, <1>3, <2>1, <2>4
  <2>6. w + 1 \in Returns!Filed(p)
    BY <2>4, <2>5
  <2>7. w \in Returns!Filed(p)
    BY <1>1, <2>5, <2>6 DEF ReturnsInv, VersionsFollow, Returns!Filed, Returns!None
  <2> QED
    BY <2>4, <2>7
<1>4. Returns!Max(Returns!Filed(p)) \in Returns!Filed(p)
      /\ \A x \in Returns!Filed(p) : x <= Returns!Max(Returns!Filed(p))
  BY LastFiled
<1>5. PICK m : m = Returns!Max(Returns!Filed(p))
  OBVIOUS
<1>6. m \in 1..n /\ v \in 1..n /\ v <= m
  BY <1>2, <1>4, <1>5
<1>7. CASE v = m
  <2>1. v + 1 \notin Returns!Filed(p)
    BY <1>4, <1>5, <1>6, <1>7
  <2>2. return[p][v].status # "AMENDED"
    <3>1. CASE v + 1 \in ReturnVersions
      BY <1>1, <1>6, <2>1, <3>1 DEF ReturnsInv, VersionsFollow
    <3>2. CASE v + 1 \notin ReturnVersions
      BY <1>1, <1>6, <3>2 DEF ReturnsInv, LastIsFiled
    <3> QED
      BY <3>1, <3>2
  <2> QED
    BY <1>3, <1>5, <1>7, <2>2 DEF Returns!Filed
<1>8. CASE v # m
  <2>1. v + 1 \in 1..m /\ v + 1 \in ReturnVersions
    BY <1>1, <1>6, <1>8
  <2>2. v + 1 \in Returns!Filed(p)
    BY <1>3, <1>4, <1>5, <2>1
  <2>3. return[p][v].status = "AMENDED"
    BY <1>1, <1>6, <2>1, <2>2 DEF ReturnsInv, VersionsFollow
  <2> QED
    BY <1>3, <1>5, <1>8, <2>3
<1> QED
  BY <1>7, <1>8

LEMMA ReturnsImplySigned == ReturnsInv => Returns!FiguresHaveTwoSignatures
<1>1. Returns!None \notin TaxUsers
  BY ReturnsAssumption DEF Returns!RowsAssumption
<1> QED
  BY <1>1 DEF ReturnsInv, FiguresSigned, Signed, Returns!FiguresHaveTwoSignatures, Returns!Filed

LEMMA ReportedForStamp ==
  ASSUME ReturnsInv, NEW t, NEW p \in TaxPeriods, t \in Returns!Covered(p), stamp[t] # Returns!NoPeriod
  PROVE  stamp[t] = p
  BY DEF ReturnsInv, OwnTransactions, Returns!Covered, Returns!Filed

LEMMA ReturnsImplyOnce == ReturnsInv => Returns!StampedIsReportedOnce
<1> SUFFICES ASSUME ReturnsInv, NEW t \in Returns!Transactions, stamp[t] # Returns!NoPeriod
             PROVE  Returns!Cardinality(Returns!ReportedFor(t)) <= 1
  BY DEF Returns!StampedIsReportedOnce
<1>0. \A S : Returns!Cardinality(S) = Cardinality(S)
  BY Zenon DEF Returns!Cardinality, Cardinality, Returns!IsFiniteSet, IsFiniteSet
<1>1. PICK S : S = Returns!ReportedFor(t)
  OBVIOUS
<1>2. \A p \in S : p = stamp[t]
  BY <1>1, ReportedForStamp DEF Returns!ReportedFor
<1>3. S = {} \/ \E p : S = {p}
  <2>1. PICK c : c = stamp[t]
    OBVIOUS
  <2>2. S = {} \/ S = {c}
    BY ONLY <1>2, <2>1
  <2> QED
    BY ONLY <2>2, Zenon
<1>4. Cardinality(S) = 0 \/ Cardinality(S) = 1
  BY ONLY <1>3, FS_EmptySet, FS_Singleton
<1> QED
  BY <1>0, <1>1, <1>4

(* Sums of TaxReturns are those of Sums.                                    *)
LEMMA SumOfIs == \A column, S : Returns!SumOf(column, S) = Sum(column, S)
  BY Zenon DEF Returns!SumOf, Sum, Returns!MapThenSumSet, MapThenSumSet, Returns!MapThenFoldSet, MapThenFoldSet

LEMMA TaxColumns ==
  /\ IsFiniteSet(TaxDocuments) /\ IsFiniteSet(TaxPeriods)
  /\ \A t \in TaxDocuments :
       /\ Returns!Tax[t] = TaxedRow[t].tax /\ Returns!Tax[t] \in Int
       /\ Returns!Recoverable[t] = TaxedRow[t].recoverable /\ Returns!Recoverable[t] \in Int
<1>0. IsFiniteSet(TaxDocuments) /\ IsFiniteSet(TaxPeriods)
  BY Zenon, ReturnsAssumption DEF Returns!RowsAssumption, Returns!IsFiniteSet, IsFiniteSet
<1> QED
  BY <1>0, ReturnsAssumption DEF Returns!RowsAssumption, Returns!Tax, Returns!Recoverable

(* The boxes of a direction hold what its transactions do.                  *)
Boxed(h, p, ts, column) ==
  /\ \A t \in TaxDocuments : column[t] \in Int
  /\ \A k \in {Returns!Key(p, t) : t \in ts} : h[k] = Sum(column, {t \in ts : Returns!Key(p, t) = k})

KeysOf(p, ts, direction) == {k \in {Returns!Key(p, t) : t \in ts} : k[1] = direction}
TaxedAs(ts, direction) == {t \in ts : TaxedRow[t].direction = direction}

LEMMA BoxesAdd ==
  ASSUME NEW h, NEW p, NEW ts \in SUBSET TaxDocuments, NEW column, NEW direction, Boxed(h, p, ts, column)
  PROVE  Sum(h, KeysOf(p, ts, direction)) = Sum(column, TaxedAs(ts, direction))
<1> USE DEF Boxed, KeysOf, TaxedAs
<1> DEFINE keys == {Returns!Key(p, t) : t \in ts}
           K == {k \in keys : k[1] = direction}
           T == {t \in ts : TaxedRow[t].direction = direction}
<1>1. IsFiniteSet(ts) /\ IsFiniteSet(T)
  <2>1. T \in SUBSET TaxDocuments
    OBVIOUS
  <2> QED
    BY <2>1, TaxColumns, FS_Subset
<1>2. PICK key : key = [t \in ts |-> Returns!Key(p, t)]
  OBVIOUS
<1>3. \A t \in ts : key[t] \in keys /\ key[t] = Returns!Key(p, t) /\ key[t][1] = TaxedRow[t].direction
  BY <1>2 DEF Returns!Key
<1>4. IsFiniteSet(K)
  <2>1. IsFiniteSet(keys)
    <3>1. key \in [ts -> keys] /\ \A k \in keys : \E t \in ts : key[t] = k
      BY <1>2
    <3> HIDE DEF keys
    <3>2. key \in Surjection(ts, keys)
      BY ONLY <3>1, Zenon DEF Surjection
    <3> QED
      BY ONLY <1>1, <3>2, FS_Surjection
  <2>2. K \in SUBSET keys
    OBVIOUS
  <2> QED
    BY ONLY <2>1, <2>2, FS_Subset
<1>5. \A t \in T : key[t] \in K /\ column[t] \in Int
  BY <1>3
<1>6. \A k \in K : h[k] = Sum(column, {t \in T : key[t] = k})
  <2> SUFFICES ASSUME NEW k \in K PROVE h[k] = Sum(column, {t \in T : key[t] = k})
    OBVIOUS
  <2>1. {t \in T : key[t] = k} = {t \in ts : Returns!Key(p, t) = k}
    BY <1>3
  <2>2. h[k] = Sum(column, {t \in ts : Returns!Key(p, t) = k})
    OBVIOUS
  <2> QED
    BY ONLY <2>1, <2>2, Zenon
<1> HIDE DEF K, T, keys
<1>7. Sum(h, K) = Sum(column, T)
  <2>1. Grouped(h, K, key, column, T)
    BY ONLY <1>1, <1>4, <1>5, <1>6 DEF Grouped
  <2> QED
    BY ONLY <2>1, SumGrouped
<1> QED
  BY <1>7 DEF K, T, keys

LEMMA ReturnsImplyBoxes ==
  ASSUME ReturnsInv, NEW p \in TaxPeriods, NEW v \in ReturnVersions, NEW ts, ts = return[p][v].snapshot,
         NEW boxes, boxes = Returns!Boxes(p, ts)
  PROVE  Returns!NetPayable(ts) = Returns!BoxTotal(boxes, "OUTPUT", [k \in DOMAIN boxes |-> boxes[k].tax])
                                - Returns!BoxTotal(boxes, "INPUT", [k \in DOMAIN boxes |-> boxes[k].recoverable])
<1>1. ts \in SUBSET TaxDocuments
  BY DEF ReturnsInv, ReturnTypes, ReturnRow
<1>2. PICK g, h : g = [k \in DOMAIN boxes |-> boxes[k].tax] /\ h = [k \in DOMAIN boxes |-> boxes[k].recoverable]
  OBVIOUS
<1> DEFINE keys == {Returns!Key(p, t) : t \in ts}
           of(k) == {t \in ts : Returns!Key(p, t) = k}
<1>3. DOMAIN boxes = keys
  BY DEF Returns!Boxes
<1>4. \A k \in keys : boxes[k].tax = Sum(Returns!Tax, of(k)) /\ boxes[k].recoverable = Sum(Returns!Recoverable, of(k))
  <2>1. ASSUME NEW k \in keys
        PROVE  boxes[k] = [tax |-> Returns!SumOf(Returns!Tax, of(k)), recoverable |-> Returns!SumOf(Returns!Recoverable, of(k)),
                           count |-> Returns!Cardinality(of(k))]
    BY DEF Returns!Boxes
  <2> HIDE DEF keys, of
  <2>2. ASSUME NEW k \in keys
        PROVE  boxes[k].tax = Returns!SumOf(Returns!Tax, of(k))
               /\ boxes[k].recoverable = Returns!SumOf(Returns!Recoverable, of(k))
    <3>1. PICK x, y, z : x = Returns!SumOf(Returns!Tax, of(k)) /\ y = Returns!SumOf(Returns!Recoverable, of(k))
                         /\ z = Returns!Cardinality(of(k))
      OBVIOUS
    <3>2. boxes[k] = [tax |-> x, recoverable |-> y, count |-> z]
      BY <2>1, <3>1, Zenon
    <3>3. boxes[k].tax = x /\ boxes[k].recoverable = y
      BY ONLY <3>2
    <3> QED
      BY ONLY <3>1, <3>3, Zenon
  <2> QED
    BY <2>2, SumOfIs, Zenon
<1>5. \A k \in keys : g[k] = Sum(Returns!Tax, of(k)) /\ h[k] = Sum(Returns!Recoverable, of(k))
  BY <1>2, <1>3, <1>4
<1>6. PICK tax, recoverable : tax = Returns!Tax /\ recoverable = Returns!Recoverable
  OBVIOUS
<1>7. /\ \A t \in TaxDocuments : tax[t] \in Int
      /\ \A t \in TaxDocuments : recoverable[t] \in Int
  BY <1>6, TaxColumns
<1>8. Sum(g, {k \in keys : k[1] = "OUTPUT"}) = Sum(tax, {t \in ts : TaxedRow[t].direction = "OUTPUT"})
  <2>1. Boxed(g, p, ts, tax)
    BY <1>5, <1>6, <1>7 DEF Boxed
  <2> HIDE DEF keys
  <2>2. ts \in SUBSET TaxDocuments
    BY <1>1
  <2>3. Sum(g, KeysOf(p, ts, "OUTPUT")) = Sum(tax, TaxedAs(ts, "OUTPUT"))
    BY ONLY <2>1, <2>2, BoxesAdd
  <2> QED
    BY ONLY <2>3, Zenon DEF keys, KeysOf, TaxedAs
<1>9. Sum(h, {k \in keys : k[1] = "INPUT"}) = Sum(recoverable, {t \in ts : TaxedRow[t].direction = "INPUT"})
  <2>1. Boxed(h, p, ts, recoverable)
    BY <1>5, <1>6, <1>7 DEF Boxed
  <2> HIDE DEF keys
  <2>2. ts \in SUBSET TaxDocuments
    BY <1>1
  <2>3. Sum(h, KeysOf(p, ts, "INPUT")) = Sum(recoverable, TaxedAs(ts, "INPUT"))
    BY ONLY <2>1, <2>2, BoxesAdd
  <2> QED
    BY ONLY <2>3, Zenon DEF keys, KeysOf, TaxedAs
<1> HIDE DEF keys, of
<1>10. /\ Returns!BoxTotal(boxes, "OUTPUT", g) = Sum(g, {k \in keys : k[1] = "OUTPUT"})
       /\ Returns!BoxTotal(boxes, "INPUT", h) = Sum(h, {k \in keys : k[1] = "INPUT"})
  BY <1>3, SumOfIs DEF Returns!BoxTotal
<1>11. Returns!NetPayable(ts) = Sum(tax, {t \in ts : TaxedRow[t].direction = "OUTPUT"})
                                 - Sum(recoverable, {t \in ts : TaxedRow[t].direction = "INPUT"})
  BY <1>6, SumOfIs DEF Returns!NetPayable
<1> QED
  BY <1>2, <1>8, <1>9, <1>10, <1>11

(* What a set of transactions comes to is a sum over it.                    *)
Net == [t \in TaxDocuments |->
          (IF TaxedRow[t].direction = "OUTPUT" THEN TaxedRow[t].tax ELSE 0)
            - (IF TaxedRow[t].direction = "INPUT" THEN TaxedRow[t].recoverable ELSE 0)]

LEMMA NetIsSum ==
  ASSUME NEW ts \in SUBSET TaxDocuments
  PROVE  Returns!NetPayable(ts) = Sum(Net, ts) /\ \A t \in TaxDocuments : Net[t] \in Int
<1> DEFINE Out == {t \in ts : TaxedRow[t].direction = "OUTPUT"}
           In == {t \in ts : TaxedRow[t].direction = "INPUT"}
<1>1. PICK out, in, net : /\ out = [t \in TaxDocuments |-> IF TaxedRow[t].direction = "OUTPUT" THEN TaxedRow[t].tax ELSE 0]
                          /\ in = [t \in TaxDocuments |-> IF TaxedRow[t].direction = "INPUT" THEN TaxedRow[t].recoverable ELSE 0]
                          /\ net = Net
  OBVIOUS
<1>2. PICK tax, recoverable : tax = Returns!Tax /\ recoverable = Returns!Recoverable
  OBVIOUS
<1>3. \A t \in TaxDocuments : /\ out[t] \in Int /\ in[t] \in Int /\ net[t] \in Int /\ net[t] = out[t] - in[t] /\ out[t] = net[t] + in[t]
  BY <1>1, TaxColumns DEF Net
<1>4. IsFiniteSet(ts) /\ Out \in SUBSET ts /\ In \in SUBSET ts /\ IsFiniteSet(Out) /\ IsFiniteSet(In)
  <2>1. Out \in SUBSET TaxDocuments /\ In \in SUBSET TaxDocuments
    OBVIOUS
  <2> QED
    BY <2>1, TaxColumns, FS_Subset
<1>5. Sum(out, ts) = Sum(tax, Out)
  <2>1. \A t \in ts \ Out : out[t] = 0
    BY <1>1
  <2>2. \A t \in Out : out[t] = tax[t]
    BY <1>1, <1>2, TaxColumns
  <2>3. \A t \in ts : out[t] \in Int
    BY <1>3
  <2> HIDE DEF Out
  <2>4. Sum(out, ts) = Sum(out, Out)
    BY ONLY <1>4, <2>1, <2>3, SumSubset
  <2>5. Sum(out, Out) = Sum(tax, Out)
    BY ONLY <1>4, <2>2, SumAgrees
  <2> QED
    BY <2>4, <2>5
<1>6. Sum(in, ts) = Sum(recoverable, In)
  <2>1. \A t \in ts \ In : in[t] = 0
    BY <1>1
  <2>2. \A t \in In : in[t] = recoverable[t]
    BY <1>1, <1>2, TaxColumns
  <2>3. \A t \in ts : in[t] \in Int
    BY <1>3
  <2> HIDE DEF In
  <2>4. Sum(in, ts) = Sum(in, In)
    BY ONLY <1>4, <2>1, <2>3, SumSubset
  <2>5. Sum(in, In) = Sum(recoverable, In)
    BY ONLY <1>4, <2>2, SumAgrees
  <2> QED
    BY <2>4, <2>5
<1>7. Sum(out, ts) = Sum(net, ts) + Sum(in, ts)
  <2>1. \A t \in ts : net[t] \in Int /\ in[t] \in Int /\ out[t] = net[t] + in[t]
    BY <1>3
  <2> QED
    BY ONLY <1>4, <2>1, SumPlus
<1>8. Sum(net, ts) \in Int /\ Sum(in, ts) \in Int
  <2>1. \A t \in ts : net[t] \in Int
    BY <1>3
  <2>2. \A t \in ts : in[t] \in Int
    BY <1>3
  <2> QED
    BY ONLY <1>4, <2>1, <2>2, SumInt
<1>9. Returns!NetPayable(ts) = Sum(tax, Out) - Sum(recoverable, In)
  BY <1>2, SumOfIs DEF Returns!NetPayable
<1> HIDE DEF Out, In
<1>10. Returns!NetPayable(ts) = Sum(net, ts)
  <2>1. Returns!NetPayable(ts) = Sum(out, ts) - Sum(in, ts)
    BY ONLY <1>5, <1>6, <1>9, Zenon
  <2> QED
    BY ONLY <2>1, <1>7, <1>8
<1>11. \A t \in TaxDocuments : Net[t] \in Int
  BY <1>1, <1>3
<1> QED
  BY <1>1, <1>10, <1>11

LEMMA ReturnsImplyTotals ==
  ASSUME ReturnsInv, NEW filed, filed = {p \in TaxPeriods : Returns!Filed(p) # {}},
         NEW reporting, reporting = UNION {Returns!Standing(p) : p \in filed},
         \A t \in reporting : stamp[t] # Returns!NoPeriod
  PROVE  Returns!SumOf([p \in filed |-> Returns!NetPayable(Returns!Standing(p))], filed)
           = Returns!NetPayable(reporting)
<1>1. \A p \in filed : \E v \in Returns!Filed(p) : Returns!Standing(p) = return[p][v].snapshot
  BY LastFiled DEF Returns!Standing
<1>2. \A p \in filed : Returns!Standing(p) \in SUBSET TaxDocuments
  BY <1>1, SMTT(60) DEF ReturnsInv, ReturnTypes, ReturnRow, Returns!Filed
<1>3. ASSUME NEW p \in filed, NEW t \in Returns!Standing(p) PROVE stamp[t] = p
  <2>1. t \in reporting /\ t \in Returns!Covered(p)
    BY <1>1, <1>3 DEF Returns!Covered
  <2> QED
    BY <2>1, ReportedForStamp
<1>4. reporting \in SUBSET TaxDocuments /\ IsFiniteSet(reporting) /\ IsFiniteSet(filed)
  <2>1. reporting \in SUBSET TaxDocuments /\ filed \in SUBSET TaxPeriods
    BY <1>2
  <2> QED
    BY <2>1, TaxColumns, FS_Subset
<1>5. PICK key, net, g : /\ key = stamp /\ net = Net
                         /\ g = [p \in filed |-> Returns!NetPayable(Returns!Standing(p))]
  OBVIOUS
<1>6. \A t \in reporting : key[t] \in filed /\ net[t] \in Int
  <2>1. \A t \in reporting : net[t] \in Int
    BY <1>4, <1>5, NetIsSum
  <2>2. \A t \in reporting : key[t] \in filed
    BY <1>3, <1>5
  <2> QED
    BY <2>1, <2>2
<1>7. ASSUME NEW p \in filed PROVE g[p] = Sum(net, {t \in reporting : key[t] = p})
  <2>1. Returns!Standing(p) = {t \in reporting : key[t] = p}
    <3>1. \A t \in reporting : \E q \in filed : t \in Returns!Standing(q)
      OBVIOUS
    <3>2. \A t \in Returns!Standing(p) : t \in reporting
      OBVIOUS
    <3> QED
      BY <1>3, <1>5, <3>1, <3>2
  <2>2. Returns!NetPayable(Returns!Standing(p)) = Sum(net, Returns!Standing(p))
    BY <1>2, <1>5, NetIsSum
  <2> QED
    BY <1>5, <2>1, <2>2
<1>8. Sum(g, filed) = Sum(net, reporting)
  <2>1. Grouped(g, filed, key, net, reporting)
    BY ONLY <1>4, <1>6, <1>7 DEF Grouped
  <2> QED
    BY ONLY <2>1, SumGrouped
<1>9. Returns!NetPayable(reporting) = Sum(net, reporting)
  BY <1>4, <1>5, NetIsSum
<1> QED
  BY <1>5, <1>8, <1>9, SumOfIs

LEMMA ReturnsImply ==
  ReturnsInv => Returns!OneReturnStands /\ Returns!FiguresHaveTwoSignatures /\ Returns!StampedIsReportedOnce
                  /\ Returns!ReturnsComeToTheirTax
<1> SUFFICES ASSUME ReturnsInv PROVE Returns!ReturnsComeToTheirTax
  BY ReturnsImplyOne, ReturnsImplySigned, ReturnsImplyOnce
<1> QED
  BY ReturnsImplyBoxes, ReturnsImplyTotals, Zenon DEF Returns!ReturnsComeToTheirTax

(* Of a tax period one return stands, with two signatures under its         *)
(* figures, a stamped transaction is reported by one period, and the        *)
(* boxes, the totals and the transactions of returns come to the same.      *)
THEOREM ReturnsAreKept == PlatformSpec => []ReturnsStand
<1>1. ReturnsInv => ReturnsStand
  BY ReturnsImply DEF ReturnsStand
<1> QED
  BY <1>1, ReturnsInit, ReturnsStep, OnlyReturns, PTL DEF PlatformSpec
=============================================================================
