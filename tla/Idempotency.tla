---------------------------- MODULE Idempotency -----------------------------
(***************************************************************************)
(* One idempotency key of one operation and the requests that carry it     *)
(* (withIdempotency).  Every statement on idempotency_keys commits by      *)
(* itself: the reservation, the read after a lost insert, the takeover of  *)
(* an expired lock, the release after a failure, the stored response.  The *)
(* operation in between commits in transactions of its own.  A process may *)
(* die anywhere, and a lock's sixty seconds may run out on a process that  *)
(* died as well as on one that is still at work.                           *)
(***************************************************************************)
EXTENDS Naturals, FiniteSets

CONSTANTS
  Requests,    \* calls, the client's retries included
  Hashes, HashOf,   \* the hash of a request's payload
  MaxCrashes, MaxExpiries, MaxReaped   \* bounds

None == "none"

ASSUME IdempotencyAssumption ==
  /\ None \notin Requests
  /\ HashOf \in [Requests -> Hashes]
  /\ MaxCrashes \in Nat /\ MaxExpiries \in Nat /\ MaxReaped \in Nat

VARIABLES
  row,       \* the row of the key, or NoRow
  at,        \* where each request is
  seen,      \* the id of the row that a request found expired
  reply,     \* what each request was answered
  effects,   \* the requests whose operation committed, since the last reaping
  outlived,  \* history: the requests that were alive when their lock ran out
  crashes, expiries, reaped

vars == <<row, at, seen, reply, effects, outlived, crashes, expiries, reaped>>

NoRow == [id |-> None, hash |-> None, response |-> None, locked |-> FALSE, holder |-> None]
NoReply == [kind |-> None, from |-> None]
Absent == row = NoRow
Working == {"execute", "store", "release"}

(* holder is no column: it names the request whose lock the row carries.    *)
Reservation(r) ==
  [id |-> r, hash |-> HashOf[r], response |-> None, locked |-> TRUE, holder |-> r]

Go(r, step) == at' = [at EXCEPT ![r] = step]
Answer(r, kind, from) ==
  /\ reply' = [reply EXCEPT ![r] = [kind |-> kind, from |-> from]]
  /\ Go(r, "answered")

Init ==
  /\ row = NoRow
  /\ at = [r \in Requests |-> "reserve"]
  /\ seen = [r \in Requests |-> None]
  /\ reply = [r \in Requests |-> NoReply]
  /\ effects = {} /\ outlived = {}
  /\ crashes = 0 /\ expiries = 0 /\ reaped = 0
-----------------------------------------------------------------------------
Reserve(r) ==   \* INSERT ... ON CONFLICT DO NOTHING
  /\ at[r] = "reserve"
  /\ IF Absent
     THEN row' = Reservation(r) /\ Go(r, "execute")
     ELSE row' = row /\ Go(r, "load")
  /\ UNCHANGED <<seen, reply, effects, outlived, crashes, expiries, reaped>>

Load(r) ==
  /\ at[r] = "load"
  /\ \/ Absent /\ Go(r, "reserve") /\ UNCHANGED <<seen, reply>>   \* reaped or released meanwhile
     \/ ~Absent /\ row.hash # HashOf[r] /\ Answer(r, "reuse", None) /\ UNCHANGED seen
     \/ /\ ~Absent /\ row.hash = HashOf[r] /\ row.response # None
        /\ Answer(r, "replayed", row.response) /\ UNCHANGED seen
     \/ /\ ~Absent /\ row.hash = HashOf[r] /\ row.response = None
        /\ IF row.locked
           THEN Answer(r, "in progress", None) /\ UNCHANGED seen
           ELSE seen' = [seen EXCEPT ![r] = row.id] /\ Go(r, "take") /\ UNCHANGED reply
  /\ UNCHANGED <<row, effects, outlived, crashes, expiries, reaped>>

Takeable_AsSeen(r) == row.id = seen[r] /\ row.response = None   \* mutant: trusts the lock it read

Takeable(r) == row.id = seen[r] /\ row.response = None /\ ~row.locked

Take(r) ==   \* extend the lock, but only if nobody else has
  /\ at[r] = "take"
  /\ IF ~Absent /\ Takeable(r)
     THEN row' = [row EXCEPT !.locked = TRUE, !.holder = r] /\ Go(r, "execute") /\ UNCHANGED reply
     ELSE row' = row /\ Answer(r, "in progress", None)
  /\ UNCHANGED <<seen, effects, outlived, crashes, expiries, reaped>>

Execute(r) ==   \* the handler commits
  /\ at[r] = "execute"
  /\ effects' = effects \cup {r}
  /\ Go(r, "store")
  /\ UNCHANGED <<row, seen, reply, outlived, crashes, expiries, reaped>>

Fail(r) ==   \* the handler throws, its transaction rolled back
  /\ at[r] = "execute"
  /\ Go(r, "release")
  /\ UNCHANGED <<row, seen, reply, effects, outlived, crashes, expiries, reaped>>

Release(r) ==   \* by key, whoever holds the row by now
  /\ at[r] = "release"
  /\ row' = IF row.response = None THEN NoRow ELSE row
  /\ Answer(r, "failed", None)
  /\ UNCHANGED <<seen, effects, outlived, crashes, expiries, reaped>>

Stored(r) == [row EXCEPT !.response = r, !.locked = FALSE]

Store(r) ==   \* by key, whoever holds the row by now
  /\ at[r] = "store"
  /\ row' = IF Absent THEN row ELSE Stored(r)
  /\ Answer(r, "executed", r)
  /\ UNCHANGED <<seen, effects, outlived, crashes, expiries, reaped>>
-----------------------------------------------------------------------------
Crash(r) ==   \* the process of the request dies: nobody is answered
  /\ crashes < MaxCrashes
  /\ at[r] \in Working
  /\ crashes' = crashes + 1
  /\ Go(r, "dead")
  /\ UNCHANGED <<row, seen, reply, effects, outlived, expiries, reaped>>

(* Sixty seconds later.  Nothing bounds an operation: the pool bounds its   *)
(* statements and its idle time.                                            *)
Expire ==
  /\ expiries < MaxExpiries
  /\ row.locked
  /\ row' = [row EXCEPT !.locked = FALSE]
  /\ outlived' = outlived \cup {r \in {row.holder} : at[r] # "dead"}
  /\ expiries' = expiries + 1
  /\ UNCHANGED <<at, seen, reply, effects, crashes, reaped>>

(* reapExpiredKeys, thirty days later: a retry from now on is a new call.   *)
Reap ==
  /\ reaped < MaxReaped
  /\ ~Absent
  /\ \A r \in Requests : at[r] \notin Working \cup {"take"}
  /\ row' = NoRow
  /\ effects' = {}
  /\ reaped' = reaped + 1
  /\ UNCHANGED <<at, seen, reply, outlived, crashes, expiries>>

Step(r) == Reserve(r) \/ Load(r) \/ Take(r) \/ Execute(r) \/ Fail(r) \/ Release(r) \/ Store(r)

Next ==
  \/ \E r \in Requests : Step(r) \/ Crash(r)
  \/ Expire \/ Reap

Spec == Init /\ [][Next]_vars
-----------------------------------------------------------------------------
Replies ==
  [kind : {"executed"}, from : Requests] \cup [kind : {"replayed"}, from : Requests]
    \cup [kind : {None, "reuse", "in progress", "failed"}, from : {None}]

TypeOK ==   \* a row is locked exactly as long as it has no response and its lock has not run out
  /\ \/ Absent
     \/ /\ row \in [id : Requests, hash : Hashes, response : Requests \cup {None},
                    locked : BOOLEAN, holder : Requests]
        /\ row.response # None => ~row.locked
  /\ at \in [Requests -> {"reserve", "load", "take", "answered", "dead"} \cup Working]
  /\ seen \in [Requests -> Requests \cup {None}]
  /\ reply \in [Requests -> Replies]
  /\ effects \subseteq Requests /\ outlived \subseteq Requests
  /\ crashes \in 0..MaxCrashes /\ expiries \in 0..MaxExpiries /\ reaped \in 0..MaxReaped

(* Two requests are never inside the operation at the same time.            *)
OneAtATime == \A q, r \in Requests : at[q] \in Working /\ at[r] \in Working => q = r

(* A replayed response is that of a request with the same payload.          *)
ReplayIsOwn ==
  \A r \in Requests : reply[r].kind = "replayed" => HashOf[reply[r].from] = HashOf[r]

(* Whoever is told that the operation ran, or is replayed that it did, it   *)
(* is one execution: only a process that died before it stored its response *)
(* leaves an effect besides.                                                *)
OneEffectPerAnswer ==
  \A q, r \in effects : at[q] # "dead" /\ at[r] # "dead" => q = r

(* Whatever outlives its lock, is released or stored over another's row:    *)
(* the operation takes effect once, and once more at most for each lock     *)
(* that ran out.                                                            *)
EffectsAreBounded == Cardinality(effects) <= 1 + expiries

(* What the header promises to whoever retries (one request at a time, its  *)
(* own answer, one effect) is kept until a request outlives its lock; how   *)
(* often the operation runs is bounded even then.                           *)
OneEffectPerKey ==
  /\ outlived = {} => OneAtATime /\ ReplayIsOwn /\ OneEffectPerAnswer
  /\ EffectsAreBounded

(* The operation takes effect at most once (refuted: the process dies after *)
(* the commit).                                                             *)
AtMostOnce == Cardinality(effects) <= 1
-----------------------------------------------------------------------------
OnePayload == [r \in Requests |-> CHOOSE h \in Hashes : TRUE]   \* retries of one call, for TLC
=============================================================================
