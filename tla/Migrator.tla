------------------------------ MODULE Migrator ------------------------------
(***************************************************************************)
(* migrator.ts: the files of contracts/schema applied to a database, each  *)
(* once and in a transaction of its own, by any number of runners.  A      *)
(* runner has the files of the checkout it was started from: the edition   *)
(* of each, 0 for a file that checkout does not have yet.                  *)
(***************************************************************************)
EXTENDS Integers, Sequences

CONSTANTS
  Versions,    \* how many migrations there are
  Runners,
  Checkouts    \* editions by version

None == "none"

CheckoutsAssumption == Versions \in Nat /\ Checkouts \subseteq [1..Versions -> Nat]

VARIABLES
  recorded,    \* schema_migrations: edition by version, 0 when not applied
  executed,    \* history: what was run on the schema and committed
  runner       \* its files; the versions it still has to apply, from status()

vars == <<recorded, executed, runner>>

Idle == [step |-> None, files |-> <<>>, pending |-> {}]

Init ==
  /\ recorded = [v \in 1..Versions |-> 0]
  /\ executed = <<>>
  /\ runner = [r \in Runners |-> Idle]

(* status: what is recorded with another checksum stops the run, what is    *)
(* not recorded is pending.                                                 *)
Mismatches(files) == {v \in 1..Versions : files[v] # 0 /\ recorded[v] \notin {0, files[v]}}
PendingOf(files) == {v \in 1..Versions : files[v] # 0 /\ recorded[v] = 0}
Migrate(r, files) ==
  /\ runner[r] = Idle /\ Mismatches(files) = {} /\ PendingOf(files) # {}
  /\ runner' = [runner EXCEPT ![r] = [step |-> "ready", files |-> files, pending |-> PendingOf(files)]]
  /\ UNCHANGED <<recorded, executed>>

(* One file: its statements and its record commit together.  Where another  *)
(* runner has applied it since, the objects or the key exist: the run stops *)
(* (Stop).                                                                  *)
Lowest(r) == {v \in runner[r].pending : \A w \in runner[r].pending : v <= w}
Apply_Recorded(r) ==   \* mutant: the record is replaced instead of refused
  \E v \in Lowest(r) :
    /\ recorded' = [recorded EXCEPT ![v] = runner[r].files[v]]
    /\ executed' = Append(executed, v)
    /\ runner' = [runner EXCEPT ![r].pending = @ \ {v}]
Apply(r) ==
  \E v \in Lowest(r) :
    /\ recorded[v] = 0
    /\ recorded' = [recorded EXCEPT ![v] = runner[r].files[v]]
    /\ executed' = Append(executed, v)
    /\ runner' = [runner EXCEPT ![r].pending = @ \ {v}]

Stop(r) ==   \* done, refused, or crashed with the file it was at rolled back
  /\ runner[r] # Idle
  /\ runner' = [runner EXCEPT ![r] = Idle]
  /\ UNCHANGED <<recorded, executed>>

Next == \E r \in Runners : Apply(r) \/ Stop(r) \/ \E files \in Checkouts : Migrate(r, files)

Spec == Init /\ [][Next]_vars
-----------------------------------------------------------------------------
(* Whatever runners race or crash, every migration is run once, and the     *)
(* record says which.  It is run after those before it, but for one that    *)
(* some checkout lacked which had the later one: a file that is added       *)
(* behind others is applied behind them.                                    *)
RanBefore(w, i) == \E j \in 1..(i - 1) : executed[j] = w
Missing(w, v) == \E files \in Checkouts : files[w] = 0 /\ files[v] # 0
RunsOnceInOrder ==
  /\ \A i, j \in 1..Len(executed) : executed[i] = executed[j] => i = j
  /\ \A v \in 1..Versions : recorded[v] # 0 <=> \E i \in 1..Len(executed) : executed[i] = v
  /\ \A i \in 1..Len(executed) : \A w \in 1..(executed[i] - 1) :
       RanBefore(w, i) \/ Missing(w, executed[i])
=============================================================================
