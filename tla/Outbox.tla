------------------------------- MODULE Outbox -------------------------------
(***************************************************************************)
(* The transactional outbox, the drainer replicas that move its rows onto  *)
(* the queue, and the consumer.  Events are numbered by occurred_at, the   *)
(* start of their transaction: they commit in any order.  A drain pass is  *)
(* one database transaction around calls to the queue, which is not part   *)
(* of it; the queue delivers a job again when its worker dies.             *)
(***************************************************************************)
EXTENDS Naturals, FiniteSets, FiniteSetsExt

CONSTANTS
  Last,        \* the events are 1..Last
  Drainers, BatchSize,
  Attempts,    \* five in the code
  MaxDeaths, MaxQueueErrors, MaxFailures, MaxForgotten   \* bounds

ASSUME OutboxAssumption ==
  /\ Last \in Nat \ {0} /\ BatchSize \in Nat \ {0} /\ Attempts \in Nat \ {0}
  /\ MaxDeaths \in Nat /\ MaxQueueErrors \in Nat /\ MaxFailures \in Nat /\ MaxForgotten \in Nat

Events == 1..Last

VARIABLES
  outbox,      \* per event: "open" transaction, "rolled back", "pending", "published"
  todo, sent,  \* per drainer: the claimed rows still to send, those the queue took
  held,        \* per drainer: the claimed rows
  checkpoint,  \* outbox_consumer_checkpoints.last_occurred_at
  delivery, tries,   \* per event: the job of that id on the queue
  processed,   \* processed_events
  handled,     \* how often the consumer's transaction took effect
  deaths, queueErrors, failures, forgotten

outboxVars == <<outbox, todo, sent, held, checkpoint, delivery, tries, processed, handled,
                deaths, queueErrors, failures, forgotten>>
bounds == <<deaths, queueErrors, failures, forgotten>>
queue == <<delivery, tries>>
consumer == <<processed, handled>>
pass == <<todo, sent, held>>

OutboxInit ==
  /\ outbox = [e \in Events |-> "open"]
  /\ todo = [d \in Drainers |-> {}]
  /\ sent = [d \in Drainers |-> {}]
  /\ held = [d \in Drainers |-> {}]
  /\ checkpoint = 0
  /\ delivery = [e \in Events |-> "none"]
  /\ tries = [e \in Events |-> 0]
  /\ processed = {}
  /\ handled = [e \in Events |-> 0]
  /\ deaths = 0 /\ queueErrors = 0 /\ failures = 0 /\ forgotten = 0
-----------------------------------------------------------------------------
Publish(e, outcome) ==   \* the producing transaction ends, the event with it
  /\ outbox[e] = "open"
  /\ outbox' = [outbox EXCEPT ![e] = outcome]
  /\ UNCHANGED <<pass, checkpoint, queue, consumer, bounds>>

Unpublished_AfterCheckpoint ==   \* mutant: drains from the checkpoint on
  {e \in Events : outbox[e] = "pending" /\ e > checkpoint} \ UNION {held[d] : d \in Drainers}

Unpublished ==   \* published_at IS NULL, and not locked
  {e \in Events : outbox[e] = "pending"} \ UNION {held[d] : d \in Drainers}

Smaller(m, n) == IF m < n THEN m ELSE n

ClaimBatch(d) ==
  /\ held[d] = {}
  /\ \E batch \in SUBSET Unpublished :
       /\ batch # {}
       /\ Cardinality(batch) = Smaller(BatchSize, Cardinality(Unpublished))
       /\ \A e \in batch, f \in Unpublished \ batch : e < f
       /\ held' = [held EXCEPT ![d] = batch]
       /\ todo' = [todo EXCEPT ![d] = batch]
       /\ sent' = [sent EXCEPT ![d] = {}]
  /\ UNCHANGED <<outbox, checkpoint, queue, consumer, bounds>>

(* The event's id is the job's: a job that is still on the queue is not     *)
(* added again.                                                             *)
Added(e) ==
  /\ delivery' = [delivery EXCEPT ![e] = IF @ = "none" THEN "waiting" ELSE @]
  /\ tries' = [tries EXCEPT ![e] = IF delivery[e] = "none" THEN 0 ELSE @]

NextToSend(d, e) == e \in todo[d] /\ \A f \in todo[d] : e <= f

Send(d) ==
  /\ \E e \in todo[d] :
       /\ NextToSend(d, e)
       /\ Added(e)
       /\ todo' = [todo EXCEPT ![d] = @ \ {e}]
       /\ sent' = [sent EXCEPT ![d] = @ \cup {e}]
  /\ UNCHANGED <<outbox, held, checkpoint, consumer, bounds>>

SendFails(d) ==   \* the queue refuses the job, or takes it and the answer is lost
  /\ queueErrors < MaxQueueErrors
  /\ \E e \in todo[d] :
       /\ NextToSend(d, e)
       /\ Added(e) \/ UNCHANGED queue
       /\ todo' = [todo EXCEPT ![d] = @ \ {e}]
  /\ queueErrors' = queueErrors + 1
  /\ UNCHANGED <<outbox, sent, held, checkpoint, consumer, deaths, failures, forgotten>>

Published_Claimed(d) == held[d]   \* mutant: the failed ones too

Published(d) == sent[d]

EndPass(d) ==
  /\ held' = [held EXCEPT ![d] = {}]
  /\ todo' = [todo EXCEPT ![d] = {}]
  /\ sent' = [sent EXCEPT ![d] = {}]

Commit(d) ==
  /\ held[d] # {} /\ todo[d] = {}
  /\ outbox' = [e \in Events |-> IF e \in Published(d) THEN "published" ELSE outbox[e]]
  /\ checkpoint' = IF sent[d] = {} THEN checkpoint ELSE Max(sent[d])
  /\ EndPass(d)
  /\ UNCHANGED <<queue, consumer, bounds>>

DrainerDies(d) ==   \* its transaction rolls back, its jobs stay
  /\ held[d] # {} /\ deaths < MaxDeaths
  /\ deaths' = deaths + 1
  /\ EndPass(d)
  /\ UNCHANGED <<outbox, checkpoint, queue, consumer, queueErrors, failures, forgotten>>
-----------------------------------------------------------------------------
Processed_Unchecked(e) ==   \* mutant: the answer of the insert is ignored
  /\ processed' = processed \cup {e}
  /\ handled' = [handled EXCEPT ![e] = @ + 1]

Processed(e) ==   \* markProcessed and the effect, one transaction
  IF e \in processed
  THEN UNCHANGED consumer
  ELSE /\ processed' = processed \cup {e}
       /\ handled' = [handled EXCEPT ![e] = @ + 1]

Consume(e) ==
  /\ delivery[e] = "waiting"
  /\ Processed(e)
  /\ delivery' = [delivery EXCEPT ![e] = "completed"]
  /\ UNCHANGED <<outbox, pass, checkpoint, tries, bounds>>

ConsumeUnacknowledged(e) ==   \* committed, but the queue never hears of it
  /\ delivery[e] = "waiting" /\ deaths < MaxDeaths
  /\ Processed(e)
  /\ deaths' = deaths + 1
  /\ UNCHANGED <<outbox, pass, checkpoint, queue, queueErrors, failures, forgotten>>

Exhausted(n) == n >= Attempts

ConsumeFails(e) ==
  /\ delivery[e] = "waiting" /\ failures < MaxFailures
  /\ failures' = failures + 1
  /\ tries' = [tries EXCEPT ![e] = @ + 1]
  /\ delivery' = [delivery EXCEPT ![e] = IF Exhausted(tries[e] + 1) THEN "failed" ELSE "waiting"]
  /\ UNCHANGED <<outbox, pass, checkpoint, consumer, deaths, queueErrors, forgotten>>

Forget(e) ==   \* removeOnComplete
  /\ delivery[e] = "completed" /\ forgotten < MaxForgotten
  /\ delivery' = [delivery EXCEPT ![e] = "none"]
  /\ forgotten' = forgotten + 1
  /\ UNCHANGED <<outbox, pass, checkpoint, tries, consumer, deaths, queueErrors, failures>>

Drain(d) == ClaimBatch(d) \/ Send(d) \/ SendFails(d) \/ Commit(d)

OutboxNext ==
  \/ \E e \in Events : \/ Publish(e, "pending") \/ Publish(e, "rolled back")
                       \/ Consume(e) \/ ConsumeUnacknowledged(e) \/ ConsumeFails(e) \/ Forget(e)
  \/ \E d \in Drainers : Drain(d) \/ DrainerDies(d)

(* The drainers poll on a timer, the queue offers a waiting job to its      *)
(* workers until one takes it.                                              *)
OutboxSpec ==
  /\ OutboxInit /\ [][OutboxNext]_outboxVars
  /\ \A d \in Drainers : WF_outboxVars(Drain(d))
  /\ \A e \in Events : WF_outboxVars(Consume(e))
-----------------------------------------------------------------------------
OutboxTypeOK ==
  /\ outbox \in [Events -> {"open", "rolled back", "pending", "published"}]
  /\ \A d \in Drainers :
       /\ held[d] \subseteq Events /\ Cardinality(held[d]) <= BatchSize
       /\ todo[d] \cup sent[d] \subseteq held[d]
  /\ checkpoint \in 0..Last
  /\ delivery \in [Events -> {"none", "waiting", "completed", "failed"}]
  /\ tries \in [Events -> 0..Attempts]
  /\ processed \subseteq Events
  /\ handled \in [Events -> Nat]

(* An event of a committed transaction takes effect at most once, whatever  *)
(* is sent or delivered again; one of a transaction that rolled back never. *)
HandledOnce ==
  \A e \in Events : /\ handled[e] <= 1
                    /\ handled[e] = 1 => outbox[e] \in {"pending", "published"}

(* An event marked published has reached the consumer, is on the queue, or  *)
(* has used up its attempts.                                                *)
NothingLost ==
  \A e \in Events :
    outbox[e] = "published" => e \in processed \/ delivery[e] = "waiting" \/ Exhausted(tries[e])

(* An event whose transaction committed is handled, in whatever order the   *)
(* transactions around it commit, or its job has used up its attempts:      *)
(* nothing sends that one again.                                            *)
EveryEventIsHandled ==
  \A e \in Events : outbox[e] = "pending" ~> e \in processed \/ delivery[e] = "failed"

(* The checkpoint is a position: what lies before it has been published     *)
(* (refuted: it is that of the last event sent, whatever was left behind).  *)
CheckpointIsAPosition ==
  \A e \in Events : e <= checkpoint => outbox[e] \in {"published", "rolled back"}
=============================================================================
