--------------------------- MODULE BatchDelivery ---------------------------
(***************************************************************************)
(* The path of a record from the listener's memory to the database:        *)
(* the tick consumer's buffers and flush (apps/listener/main.py), the      *)
(* Redis pending and dead-letter streams and the delivery job              *)
(* (batch_delivery.py), the flush pool's queue and workers, recovery at    *)
(* startup, the dead-letter replay command (replay_batches.py) and the     *)
(* backend's idempotent bulk endpoint (apps/backend/main.py).              *)
(*                                                                         *)
(* The listener process may crash between any two steps, a Redis call may  *)
(* fail with or without having been executed, and an HTTP request may time *)
(* out and still be processed later.  Redis itself is durable here: losing *)
(* it is outside the durability boundary docs/deployment.md states.        *)
(***************************************************************************)
EXTENDS Naturals, Sequences, FiniteSets

CONSTANTS
    Records,         \* ticks and raw feed events the feed may deliver
    BatchIds,        \* the uuid4 values available as batch IDs
    NoBatch,         \* batch_buffer_id = None
    NoJob,           \* a sender without a stored batch
    Workers,         \* BATCH_WORKERS delivery workers
    Replayer,        \* the replay_batches.py command
    QueueSize,       \* BATCH_QUEUE_SIZE
    MaxAttempts,     \* LISTENER_BATCH_MAX_ATTEMPTS
    MaxStops,        \* bound: crashes and shutdowns of the listener
    RedisMayFail     \* whether calls to Redis can fail

ASSUME ConstantsAssumption ==
    /\ NoBatch \notin BatchIds
    /\ Replayer \notin Workers
    /\ QueueSize \in Nat \ {0}
    /\ MaxAttempts \in Nat \ {0}
    /\ MaxStops \in Nat
    /\ RedisMayFail \in BOOLEAN

Senders == Workers \cup {Replayer}

\* StoredBatch: its stream record ID and the payload posted to the backend.
Payload == [batch : BatchIds, recs : SUBSET Records]
Entry == [id : Nat, load : Payload]

ASSUME NoJobAssumption == NoJob \notin Entry

VARIABLES
    proc,       \* the listener process: down, recovering, running, draining (the
                \* consumer is in its finally block), closing (the pools close)
    stops,      \* crashes and shutdowns so far
    arrived,    \* records the feed has delivered
    consumer,   \* tick_consumer: receiving, adding (in XADD), scheduling (in submit), ended
    buffer,     \* batch_buffer and feed_event_buffer
    bufferId,   \* batch_buffer_id
    added,      \* the stored batch the consumer is scheduling, or NoJob
    cursor,     \* recovery: the last record ID rescheduled
    queue,      \* the flush pool's queue
    pc,         \* each sender: idle, sending, acking, burying
    job,        \* the stored batch each sender holds
    attempt,    \* its attempt number in send_batch_with_retry
    pending,    \* the pending stream
    lastId,     \* its last generated ID
    dead,       \* the dead-letter stream
    lastDead,   \* its last generated ID
    late,       \* requests the client gave up on that the backend may still process
    ledger,     \* ingestion_batches: the payload of each registered batch ID, {} if none
    rows        \* database rows of each record

process == <<proc, stops, arrived, consumer, buffer, bufferId, added, cursor>>
sending == <<queue, pc, job, attempt>>
streams == <<pending, lastId, dead, lastDead>>
backend == <<late, ledger, rows>>
vars == <<proc, stops, arrived, consumer, buffer, bufferId, added, cursor, queue,
          pc, job, attempt, pending, lastId, dead, lastDead, late, ledger, rows>>

\* The payloads that are kept: in a stream, or registered by the backend.
Kept == {p \in Payload : \/ \E e \in pending \cup dead : e.load = p
                         \/ p.recs # {} /\ ledger[p.batch] = p.recs}

Init ==
    /\ proc = "down" /\ stops = 0
    /\ arrived = {}
    /\ consumer = "ended" /\ buffer = {} /\ bufferId = NoBatch /\ added = NoJob
    /\ cursor = 0
    /\ queue = <<>>
    /\ pc = [s \in Senders |-> "idle"]
    /\ job = [s \in Senders |-> NoJob]
    /\ attempt = [s \in Senders |-> 0]
    /\ pending = {} /\ lastId = 0 /\ dead = {} /\ lastDead = 0
    /\ late = {}
    /\ ledger = [b \in BatchIds |-> {}]
    /\ rows = [r \in Records |-> 0]

-----------------------------------------------------------------------------
(* Start, recovery, stop and crash of the listener process.                *)

Start ==
    /\ proc = "down"
    /\ proc' = "recovering" /\ cursor' = 0
    /\ UNCHANGED <<stops, arrived, consumer, buffer, bufferId, added, sending, streams, backend>>

\* recover_pending_batches: the next pending batch, once the queue has room.
RecoverNext ==
    /\ proc = "recovering" /\ Len(queue) < QueueSize
    /\ \E e \in pending :
         /\ e.id > cursor
         /\ \A f \in pending : f.id > cursor => e.id <= f.id
         /\ queue' = Append(queue, e)
         /\ cursor' = e.id
    /\ UNCHANGED <<proc, stops, arrived, consumer, buffer, bufferId, added, pc, job, attempt, streams, backend>>

\* Mutant of RecoverDone: the scan stops before every pending batch is rescheduled.
RecoverDoneEarly ==
    /\ proc = "recovering"
    /\ proc' = "running" /\ consumer' = "receiving"
    /\ UNCHANGED <<stops, arrived, buffer, bufferId, added, cursor, sending, streams, backend>>

RecoverDone ==
    /\ proc = "recovering"
    /\ \A e \in pending : e.id <= cursor
    /\ proc' = "running" /\ consumer' = "receiving"
    /\ UNCHANGED <<stops, arrived, buffer, bufferId, added, cursor, sending, streams, backend>>

\* Every variable the process held in memory is gone; what its workers had sent may still arrive.
ForgetProcess ==
    /\ proc' = "down"
    /\ consumer' = "ended" /\ buffer' = {} /\ bufferId' = NoBatch /\ added' = NoJob
    /\ cursor' = 0
    /\ queue' = <<>>
    /\ pc' = [s \in Senders |-> IF s \in Workers THEN "idle" ELSE pc[s]]
    /\ job' = [s \in Senders |-> IF s \in Workers THEN NoJob ELSE job[s]]
    /\ attempt' = [s \in Senders |-> IF s \in Workers THEN 0 ELSE attempt[s]]
    /\ late' = late \cup {job[w].load : w \in {v \in Workers : pc[v] = "sending"}}
    /\ UNCHANGED <<arrived, streams, ledger, rows>>

Crash == proc # "down" /\ stops < MaxStops /\ stops' = stops + 1 /\ ForgetProcess

\* BoundedTaskPool.close: the work has drained, or the timeout cancels what is left.
Exit == proc = "closing" /\ UNCHANGED stops /\ ForgetProcess

-----------------------------------------------------------------------------
(* tick_consumer and flush_batch_buffer.                                   *)

Receive(r) ==
    /\ proc = "running" /\ consumer = "receiving"
    /\ r \notin arrived
    /\ arrived' = arrived \cup {r}
    /\ buffer' = buffer \cup {r}
    /\ UNCHANGED <<proc, stops, consumer, bufferId, added, cursor, sending, streams, backend>>

\* flush(): the buffers are full or old, or the consumer is ending; an ID kept from a failed flush is reused.
BeginFlush ==
    /\ proc \in {"running", "draining"} /\ consumer = "receiving"
    /\ buffer # {}
    /\ \/ bufferId # NoBatch /\ UNCHANGED bufferId
       \/ /\ bufferId = NoBatch
          /\ \E b \in BatchIds :
               /\ \A p \in Kept : p.batch # b
               /\ bufferId' = b
    /\ consumer' = "adding"
    /\ UNCHANGED <<proc, stops, arrived, buffer, added, cursor, sending, streams, backend>>

NewEntry == [id |-> lastId + 1, load |-> [batch |-> bufferId, recs |-> buffer]]

Persist == /\ pending' = pending \cup {NewEntry}
           /\ lastId' = lastId + 1

\* store.add succeeded: the batch is durable, the buffers are cleared, scheduling is next.
StoreBatch ==
    /\ consumer = "adding"
    /\ Persist
    /\ added' = NewEntry
    /\ buffer' = {}
    /\ consumer' = "scheduling"
    /\ UNCHANGED <<proc, stops, arrived, bufferId, cursor, sending, dead, lastDead, backend>>

\* The exception, or the cancellation, takes the consumer to its finally block, and out of that one to its end.
UnwindConsumer ==
    /\ proc' = "draining"
    /\ consumer' = IF proc = "draining" THEN "ended" ELSE "receiving"

\* store.add raised, or the consumer was cancelled in it, before or after Redis executed the XADD; the
\* buffers are kept.
StoreBatchFails ==
    /\ consumer = "adding"
    /\ \/ RedisMayFail /\ UNCHANGED stops
       \/ proc = "running" /\ stops < MaxStops /\ stops' = stops + 1
    /\ Persist \/ UNCHANGED <<pending, lastId>>
    /\ UnwindConsumer
    /\ UNCHANGED <<arrived, buffer, bufferId, added, cursor, sending, dead, lastDead, backend>>

\* batch_pool.submit: the batch waits for room in the queue.
ScheduleBatch ==
    /\ consumer = "scheduling" /\ Len(queue) < QueueSize
    /\ queue' = Append(queue, added)
    /\ added' = NoJob /\ bufferId' = NoBatch
    /\ consumer' = IF proc = "draining" THEN "ended" ELSE "receiving"
    /\ UNCHANGED <<proc, stops, arrived, buffer, cursor, pc, job, attempt, streams, backend>>

\* Scheduling is cancelled while it waits: the batch stays pending.
ScheduleCancelled ==
    /\ proc = "running" /\ consumer = "scheduling"
    /\ stops < MaxStops /\ stops' = stops + 1
    /\ added' = NoJob
    /\ UnwindConsumer
    /\ UNCHANGED <<arrived, buffer, bufferId, cursor, sending, streams, backend>>

\* SIGTERM: the consumer takes its sentinel, or is cancelled while it waits for an item.
StopConsumer ==
    /\ proc = "running" /\ consumer = "receiving"
    /\ stops < MaxStops /\ stops' = stops + 1
    /\ proc' = "draining"
    /\ UNCHANGED <<arrived, consumer, buffer, bufferId, added, cursor, sending, streams, backend>>

\* Mutant of ConsumerEnds: the finally block does not flush.
ConsumerEndsUnflushed ==
    /\ proc = "draining" /\ consumer = "receiving"
    /\ consumer' = "ended"
    /\ UNCHANGED <<proc, stops, arrived, buffer, bufferId, added, cursor, sending, streams, backend>>

\* The finally block has nothing to flush.
ConsumerEnds ==
    /\ proc = "draining" /\ consumer = "receiving" /\ buffer = {}
    /\ consumer' = "ended"
    /\ UNCHANGED <<proc, stops, arrived, buffer, bufferId, added, cursor, sending, streams, backend>>

ClosePools ==
    /\ proc = "draining" /\ consumer = "ended"
    /\ proc' = "closing"
    /\ UNCHANGED <<stops, arrived, consumer, buffer, bufferId, added, cursor, sending, streams, backend>>

-----------------------------------------------------------------------------
(* deliver_stored_batch on a worker, and the replay command.               *)

BeginJob(s, e) ==
    /\ pc' = [pc EXCEPT ![s] = "sending"]
    /\ job' = [job EXCEPT ![s] = e]
    /\ attempt' = [attempt EXCEPT ![s] = 1]

EndJob(s) ==
    /\ pc' = [pc EXCEPT ![s] = "idle"]
    /\ job' = [job EXCEPT ![s] = NoJob]
    /\ attempt' = [attempt EXCEPT ![s] = 0]

TakeJob(w) ==
    /\ proc # "down" /\ pc[w] = "idle" /\ queue # <<>>
    /\ BeginJob(w, Head(queue))
    /\ queue' = Tail(queue)
    /\ UNCHANGED <<process, streams, backend>>

\* replay(): one dead letter after another.
TakeDeadLetter ==
    /\ pc[Replayer] = "idle"
    /\ \E e \in dead : BeginJob(Replayer, e)
    /\ UNCHANGED <<process, queue, streams, backend>>

\* Mutant of Registers: the ledger is not consulted.
RegistersAlways(p) == TRUE

\* _register_ingestion_batch: a new ID registers, a used one repeats its payload or conflicts with it.
Registers(p) == ledger[p.batch] = {}
Conflicts(p) == ledger[p.batch] \notin {{}, p.recs}

\* process_bulk_ingestion: the ID and the rows in one transaction.
Ingest(p) ==
    IF Registers(p)
    THEN /\ ledger' = [ledger EXCEPT ![p.batch] = p.recs]
         /\ rows' = [r \in Records |-> IF r \in p.recs THEN rows[r] + 1 ELSE rows[r]]
    ELSE UNCHANGED <<ledger, rows>>

\* send_batch_with_retry raises: a worker buries its batch, the replay command leaves the dead letter.
GiveUp(s) ==
    IF s = Replayer THEN EndJob(s)
    ELSE pc' = [pc EXCEPT ![s] = "burying"] /\ UNCHANGED <<job, attempt>>

\* The backend answers: 2xx for a new batch or its repeat, 409 for another payload under the same ID.
PostAnswered(s) ==
    /\ pc[s] = "sending"
    /\ Ingest(job[s].load)
    /\ IF Conflicts(job[s].load)
       THEN GiveUp(s)
       ELSE pc' = [pc EXCEPT ![s] = "acking"] /\ UNCHANGED <<job, attempt>>
    /\ UNCHANGED <<process, queue, streams, late>>

\* A permanent error that changed nothing: 400, 401, 413, 422.
PostRefused(s) ==
    /\ pc[s] = "sending"
    /\ GiveUp(s)
    /\ UNCHANGED <<process, queue, streams, backend>>

\* A retryable answer, no connection, or a timeout after which the request may still be processed.
PostFailed(s) ==
    /\ pc[s] = "sending"
    /\ late' = late \/ late' = late \cup {job[s].load}
    /\ IF attempt[s] < MaxAttempts
       THEN attempt' = [attempt EXCEPT ![s] = @ + 1] /\ UNCHANGED <<pc, job>>
       ELSE GiveUp(s)
    /\ UNCHANGED <<process, queue, streams, ledger, rows>>

\* A request its client gave up on reaches the backend, or never does.
LateRequest ==
    \E p \in late :
        /\ late' = late \ {p}
        /\ Ingest(p) \/ UNCHANGED <<ledger, rows>>
        /\ UNCHANGED <<process, sending, streams>>

\* store.acknowledge and store.acknowledge_dead_letter: XDEL.
Acknowledge(s) ==
    /\ pc[s] = "acking"
    /\ IF s = Replayer
       THEN dead' = dead \ {job[s]} /\ UNCHANGED pending
       ELSE pending' = pending \ {job[s]} /\ UNCHANGED dead
    /\ EndJob(s)
    /\ UNCHANGED <<process, queue, lastId, lastDead, backend>>

\* Mutant of Bury: the pending entry is deleted and the dead letter never written.
BuryWithoutCopy(w) ==
    /\ pc[w] = "burying"
    /\ pending' = pending \ {job[w]}
    /\ EndJob(w)
    /\ UNCHANGED <<process, queue, lastId, dead, lastDead, backend>>

\* store.dead_letter: XADD to the dead letters and XDEL from pending in one MULTI.
Bury(w) ==
    /\ pc[w] = "burying"
    /\ dead' = dead \cup {[id |-> lastDead + 1, load |-> job[w].load]}
    /\ lastDead' = lastDead + 1
    /\ pending' = pending \ {job[w]}
    /\ EndJob(w)
    /\ UNCHANGED <<process, queue, lastId, backend>>

\* The Redis call of either is not executed: the job fails and the stream entry stays where it is.
SettleFails(s) ==
    /\ pc[s] \in {"acking", "burying"} /\ RedisMayFail
    /\ EndJob(s)
    /\ UNCHANGED <<process, queue, streams, backend>>

\* The replay command is interrupted.
ReplayStops ==
    /\ pc[Replayer] # "idle"
    /\ late' = IF pc[Replayer] = "sending" THEN late \cup {job[Replayer].load} ELSE late
    /\ EndJob(Replayer)
    /\ UNCHANGED <<process, queue, streams, ledger, rows>>

-----------------------------------------------------------------------------
ProcessStep ==
    \/ Start \/ RecoverNext \/ RecoverDone \/ Exit
    \/ BeginFlush \/ StoreBatch \/ ScheduleBatch \/ ConsumerEnds \/ ClosePools

DeliveryStep(s) == PostAnswered(s) \/ PostRefused(s) \/ PostFailed(s) \/ Acknowledge(s)

Next ==
    \/ ProcessStep
    \/ Crash \/ StoreBatchFails \/ ScheduleCancelled \/ StopConsumer
    \/ \E r \in Records : Receive(r)
    \/ \E w \in Workers : TakeJob(w) \/ Bury(w)
    \/ \E s \in Senders : DeliveryStep(s) \/ SettleFails(s)
    \/ TakeDeadLetter \/ ReplayStops \/ LateRequest

Spec == Init /\ [][Next]_vars

\* The event loop keeps running every ready task; restarts are the container's restart policy.
Fairness ==
    /\ WF_vars(ProcessStep)
    /\ \A w \in Workers : WF_vars(TakeJob(w) \/ DeliveryStep(w) \/ Bury(w))

FairSpec == Spec /\ Fairness

-----------------------------------------------------------------------------
TypeOK ==
    /\ proc \in {"down", "recovering", "running", "draining", "closing"}
    /\ stops \in Nat
    /\ arrived \subseteq Records
    /\ consumer \in {"receiving", "adding", "scheduling", "ended"}
    /\ buffer \subseteq Records
    /\ bufferId \in BatchIds \cup {NoBatch}
    /\ added \in Entry \cup {NoJob}
    /\ cursor \in Nat
    /\ queue \in Seq(Entry)
    /\ pc \in [Senders -> {"idle", "sending", "acking", "burying"}]
    /\ job \in [Senders -> Entry \cup {NoJob}]
    /\ attempt \in [Senders -> Nat]
    /\ pending \subseteq Entry /\ lastId \in Nat
    /\ dead \subseteq Entry /\ lastDead \in Nat
    /\ late \subseteq Payload
    /\ ledger \in [BatchIds -> SUBSET Records]
    /\ rows \in [Records -> Nat]

(* A record is inserted at most once, however often its batch is sent, timed out,
   recovered, buried and replayed (the purpose of the batch ID and the ledger). *)
RecordedOnce == \A r \in Records : rows[r] <= 1

(* A batch ID is never used for two payloads, so the backend never answers 409: a flush
   that failed after Redis executed it is repeated with the same ID and the same records. *)
NoConflict ==
    /\ \A s \in Senders : pc[s] = "sending" => ~Conflicts(job[s].load)
    /\ \A p \in late : ~Conflicts(p)

(* What was once written to the pending stream stays in a stream until the backend has
   registered it: no acknowledgement, dead letter, replay, crash or stop drops a batch. *)
KeptForever == [][Kept \subseteq Kept']_vars

(* The consumer drops a record from its buffers only when the record is in the pending
   stream; only the end of the process may take buffered records with it. *)
FlushedBeforeCleared ==
    [][\A r \in buffer \ buffer' :
          proc' = "down" \/ \E p \in Kept' : r \in p.recs]_vars

(* What the backend is sent is one payload per batch ID, and each record of it once (the ledger's purpose). *)
LedgerSound == TypeOK /\ RecordedOnce /\ NoConflict

(* Batches and buffers are dropped only for records that are kept elsewhere. *)
NothingDropped == KeptForever /\ FlushedBeforeCleared

(* However the consumer is stopped - by its sentinel, by cancellation or by an exception, wherever it then is in a
   flush - it ends with empty buffers, unless the flush of its finally block fails. *)
CleanShutdown ==
    [][consumer # "ended" /\ consumer' = "ended" => buffer' = {} \/ (proc = "draining" /\ consumer = "adding")]_vars

\* Without Redis failures a shutdown leaves nothing in memory when the pools start to close.
EmptyAtClose == proc = "closing" /\ ~RedisMayFail => buffer = {}

Stage(r) ==
    IF rows[r] > 0 THEN "recorded"
    ELSE IF \E e \in pending \cup dead : r \in e.load.recs THEN "stored"
    ELSE IF r \in buffer THEN "buffered"
    ELSE IF r \in arrived THEN "lost"
    ELSE "unseen"

StageOfRecords == [r \in Records |-> Stage(r)]

\* The records as DurableRecords sees them.
DR == INSTANCE DurableRecords WITH stage <- StageOfRecords, copies <- rows

(* The delivery path keeps the promise of DurableRecords. *)
DurableRecordsSpec == DR!Spec

(* While Redis answers, every pending batch is eventually acknowledged or buried, in this
   process or, after a stop, in a later one: delivery attempts are bounded and recovery
   reschedules whatever an earlier process left. *)
PendingSettles ==
    \A b \in BatchIds :
        (\E e \in pending : e.load.batch = b) ~> ~\E e \in pending : e.load.batch = b

(* A buffered record does not wait for ever: the flush is due after its interval, and the
   consumer is blocked by a full flush queue only until a worker frees a place. *)
BufferFlushes == \A r \in Records : r \in buffer ~> r \notin buffer
=============================================================================
