------------------------ MODULE BatchDelivery_proofs ------------------------
(***************************************************************************)
(* For any number of records, batches, workers, attempts and stops:        *)
(* BatchDelivery records a record at most once, never reuses a batch ID    *)
(* for other content, and keeps a stored batch until it is registered; and *)
(* of Delivery: what starting processes move from the names of an older    *)
(* version is neither lost nor copied without bound, for any number of     *)
(* them, page sizes and contents.                                          *)
(***************************************************************************)
EXTENDS Delivery, FiniteSetTheorems, WellFoundedInduction, TLAPS

-----------------------------------------------------------------------------
(* The inductive invariant: what the kept payloads, the payloads in hand,  *)
(* the consumer's buffers and the database have to do with one another.    *)

\* A busy sender and a scheduling consumer hold a stored batch, a storing consumer a batch ID.
HeldTyped ==
    /\ \A s \in Senders : pc[s] # "idle" => job[s] \in Entry
    /\ consumer = "scheduling" => added \in Entry
    /\ consumer = "adding" => bufferId \in BatchIds

\* Two kept payloads are the same, or differ in ID and share no record.
KeptDisjoint ==
    \A p, q \in Kept : p = q \/ (p.batch # q.batch /\ p.recs \cap q.recs = {})

\* A kept payload holds records that arrived, at least one.
KeptArrived == \A p \in Kept : p.recs # {} /\ p.recs \subseteq arrived

\* Whatever is queued, in a sender's hand or on its way is kept.
HeldKept ==
    /\ \A i \in 1..Len(queue) : queue[i].load \in Kept
    /\ \A s \in Senders : pc[s] # "idle" => job[s].load \in Kept
    /\ late \subseteq Kept
    /\ consumer = "scheduling" => added.load \in Kept

\* The buffers are disjoint from what is kept, except from the batch a failed flush may already have stored.
BufferFresh ==
    /\ buffer \subseteq arrived
    /\ \A p \in Kept : IF p.batch = bufferId THEN buffer \in {{}, p.recs} ELSE p.recs \cap buffer = {}

\* Where the consumer stands.
ConsumerPhase ==
    /\ proc \in {"down", "recovering"} => consumer = "ended" /\ bufferId = NoBatch
    /\ consumer = "receiving" /\ proc = "running" => bufferId = NoBatch
    /\ consumer = "adding" => buffer # {}
    /\ consumer = "scheduling" => buffer = {}

\* The rows are exactly the records of the registered batches, once each.
RowsMatchLedger ==
    \A r \in Records : rows[r] = IF \E b \in BatchIds : r \in ledger[b] THEN 1 ELSE 0

\* A sender acknowledges only what the backend has registered.
AckedRegistered ==
    \A s \in Senders : pc[s] = "acking" => ledger[job[s].load.batch] = job[s].load.recs

IInv == /\ TypeOK /\ HeldTyped /\ KeptDisjoint /\ KeptArrived /\ HeldKept /\ BufferFresh
        /\ ConsumerPhase /\ RowsMatchLedger /\ AckedRegistered

-----------------------------------------------------------------------------
(* Type correctness.                                                       *)

LEMMA SendersFacts == Workers \subseteq Senders /\ Replayer \in Senders /\ Replayer \notin Workers
  BY ConstantsAssumption DEF Senders

TypeInv == TypeOK /\ HeldTyped

LEMMA NewEntryType ==
  ASSUME TypeOK, HeldTyped, consumer = "adding"
  PROVE  NewEntry \in Entry
  BY DEF TypeOK, HeldTyped, NewEntry, Entry, Payload

LEMMA ForgetProcessTypes ==
  ASSUME TypeInv, ForgetProcess, stops' \in Nat
  PROVE  TypeInv'
<1> USE DEF TypeInv
<1>1. late' \subseteq Payload
  <2>1. \A w \in Workers : pc[w] = "sending" => job[w].load \in Payload
    BY SendersFacts DEF HeldTyped, Entry
  <2> QED BY <2>1 DEF TypeOK, ForgetProcess
<1>2. TypeOK'
  BY <1>1, ConstantsAssumption, SendersFacts DEF TypeOK, ForgetProcess, streams
<1>3. HeldTyped'
  BY SendersFacts DEF TypeOK, HeldTyped, ForgetProcess
<1> QED BY <1>2, <1>3

LEMMA IngestTypes ==
  ASSUME TypeOK, NEW p \in Payload, Ingest(p) \/ UNCHANGED <<ledger, rows>>
  PROVE  ledger' \in [BatchIds -> SUBSET Records] /\ rows' \in [Records -> Nat]
<1>1. CASE UNCHANGED <<ledger, rows>>
  BY <1>1 DEF TypeOK
<1>2. CASE Ingest(p) /\ Registers(p)
  <2>1. ledger' \in [BatchIds -> SUBSET Records]
    BY <1>2 DEF Ingest, TypeOK, Payload
  <2>2. \A r \in Records : rows[r] + 1 \in Nat
    BY DEF TypeOK
  <2>3. rows' \in [Records -> Nat]
    BY <1>2, <2>2, ZenonT(60) DEF Ingest, TypeOK
  <2> QED BY <2>1, <2>3
<1>3. CASE Ingest(p) /\ ~Registers(p)
  BY <1>3, <1>1 DEF Ingest, TypeOK
<1> QED BY <1>1, <1>2, <1>3

\* The bookkeeping of a sender, after it gives up or ends its job.
SenderVars(s) ==
    /\ pc' \in [Senders -> {"idle", "sending", "acking", "burying"}]
    /\ job' \in [Senders -> Entry \cup {NoJob}]
    /\ attempt' \in [Senders -> Nat]
    /\ \A t \in Senders : pc'[t] # "idle" => job'[t] \in Entry

LEMMA GiveUpTypes ==
  ASSUME TypeInv, NEW s \in Senders, pc[s] # "idle", GiveUp(s) \/ EndJob(s)
  PROVE  SenderVars(s)
<1>1. CASE EndJob(s)
  BY <1>1 DEF EndJob, TypeInv, TypeOK, HeldTyped, SenderVars
<1>2. CASE pc' = [pc EXCEPT ![s] = "burying"] /\ UNCHANGED <<job, attempt>>
  BY <1>2 DEF TypeInv, TypeOK, HeldTyped, SenderVars
<1> QED BY <1>1, <1>2 DEF GiveUp

LEMMA SenderTypes ==
  ASSUME TypeInv, NEW s \in Senders, DeliveryStep(s) \/ SettleFails(s)
  PROVE  TypeInv'
<1> USE DEF process, streams, backend
<1>0. TypeOK /\ HeldTyped
  BY DEF TypeInv
<1>1. CASE PostAnswered(s)
  <2>1. job[s].load \in Payload /\ pc[s] # "idle"
    BY <1>0, <1>1 DEF PostAnswered, HeldTyped, Entry
  <2>2. ledger' \in [BatchIds -> SUBSET Records] /\ rows' \in [Records -> Nat]
    BY <1>0, <1>1, <2>1, IngestTypes DEF PostAnswered
  <2>3. SenderVars(s)
    <3>1. CASE GiveUp(s)
      BY <2>1, <3>1, GiveUpTypes
    <3>2. CASE pc' = [pc EXCEPT ![s] = "acking"] /\ UNCHANGED <<job, attempt>>
      BY <1>0, <2>1, <3>2 DEF SenderVars, TypeOK, HeldTyped
    <3> QED BY <1>1, <3>1, <3>2 DEF PostAnswered
  <2> QED BY <1>0, <1>1, <2>2, <2>3 DEF PostAnswered, SenderVars, TypeInv, TypeOK, HeldTyped
<1>2. CASE PostRefused(s)
  <2>1. SenderVars(s)
    BY <1>2, GiveUpTypes DEF PostRefused
  <2> QED BY <1>0, <1>2, <2>1 DEF PostRefused, SenderVars, TypeInv, TypeOK, HeldTyped
<1>3. CASE PostFailed(s)
  <2>1. job[s].load \in Payload /\ pc[s] # "idle"
    BY <1>0, <1>3 DEF PostFailed, HeldTyped, Entry
  <2>2. late' \subseteq Payload
    BY <1>0, <1>3, <2>1 DEF PostFailed, TypeOK
  <2>3. SenderVars(s)
    <3>1. CASE GiveUp(s)
      BY <2>1, <3>1, GiveUpTypes
    <3>2. CASE attempt' = [attempt EXCEPT ![s] = @ + 1] /\ UNCHANGED <<pc, job>>
      BY <1>0, <3>2 DEF SenderVars, TypeOK, HeldTyped
    <3> QED BY <1>3, <3>1, <3>2 DEF PostFailed
  <2> QED BY <1>0, <1>3, <2>2, <2>3 DEF PostFailed, SenderVars, TypeInv, TypeOK, HeldTyped
<1>4. CASE Acknowledge(s)
  <2>1. SenderVars(s)
    BY <1>4, GiveUpTypes DEF Acknowledge
  <2> QED BY <1>0, <1>4, <2>1 DEF Acknowledge, SenderVars, TypeInv, TypeOK, HeldTyped
<1>5. CASE SettleFails(s)
  <2>1. SenderVars(s)
    BY <1>5, GiveUpTypes DEF SettleFails
  <2> QED BY <1>0, <1>5, <2>1 DEF SettleFails, SenderVars, TypeInv, TypeOK, HeldTyped
<1> QED BY <1>1, <1>2, <1>3, <1>4, <1>5 DEF DeliveryStep

LEMMA WorkerTypes ==
  ASSUME TypeInv, NEW w \in Workers, TakeJob(w) \/ Bury(w)
  PROVE  TypeInv'
<1> USE SendersFacts DEF TypeInv, process, streams, backend
<1>1. CASE TakeJob(w)
  <2>1. Head(queue) \in Entry /\ Tail(queue) \in Seq(Entry)
    BY <1>1 DEF TakeJob, TypeOK
  <2> QED BY <1>1, <2>1 DEF TakeJob, BeginJob, TypeOK, HeldTyped
<1>2. CASE Bury(w)
  <2>1. [id |-> lastDead + 1, load |-> job[w].load] \in Entry
    BY <1>2 DEF Bury, TypeOK, HeldTyped, Entry
  <2> QED BY <1>2, <2>1 DEF Bury, EndJob, TypeOK, HeldTyped
<1> QED BY <1>1, <1>2

LEMMA TypeStep == TypeInv /\ [Next]_vars => TypeInv'
<1> SUFFICES ASSUME TypeInv, [Next]_vars PROVE TypeInv'
  OBVIOUS
<1> USE ConstantsAssumption, SendersFacts DEF process, sending, streams, backend
<1>1. CASE Start
  BY <1>1 DEF TypeInv, TypeOK, HeldTyped, Start
<1>2. CASE RecoverNext
  BY <1>2 DEF TypeInv, TypeOK, HeldTyped, RecoverNext, Entry
<1>3. CASE RecoverDone
  BY <1>3 DEF TypeInv, TypeOK, HeldTyped, RecoverDone
<1>4. CASE Exit \/ Crash
  BY <1>4, ForgetProcessTypes DEF Exit, Crash, TypeInv, TypeOK
<1>5. CASE \E r \in Records : Receive(r)
  BY <1>5 DEF TypeInv, TypeOK, HeldTyped, Receive
<1>6. CASE BeginFlush
  BY <1>6 DEF TypeInv, TypeOK, HeldTyped, BeginFlush
<1>7. CASE StoreBatch
  BY <1>7, NewEntryType DEF TypeInv, TypeOK, HeldTyped, StoreBatch, Persist
<1>8. CASE StoreBatchFails
  BY <1>8, NewEntryType DEF TypeInv, TypeOK, HeldTyped, StoreBatchFails, Persist, UnwindConsumer
<1>9. CASE ScheduleBatch
  BY <1>9 DEF TypeInv, TypeOK, HeldTyped, ScheduleBatch
<1>10. CASE ScheduleCancelled
  BY <1>10 DEF TypeInv, TypeOK, HeldTyped, ScheduleCancelled, UnwindConsumer
<1>11. CASE StopConsumer \/ ConsumerEnds \/ ClosePools
  BY <1>11 DEF TypeInv, TypeOK, HeldTyped, StopConsumer, ConsumerEnds, ClosePools
<1>12. CASE TakeDeadLetter
  BY <1>12 DEF TypeInv, TypeOK, HeldTyped, TakeDeadLetter, BeginJob
<1>13. CASE ReplayStops
  <2>1. late' \subseteq Payload
    BY <1>13 DEF ReplayStops, TypeInv, TypeOK, HeldTyped, Entry
  <2> QED BY <1>13, <2>1 DEF ReplayStops, EndJob, TypeInv, TypeOK, HeldTyped
<1>14. CASE LateRequest
  <2>1. PICK p \in late : /\ late' = late \ {p}
                          /\ Ingest(p) \/ UNCHANGED <<ledger, rows>>
                          /\ UNCHANGED <<process, sending, streams>>
    BY <1>14 DEF LateRequest
  <2>2. ledger' \in [BatchIds -> SUBSET Records] /\ rows' \in [Records -> Nat]
    BY <2>1, IngestTypes DEF TypeInv, TypeOK
  <2> QED BY <2>1, <2>2 DEF TypeInv, TypeOK, HeldTyped
<1>15. CASE UNCHANGED vars
  BY <1>15 DEF vars, TypeInv, TypeOK, HeldTyped
<1> QED
  BY <1>1, <1>2, <1>3, <1>4, <1>5, <1>6, <1>7, <1>8, <1>9, <1>10, <1>11, <1>12, <1>13, <1>14, <1>15,
     SenderTypes, WorkerTypes DEF Next, ProcessStep

LEMMA TypeInit == Init => TypeInv
  BY ConstantsAssumption DEF Init, TypeInv, TypeOK, HeldTyped

(* Every variable keeps its type, for any constants: no action of the listener, the
   replay command or the backend leaves the ranges the code uses. *)
THEOREM TypeCorrect == Spec => []TypeOK
<1>1. TypeInv => TypeOK
  BY DEF TypeInv
<1> QED BY TypeInit, TypeStep, <1>1, PTL DEF Spec

-----------------------------------------------------------------------------
(* What the steps do to the kept payloads.                                 *)

LEMMA KeptUnchanged == UNCHANGED <<pending, dead, ledger>> => Kept' = Kept
  BY DEF Kept

LEMMA KeptIsPayload == \A p \in Kept : p \in Payload
  BY DEF Kept

LEMMA RegisteredKept ==
  ASSUME TypeOK, NEW b \in BatchIds, ledger[b] # {}
  PROVE  [batch |-> b, recs |-> ledger[b]] \in Kept
  BY DEF TypeOK, Kept, Payload

\* A kept payload never conflicts with the ledger.
LEMMA KeptNoConflict ==
  ASSUME IInv, NEW p \in Kept
  PROVE  ~Conflicts(p)
<1> SUFFICES ASSUME ledger[p.batch] # {}, ledger[p.batch] # p.recs PROVE FALSE
  BY DEF Conflicts
<1> DEFINE q == [batch |-> p.batch, recs |-> ledger[p.batch]]
<1>1. p.batch \in BatchIds
  BY KeptIsPayload DEF Payload
<1>2. q \in Kept
  BY <1>1, RegisteredKept DEF IInv
<1>3. p = q
  BY <1>2 DEF IInv, KeptDisjoint
<1> QED BY <1>3

LEMMA PersistKept ==
  ASSUME TypeInv, consumer = "adding", Persist, UNCHANGED <<dead, ledger>>
  PROVE  Kept' = Kept \cup {NewEntry.load}
<1>1. NewEntry \in Entry /\ NewEntry.load \in Payload
  BY NewEntryType DEF TypeInv, Entry
<1>2. ASSUME NEW p PROVE p \in Kept' <=> p \in Kept \cup {NewEntry.load}
  BY <1>1 DEF Kept, Persist
<1> QED BY <1>2

\* Processing a request changes no kept payload and adds each record of a new batch once.
LEMMA IngestKept ==
  ASSUME IInv, NEW p \in Kept, Ingest(p) \/ UNCHANGED <<ledger, rows>>, UNCHANGED <<pending, dead>>
  PROVE  /\ Kept' = Kept
         /\ RowsMatchLedger'
         /\ \A b \in BatchIds : ledger[b] # {} => ledger'[b] = ledger[b]
         /\ Ingest(p) => ledger'[p.batch] = p.recs
<1>1. CASE UNCHANGED <<ledger, rows>> /\ ~Ingest(p)
  BY <1>1, KeptUnchanged DEF IInv, RowsMatchLedger
<1>2. CASE Ingest(p) /\ ~Registers(p)
  <2>1. UNCHANGED <<ledger, rows>>
    BY <1>2 DEF Ingest
  <2>2. ledger[p.batch] = p.recs
    BY <1>2, KeptNoConflict DEF Registers, Conflicts
  <2> QED BY <2>1, <2>2, KeptUnchanged DEF IInv, RowsMatchLedger
<1>3. CASE Ingest(p) /\ Registers(p)
  <2>1. /\ p \in Payload /\ p.batch \in BatchIds
        /\ ledger \in [BatchIds -> SUBSET Records] /\ rows \in [Records -> Nat]
    BY KeptIsPayload DEF Payload, IInv, TypeOK
  <2>2. /\ ledger[p.batch] = {}
        /\ ledger' = [ledger EXCEPT ![p.batch] = p.recs]
        /\ rows' = [r \in Records |-> IF r \in p.recs THEN rows[r] + 1 ELSE rows[r]]
    BY <1>3 DEF Ingest, Registers
  <2>3. ASSUME NEW b \in BatchIds PROVE ledger'[b] = IF b = p.batch THEN p.recs ELSE ledger[b]
    BY <2>1, <2>2
  <2>4. Kept' = Kept
    <3>1. ASSUME NEW q \in Payload PROVE q \in Kept' <=> q \in Kept
      <4>1. q.batch \in BatchIds
        BY DEF Payload
      <4>2. q.batch = p.batch /\ q.recs = p.recs => q = p
        BY <2>1 DEF Payload
      <4> QED BY <2>2, <2>3, <4>1, <4>2 DEF Kept
    <3> QED BY <3>1 DEF Kept
  <2>5. ASSUME NEW r \in Records, r \in p.recs, NEW b \in BatchIds, r \in ledger[b] PROVE FALSE
    <3> DEFINE q == [batch |-> b, recs |-> ledger[b]]
    <3>1. q \in Kept
      BY <2>5, RegisteredKept DEF IInv
    <3>2. b # p.batch
      BY <2>2, <2>5
    <3>3. q.recs \cap p.recs = {}
      BY <3>1, <3>2 DEF IInv, KeptDisjoint
    <3> QED BY <2>5, <3>3
  <2>6. RowsMatchLedger'
    <3> SUFFICES ASSUME NEW r \in Records
                 PROVE  rows'[r] = IF \E b \in BatchIds : r \in ledger'[b] THEN 1 ELSE 0
      BY DEF RowsMatchLedger
    <3>1. CASE r \in p.recs
      <4>1. rows[r] = 0
        BY <2>5, <3>1 DEF IInv, RowsMatchLedger
      <4>2. \E b \in BatchIds : r \in ledger'[b]
        BY <2>1, <2>3, <3>1
      <4> QED BY <2>2, <3>1, <4>1, <4>2
    <3>2. CASE r \notin p.recs
      <4>1. (\E b \in BatchIds : r \in ledger'[b]) <=> (\E b \in BatchIds : r \in ledger[b])
        BY <2>2, <2>3, <3>2
      <4> QED BY <2>2, <3>2, <4>1 DEF IInv, RowsMatchLedger
    <3> QED BY <3>1, <3>2
  <2> QED BY <2>1, <2>2, <2>3, <2>4, <2>6
<1> QED BY <1>1, <1>2, <1>3

-----------------------------------------------------------------------------
(* The invariant is preserved.                                             *)

\* A step that changes neither the kept payloads nor the database nor what arrived.
LEMMA Undisturbed ==
  ASSUME IInv, Kept' = Kept, UNCHANGED <<arrived, ledger, rows>>
  PROVE  KeptDisjoint' /\ KeptArrived' /\ RowsMatchLedger'
  BY DEF IInv, KeptDisjoint, KeptArrived, RowsMatchLedger

\* Starting, recovering and closing: the batches in hand come from the pending stream.
LEMMA ProcessInv ==
  ASSUME IInv, TypeInv',
         \/ Start \/ RecoverNext \/ RecoverDone \/ StopConsumer \/ ConsumerEnds \/ ClosePools
         \/ ForgetProcess
  PROVE  IInv' /\ Kept' = Kept
<1> USE DEF process, sending, streams, backend
<1>1. Kept' = Kept
  BY KeptUnchanged DEF Start, RecoverNext, RecoverDone, StopConsumer, ConsumerEnds, ClosePools, ForgetProcess
<1>2. KeptDisjoint' /\ KeptArrived' /\ RowsMatchLedger'
  BY <1>1, Undisturbed
     DEF Start, RecoverNext, RecoverDone, StopConsumer, ConsumerEnds, ClosePools, ForgetProcess
<1>3. HeldKept'
  <2>1. CASE RecoverNext
    <3>1. PICK e \in pending : queue' = Append(queue, e)
      BY <2>1 DEF RecoverNext
    <3>2. e.load \in Kept /\ e \in Entry
      BY DEF Kept, IInv, TypeOK, Entry
    <3>3. queue \in Seq(Entry)
      BY DEF IInv, TypeOK
    <3>4. \A i \in 1..Len(queue') : queue'[i].load \in Kept
      BY <3>1, <3>2, <3>3 DEF IInv, HeldKept
    <3> QED BY <1>1, <2>1, <3>4 DEF RecoverNext, IInv, HeldKept
  <2>2. CASE ForgetProcess
    <3>1. \A w \in Workers : pc[w] = "sending" => job[w].load \in Kept
      BY SendersFacts DEF IInv, HeldKept
    <3>2. late' \subseteq Kept
      BY <2>2, <3>1 DEF ForgetProcess, IInv, HeldKept
    <3> QED BY <1>1, <2>2, <3>2 DEF ForgetProcess, IInv, HeldKept
  <2>3. CASE Start \/ RecoverDone \/ StopConsumer \/ ConsumerEnds \/ ClosePools
    BY <1>1, <2>3 DEF Start, RecoverDone, StopConsumer, ConsumerEnds, ClosePools, IInv, HeldKept
  <2> QED BY <2>1, <2>2, <2>3
<1>4. BufferFresh' /\ ConsumerPhase'
  <2>1. CASE ForgetProcess
    BY <1>1, <2>1, ConstantsAssumption, KeptIsPayload DEF ForgetProcess, IInv, BufferFresh, ConsumerPhase, Payload
  <2>2. CASE ~ForgetProcess
    BY <1>1, <2>2
       DEF Start, RecoverNext, RecoverDone, StopConsumer, ConsumerEnds, ClosePools, IInv, BufferFresh, ConsumerPhase
  <2> QED BY <2>1, <2>2
<1>5. AckedRegistered'
  <2>1. CASE ForgetProcess
    BY <2>1, SendersFacts DEF ForgetProcess, IInv, AckedRegistered
  <2>2. CASE ~ForgetProcess
    BY <2>2 DEF Start, RecoverNext, RecoverDone, StopConsumer, ConsumerEnds, ClosePools, IInv, AckedRegistered
  <2> QED BY <2>1, <2>2
<1> QED BY <1>1, <1>2, <1>3, <1>4, <1>5 DEF IInv, TypeInv

LEMMA ReceiveInv ==
  ASSUME IInv, TypeInv', NEW r \in Records, Receive(r)
  PROVE  IInv' /\ Kept' = Kept
<1> USE DEF sending, streams, backend
<1>1. Kept' = Kept
  BY KeptUnchanged DEF Receive
<1>2. KeptDisjoint' /\ KeptArrived' /\ RowsMatchLedger'
  BY <1>1 DEF Receive, IInv, KeptDisjoint, KeptArrived, RowsMatchLedger
<1>3. HeldKept' /\ AckedRegistered' /\ ConsumerPhase'
  BY <1>1 DEF Receive, IInv, HeldKept, AckedRegistered, ConsumerPhase
<1>4. BufferFresh'
  <2>1. \A p \in Kept : r \notin p.recs /\ p.batch # bufferId
    BY ConstantsAssumption, KeptIsPayload DEF Receive, IInv, KeptArrived, ConsumerPhase, Payload
  <2> QED BY <1>1, <2>1 DEF Receive, IInv, BufferFresh
<1> QED BY <1>1, <1>2, <1>3, <1>4 DEF IInv, TypeInv

\* A flush: the buffers become a kept payload, under a new ID or the one a failed flush chose for them.
LEMMA FlushInv ==
  ASSUME IInv, TypeInv', BeginFlush \/ StoreBatch \/ StoreBatchFails
  PROVE  IInv' /\ Kept \subseteq Kept'
<1> USE DEF sending, streams, backend
<1> DEFINE n == NewEntry.load
<1>1. CASE BeginFlush
  <2>1. Kept' = Kept
    BY <1>1, KeptUnchanged DEF BeginFlush
  <2>2. KeptDisjoint' /\ KeptArrived' /\ RowsMatchLedger'
    BY <1>1, <2>1, Undisturbed DEF BeginFlush
  <2>3. HeldKept' /\ AckedRegistered'
    BY <1>1, <2>1 DEF BeginFlush, IInv, HeldKept, AckedRegistered
  <2>4. BufferFresh' /\ ConsumerPhase'
    <3>1. CASE bufferId' = bufferId
      BY <1>1, <2>1, <3>1 DEF BeginFlush, IInv, BufferFresh, ConsumerPhase
    <3>2. CASE bufferId = NoBatch /\ \A p \in Kept : p.batch # bufferId'
      BY <1>1, <2>1, <3>2, ConstantsAssumption, KeptIsPayload
         DEF BeginFlush, IInv, BufferFresh, ConsumerPhase, Payload
    <3> QED BY <1>1, <3>1, <3>2 DEF BeginFlush
  <2> QED BY <2>1, <2>2, <2>3, <2>4 DEF IInv, TypeInv
<1>2. CASE (StoreBatch \/ StoreBatchFails) /\ Persist
  <2>1. consumer = "adding" /\ UNCHANGED <<dead, ledger, rows, late, arrived, queue, pc, job, bufferId>>
    BY <1>2 DEF StoreBatch, StoreBatchFails
  <2>2. Kept' = Kept \cup {n}
    BY <1>2, <2>1, PersistKept DEF IInv, TypeInv
  <2>3. n.batch = bufferId /\ n.recs = buffer /\ buffer # {} /\ buffer \subseteq arrived
    BY <2>1 DEF NewEntry, IInv, ConsumerPhase, BufferFresh
  <2>4. \A p \in Kept : p = n \/ (p.batch # n.batch /\ p.recs \cap n.recs = {})
    <3> SUFFICES ASSUME NEW p \in Kept
                 PROVE  p = n \/ (p.batch # n.batch /\ p.recs \cap n.recs = {})
      OBVIOUS
    <3>1. p \in Payload /\ n \in Payload
      BY <2>1, KeptIsPayload, NewEntryType DEF Entry, IInv
    <3>2. CASE p.batch = bufferId
      <4>1. p.recs = buffer
        BY <2>3, <3>2 DEF IInv, BufferFresh
      <4> QED BY <2>3, <3>1, <3>2, <4>1 DEF Payload
    <3>3. CASE p.batch # bufferId
      BY <2>3, <3>3 DEF IInv, BufferFresh
    <3> QED BY <3>2, <3>3
  <2>5. KeptDisjoint'
    BY <2>2, <2>4 DEF IInv, KeptDisjoint
  <2>6. KeptArrived' /\ RowsMatchLedger'
    BY <2>1, <2>2, <2>3 DEF IInv, KeptArrived, RowsMatchLedger
  <2>7. HeldKept' /\ AckedRegistered'
    BY <1>2, <2>1, <2>2 DEF StoreBatch, StoreBatchFails, UnwindConsumer, IInv, HeldKept, AckedRegistered
  <2>8. BufferFresh'
    <3>1. buffer' \in {{}, buffer}
      BY <1>2 DEF StoreBatch, StoreBatchFails
    <3> QED BY <2>1, <2>2, <2>3, <3>1 DEF IInv, BufferFresh
  <2>9. ConsumerPhase'
    BY <1>2, <2>1 DEF StoreBatch, StoreBatchFails, UnwindConsumer, IInv, ConsumerPhase
  <2> QED BY <2>2, <2>5, <2>6, <2>7, <2>8, <2>9 DEF IInv, TypeInv
<1>3. CASE StoreBatchFails /\ UNCHANGED <<pending, lastId>>
  <2>1. Kept' = Kept
    BY <1>3, KeptUnchanged DEF StoreBatchFails
  <2>2. KeptDisjoint' /\ KeptArrived' /\ RowsMatchLedger'
    BY <1>3, <2>1, Undisturbed DEF StoreBatchFails
  <2>3. HeldKept' /\ AckedRegistered' /\ BufferFresh' /\ ConsumerPhase'
    BY <1>3, <2>1
       DEF StoreBatchFails, UnwindConsumer, IInv, HeldKept, AckedRegistered, BufferFresh, ConsumerPhase
  <2> QED BY <2>1, <2>2, <2>3 DEF IInv, TypeInv
<1> QED BY <1>1, <1>2, <1>3 DEF StoreBatch, StoreBatchFails

LEMMA ScheduleInv ==
  ASSUME IInv, TypeInv', ScheduleBatch \/ ScheduleCancelled
  PROVE  IInv' /\ Kept' = Kept
<1> USE DEF streams, backend
<1>1. Kept' = Kept
  BY KeptUnchanged DEF ScheduleBatch, ScheduleCancelled
<1>2. KeptDisjoint' /\ KeptArrived' /\ RowsMatchLedger'
  BY <1>1, Undisturbed DEF ScheduleBatch, ScheduleCancelled
<1>3. HeldKept'
  <2>1. CASE ScheduleBatch
    <3>1. added \in Entry /\ added.load \in Kept /\ queue \in Seq(Entry)
      BY <2>1 DEF ScheduleBatch, IInv, TypeOK, HeldTyped, HeldKept
    <3>2. \A i \in 1..Len(queue') : queue'[i].load \in Kept
      BY <2>1, <3>1 DEF ScheduleBatch, IInv, HeldKept
    <3> QED BY <1>1, <2>1, <3>2 DEF ScheduleBatch, IInv, HeldKept
  <2>2. CASE ScheduleCancelled
    BY <1>1, <2>2 DEF ScheduleCancelled, UnwindConsumer, sending, IInv, HeldKept
  <2> QED BY <2>1, <2>2
<1>4. BufferFresh'
  <2>1. CASE ScheduleBatch
    <3>1. \A p \in Kept : p.batch # bufferId'
      BY <2>1, ConstantsAssumption, KeptIsPayload DEF ScheduleBatch, Payload
    <3>2. buffer = {}
      BY <2>1 DEF ScheduleBatch, IInv, ConsumerPhase
    <3> QED BY <1>1, <2>1, <3>1, <3>2 DEF ScheduleBatch, IInv, BufferFresh
  <2>2. CASE ScheduleCancelled
    BY <1>1, <2>2 DEF ScheduleCancelled, IInv, BufferFresh
  <2> QED BY <2>1, <2>2
<1>5. ConsumerPhase' /\ AckedRegistered'
  BY DEF ScheduleBatch, ScheduleCancelled, UnwindConsumer, sending, IInv, ConsumerPhase, AckedRegistered
<1> QED BY <1>1, <1>2, <1>3, <1>4, <1>5 DEF IInv, TypeInv

\* A sender takes a batch, gives one up, or fails: nothing is acknowledged or registered.
LEMMA SenderIdleInv ==
  ASSUME IInv, TypeInv', NEW s \in Senders,
         \/ s \in Workers /\ TakeJob(s)
         \/ s = Replayer /\ TakeDeadLetter
         \/ s = Replayer /\ ReplayStops
         \/ PostRefused(s) \/ PostFailed(s) \/ SettleFails(s)
  PROVE  IInv' /\ Kept' = Kept
<1> USE DEF process, streams, backend, BeginJob, EndJob, GiveUp
<1>1. Kept' = Kept
  BY KeptUnchanged DEF TakeJob, TakeDeadLetter, ReplayStops, PostRefused, PostFailed, SettleFails
<1>2. KeptDisjoint' /\ KeptArrived' /\ RowsMatchLedger'
  BY <1>1, Undisturbed DEF TakeJob, TakeDeadLetter, ReplayStops, PostRefused, PostFailed, SettleFails
<1>3. BufferFresh' /\ ConsumerPhase'
  BY <1>1 DEF TakeJob, TakeDeadLetter, ReplayStops, PostRefused, PostFailed, SettleFails,
              IInv, BufferFresh, ConsumerPhase
<1>4. HeldKept'
  <2>1. CASE s \in Workers /\ TakeJob(s)
    <3>1. queue \in Seq(Entry) /\ queue # <<>> /\ Head(queue).load \in Kept
      BY <2>1 DEF TakeJob, IInv, TypeOK, HeldKept
    <3>2. \A i \in 1..Len(Tail(queue)) : Tail(queue)[i].load \in Kept
      BY <3>1 DEF IInv, HeldKept
    <3> QED BY <1>1, <2>1, <3>1, <3>2 DEF TakeJob, IInv, TypeOK, HeldKept
  <2>2. CASE s = Replayer /\ TakeDeadLetter
    <3>1. PICK e \in dead : BeginJob(Replayer, e)
      BY <2>2 DEF TakeDeadLetter
    <3>2. e.load \in Kept
      BY DEF Kept, IInv, TypeOK, Entry
    <3> QED BY <1>1, <2>2, <3>1, <3>2 DEF TakeDeadLetter, IInv, TypeOK, HeldKept
  <2>3. CASE s = Replayer /\ ReplayStops
    BY <1>1, <2>3 DEF ReplayStops, IInv, TypeOK, HeldKept
  <2>4. CASE PostRefused(s)
    BY <1>1, <2>4 DEF PostRefused, IInv, TypeOK, HeldKept
  <2>5. CASE PostFailed(s)
    BY <1>1, <2>5, ZenonT(60) DEF PostFailed, IInv, TypeOK, HeldKept
  <2>6. CASE SettleFails(s)
    BY <1>1, <2>6 DEF SettleFails, IInv, TypeOK, HeldKept
  <2> QED BY <2>1, <2>2, <2>3, <2>4, <2>5, <2>6
<1>5. AckedRegistered'
  BY ZenonT(60) DEF TakeJob, TakeDeadLetter, ReplayStops, PostRefused, PostFailed, SettleFails, IInv, TypeOK, AckedRegistered
<1> QED BY <1>1, <1>2, <1>3, <1>4, <1>5 DEF IInv, TypeInv

\* The backend processes a request, at once or late.
LEMMA IngestInv ==
  ASSUME IInv, TypeInv', (\E s \in Senders : PostAnswered(s)) \/ LateRequest
  PROVE  IInv' /\ Kept' = Kept
<1> USE DEF process, streams
<1>1. PICK p \in Kept :
        /\ Ingest(p) \/ UNCHANGED <<ledger, rows>>
        /\ \/ LateRequest
           \/ \E s \in Senders : PostAnswered(s) /\ p = job[s].load /\ Ingest(p)
  BY DEF PostAnswered, LateRequest, IInv, HeldKept
<1>2. UNCHANGED <<pending, dead, arrived, buffer, bufferId, consumer, proc, added, queue>> /\ late' \subseteq late
  BY <1>1 DEF PostAnswered, LateRequest, sending
<1>3. /\ Kept' = Kept
      /\ RowsMatchLedger'
      /\ \A b \in BatchIds : ledger[b] # {} => ledger'[b] = ledger[b]
      /\ Ingest(p) => ledger'[p.batch] = p.recs
  BY <1>1, <1>2, IngestKept
<1>4. KeptDisjoint' /\ KeptArrived' /\ BufferFresh' /\ ConsumerPhase'
  BY <1>2, <1>3 DEF IInv, KeptDisjoint, KeptArrived, BufferFresh, ConsumerPhase
<1>5. \A t \in Senders : pc[t] = "acking" => ledger'[job[t].load.batch] = job[t].load.recs
  <2> SUFFICES ASSUME NEW t \in Senders, pc[t] = "acking"
               PROVE  ledger'[job[t].load.batch] = job[t].load.recs
    OBVIOUS
  <2>1. job[t].load \in Kept /\ ledger[job[t].load.batch] = job[t].load.recs
    BY DEF IInv, HeldKept, AckedRegistered
  <2>2. job[t].load.recs # {} /\ job[t].load.batch \in BatchIds
    BY <2>1, KeptIsPayload DEF IInv, KeptArrived, Payload
  <2> QED BY <1>3, <2>1, <2>2
<1>6. HeldKept' /\ AckedRegistered'
  <2>1. CASE LateRequest
    BY <1>2, <1>3, <1>5, <2>1 DEF LateRequest, sending, IInv, HeldKept, AckedRegistered
  <2>2. ASSUME NEW s \in Senders, PostAnswered(s), p = job[s].load, Ingest(p)
        PROVE  HeldKept' /\ AckedRegistered'
    <3>1. pc[s] = "sending" /\ pc' = [pc EXCEPT ![s] = "acking"] /\ UNCHANGED <<job, late>>
      BY <2>2, KeptNoConflict DEF PostAnswered
    <3>2. ledger'[job[s].load.batch] = job[s].load.recs
      BY <1>3, <2>2
    <3>3. AckedRegistered'
      BY <1>5, <3>1, <3>2 DEF AckedRegistered, IInv, TypeOK
    <3> QED BY <1>2, <1>3, <3>1, <3>3 DEF IInv, TypeOK, HeldKept
  <2> QED BY <1>1, <2>1, <2>2
<1> QED BY <1>3, <1>4, <1>6 DEF IInv, TypeInv

\* A settled batch leaves its stream only for the ledger or for the dead letters.
LEMMA SettleInv ==
  ASSUME IInv, TypeInv', NEW s \in Senders, Acknowledge(s) \/ (s \in Workers /\ Bury(s))
  PROVE  IInv' /\ Kept' = Kept
<1> USE DEF process, backend, EndJob
<1>1. job[s] \in Entry /\ job[s].load \in Kept
  BY DEF Acknowledge, Bury, IInv, HeldTyped, HeldKept
<1>2. Kept' = Kept
  <2>1. CASE Acknowledge(s)
    <3>1. ledger[job[s].load.batch] = job[s].load.recs /\ job[s].load.recs # {}
      BY <1>1, <2>1 DEF Acknowledge, IInv, AckedRegistered, KeptArrived
    <3>2. /\ pending \cup dead \subseteq (pending' \cup dead') \cup {job[s]}
          /\ pending' \cup dead' \subseteq pending \cup dead /\ ledger' = ledger
      BY <2>1 DEF Acknowledge
    <3>3. ASSUME NEW p \in Payload PROVE p \in Kept' <=> p \in Kept
      BY <3>1, <3>2 DEF Kept
    <3> QED BY <3>3 DEF Kept
  <2>2. CASE Bury(s)
    <3> DEFINE d == [id |-> lastDead + 1, load |-> job[s].load]
    <3>1. /\ pending' \cup dead' \subseteq pending \cup dead \cup {d}
          /\ pending \cup dead \subseteq (pending' \cup dead') \cup {job[s]}
          /\ d \in dead' /\ d.load = job[s].load /\ ledger' = ledger
      BY <2>2 DEF Bury
    <3>2. ASSUME NEW p \in Payload PROVE p \in Kept' <=> p \in Kept
      BY <1>1, <3>1 DEF Kept
    <3> QED BY <3>2 DEF Kept
  <2> QED BY <2>1, <2>2
<1>3. KeptDisjoint' /\ KeptArrived' /\ RowsMatchLedger'
  BY <1>2, Undisturbed DEF Acknowledge, Bury
<1>4. BufferFresh' /\ ConsumerPhase'
  BY <1>2 DEF Acknowledge, Bury, IInv, BufferFresh, ConsumerPhase
<1>5. HeldKept' /\ AckedRegistered'
  BY <1>2 DEF Acknowledge, Bury, IInv, TypeOK, HeldKept, AckedRegistered
<1> QED BY <1>2, <1>3, <1>4, <1>5 DEF IInv, TypeInv

LEMMA InvInit == Init => IInv
<1> SUFFICES ASSUME Init PROVE IInv
  OBVIOUS
<1>1. TypeInv /\ Kept = {}
  BY TypeInit DEF Init, Kept, Payload
<1>2. HeldKept /\ BufferFresh /\ ConsumerPhase /\ RowsMatchLedger /\ AckedRegistered
  BY <1>1 DEF Init, HeldKept, BufferFresh, ConsumerPhase, RowsMatchLedger, AckedRegistered
<1> QED BY <1>1, <1>2 DEF IInv, TypeInv, KeptDisjoint, KeptArrived

LEMMA InvStep == IInv /\ [Next]_vars => IInv' /\ Kept \subseteq Kept'
<1> SUFFICES ASSUME IInv, [Next]_vars PROVE IInv' /\ Kept \subseteq Kept'
  OBVIOUS
<1>1. TypeInv'
  BY TypeStep DEF IInv, TypeInv
<1>2. CASE Start \/ RecoverNext \/ RecoverDone \/ StopConsumer \/ ConsumerEnds \/ ClosePools \/ Exit \/ Crash
  BY <1>1, <1>2, ProcessInv DEF Exit, Crash
<1>3. CASE \E r \in Records : Receive(r)
  BY <1>1, <1>3, ReceiveInv
<1>4. CASE BeginFlush \/ StoreBatch \/ StoreBatchFails
  BY <1>1, <1>4, FlushInv
<1>5. CASE ScheduleBatch \/ ScheduleCancelled
  BY <1>1, <1>5, ScheduleInv
<1>6. CASE \/ \E w \in Workers : TakeJob(w)
           \/ TakeDeadLetter \/ ReplayStops
           \/ \E s \in Senders : PostRefused(s) \/ PostFailed(s) \/ SettleFails(s)
  BY <1>1, <1>6, SenderIdleInv, SendersFacts
<1>7. CASE (\E s \in Senders : PostAnswered(s)) \/ LateRequest
  BY <1>1, <1>7, IngestInv
<1>8. CASE (\E s \in Senders : Acknowledge(s)) \/ \E w \in Workers : Bury(w)
  BY <1>1, <1>8, SettleInv, SendersFacts
<1>9. CASE UNCHANGED vars
  BY <1>9, KeptUnchanged
     DEF vars, IInv, TypeOK, HeldTyped, KeptDisjoint, KeptArrived, HeldKept, BufferFresh, ConsumerPhase,
         RowsMatchLedger, AckedRegistered
<1> QED BY <1>2, <1>3, <1>4, <1>5, <1>6, <1>7, <1>8, <1>9 DEF Next, ProcessStep, DeliveryStep

-----------------------------------------------------------------------------
(* The properties.                                                         *)

THEOREM Inductive == Spec => []IInv
  BY InvInit, InvStep, PTL DEF Spec

(* The ledger makes delivery effectively exactly-once: whatever is repeated, timed out,
   recovered, buried or replayed, a record never gets a second database row. *)
THEOREM RecordedOnceHolds == Spec => []RecordedOnce
<1>1. IInv => RecordedOnce
  BY DEF IInv, RowsMatchLedger, RecordedOnce
<1> QED BY Inductive, <1>1, PTL

(* No request, waiting or late, ever offers the backend other content under a used batch ID. *)
THEOREM NoConflictHolds == Spec => []NoConflict
<1>1. IInv => NoConflict
  BY KeptNoConflict DEF IInv, HeldKept, NoConflict
<1> QED BY Inductive, <1>1, PTL

(* Every step keeps every batch that was ever stored, in a stream or in the ledger. *)
THEOREM KeptForeverHolds == Spec => KeptForever
<1>1. IInv /\ [Next]_vars => [Kept \subseteq Kept']_vars
  BY InvStep
<1> QED BY Inductive, <1>1, PTL DEF Spec, KeptForever

(* The consumer clears a record from its buffers only once a stream holds it. *)
THEOREM FlushedBeforeClearedHolds == Spec => FlushedBeforeCleared
<1> DEFINE A == \A r \in buffer \ buffer' : proc' = "down" \/ \E p \in Kept' : r \in p.recs
<1>1. IInv /\ [Next]_vars => [A]_vars
  <2> SUFFICES ASSUME IInv, Next, buffer' # buffer PROVE A
    BY DEF vars
  <2>1. CASE StoreBatch
    <3>1. NewEntry.load \in Kept'
      BY <2>1, PersistKept DEF StoreBatch, backend, IInv, TypeInv
    <3> QED BY <3>1 DEF NewEntry
  <2>2. CASE ForgetProcess
    BY <2>2 DEF ForgetProcess
  <2>3. CASE \E r \in Records : Receive(r)
    BY <2>3 DEF Receive
  <2> QED
    BY <2>1, <2>2, <2>3
       DEF Next, ProcessStep, DeliveryStep, Start, RecoverNext, RecoverDone, Exit, Crash, BeginFlush, ScheduleBatch,
           ConsumerEnds, ClosePools, StoreBatchFails, ScheduleCancelled, StopConsumer, TakeJob, Bury,
           PostAnswered, PostRefused, PostFailed, Acknowledge, SettleFails, TakeDeadLetter, ReplayStops,
           LateRequest, process
<1> QED BY Inductive, <1>1, PTL DEF Spec, FlushedBeforeCleared

-----------------------------------------------------------------------------
(* The delivery path implements DurableRecords.                            *)

\* The records of the kept payloads.
KeptRecs == UNION {p.recs : p \in Kept}

\* A record's stage, by what is kept: a kept batch that is not registered is in a stream.
StageByKept ==
    StageOfRecords = [r \in Records |-> IF rows[r] > 0 THEN "recorded"
                                        ELSE IF r \in KeptRecs THEN "stored"
                                        ELSE IF r \in buffer THEN "buffered"
                                        ELSE IF r \in arrived THEN "lost"
                                        ELSE "unseen"]

LEMMA StageIsByKept == IInv => StageByKept
<1> SUFFICES ASSUME IInv, NEW r \in Records, ~(rows[r] > 0)
             PROVE  (\E e \in pending \cup dead : r \in e.load.recs) <=> r \in KeptRecs
  BY DEF StageByKept, StageOfRecords, Stage
<1>1. ASSUME NEW e \in pending \cup dead, r \in e.load.recs PROVE r \in KeptRecs
  <2>1. e.load \in Kept
    BY DEF Kept, IInv, TypeOK, Entry
  <2> QED BY <1>1, <2>1 DEF KeptRecs
<1>2. ASSUME r \in KeptRecs PROVE \E e \in pending \cup dead : r \in e.load.recs
  <2>1. PICK p \in Kept : r \in p.recs
    BY <1>2 DEF KeptRecs
  <2>2. p.batch \in BatchIds
    BY KeptIsPayload DEF Payload
  <2>3. ledger[p.batch] # p.recs
    BY <2>1, <2>2 DEF IInv, RowsMatchLedger
  <2> QED BY <2>1, <2>3 DEF Kept
<1> QED BY <1>1, <1>2

LEMMA StageIsByKeptNext == IInv' => StageByKept'
  BY StageIsByKept, PTL

\* A step that moves no record.
LEMMA NoRecordMoves ==
  ASSUME StageByKept, StageByKept', Kept' = Kept, UNCHANGED <<rows, buffer, arrived>>
  PROVE  UNCHANGED <<StageOfRecords, rows>>
  BY DEF StageByKept, KeptRecs

\* A received record is accepted.
LEMMA ReceiveAccepts ==
  ASSUME IInv, StageByKept, StageByKept', Kept' = Kept, NEW r \in Records, Receive(r)
  PROVE  DR!Accept({r})
<1>1. r \notin KeptRecs
  BY DEF Receive, IInv, KeptArrived, KeptRecs
<1>2. rows[r] = 0
  <2> SUFFICES ASSUME NEW b \in BatchIds, r \in ledger[b] PROVE FALSE
    BY DEF IInv, RowsMatchLedger
  <2>1. [batch |-> b, recs |-> ledger[b]] \in Kept
    BY RegisteredKept DEF IInv
  <2> QED BY <1>1, <2>1 DEF KeptRecs
<1>3. /\ arrived' = arrived \cup {r} /\ buffer' = buffer \cup {r} /\ rows' = rows
      /\ r \notin arrived /\ r \notin buffer /\ KeptRecs' = KeptRecs
  BY DEF Receive, backend, IInv, BufferFresh, KeptRecs
<1>4. StageOfRecords' = [q \in Records |-> IF q \in {r} THEN "buffered" ELSE StageOfRecords[q]]
  BY <1>1, <1>2, <1>3 DEF StageByKept
<1>5. StageOfRecords[r] = "unseen"
  BY <1>1, <1>2, <1>3 DEF StageByKept
<1> QED BY <1>3, <1>4, <1>5 DEF DR!Accept, DR!Advance

\* The records only the listener's memory holds.
BufferedOnly == {r \in Records : StageOfRecords[r] = "buffered"}

\* A batch written to the pending stream stores what was buffered, if a failed flush has not already.
LEMMA PersistStores ==
  ASSUME IInv, StageByKept, StageByKept', (StoreBatch \/ StoreBatchFails) /\ Persist
  PROVE  DR!Store(BufferedOnly) \/ UNCHANGED <<StageOfRecords, rows>>
<1>1. /\ consumer = "adding" /\ UNCHANGED <<dead, ledger, rows, arrived>>
      /\ buffer' \in {{}, buffer}
  BY DEF StoreBatch, StoreBatchFails, backend
<1>2. Kept' = Kept \cup {NewEntry.load}
  BY <1>1, PersistKept DEF IInv, TypeInv
<1>3. KeptRecs' = KeptRecs \cup buffer
  <2>1. NewEntry.load.recs = buffer
    BY DEF NewEntry
  <2>2. \A r : r \in KeptRecs' <=> r \in KeptRecs \/ r \in buffer
    BY <1>2, <2>1 DEF KeptRecs
  <2> QED BY <2>2
<1>4. StageOfRecords' = [r \in Records |-> IF r \in BufferedOnly THEN "stored" ELSE StageOfRecords[r]]
  BY <1>1, <1>3 DEF StageByKept, BufferedOnly
<1>5. CASE BufferedOnly = {}
  BY <1>1, <1>4, <1>5 DEF StageByKept
<1>6. CASE BufferedOnly # {}
  BY <1>1, <1>4, <1>6 DEF DR!Store, DR!Advance, BufferedOnly
<1> QED BY <1>5, <1>6

\* The end of the process loses what only its memory held.
LEMMA ForgetLoses ==
  ASSUME IInv, StageByKept, StageByKept', ForgetProcess
  PROVE  DR!Lose(BufferedOnly) \/ UNCHANGED <<StageOfRecords, rows>>
<1>1. buffer' = {} /\ UNCHANGED <<arrived, rows>>
  BY DEF ForgetProcess
<1>2. KeptRecs' = KeptRecs
  BY KeptUnchanged DEF ForgetProcess, streams, KeptRecs
<1>3. buffer \subseteq arrived
  BY DEF IInv, BufferFresh
<1>4. StageOfRecords' = [r \in Records |-> IF r \in BufferedOnly THEN "lost" ELSE StageOfRecords[r]]
  BY <1>1, <1>2, <1>3 DEF StageByKept, BufferedOnly
<1>5. CASE BufferedOnly = {}
  BY <1>1, <1>4, <1>5 DEF StageByKept
<1>6. CASE BufferedOnly # {}
  BY <1>1, <1>4, <1>6 DEF DR!Lose, DR!Advance, BufferedOnly
<1> QED BY <1>5, <1>6

\* A processed request records its batch, or repeats one that is recorded.
LEMMA IngestRecords ==
  ASSUME IInv, StageByKept, StageByKept', NEW p \in Kept, Ingest(p), Kept' = Kept, UNCHANGED <<buffer, arrived>>
  PROVE  DR!Record(p.recs) \/ UNCHANGED <<StageOfRecords, rows>>
<1>1. CASE ~Registers(p)
  BY <1>1, NoRecordMoves DEF Ingest
<1>2. CASE Registers(p)
  <2>1. /\ rows' = [r \in Records |-> IF r \in p.recs THEN rows[r] + 1 ELSE rows[r]]
        /\ p.recs # {} /\ p.recs \subseteq KeptRecs /\ p.recs \subseteq Records
        /\ p.batch \in BatchIds /\ ledger[p.batch] = {}
        /\ rows \in [Records -> Nat] /\ KeptRecs' = KeptRecs
    BY <1>2, KeptIsPayload DEF Ingest, Registers, IInv, TypeOK, KeptArrived, KeptRecs, Payload
  <2>2. ASSUME NEW r \in p.recs PROVE rows[r] = 0
    <3> SUFFICES ASSUME NEW b \in BatchIds, r \in ledger[b] PROVE FALSE
      BY <2>1 DEF IInv, RowsMatchLedger
    <3> DEFINE q == [batch |-> b, recs |-> ledger[b]]
    <3>1. q \in Kept
      BY RegisteredKept DEF IInv
    <3>2. q.batch # p.batch
      BY <2>1
    <3> QED BY <3>1, <3>2 DEF IInv, KeptDisjoint
  <2>3. \A r \in p.recs : StageOfRecords[r] = "stored"
    BY <2>1, <2>2 DEF StageByKept
  <2>4. StageOfRecords' = [r \in Records |-> IF r \in p.recs THEN "recorded" ELSE StageOfRecords[r]]
    BY <2>1, <2>2 DEF StageByKept
  <2> QED BY <2>1, <2>3, <2>4 DEF DR!Record, DR!Advance
<1> QED BY <1>1, <1>2

LEMMA RecordsInit == Init => DR!Init
<1> SUFFICES ASSUME Init PROVE DR!Init
  OBVIOUS
<1>1. StageOfRecords = [r \in Records |-> "unseen"]
  BY DEF Init, StageOfRecords, Stage
<1> QED BY <1>1 DEF Init, DR!Init

LEMMA RecordsStep == IInv /\ IInv' /\ [Next]_vars => [DR!Next]_<<StageOfRecords, rows>>
<1> SUFFICES ASSUME IInv, IInv', [Next]_vars
             PROVE  DR!Next \/ UNCHANGED <<StageOfRecords, rows>>
  OBVIOUS
<1>1. StageByKept /\ StageByKept'
  BY StageIsByKept, StageIsByKeptNext
<1>2. TypeInv'
  BY DEF IInv, TypeInv
<1>3. CASE \E r \in Records : Receive(r)
  <2>1. PICK r \in Records : Receive(r)
    BY <1>3
  <2>2. DR!Accept({r})
    BY <1>1, <1>2, <2>1, ReceiveInv, ReceiveAccepts
  <2> QED BY <2>2 DEF DR!Next
<1>4. CASE (StoreBatch \/ StoreBatchFails) /\ Persist
  BY <1>1, <1>4, PersistStores DEF DR!Next, BufferedOnly
<1>5. CASE Exit \/ Crash
  BY <1>1, <1>5, ForgetLoses DEF DR!Next, BufferedOnly, Exit, Crash
<1>6. CASE \E s \in Senders : PostAnswered(s)
  <2>1. PICK p \in Kept : Ingest(p) /\ UNCHANGED <<buffer, arrived>>
    BY <1>6 DEF PostAnswered, process, IInv, HeldKept
  <2>2. p.recs \in SUBSET Records /\ Kept' = Kept
    BY <1>2, <1>6, KeptIsPayload, IngestInv DEF Payload
  <2> QED BY <1>1, <2>1, <2>2, IngestRecords DEF DR!Next
<1>7. CASE LateRequest
  <2>1. PICK p \in Kept : (Ingest(p) \/ UNCHANGED rows) /\ UNCHANGED <<buffer, arrived>>
    BY <1>7 DEF LateRequest, process, IInv, HeldKept
  <2>2. p.recs \in SUBSET Records /\ Kept' = Kept
    BY <1>2, <1>7, KeptIsPayload, IngestInv DEF Payload
  <2> QED BY <1>1, <2>1, <2>2, IngestRecords, NoRecordMoves DEF DR!Next
<1>8. CASE UNCHANGED <<pending, dead, ledger, rows, buffer, arrived>>
  BY <1>1, <1>8, KeptUnchanged, NoRecordMoves
<1>9. CASE \/ \E s \in Senders : Acknowledge(s)
           \/ \E w \in Workers : Bury(w)
  <2>1. Kept' = Kept
    BY <1>2, <1>9, SettleInv, SendersFacts
  <2>2. UNCHANGED <<rows, buffer, arrived>>
    BY <1>9 DEF Acknowledge, Bury, process, backend
  <2> QED BY <1>1, <2>1, <2>2, NoRecordMoves
<1>10. CASE \/ Start \/ RecoverNext \/ RecoverDone \/ StopConsumer \/ ConsumerEnds \/ ClosePools
            \/ BeginFlush \/ (StoreBatchFails /\ ~Persist) \/ ScheduleBatch \/ ScheduleCancelled
            \/ TakeDeadLetter \/ ReplayStops \/ UNCHANGED vars
            \/ \E w \in Workers : TakeJob(w)
            \/ \E s \in Senders : PostRefused(s) \/ PostFailed(s) \/ SettleFails(s)
  <2>1. UNCHANGED <<pending, dead, ledger, rows, buffer, arrived>>
    BY <1>10
       DEF Start, RecoverNext, RecoverDone, StopConsumer, ConsumerEnds, ClosePools, BeginFlush, StoreBatchFails,
           ScheduleBatch, ScheduleCancelled, TakeDeadLetter, ReplayStops, vars, TakeJob, PostRefused, PostFailed,
           SettleFails, process, sending, streams, backend
  <2> QED BY <1>8, <2>1
<1> QED
  BY <1>3, <1>4, <1>5, <1>6, <1>7, <1>9, <1>10 DEF Next, ProcessStep, DeliveryStep, StoreBatch

(* Whatever is sent, retried, replayed or late: the types, the rows and the batch IDs are sound. *)
THEOREM LedgerSoundHolds == Spec => []LedgerSound
  BY TypeCorrect, RecordedOnceHolds, NoConflictHolds, PTL DEF LedgerSound

(* No step drops a batch or clears a buffer of records that are not kept elsewhere. *)
THEOREM NothingDroppedHolds == Spec => NothingDropped
  BY KeptForeverHolds, FlushedBeforeClearedHolds DEF NothingDropped

(* With Redis up, the consumer ends with empty buffers, and the pools close only after it: every way out of a
   flush goes back to the finally block, which flushes, or has cleared the buffers before. *)
ShutdownInv ==
    /\ proc = "closing" => consumer = "ended"
    /\ consumer = "scheduling" => buffer = {}
    /\ ~RedisMayFail /\ consumer = "ended" => buffer = {}

LEMMA ShutdownStep == ShutdownInv /\ [Next]_vars => ShutdownInv'
<1> SUFFICES ASSUME ShutdownInv, [Next]_vars PROVE ShutdownInv'
  OBVIOUS
<1>1. CASE Start \/ RecoverNext \/ RecoverDone
  BY <1>1 DEF ShutdownInv, Start, RecoverNext, RecoverDone
<1>2. CASE Crash \/ Exit
  BY <1>2 DEF ShutdownInv, Crash, Exit, ForgetProcess
<1>3. CASE \E r \in Records : Receive(r)
  BY <1>3 DEF ShutdownInv, Receive
<1>4. CASE BeginFlush \/ StoreBatch
  BY <1>4 DEF ShutdownInv, BeginFlush, StoreBatch
<1>5. CASE StoreBatchFails \/ ScheduleCancelled
  BY <1>5 DEF ShutdownInv, StoreBatchFails, ScheduleCancelled, UnwindConsumer
<1>6. CASE ScheduleBatch
  BY <1>6 DEF ShutdownInv, ScheduleBatch
<1>7. CASE StopConsumer \/ ConsumerEnds \/ ClosePools
  BY <1>7 DEF ShutdownInv, StopConsumer, ConsumerEnds, ClosePools
<1>8. CASE \/ \E w \in Workers : TakeJob(w) \/ Bury(w)
           \/ \E s \in Senders : DeliveryStep(s) \/ SettleFails(s)
           \/ TakeDeadLetter \/ ReplayStops \/ LateRequest \/ UNCHANGED vars
  <2>1. UNCHANGED <<proc, consumer, buffer>>
    BY <1>8
       DEF TakeJob, Bury, DeliveryStep, PostAnswered, PostRefused, PostFailed, Acknowledge, SettleFails,
           TakeDeadLetter, ReplayStops, LateRequest, vars, process
  <2> QED BY <2>1 DEF ShutdownInv
<1> QED
  BY <1>1, <1>2, <1>3, <1>4, <1>5, <1>6, <1>7, <1>8 DEF Next, ProcessStep

LEMMA EndsFlushed ==
  ShutdownInv /\ [Next]_vars =>
    (consumer # "ended" /\ consumer' = "ended" => buffer' = {} \/ (proc = "draining" /\ consumer = "adding"))
<1> SUFFICES ASSUME ShutdownInv, [Next]_vars, consumer # "ended", consumer' = "ended"
             PROVE  buffer' = {} \/ (proc = "draining" /\ consumer = "adding")
  OBVIOUS
<1>1. CASE Crash \/ Exit
  BY <1>1 DEF Crash, Exit, ForgetProcess
<1>2. CASE StoreBatchFails \/ ScheduleCancelled
  BY <1>2 DEF ShutdownInv, StoreBatchFails, ScheduleCancelled, UnwindConsumer
<1>3. CASE ScheduleBatch \/ ConsumerEnds
  BY <1>3 DEF ShutdownInv, ScheduleBatch, ConsumerEnds
<1>4. CASE Start \/ BeginFlush \/ StoreBatch
  BY <1>4 DEF Start, BeginFlush, StoreBatch
<1>5. CASE \/ RecoverNext \/ RecoverDone \/ StopConsumer \/ ClosePools \/ \E r \in Records : Receive(r)
           \/ \E w \in Workers : TakeJob(w) \/ Bury(w)
           \/ \E s \in Senders : DeliveryStep(s) \/ SettleFails(s)
           \/ TakeDeadLetter \/ ReplayStops \/ LateRequest \/ UNCHANGED vars
  <2>1. UNCHANGED consumer
    BY <1>5
       DEF RecoverNext, RecoverDone, StopConsumer, ClosePools, Receive, TakeJob, Bury, DeliveryStep, PostAnswered,
           PostRefused, PostFailed, Acknowledge, SettleFails, TakeDeadLetter, ReplayStops, LateRequest, vars, process
  <2> QED BY <2>1
<1> QED
  BY <1>1, <1>2, <1>3, <1>4, <1>5 DEF Next, ProcessStep

(* However the consumer of main.py is stopped, its finally block flushes what is buffered. *)
THEOREM CleanShutdownHolds == Spec => CleanShutdown
<1>1. Init => ShutdownInv
  BY DEF Init, ShutdownInv
<1> QED BY <1>1, ShutdownStep, EndsFlushed, PTL DEF Spec, CleanShutdown

(* A shutdown with Redis up leaves nothing in the buffers when the pools start to close. *)
THEOREM EmptyAtCloseHolds == Spec => []EmptyAtClose
<1>1. Init => ShutdownInv
  BY DEF Init, ShutdownInv
<1>2. ShutdownInv => EmptyAtClose
  BY DEF ShutdownInv, EmptyAtClose
<1> QED BY <1>1, <1>2, ShutdownStep, PTL DEF Spec

(* The listener and the backend together keep DurableRecords' promise: a record leaves the
   listener's memory for the stream or is lost with the process, and leaves the stream only
   for its one database row. *)
THEOREM ImplementsDurableRecords == Spec => DurableRecordsSpec
<1>1. Spec => []IInv
  BY Inductive
<1> QED BY <1>1, RecordsInit, RecordsStep, PTL DEF Spec, DurableRecordsSpec, DR!Spec

-----------------------------------------------------------------------------
(* The migration of the streams: its inductive invariant.                  *)

Adopting == {"look", "rename", "read", "move", "delete"}
Taking == {"take", "take last"}
PastScan == {"windows", "visit", "drop", "done"}

ActorStates ==
    [pc : {"down", "scan"} \cup Adopting \cup Taking \cup PastScan, pair : 1..3, page : SUBSET Migration!Entries,
     cursor : Nat, todo : SUBSET Items, item : SUBSET Items, handed : SUBSET Migration!Entries]

OldS(k) == Migration!Old(k)
NewS(k) == Migration!New(k)
KindAt(r) == Migration!Kinds[r.pair]

MigrationTypes ==
    /\ at \in [Actors -> ActorStates]
    /\ legacy \subseteq Items /\ prices \subseteq Items
    /\ windows \in [Items -> {"none", "newer", "kept", "fresh"}]

StreamTypes(s, x, n, d, w) ==
    /\ s \in [Migration!Streams -> SUBSET Migration!Entries] /\ x \subseteq Migration!Streams /\ n \in Nat
    /\ d \subseteq Loads /\ w \in [Migration!Kind -> SUBSET Loads]

EachStream(s, x, n) ==
    \A m \in Migration!Streams :
        /\ IsFiniteSet(s[m])
        /\ m \notin x => s[m] = {}
        /\ \A e \in s[m] : e.id <= n
        /\ \A e, f \in s[m] : e.id = f.id => e = f

\* Streams s, those that are there x, the newest ID n, and what was written w: IDs are not used again, and an old stream only
\* loses entries.
StreamsSound(s, x, n, w) ==
    /\ EachStream(s, x, n)
    /\ \A k \in Migration!Kind :
        /\ \A e, f \in s[OldS(k)] : e.load = f.load => e = f
        /\ \A e \in s[OldS(k)] : e.load \in w[k]
        /\ \A e \in s[NewS(k)] : e.load \in w[k] \/ k = "malformed"
    /\ \A j, k \in Migration!Kind : j # k => w[j] \cap w[k] = {}

\* Nothing written is lost, d settled.
NothingLost(s, d, w) ==
    \A k \in Migration!Kind : \A load \in w[k] :
        \/ load \in d
        \/ \E e \in s[OldS(k)] \cup s[NewS(k)] : e.load = load
        \/ Form(load) = "broken" /\ \E e \in s[NewS("malformed")] : e.load = load

StreamsInv(s, x, n, d, w) == StreamTypes(s, x, n, d, w) /\ StreamsSound(s, x, n, w) /\ NothingLost(s, d, w)

\* What an actor has read is still as it read it, or gone, and it passes nothing over.
ActorSound(a, r, s, x, n, d, w) ==
    /\ r.page # {} <=> r.pc \in {"move"} \cup Taking
    /\ r.cursor <= n /\ \A e \in r.page \cup r.handed : e.id <= n
    /\ a \notin Adopts => r.pc \in {"down"} \cup PastScan /\ r.handed = {}
    /\ r.pc = "down" => r.pair = 1 /\ r.cursor = 0 /\ r.handed = {}
    /\ r.pc \in Adopting =>
        /\ r.cursor = 0
        /\ \A j \in 1..3 : j < r.pair => s[OldS(Migration!Kinds[j])] = {}
        /\ r.pc = "delete" => s[OldS(KindAt(r))] = {}
        /\ r.pc \in {"read", "move", "delete"} => NewS(KindAt(r)) \in x
    /\ r.pc = "move" =>
        /\ \A e \in r.page : /\ e.load \in w[KindAt(r)]
                             /\ \A f \in s[OldS(KindAt(r))] : e.id = f.id \/ e.load = f.load => e = f
        /\ \A e, f \in r.page : e.load = f.load => e = f
    /\ r.pc \in Taking \/ r.handed # {} => NewS(Reads(a)) \in x
    /\ r.pc \in Taking => \A e \in r.page : e.load \in w[Reads(a)] /\ \A f \in s[NewS(Reads(a))] : e.id = f.id => e = f
    /\ \A e \in r.handed : e.load \in w[Reads(a)] /\ \A f \in s[NewS(Reads(a))] : e.id = f.id => e = f
    /\ a \in Adopts /\ r.pc \in {"scan"} \cup Taking \cup PastScan =>
        \A load \in w[Reads(a)] : Migration!Deserializes(load) =>
            \/ load \in d
            \/ \E e \in r.handed : e.load = load
            \/ r.pc \in Taking /\ \E e \in r.page : e.load = load
            \/ r.pc \in {"scan", "take"} /\ \E e \in s[NewS(Reads(a))] : e.load = load /\ e.id > r.cursor

\* The copies of a payload, and who still holds one to be copied
Copies(s, k, load) == {e \in s[NewS(k)] : e.load = load}
Movers(p, k, load) == {a \in Adopts : p[a].pc = "move" /\ KindAt(p[a]) = k /\ \E e \in p[a].page : e.load = load}

CopySound(s, p, k, load) ==
    /\ (\E e \in s[OldS(k)] : e.load = load) => Copies(s, k, load) = {}
    /\ Cardinality(Copies(s, k, load)) + Cardinality(Movers(p, k, load)) <= Cardinality(Adopts)

CopiesSound(s, p, w) == \A k \in Migration!Kind : \A load \in w[k] : CopySound(s, p, k, load)

WindowsSound ==
    /\ \A i \in prices : windows[i] # "fresh" /\ (i \in legacy \/ windows[i] # "none")
    /\ \A a \in Actors :
        /\ at[a].pc = "visit" => legacy \subseteq at[a].todo
        /\ at[a].pc = "drop" => legacy \subseteq at[a].todo \cup at[a].item /\ \A i \in at[a].item : windows[i] # "none"
        /\ a \in Windowed /\ at[a].pc = "done" => legacy = {}

MigrationInv ==
    /\ MigrationTypes
    /\ StreamsInv(redis, exists, newestId, settled, written)
    /\ \A a \in Actors : ActorSound(a, at[a], redis, exists, newestId, settled, written)
    /\ CopiesSound(redis, at, written) /\ WindowsSound

-----------------------------------------------------------------------------
(* Facts about the constants, the streams and their pages.                 *)

LEMMA MigrationConstants ==
    /\ Adopts \subseteq Actors /\ IsFiniteSet(Adopts) /\ Adopts # {} /\ Windowed \subseteq Actors
    /\ Cardinality(Adopts) \in Nat /\ 1 <= Cardinality(Adopts)
    /\ \A a \in Adopts : Reads(a) \in {"pending", "dead"}
    /\ \A load \in Loads : Form(load) \in {"venue", "source", "broken"}
    /\ MovePage \in Nat \ {0} /\ ScanPage \in Nat \ {0}
    /\ \A b \in Before : Migration!BeforeSound(b)
<1>1. /\ Adopts \subseteq Actors /\ IsFiniteSet(Adopts) /\ Adopts # {} /\ Windowed \subseteq Actors
      /\ \A a \in Adopts : Reads(a) \in {"pending", "dead"}
      /\ \A load \in Loads : Form(load) \in {"venue", "source", "broken"}
      /\ MovePage \in Nat \ {0} /\ ScanPage \in Nat \ {0}
      /\ \A b \in Before : Migration!BeforeSound(b)
    BY DeliveryAssumption DEF Migration!MigrationAssumption, Migration!IsFiniteSet, IsFiniteSet
<1>2. Cardinality(Adopts) \in Nat /\ Cardinality(Adopts) # 0
    BY <1>1, FS_CardinalityType, FS_EmptySet
<1> QED
    BY <1>1, <1>2

LEMMA MigrationCounts ==
    \A S : Migration!Cardinality(S) = Cardinality(S) /\ (Migration!IsFiniteSet(S) <=> IsFiniteSet(S))
BY DEF Migration!Cardinality, Cardinality, Migration!IsFiniteSet, IsFiniteSet

\* The streams have names of their own, and the pairs are of the three kinds.
LEMMA StreamNames ==
    /\ \A k \in Migration!Kind : OldS(k) \in Migration!Streams /\ NewS(k) \in Migration!Streams
    /\ \A j, k \in Migration!Kind :
        OldS(j) # NewS(k) /\ (OldS(j) = OldS(k) => j = k) /\ (NewS(j) = NewS(k) => j = k)
    /\ \A m \in Migration!Streams : \E k \in Migration!Kind : m = OldS(k) \/ m = NewS(k)
BY DEF OldS, NewS, Migration!Old, Migration!New, Migration!Streams, Migration!Kind

LEMMA KindsListed ==
    /\ Len(Migration!Kinds) = 3
    /\ \A i \in 1..3 : Migration!Kinds[i] \in Migration!Kind
    /\ \A i, j \in 1..3 : Migration!Kinds[i] = Migration!Kinds[j] => i = j
    /\ "pending" = Migration!Kinds[1] /\ "dead" = Migration!Kinds[2]
    /\ "pending" \in Migration!Kind /\ "dead" \in Migration!Kind /\ "malformed" \in Migration!Kind
BY DEF Migration!Kinds, Migration!Kind

LEMMA LeastOf ==
    ASSUME NEW S, S \subseteq Nat, S # {}
    PROVE  \E n \in S : \A m \in S : n <= m
<1> DEFINE R == OpToRel(<, Nat)
<1>1. \A x, y \in Nat : x < y => <<x, y>> \in R
    BY DEF OpToRel
<1>2. IsWellFoundedOn(R, Nat)
    BY NatLessThanWellFounded
<1> HIDE DEF R
<1>3. PICK x \in S : \A y \in S : ~(<<y, x>> \in R)
    BY <1>2, WFMin
<1>4. ASSUME NEW m \in S
      PROVE  x <= m
  <2>1. m \in Nat /\ x \in Nat
    OBVIOUS
  <2>2. ~(m < x)
    BY <1>1, <1>3, <2>1
  <2> QED
    BY <2>1, <2>2
<1> QED
    BY <1>4

\* Entries have an oldest one, and finitely many or bounded ones a newest one.
LEMMA OldestOf ==
    ASSUME NEW S, S \subseteq Migration!Entries, S # {}
    PROVE  Migration!Oldest(S) \in S /\ \A e \in S : Migration!Oldest(S).id <= e.id
<1> DEFINE ids == {e.id : e \in S}
<1>1. ids \subseteq Nat /\ ids # {}
    BY DEF Migration!Entries
<1>2. PICK n \in ids : \A m \in ids : n <= m
  <2> HIDE DEF ids
  <2> QED
    BY <1>1, LeastOf
<1>3. \E e \in S : \A f \in S : e.id <= f.id
    BY <1>2
<1> QED
    BY <1>3 DEF Migration!Oldest

LEMMA NewestOf ==
    ASSUME NEW S, S \subseteq Migration!Entries, S # {}, NEW n \in Nat, \A e \in S : e.id <= n
    PROVE  Migration!Newest(S) \in S /\ \A e \in S : e.id <= Migration!Newest(S).id
<1> DEFINE R == {n - e.id : e \in S}
<1>0. \A e \in S : e.id \in Nat
    BY DEF Migration!Entries
<1>1. PICK k \in R : \A r \in R : k <= r
  <2>1. R \subseteq Nat /\ R # {}
    <3>1. \A e \in S : n - e.id \in Nat
        BY <1>0
    <3> QED
        BY <3>1
  <2> HIDE DEF R
  <2> QED
    BY <2>1, LeastOf
<1>2. PICK x \in S : k = n - x.id
    OBVIOUS
<1>3. \A e \in S : e.id <= x.id
  <2> SUFFICES ASSUME NEW e \in S
               PROVE  e.id <= x.id
    OBVIOUS
  <2>1. k <= n - e.id
    BY <1>1
  <2> QED
    BY <1>0, <1>2, <2>1
<1> HIDE DEF R
<1> QED
    BY <1>3 DEF Migration!Newest

\* A page: with an entry comes every older one, and one that is not full is all there is.
LEMMA FirstPage ==
    ASSUME NEW S, S \subseteq Migration!Entries, IsFiniteSet(S), NEW c \in Nat \ {0},
           \A e, f \in S : e.id = f.id => e = f
    PROVE  /\ Migration!FirstOf(S, c) \subseteq S
           /\ S # {} => Migration!FirstOf(S, c) # {}
           /\ \A e \in Migration!FirstOf(S, c), f \in S : f.id <= e.id => f \in Migration!FirstOf(S, c)
           /\ Migration!Cardinality(S) < c => Migration!FirstOf(S, c) = S
<1> DEFINE Upto(e) == {x \in S : x.id <= e.id}
           P == {e \in S : Cardinality(Upto(e)) <= c}
<1>0. \A e \in S : e.id \in Nat
    BY DEF Migration!Entries
<1>1. Migration!FirstOf(S, c) = P
    BY MigrationCounts DEF Migration!FirstOf
<1>2. \A e : IsFiniteSet(Upto(e)) /\ Cardinality(Upto(e)) \in Nat /\ Cardinality(Upto(e)) <= Cardinality(S)
  <2> SUFFICES ASSUME NEW e
               PROVE  IsFiniteSet(Upto(e)) /\ Cardinality(Upto(e)) \in Nat /\ Cardinality(Upto(e)) <= Cardinality(S)
    OBVIOUS
  <2>1. Upto(e) \in SUBSET S
    OBVIOUS
  <2> HIDE DEF Upto
  <2>2. IsFiniteSet(Upto(e)) /\ Cardinality(Upto(e)) <= Cardinality(S)
    BY <2>1, FS_Subset
  <2> QED
    BY <2>2, FS_CardinalityType
<1>3. ASSUME NEW e \in P, NEW f \in S, f.id <= e.id
      PROVE  f \in P
  <2>1. Upto(f) \in SUBSET Upto(e)
    BY <1>0, <1>3
  <2>2. Cardinality(Upto(f)) <= Cardinality(Upto(e)) /\ Cardinality(Upto(e)) <= c
    <3>1. Cardinality(Upto(e)) <= c
        OBVIOUS
    <3> HIDE DEF Upto
    <3> QED
        BY <3>1, <2>1, <1>2, FS_Subset
  <2>3. Cardinality(Upto(f)) <= c
    <3> HIDE DEF Upto
    <3>1. Cardinality(Upto(f)) \in Nat /\ Cardinality(Upto(e)) \in Nat
        BY <1>2
    <3> QED
        BY <3>1, <2>2
  <2> QED
    BY <2>3
<1>4. S # {} => P # {}
  <2> SUFFICES ASSUME S # {}
               PROVE  P # {}
    OBVIOUS
  <2> DEFINE e == Migration!Oldest(S)
  <2>1. e \in S /\ \A f \in S : e.id <= f.id
    BY OldestOf
  <2> HIDE DEF e
  <2>2. Upto(e) = {e}
    BY <1>0, <2>1
  <2>3. Cardinality(Upto(e)) <= c
    <3> HIDE DEF Upto
    <3>1. Cardinality(Upto(e)) = 1
        BY <2>2, FS_Singleton
    <3> QED
        BY <3>1
  <2> QED
    BY <2>1, <2>3
<1>5. Cardinality(S) < c => P = S
  <2> SUFFICES ASSUME Cardinality(S) < c
               PROVE  \A e \in S : Cardinality(Upto(e)) <= c
    OBVIOUS
  <2>1. Cardinality(S) \in Nat
    BY FS_CardinalityType
  <2> HIDE DEF Upto
  <2> QED
    BY <1>2, <2>1
<1>6. P \subseteq S
    OBVIOUS
<1> HIDE DEF P
<1>7. Migration!Cardinality(S) < c => P = S
    BY <1>5, MigrationCounts
<1> QED
    BY <1>1, <1>3, <1>4, <1>6, <1>7

\* What may happen to the streams behind the back of an actor.
StreamsKept(s, x, n, d, s2, x2, n2, d2) ==
    /\ n2 \in Nat /\ n <= n2 /\ d \subseteq d2
    /\ \A k \in Migration!Kind :
        /\ NewS(k) \in x => NewS(k) \in x2
        /\ s2[OldS(k)] \subseteq s[OldS(k)]
        /\ \A f \in s2[NewS(k)] : f \in s[NewS(k)] \/ f.id > n \/ NewS(k) \notin x
    /\ \A k \in {"pending", "dead"} : \A e \in s[NewS(k)] :
        e \in s2[NewS(k)] \/ e.load \in d2 \/ ~Migration!Deserializes(e.load)

LEMMA StateFields ==
    ASSUME NEW r \in ActorStates
    PROVE  /\ r.pc \in {"down", "scan"} \cup Adopting \cup Taking \cup PastScan
           /\ r.pair \in 1..3 /\ r.cursor \in Nat /\ KindAt(r) \in Migration!Kind
           /\ r.page \subseteq Migration!Entries /\ r.handed \subseteq Migration!Entries
           /\ r.todo \subseteq Items /\ r.item \subseteq Items
BY KindsListed DEF ActorStates, KindAt

LEMMA EntryFields == \A e \in Migration!Entries : e.id \in Nat \ {0} /\ e.load \in Loads
BY DEF Migration!Entries

LEMMA PartNames ==
    /\ \A p \in Taking : p \notin Adopting /\ p \notin PastScan /\ p # "move" /\ p # "down" /\ p # "scan"
    /\ \A p \in PastScan : p \notin Adopting /\ p # "move" /\ p # "down" /\ p # "scan"
    /\ \A p \in Adopting : p # "down" /\ p # "scan"
    /\ "move" \in Adopting /\ "look" \in Adopting /\ "rename" \in Adopting /\ "read" \in Adopting /\ "delete" \in Adopting
    /\ "take" \in Taking /\ "take last" \in Taking
    /\ "windows" \in PastScan /\ "visit" \in PastScan /\ "drop" \in PastScan /\ "done" \in PastScan
BY DEF Taking, Adopting, PastScan

LEMMA ActorKept ==
    ASSUME NEW a \in Actors, NEW r \in ActorStates, NEW s, NEW x, NEW n \in Nat, NEW d,
           NEW w \in [Migration!Kind -> SUBSET Loads],
           NEW s2, NEW x2, NEW n2, NEW d2,
           ActorSound(a, r, s, x, n, d, w), StreamsKept(s, x, n, d, s2, x2, n2, d2)
    PROVE  ActorSound(a, r, s2, x2, n2, d2, w)
<1>0. /\ n2 \in Nat /\ n <= n2 /\ d \subseteq d2
      /\ \A k \in Migration!Kind : NewS(k) \in x => NewS(k) \in x2
      /\ \A k \in Migration!Kind : s2[OldS(k)] \subseteq s[OldS(k)]
      /\ \A k \in Migration!Kind : \A f \in s2[NewS(k)] : f \in s[NewS(k)] \/ f.id > n \/ NewS(k) \notin x
      /\ \A k \in {"pending", "dead"} : \A e \in s[NewS(k)] :
             e \in s2[NewS(k)] \/ e.load \in d2 \/ ~Migration!Deserializes(e.load)
    BY DEF StreamsKept
<1>1. /\ r.cursor \in Nat /\ \A e \in r.page \cup r.handed : e.id \in Nat /\ e.load \in Loads
      /\ KindAt(r) \in Migration!Kind
    BY StateFields, EntryFields
<1>2. r.page # {} <=> r.pc \in {"move"} \cup Taking
    BY DEF ActorSound
<1>3. r.cursor <= n2 /\ \A e \in r.page \cup r.handed : e.id <= n2
  <2>1. r.cursor <= n /\ \A e \in r.page \cup r.handed : e.id <= n
    BY DEF ActorSound
  <2>2. \A i \in Nat : i <= n => i <= n2
    BY <1>0
  <2> QED
    BY <1>1, <2>1, <2>2
<1>4. /\ a \notin Adopts => r.pc \in {"down"} \cup PastScan /\ r.handed = {}
      /\ r.pc = "down" => r.pair = 1 /\ r.cursor = 0 /\ r.handed = {}
    BY DEF ActorSound
<1>5. a \in Adopts => Reads(a) \in Migration!Kind /\ Reads(a) \in {"pending", "dead"}
    BY MigrationConstants, KindsListed
<1>6. r.pc \in Adopting \cup {"scan"} \cup Taking \/ r.handed # {} => a \in Adopts
    BY <1>4, PartNames
<1>7. ASSUME r.pc \in Adopting
      PROVE  /\ r.cursor = 0
             /\ \A j \in 1..3 : j < r.pair => s2[OldS(Migration!Kinds[j])] = {}
             /\ r.pc = "delete" => s2[OldS(KindAt(r))] = {}
             /\ r.pc \in {"read", "move", "delete"} => NewS(KindAt(r)) \in x2
  <2>1. /\ r.cursor = 0
        /\ \A j \in 1..3 : j < r.pair => s[OldS(Migration!Kinds[j])] = {}
        /\ r.pc = "delete" => s[OldS(KindAt(r))] = {}
        /\ r.pc \in {"read", "move", "delete"} => NewS(KindAt(r)) \in x
    BY <1>7 DEF ActorSound
  <2>2. \A j \in 1..3 : Migration!Kinds[j] \in Migration!Kind
    BY KindsListed
  <2>3. \A k \in Migration!Kind : s[OldS(k)] = {} => s2[OldS(k)] = {}
    BY <1>0
  <2> QED
    BY <1>0, <1>1, <2>1, <2>2, <2>3
<1>8. ASSUME r.pc = "move"
      PROVE  /\ \A e \in r.page : /\ e.load \in w[KindAt(r)]
                                  /\ \A f \in s2[OldS(KindAt(r))] : e.id = f.id \/ e.load = f.load => e = f
             /\ \A e, f \in r.page : e.load = f.load => e = f
  <2>1. /\ \A e \in r.page : /\ e.load \in w[KindAt(r)]
                             /\ \A f \in s[OldS(KindAt(r))] : e.id = f.id \/ e.load = f.load => e = f
        /\ \A e, f \in r.page : e.load = f.load => e = f
    BY <1>8 DEF ActorSound
  <2>2. s2[OldS(KindAt(r))] \subseteq s[OldS(KindAt(r))]
    BY <1>0, <1>1
  <2> QED
    BY <2>1, <2>2
<1>9. r.pc \in Taking \/ r.handed # {} => NewS(Reads(a)) \in x /\ NewS(Reads(a)) \in x2
  <2>1. r.pc \in Taking \/ r.handed # {} => NewS(Reads(a)) \in x
    BY DEF ActorSound
  <2> QED
    BY <2>1, <1>0, <1>5, <1>6
<1>10. ASSUME NewS(Reads(a)) \in x, a \in Adopts,
              NEW e \in r.page \cup r.handed, \A f \in s[NewS(Reads(a))] : e.id = f.id => e = f
       PROVE  \A f \in s2[NewS(Reads(a))] : e.id = f.id => e = f
  <2> SUFFICES ASSUME NEW f \in s2[NewS(Reads(a))], e.id = f.id
               PROVE  e = f
    OBVIOUS
  <2>1. f \in s[NewS(Reads(a))] \/ f.id > n
    BY <1>0, <1>5, <1>10
  <2>2. e.id \in Nat /\ e.id <= n
    BY <1>1, <1>10 DEF ActorSound
  <2>3. ~(f.id > n)
    BY <2>2
  <2> QED
    BY <2>1, <2>3, <1>10
<1>11. r.pc \in Taking => \A e \in r.page : e.load \in w[Reads(a)] /\ \A f \in s2[NewS(Reads(a))] : e.id = f.id => e = f
  <2> SUFFICES ASSUME r.pc \in Taking, NEW e \in r.page
               PROVE  e.load \in w[Reads(a)] /\ \A f \in s2[NewS(Reads(a))] : e.id = f.id => e = f
    OBVIOUS
  <2>1. e.load \in w[Reads(a)] /\ \A f \in s[NewS(Reads(a))] : e.id = f.id => e = f
    BY DEF ActorSound
  <2> QED
    BY <2>1, <1>6, <1>9, <1>10
<1>12. \A e \in r.handed : e.load \in w[Reads(a)] /\ \A f \in s2[NewS(Reads(a))] : e.id = f.id => e = f
  <2> SUFFICES ASSUME NEW e \in r.handed
               PROVE  e.load \in w[Reads(a)] /\ \A f \in s2[NewS(Reads(a))] : e.id = f.id => e = f
    OBVIOUS
  <2>1. e.load \in w[Reads(a)] /\ \A f \in s[NewS(Reads(a))] : e.id = f.id => e = f
    BY DEF ActorSound
  <2> QED
    BY <2>1, <1>6, <1>9, <1>10
<1>13. ASSUME a \in Adopts, r.pc \in {"scan"} \cup Taking \cup PastScan,
              NEW load \in w[Reads(a)], Migration!Deserializes(load)
       PROVE  \/ load \in d2
              \/ \E e \in r.handed : e.load = load
              \/ r.pc \in Taking /\ \E e \in r.page : e.load = load
              \/ r.pc \in {"scan", "take"} /\ \E e \in s2[NewS(Reads(a))] : e.load = load /\ e.id > r.cursor
  <2>1. \/ load \in d
        \/ \E e \in r.handed : e.load = load
        \/ r.pc \in Taking /\ \E e \in r.page : e.load = load
        \/ r.pc \in {"scan", "take"} /\ \E e \in s[NewS(Reads(a))] : e.load = load /\ e.id > r.cursor
    BY <1>13 DEF ActorSound
  <2>2. \A e \in s[NewS(Reads(a))] : e.load = load => e \in s2[NewS(Reads(a))] \/ e.load \in d2
    BY <1>0, <1>5, <1>13
  <2> QED
    BY <1>0, <2>1, <2>2
<1> QED
    BY <1>2, <1>3, <1>4, <1>7, <1>8, <1>9, <1>11, <1>12, <1>13 DEF ActorSound

\* After the last pair of streams there is nothing under the old names.
LEMMA NextPairSound ==
    ASSUME NEW a \in Adopts, NEW r \in ActorStates, NEW s \in [Migration!Streams -> SUBSET Migration!Entries], NEW x,
           NEW n \in Nat, NEW d, NEW w \in [Migration!Kind -> SUBSET Loads],
           ActorSound(a, r, s, x, n, d, w), NothingLost(s, d, w),
           r.pc \in {"look", "rename", "delete"}, s[OldS(KindAt(r))] = {}
    PROVE  /\ Migration!AfterPair(r) \in ActorStates /\ ActorSound(a, Migration!AfterPair(r), s, x, n, d, w)
           /\ Migration!AfterPair(r).pc \in {"look", "scan"}
<1> DEFINE r2 == Migration!AfterPair(r)
<1>0. r2 = IF r.pair < Len(Migration!Kinds) THEN [r EXCEPT !.pc = "look", !.pair = r.pair + 1] ELSE [r EXCEPT !.pc = "scan"]
    BY DEF Migration!AfterPair
<1> SUFFICES r2 \in ActorStates /\ ActorSound(a, r2, s, x, n, d, w) /\ r2.pc \in {"look", "scan"}
    OBVIOUS
<1> HIDE DEF r2
<1>1. /\ r.pair \in 1..3 /\ r.pc \in Adopting /\ r.pc # "move" /\ r.pc \notin Taking
      /\ Len(Migration!Kinds) = 3
    BY StateFields, PartNames, KindsListed, ZenonT(60)
<1>2. /\ r.page = {} /\ r.cursor = 0 /\ r.cursor <= n /\ \A e \in r.handed : e.id <= n
      /\ \A j \in 1..3 : j < r.pair => s[OldS(Migration!Kinds[j])] = {}
      /\ r.handed # {} => NewS(Reads(a)) \in x
      /\ \A e \in r.handed : e.load \in w[Reads(a)] /\ \A f \in s[NewS(Reads(a))] : e.id = f.id => e = f
    BY <1>1 DEF ActorSound
<1>3. \A j \in 1..3 : j <= r.pair => s[OldS(Migration!Kinds[j])] = {}
  <2>1. \A j \in 1..3 : j <= r.pair => j < r.pair \/ j = r.pair
    BY <1>1
  <2> QED
    BY <1>2, <2>1 DEF KindAt
<1>4. CASE r.pair < 3
  <2>0. r.pair + 1 \in 1..3 /\ \A j \in 1..3 : j < r.pair + 1 => j <= r.pair
    BY <1>1, <1>4
  <2>1. r2 = [r EXCEPT !.pc = "look", !.pair = r.pair + 1]
    BY <1>0, <1>1, <1>4
  <2>2. /\ r2 \in ActorStates /\ r2.pc = "look" /\ r2.pair = r.pair + 1
        /\ r2.page = r.page /\ r2.cursor = r.cursor /\ r2.handed = r.handed
    BY <2>0, <2>1 DEF ActorStates, Adopting
  <2>3. \A j \in 1..3 : j < r2.pair => s[OldS(Migration!Kinds[j])] = {}
    BY <1>3, <2>0, <2>2
  <2>4. r2.pc \notin Taking /\ r2.pc \notin PastScan /\ r2.pc # "down" /\ r2.pc # "scan" /\ r2.pc # "move"
    BY <2>2, PartNames
  <2> QED
    BY <1>2, <2>2, <2>3, <2>4 DEF ActorSound
<1>5. CASE ~(r.pair < 3)
  <2>1. r2 = [r EXCEPT !.pc = "scan"] /\ r.pair = 3
    BY <1>0, <1>1, <1>5
  <2>2. /\ r2 \in ActorStates /\ r2.pc = "scan"
        /\ r2.page = r.page /\ r2.cursor = r.cursor /\ r2.handed = r.handed
    BY <2>1 DEF ActorStates
  <2>3. Reads(a) \in {"pending", "dead"} /\ Reads(a) \in Migration!Kind /\ s[OldS(Reads(a))] = {}
    BY <1>3, <2>1, MigrationConstants, KindsListed
  <2>4. ASSUME NEW load \in w[Reads(a)], Migration!Deserializes(load)
        PROVE  load \in d \/ \E e \in s[NewS(Reads(a))] : e.load = load /\ e.id > r.cursor
    <3>1. Form(load) # "broken"
        BY <2>4 DEF Migration!Deserializes
    <3>2. load \in d \/ \E e \in s[NewS(Reads(a))] : e.load = load
        BY <2>3, <2>4, <3>1 DEF NothingLost
    <3>3. \A e \in s[NewS(Reads(a))] : e.id > r.cursor
      <4>1. \A e \in s[NewS(Reads(a))] : e.id \in Nat \ {0}
        BY <2>3, StreamNames, EntryFields
      <4> QED
        BY <4>1, <1>2
    <3> QED
        BY <3>2, <3>3
  <2>5. r2.pc \notin Taking /\ r2.pc \notin Adopting /\ r2.pc # "down" /\ r2.pc # "move"
    BY <2>2, PartNames
  <2> QED
    BY <1>2, <2>2, <2>4, <2>5 DEF ActorSound
<1> QED
    BY <1>4, <1>5

-----------------------------------------------------------------------------
(* What the steps do to the streams.                                       *)

StreamsEffect(s, x, n, d, s2, x2, n2, d2, w) ==
    StreamsInv(s2, x2, n2, d2, w) /\ StreamsKept(s, x, n, d, s2, x2, n2, d2)

LEMMA StreamsUnchanged ==
    ASSUME NEW s, NEW x, NEW n, NEW d, NEW w, StreamsInv(s, x, n, d, w)
    PROVE  StreamsEffect(s, x, n, d, s, x, n, d, w)
BY KindsListed DEF StreamsEffect, StreamsInv, StreamTypes, StreamsKept

\* RENAMENX onto a name that is free
LEMMA RenameStreams ==
    ASSUME NEW s, NEW x, NEW n, NEW d, NEW w, StreamsInv(s, x, n, d, w),
           NEW k \in Migration!Kind, OldS(k) \in x, NewS(k) \notin x,
           NEW s2, s2 = [s EXCEPT ![NewS(k)] = s[OldS(k)], ![OldS(k)] = {}],
           NEW x2, x2 = (x \ {OldS(k)}) \cup {NewS(k)}
    PROVE  StreamsEffect(s, x, n, d, s2, x2, n, d, w)
<1>1. StreamTypes(s, x, n, d, w) /\ StreamsSound(s, x, n, w) /\ NothingLost(s, d, w)
    BY DEF StreamsInv
<1>2. s \in [Migration!Streams -> SUBSET Migration!Entries] /\ NewS(k) \in Migration!Streams /\ OldS(k) \in Migration!Streams
    BY <1>1, StreamNames DEF StreamTypes
<1>3. s[NewS(k)] = {}
    BY <1>1, <1>2 DEF StreamsSound, EachStream
<1>4. /\ s2[NewS(k)] = s[OldS(k)] /\ s2[OldS(k)] = {}
      /\ \A m \in Migration!Streams : m # NewS(k) /\ m # OldS(k) => s2[m] = s[m]
    BY <1>2, StreamNames
<1>5. \A j \in Migration!Kind : j # k => s2[NewS(j)] = s[NewS(j)] /\ s2[OldS(j)] = s[OldS(j)]
    BY <1>4, StreamNames
<1>6. StreamTypes(s2, x2, n, d, w)
    BY <1>1, <1>2 DEF StreamTypes
<1>7. StreamsSound(s2, x2, n, w)
  <2>1. \A m \in Migration!Streams :
        /\ IsFiniteSet(s2[m])
        /\ m \notin x2 => s2[m] = {}
        /\ \A e \in s2[m] : e.id <= n
        /\ \A e, f \in s2[m] : e.id = f.id => e = f
    <3> SUFFICES ASSUME NEW m \in Migration!Streams
                 PROVE  /\ IsFiniteSet(s2[m])
                        /\ m \notin x2 => s2[m] = {}
                        /\ \A e \in s2[m] : e.id <= n
                        /\ \A e, f \in s2[m] : e.id = f.id => e = f
        OBVIOUS
    <3>1. \A i \in Migration!Streams :
            /\ IsFiniteSet(s[i])
            /\ i \notin x => s[i] = {}
            /\ \A e \in s[i] : e.id <= n
            /\ \A e, f \in s[i] : e.id = f.id => e = f
        BY <1>1 DEF StreamsSound, EachStream
    <3>2. CASE m = NewS(k)
        BY <1>2, <1>4, <3>1, <3>2
    <3>3. CASE m = OldS(k)
        BY <1>4, <3>3, FS_EmptySet
    <3>4. CASE m # NewS(k) /\ m # OldS(k)
        BY <1>4, <3>1, <3>4
    <3> QED
        BY <3>2, <3>3, <3>4
  <2>2. \A j \in Migration!Kind :
        /\ \A e, f \in s2[OldS(j)] : e.load = f.load => e = f
        /\ \A e \in s2[OldS(j)] : e.load \in w[j]
        /\ \A e \in s2[NewS(j)] : e.load \in w[j] \/ j = "malformed"
    BY <1>1, <1>4, <1>5, ZenonT(60) DEF StreamsSound
  <2> QED
    BY <1>1, <2>1, <2>2 DEF StreamsSound, EachStream
<1>8. NothingLost(s2, d, w)
  <2>1. \A j \in Migration!Kind : s2[OldS(j)] \cup s2[NewS(j)] = s[OldS(j)] \cup s[NewS(j)]
    BY <1>3, <1>4, <1>5
  <2>2. s[NewS("malformed")] \subseteq s2[NewS("malformed")]
    BY <1>3, <1>4, <1>5, KindsListed
  <2> QED
    BY <1>1, <2>1, <2>2 DEF NothingLost
<1>9. StreamsKept(s, x, n, d, s2, x2, n, d)
  <2>1. n \in Nat /\ n <= n
    BY <1>1 DEF StreamTypes
  <2>2. \A j \in Migration!Kind :
        /\ NewS(j) \in x => NewS(j) \in x2
        /\ s2[OldS(j)] \subseteq s[OldS(j)]
        /\ \A f \in s2[NewS(j)] : f \in s[NewS(j)] \/ f.id > n \/ NewS(j) \notin x
    BY <1>4, <1>5, StreamNames
  <2>3. \A j \in {"pending", "dead"} : \A e \in s[NewS(j)] : e \in s2[NewS(j)]
    BY <1>3, <1>5, KindsListed
  <2> QED
    BY <2>1, <2>2, <2>3 DEF StreamsKept
<1> QED
    BY <1>6, <1>7, <1>8, <1>9 DEF StreamsEffect, StreamsInv

\* An entry is taken out of a stream and added to another one.
EntryMoves(s, s2, from, to, e, e2) ==
    /\ s2 \in [Migration!Streams -> SUBSET Migration!Entries]
    /\ s2[from] = s[from] \ {e} /\ s2[to] = s[to] \cup {e2}
    /\ \A m \in Migration!Streams : m # from /\ m # to => s2[m] = s[m]

\* XADD and XDEL of an entry: what holds of each stream
LEMMA EntryMoved ==
    ASSUME NEW s, NEW x, NEW n, NEW d, NEW w, StreamsInv(s, x, n, d, w),
           NEW from \in Migration!Streams, NEW to \in Migration!Streams, from # to, NEW e2 \in Migration!Entries, e2.id = n + 1,
           NEW e, NEW s2, EntryMoves(s, s2, from, to, e, e2)
    PROVE  /\ n \in Nat /\ n + 1 \in Nat /\ n <= n + 1 /\ e2.id > n /\ e2 \notin s[to]
           /\ StreamTypes(s2, x \cup {to}, n + 1, d, w)
           /\ EachStream(s2, x \cup {to}, n + 1)
<1>1. StreamTypes(s, x, n, d, w) /\ StreamsSound(s, x, n, w)
    BY DEF StreamsInv
<1>2. s \in [Migration!Streams -> SUBSET Migration!Entries] /\ n \in Nat /\ x \subseteq Migration!Streams
    BY <1>1 DEF StreamTypes
<1>3. /\ s2 \in [Migration!Streams -> SUBSET Migration!Entries]
      /\ s2[from] \subseteq s[from] /\ s2[to] = s[to] \cup {e2}
      /\ \A m \in Migration!Streams : m # from /\ m # to => s2[m] = s[m]
    BY DEF EntryMoves
<1>6. \A i \in Migration!Streams :
        /\ IsFiniteSet(s[i])
        /\ i \notin x => s[i] = {}
        /\ \A f \in s[i] : f.id \in Nat /\ f.id <= n
        /\ \A f, g \in s[i] : f.id = g.id => f = g
  <2>1. \A i \in Migration!Streams : \A f \in s[i] : f.id \in Nat
    BY <1>2, EntryFields
  <2> QED
    BY <2>1, <1>1 DEF StreamsSound, EachStream
<1>7. StreamTypes(s2, x \cup {to}, n + 1, d, w)
  <2>1. n + 1 \in Nat
    BY <1>2
  <2> QED
    BY <2>1, <1>1, <1>3 DEF StreamTypes
<1>8. \A i \in Nat : i <= n => i <= n + 1 /\ i # n + 1
    BY <1>2
<1>9. \A f \in s[to] : f.id # e2.id
    BY <1>6, <1>8
<1>10. ASSUME NEW m \in Migration!Streams
       PROVE  /\ IsFiniteSet(s2[m])
              /\ m \notin x \cup {to} => s2[m] = {}
              /\ \A f \in s2[m] : f.id <= n + 1
              /\ \A f, g \in s2[m] : f.id = g.id => f = g
  <2>1. IsFiniteSet(s2[to])
    <3>1. IsFiniteSet(s[to] \cup {e2})
        BY <1>6, FS_AddElement
    <3> QED
        BY <3>1, <1>3
  <2>2. \A f \in s2[to] : f.id <= n + 1
    <3>1. e2.id <= n + 1
        BY <1>2
    <3>2. \A f \in s[to] : f.id <= n + 1
        BY <1>6, <1>8
    <3> QED
        BY <1>3, <3>1, <3>2
  <2>3. \A f, g \in s2[to] : f.id = g.id => f = g
    BY <1>3, <1>6, <1>9
  <2>4. CASE m = to
    BY <2>1, <2>2, <2>3, <2>4
  <2>5. CASE m # to
    <3>1. s2[m] \subseteq s[m]
        BY <1>3, <2>5
    <3>2. IsFiniteSet(s2[m])
        BY <3>1, <1>6, FS_Subset
    <3>3. \A f \in s2[m] : f.id <= n + 1
        BY <3>1, <1>6, <1>8
    <3>4. m \notin x \cup {to} => s2[m] = {}
        BY <3>1, <1>6
    <3>5. \A f, g \in s2[m] : f.id = g.id => f = g
        BY <3>1, <1>6
    <3> QED
        BY <3>2, <3>3, <3>4, <3>5
  <2> QED
    BY <2>4, <2>5
<1>11. n \in Nat /\ n + 1 \in Nat /\ n <= n + 1 /\ e2.id > n /\ e2 \notin s[to]
    BY <1>2, <1>9
<1>12. EachStream(s2, x \cup {to}, n + 1)
    BY <1>10 DEF EachStream
<1> QED
    BY <1>7, <1>11, <1>12

\* An entry that is copied under the new name is not lost, even when another process has taken it away meanwhile.
LEMMA MoveStreams ==
    ASSUME NEW s, NEW x, NEW n, NEW d, NEW w, StreamsInv(s, x, n, d, w),
           NEW k \in Migration!Kind, NEW e \in Migration!Entries, e.load \in w[k], NewS(k) \in x,
           \A f \in s[OldS(k)] : e.id = f.id \/ e.load = f.load => e = f,
           NEW s2 \in [Migration!Streams -> SUBSET Migration!Entries], NEW x2,
           NEW e2 \in Migration!Entries, e2.id = n + 1, e2.load = e.load,
           s2[OldS(k)] = s[OldS(k)] \ {e}, s2[NewS(k)] = s[NewS(k)] \cup {e2},
           \A m \in Migration!Streams : m # OldS(k) /\ m # NewS(k) => s2[m] = s[m],
           x2 = x \cup {NewS(k)}
    PROVE  /\ StreamsEffect(s, x, n, d, s2, x2, n + 1, d, w)
           /\ e2 \notin s[NewS(k)]
           /\ \A j \in Migration!Kind : j # k => s2[OldS(j)] = s[OldS(j)] /\ s2[NewS(j)] = s[NewS(j)]
<1>1. OldS(k) \in Migration!Streams /\ NewS(k) \in Migration!Streams /\ OldS(k) # NewS(k)
    BY StreamNames
<1>2. /\ n \in Nat /\ n + 1 \in Nat /\ n <= n + 1 /\ e2.id > n /\ e2 \notin s[NewS(k)]
      /\ StreamTypes(s2, x2, n + 1, d, w)
      /\ EachStream(s2, x2, n + 1)
  <2>1. EntryMoves(s, s2, OldS(k), NewS(k), e, e2)
    BY DEF EntryMoves
  <2> QED
    BY <1>1, <2>1, EntryMoved
<1>4. \A j \in Migration!Kind : j # k => s2[OldS(j)] = s[OldS(j)] /\ s2[NewS(j)] = s[NewS(j)]
    BY <1>2, StreamNames
<1>5. StreamsSound(s, x, n, w) /\ NothingLost(s, d, w)
    BY DEF StreamsInv
<1>6. \A j \in Migration!Kind :
        /\ \A f, g \in s2[OldS(j)] : f.load = g.load => f = g
        /\ \A f \in s2[OldS(j)] : f.load \in w[j]
        /\ \A f \in s2[NewS(j)] : f.load \in w[j] \/ j = "malformed"
    BY <1>2, <1>4, <1>5 DEF StreamsSound
<1>7. StreamsSound(s2, x2, n + 1, w)
  <2>1. \A i, j \in Migration!Kind : i # j => w[i] \cap w[j] = {}
    BY <1>5 DEF StreamsSound
  <2> QED
    BY <1>2, <1>6, <2>1 DEF StreamsSound
<1>8. NothingLost(s2, d, w)
  <2>1. \A j \in Migration!Kind : \A f \in s[OldS(j)] \cup s[NewS(j)] : \E g \in s2[OldS(j)] \cup s2[NewS(j)] : g.load = f.load
    BY <1>2, <1>4
  <2>2. s[NewS("malformed")] \subseteq s2[NewS("malformed")]
    BY <1>2, <1>4, KindsListed
  <2> QED
    BY <2>1, <2>2, <1>5 DEF NothingLost
<1>9. StreamsKept(s, x, n, d, s2, x2, n + 1, d)
  <2>1. n + 1 \in Nat /\ n <= n + 1
    BY <1>2
  <2>2. \A j \in Migration!Kind :
        /\ NewS(j) \in x => NewS(j) \in x2
        /\ s2[OldS(j)] \subseteq s[OldS(j)]
        /\ s[NewS(j)] \subseteq s2[NewS(j)]
        /\ \A f \in s2[NewS(j)] : f \in s[NewS(j)] \/ f.id > n
    BY <1>2, <1>4
  <2> QED
    BY <2>1, <2>2, KindsListed DEF StreamsKept
<1> QED
    BY <1>2, <1>4, <1>7, <1>8, <1>9 DEF StreamsEffect, StreamsInv

\* A quarantined entry keeps its payload.
LEMMA QuarantineStreams ==
    ASSUME StreamsInv(redis, exists, newestId, settled, written),
           NEW k \in Migration!Kind, k # "malformed", NEW e \in Migration!Entries, e.load \in written[k],
           ~Migration!Deserializes(e.load),
           \A f \in redis[NewS(k)] : e.id = f.id => e = f,
           NEW e2 \in Migration!Entries, e2.id = newestId + 1, e2.load = e.load,
           EntryMoves(redis, redis', NewS(k), NewS("malformed"), e, e2)
    PROVE  /\ StreamsEffect(redis, exists, newestId, settled,
                            redis', exists \cup {NewS("malformed")}, newestId + 1, settled, written)
           /\ \A j \in Migration!Kind :
                  redis'[OldS(j)] = redis[OldS(j)] /\ (j # "malformed" => redis'[NewS(j)] \subseteq redis[NewS(j)])
<1> DEFINE x2 == exists \cup {NewS("malformed")}
<1>0. /\ redis' \in [Migration!Streams -> SUBSET Migration!Entries]
      /\ redis'[NewS(k)] = redis[NewS(k)] \ {e} /\ redis'[NewS("malformed")] = redis[NewS("malformed")] \cup {e2}
      /\ \A m \in Migration!Streams : m # NewS(k) /\ m # NewS("malformed") => redis'[m] = redis[m]
    BY DEF EntryMoves
<1>1. /\ k \in Migration!Kind /\ k # "malformed" /\ "malformed" \in Migration!Kind
      /\ NewS("malformed") \in Migration!Streams /\ NewS(k) \in Migration!Streams /\ NewS("malformed") # NewS(k)
  <2>1. k \in Migration!Kind /\ k # "malformed" /\ "malformed" \in Migration!Kind
    BY KindsListed
  <2> QED
    BY <2>1, StreamNames
<1>2. /\ newestId \in Nat /\ newestId + 1 \in Nat /\ newestId <= newestId + 1 /\ e2.id > newestId
      /\ e2 \notin redis[NewS("malformed")]
      /\ StreamTypes(redis', x2, newestId + 1, settled, written)
      /\ EachStream(redis', x2, newestId + 1)
  <2> HIDE DEF x2
  <2> QED
    BY <1>1, EntryMoved DEF x2
<1>4. /\ \A j \in Migration!Kind : redis'[OldS(j)] = redis[OldS(j)]
      /\ \A j \in Migration!Kind : j # k /\ j # "malformed" => redis'[NewS(j)] = redis[NewS(j)]
    BY <1>0, <1>1, <1>2, StreamNames
<1>5. /\ StreamsSound(redis, exists, newestId, written)
      /\ NothingLost(redis, settled, written) /\ StreamTypes(redis, exists, newestId, settled, written)
    BY DEF StreamsInv
<1>6. \A j \in Migration!Kind :
        /\ \A f, g \in redis'[OldS(j)] : f.load = g.load => f = g
        /\ \A f \in redis'[OldS(j)] : f.load \in written[j]
        /\ \A f \in redis'[NewS(j)] : f.load \in written[j] \/ j = "malformed"
    BY <1>0, <1>2, <1>4, <1>5 DEF StreamsSound
<1>7. StreamsSound(redis', x2, newestId + 1, written)
  <2>1. \A i, j \in Migration!Kind : i # j => written[i] \cap written[j] = {}
    BY <1>5 DEF StreamsSound
  <2> QED
    BY <1>0, <1>2, <1>6, <2>1 DEF StreamsSound
<1>8. Form(e.load) = "broken"
    BY EntryFields, MigrationConstants DEF Migration!Deserializes
<1>9. NothingLost(redis', settled, written)
  <2> SUFFICES ASSUME NEW j \in Migration!Kind, NEW load \in written[j]
               PROVE  \/ load \in settled
                      \/ \E f \in redis'[OldS(j)] \cup redis'[NewS(j)] : f.load = load
                      \/ Form(load) = "broken" /\ \E f \in redis'[NewS("malformed")] : f.load = load
    BY DEF NothingLost
  <2>1. \/ load \in settled
        \/ \E f \in redis[OldS(j)] \cup redis[NewS(j)] : f.load = load
        \/ Form(load) = "broken" /\ \E f \in redis[NewS("malformed")] : f.load = load
    BY <1>5 DEF NothingLost
  <2>2. redis[OldS(j)] \cup redis[NewS(j)] \subseteq redis'[OldS(j)] \cup redis'[NewS(j)] \cup {e}
    BY <1>0, <1>2, <1>4
  <2>3. e2 \in redis'[NewS("malformed")] /\ redis[NewS("malformed")] \subseteq redis'[NewS("malformed")]
    BY <1>0, <1>2
  <2> QED
    BY <2>1, <2>2, <2>3, <1>0, <1>2, <1>8
<1>10. StreamsKept(redis, exists, newestId, settled, redis', x2, newestId + 1, settled)
  <2>1. newestId + 1 \in Nat /\ newestId <= newestId + 1
    BY <1>0, <1>2
  <2>2. \A j \in Migration!Kind :
        /\ NewS(j) \in exists => NewS(j) \in x2
        /\ redis'[OldS(j)] \subseteq redis[OldS(j)]
        /\ \A f \in redis'[NewS(j)] : f \in redis[NewS(j)] \/ f.id > newestId
    BY <1>0, <1>2, <1>4
  <2>3. \A j \in {"pending", "dead"} : \A f \in redis[NewS(j)] : f \in redis'[NewS(j)] \/ ~Migration!Deserializes(f.load)
    BY <1>0, <1>2, <1>4, KindsListed
  <2> QED
    BY <2>1, <2>2, <2>3 DEF StreamsKept
<1>11. \A j \in Migration!Kind : redis'[OldS(j)] = redis[OldS(j)] /\ (j # "malformed" => redis'[NewS(j)] \subseteq redis[NewS(j)])
    BY <1>0, <1>2, <1>4
<1> QED
    BY <1>0, <1>2, <1>7, <1>9, <1>10, <1>11 DEF StreamsEffect, StreamsInv

\* DEL of a stream with nothing in it
LEMMA DeleteStreams ==
    ASSUME NEW s, NEW x, NEW n, NEW d, NEW w, StreamsInv(s, x, n, d, w), NEW m \in Migration!Streams, s[m] = {},
           \A k \in Migration!Kind : m # NewS(k)
    PROVE  StreamsEffect(s, x, n, d, s, x \ {m}, n, d, w)
<1>1. StreamTypes(s, x, n, d, w) /\ StreamsSound(s, x, n, w) /\ NothingLost(s, d, w)
    BY DEF StreamsInv
<1>2. StreamTypes(s, x \ {m}, n, d, w)
    BY <1>1 DEF StreamTypes
<1>3. StreamsSound(s, x \ {m}, n, w)
  <2>1. EachStream(s, x \ {m}, n)
    BY <1>1 DEF StreamsSound, EachStream
  <2> QED
    BY <1>1, <2>1 DEF StreamsSound
<1>4. StreamsKept(s, x, n, d, s, x \ {m}, n, d)
  <2>1. n \in Nat /\ n <= n
    BY <1>1 DEF StreamTypes
  <2> QED
    BY <2>1, KindsListed DEF StreamsKept
<1> QED
    BY <1>1, <1>2, <1>3, <1>4 DEF StreamsEffect, StreamsInv

\* The acknowledgement of an entry that was delivered
LEMMA SettleStreams ==
    ASSUME StreamsInv(redis, exists, newestId, settled, written),
           NEW k \in Migration!Kind, k # "malformed", NEW e \in Migration!Entries,
           redis' \in [Migration!Streams -> SUBSET Migration!Entries], redis'[NewS(k)] = redis[NewS(k)] \ {e},
           \A m \in Migration!Streams : m # NewS(k) => redis'[m] = redis[m]
    PROVE  /\ StreamsEffect(redis, exists, newestId, settled, redis', exists, newestId, settled \cup {e.load}, written)
           /\ \A j \in Migration!Kind : redis'[OldS(j)] = redis[OldS(j)] /\ redis'[NewS(j)] \subseteq redis[NewS(j)]
<1>0. k \in Migration!Kind /\ k # "malformed" /\ NewS(k) \in Migration!Streams
  <2>1. k \in Migration!Kind /\ k # "malformed"
    BY KindsListed
  <2> QED
    BY <2>1, StreamNames
<1>1. /\ StreamTypes(redis, exists, newestId, settled, written) /\ StreamsSound(redis, exists, newestId, written)
      /\ NothingLost(redis, settled, written)
    BY DEF StreamsInv
<1>2. StreamTypes(redis', exists, newestId, settled \cup {e.load}, written)
    BY <1>1, EntryFields DEF StreamTypes
<1>3. \A j \in Migration!Kind : redis'[OldS(j)] = redis[OldS(j)] /\ redis'[NewS(j)] \subseteq redis[NewS(j)] /\ (j # k => redis'[NewS(j)] = redis[NewS(j)])
    BY <1>0, StreamNames
<1>4. StreamsSound(redis', exists, newestId, written)
  <2>1. EachStream(redis', exists, newestId)
    <3> SUFFICES ASSUME NEW m \in Migration!Streams
                 PROVE  /\ IsFiniteSet(redis'[m])
                        /\ m \notin exists => redis'[m] = {}
                        /\ \A f \in redis'[m] : f.id <= newestId
                        /\ \A f, g \in redis'[m] : f.id = g.id => f = g
        BY DEF EachStream
    <3>1. /\ IsFiniteSet(redis[m])
          /\ m \notin exists => redis[m] = {}
          /\ \A f \in redis[m] : f.id <= newestId
          /\ \A f, g \in redis[m] : f.id = g.id => f = g
        BY <1>1 DEF StreamsSound, EachStream
    <3>2. redis'[m] \subseteq redis[m]
        OBVIOUS
    <3>3. IsFiniteSet(redis'[m])
        BY <3>1, <3>2, FS_Subset
    <3> QED
        BY <3>1, <3>2, <3>3
  <2> QED
    BY <1>1, <1>3, <2>1 DEF StreamsSound
<1>5. NothingLost(redis', settled \cup {e.load}, written)
  <2> SUFFICES ASSUME NEW j \in Migration!Kind, NEW load \in written[j]
               PROVE  \/ load \in settled \cup {e.load}
                      \/ \E f \in redis'[OldS(j)] \cup redis'[NewS(j)] : f.load = load
                      \/ Form(load) = "broken" /\ \E f \in redis'[NewS("malformed")] : f.load = load
    BY DEF NothingLost
  <2>1. \/ load \in settled
        \/ \E f \in redis[OldS(j)] \cup redis[NewS(j)] : f.load = load
        \/ Form(load) = "broken" /\ \E f \in redis[NewS("malformed")] : f.load = load
    BY <1>1 DEF NothingLost
  <2>2. redis[OldS(j)] \cup redis[NewS(j)] \subseteq redis'[OldS(j)] \cup redis'[NewS(j)] \cup {e}
    BY <1>3
  <2>3. redis'[NewS("malformed")] = redis[NewS("malformed")]
    BY <1>0, <1>3, KindsListed
  <2> QED
    BY <2>1, <2>2, <2>3
<1>6. StreamsKept(redis, exists, newestId, settled, redis', exists, newestId, settled \cup {e.load})
  <2>1. newestId \in Nat /\ newestId <= newestId
    BY <1>1 DEF StreamTypes
  <2>2. \A j \in {"pending", "dead"} : \A f \in redis[NewS(j)] : f \in redis'[NewS(j)] \/ f.load \in settled \cup {e.load}
    BY <1>3, KindsListed
  <2> QED
    BY <1>3, <2>1, <2>2 DEF StreamsKept
<1> QED
    BY <1>2, <1>3, <1>4, <1>5, <1>6 DEF StreamsEffect, StreamsInv

-----------------------------------------------------------------------------
(* The copies.                                                             *)

LEMMA CountsFinite ==
    ASSUME NEW s, NEW x, NEW n, NEW w, StreamsSound(s, x, n, w), NEW p, NEW k \in Migration!Kind, NEW load
    PROVE  /\ IsFiniteSet(Copies(s, k, load)) /\ Cardinality(Copies(s, k, load)) \in Nat
           /\ IsFiniteSet(Movers(p, k, load)) /\ Cardinality(Movers(p, k, load)) \in Nat
           /\ Cardinality(Movers(p, k, load)) <= Cardinality(Adopts)
<1>1. IsFiniteSet(s[NewS(k)]) /\ Copies(s, k, load) \subseteq s[NewS(k)]
    BY StreamNames DEF StreamsSound, EachStream, Copies
<1>2. Movers(p, k, load) \subseteq Adopts /\ IsFiniteSet(Adopts)
    BY MigrationConstants DEF Movers
<1>3. IsFiniteSet(Copies(s, k, load)) /\ IsFiniteSet(Movers(p, k, load)) /\ Cardinality(Movers(p, k, load)) <= Cardinality(Adopts)
    BY <1>1, <1>2, FS_Subset
<1> QED
    BY <1>3, FS_CardinalityType

LEMMA CopiesStay ==
    ASSUME NEW s, NEW x, NEW n, NEW w, StreamsSound(s, x, n, w), NEW p, NEW s2, NEW p2, NEW k \in Migration!Kind, NEW load,
           CopySound(s, p, k, load), s2[OldS(k)] \subseteq s[OldS(k)],
           Copies(s2, k, load) \subseteq Copies(s, k, load), Movers(p2, k, load) \subseteq Movers(p, k, load)
    PROVE  CopySound(s2, p2, k, load)
<1>1. /\ IsFiniteSet(Copies(s, k, load)) /\ Cardinality(Copies(s, k, load)) \in Nat
      /\ IsFiniteSet(Movers(p, k, load)) /\ Cardinality(Movers(p, k, load)) \in Nat
    BY CountsFinite
<1>2. /\ IsFiniteSet(Copies(s2, k, load)) /\ Cardinality(Copies(s2, k, load)) <= Cardinality(Copies(s, k, load))
      /\ IsFiniteSet(Movers(p2, k, load)) /\ Cardinality(Movers(p2, k, load)) <= Cardinality(Movers(p, k, load))
    BY <1>1, FS_Subset
<1>3. Cardinality(Copies(s2, k, load)) \in Nat /\ Cardinality(Movers(p2, k, load)) \in Nat
    BY <1>2, FS_CardinalityType
<1>4. Cardinality(Copies(s, k, load)) + Cardinality(Movers(p, k, load)) <= Cardinality(Adopts)
    BY DEF CopySound
<1>5. Cardinality(Copies(s2, k, load)) + Cardinality(Movers(p2, k, load)) <= Cardinality(Adopts)
    BY <1>1, <1>2, <1>3, <1>4, MigrationConstants
<1>6. (\E e \in s2[OldS(k)] : e.load = load) => Copies(s2, k, load) = {}
    BY DEF CopySound
<1> QED
    BY <1>5, <1>6 DEF CopySound

-----------------------------------------------------------------------------
(* The steps of the migration.                                             *)

LEMMA OneActor ==
    ASSUME MigrationInv, NEW a \in Actors, NEW r2 \in ActorStates, at' = [at EXCEPT ![a] = r2],
           StreamsEffect(redis, exists, newestId, settled, redis', exists', newestId', settled', written), written' = written,
           ActorSound(a, r2, redis', exists', newestId', settled', written)
    PROVE  /\ at' \in [Actors -> ActorStates] /\ StreamsInv(redis, exists, newestId, settled, written)'
           /\ \A b \in Actors : ActorSound(b, at[b], redis, exists, newestId, settled, written)'
<1>1. at \in [Actors -> ActorStates] /\ \A b \in Actors : ActorSound(b, at[b], redis, exists, newestId, settled, written)
    BY DEF MigrationInv, MigrationTypes
<1>2. /\ StreamsInv(redis', exists', newestId', settled', written)
      /\ StreamsKept(redis, exists, newestId, settled, redis', exists', newestId', settled')
    BY DEF StreamsEffect
<1>3. newestId \in Nat /\ written \in [Migration!Kind -> SUBSET Loads]
    BY DEF MigrationInv, StreamsInv, StreamTypes
<1>4. at' \in [Actors -> ActorStates] /\ at'[a] = r2 /\ \A b \in Actors : b # a => at'[b] = at[b]
    BY <1>1
<1>5. ASSUME NEW b \in Actors
      PROVE  ActorSound(b, at'[b], redis', exists', newestId', settled', written)
  <2>1. CASE b = a
    BY <1>4, <2>1
  <2>2. CASE b # a
    <3>1. at[b] \in ActorStates /\ at'[b] = at[b] /\ ActorSound(b, at[b], redis, exists, newestId, settled, written)
        BY <1>1, <1>4, <2>2
    <3>2. ActorSound(b, at[b], redis', exists', newestId', settled', written)
        BY <1>2, <1>3, <3>1, ActorKept
    <3> QED
        BY <3>1, <3>2
  <2> QED
    BY <2>1, <2>2
<1> QED
    BY <1>2, <1>4, <1>5

LEMMA WindowsStay ==
    ASSUME MigrationInv, NEW a \in Actors, NEW r2 \in ActorStates, at' = [at EXCEPT ![a] = r2],
           UNCHANGED <<legacy, windows, prices>>,
           \/ r2.pc \notin {"visit", "drop"} /\ (a \in Windowed => r2.pc # "done")
           \/ r2.pc = at[a].pc /\ r2.todo = at[a].todo /\ r2.item = at[a].item
    PROVE  WindowsSound'
<1>1. at \in [Actors -> ActorStates] /\ WindowsSound /\ Windowed \subseteq Actors
    BY MigrationConstants DEF MigrationInv, MigrationTypes
<1>2. at'[a] = r2 /\ \A b \in Actors : b # a => at'[b] = at[b]
    BY <1>1
<1>3. \A i \in prices' : windows'[i] # "fresh" /\ (i \in legacy' \/ windows'[i] # "none")
    BY <1>1 DEF WindowsSound
<1>4. ASSUME NEW b \in Actors
      PROVE  /\ at'[b].pc = "visit" => legacy' \subseteq at'[b].todo
             /\ at'[b].pc = "drop" =>
                   legacy' \subseteq at'[b].todo \cup at'[b].item /\ \A i \in at'[b].item : windows'[i] # "none"
             /\ b \in Windowed /\ at'[b].pc = "done" => legacy' = {}
  <2>1. /\ at[b].pc = "visit" => legacy \subseteq at[b].todo
        /\ at[b].pc = "drop" => legacy \subseteq at[b].todo \cup at[b].item /\ \A i \in at[b].item : windows[i] # "none"
        /\ b \in Windowed /\ at[b].pc = "done" => legacy = {}
    BY <1>1 DEF WindowsSound
  <2>2. CASE b = a
    BY <1>2, <2>1, <2>2
  <2>3. CASE b # a
    BY <1>1, <1>2, <2>1, <2>3
  <2> QED
    BY <2>2, <2>3
<1> QED
    BY <1>3, <1>4 DEF WindowsSound

\* A step that copies nothing and begins to move nothing
LEMMA CopiesQuiet ==
    ASSUME MigrationInv, NEW a \in Actors, NEW r2 \in ActorStates, NEW p2, p2 = [at EXCEPT ![a] = r2],
           NEW s2, \A k \in Migration!Kind : s2[OldS(k)] \subseteq redis[OldS(k)],
           \A k \in Migration!Kind : \A e \in s2[NewS(k)] : e \in redis[NewS(k)] \/ e.load \notin written[k],
           r2.pc # "move" \/ (r2.pc = at[a].pc /\ r2.pair = at[a].pair /\ r2.page = at[a].page)
    PROVE  CopiesSound(s2, p2, written)
<1>1. /\ at \in [Actors -> ActorStates] /\ Adopts \subseteq Actors /\ StreamsSound(redis, exists, newestId, written)
      /\ CopiesSound(redis, at, written)
    BY MigrationConstants DEF MigrationInv, MigrationTypes, StreamsInv
<1>2. p2[a] = r2 /\ \A b \in Actors : b # a => p2[b] = at[b]
    BY <1>1
<1> SUFFICES ASSUME NEW k \in Migration!Kind, NEW load \in written[k]
             PROVE  CopySound(s2, p2, k, load)
    BY DEF CopiesSound
<1>3. CopySound(redis, at, k, load)
    BY <1>1 DEF CopiesSound
<1>4. Copies(s2, k, load) \subseteq Copies(redis, k, load)
    BY DEF Copies
<1>5. Movers(p2, k, load) \subseteq Movers(at, k, load)
    BY <1>1, <1>2 DEF Movers, KindAt
<1> QED
    BY <1>1, <1>3, <1>4, <1>5, CopiesStay

LEMMA OneStep ==
    ASSUME MigrationInv, NEW a \in Actors, NEW r2 \in ActorStates, at' = [at EXCEPT ![a] = r2],
           StreamsEffect(redis, exists, newestId, settled, redis', exists', newestId', settled', written),
           UNCHANGED <<legacy, windows, written, prices>>,
           ActorSound(a, r2, redis', exists', newestId', settled', written),
           CopiesSound(redis', at', written),
           \/ r2.pc \notin {"visit", "drop"} /\ (a \in Windowed => r2.pc # "done")
           \/ r2.pc = at[a].pc /\ r2.todo = at[a].todo /\ r2.item = at[a].item
    PROVE  MigrationInv'
<1>1. /\ at' \in [Actors -> ActorStates] /\ StreamsInv(redis, exists, newestId, settled, written)'
      /\ \A b \in Actors : ActorSound(b, at[b], redis, exists, newestId, settled, written)'
    BY OneActor
<1>2. MigrationTypes'
    BY <1>1 DEF MigrationInv, MigrationTypes
<1>3. WindowsSound'
    BY WindowsStay
<1> QED
    BY <1>1, <1>2, <1>3 DEF MigrationInv

LEMMA InvParts ==
    ASSUME MigrationInv, NEW a \in Actors
    PROVE  /\ at \in [Actors -> ActorStates] /\ at[a] \in ActorStates
           /\ redis \in [Migration!Streams -> SUBSET Migration!Entries] /\ exists \subseteq Migration!Streams /\ newestId \in Nat
           /\ settled \subseteq Loads /\ written \in [Migration!Kind -> SUBSET Loads]
           /\ StreamsInv(redis, exists, newestId, settled, written) /\ StreamsSound(redis, exists, newestId, written)
           /\ NothingLost(redis, settled, written)
           /\ ActorSound(a, at[a], redis, exists, newestId, settled, written)
           /\ CopiesSound(redis, at, written) /\ WindowsSound
BY DEF MigrationInv, MigrationTypes, StreamsInv, StreamTypes

\* A step that leaves the streams as they are
LEMMA QuietStep ==
    ASSUME MigrationInv, NEW a \in Actors, NEW r2 \in ActorStates, at' = [at EXCEPT ![a] = r2],
           UNCHANGED <<redis, exists, newestId, settled, legacy, windows, written, prices>>,
           ActorSound(a, r2, redis, exists, newestId, settled, written),
           r2.pc # "move", r2.pc \notin {"visit", "drop"}, a \in Windowed => r2.pc # "done"
    PROVE  MigrationInv'
<1>1. StreamsEffect(redis, exists, newestId, settled, redis', exists', newestId', settled', written)
    BY InvParts, StreamsUnchanged
<1>2. CopiesSound(redis, at', written)
    BY CopiesQuiet
<1> QED
    BY <1>1, <1>2, OneStep

LEMMA StartStep ==
    ASSUME MigrationInv, NEW a \in Actors, Migration!Start(a)
    PROVE  MigrationInv'
<1> DEFINE r == at[a]
           r2 == [r EXCEPT !.pc = IF a \in Adopts THEN "look" ELSE "windows"]
<1>1. /\ r.pc = "down" /\ at' = [at EXCEPT ![a] = r2]
      /\ UNCHANGED <<redis, exists, newestId, settled, legacy, windows, written, prices>>
    BY InvParts DEF Migration!Start, Migration!Goto
<1>2. r \in ActorStates /\ ActorSound(a, r, redis, exists, newestId, settled, written)
    BY InvParts
<1>3. /\ r2 \in ActorStates /\ r2.pc = (IF a \in Adopts THEN "look" ELSE "windows")
      /\ r2.page = r.page /\ r2.pair = r.pair /\ r2.cursor = r.cursor /\ r2.handed = r.handed
    BY <1>2 DEF ActorStates, Adopting, PastScan
<1> HIDE DEF r2
<1>4. r.page = {} /\ r.pair = 1 /\ r.cursor = 0 /\ r.handed = {} /\ r.cursor <= newestId
    BY <1>1, <1>2, PartNames DEF ActorSound
<1>5. \A j \in 1..3 : ~(j < 1)
    OBVIOUS
<1>6. ActorSound(a, r2, redis, exists, newestId, settled, written)
    BY <1>3, <1>4, <1>5, PartNames DEF ActorSound
<1>7. r2.pc # "move" /\ r2.pc \notin {"visit", "drop", "done"}
    BY <1>3
<1> QED
    BY <1>1, <1>3, <1>6, <1>7, QuietStep

LEMMA LookStep ==
    ASSUME MigrationInv, NEW a \in Actors, Migration!Look(a)
    PROVE  MigrationInv'
<1> DEFINE r == at[a]
           k == KindAt(r)
<1>1. /\ r.pc = "look" /\ UNCHANGED <<redis, exists, newestId, settled, legacy, windows, written, prices>>
      /\ IF Migration!OldOf(a) \in exists THEN Migration!Goto(a, "look", "rename") ELSE Migration!NextPair(a)
    BY DEF Migration!Look
<1>2. /\ r \in ActorStates /\ ActorSound(a, r, redis, exists, newestId, settled, written) /\ k \in Migration!Kind
      /\ at \in [Actors -> ActorStates]
    BY InvParts, StateFields
<1>3. a \in Adopts /\ r.page = {}
    BY <1>1, <1>2, PartNames, ZenonT(60) DEF ActorSound
<1>4. Migration!OldOf(a) = OldS(k)
    BY DEF Migration!OldOf, OldS, KindAt
<1>5. CASE OldS(k) \in exists
  <2> DEFINE r2 == [r EXCEPT !.pc = "rename"]
  <2>1. at' = [at EXCEPT ![a] = r2]
    BY <1>1, <1>2, <1>4, <1>5 DEF Migration!Goto
  <2>2. /\ r2 \in ActorStates /\ r2.pc = "rename" /\ r2.page = r.page /\ r2.pair = r.pair
        /\ r2.cursor = r.cursor /\ r2.handed = r.handed
    BY <1>2 DEF ActorStates, Adopting
  <2> HIDE DEF r2
  <2>3. ActorSound(a, r2, redis, exists, newestId, settled, written)
    BY <1>1, <1>2, <1>3, <2>2, PartNames DEF ActorSound
  <2>4. r2.pc # "move" /\ r2.pc \notin {"visit", "drop", "done"}
    BY <2>2
  <2> QED
    BY <1>1, <2>1, <2>2, <2>3, <2>4, QuietStep
<1>6. CASE OldS(k) \notin exists
  <2> DEFINE r2 == Migration!AfterPair(r)
  <2>1. at' = [at EXCEPT ![a] = r2]
    BY <1>1, <1>4, <1>6 DEF Migration!NextPair
  <2>2. redis[OldS(k)] = {}
    BY <1>2, <1>6, InvParts, StreamNames DEF StreamsSound, EachStream
  <2>3. r2 \in ActorStates /\ ActorSound(a, r2, redis, exists, newestId, settled, written) /\ r2.pc \in {"look", "scan"}
    BY <1>1, <1>2, <1>3, <2>2, InvParts, NextPairSound
  <2> HIDE DEF r2
  <2>4. r2.pc # "move" /\ r2.pc \notin {"visit", "drop", "done"}
    BY <2>3
  <2> QED
    BY <1>1, <2>1, <2>3, <2>4, QuietStep
<1> QED
    BY <1>5, <1>6

LEMMA RenameStep ==
    ASSUME MigrationInv, NEW a \in Actors, Migration!Rename(a)
    PROVE  MigrationInv'
<1> DEFINE r == at[a]
           k == KindAt(r)
<1>1. /\ r.pc = "rename" /\ OldS(k) \in exists
      /\ UNCHANGED <<newestId, settled, legacy, windows, written, prices>>
      /\ IF NewS(k) \in exists
         THEN Migration!Goto(a, "rename", "read") /\ UNCHANGED <<redis, exists>>
         ELSE /\ redis' = [redis EXCEPT ![NewS(k)] = redis[OldS(k)], ![OldS(k)] = {}]
              /\ exists' = (exists \ {OldS(k)}) \cup {NewS(k)}
              /\ Migration!NextPair(a)
    BY DEF Migration!Rename, Migration!OldOf, Migration!NewOf, OldS, NewS, KindAt
<1>2. /\ r \in ActorStates /\ ActorSound(a, r, redis, exists, newestId, settled, written) /\ k \in Migration!Kind
      /\ at \in [Actors -> ActorStates]
    BY InvParts, StateFields
<1>3. a \in Adopts /\ r.page = {}
    BY <1>1, <1>2, PartNames, ZenonT(60) DEF ActorSound
<1>5. CASE NewS(k) \in exists
  <2> DEFINE r2 == [r EXCEPT !.pc = "read"]
  <2>1. at' = [at EXCEPT ![a] = r2] /\ UNCHANGED <<redis, exists>>
    BY <1>1, <1>2, <1>5 DEF Migration!Goto
  <2>2. /\ r2 \in ActorStates /\ r2.pc = "read" /\ r2.page = r.page /\ r2.pair = r.pair
        /\ r2.cursor = r.cursor /\ r2.handed = r.handed /\ KindAt(r2) = k
    BY <1>2 DEF ActorStates, Adopting, KindAt
  <2> HIDE DEF r2
  <2>3. ActorSound(a, r2, redis, exists, newestId, settled, written)
    BY <1>1, <1>2, <1>3, <1>5, <2>2, PartNames DEF ActorSound
  <2>4. r2.pc # "move" /\ r2.pc \notin {"visit", "drop", "done"}
    BY <2>2
  <2> QED
    BY <1>1, <2>1, <2>2, <2>3, <2>4, QuietStep
<1>6. CASE NewS(k) \notin exists
  <2> DEFINE r2 == Migration!AfterPair(r)
  <2>1. /\ at' = [at EXCEPT ![a] = r2]
        /\ redis' = [redis EXCEPT ![NewS(k)] = redis[OldS(k)], ![OldS(k)] = {}]
        /\ exists' = (exists \ {OldS(k)}) \cup {NewS(k)}
    BY <1>1, <1>6 DEF Migration!NextPair
  <2>2. StreamsEffect(redis, exists, newestId, settled, redis', exists', newestId', settled', written)
    BY <1>1, <1>2, <1>6, <2>1, InvParts, RenameStreams
  <2>3. /\ redis'[OldS(k)] = {} /\ redis'[NewS(k)] = redis[OldS(k)]
        /\ \A j \in Migration!Kind : j # k => redis'[OldS(j)] = redis[OldS(j)] /\ redis'[NewS(j)] = redis[NewS(j)]
    BY <1>2, <2>1, InvParts, StreamNames
  <2>4. ActorSound(a, r, redis', exists', newestId', settled', written)
    BY <1>2, <2>2, InvParts, ActorKept DEF StreamsEffect
  <2>5. r2 \in ActorStates /\ ActorSound(a, r2, redis', exists', newestId', settled', written) /\ r2.pc \in {"look", "scan"}
    <3>1. /\ redis' \in [Migration!Streams -> SUBSET Migration!Entries] /\ newestId' \in Nat
          /\ NothingLost(redis', settled', written) /\ written \in [Migration!Kind -> SUBSET Loads]
        BY <2>2 DEF StreamsEffect, StreamsInv, StreamTypes
    <3> QED
        BY <1>1, <1>2, <1>3, <2>3, <2>4, <3>1, NextPairSound
  <2> HIDE DEF r2
  <2>7. CopiesSound(redis', at', written)
    <3> SUFFICES ASSUME NEW j \in Migration!Kind, NEW load \in written[j]
                 PROVE  CopySound(redis', at', j, load)
        BY DEF CopiesSound
    <3>1. StreamsSound(redis, exists, newestId, written) /\ CopySound(redis, at, j, load) /\ Adopts \subseteq Actors
        BY InvParts, MigrationConstants DEF CopiesSound
    <3>2. at'[a] = r2 /\ \A b \in Adopts : b # a => at'[b] = at[b]
        BY <1>2, <2>1, <3>1
    <3>3. Movers(at', j, load) \subseteq Movers(at, j, load)
        BY <2>5, <3>2 DEF Movers
    <3>4. CASE j # k
        <4>1. Copies(redis', j, load) \subseteq Copies(redis, j, load) /\ redis'[OldS(j)] \subseteq redis[OldS(j)]
            BY <2>3, <3>4 DEF Copies
        <4> QED
            BY <3>1, <3>3, <4>1, CopiesStay
    <3>5. CASE j = k
        <4>1. Movers(at, k, load) = {}
            <5> SUFFICES ASSUME NEW b \in Movers(at, k, load)
                         PROVE  FALSE
                OBVIOUS
            <5>1. b \in Actors /\ at[b].pc = "move" /\ KindAt(at[b]) = k
                BY <3>1 DEF Movers
            <5>2. NewS(k) \in exists
                <6>1. ActorSound(b, at[b], redis, exists, newestId, settled, written)
                    BY <5>1, InvParts
                <6>2. at[b].pc \in Adopting /\ at[b].pc \in {"read", "move", "delete"}
                    BY <5>1, PartNames
                <6> QED
                    BY <5>1, <6>1, <6>2 DEF ActorSound
            <5> QED
                BY <1>6, <5>2
        <4>2. Movers(at', k, load) = {}
            BY <3>3, <3>5, <4>1
        <4>3. \A e, f \in Copies(redis', k, load) : e = f
            BY <1>2, <2>3, <3>1 DEF Copies, StreamsSound
        <4>4. Cardinality(Copies(redis', k, load)) \in Nat /\ Cardinality(Copies(redis', k, load)) <= 1
            <5>1. CASE Copies(redis', k, load) = {}
                BY <5>1, FS_EmptySet
            <5>2. CASE Copies(redis', k, load) # {}
                <6>1. PICK e : e \in Copies(redis', k, load)
                    BY <5>2
                <6>2. Copies(redis', k, load) = {e}
                    BY <4>3, <6>1
                <6> QED
                    BY <6>2, FS_Singleton
            <5> QED
                BY <5>1, <5>2
        <4>5. Cardinality(Movers(at', k, load)) = 0
            BY <4>2, FS_EmptySet
        <4>6. Cardinality(Copies(redis', k, load)) + Cardinality(Movers(at', k, load)) <= Cardinality(Adopts)
            BY <4>4, <4>5, MigrationConstants
        <4> QED
            BY <2>3, <3>5, <4>6 DEF CopySound
    <3> QED
        BY <3>4, <3>5
  <2>8. r2.pc \notin {"visit", "drop", "done"}
    BY <2>5
  <2> QED
    BY <1>1, <2>1, <2>2, <2>5, <2>7, <2>8, OneStep
<1> QED
    BY <1>5, <1>6

LEMMA ReadPageStep ==
    ASSUME MigrationInv, NEW a \in Actors, Migration!ReadPage(a)
    PROVE  MigrationInv'
<1> DEFINE r == at[a]
           k == KindAt(r)
           S == redis[OldS(k)]
           P == Migration!FirstOf(S, MovePage)
           r2 == [r EXCEPT !.page = P, !.pc = IF S = {} THEN "delete" ELSE "move"]
<1>1. /\ r.pc = "read" /\ UNCHANGED <<redis, exists, newestId, settled, legacy, windows, written, prices>>
      /\ at' = [at EXCEPT ![a] = r2]
    BY InvParts DEF Migration!ReadPage, Migration!OldOf, OldS, KindAt
<1>2. /\ r \in ActorStates /\ ActorSound(a, r, redis, exists, newestId, settled, written) /\ k \in Migration!Kind
      /\ at \in [Actors -> ActorStates]
    BY InvParts, StateFields
<1>3. a \in Adopts /\ r.page = {}
    BY <1>1, <1>2, PartNames, ZenonT(60) DEF ActorSound
<1>4. /\ S \subseteq Migration!Entries /\ IsFiniteSet(S) /\ \A e, f \in S : e.id = f.id => e = f
      /\ \A e, f \in S : e.load = f.load => e = f
      /\ \A e \in S : e.load \in written[k] /\ e.id <= newestId
    BY <1>2, InvParts, StreamNames DEF StreamsSound, EachStream
<1>5. P \subseteq S /\ (S # {} => P # {})
  <2> HIDE DEF S
  <2>1. MovePage \in Nat \ {0}
    BY MigrationConstants
  <2> QED
    BY <1>4, <2>1, FirstPage
<1> HIDE DEF P
<1>6. P \subseteq Migration!Entries
    BY <1>4, <1>5, SMTT(30)
<1>7. /\ r2 \in ActorStates /\ r2.pc = (IF S = {} THEN "delete" ELSE "move") /\ r2.page = P /\ r2.pair = r.pair
      /\ r2.cursor = r.cursor /\ r2.handed = r.handed /\ KindAt(r2) = k
    BY <1>2, <1>6 DEF ActorStates, Adopting, KindAt
<1> HIDE DEF r2
<1>8. ActorSound(a, r2, redis, exists, newestId, settled, written)
  <2>1. /\ r.cursor = 0 /\ r.cursor <= newestId /\ \A e \in r.handed : e.id <= newestId
        /\ \A j \in 1..3 : j < r.pair => redis[OldS(Migration!Kinds[j])] = {}
        /\ NewS(k) \in exists
        /\ r.handed # {} => NewS(Reads(a)) \in exists
        /\ \A e \in r.handed : e.load \in written[Reads(a)] /\ \A f \in redis[NewS(Reads(a))] : e.id = f.id => e = f
    BY <1>1, <1>2, PartNames DEF ActorSound
  <2>2. \A e \in P : /\ e.load \in written[k] /\ e.id <= newestId
                     /\ \A f \in redis[OldS(k)] : e.id = f.id \/ e.load = f.load => e = f
    BY <1>4, <1>5
  <2>3. \A e, f \in P : e.load = f.load => e = f
    BY <1>4, <1>5
  <2>4. CASE S = {}
    <3>1. r2.pc = "delete" /\ r2.page = {} /\ redis[OldS(KindAt(r2))] = {}
        BY <1>5, <1>7, <2>4
    <3>2. r2.pc \notin Taking /\ r2.pc \notin PastScan /\ r2.pc # "down" /\ r2.pc # "scan" /\ r2.pc # "move"
        BY <3>1, PartNames
    <3> QED
        BY <1>3, <1>7, <2>1, <3>1, <3>2 DEF ActorSound
  <2>5. CASE S # {}
    <3>1. r2.pc = "move" /\ r2.page # {}
        BY <1>5, <1>7, <2>5
    <3>2. r2.pc \notin Taking /\ r2.pc \notin PastScan /\ r2.pc # "down" /\ r2.pc # "scan" /\ r2.pc # "delete"
        BY <3>1, PartNames
    <3> QED
        BY <1>3, <1>7, <2>1, <2>2, <2>3, <3>1, <3>2 DEF ActorSound
  <2> QED
    BY <2>4, <2>5
<1>9. CopiesSound(redis, at', written)
  <2> SUFFICES ASSUME NEW j \in Migration!Kind, NEW load \in written[j]
               PROVE  CopySound(redis, at', j, load)
    BY DEF CopiesSound
  <2>1. StreamsSound(redis, exists, newestId, written) /\ CopySound(redis, at, j, load) /\ Adopts \subseteq Actors
    BY InvParts, MigrationConstants DEF CopiesSound
  <2>2. at'[a] = r2 /\ \A b \in Adopts : b # a => at'[b] = at[b]
    BY <1>1, <1>2, <2>1
  <2>3. CASE j = k /\ \E e \in S : e.load = load
    <3>1. Copies(redis, j, load) = {}
        BY <2>1, <2>3 DEF CopySound
    <3>2. Cardinality(Copies(redis, j, load)) = 0
        BY <3>1, FS_EmptySet
    <3>3. Cardinality(Movers(at', j, load)) \in Nat /\ Cardinality(Movers(at', j, load)) <= Cardinality(Adopts)
        BY <2>1, CountsFinite
    <3>4. Cardinality(Copies(redis, j, load)) + Cardinality(Movers(at', j, load)) <= Cardinality(Adopts)
        BY <3>2, <3>3
    <3> QED
        BY <3>1, <3>4 DEF CopySound
  <2>4. CASE ~(j = k /\ \E e \in S : e.load = load)
    <3>1. Movers(at', j, load) \subseteq Movers(at, j, load)
        BY <1>5, <1>7, <2>2, <2>4 DEF Movers
    <3> QED
        BY <2>1, <3>1, CopiesStay
  <2> QED
    BY <2>3, <2>4
<1>10. StreamsEffect(redis, exists, newestId, settled, redis', exists', newestId', settled', written)
    BY <1>1, InvParts, StreamsUnchanged
<1>11. r2.pc \notin {"visit", "drop", "done"}
    BY <1>7
<1> QED
    BY <1>1, <1>7, <1>8, <1>9, <1>10, <1>11, OneStep

Moved(s, n, from, to, e) ==
    [s EXCEPT ![from] = Migration!Without(s[from], e), ![to] = s[to] \cup {[id |-> n + 1, load |-> e.load]}]

\* What XADD and XDEL of an entry make of the streams
LEMMA EntryMovedTo ==
    ASSUME NEW s \in [Migration!Streams -> SUBSET Migration!Entries], NEW n \in Nat,
           NEW from \in Migration!Streams, NEW to \in Migration!Streams, from # to, NEW e \in Migration!Entries,
           \A f \in s[from] : e.id = f.id => e = f
    PROVE  \E e2 \in Migration!Entries :
               /\ e2.id = n + 1 /\ e2.load = e.load
               /\ Moved(s, n, from, to, e) \in [Migration!Streams -> SUBSET Migration!Entries]
               /\ Moved(s, n, from, to, e)[from] = s[from] \ {e} /\ Moved(s, n, from, to, e)[to] = s[to] \cup {e2}
               /\ \A m \in Migration!Streams : m # from /\ m # to => Moved(s, n, from, to, e)[m] = s[m]
<1> DEFINE s2 == Moved(s, n, from, to, e)
           e2 == [id |-> n + 1, load |-> e.load]
<1>1. e2 \in Migration!Entries /\ e2.id = n + 1 /\ e2.load = e.load
  <2>1. e.load \in Loads /\ n + 1 \in Nat \ {0}
    BY EntryFields
  <2> QED
    BY <2>1 DEF Migration!Entries
<1>2. Migration!Without(s[from], e) = s[from] \ {e}
    BY DEF Migration!Without
<1>3. s2 = [s EXCEPT ![from] = s[from] \ {e}, ![to] = s[to] \cup {e2}]
    BY <1>2 DEF Moved
<1> HIDE DEF e2, s2
<1>4. /\ s2 \in [Migration!Streams -> SUBSET Migration!Entries]
      /\ s2[from] = s[from] \ {e} /\ s2[to] = s[to] \cup {e2}
      /\ \A m \in Migration!Streams : m # from /\ m # to => s2[m] = s[m]
    BY <1>1, <1>3
<1> QED
    BY <1>1, <1>4 DEF s2

LEMMA MoveStep ==
    ASSUME MigrationInv, NEW a \in Actors, Migration!Move(a)
    PROVE  MigrationInv'
<1> DEFINE r == at[a]
           k == KindAt(r)
           P == r.page
           e == Migration!Oldest(P)
           r2 == [r EXCEPT !.page = P \ {e}, !.pc = IF P = {e} THEN "read" ELSE "move"]
<1>1. /\ r.pc = "move" /\ UNCHANGED <<settled, legacy, windows, written, prices>>
      /\ at' = [at EXCEPT ![a] = r2]
      /\ redis' = [redis EXCEPT ![OldS(k)] = Migration!Without(redis[OldS(k)], e),
                                ![NewS(k)] = redis[NewS(k)] \cup {[id |-> newestId + 1, load |-> e.load]}]
      /\ exists' = exists \cup {NewS(k)} /\ newestId' = newestId + 1
    BY InvParts DEF Migration!Move, Migration!MoveEntry, Migration!OldOf, Migration!NewOf, OldS, NewS, KindAt
<1>2. /\ r \in ActorStates /\ ActorSound(a, r, redis, exists, newestId, settled, written) /\ k \in Migration!Kind
      /\ at \in [Actors -> ActorStates] /\ P \subseteq Migration!Entries
    BY InvParts, StateFields
<1>3. /\ a \in Adopts /\ P # {} /\ NewS(k) \in exists
      /\ \A f \in P : /\ f.load \in written[k]
                      /\ \A g \in redis[OldS(k)] : f.id = g.id \/ f.load = g.load => f = g
      /\ \A f, g \in P : f.load = g.load => f = g
    BY <1>1, <1>2, PartNames DEF ActorSound
<1>4. e \in P /\ e \in Migration!Entries
    BY <1>2, <1>3, OldestOf
<1> HIDE DEF e
<1>5. PICK e2 \in Migration!Entries :
        /\ e2.id = newestId + 1 /\ e2.load = e.load
        /\ redis' \in [Migration!Streams -> SUBSET Migration!Entries]
        /\ redis'[OldS(k)] = redis[OldS(k)] \ {e} /\ redis'[NewS(k)] = redis[NewS(k)] \cup {e2}
        /\ \A m \in Migration!Streams : m # OldS(k) /\ m # NewS(k) => redis'[m] = redis[m]
  <2>1. OldS(k) \in Migration!Streams /\ NewS(k) \in Migration!Streams /\ OldS(k) # NewS(k)
    BY <1>2, StreamNames
  <2>2. \A f \in redis[OldS(k)] : e.id = f.id => e = f
    BY <1>3, <1>4
  <2>3. redis \in [Migration!Streams -> SUBSET Migration!Entries] /\ newestId \in Nat
    BY InvParts
  <2>4. redis' = Moved(redis, newestId, OldS(k), NewS(k), e)
    BY <1>1 DEF Moved
  <2> HIDE DEF k
  <2> QED
    BY <1>4, <2>1, <2>2, <2>3, <2>4, EntryMovedTo
<1>6. /\ StreamsEffect(redis, exists, newestId, settled, redis', exists', newestId', settled', written)
      /\ e2 \notin redis[NewS(k)]
      /\ \A j \in Migration!Kind : j # k => redis'[OldS(j)] = redis[OldS(j)] /\ redis'[NewS(j)] = redis[NewS(j)]
  <2>1. StreamsInv(redis, exists, newestId, settled, written)
    BY InvParts
  <2>2. e.load \in written[k] /\ \A f \in redis[OldS(k)] : e.id = f.id \/ e.load = f.load => e = f
    BY <1>3, <1>4
  <2>3. settled' = settled /\ exists' = exists \cup {NewS(k)} /\ newestId' = newestId + 1
    BY <1>1
  <2> QED
    BY <1>2, <1>3, <1>4, <1>5, <2>1, <2>2, <2>3, MoveStreams
<1>7. ActorSound(a, r, redis', exists', newestId', settled', written)
    BY <1>2, <1>6, InvParts, ActorKept DEF StreamsEffect
<1>8. /\ r2 \in ActorStates /\ r2.pc = (IF P = {e} THEN "read" ELSE "move") /\ r2.page = P \ {e} /\ r2.pair = r.pair
      /\ r2.cursor = r.cursor /\ r2.handed = r.handed /\ KindAt(r2) = k
    BY <1>2 DEF ActorStates, Adopting, KindAt
<1> HIDE DEF r2
<1>9. ActorSound(a, r2, redis', exists', newestId', settled', written)
  <2>1. /\ r.cursor = 0 /\ r.cursor <= newestId' /\ \A f \in P \cup r.handed : f.id <= newestId'
        /\ \A j \in 1..3 : j < r.pair => redis'[OldS(Migration!Kinds[j])] = {}
        /\ NewS(k) \in exists'
        /\ r.handed # {} => NewS(Reads(a)) \in exists'
        /\ \A f \in r.handed : f.load \in written[Reads(a)] /\ \A g \in redis'[NewS(Reads(a))] : f.id = g.id => f = g
        /\ \A f \in P : /\ f.load \in written[k]
                        /\ \A g \in redis'[OldS(k)] : f.id = g.id \/ f.load = g.load => f = g
        /\ \A f, g \in P : f.load = g.load => f = g
    BY <1>1, <1>7, PartNames DEF ActorSound
  <2>2. r2.pc \notin Taking /\ r2.pc \notin PastScan /\ r2.pc # "down" /\ r2.pc # "scan" /\ r2.pc # "delete"
    BY <1>8, PartNames
  <2>3. CASE P = {e}
    <3>1. r2.pc = "read" /\ r2.page = {} /\ r2.pc # "move"
        BY <1>8, <2>3
    <3> QED
        BY <1>3, <1>8, <2>1, <2>2, <3>1 DEF ActorSound
  <2>4. CASE P # {e}
    <3>1. r2.pc = "move" /\ r2.page # {} /\ r2.page \subseteq P
        BY <1>4, <1>8, <2>4
    <3> QED
        BY <1>3, <1>8, <2>1, <2>2, <3>1 DEF ActorSound
  <2> QED
    BY <2>3, <2>4
<1>10. CopiesSound(redis', at', written)
  <2> SUFFICES ASSUME NEW j \in Migration!Kind, NEW load \in written[j]
               PROVE  CopySound(redis', at', j, load)
    BY DEF CopiesSound
  <2>1. StreamsSound(redis, exists, newestId, written) /\ CopySound(redis, at, j, load) /\ Adopts \subseteq Actors
    BY InvParts, MigrationConstants DEF CopiesSound
  <2>2. at'[a] = r2 /\ \A b \in Adopts : b # a => at'[b] = at[b]
    BY <1>1, <1>2, <2>1
  <2>3. Movers(at', j, load) \subseteq Movers(at, j, load)
    BY <1>1, <1>8, <2>2 DEF Movers
  <2>4. redis'[OldS(j)] \subseteq redis[OldS(j)]
    BY <1>5, <1>6
  <2>5. CASE j # k \/ load # e.load
    <3>1. Copies(redis', j, load) \subseteq Copies(redis, j, load)
        BY <1>5, <1>6, <2>5 DEF Copies
    <3> QED
        BY <2>1, <2>3, <2>4, <3>1, CopiesStay
  <2>6. CASE j = k /\ load = e.load
    <3> DEFINE C == Copies(redis, k, load)
               M == Movers(at, k, load)
    <3>1. Copies(redis', k, load) = C \cup {e2} /\ e2 \notin C
        BY <1>5, <1>6, <2>6 DEF Copies
    <3>2. a \in M /\ a \notin Movers(at', k, load) /\ Movers(at', k, load) \subseteq M \ {a}
      <4>1. a \in M
        BY <1>1, <1>3, <1>4, <2>6 DEF Movers
      <4>2. \A f \in P \ {e} : f.load # load
        BY <1>3, <1>4, <2>6
      <4>3. a \notin Movers(at', k, load)
        BY <1>8, <2>2, <4>2 DEF Movers
      <4> QED
        BY <2>3, <2>6, <4>1, <4>3
    <3>3. /\ IsFiniteSet(C) /\ Cardinality(C) \in Nat /\ IsFiniteSet(M) /\ Cardinality(M) \in Nat
        BY <1>2, <2>1, CountsFinite
    <3>4. Cardinality(C) + Cardinality(M) <= Cardinality(Adopts)
        BY <2>1, <2>6 DEF CopySound
    <3>5. \A f \in redis'[OldS(k)] : f.load # load
        BY <1>3, <1>4, <1>5, <2>6
    <3> HIDE DEF C, M
    <3>6. Cardinality(C \cup {e2}) = Cardinality(C) + 1
        BY <3>1, <3>3, FS_AddElement
    <3>7. IsFiniteSet(M \ {a}) /\ Cardinality(M \ {a}) = Cardinality(M) - 1
        BY <3>2, <3>3, FS_RemoveElement
    <3>8. Cardinality(Movers(at', k, load)) <= Cardinality(M \ {a}) /\ IsFiniteSet(Movers(at', k, load))
        BY <3>2, <3>7, FS_Subset
    <3>9. Cardinality(Movers(at', k, load)) \in Nat
        BY <3>8, FS_CardinalityType
    <3>10. Cardinality(Copies(redis', k, load)) + Cardinality(Movers(at', k, load)) <= Cardinality(Adopts)
      <4>1. Cardinality(Copies(redis', k, load)) = Cardinality(C) + 1
        BY <3>1, <3>6
      <4> QED
        BY <4>1, <3>3, <3>4, <3>7, <3>8, <3>9, MigrationConstants
    <3> QED
        BY <2>6, <3>5, <3>10 DEF CopySound
  <2> QED
    BY <2>5, <2>6
<1>11. r2.pc \notin {"visit", "drop", "done"}
    BY <1>8
<1> QED
    BY <1>1, <1>6, <1>8, <1>9, <1>10, <1>11, OneStep

LEMMA DeleteStep ==
    ASSUME MigrationInv, NEW a \in Actors, Migration!Delete(a)
    PROVE  MigrationInv'
<1> DEFINE r == at[a]
           k == KindAt(r)
           r2 == Migration!AfterPair(r)
<1>1. /\ r.pc = "delete" /\ UNCHANGED <<newestId, settled, legacy, windows, written, prices>>
      /\ at' = [at EXCEPT ![a] = r2]
      /\ redis' = [redis EXCEPT ![OldS(k)] = {}] /\ exists' = exists \ {OldS(k)}
    BY DEF Migration!Delete, Migration!NextPair, Migration!OldOf, OldS, KindAt
<1>2. /\ r \in ActorStates /\ ActorSound(a, r, redis, exists, newestId, settled, written) /\ k \in Migration!Kind
      /\ at \in [Actors -> ActorStates]
    BY InvParts, StateFields
<1>3. a \in Adopts /\ r.page = {} /\ redis[OldS(k)] = {}
  <2>1. r.pc \in Adopting /\ r.pc \notin PastScan /\ r.pc \notin Taking /\ r.pc # "move" /\ r.pc # "down"
    BY <1>1, PartNames
  <2> QED
    BY <1>1, <1>2, <2>1 DEF ActorSound
<1>4. redis' = redis
    BY <1>1, <1>2, <1>3, InvParts, StreamNames
<1>5. StreamsEffect(redis, exists, newestId, settled, redis', exists', newestId', settled', written)
  <2>1. OldS(k) \in Migration!Streams /\ \A j \in Migration!Kind : OldS(k) # NewS(j)
    BY <1>2, StreamNames
  <2>2. StreamsEffect(redis, exists, newestId, settled, redis, exists \ {OldS(k)}, newestId, settled, written)
    BY <1>3, <2>1, InvParts, DeleteStreams
  <2> QED
    BY <1>1, <1>4, <2>2
<1>6. ActorSound(a, r, redis', exists', newestId', settled', written)
    BY <1>2, <1>5, InvParts, ActorKept DEF StreamsEffect
<1>7. r2 \in ActorStates /\ ActorSound(a, r2, redis', exists', newestId', settled', written) /\ r2.pc \in {"look", "scan"}
  <2>1. /\ redis' \in [Migration!Streams -> SUBSET Migration!Entries] /\ newestId' \in Nat
        /\ NothingLost(redis', settled', written) /\ written \in [Migration!Kind -> SUBSET Loads]
    BY <1>5 DEF StreamsEffect, StreamsInv, StreamTypes
  <2>2. redis'[OldS(KindAt(r))] = {}
    BY <1>3, <1>4
  <2> HIDE DEF k
  <2> QED
    BY <1>1, <1>2, <1>3, <1>6, <2>1, <2>2, NextPairSound
<1> HIDE DEF r2
<1>8. CopiesSound(redis', at', written)
    BY <1>1, <1>4, <1>7, CopiesQuiet
<1>9. r2.pc \notin {"visit", "drop", "done"}
    BY <1>7
<1> QED
    BY <1>1, <1>5, <1>7, <1>8, <1>9, OneStep

LEMMA AfterScanIs ==
    ASSUME NEW a
    PROVE  Migration!AfterScan(a) \in PastScan \ {"visit", "drop"} /\ (a \in Windowed => Migration!AfterScan(a) # "done")
BY DEF Migration!AfterScan, PastScan

\* The next page: what it leaves behind is after its last entry.
LEMMA NextPage ==
    ASSUME NEW left, left \subseteq Migration!Entries, left # {}, IsFiniteSet(left), \A e, f \in left : e.id = f.id => e = f,
           NEW n \in Nat, \A e \in left : e.id <= n, NEW P, P = Migration!FirstOf(left, ScanPage)
    PROVE  /\ P \subseteq left /\ P # {} /\ Migration!Newest(P) \in P
           /\ Migration!Newest(P).id \in Nat /\ Migration!Newest(P).id <= n
           /\ \A e \in left : e \in P \/ e.id > Migration!Newest(P).id
           /\ Migration!Cardinality(left) < ScanPage => P = left
<1>1. ScanPage \in Nat \ {0}
    BY MigrationConstants
<1>2. /\ P \subseteq left /\ P # {}
      /\ \A e \in P, f \in left : f.id <= e.id => f \in P
      /\ Migration!Cardinality(left) < ScanPage => P = left
    BY <1>1, FirstPage
<1>3. Migration!Newest(P) \in P
  <2>1. P \subseteq Migration!Entries /\ \A e \in P : e.id <= n
    BY <1>2
  <2> QED
    BY <1>2, <2>1, NewestOf
<1>4. Migration!Newest(P).id \in Nat /\ Migration!Newest(P).id <= n
    BY <1>2, <1>3, EntryFields
<1>5. ASSUME NEW e \in left
      PROVE  e \in P \/ e.id > Migration!Newest(P).id
  <2>1. e.id \in Nat
    BY EntryFields
  <2>2. e.id <= Migration!Newest(P).id => e \in P
    BY <1>2, <1>3
  <2> QED
    BY <1>4, <2>1, <2>2
<1> QED
    BY <1>2, <1>3, <1>4, <1>5

LEMMA ScanStep ==
    ASSUME MigrationInv, NEW a \in Actors, Migration!Scan(a)
    PROVE  MigrationInv'
<1> DEFINE r == at[a]
           k == Reads(a)
           left == {e \in redis[NewS(k)] : e.id > r.cursor}
           P == Migration!FirstOf(left, ScanPage)
<1>1. /\ r.pc = "scan" /\ UNCHANGED <<redis, exists, newestId, settled, legacy, windows, written, prices>>
      /\ IF left = {} THEN Migration!Goto(a, "scan", Migration!AfterScan(a))
         ELSE at' = [at EXCEPT ![a].pc = IF Migration!Cardinality(left) < ScanPage THEN "take last" ELSE "take",
                               ![a].page = P, ![a].cursor = Migration!Newest(P).id]
    BY DEF Migration!Scan, NewS
<1>2. /\ r \in ActorStates /\ ActorSound(a, r, redis, exists, newestId, settled, written) /\ at \in [Actors -> ActorStates]
    BY InvParts, StateFields
<1>3. /\ a \in Adopts /\ r.page = {} /\ r.cursor <= newestId /\ \A e \in r.handed : e.id <= newestId
      /\ r.handed # {} => NewS(k) \in exists
      /\ \A e \in r.handed : e.load \in written[k] /\ \A f \in redis[NewS(k)] : e.id = f.id => e = f
      /\ \A load \in written[k] : Migration!Deserializes(load) =>
            \/ load \in settled
            \/ \E e \in r.handed : e.load = load
            \/ \E e \in left : e.load = load
    BY <1>1, <1>2, PartNames DEF ActorSound
<1>4. k \in {"pending", "dead"} /\ k \in Migration!Kind /\ k # "malformed" /\ NewS(k) \in Migration!Streams
  <2>1. k \in {"pending", "dead"}
    BY <1>3, MigrationConstants
  <2> QED
    BY <2>1, KindsListed, StreamNames
<1>5. CASE left = {}
  <2> DEFINE r2 == [r EXCEPT !.pc = Migration!AfterScan(a)]
  <2>1. at' = [at EXCEPT ![a] = r2]
    BY <1>1, <1>2, <1>5 DEF Migration!Goto
  <2>2. /\ r2 \in ActorStates /\ r2.pc \in PastScan \ {"visit", "drop"} /\ r2.page = r.page
        /\ r2.cursor = r.cursor /\ r2.handed = r.handed /\ (a \in Windowed => r2.pc # "done")
    BY <1>2, AfterScanIs DEF ActorStates
  <2> HIDE DEF r2
  <2>3. r2.pc \notin Taking /\ r2.pc \notin Adopting /\ r2.pc # "down" /\ r2.pc # "scan" /\ r2.pc # "move"
    BY <2>2, PartNames
  <2>4. \A load \in written[k] : Migration!Deserializes(load) => load \in settled \/ \E e \in r.handed : e.load = load
    BY <1>3, <1>5
  <2> HIDE DEF left
  <2>5. ActorSound(a, r2, redis, exists, newestId, settled, written)
    BY <1>3, <2>2, <2>3, <2>4 DEF ActorSound
  <2> QED
    BY <1>1, <2>1, <2>2, <2>3, <2>5, QuietStep
<1>6. CASE left # {}
  <2> DEFINE r2 == [r EXCEPT !.pc = IF Migration!Cardinality(left) < ScanPage THEN "take last" ELSE "take",
                             !.page = P, !.cursor = Migration!Newest(P).id]
  <2>1. at' = [at EXCEPT ![a] = r2]
    BY <1>1, <1>2, <1>6
  <2>2. /\ redis[NewS(k)] \subseteq Migration!Entries /\ IsFiniteSet(redis[NewS(k)]) /\ newestId \in Nat
        /\ \A e \in redis[NewS(k)] : e.id <= newestId /\ e.load \in written[k]
        /\ \A e, f \in redis[NewS(k)] : e.id = f.id => e = f
        /\ NewS(k) \notin exists => redis[NewS(k)] = {}
    BY <1>4, InvParts DEF StreamsSound, EachStream
  <2>3. /\ P \subseteq left /\ P # {} /\ Migration!Newest(P) \in P
        /\ Migration!Newest(P).id \in Nat /\ Migration!Newest(P).id <= newestId
        /\ \A e \in left : e \in P \/ e.id > Migration!Newest(P).id
        /\ Migration!Cardinality(left) < ScanPage => P = left
    <3>1. /\ left \subseteq Migration!Entries /\ left # {} /\ left \subseteq redis[NewS(k)] /\ \A e \in left : e.id <= newestId
          /\ \A e, f \in left : e.id = f.id => e = f
        BY <1>6, <2>2
    <3>2. IsFiniteSet(left)
        BY <2>2, <3>1, FS_Subset
    <3>3. P = Migration!FirstOf(left, ScanPage) /\ newestId \in Nat
        BY <2>2
    <3> HIDE DEF left, P
    <3> QED
        BY <3>1, <3>2, <3>3, NextPage
  <2>4. P \subseteq redis[NewS(k)] /\ P \subseteq Migration!Entries /\ NewS(k) \in exists
    BY <2>2, <2>3
  <2>5. left \subseteq redis[NewS(k)]
    OBVIOUS
  <2> HIDE DEF P, left
  <2>6. /\ r2 \in ActorStates /\ r2.pc = (IF Migration!Cardinality(left) < ScanPage THEN "take last" ELSE "take")
        /\ r2.page = P /\ r2.cursor = Migration!Newest(P).id /\ r2.handed = r.handed
    BY <1>2, <2>3, <2>4 DEF ActorStates, Taking
  <2> HIDE DEF r2
  <2>7. /\ r2.pc \in Taking /\ r2.pc \notin PastScan /\ r2.pc \notin Adopting
        /\ r2.pc # "down" /\ r2.pc # "scan" /\ r2.pc # "move"
        /\ (r2.pc # "take" => P = left)
    BY <2>3, <2>6, PartNames
  <2>8. \A load \in written[k] : Migration!Deserializes(load) =>
            \/ load \in settled
            \/ \E e \in r2.handed : e.load = load
            \/ \E e \in r2.page : e.load = load
            \/ r2.pc = "take" /\ \E e \in redis[NewS(k)] : e.load = load /\ e.id > r2.cursor
    BY <1>3, <2>3, <2>5, <2>6, <2>7
  <2>9. \A e \in P : e.id <= newestId /\ e.load \in written[k] /\ \A f \in redis[NewS(k)] : e.id = f.id => e = f
    BY <2>2, <2>4
  <2>10. ActorSound(a, r2, redis, exists, newestId, settled, written)
    BY <1>3, <2>3, <2>4, <2>6, <2>7, <2>8, <2>9 DEF ActorSound
  <2>11. r2.pc \notin {"visit", "drop", "done"}
    BY <2>6
  <2> QED
    BY <1>1, <2>1, <2>6, <2>7, <2>10, <2>11, QuietStep
<1> QED
    BY <1>5, <1>6, SMTT(30)

LEMMA TakeStep ==
    ASSUME MigrationInv, NEW a \in Actors, Migration!Take(a)
    PROVE  MigrationInv'
<1> DEFINE r == at[a]
           k == Reads(a)
           P == r.page
           e == Migration!Oldest(P)
           kept == Migration!Deserializes(e.load)
           to == IF P # {e} THEN r.pc ELSE IF r.pc = "take" THEN "scan" ELSE Migration!AfterScan(a)
           r2 == [r EXCEPT !.page = P \ {e}, !.pc = to, !.handed = IF kept THEN r.handed \cup {e} ELSE r.handed]
<1>1. r.pc \in {"take", "take last"} /\ UNCHANGED <<settled, legacy, windows, written, prices>> /\ at' = [at EXCEPT ![a] = r2]
    BY InvParts DEF Migration!Take
<1>2. /\ r \in ActorStates /\ ActorSound(a, r, redis, exists, newestId, settled, written) /\ at \in [Actors -> ActorStates]
      /\ P \subseteq Migration!Entries /\ r.handed \subseteq Migration!Entries
    BY InvParts, StateFields
<1>3. r.pc \in Taking /\ r.pc \notin PastScan /\ r.pc \notin Adopting /\ r.pc # "move" /\ r.pc # "down" /\ r.pc # "scan"
    BY <1>1, PartNames
<1>4. /\ a \in Adopts /\ P # {}
      /\ \A f \in P : f.load \in written[k] /\ \A g \in redis[NewS(k)] : f.id = g.id => f = g
    BY <1>2, <1>3 DEF ActorSound
<1>5. e \in P /\ e \in Migration!Entries
    BY <1>2, <1>4, OldestOf
<1>6. /\ k \in {"pending", "dead"} /\ k \in Migration!Kind /\ k # "malformed" /\ "malformed" \in Migration!Kind
      /\ NewS(k) \in Migration!Streams /\ NewS("malformed") \in Migration!Streams /\ NewS(k) # NewS("malformed")
  <2>1. k \in {"pending", "dead"}
    BY <1>4, MigrationConstants
  <2>2. k \in Migration!Kind /\ k # "malformed" /\ "malformed" \in Migration!Kind
    BY <2>1, KindsListed
  <2> QED
    BY <2>1, <2>2, StreamNames
<1>7. /\ StreamsEffect(redis, exists, newestId, settled, redis', exists', newestId', settled', written)
      /\ \A j \in Migration!Kind : redis'[OldS(j)] \subseteq redis[OldS(j)]
      /\ \A j \in Migration!Kind : \A f \in redis'[NewS(j)] : f \in redis[NewS(j)] \/ f.load \notin written[j]
  <2>1. CASE kept
    <3>1. UNCHANGED <<redis, exists, newestId>>
        BY <2>1 DEF Migration!Take
    <3> QED
        BY <1>1, <3>1, InvParts, StreamsUnchanged
  <2>2. CASE ~kept
    <3>1. /\ redis' = [redis EXCEPT ![NewS(k)] = Migration!Without(redis[NewS(k)], e),
                                    ![NewS("malformed")] = redis[NewS("malformed")] \cup {[id |-> newestId + 1, load |-> e.load]}]
          /\ exists' = exists \cup {NewS("malformed")} /\ newestId' = newestId + 1
        BY <2>2 DEF Migration!Take, Migration!MoveEntry, NewS
    <3>2. redis' = Moved(redis, newestId, NewS(k), NewS("malformed"), e)
        BY <3>1 DEF Moved
    <3>3. redis \in [Migration!Streams -> SUBSET Migration!Entries] /\ newestId \in Nat
          /\ StreamsInv(redis, exists, newestId, settled, written)
        BY InvParts
    <3>4. e.load \in written[k] /\ (\A f \in redis[NewS(k)] : e.id = f.id => e = f) /\ ~Migration!Deserializes(e.load)
        BY <1>4, <1>5, <2>2
    <3> HIDE DEF e, k, kept
    <3>5. PICK e2 \in Migration!Entries :
            /\ e2.id = newestId + 1 /\ e2.load = e.load
            /\ redis' \in [Migration!Streams -> SUBSET Migration!Entries]
            /\ redis'[NewS(k)] = redis[NewS(k)] \ {e} /\ redis'[NewS("malformed")] = redis[NewS("malformed")] \cup {e2}
            /\ \A m \in Migration!Streams : m # NewS(k) /\ m # NewS("malformed") => redis'[m] = redis[m]
        BY <1>5, <1>6, <3>2, <3>3, <3>4, EntryMovedTo
    <3>6. /\ StreamsEffect(redis, exists, newestId, settled, redis', exists', newestId', settled', written)
          /\ \A j \in Migration!Kind :
                 redis'[OldS(j)] = redis[OldS(j)] /\ (j # "malformed" => redis'[NewS(j)] \subseteq redis[NewS(j)])
      <4>1. settled' = settled /\ exists' = exists \cup {NewS("malformed")} /\ newestId' = newestId + 1
        BY <1>1, <3>1
      <4>2. EntryMoves(redis, redis', NewS(k), NewS("malformed"), e, e2)
        BY <3>5 DEF EntryMoves
      <4>3. e2 \in Migration!Entries /\ e2.id = newestId + 1 /\ e2.load = e.load
        BY <3>5
      <4>4. StreamsInv(redis, exists, newestId, settled, written)
        BY <3>3
      <4>5. /\ StreamsEffect(redis, exists, newestId, settled,
                             redis', exists \cup {NewS("malformed")}, newestId + 1, settled, written)
            /\ \A j \in Migration!Kind :
                   redis'[OldS(j)] = redis[OldS(j)] /\ (j # "malformed" => redis'[NewS(j)] \subseteq redis[NewS(j)])
        BY <1>5, <1>6, <3>4, <4>2, <4>3, <4>4, QuarantineStreams
      <4> QED
        BY <4>1, <4>5
    <3>7. e2.load \notin written["malformed"]
      <4>1. written[k] \cap written["malformed"] = {}
        BY <1>6, InvParts DEF StreamsSound
      <4> QED
        BY <3>4, <3>5, <4>1
    <3> QED
        BY <3>5, <3>6, <3>7
  <2> QED
    BY <2>1, <2>2
<1>8. ActorSound(a, r, redis', exists', newestId', settled', written)
    BY <1>2, <1>7, InvParts, ActorKept DEF StreamsEffect
<1>9. \A f \in Migration!Entries : Migration!Deserializes(f.load) /\ f = e => kept
    OBVIOUS
<1> HIDE DEF kept
<1> HIDE DEF e
<1>10. to \in {"scan"} \cup Taking \cup (PastScan \ {"visit", "drop"}) /\ (a \in Windowed => to # "done")
    BY <1>1, <1>3, AfterScanIs, PartNames
<1>11. /\ P # {e} => to = r.pc
       /\ P = {e} => to = IF r.pc = "take" THEN "scan" ELSE Migration!AfterScan(a)
    OBVIOUS
<1> HIDE DEF to
<1>12. /\ r2 \in ActorStates /\ r2.pc = to /\ r2.page = P \ {e} /\ r2.cursor = r.cursor
       /\ r2.handed = IF kept THEN r.handed \cup {e} ELSE r.handed
    BY <1>2, <1>5, <1>10 DEF ActorStates
<1> HIDE DEF r2
<1>13. ActorSound(a, r2, redis', exists', newestId', settled', written)
  <2>1. /\ r.cursor <= newestId' /\ \A f \in P \cup r.handed : f.id <= newestId'
        /\ NewS(k) \in exists'
        /\ \A f \in P : f.load \in written[k] /\ \A g \in redis'[NewS(k)] : f.id = g.id => f = g
        /\ \A f \in r.handed : f.load \in written[k] /\ \A g \in redis'[NewS(k)] : f.id = g.id => f = g
        /\ \A load \in written[k] : Migration!Deserializes(load) =>
              \/ load \in settled'
              \/ \E f \in r.handed : f.load = load
              \/ \E f \in P : f.load = load
              \/ r.pc = "take" /\ \E f \in redis'[NewS(k)] : f.load = load /\ f.id > r.cursor
    BY <1>1, <1>3, <1>4, <1>8 DEF ActorSound
  <2>2. r.handed \subseteq r2.handed /\ r2.handed \subseteq r.handed \cup P /\ r2.page \subseteq P
    BY <1>5, <1>12
  <2>3. \A f \in P : Migration!Deserializes(f.load) => f \in r2.page \/ f \in r2.handed
    BY <1>2, <1>5, <1>9, <1>12
  <2>4. r2.pc \notin Adopting /\ r2.pc # "move" /\ r2.pc # "down"
    BY <1>10, <1>12, PartNames
  <2>5. r2.page # {} <=> r2.pc \in Taking
    <3>1. P # {e} => r2.pc \in Taking /\ r2.page # {}
        BY <1>3, <1>5, <1>11, <1>12
    <3>2. P = {e} => r2.pc \notin Taking /\ r2.page = {}
        BY <1>11, <1>12, AfterScanIs, PartNames
    <3> QED
        BY <3>1, <3>2
  <2>6. r.pc = "take" => r2.pc \in {"scan", "take"}
    BY <1>11, <1>12
  <2>7. \A load \in written[k] : Migration!Deserializes(load) =>
            \/ load \in settled'
            \/ \E f \in r2.handed : f.load = load
            \/ r2.pc \in Taking /\ \E f \in r2.page : f.load = load
            \/ r2.pc \in {"scan", "take"} /\ \E f \in redis'[NewS(k)] : f.load = load /\ f.id > r2.cursor
    <3> SUFFICES ASSUME NEW load \in written[k], Migration!Deserializes(load)
                 PROVE  \/ load \in settled'
                        \/ \E f \in r2.handed : f.load = load
                        \/ r2.pc \in Taking /\ \E f \in r2.page : f.load = load
                        \/ r2.pc \in {"scan", "take"} /\ \E f \in redis'[NewS(k)] : f.load = load /\ f.id > r2.cursor
        OBVIOUS
    <3>1. CASE \E f \in P : f.load = load
        BY <2>3, <2>5, <3>1
    <3>2. CASE r.pc = "take" /\ \E f \in redis'[NewS(k)] : f.load = load /\ f.id > r.cursor
        BY <1>12, <2>6, <3>2
    <3> QED
        BY <2>1, <2>2, <3>1, <3>2
  <2> QED
    BY <1>4, <1>12, <2>1, <2>2, <2>4, <2>5, <2>7 DEF ActorSound
<1>14. r2.pc # "move" /\ r2.pc \notin {"visit", "drop"} /\ (a \in Windowed => r2.pc # "done")
    BY <1>10, <1>12, PartNames
<1>15. CopiesSound(redis', at', written)
    BY <1>1, <1>7, <1>12, <1>14, CopiesQuiet
<1> QED
    BY <1>1, <1>7, <1>12, <1>13, <1>14, <1>15, OneStep

LEMMA SettleStep ==
    ASSUME MigrationInv, NEW a \in Actors, NEW e \in at[a].handed, Migration!Settle(a, e)
    PROVE  MigrationInv'
<1> DEFINE r == at[a]
           k == Reads(a)
           r2 == [r EXCEPT !.handed = r.handed \ {e}]
<1>1. /\ UNCHANGED <<exists, newestId, legacy, windows, written, prices>> /\ at' = [at EXCEPT ![a] = r2]
      /\ redis' = [redis EXCEPT ![NewS(k)] = Migration!Without(redis[NewS(k)], e)]
      /\ settled' = settled \cup {e.load}
    BY InvParts DEF Migration!Settle, NewS
<1>2. /\ r \in ActorStates /\ ActorSound(a, r, redis, exists, newestId, settled, written) /\ at \in [Actors -> ActorStates]
      /\ r.handed \subseteq Migration!Entries /\ e \in Migration!Entries
    BY InvParts, StateFields
<1>3. a \in Adopts /\ \A f \in redis[NewS(k)] : e.id = f.id => e = f
    BY <1>2 DEF ActorSound
<1>4. k \in {"pending", "dead"} /\ k \in Migration!Kind /\ k # "malformed" /\ NewS(k) \in Migration!Streams
  <2>1. k \in {"pending", "dead"}
    BY <1>3, MigrationConstants
  <2> QED
    BY <2>1, KindsListed, StreamNames
<1>5. /\ redis' \in [Migration!Streams -> SUBSET Migration!Entries] /\ redis'[NewS(k)] = redis[NewS(k)] \ {e}
      /\ \A m \in Migration!Streams : m # NewS(k) => redis'[m] = redis[m]
  <2>1. Migration!Without(redis[NewS(k)], e) = redis[NewS(k)] \ {e}
    BY <1>3 DEF Migration!Without
  <2> QED
    BY <1>1, <1>4, <2>1, InvParts
<1>6. /\ StreamsEffect(redis, exists, newestId, settled, redis', exists', newestId', settled', written)
      /\ \A j \in Migration!Kind : redis'[OldS(j)] = redis[OldS(j)] /\ redis'[NewS(j)] \subseteq redis[NewS(j)]
  <2>1. /\ StreamsEffect(redis, exists, newestId, settled, redis', exists, newestId, settled \cup {e.load}, written)
        /\ \A j \in Migration!Kind : redis'[OldS(j)] = redis[OldS(j)] /\ redis'[NewS(j)] \subseteq redis[NewS(j)]
    <3>1. StreamsInv(redis, exists, newestId, settled, written)
        BY InvParts
    <3> HIDE DEF k
    <3> QED
        BY <1>2, <1>4, <1>5, <3>1, SettleStreams
  <2> QED
    BY <1>1, <2>1
<1>7. ActorSound(a, r, redis', exists', newestId', settled', written)
    BY <1>2, <1>6, InvParts, ActorKept DEF StreamsEffect
<1>8. /\ r2 \in ActorStates /\ r2.pc = r.pc /\ r2.page = r.page /\ r2.cursor = r.cursor /\ r2.pair = r.pair
      /\ r2.handed = r.handed \ {e} /\ r2.todo = r.todo /\ r2.item = r.item /\ KindAt(r2) = KindAt(r)
    BY <1>2 DEF ActorStates, KindAt
<1> HIDE DEF r2
<1>9. e.load \in settled'
    BY <1>1
<1>10. ActorSound(a, r2, redis', exists', newestId', settled', written)
  <2>1. \A load \in written[k] : (\E f \in r.handed : f.load = load) => load \in settled' \/ \E f \in r2.handed : f.load = load
    BY <1>8, <1>9
  <2>2. r2.handed \subseteq r.handed
    BY <1>8
  <2> QED
    BY <1>7, <1>8, <2>1, <2>2 DEF ActorSound
<1>11. CopiesSound(redis', at', written)
    BY <1>1, <1>6, <1>8, CopiesQuiet
<1> QED
    BY <1>1, <1>6, <1>8, <1>10, <1>11, OneStep

LEMMA FailStep ==
    ASSUME MigrationInv, NEW a \in Actors, Migration!Fail(a)
    PROVE  MigrationInv'
<1> DEFINE r2 == Migration!Down
<1>1. UNCHANGED <<redis, exists, newestId, settled, legacy, windows, written, prices>> /\ at' = [at EXCEPT ![a] = r2]
    BY DEF Migration!Fail
<1>2. /\ r2 \in ActorStates /\ r2.pc = "down" /\ r2.page = {} /\ r2.cursor = 0 /\ r2.handed = {} /\ r2.pair = 1
    BY DEF Migration!Down, ActorStates
<1> HIDE DEF r2
<1>3. r2.pc \notin Taking /\ r2.pc \notin PastScan /\ r2.pc \notin Adopting /\ r2.pc # "move" /\ r2.pc # "scan"
    BY <1>2, PartNames
<1>4. newestId \in Nat /\ 0 <= newestId
    BY InvParts
<1>5. ActorSound(a, r2, redis, exists, newestId, settled, written)
    BY <1>2, <1>3, <1>4 DEF ActorSound
<1>6. r2.pc \notin {"visit", "drop", "done"}
    BY <1>2
<1> QED
    BY <1>1, <1>2, <1>3, <1>5, <1>6, QuietStep

-----------------------------------------------------------------------------
(* The windows.                                                            *)

LEMMA WindowStep ==
    ASSUME MigrationInv, NEW a \in Actors, NEW r2 \in ActorStates, at' = [at EXCEPT ![a] = r2],
           at[a].pc \in PastScan, r2.pc \in PastScan,
           r2.page = at[a].page, r2.pair = at[a].pair, r2.cursor = at[a].cursor, r2.handed = at[a].handed,
           UNCHANGED <<redis, exists, newestId, settled, written, prices>>,
           legacy' \subseteq Items, windows' \in [Items -> {"none", "newer", "kept", "fresh"}], WindowsSound'
    PROVE  MigrationInv'
<1> DEFINE r == at[a]
<1>1. r \in ActorStates /\ ActorSound(a, r, redis, exists, newestId, settled, written)
    BY InvParts
<1>2. \A p \in {r.pc, r2.pc} : p \notin Taking /\ p \notin Adopting /\ p # "move" /\ p # "down" /\ p # "scan"
    BY PartNames
<1>3. ActorSound(a, r2, redis, exists, newestId, settled, written)
  <2>1. r2.pc \notin {"scan", "take"} /\ r.pc \notin {"scan", "take"}
    BY <1>2, PartNames
  <2> QED
    BY <1>1, <1>2, <2>1 DEF ActorSound
<1>4. StreamsEffect(redis, exists, newestId, settled, redis', exists', newestId', settled', written)
    BY InvParts, StreamsUnchanged
<1>5. /\ at' \in [Actors -> ActorStates] /\ StreamsInv(redis, exists, newestId, settled, written)'
      /\ \A b \in Actors : ActorSound(b, at[b], redis, exists, newestId, settled, written)'
    BY <1>3, <1>4, OneActor
<1>6. CopiesSound(redis', at', written')
  <2>1. r2.pc # "move"
    BY <1>2
  <2> QED
    BY <2>1, CopiesQuiet
<1>7. MigrationTypes'
    BY <1>5 DEF MigrationInv, MigrationTypes
<1> QED
    BY <1>5, <1>6, <1>7 DEF MigrationInv

LEMMA WindowFacts ==
    ASSUME MigrationInv, NEW a \in Actors
    PROVE  /\ at \in [Actors -> ActorStates] /\ at[a] \in ActorStates
           /\ legacy \subseteq Items /\ windows \in [Items -> {"none", "newer", "kept", "fresh"}] /\ prices \subseteq Items
           /\ \A i \in prices : windows[i] # "fresh" /\ (i \in legacy \/ windows[i] # "none")
           /\ \A b \in Actors :
               /\ at[b].pc = "visit" => legacy \subseteq at[b].todo
               /\ at[b].pc = "drop" => legacy \subseteq at[b].todo \cup at[b].item /\ \A i \in at[b].item : windows[i] # "none"
               /\ b \in Windowed /\ at[b].pc = "done" => legacy = {}
BY DEF MigrationInv, MigrationTypes, WindowsSound

LEMMA ScanWindowsStep ==
    ASSUME MigrationInv, NEW a \in Actors, Migration!ScanWindows(a)
    PROVE  MigrationInv'
<1> DEFINE r2 == [at[a] EXCEPT !.pc = "visit", !.todo = legacy]
<1>1. /\ at[a].pc = "windows" /\ at' = [at EXCEPT ![a] = r2]
      /\ UNCHANGED <<redis, exists, newestId, settled, legacy, windows, written, prices>>
    BY WindowFacts DEF Migration!ScanWindows
<1>2. /\ r2 \in ActorStates /\ r2.pc = "visit" /\ r2.todo = legacy
      /\ r2.page = at[a].page /\ r2.pair = at[a].pair /\ r2.cursor = at[a].cursor /\ r2.handed = at[a].handed
    BY WindowFacts DEF ActorStates, PastScan
<1> HIDE DEF r2
<1>3. at'[a] = r2 /\ \A b \in Actors : b # a => at'[b] = at[b]
    BY <1>1, WindowFacts
<1>4. WindowsSound'
    BY <1>1, <1>2, <1>3, WindowFacts DEF WindowsSound
<1>5. legacy' \subseteq Items /\ windows' \in [Items -> {"none", "newer", "kept", "fresh"}]
    BY <1>1, WindowFacts
<1> QED
    BY <1>1, <1>2, <1>4, <1>5, WindowStep, PartNames

LEMMA RenameWindowStep ==
    ASSUME MigrationInv, NEW a \in Actors, NEW i \in Items, Migration!RenameWindow(a, i)
    PROVE  MigrationInv'
<1>1. /\ at[a].pc = "visit" /\ i \in at[a].todo /\ i \in legacy
      /\ UNCHANGED <<redis, exists, newestId, settled, written, prices>>
    BY DEF Migration!RenameWindow
<1>2. CASE windows[i] = "none"
  <2>1. windows' = [windows EXCEPT ![i] = "kept"] /\ legacy' = legacy \ {i}
    BY <1>2 DEF Migration!RenameWindow
  <2>2. PICK r2 \in {at[a], [at[a] EXCEPT !.todo = at[a].todo \ {i}]} : at' = [at EXCEPT ![a] = r2]
    <3>1. at' = [at EXCEPT ![a] = [at[a] EXCEPT !.todo = at[a].todo \ {i}]] \/ at' = at
        BY <1>2, WindowFacts DEF Migration!RenameWindow
    <3>2. at = [at EXCEPT ![a] = at[a]]
        BY WindowFacts
    <3> QED
        BY <3>1, <3>2
  <2>3. /\ r2 \in ActorStates /\ r2.pc = "visit" /\ at[a].todo \ {i} \subseteq r2.todo /\ r2.item = at[a].item
        /\ r2.page = at[a].page /\ r2.pair = at[a].pair /\ r2.cursor = at[a].cursor /\ r2.handed = at[a].handed
    BY <1>1, WindowFacts DEF ActorStates
  <2>4. at'[a] = r2 /\ \A b \in Actors : b # a => at'[b] = at[b]
    BY <2>2, WindowFacts
  <2>5. /\ \A j \in Items : windows'[j] = windows[j] \/ (j = i /\ windows'[j] = "kept")
        /\ windows'[i] = "kept" /\ windows' \in [Items -> {"none", "newer", "kept", "fresh"}]
    BY <2>1, WindowFacts
  <2>6. WindowsSound'
    <3>1. \A j \in prices' : windows'[j] # "fresh" /\ (j \in legacy' \/ windows'[j] # "none")
        BY <1>1, <2>1, <2>5, WindowFacts
    <3>2. ASSUME NEW b \in Actors
          PROVE  /\ at'[b].pc = "visit" => legacy' \subseteq at'[b].todo
                 /\ at'[b].pc = "drop" =>
                       legacy' \subseteq at'[b].todo \cup at'[b].item /\ \A j \in at'[b].item : windows'[j] # "none"
                 /\ b \in Windowed /\ at'[b].pc = "done" => legacy' = {}
      <4>1. CASE b = a
        BY <1>1, <2>1, <2>3, <2>4, <4>1, WindowFacts
      <4>2. CASE b # a
        <5>1. at'[b] = at[b] /\ at[b] \in ActorStates
            BY <2>4, <4>2, WindowFacts
        <5>2. at[b].item \subseteq Items
            BY <5>1, StateFields
        <5> QED
            BY <2>1, <2>5, <5>1, <5>2, WindowFacts
      <4> QED
        BY <4>1, <4>2
    <3> QED
        BY <3>1, <3>2 DEF WindowsSound
  <2>7. legacy' \subseteq Items
    BY <2>1, WindowFacts
  <2> QED
    BY <1>1, <2>2, <2>3, <2>5, <2>6, <2>7, WindowStep, PartNames
<1>3. CASE windows[i] # "none"
  <2> DEFINE r2 == [at[a] EXCEPT !.pc = "drop", !.todo = at[a].todo \ {i}, !.item = {i}]
  <2>1. at' = [at EXCEPT ![a] = r2] /\ UNCHANGED <<legacy, windows>>
    BY <1>3, WindowFacts DEF Migration!RenameWindow
  <2>2. /\ r2 \in ActorStates /\ r2.pc = "drop" /\ r2.todo = at[a].todo \ {i} /\ r2.item = {i}
        /\ r2.page = at[a].page /\ r2.pair = at[a].pair /\ r2.cursor = at[a].cursor /\ r2.handed = at[a].handed
    BY WindowFacts DEF ActorStates, PastScan
  <2> HIDE DEF r2
  <2>3. at'[a] = r2 /\ \A b \in Actors : b # a => at'[b] = at[b]
    BY <2>1, WindowFacts
  <2>4. WindowsSound'
    <3>1. legacy \subseteq at[a].todo
        BY <1>1, WindowFacts
    <3> QED
        BY <1>1, <1>3, <2>1, <2>2, <2>3, <3>1, WindowFacts DEF WindowsSound
  <2>5. legacy' \subseteq Items /\ windows' \in [Items -> {"none", "newer", "kept", "fresh"}]
    BY <2>1, WindowFacts
  <2> QED
    BY <1>1, <2>1, <2>2, <2>4, <2>5, WindowStep, PartNames
<1> QED
    BY <1>2, <1>3

LEMMA DeleteWindowStep ==
    ASSUME MigrationInv, NEW a \in Actors, Migration!DeleteWindow(a)
    PROVE  MigrationInv'
<1> DEFINE r2 == [at[a] EXCEPT !.pc = "visit"]
<1>1. /\ at[a].pc = "drop" /\ at' = [at EXCEPT ![a] = r2] /\ legacy' = legacy \ at[a].item
      /\ UNCHANGED <<redis, exists, newestId, settled, windows, written, prices>>
    BY WindowFacts DEF Migration!DeleteWindow, Migration!Goto
<1>2. /\ r2 \in ActorStates /\ r2.pc = "visit" /\ r2.todo = at[a].todo /\ r2.item = at[a].item
      /\ r2.page = at[a].page /\ r2.pair = at[a].pair /\ r2.cursor = at[a].cursor /\ r2.handed = at[a].handed
    BY WindowFacts DEF ActorStates, PastScan
<1> HIDE DEF r2
<1>3. at'[a] = r2 /\ \A b \in Actors : b # a => at'[b] = at[b]
    BY <1>1, WindowFacts
<1>4. legacy \subseteq at[a].todo \cup at[a].item /\ \A i \in at[a].item : windows[i] # "none"
    BY <1>1, WindowFacts
<1>5. WindowsSound'
  <2>1. \A i \in prices' : windows'[i] # "fresh" /\ (i \in legacy' \/ windows'[i] # "none")
    BY <1>1, <1>4, WindowFacts
  <2>2. ASSUME NEW b \in Actors
        PROVE  /\ at'[b].pc = "visit" => legacy' \subseteq at'[b].todo
               /\ at'[b].pc = "drop" =>
                     legacy' \subseteq at'[b].todo \cup at'[b].item /\ \A i \in at'[b].item : windows'[i] # "none"
               /\ b \in Windowed /\ at'[b].pc = "done" => legacy' = {}
    <3>1. CASE b = a
        BY <1>1, <1>2, <1>3, <1>4, <3>1
    <3>2. CASE b # a
        BY <1>1, <1>3, <3>2, WindowFacts
    <3> QED
        BY <3>1, <3>2
  <2> QED
    BY <2>1, <2>2 DEF WindowsSound
<1>6. legacy' \subseteq Items /\ windows' \in [Items -> {"none", "newer", "kept", "fresh"}]
    BY <1>1, WindowFacts
<1> QED
    BY <1>1, <1>2, <1>5, <1>6, WindowStep, PartNames

LEMMA MigratedStep ==
    ASSUME MigrationInv, NEW a \in Actors, Migration!Migrated(a)
    PROVE  MigrationInv'
<1> DEFINE r2 == [at[a] EXCEPT !.pc = "done"]
<1>1. /\ at[a].pc = "visit" /\ at[a].todo = {} /\ at' = [at EXCEPT ![a] = r2]
      /\ UNCHANGED <<redis, exists, newestId, settled, legacy, windows, written, prices>>
    BY WindowFacts DEF Migration!Migrated, Migration!Goto
<1>2. /\ r2 \in ActorStates /\ r2.pc = "done"
      /\ r2.page = at[a].page /\ r2.pair = at[a].pair /\ r2.cursor = at[a].cursor /\ r2.handed = at[a].handed
    BY WindowFacts DEF ActorStates, PastScan
<1> HIDE DEF r2
<1>3. at'[a] = r2 /\ \A b \in Actors : b # a => at'[b] = at[b]
    BY <1>1, WindowFacts
<1>4. legacy = {}
    BY <1>1, WindowFacts
<1>5. WindowsSound'
    BY <1>1, <1>2, <1>3, <1>4, WindowFacts DEF WindowsSound
<1>6. legacy' \subseteq Items /\ windows' \in [Items -> {"none", "newer", "kept", "fresh"}]
    BY <1>1, WindowFacts
<1> QED
    BY <1>1, <1>2, <1>5, <1>6, WindowStep, PartNames

LEMMA PushStep ==
    ASSUME MigrationInv, NEW a \in Actors, NEW i \in Items, Migration!Push(a, i)
    PROVE  MigrationInv'
<1>1. /\ a \in Windowed /\ at[a].pc = "done" /\ windows[i] = "none" /\ windows' = [windows EXCEPT ![i] = "fresh"]
      /\ UNCHANGED <<redis, exists, newestId, settled, legacy, at, written, prices>>
    BY DEF Migration!Push
<1>2. i \notin prices /\ legacy = {}
    BY <1>1, WindowFacts
<1>3. /\ \A j \in Items : windows'[j] = windows[j] \/ (j = i /\ windows'[j] = "fresh")
      /\ windows' \in [Items -> {"none", "newer", "kept", "fresh"}]
    BY <1>1, WindowFacts
<1>4. WindowsSound'
  <2>1. \A j \in prices' : windows'[j] # "fresh" /\ (j \in legacy' \/ windows'[j] # "none")
    BY <1>1, <1>2, <1>3, WindowFacts
  <2>2. ASSUME NEW b \in Actors
        PROVE  /\ at'[b].pc = "visit" => legacy' \subseteq at'[b].todo
               /\ at'[b].pc = "drop" =>
                     legacy' \subseteq at'[b].todo \cup at'[b].item /\ \A j \in at'[b].item : windows'[j] # "none"
               /\ b \in Windowed /\ at'[b].pc = "done" => legacy' = {}
    <3>1. at[b] \in ActorStates /\ at[b].item \subseteq Items
        BY WindowFacts, StateFields
    <3> QED
        BY <1>1, <1>2, <1>3, <3>1, WindowFacts
  <2> QED
    BY <2>1, <2>2 DEF WindowsSound
<1>5. at' = [at EXCEPT ![a] = at[a]] /\ at[a] \in ActorStates
    BY <1>1, WindowFacts
<1>6. legacy' \subseteq Items
    BY <1>1, WindowFacts
<1> QED
    BY <1>1, <1>3, <1>4, <1>5, <1>6, WindowStep, PartNames, ZenonT(60)

-----------------------------------------------------------------------------
LEMMA MigrationInit == Migration!Init => MigrationInv
<1> SUFFICES ASSUME Migration!Init
             PROVE  MigrationInv
    OBVIOUS
<1>1. PICK b \in Before : Migration!InitWith(b)
    BY DEF Migration!Init
<1>2. /\ redis = b.streams /\ exists = b.exists /\ newestId = b.newestId /\ legacy = b.legacy /\ windows = b.windows
      /\ at = [a \in Actors |-> Migration!Down] /\ settled = {} /\ prices = b.legacy
      /\ written = [k \in Migration!Kind |-> {e.load : e \in b.streams[OldS(k)] \cup b.streams[NewS(k)]}]
    BY <1>1 DEF Migration!InitWith, OldS, NewS
<1>3. Migration!BeforeSound(b)
    BY MigrationConstants
<1>4. /\ redis \in [Migration!Streams -> SUBSET Migration!Entries] /\ exists \subseteq Migration!Streams /\ newestId \in Nat
      /\ legacy \subseteq Items /\ windows \in [Items -> {"none", "newer"}]
      /\ \A m \in Migration!Streams :
          /\ IsFiniteSet(redis[m])
          /\ m \notin exists => redis[m] = {}
          /\ \A e \in redis[m] : e.id <= newestId
      /\ \A m, n \in Migration!Streams : \A e \in redis[m], f \in redis[n] :
          e.load = f.load \/ (e.id = f.id /\ m = n) => m = n /\ e = f
    BY <1>2, <1>3, MigrationCounts DEF Migration!BeforeSound
<1>5. \A k \in Migration!Kind : written[k] = {e.load : e \in redis[OldS(k)] \cup redis[NewS(k)]}
    BY <1>2
<1>6. \A k \in Migration!Kind : OldS(k) \in Migration!Streams /\ NewS(k) \in Migration!Streams /\ OldS(k) # NewS(k)
    BY StreamNames
<1>7. MigrationTypes
  <2>1. Migration!Down \in ActorStates
    BY DEF Migration!Down, ActorStates
  <2> QED
    BY <1>2, <1>4, <2>1 DEF MigrationTypes
<1>8. StreamsInv(redis, exists, newestId, settled, written)
  <2>1. StreamTypes(redis, exists, newestId, settled, written)
    <3>1. \A k \in Migration!Kind : {e.load : e \in redis[OldS(k)] \cup redis[NewS(k)]} \subseteq Loads
        BY <1>4, <1>6, EntryFields
    <3>2. written \in [Migration!Kind -> SUBSET Loads]
        BY <1>2, <3>1
    <3> QED
        BY <1>2, <1>4, <3>2 DEF StreamTypes
  <2>2. EachStream(redis, exists, newestId)
    BY <1>4 DEF EachStream
  <2>3. \A k \in Migration!Kind :
        /\ \A e, f \in redis[OldS(k)] : e.load = f.load => e = f
        /\ \A e \in redis[OldS(k)] : e.load \in written[k]
        /\ \A e \in redis[NewS(k)] : e.load \in written[k] \/ k = "malformed"
    BY <1>4, <1>5, <1>6
  <2>4. ASSUME NEW j \in Migration!Kind, NEW k \in Migration!Kind, j # k
        PROVE  written[j] \cap written[k] = {}
    <3> SUFFICES ASSUME NEW load \in written[j], load \in written[k]
                 PROVE  FALSE
        OBVIOUS
    <3>1. PICK e : e \in redis[OldS(j)] \cup redis[NewS(j)] /\ e.load = load
        BY <1>5
    <3>2. PICK f : f \in redis[OldS(k)] \cup redis[NewS(k)] /\ f.load = load
        BY <1>5
    <3>3. PICK m \in {OldS(j), NewS(j)} : e \in redis[m]
        BY <3>1
    <3>4. PICK n \in {OldS(k), NewS(k)} : f \in redis[n]
        BY <3>2
    <3>5. m # n /\ m \in Migration!Streams /\ n \in Migration!Streams
        BY <2>4, StreamNames
    <3> QED
        BY <1>4, <3>1, <3>2, <3>3, <3>4, <3>5
  <2>5. NothingLost(redis, settled, written)
    BY <1>5 DEF NothingLost
  <2> QED
    BY <2>1, <2>2, <2>3, <2>4, <2>5 DEF StreamsInv, StreamsSound
<1>9. ASSUME NEW a \in Actors
      PROVE  ActorSound(a, at[a], redis, exists, newestId, settled, written)
  <2> DEFINE r == at[a]
  <2>1. r.pc = "down" /\ r.page = {} /\ r.cursor = 0 /\ r.handed = {} /\ r.pair = 1
    BY <1>2 DEF Migration!Down
  <2> HIDE DEF r
  <2>2. r.pc \notin Taking /\ r.pc \notin PastScan /\ r.pc \notin Adopting /\ r.pc # "move" /\ r.pc # "scan"
    BY <2>1, PartNames
  <2>3. 0 <= newestId
    BY <1>4
  <2>4. ActorSound(a, r, redis, exists, newestId, settled, written)
    BY <2>1, <2>2, <2>3 DEF ActorSound
  <2> QED
    BY <2>4 DEF r
<1>10. CopiesSound(redis, at, written)
  <2> SUFFICES ASSUME NEW k \in Migration!Kind, NEW load \in written[k]
               PROVE  CopySound(redis, at, k, load)
    BY DEF CopiesSound
  <2>1. (\E e \in redis[OldS(k)] : e.load = load) => Copies(redis, k, load) = {}
    BY <1>4, <1>6 DEF Copies
  <2>2. Movers(at, k, load) = {}
    BY <1>2, MigrationConstants DEF Movers, Migration!Down
  <2>3. \A e, f \in Copies(redis, k, load) : e = f
    BY <1>4, <1>6 DEF Copies
  <2>4. Cardinality(Copies(redis, k, load)) \in Nat /\ Cardinality(Copies(redis, k, load)) <= 1
    <3>1. CASE Copies(redis, k, load) = {}
        BY <3>1, FS_EmptySet
    <3>2. CASE Copies(redis, k, load) # {}
        <4>1. PICK e : e \in Copies(redis, k, load)
            BY <3>2
        <4>2. Copies(redis, k, load) = {e}
            BY <2>3, <4>1
        <4>3. Cardinality({e}) = 1
            BY FS_Singleton
        <4> QED
            BY <4>2, <4>3
    <3> QED
        BY <3>1, <3>2
  <2>5. Cardinality(Movers(at, k, load)) = 0
    BY <2>2, FS_EmptySet
  <2>6. Cardinality(Copies(redis, k, load)) + Cardinality(Movers(at, k, load)) <= Cardinality(Adopts)
    BY <2>4, <2>5, MigrationConstants
  <2> QED
    BY <2>1, <2>6 DEF CopySound
<1>11. WindowsSound
    BY <1>2, <1>4 DEF WindowsSound, Migration!Down
<1> QED
    BY <1>7, <1>8, <1>9, <1>10, <1>11 DEF MigrationInv

LEMMA MigrationStutters == MigrationInv /\ UNCHANGED migration => MigrationInv'
<1> SUFFICES ASSUME MigrationInv, UNCHANGED migration
             PROVE  MigrationInv'
    OBVIOUS
<1>1. UNCHANGED <<redis, exists, newestId, legacy, windows, at, settled, written, prices>>
    BY DEF migration
<1> QED
    BY <1>1 DEF MigrationInv, MigrationTypes, WindowsSound

LEMMA MigrationSteps == MigrationInv /\ [Migration!Next]_migration => MigrationInv'
<1> SUFFICES ASSUME MigrationInv, Migration!Next
             PROVE  MigrationInv'
    BY MigrationStutters
<1>1. PICK a \in Actors :
        \/ Migration!Start(a) \/ Migration!Look(a) \/ Migration!Rename(a) \/ Migration!ReadPage(a) \/ Migration!Move(a)
        \/ Migration!Delete(a) \/ Migration!Scan(a) \/ Migration!Take(a)
        \/ (\E e \in at[a].handed : Migration!Settle(a, e)) \/ Migration!Fail(a)
        \/ Migration!ScanWindows(a) \/ Migration!DeleteWindow(a) \/ Migration!Migrated(a)
        \/ \E i \in Items : Migration!RenameWindow(a, i) \/ Migration!Push(a, i)
    BY DEF Migration!Next
<1> QED
    BY <1>1, StartStep, LookStep, RenameStep, ReadPageStep, MoveStep, DeleteStep, ScanStep, TakeStep, SettleStep, FailStep,
       ScanWindowsStep, DeleteWindowStep, MigratedStep, RenameWindowStep, PushStep

LEMMA MigrationKeeps == MigrationInv => Adopted
<1> SUFFICES ASSUME MigrationInv
             PROVE  Adopted
    OBVIOUS
<1>0. /\ StreamsSound(redis, exists, newestId, written) /\ NothingLost(redis, settled, written)
      /\ CopiesSound(redis, at, written) /\ WindowsSound /\ Adopts \subseteq Actors
    BY MigrationConstants DEF MigrationInv, StreamsInv
<1>1. Migration!Kept
  <2> SUFFICES ASSUME NEW k \in Migration!Kind, NEW load \in written[k]
               PROVE  /\ \/ load \in Migration!LoadsIn(OldS(k)) \cup Migration!LoadsIn(NewS(k)) \cup settled
                         \/ Form(load) = "broken" /\ load \in Migration!LoadsIn(NewS("malformed"))
                      /\ Migration!Cardinality({e \in redis[NewS(k)] : e.load = load}) <= Migration!Cardinality(Adopts)
    BY DEF Migration!Kept, OldS, NewS
  <2>1. \/ load \in settled
        \/ \E e \in redis[OldS(k)] \cup redis[NewS(k)] : e.load = load
        \/ Form(load) = "broken" /\ \E e \in redis[NewS("malformed")] : e.load = load
    BY <1>0 DEF NothingLost
  <2>2. \/ load \in Migration!LoadsIn(OldS(k)) \cup Migration!LoadsIn(NewS(k)) \cup settled
        \/ Form(load) = "broken" /\ load \in Migration!LoadsIn(NewS("malformed"))
    BY <2>1 DEF Migration!LoadsIn
  <2>3. Cardinality(Copies(redis, k, load)) + Cardinality(Movers(at, k, load)) <= Cardinality(Adopts)
    BY <1>0 DEF CopiesSound, CopySound
  <2>4. Cardinality(Copies(redis, k, load)) \in Nat /\ Cardinality(Movers(at, k, load)) \in Nat
    BY <1>0, CountsFinite
  <2>5. Cardinality(Copies(redis, k, load)) <= Cardinality(Adopts)
    BY <2>3, <2>4, MigrationConstants
  <2>6. Migration!Cardinality({e \in redis[NewS(k)] : e.load = load}) <= Migration!Cardinality(Adopts)
    BY <2>5, MigrationCounts DEF Copies
  <2> QED
    BY <2>2, <2>6
<1>2. Migration!Recovered
  <2> SUFFICES ASSUME NEW a \in Adopts, at[a].pc \in {"windows", "visit", "drop", "done"},
                      NEW load \in written[Reads(a)], Migration!Deserializes(load)
               PROVE  load \in settled \cup {e.load : e \in at[a].handed}
    BY DEF Migration!Recovered
  <2>1. at[a].pc \in PastScan /\ at[a].pc \notin Taking /\ at[a].pc \notin {"scan", "take"}
    BY PartNames DEF PastScan
  <2>2. ActorSound(a, at[a], redis, exists, newestId, settled, written)
    BY <1>0 DEF MigrationInv
  <2>3. load \in settled \/ \E e \in at[a].handed : e.load = load
    BY <2>1, <2>2 DEF ActorSound
  <2> QED
    BY <2>3
<1>3. Migration!WindowsMoved
    BY <1>0 DEF WindowsSound, Migration!WindowsMoved
<1> QED
    BY <1>1, <1>2, <1>3 DEF Adopted, Migration!Adopted

\* What a starting process moves to the names it uses (adopt_legacy_streams, migrate_legacy_price_windows) is not lost, however
\* many processes move it at once and wherever they stop: a batch stays in one of the two streams until the backend has answered
\* or it is quarantined, and there are no more copies of it than processes that move it; after its recovery a listener has sent or
\* holds each batch that it can read; and no tick starts a new window over the prices that the old version had.
THEOREM AdoptedHolds == DeliverySpec => []Adopted
<1>1. DeliveryInit => MigrationInv
    BY MigrationInit DEF DeliveryInit
<1>2. MigrationInv /\ [DeliveryNext]_<<vars, migration>> => MigrationInv'
    BY MigrationSteps, MigrationStutters DEF DeliveryNext
<1> QED
    BY <1>1, <1>2, MigrationKeeps, PTL DEF DeliverySpec
=============================================================================
