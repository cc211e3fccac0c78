-------------------------- MODULE TaskPool_proofs ---------------------------
(***************************************************************************)
(* For any number of workers, jobs and queue places, whether or not the    *)
(* submitters end before close(): the pool's count of unfinished items is  *)
(* exact, and nothing runs once it is closed.  If they do end first, and   *)
(* the queue has room for a sentinel per worker, a close() that did not    *)
(* time out has run every accepted job.                                    *)
(***************************************************************************)
EXTENDS TaskPool, FiniteSetTheorems, SequenceTheorems, TLAPS

-----------------------------------------------------------------------------
(* The inductive invariant.                                                *)

\* Only a live worker has a job, and no worker is alive before the pool is opened or after it is closed.
Lifecycle ==
    /\ \A w \in Workers : run[w] # NoJob => w \in alive
    /\ state \in {"created", "closed"} => alive = {}

IInv == TypeOK /\ UnfinishedExact /\ Lifecycle

Items == Jobs \cup {Stop}

LEMMA BusyFinite == IsFiniteSet(Busy) /\ Cardinality(Busy) \in Nat
  BY PoolAssumption, FS_Subset, FS_CardinalityType DEF Busy

LEMMA StopsNat == Stops \in Nat
  BY PoolAssumption, FS_CardinalityType DEF Stops

\* A worker becomes busy.
LEMMA OneMoreBusy ==
  ASSUME TypeOK, NEW w \in Workers, run[w] = NoJob, NEW j \in Jobs, run' = [run EXCEPT ![w] = j]
  PROVE  Cardinality(Busy') = Cardinality(Busy) + 1
<1>1. Busy' = Busy \cup {w} /\ w \notin Busy
  BY PoolAssumption DEF Busy, TypeOK
<1> QED BY <1>1, BusyFinite, FS_AddElement

\* A busy worker becomes idle.
LEMMA OneLessBusy ==
  ASSUME TypeOK, NEW w \in Workers, run[w] # NoJob, run' = [run EXCEPT ![w] = NoJob]
  PROVE  Cardinality(Busy') = Cardinality(Busy) - 1 /\ Cardinality(Busy') \in Nat
<1>1. Busy' = Busy \ {w} /\ w \in Busy
  BY DEF Busy, TypeOK
<1>2. IsFiniteSet(Busy \ {w}) /\ Cardinality(Busy \ {w}) = Cardinality(Busy) - 1
  BY <1>1, BusyFinite, FS_RemoveElement
<1> QED BY <1>1, <1>2, FS_CardinalityType

LEMMA SameBusy ==
  ASSUME UNCHANGED run
  PROVE  Cardinality(Busy') = Cardinality(Busy)
  BY DEF Busy

-----------------------------------------------------------------------------
(* The invariant is preserved.                                             *)

\* An accepted item is queued and counted.
LEMMA SubmissionInv ==
  ASSUME IInv, NEW j \in Jobs, Refuse(j) \/ Submit(j) \/ SubmitWaits(j) \/ SubmitResumes(j)
  PROVE  IInv'
<1>1. UNCHANGED <<state, run, alive, cancelled, outcome, closer>>
  BY DEF Refuse, Submit, SubmitWaits, SubmitResumes
<1>2. CASE UNCHANGED <<queue, unfinished>>
  <2>1. sub' \in [Jobs -> {"new", "waiting", "woken", "accepted", "refused"}]
    BY <1>2 DEF IInv, TypeOK, Refuse, Submit, SubmitWaits, SubmitResumes, Put
  <2> QED BY <1>1, <1>2, <2>1, SameBusy DEF IInv, TypeOK, UnfinishedExact, Lifecycle
<1>3. CASE ~Full /\ Put(j)
  <2>1. queue \in Seq(Items) /\ j \in Items
    BY DEF IInv, TypeOK, Items
  <2>2. queue' \in Seq(Items) /\ Len(queue') = Len(queue) + 1
    BY <1>3, <2>1, AppendProperties DEF Put
  <2>3. Len(queue) \in Nat /\ QueueSize \in Nat /\ Cardinality(Busy) \in Nat
    BY <2>1, LenProperties, PoolAssumption, BusyFinite
  <2>4. Len(queue') <= QueueSize
    BY <1>3, <2>2, <2>3 DEF Full
  <2>5. UnfinishedExact'
    BY <1>1, <1>3, <2>2, <2>3, SameBusy DEF IInv, UnfinishedExact, Put
  <2>6. TypeOK'
    BY <1>1, <1>3, <2>2, <2>4 DEF IInv, TypeOK, Put, Items
  <2> QED BY <1>1, <2>5, <2>6 DEF IInv, Lifecycle
<1> QED BY <1>2, <1>3 DEF Refuse, Submit, SubmitWaits, SubmitResumes

LEMMA WakeOneType ==
  ASSUME TypeOK, WakeOne
  PROVE  sub' \in [Jobs -> {"new", "waiting", "woken", "accepted", "refused"}]
  BY DEF TypeOK, WakeOne

\* A worker takes an item: a job is running instead of queued, a sentinel is counted as done.
LEMMA TakeInv ==
  ASSUME IInv, NEW w \in Workers, Take(w) \/ TakeStop(w)
  PROVE  IInv'
<1>1. queue \in Seq(Items) /\ queue # <<>> /\ TypeOK
  BY DEF IInv, TypeOK, Items, Take, TakeStop
<1>2. /\ Head(queue) \in Items /\ Tail(queue) \in Seq(Items) /\ Len(Tail(queue)) = Len(queue) - 1
      /\ Len(queue) \in Nat /\ Len(Tail(queue)) \in Nat
  BY <1>1, HeadTailProperties, LenProperties
<1>3. queue' = Tail(queue)
  BY DEF Take, TakeStop
<1>4. sub' \in [Jobs -> {"new", "waiting", "woken", "accepted", "refused"}]
  BY <1>1, WakeOneType DEF Take, TakeStop
<1>5. Len(queue') <= QueueSize /\ queue' \in Seq(Jobs \cup {Stop})
  BY <1>1, <1>2, <1>3, PoolAssumption DEF TypeOK, Items
<1>6. CASE Take(w)
  <2>1. /\ Head(queue) \in Jobs /\ run' = [run EXCEPT ![w] = Head(queue)] /\ run[w] = NoJob /\ w \in alive
        /\ UNCHANGED <<state, unfinished, alive, cancelled, outcome, closer>>
    BY <1>2, <1>6 DEF Take, Items
  <2>2. Cardinality(Busy') = Cardinality(Busy) + 1
    BY <1>1, <2>1, OneMoreBusy
  <2>3. UnfinishedExact'
    BY <1>2, <1>3, <2>1, <2>2, BusyFinite DEF IInv, UnfinishedExact
  <2>4. TypeOK'
    BY <1>1, <1>4, <1>5, <2>1 DEF TypeOK
  <2>5. Lifecycle'
    BY <1>1, <2>1 DEF IInv, Lifecycle, TypeOK
  <2> QED BY <2>3, <2>4, <2>5 DEF IInv
<1>7. CASE TakeStop(w)
  <2>1. /\ run[w] = NoJob /\ alive' = alive \ {w} /\ unfinished' = unfinished - 1
        /\ closer' \in {closer, "drained"} /\ UNCHANGED <<state, run, cancelled, outcome>>
    BY <1>7 DEF TakeStop, TaskDone
  <2>2. UnfinishedExact' /\ unfinished' \in Nat
    BY <1>2, <1>3, <2>1, BusyFinite, SameBusy DEF IInv, UnfinishedExact
  <2>3. TypeOK'
    BY <1>1, <1>4, <1>5, <2>1, <2>2 DEF TypeOK
  <2>4. Lifecycle'
    BY <2>1 DEF IInv, Lifecycle
  <2> QED BY <2>2, <2>3, <2>4 DEF IInv
<1> QED BY <1>6, <1>7

\* A job ends, with its worker or without.
LEMMA FinishInv ==
  ASSUME IInv, NEW w \in Workers, Finish(w) \/ EndCancelled(w)
  PROVE  IInv'
<1>1. CASE run[w] # NoJob
  <2>1. /\ run' = [run EXCEPT ![w] = NoJob]
        /\ unfinished' = unfinished - 1 /\ closer' \in {closer, "drained"}
        /\ alive' \in {alive, alive \ {w}} /\ UNCHANGED <<state, queue, sub, cancelled>>
    BY <1>1 DEF Finish, EndCancelled, TaskDone
  <2>2. outcome' \in [Jobs -> {"none", "done", "cancelled"}]
    BY <1>1 DEF Finish, EndCancelled, IInv, TypeOK
  <2>3. Cardinality(Busy') = Cardinality(Busy) - 1 /\ Cardinality(Busy') \in Nat
    BY <1>1, <2>1, OneLessBusy DEF IInv
  <2>4. Len(queue) \in Nat
    BY LenProperties DEF IInv, TypeOK
  <2>5. UnfinishedExact' /\ unfinished' \in Nat
    BY <2>1, <2>3, <2>4, BusyFinite DEF IInv, UnfinishedExact
  <2>6. TypeOK'
    BY <2>1, <2>2, <2>5 DEF IInv, TypeOK
  <2>7. Lifecycle'
    BY <2>1 DEF IInv, TypeOK, Lifecycle
  <2> QED BY <2>5, <2>6, <2>7 DEF IInv
<1>2. CASE run[w] = NoJob
  <2>1. alive' = alive \ {w} /\ UNCHANGED <<state, queue, sub, cancelled, run, outcome, unfinished, closer>>
    BY <1>2 DEF Finish, EndCancelled
  <2> QED BY <1>2, <2>1, SameBusy DEF IInv, TypeOK, UnfinishedExact, Lifecycle
<1> QED BY <1>1, <1>2

\* The sentinels are counted as they are queued.
LEMMA SendStopsInv ==
  ASSUME TypeOK, UnfinishedExact, SendStops, UNCHANGED run
  PROVE  /\ queue' \in Seq(Jobs \cup {Stop}) /\ Len(queue') <= QueueSize /\ unfinished' \in Nat
         /\ UnfinishedExact'
         /\ closer' \in {"stopping", "failed"}
<1> DEFINE fit == IF Len(queue) + Stops <= QueueSize THEN Stops ELSE QueueSize - Len(queue)
           stops == [i \in 1..fit |-> Stop]
<1>1. queue \in Seq(Items) /\ Len(queue) \in Nat /\ Len(queue) <= QueueSize /\ QueueSize \in Nat
  BY LenProperties, PoolAssumption DEF TypeOK, Items
<1>2. fit \in Nat /\ Len(queue) + fit <= QueueSize
  BY <1>1, StopsNat
<1>3. queue' = queue \o stops /\ unfinished' = unfinished + fit /\ closer' \in {"stopping", "failed"}
  BY DEF SendStops
<1> HIDE DEF fit
<1>4. stops \in Seq(Items) /\ Len(stops) = fit
  BY <1>2 DEF Items
<1> HIDE DEF stops
<1>5. queue' \in Seq(Items) /\ Len(queue') = Len(queue) + fit
  BY <1>1, <1>3, <1>4, ConcatProperties
<1>6. UnfinishedExact' /\ unfinished' \in Nat
  BY <1>1, <1>2, <1>3, <1>5, BusyFinite, SameBusy DEF UnfinishedExact
<1> QED BY <1>2, <1>3, <1>5, <1>6 DEF Items

\* Closing: what is dropped at the timeout is no longer counted.
LEMMA CloserInv ==
  ASSUME IInv, Open \/ CloseUnopened \/ Close \/ CloserStep
  PROVE  IInv'
<1>1. CASE Open \/ CloseUnopened \/ Closed
  <2>1. alive' \in {alive, Workers} /\ UNCHANGED <<queue, unfinished, sub, run, cancelled, outcome>>
    BY <1>1 DEF Open, CloseUnopened, Closed
  <2>2. UnfinishedExact'
    BY <2>1, SameBusy DEF IInv, UnfinishedExact
  <2> QED BY <1>1, <2>1, <2>2 DEF Open, CloseUnopened, Closed, IInv, TypeOK, Lifecycle
<1>2. CASE (Close \/ Drained) /\ SendStops
  <2>1. UNCHANGED <<sub, run, alive, cancelled, outcome>> /\ state' \in {state, "draining"}
    BY <1>2 DEF Close, Drained
  <2>2. /\ queue' \in Seq(Jobs \cup {Stop}) /\ Len(queue') <= QueueSize /\ unfinished' \in Nat
        /\ UnfinishedExact'
        /\ closer' \in {"stopping", "failed"}
    BY <1>2, <2>1, SendStopsInv DEF IInv
  <2> QED BY <2>1, <2>2 DEF IInv, TypeOK, Lifecycle
<1>3. CASE Close /\ ~SendStops
  BY <1>3, SameBusy DEF Close, IInv, TypeOK, UnfinishedExact, Lifecycle
<1>4. CASE TimeOut
  <2>1. /\ queue' = <<>> /\ unfinished' = unfinished - Len(queue)
        /\ cancelled' = alive /\ closer' = "stopping" /\ UNCHANGED <<state, run, alive>>
    BY <1>4 DEF TimeOut
  <2>2. sub' \in [Jobs -> {"new", "waiting", "woken", "accepted", "refused"}]
    BY <1>4 DEF TimeOut, IInv, TypeOK
  <2>3. outcome' \in [Jobs -> {"none", "done", "cancelled"}]
    BY <1>4 DEF TimeOut, IInv, TypeOK
  <2>4. queue' \in Seq(Jobs \cup {Stop}) /\ Len(queue') = 0 /\ Len(queue) \in Nat
    BY <2>1, EmptySeq, LenProperties DEF IInv, TypeOK
  <2>5. UnfinishedExact' /\ unfinished' \in Nat
    BY <2>1, <2>4, BusyFinite, SameBusy DEF IInv, UnfinishedExact
  <2>6. TypeOK'
    BY <2>1, <2>2, <2>3, <2>4, <2>5, PoolAssumption DEF IInv, TypeOK
  <2> QED BY <2>1, <2>5, <2>6 DEF IInv, Lifecycle
<1> QED BY <1>1, <1>2, <1>3, <1>4 DEF CloserStep, Drained

LEMMA InvInit == Init => IInv
<1> SUFFICES ASSUME Init PROVE IInv
  OBVIOUS
<1>1. Busy = {}
  BY DEF Init, Busy
<1>2. UnfinishedExact
  BY <1>1, FS_EmptySet DEF Init, UnfinishedExact
<1> QED BY <1>2, PoolAssumption DEF Init, IInv, TypeOK, Lifecycle

LEMMA InvStep == IInv /\ [Next]_vars => IInv'
<1> SUFFICES ASSUME IInv, [Next]_vars PROVE IInv'
  OBVIOUS
<1>1. CASE UNCHANGED vars
  BY <1>1, SameBusy DEF vars, IInv, TypeOK, UnfinishedExact, Lifecycle
<1> QED BY <1>1, SubmissionInv, TakeInv, FinishInv, CloserInv DEF Next, WorkerStep

-----------------------------------------------------------------------------
(* The properties.                                                         *)

THEOREM Inductive == Spec => []IInv
  BY InvInit, InvStep, PTL DEF Spec

(* Every variable keeps its type; in particular no put, woken or not, and no sentinel
   makes the queue longer than its limit. *)
THEOREM TypeCorrect == Spec => []TypeOK
<1>1. IInv => TypeOK
  BY DEF IInv
<1> QED BY Inductive, <1>1, PTL

(* The count that join() waits on is exact through failures, cancellations, the drop at the
   timeout and sentinels that do not all fit. *)
THEOREM UnfinishedExactHolds == Spec => []UnfinishedExact
<1>1. IInv => UnfinishedExact
  BY DEF IInv
<1> QED BY Inductive, <1>1, PTL

(* When close() has ended, after a drain, a timeout or on a pool that was never opened, no
   worker is alive and no job runs. *)
THEOREM NothingRunsAfterCloseHolds == Spec => []NothingRunsAfterClose
<1>1. IInv => NothingRunsAfterClose
  BY DEF IInv, Lifecycle, NothingRunsAfterClose, Busy
<1> QED BY Inductive, <1>1, PTL

-----------------------------------------------------------------------------
(* A close() that did not time out ran everything.                         *)

\* The owner ends its submitters before close(), and the queue has room for a sentinel per worker.
OwnerWaits == SubmittersEndFirst /\ Cardinality(Workers) <= QueueSize

Accepted == {j \in Jobs : sub[j] = "accepted"}
Queued(j) == \E i \in 1..Len(queue) : queue[i] = j
Running(j) == \E w \in Workers : run[w] = j

\* What state and closer say of each other, and when nobody submits.
Phases ==
    /\ state = "created" => closer = "none" /\ queue = <<>> /\ cancelled = {}
    /\ state = "running" => closer = "none"
    /\ state = "closed" => closer = "closed"
    /\ state # "running" => \A j \in Jobs : sub[j] \notin {"waiting", "woken"}
    /\ closer \in {"joining", "drained", "stopping"} => state = "draining"
    /\ state = "draining" => closer \in {"joining", "drained", "stopping"}

\* Before the sentinels go out every worker is alive, and only the timeout cancels them.
Crew ==
    state \in {"running", "draining"} /\ closer \in {"none", "joining", "drained"} =>
        alive = Workers /\ cancelled = {} /\ \A i \in 1..Len(queue) : queue[i] \in Jobs

\* An accepted job that is not done waits in the queue or runs, until the timeout drops it; join() returns when
\* there is none.
Kept ==
    /\ cancelled = {} => \A j \in Accepted : outcome[j] = "done" \/ Queued(j) \/ Running(j)
    /\ closer = "drained" => unfinished = 0
    /\ closer \in {"stopping", "closed"} /\ cancelled = {} => \A j \in Accepted : outcome[j] = "done"

DInv == IInv /\ closer # "failed" /\ Phases /\ Crew /\ Kept

\* Nothing unfinished is nothing queued and nothing running.
LEMMA NothingLeft ==
  ASSUME IInv, unfinished = 0
  PROVE  queue = <<>> /\ \A w \in Workers : run[w] = NoJob
<1>1. queue \in Seq(Items) /\ Len(queue) \in Nat
  BY LenProperties DEF IInv, TypeOK, Items
<1>2. Len(queue) = 0 /\ Cardinality(Busy) = 0
  BY <1>1, BusyFinite DEF IInv, UnfinishedExact
<1>3. Busy = {}
  BY <1>2, BusyFinite, FS_EmptySet
<1> QED BY <1>1, <1>2, <1>3, EmptySeq DEF Busy

\* The sentinels fit into the empty queue, and every accepted job is done before they go out.
LEMMA StopsFit ==
  ASSUME OwnerWaits, DInv, IInv', SendStops, unfinished = 0, cancelled = {}, state' = "draining",
         UNCHANGED <<sub, run, alive, cancelled, outcome>>, \A j \in Jobs : sub[j] \notin {"waiting", "woken"}
  PROVE  DInv'
<1>1. queue = <<>> /\ \A w \in Workers : run[w] = NoJob
  BY NothingLeft DEF DInv
<1>2. Len(queue) = 0 /\ Stops \in Nat /\ Stops <= QueueSize /\ QueueSize \in Nat
  BY <1>1, StopsNat, PoolAssumption DEF OwnerWaits, Stops
<1>3. closer' = "stopping"
  BY <1>2 DEF SendStops
<1>4. \A j \in Accepted : outcome[j] = "done"
  BY <1>1, <1>2, PoolAssumption DEF DInv, Kept, Queued, Running, Accepted
<1> QED BY <1>3, <1>4 DEF DInv, Phases, Crew, Kept, Accepted

\* Submissions: what is accepted is queued behind the rest.
LEMMA SubmissionKeeps ==
  ASSUME DInv, IInv', NEW j \in Jobs, Refuse(j) \/ Submit(j) \/ SubmitWaits(j) \/ SubmitResumes(j)
  PROVE  DInv'
<1>1. UNCHANGED <<state, run, alive, cancelled, outcome, closer>>
  BY DEF Refuse, Submit, SubmitWaits, SubmitResumes
<1>2. CASE Refuse(j)
  <2>1. sub' = [sub EXCEPT ![j] = "refused"] /\ UNCHANGED <<queue, unfinished>> BY <1>2 DEF Refuse
  <2>2. Accepted' \subseteq Accepted BY <2>1 DEF DInv, IInv, TypeOK, Accepted
  <2>3. Phases' BY <1>1, <2>1 DEF DInv, IInv, TypeOK, Phases
  <2> QED BY <1>1, <2>1, <2>2, <2>3 DEF DInv, Crew, Kept, Queued, Running
<1>3. CASE ~Refuse(j)
  <2>1. state = "running" /\ closer = "none" BY <1>3 DEF Submit, SubmitWaits, SubmitResumes, DInv, Phases
  <2>2. Phases' BY <1>1, <2>1 DEF Phases
  <2>3. CASE UNCHANGED <<queue, unfinished>>
    <3>1. Accepted' \subseteq Accepted
      BY <1>3, <2>3 DEF DInv, IInv, TypeOK, Accepted, Submit, SubmitWaits, SubmitResumes, Put
    <3> QED BY <1>1, <2>1, <2>2, <2>3, <3>1 DEF DInv, Crew, Kept, Queued, Running
  <2>4. CASE Put(j)
    <3>1. queue \in Seq(Items) /\ Len(queue) \in Nat BY LenProperties DEF DInv, IInv, TypeOK, Items
    <3>2. /\ Len(queue') = Len(queue) + 1 /\ queue'[Len(queue) + 1] = j
          /\ \A i \in 1..Len(queue) : queue'[i] = queue[i]
      BY <2>4, <3>1, AppendProperties DEF Put, Items
    <3>3. \A i \in 1..Len(queue') : i \in 1..Len(queue) \/ i = Len(queue) + 1 BY <3>1, <3>2
    <3>4. Accepted' = Accepted \cup {j} BY <2>4 DEF Put, DInv, IInv, TypeOK, Accepted
    <3>5. Crew' BY <1>1, <3>2, <3>3 DEF DInv, Crew
    <3>6. Queued(j)' /\ \A k \in Jobs : Queued(k) => Queued(k)' BY <3>1, <3>2 DEF Queued
    <3>7. Kept' BY <1>1, <2>1, <3>4, <3>6 DEF DInv, Kept, Running, Accepted
    <3> QED BY <1>1, <2>2, <3>5, <3>7 DEF DInv
  <2> QED BY <1>3, <2>3, <2>4 DEF Submit, SubmitWaits, SubmitResumes
<1> QED BY <1>2, <1>3

\* Workers: a job goes from the queue to its worker and is done, and the count reaches zero when all are.
LEMMA TakeKeeps ==
  ASSUME DInv, IInv', NEW w \in Workers, Take(w)
  PROVE  DInv'
<1>1. /\ queue # <<>> /\ queue' = Tail(queue) /\ run[w] = NoJob /\ run' = [run EXCEPT ![w] = Head(queue)] /\ WakeOne
      /\ UNCHANGED <<state, unfinished, alive, cancelled, outcome, closer>>
  BY DEF Take
<1>2. /\ queue \in Seq(Items) /\ Head(queue) = queue[1] /\ Len(queue) \in Nat /\ Len(queue') = Len(queue) - 1
      /\ \A i \in 1..Len(queue') : queue'[i] = queue[i + 1]
  BY <1>1, HeadTailProperties, LenProperties DEF DInv, IInv, TypeOK, Items
<1>3. Accepted' = Accepted /\ (UNCHANGED sub \/ \E j \in Jobs : sub[j] = "waiting")
  BY <1>1 DEF WakeOne, DInv, IInv, TypeOK, Accepted
<1>4. Phases'
  <2>1. state \notin {"created", "running"} => UNCHANGED sub BY <1>3 DEF DInv, Phases
  <2>2. state # "created" BY <1>1 DEF DInv, Phases
  <2> QED BY <1>1, <2>1, <2>2 DEF DInv, Phases
<1>5. Crew'
  <2>1. \A i \in 1..Len(queue') : i + 1 \in 1..Len(queue) BY <1>2
  <2> QED BY <1>1, <1>2, <2>1 DEF DInv, Crew
<1>6. ASSUME NEW j \in Jobs, Queued(j) \/ Running(j) PROVE (Queued(j) \/ Running(j))'
  <2>1. CASE Running(j)
    BY <1>1, <2>1, PoolAssumption DEF Running, DInv, IInv, TypeOK
  <2>2. ASSUME NEW i \in 1..Len(queue), queue[i] = j PROVE (Queued(j) \/ Running(j))'
    <3>1. CASE i = 1
      <4>1. run'[w] = j BY <1>1, <1>2, <2>2, <3>1 DEF DInv, IInv, TypeOK
      <4> QED BY <4>1 DEF Running
    <3>2. CASE i # 1
      <4>1. i - 1 \in 1..Len(queue') /\ (i - 1) + 1 = i BY <1>2, <3>2
      <4>2. queue'[i - 1] = j BY <1>2, <2>2, <4>1
      <4> QED BY <4>1, <4>2 DEF Queued
    <3> QED BY <3>1, <3>2
  <2> QED BY <1>6, <2>1, <2>2 DEF Queued
<1>7. Kept'
  BY <1>1, <1>3, <1>6 DEF DInv, Kept, Accepted
<1> QED BY <1>1, <1>4, <1>5, <1>7 DEF DInv

LEMMA TakeStopKeeps ==
  ASSUME DInv, IInv', NEW w \in Workers, TakeStop(w)
  PROVE  DInv'
<1>1. /\ queue # <<>> /\ Head(queue) = Stop /\ WakeOne /\ UNCHANGED <<state, run, cancelled, outcome>>
  BY DEF TakeStop
<1>2. Head(queue) = queue[1] /\ 1 \in 1..Len(queue)
  BY <1>1, HeadTailProperties, LenProperties DEF DInv, IInv, TypeOK
<1>3. closer \in {"stopping", "closed"}
  BY <1>1, <1>2, PoolAssumption DEF DInv, IInv, TypeOK, Phases, Crew
<1>4. closer' = closer /\ state \in {"draining", "closed"}
  BY <1>3 DEF TakeStop, TaskDone, DInv, IInv, TypeOK, Phases
<1>5. UNCHANGED sub
  BY <1>1, <1>4 DEF WakeOne, DInv, Phases
<1> QED BY <1>1, <1>3, <1>4, <1>5 DEF DInv, Phases, Crew, Kept, Accepted

LEMMA FinishKeeps ==
  ASSUME DInv, IInv', NEW w \in Workers, Finish(w)
  PROVE  DInv'
<1>1. /\ run[w] # NoJob /\ outcome' = [outcome EXCEPT ![run[w]] = "done"] /\ run' = [run EXCEPT ![w] = NoJob]
      /\ TaskDone(1) /\ UNCHANGED <<state, queue, sub, alive, cancelled>>
  BY DEF Finish
<1>2. run[w] \in Jobs /\ outcome \in [Jobs -> {"none", "done", "cancelled"}] /\ run \in [Workers -> Jobs \cup {NoJob}]
  BY <1>1 DEF DInv, IInv, TypeOK
<1>3. /\ outcome'[run[w]] = "done" /\ \A j \in Jobs : outcome[j] = "done" => outcome'[j] = "done"
      /\ \A v \in Workers \ {w} : run'[v] = run[v]
  BY <1>1, <1>2
<1>4. \/ closer' = closer /\ (closer = "drained" => unfinished' = unfinished - 1)
      \/ closer = "joining" /\ closer' = "drained" /\ unfinished' = 0
  BY <1>1 DEF TaskDone, DInv, IInv, TypeOK
<1>5. closer # "drained"
  BY <1>1, NothingLeft DEF DInv, Kept
<1>6. Phases' /\ Crew' /\ closer' # "failed"
  BY <1>1, <1>4 DEF DInv, Phases, Crew
<1>7. \A j \in Jobs : Running(j) => Running(j)' \/ outcome'[j] = "done"
  BY <1>2, <1>3 DEF Running
<1>8. Kept'
  BY <1>1, <1>3, <1>4, <1>5, <1>7 DEF DInv, Kept, Accepted, Queued
<1> QED BY <1>6, <1>8 DEF DInv

LEMMA EndCancelledKeeps ==
  ASSUME DInv, IInv', NEW w \in Workers, EndCancelled(w)
  PROVE  DInv'
<1>1. cancelled # {} /\ UNCHANGED <<state, queue, sub, cancelled>>
  BY DEF EndCancelled
<1>2. closer \notin {"joining", "drained"} /\ ~(state \in {"running", "draining"} /\ closer \in {"none", "joining", "drained"})
  BY <1>1 DEF DInv, Phases, Crew
<1>3. closer' = closer
  BY <1>2 DEF EndCancelled, TaskDone
<1> QED BY <1>1, <1>2, <1>3 DEF DInv, Phases, Crew, Kept

LEMMA CloserKeeps ==
  ASSUME OwnerWaits, DInv, IInv', Open \/ CloseUnopened \/ Close \/ CloserStep
  PROVE  DInv'
<1>1. CASE Open
  <2>1. /\ state = "created" /\ state' = "running" /\ alive' = Workers
        /\ UNCHANGED <<queue, unfinished, sub, run, cancelled, outcome, closer>>
    BY <1>1 DEF Open
  <2> QED BY <2>1 DEF DInv, Phases, Crew, Kept, Accepted, Queued, Running
<1>2. CASE CloseUnopened
  <2>1. /\ state = "created" /\ state' = "closed" /\ closer' = "closed"
        /\ UNCHANGED <<queue, unfinished, sub, run, alive, cancelled, outcome>>
    BY <1>2 DEF CloseUnopened
  <2>2. \A j \in Jobs : ~Queued(j) /\ ~Running(j)
    BY <2>1, EmptySeq, PoolAssumption DEF DInv, Phases, IInv, Lifecycle, Queued, Running
  <2> QED BY <2>1, <2>2 DEF DInv, Phases, Crew, Kept, Accepted
<1>3. CASE Close
  <2>1. state = "running" /\ closer = "none" /\ cancelled = {} /\ state' = "draining"
    BY <1>3 DEF Close, DInv, Phases, Crew
  <2>2. UNCHANGED <<sub, run, alive, cancelled, outcome>> /\ \A j \in Jobs : sub[j] \notin {"waiting", "woken"}
    BY <1>3 DEF Close, OwnerWaits
  <2>3. CASE unfinished = 0
    <3>1. SendStops BY <1>3, <2>3 DEF Close
    <3> QED BY <2>1, <2>2, <2>3, <3>1, StopsFit
  <2>4. CASE unfinished # 0
    <3>1. closer' = "joining" /\ UNCHANGED <<queue, unfinished>> BY <1>3, <2>4 DEF Close
    <3> QED BY <2>1, <2>2, <3>1 DEF DInv, Phases, Crew, Kept, Accepted, Queued, Running
  <2> QED BY <2>3, <2>4
<1>4. CASE Drained
  <2>1. state = "draining" /\ cancelled = {} /\ unfinished = 0 /\ SendStops
    BY <1>4 DEF Drained, DInv, Phases, Crew, Kept
  <2>2. UNCHANGED <<state, sub, run, alive, cancelled, outcome>> BY <1>4 DEF Drained
  <2>3. \A j \in Jobs : sub[j] \notin {"waiting", "woken"} BY <2>1 DEF DInv, Phases
  <2> QED BY <2>1, <2>2, <2>3, StopsFit
<1>5. CASE TimeOut
  <2>1. /\ closer \in {"joining", "drained"} /\ cancelled' = alive /\ closer' = "stopping" /\ queue' = <<>>
        /\ UNCHANGED <<state, run, alive>>
    BY <1>5 DEF TimeOut
  <2>2. state = "draining" /\ alive = Workers /\ cancelled' # {}
    BY <2>1, PoolAssumption DEF DInv, Phases, Crew
  <2>3. \A j \in Jobs : sub[j] \notin {"waiting", "woken"} BY <2>2 DEF DInv, Phases
  <2>4. \A j \in Jobs : sub'[j] = sub[j] BY <1>5, <2>3 DEF TimeOut
  <2> QED BY <2>1, <2>2, <2>3, <2>4 DEF DInv, Phases, Crew, Kept
<1>6. CASE Closed
  <2>1. /\ closer = "stopping" /\ closer' = "closed" /\ state' = "closed"
        /\ UNCHANGED <<queue, unfinished, sub, run, alive, cancelled, outcome>>
    BY <1>6 DEF Closed
  <2> QED BY <2>1 DEF DInv, Phases, Crew, Kept, Accepted, Queued, Running
<1> QED BY <1>1, <1>2, <1>3, <1>4, <1>5, <1>6 DEF CloserStep

LEMMA DInvInit == Init => DInv
<1> SUFFICES ASSUME Init PROVE DInv
  OBVIOUS
<1>1. Phases /\ Crew /\ Kept /\ closer # "failed" BY DEF Init, Phases, Crew, Kept, Accepted
<1> QED BY <1>1, InvInit DEF DInv

LEMMA DInvStep == OwnerWaits /\ DInv /\ [Next]_vars => DInv'
<1> SUFFICES ASSUME OwnerWaits, DInv, [Next]_vars PROVE DInv'
  OBVIOUS
<1>1. IInv'
  BY InvStep DEF DInv
<1>2. CASE UNCHANGED vars
  BY <1>1, <1>2 DEF vars, DInv, Phases, Crew, Kept, Accepted, Queued, Running
<1> QED BY <1>1, <1>2, SubmissionKeeps, TakeKeeps, TakeStopKeeps, FinishKeeps, EndCancelledKeeps, CloserKeeps
        DEF Next, WorkerStep

(* A close() whose owner ended the submitters first never meets a full queue with its
   sentinels, and without a timeout it ends only when every accepted job has run (close). *)
THEOREM CloseDrainsHolds ==
  ASSUME OwnerWaits
  PROVE  Spec => []CloseDrains
<1>1. DInv => CloseDrains
  <2> SUFFICES ASSUME DInv PROVE CloseDrains
    OBVIOUS
  <2>1. NothingRunsAfterClose BY DEF DInv, IInv, Lifecycle, NothingRunsAfterClose, Busy
  <2>2. state = "closed" /\ cancelled = {} => \A j \in Jobs : sub[j] = "accepted" => outcome[j] = "done"
    BY DEF DInv, Phases, Kept, Accepted
  <2> QED BY <2>1, <2>2 DEF DInv, CloseDrains
<1> QED BY <1>1, DInvInit, DInvStep, PTL DEF Spec
=============================================================================
