------------------------------ MODULE TaskPool ------------------------------
(***************************************************************************)
(* BoundedTaskPool (apps/listener/task_supervisor.py): a bounded asyncio   *)
(* queue, a fixed set of workers, submission with and without              *)
(* backpressure, and close() with its drain and its timeout.               *)
(*                                                                         *)
(* The event loop runs one task at a time, so an action is what a task     *)
(* does between two awaits.  A task that is woken runs later: a submitter  *)
(* whose put found the queue full is "waiting", and "woken" once a get has *)
(* made room for it.                                                       *)
(***************************************************************************)
EXTENDS Naturals, Sequences, FiniteSets

CONSTANTS
    Workers,
    Jobs,
    Stop,               \* the None that ends a worker
    NoJob,              \* an idle worker's job
    QueueSize,
    SubmittersEndFirst  \* close() is called only when no submitter waits, as the listener's owners do

ASSUME PoolAssumption ==
    /\ IsFiniteSet(Workers) /\ Workers # {}
    /\ Stop \notin Jobs /\ NoJob \notin Jobs
    /\ QueueSize \in Nat \ {0}
    /\ SubmittersEndFirst \in BOOLEAN

VARIABLES
    state,       \* PoolState
    queue,
    unfinished,  \* asyncio.Queue's count of items put and not yet task_done
    sub,         \* each submission: new, waiting, woken, accepted, refused
    run,         \* each worker's job, or NoJob
    alive,       \* workers whose task has not ended
    cancelled,   \* workers whose task close() has cancelled
    outcome,     \* each job: none, done (succeeded or failed), cancelled
    closer       \* close(): none, joining, drained, stopping, closed, failed

vars == <<state, queue, unfinished, sub, run, alive, cancelled, outcome, closer>>

Init ==
    /\ state = "created"
    /\ queue = <<>> /\ unfinished = 0
    /\ sub = [j \in Jobs |-> "new"]
    /\ run = [w \in Workers |-> NoJob]
    /\ alive = {} /\ cancelled = {}
    /\ outcome = [j \in Jobs |-> "none"]
    /\ closer = "none"

\* __aenter__
Open ==
    /\ state = "created" /\ closer = "none"
    /\ state' = "running" /\ alive' = Workers
    /\ UNCHANGED <<queue, unfinished, sub, run, cancelled, outcome, closer>>

-----------------------------------------------------------------------------
(* Submission.                                                             *)

Put(j) ==
    /\ queue' = Append(queue, j)
    /\ unfinished' = unfinished + 1
    /\ sub' = [sub EXCEPT ![j] = "accepted"]

Full == Len(queue) >= QueueSize

\* submit and try_submit outside RUNNING, and try_submit on a full queue.
Refuse(j) ==
    /\ sub[j] = "new" /\ (state # "running" \/ Full)
    /\ sub' = [sub EXCEPT ![j] = "refused"]
    /\ UNCHANGED <<state, queue, unfinished, run, alive, cancelled, outcome, closer>>

\* submit and try_submit with room in the queue.
Submit(j) ==
    /\ sub[j] = "new" /\ state = "running" /\ ~Full
    /\ Put(j)
    /\ UNCHANGED <<state, run, alive, cancelled, outcome, closer>>

\* submit on a full queue: the put waits; the state is not looked at again.
SubmitWaits(j) ==
    /\ sub[j] = "new" /\ state = "running" /\ Full
    /\ sub' = [sub EXCEPT ![j] = "waiting"]
    /\ UNCHANGED <<state, queue, unfinished, run, alive, cancelled, outcome, closer>>

\* The woken put runs: it fits, or waits again.
SubmitResumes(j) ==
    /\ sub[j] = "woken"
    /\ \/ ~Full /\ Put(j)
       \/ Full /\ sub' = [sub EXCEPT ![j] = "waiting"] /\ UNCHANGED <<queue, unfinished>>
    /\ UNCHANGED <<state, run, alive, cancelled, outcome, closer>>

\* A get that makes room wakes one waiting put.
WakeOne ==
    IF \E j \in Jobs : sub[j] = "waiting"
    THEN \E j \in Jobs : sub[j] = "waiting" /\ sub' = [sub EXCEPT ![j] = "woken"]
    ELSE UNCHANGED sub

\* task_done: at zero it wakes a join that waits.
TaskDone(n) ==
    /\ unfinished' = unfinished - n
    /\ closer' = IF closer = "joining" /\ unfinished = n THEN "drained" ELSE closer

-----------------------------------------------------------------------------
(* Workers.                                                                *)

Take(w) ==
    /\ w \in alive \ cancelled /\ run[w] = NoJob
    /\ queue # <<>> /\ Head(queue) # Stop
    /\ run' = [run EXCEPT ![w] = Head(queue)]
    /\ queue' = Tail(queue)
    /\ WakeOne
    /\ UNCHANGED <<state, unfinished, alive, cancelled, outcome, closer>>

\* The sentinel: the worker returns.
TakeStop(w) ==
    /\ w \in alive \ cancelled /\ run[w] = NoJob
    /\ queue # <<>> /\ Head(queue) = Stop
    /\ queue' = Tail(queue)
    /\ TaskDone(1)
    /\ WakeOne
    /\ alive' = alive \ {w}
    /\ UNCHANGED <<state, run, cancelled, outcome>>

\* Mutant of Finish: a failed job ends its worker.
FinishEndsWorker(w) ==
    /\ w \in alive \ cancelled /\ run[w] # NoJob
    /\ outcome' = [outcome EXCEPT ![run[w]] = "done"]
    /\ run' = [run EXCEPT ![w] = NoJob]
    /\ TaskDone(1)
    /\ alive' = alive \ {w}
    /\ UNCHANGED <<state, queue, sub, cancelled>>

\* The job succeeds, or fails and is logged; either way the worker goes on.
Finish(w) ==
    /\ w \in alive \ cancelled /\ run[w] # NoJob
    /\ outcome' = [outcome EXCEPT ![run[w]] = "done"]
    /\ run' = [run EXCEPT ![w] = NoJob]
    /\ TaskDone(1)
    /\ UNCHANGED <<state, queue, sub, alive, cancelled>>

\* Mutant of EndCancelled: task_done is skipped for a cancelled job.
EndCancelledUncounted(w) ==
    /\ w \in alive \cap cancelled
    /\ alive' = alive \ {w}
    /\ run' = [run EXCEPT ![w] = NoJob]
    /\ outcome' = IF run[w] = NoJob THEN outcome ELSE [outcome EXCEPT ![run[w]] = "cancelled"]
    /\ UNCHANGED <<state, queue, sub, cancelled, unfinished, closer>>

\* A cancelled worker ends, its job with it; the finally block still counts the item as done.
EndCancelled(w) ==
    /\ w \in alive \cap cancelled
    /\ alive' = alive \ {w}
    /\ IF run[w] = NoJob THEN UNCHANGED <<run, outcome, unfinished, closer>>
       ELSE /\ outcome' = [outcome EXCEPT ![run[w]] = "cancelled"]
            /\ run' = [run EXCEPT ![w] = NoJob]
            /\ TaskDone(1)
    /\ UNCHANGED <<state, queue, sub, cancelled>>

-----------------------------------------------------------------------------
(* close().                                                                *)

\* A pool that was never opened.
CloseUnopened ==
    /\ state = "created"
    /\ state' = "closed" /\ closer' = "closed"
    /\ UNCHANGED <<queue, unfinished, sub, run, alive, cancelled, outcome>>

\* Mutant of SendStops' count: one sentinel for all workers.
StopsOne == 1

\* One sentinel for each worker.
Stops == Cardinality(Workers)

\* put_nowait(None) for each worker, without a pause: QueueFull leaves close() on the first that does not fit.
SendStops ==
    LET fit == IF Len(queue) + Stops <= QueueSize THEN Stops ELSE QueueSize - Len(queue)
    IN  /\ queue' = queue \o [i \in 1..fit |-> Stop]
        /\ unfinished' = unfinished + fit
        /\ closer' = IF fit = Stops THEN "stopping" ELSE "failed"

\* close() starts; with nothing unfinished, join() returns at once.
Close ==
    /\ state = "running"
    /\ SubmittersEndFirst => \A j \in Jobs : sub[j] \notin {"waiting", "woken"}
    /\ state' = "draining"
    /\ IF unfinished = 0 THEN SendStops
       ELSE closer' = "joining" /\ UNCHANGED <<queue, unfinished>>
    /\ UNCHANGED <<sub, run, alive, cancelled, outcome>>

\* join() returned; puts woken before it run before it.
Drained ==
    /\ closer = "drained"
    /\ \A j \in Jobs : sub[j] # "woken"
    /\ SendStops
    /\ UNCHANGED <<state, sub, run, alive, cancelled, outcome>>

\* The timeout, also against a join() that has just been woken: queued work is dropped, each
\* dropped item waking a put, and every worker cancelled.
TimeOut ==
    /\ closer \in {"joining", "drained"}
    /\ \E W \in SUBSET {j \in Jobs : sub[j] = "waiting"} :
         /\ Cardinality(W) <= Len(queue)
         /\ W = {j \in Jobs : sub[j] = "waiting"} \/ Cardinality(W) = Len(queue)
         /\ sub' = [j \in Jobs |-> IF j \in W THEN "woken" ELSE sub[j]]
    /\ queue' = <<>>
    /\ unfinished' = unfinished - Len(queue)
    /\ outcome' = [j \in Jobs |-> IF \E i \in 1..Len(queue) : queue[i] = j THEN "cancelled" ELSE outcome[j]]
    /\ cancelled' = alive
    /\ closer' = "stopping"
    /\ UNCHANGED <<state, run, alive>>

\* The task group has ended.
Closed ==
    /\ closer = "stopping" /\ alive = {}
    /\ closer' = "closed" /\ state' = "closed"
    /\ UNCHANGED <<queue, unfinished, sub, run, alive, cancelled, outcome>>

-----------------------------------------------------------------------------
WorkerStep(w) == Take(w) \/ TakeStop(w) \/ Finish(w) \/ EndCancelled(w)
CloserStep == Drained \/ TimeOut \/ Closed

Next ==
    \/ Open \/ CloseUnopened \/ Close \/ CloserStep
    \/ \E j \in Jobs : Refuse(j) \/ Submit(j) \/ SubmitWaits(j) \/ SubmitResumes(j)
    \/ \E w \in Workers : WorkerStep(w)

Spec == Init /\ [][Next]_vars

\* The loop runs every ready task, and the timeout of a drain that does not end fires.
Fairness ==
    /\ WF_vars(CloserStep)
    /\ \A j \in Jobs : WF_vars(SubmitResumes(j))
    /\ \A w \in Workers : WF_vars(Take(w) \/ TakeStop(w) \/ EndCancelled(w))

FairSpec == Spec /\ Fairness

-----------------------------------------------------------------------------
TypeOK ==
    /\ state \in {"created", "running", "draining", "closed"}
    /\ queue \in Seq(Jobs \cup {Stop}) /\ Len(queue) <= QueueSize
    /\ unfinished \in Nat
    /\ sub \in [Jobs -> {"new", "waiting", "woken", "accepted", "refused"}]
    /\ run \in [Workers -> Jobs \cup {NoJob}]
    /\ alive \subseteq Workers /\ cancelled \subseteq Workers
    /\ outcome \in [Jobs -> {"none", "done", "cancelled"}]
    /\ closer \in {"none", "joining", "drained", "stopping", "closed", "failed"}

Busy == {w \in Workers : run[w] # NoJob}

(* The count join() waits on is the queued items plus the running jobs, after failures,
   cancellations and sentinels alike; a wrong count would end a drain early or never. *)
UnfinishedExact == unfinished = Len(queue) + Cardinality(Busy)

(* Once the pool is closed no worker is alive and no job runs: the owner may close what jobs use. *)
NothingRunsAfterClose == state = "closed" => alive = {} /\ Busy = {}

(* close() shuts down all workers (its docstring): it never ends in the QueueFull of a sentinel that finds no
   room, nothing runs after it, and if it did not time out it ran every job the pool accepted. *)
CloseDrains ==
    /\ closer # "failed"
    /\ NothingRunsAfterClose
    /\ state = "closed" /\ cancelled = {} => \A j \in Jobs : sub[j] = "accepted" => outcome[j] = "done"

(* A close() that began ends, even if a job never does: the timeout cancels it. *)
CloseEnds == closer # "none" ~> closer = "closed"
=============================================================================
