----------------------------- MODULE MCTaskPool -----------------------------
(***************************************************************************)
(* Small instances of TaskPool, and of BatchDelivery for what must happen  *)
(* in the end.  They share nothing here: a behaviour is of one of them,    *)
(* and the other stays where it starts.                                    *)
(***************************************************************************)
EXTENDS TaskPool, TLC

VARIABLES
    subject,
    proc, stops, arrived, consumer, buffer, bufferId, added, cursor,    \* of BatchDelivery
    flushes, pc, job, attempt, pending, lastId, dead, lastDead, late, ledger, rows

Records == {"r1", "r2"}

Delivery == INSTANCE BatchDelivery WITH
    BatchIds <- {"b1", "b2"}, NoBatch <- "none", Workers <- {"sender"}, Replayer <- "replay", QueueSize <- 1,
    MaxAttempts <- 2, MaxStops <- 1, RedisMayFail <- FALSE, queue <- flushes

delivery == <<proc, stops, arrived, consumer, buffer, bufferId, added, cursor,
              flushes, pc, job, attempt, pending, lastId, dead, lastDead, late, ledger, rows>>

\* The pool has ended; any other state without a step is a deadlock.
Ended == state = "closed" /\ \A j \in Jobs : sub[j] # "new" /\ UNCHANGED vars

\* The bounds are used up and the listener has nothing left to do.
Exhausted ==
    /\ proc = "running" /\ consumer = "receiving" /\ buffer = {}
    /\ arrived = Records /\ stops = 1
    /\ flushes = <<>> /\ \A s \in DOMAIN pc : pc[s] = "idle"
    /\ UNCHANGED delivery

MCInit ==
    /\ subject \in {"pool", "delivery"}
    /\ Init /\ Delivery!Init

MCNext ==
    /\ UNCHANGED subject
    /\ \/ subject = "pool" /\ (Next \/ Ended) /\ UNCHANGED delivery
       \/ subject = "delivery" /\ (Delivery!Next \/ Exhausted) /\ UNCHANGED vars

\* The event loop keeps running the sender's task.
SenderStep(w) == Delivery!TakeJob(w) \/ Delivery!DeliveryStep(w) \/ Delivery!Bury(w)

\* The fairness of both, each in its own behaviours.
MCSpec ==
    /\ MCInit /\ [][MCNext]_<<subject, vars, delivery>>
    /\ Fairness
    /\ WF_delivery(subject = "delivery" /\ Delivery!ProcessStep)
    /\ WF_delivery(subject = "delivery" /\ SenderStep("sender"))

(* BatchDelivery: pending batches settle, and buffers are flushed. *)
DeliverySettles == Delivery!PendingSettles /\ Delivery!BufferFlushes
=============================================================================
