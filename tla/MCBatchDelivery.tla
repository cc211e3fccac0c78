-------------------------- MODULE MCBatchDelivery --------------------------
(***************************************************************************)
(* Small instances of Delivery: a behaviour is of one of its parts.        *)
(* Migrations: a batch, an entry that cannot be read and a dead letter     *)
(* under the old names, with or without a stream under the new one, or the *)
(* windows of three items; the Skinport listener, the replay of its dead   *)
(* letters, and for the windows another listener.                          *)
(***************************************************************************)
EXTENDS Delivery, TLC

VARIABLE subject

MCReads(a) == IF a = "replay" THEN "dead" ELSE "pending"
MCForm(load) == CASE load \in {"b1", "d"} -> "source" [] load = "n" -> "venue" [] OTHER -> "broken"

Names == {"old", "new"} \X {"pending", "dead", "malformed"}
Nothing == [n \in Names |-> {}]
Held(entries, old, new) ==
    [streams |-> entries, exists |-> {n \in Names : entries[n] # {}}, newestId |-> 20,
     legacy |-> old, windows |-> new]

OldStreams ==
    LET stored(new) == [n \in Names |->
            CASE n = <<"old", "pending">> -> {[id |-> 1, load |-> "b1"], [id |-> 2, load |-> "torn"]}
              [] n = <<"old", "dead">> -> {[id |-> 1, load |-> "d"]}
              [] n = <<"new", "pending">> -> new
              [] OTHER -> {}]
    IN  {stored({}), stored({[id |-> 11, load |-> "n"]})}

BeforeStreams == {Held(s, {}, [i \in Items |-> "none"]) : s \in OldStreams}
BeforeWindows == {Held(Nothing, {1, 2}, [i \in Items |-> IF i = 2 THEN "newer" ELSE "none"])}
BeforeNothing == {Held(Nothing, {}, [i \in Items |-> "none"])}
MCBefore == BeforeStreams \cup BeforeWindows \cup BeforeNothing

MigrationInit ==
    \/ subject = "streams" /\ \E b \in BeforeStreams : Migration!InitWith(b)
    \/ subject = "windows" /\ \E b \in BeforeWindows : Migration!InitWith(b)
    \/ subject = "delivery" /\ \E b \in BeforeNothing : Migration!InitWith(b)

\* Only the windows are of interest to the other listener, and only then.
MigrationNext == Migration!Next /\ (subject = "streams" => at'["waxpeer"] = at["waxpeer"])

Symmetry == Permutations(Records) \cup Permutations(BatchIds) \cup Permutations(Workers)

\* The bounds are used up and the listener has nothing left to do; any other state without a step is a deadlock.
Exhausted ==
    /\ proc = "running" /\ consumer = "receiving" /\ buffer = {}
    /\ arrived = Records /\ stops = MaxStops
    /\ queue = <<>> /\ \A s \in Senders : pc[s] = "idle"
    /\ UNCHANGED vars

\* Everything is moved and sent.
Moved == (\A a \in {"skinport", "replay"} : at[a].pc = "done") /\ UNCHANGED migration

MCInit == subject \in {"delivery", "streams", "windows"} /\ Init /\ MigrationInit

MCNext ==
    /\ UNCHANGED subject
    /\ \/ subject = "delivery" /\ (Next \/ Exhausted) /\ UNCHANGED migration
       \/ subject # "delivery" /\ (MigrationNext \/ Moved) /\ UNCHANGED vars

MCSpec == MCInit /\ [][MCNext]_<<subject, vars, migration>>
=============================================================================
