--------------------------- MODULE DurableRecords ---------------------------
(***************************************************************************)
(* What the listener and the backend together promise about one record     *)
(* (a tick or a raw feed event): once it has been written to the batch     *)
(* stream it is kept until it is in the database, and it enters the        *)
(* database once.  Only a record still in the listener's memory may be     *)
(* lost.  Nothing here says how.                                           *)
(***************************************************************************)
EXTENDS Naturals

CONSTANT Records

VARIABLES stage,   \* where each record is
          copies   \* how many database rows each record has

Stages == {"unseen", "buffered", "stored", "recorded", "lost"}

TypeOK == /\ stage \in [Records -> Stages]
          /\ copies \in [Records -> Nat]

Init == /\ stage = [r \in Records |-> "unseen"]
        /\ copies = [r \in Records |-> 0]

\* The records of S go from one stage to the next together.
Advance(S, from, to) ==
    /\ S # {}
    /\ \A r \in S : stage[r] = from
    /\ stage' = [r \in Records |-> IF r \in S THEN to ELSE stage[r]]

Accept(S) == Advance(S, "unseen", "buffered") /\ UNCHANGED copies

Store(S) == Advance(S, "buffered", "stored") /\ UNCHANGED copies

Lose(S) == Advance(S, "buffered", "lost") /\ UNCHANGED copies

Record(S) ==
    /\ Advance(S, "stored", "recorded")
    /\ copies' = [r \in Records |-> IF r \in S THEN copies[r] + 1 ELSE copies[r]]

Next == \E S \in SUBSET Records : Accept(S) \/ Store(S) \/ Lose(S) \/ Record(S)

Spec == Init /\ [][Next]_<<stage, copies>>
=============================================================================
