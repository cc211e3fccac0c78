------------------------------ MODULE MCSales ------------------------------
(***************************************************************************)
(* VenueSales on small instances: a behaviour is of the sync of two titles *)
(* or of the labeler.  The labeler's venue shows two recordings of one     *)
(* item, the second at another price, and sales of it and of another item. *)
(***************************************************************************)
EXTENDS VenueSales, TLC

VARIABLE subject

Offer(l, i, p) == [type |-> "offer", listing |-> l, item |-> i, price |-> p]
MCKinds == {Offer("l1", "i", 1), Offer("l2", "i", 2), Offer("other", "j", 3)}
MCNoSale == Offer("none", "none", 0)

Rule == [horizon |-> 2, hold |-> 1, settle |-> 1, revise |-> 2, min_comparable |-> 1, fee |-> 1]
MCConfigs == {Rule @@ [venue_sales |-> FALSE, sales_settle |-> 0], Rule @@ [venue_sales |-> TRUE, sales_settle |-> 1]}
MCListings == {"l1", "l2"}
MCItem == [l \in MCListings |-> "i"]
MCPrice == [l1 |-> 1, l2 |-> 2]
MCNone == [label |-> {}]

Symmetry == Permutations(Titles)

MCInit ==
    /\ subject \in {"sync", "labels"}
    /\ Init /\ Labels!Init
    /\ subject = "sync" => ~config.venue_sales

MCNext ==
    /\ UNCHANGED subject
    /\ \/ subject = "sync" /\ Next /\ UNCHANGED labels
       \/ subject = "labels" /\ Labels!Next /\ UNCHANGED vars

MCSpec == MCInit /\ [][MCNext]_<<subject, vars, labels>>
=============================================================================
