----------------------------- MODULE MCServices -----------------------------
(***************************************************************************)
(* Services on small instances.  As they share nothing, a behaviour is of  *)
(* one of them, its subject, and the others stay where they start.         *)
(*                                                                         *)
(* Alerts: two listings of the same item at the same price, and the REST   *)
(* snapshot that shows them.  MarketContext: a knife of two phases, one    *)
(* name that only its base is stored of, an item without sales, and one    *)
(* that is not stored.                                                     *)
(***************************************************************************)
EXTENDS Services

VARIABLE subject

MCKey(a) == CASE a = "l1" -> "k1" [] a = "l2" -> "k2" [] a = "s" -> "item"
MCSnapshot(a) == "item"

MCConfigs == {[primary |-> "m1", fallbacks |-> <<"m2", "m1", "m2", "m3">>], [primary |-> "m1", fallbacks |-> <<>>]}
MCAbsent == -1
MCGarbled == -2

Sales(m) == [min |-> m, median |-> m, volume |-> 5]
Entry(v, d, m) ==
    [version |-> v, history |-> [h24 |-> Sales(d), h7 |-> Sales(m), h30 |-> Sales(m), h90 |-> Sales(m)]]
MCListed(base, t) ==
    IF base = "box" THEN <<>>
    ELSE <<Entry("p1", IF t < 2 THEN 1000 ELSE 900, 1000), Entry("p2", 2000 + t, 2000)>>
Name(base, version) == [base |-> base, version |-> version]
MCNames == {Name("knife", "none"), Name("knife", "p2"), Name("knife", "p3"), Name("box", "none"), Name("new", "none")}
MCIsStored(name) == name.base # "new" /\ name.version # "p3"
MCNoMacro == [latest |-> 0, volume |-> -1]
MCStored(name) ==
    IF name.base = "box" THEN [type |-> "Container", average |-> 300, macro |-> [latest |-> 300, volume |-> 20]]
    ELSE [type |-> "Knife", average |-> -1,
          macro |-> IF name.version = "p2" THEN [latest |-> 16000, volume |-> 20] ELSE MCNoMacro]
MCSpread(n) == n

\* Everything is submitted and settled, or every request is answered; any other state without a step is a deadlock.
Done ==
    /\ subject = "alerts" => /\ \A a \in Alerts : Key(a) \in alerted
                             /\ \A c \in Channels : queue[c] = <<>> /\ sender[c] = Idle
    /\ subject = "context" => \A r \in Requests : request[r].phase = "done"
    /\ subject \in {"alerts", "context"}
    /\ UNCHANGED all

MCInit ==
    /\ subject \in {"alerts", "skinport", "dmarket", "audit", "context"}
    /\ ServicesInit
    /\ subject # "audit" => models = <<"m1">>

MCNext ==
    /\ UNCHANGED subject
    /\ \/ subject = "alerts" /\ Next /\ UNCHANGED <<skinport, dmarket, audit, market>>
       \/ subject = "skinport" /\ Skinport!Next /\ UNCHANGED <<vars, dmarket, audit, market>>
       \/ subject = "dmarket" /\ DMarket!Next /\ UNCHANGED <<vars, skinport, audit, market>>
       \/ subject = "audit" /\ Audit!Next /\ UNCHANGED <<vars, skinport, dmarket, market>>
       \/ subject = "context" /\ Context!Next /\ UNCHANGED <<vars, skinport, dmarket, audit>>
       \/ Done

\* What is fair of a behaviour's subject; the others have nothing to do.
MCSpec ==
    /\ MCInit /\ [][MCNext]_<<subject, all>>
    /\ Fairness
    /\ DMarket!Fairness
    /\ Audit!Fairness
=============================================================================
