------------------------------ MODULE MCFeeds ------------------------------
(***************************************************************************)
(* Feeds on small instances.  As they are apart, a behaviour is of one of  *)
(* them, its subject, and the others stay where they start.  The actions   *)
(* of a module that are fair are guarded by its subject, so the others'    *)
(* are disabled.                                                           *)
(***************************************************************************)
EXTENDS Feeds

VARIABLE subject

\* The second build has lower prices, and the first has them back later.
MCLimit(b, l) == IF b = 1 THEN 3 ELSE 2

\* DMarketPoller without late listings, so that two pages make a whole poll and what is left takes several to catch up
Backlog == INSTANCE DMarketPoller WITH
    PageSize <- 1, LiveMaxPages <- 2, LiveOverlap <- 0, ResumeOverlap <- 1, MaxFailures <- 0, MaxCrashes <- MaxOutages,
    Unanswered <- 0, pc <- at, newest <- latest, seen <- shown, doc <- point, known <- accounted,
    failures <- mishaps, crashes <- outages

MCInit == subject \in {"loader", "skinport", "waxpeer", "dmarket", "backlog"} /\ FeedsInit

MCNext ==
    /\ UNCHANGED subject
    /\ \/ subject = "loader" /\ Next /\ UNCHANGED <<sale_feed, feed, poller>>
       \/ subject = "skinport" /\ Skinport!Next /\ UNCHANGED <<vars, feed, poller>>
       \/ subject = "waxpeer" /\ (Waxpeer!Next \/ UNCHANGED feed) /\ UNCHANGED <<vars, sale_feed, poller>>
       \/ subject = "dmarket" /\ (DMarket!Next \/ UNCHANGED poller) /\ UNCHANGED <<vars, sale_feed, feed>>
       \/ subject = "backlog" /\ (Backlog!Next \/ UNCHANGED poller) /\ UNCHANGED <<vars, sale_feed, feed>>

MCSpec ==
    /\ MCInit /\ [][MCNext]_<<subject, feeds>>
    /\ WF_vars(subject = "loader" /\ Refresh)
    /\ \A l \in Listeners : WF_vars(subject = "loader" /\ Check(l))
    /\ WF_sale_feed(subject = "skinport" /\ Skinport!Listener)
    /\ WF_sale_feed(subject = "skinport" /\ Skinport!Server)
    /\ WF_sale_feed(subject = "skinport" /\ Skinport!Tick)
    /\ WF_feed(subject = "waxpeer" /\ Waxpeer!Session)
    /\ WF_feed(subject = "waxpeer" /\ Waxpeer!Ping)
    /\ WF_feed(subject = "waxpeer" /\ Waxpeer!Age)
    /\ WF_poller(subject = "backlog" /\ Backlog!Surroundings)
    /\ WF_poller(subject = "backlog" /\ Backlog!Turn)
    /\ SF_poller(subject = "backlog" /\ Backlog!CatchUpPage)

(* After an outage the listener is joined to Skinport's feed again, and the DMarket listings it brought are all read. *)
FeedsRecover == (subject = "skinport" => Skinport!Rejoins) /\ (subject = "backlog" => Backlog!AllRead)
=============================================================================
