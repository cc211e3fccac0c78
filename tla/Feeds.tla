------------------------------- MODULE Feeds -------------------------------
(***************************************************************************)
(* What the listener keeps next to its feeds: the baseline builds in the   *)
(* edge Redis (BaselineLoader), the session of Skinport's sale feed        *)
(* (SkinportFeed), what the Waxpeer feed follows (WaxpeerFeed), and the    *)
(* resume point of DMarket's listings (DMarketPoller).  Here they are      *)
(* apart: BaselineLoader has the prices the filter holds, WaxpeerFeed      *)
(* takes any build of them at any event, and the poller waits for them     *)
(* before its first poll.                                                  *)
(***************************************************************************)
EXTENDS BaselineLoader, Integers

CONSTANTS
    Listings, MaxPrice, Prepared, Limit(_, _), MaxTracked, MaxEvents,    \* of WaxpeerFeed
    MaxChanges, MaxDrops, MaxCrashes,
    Interval, PingTimeout, DefaultTimeout, FirstDelay, MaxDelay,         \* of SkinportFeed
    Latency, MaxHold, MaxFrames, MaxFaults,
    MaxTime, Worthy, PageSize, LiveMaxPages, LiveOverlap,                \* of DMarketPoller
    ResumeOverlap, MaxPollTime, MaxCatchUp, MaxMishaps, MaxOutages

VARIABLES
    \* of WaxpeerFeed
    market, stored, link, held, tracked, raw, due, owed, known, cheap, last, missed, changes, drops, crashes,
    \* of SkinportFeed
    client, left, delay, delivered, timeout, silent, gauge, server, beat, down, late, cut, stalled,
    kept_waiting, unread, gone, wronged, frames, faults,
    \* of DMarketPoller
    now, visible, at, latest, floor, gaps, shown, recorded, poll, polled, pending, point, handed, start, lost, accounted,
    mishaps, outages, unanswered

feed == <<market, stored, link, held, tracked, raw, due, owed, known, cheap, last, missed,
          changes, drops, crashes>>
sale_feed == <<client, left, delay, delivered, timeout, silent, gauge, server, beat, down, late, cut, stalled,
               kept_waiting, unread, gone, wronged, frames, faults>>
poller == <<now, visible, at, latest, floor, gaps, shown, recorded, poll, polled, pending, point, handed, start, lost,
            accounted, mishaps, outages, unanswered>>
feeds == <<vars, feed, sale_feed, poller>>

Waxpeer == INSTANCE WaxpeerFeed WITH MaxBuild <- Prepared

Skinport == INSTANCE SkinportFeed WITH held <- stalled

DMarket == INSTANCE DMarketPoller WITH
    Unanswered <- 0, MaxFailures <- MaxMishaps, MaxCrashes <- MaxOutages,
    pc <- at, newest <- latest, seen <- shown, doc <- point, known <- accounted,
    failures <- mishaps, crashes <- outages

ASSUME FeedsAssumption ==
    /\ Waxpeer!FeedAssumption
    /\ Skinport!SessionAssumption
    /\ DMarket!PollerAssumption

FeedsInit == Init /\ Skinport!Init /\ Waxpeer!Init /\ DMarket!Init

FeedsNext ==
    \/ Next /\ UNCHANGED <<feed, sale_feed, poller>>
    \/ Waxpeer!Next /\ UNCHANGED <<vars, sale_feed, poller>>
    \/ Skinport!Next /\ UNCHANGED <<vars, feed, poller>>
    \/ DMarket!Next /\ UNCHANGED <<vars, feed, sale_feed>>

FeedsSpec == FeedsInit /\ [][FeedsNext]_feeds

(* SkinportFeed: a connection that works is kept, one that died is noticed, and events are lost between them only. *)
SessionsSound == Skinport!SessionsSound

(* WaxpeerFeed: what was worth buying and what left the market is recorded, and no raw payload is lost or stays. *)
MarketRecorded == Waxpeer!MarketRecorded
RawHandedOn == Waxpeer!RawHandedOn

(* DMarketPoller: no listing owed is missed or recorded again. *)
ReadOnce == DMarket!ReadOnce
=============================================================================
