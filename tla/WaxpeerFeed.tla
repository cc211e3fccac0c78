---------------------------- MODULE WaxpeerFeed ----------------------------
(***************************************************************************)
(* The Waxpeer live feed (apps/listener/scrapers/waxpeer.py): the session, *)
(* the recording filter with the listings it follows, and the batch of raw *)
(* payloads (scrapers/listing_filter.py).                                  *)
(*                                                                         *)
(* The market changes at any moment.  A message reaches the scraper while  *)
(* it is subscribed and is lost otherwise.  The prices that the filter     *)
(* judges by come and go with the builds in the edge Redis                 *)
(* (BaselineLoader); here a build says from which price on a listing is    *)
(* not worth recording.                                                    *)
(***************************************************************************)
EXTENDS Naturals, Sequences, SequencesExt

CONSTANTS
    Listings, MaxPrice, MaxBuild,
    Limit(_, _),    \* under a build, the price from which a listing is not worth recording
    MaxTracked,     \* WAXPEER_TRACKED_LISTINGS_MAX
    MaxEvents,      \* RAW_BATCH_MAX_EVENTS
    MaxChanges, MaxDrops, MaxCrashes   \* bounds

FeedAssumption ==
    /\ MaxPrice \in Nat /\ MaxBuild \in Nat /\ \A b \in 1..MaxBuild, l \in Listings : Limit(b, l) \in Nat
    /\ MaxTracked \in Nat \ {0} /\ MaxEvents \in Nat \ {0}
    /\ MaxChanges \in Nat /\ MaxDrops \in Nat /\ MaxCrashes \in Nat

VARIABLES
    market,     \* the price of each listing, 0 while it is not listed
    stored,     \* the build in the edge Redis, 0 for none
    link,       \* the connection
    held,       \* ResalePrices.build_id, 0 for None
    tracked,    \* _tracked: the followed listings and their latest prices, the least recent first
    raw, due,   \* RawEventBatch: how many payloads it holds, and whether the first is 10 seconds old
    owed,       \* ghost: how many recorded events' payloads the queue was not given yet
    known, cheap,    \* ghosts: a listing's price on the feed, and whether it was worth recording when it was sent
    last,       \* ghost: the last record of each listing
    missed,     \* ghost: the listings whose messages were lost, or that the filter forgot, since their last record
    changes, drops, crashes

memory == <<held, tracked>>
batch == <<raw, due>>
records == <<known, cheap, last, missed>>
history == <<owed, records>>
bounds == <<changes, drops, crashes>>
vars == <<market, stored, link, held, tracked, raw, due, owed, known, cheap, last, missed,
          changes, drops, crashes>>

NoRecord == [state |-> "none", price |-> 0, build |-> 0]

Init ==
    /\ market = [l \in Listings |-> 0] /\ stored = 0
    /\ link = "down" /\ held = 0 /\ tracked = <<>>
    /\ raw = 0 /\ due = FALSE /\ owed = 0
    /\ known = market /\ cheap = [l \in Listings |-> FALSE]
    /\ last = [l \in Listings |-> NoRecord] /\ missed = {}
    /\ changes = 0 /\ drops = 0 /\ crashes = 0

-----------------------------------------------------------------------------
(* What the filter follows.                                                *)

Followed(t) == {t[i].id : i \in 1..Len(t)}
FollowedPrice(t, l) == t[CHOOSE i \in 1..Len(t) : t[i].id = l].price

\* A listing is followed at one place.
Unfollow(t, l) ==
    IF l \in Followed(t) THEN RemoveAt(t, CHOOSE i \in 1..Len(t) : t[i].id = l) ELSE t

\* _track: the latest at the end, and the oldest go when there are too many.
Track(t, l, p) ==
    LET all == Append(Unfollow(t, l), [id |-> l, price |-> p])
    IN  IF Len(all) > MaxTracked THEN Tail(all) ELSE all

\* ResalePrices.judge
WorthRecording(b, l, p) == b # 0 /\ p < Limit(b, l)

\* Mutant of AfterListing: a followed listing that is not worth it any more is not followed any more.
AfterListingUnfollows(event, b, l, p) ==
    IF WorthRecording(b, l, p)
    THEN [tracked |-> Track(tracked, l, p),
          recorded |-> event = "new" \/ l \notin Followed(tracked) \/ p < FollowedPrice(tracked, l)]
    ELSE [tracked |-> Unfollow(tracked, l), recorded |-> FALSE]

\* listing: a cut of a followed listing is recorded when it is worth it, a rise is not, and the price is
\* followed either way.  Any other listing is followed as long as it is recorded.
AfterListing(event, b, l, p) ==
    IF event = "update" /\ l \in Followed(tracked)
    THEN [tracked |-> Track(tracked, l, p), recorded |-> p < FollowedPrice(tracked, l) /\ WorthRecording(b, l, p)]
    ELSE IF WorthRecording(b, l, p) THEN [tracked |-> Track(tracked, l, p), recorded |-> TRUE]
    ELSE [tracked |-> Unfollow(tracked, l), recorded |-> FALSE]

\* removal
AfterRemoval(l) == [tracked |-> Unfollow(tracked, l), recorded |-> l \in Followed(tracked)]

-----------------------------------------------------------------------------
(* The raw payloads.                                                       *)

\* Mutant of Overdue: only a full batch is handed on.
OverdueFull == raw >= MaxEvents

\* take_if_due
Overdue == raw > 0 /\ (due \/ raw >= MaxEvents)

\* Before any text frame is looked at, the batch that is due is handed on; then add takes what the frame brought.
BatchAfter(added) ==
    /\ raw' = (IF Overdue THEN 0 ELSE raw) + added
    /\ owed' = (IF Overdue THEN owed - raw ELSE owed) + added
    /\ due' = (due /\ ~Overdue)

\* The first payload of the batch gets old.
Age ==
    /\ raw > 0 /\ ~due
    /\ due' = TRUE
    /\ UNCHANGED <<market, stored, link, memory, raw, history, bounds>>

-----------------------------------------------------------------------------
(* The market, and what arrives of it.                                     *)

\* A listing is listed, repriced or removed.
Change(event, l, p) ==
    /\ changes < MaxChanges /\ changes' = changes + 1
    /\ market[l] = 0 <=> event = "new"
    /\ p = 0 <=> event = "removed"
    /\ market' = [market EXCEPT ![l] = p]

Lost(event, l, p) ==
    /\ link # "subscribed"
    /\ Change(event, l, p)
    /\ missed' = missed \cup {l}
    /\ UNCHANGED <<stored, link, memory, batch, owed, known, cheap, last, drops, crashes>>

\* The prices are read again every minute, and every few seconds as long as there are none.
Refreshed == {held} \cup (IF stored = 0 THEN {} ELSE {stored})

\* An event of the feed, as _read_feed and _filter_event handle it
Event(event, l, p) ==
    /\ link = "subscribed"
    /\ Change(event, l, p)
    /\ held' \in Refreshed
    /\ LET after == IF event = "removed" THEN AfterRemoval(l) ELSE AfterListing(event, held', l, p)
       IN  /\ tracked' = after.tracked
           /\ BatchAfter(IF after.recorded THEN 1 ELSE 0)
           /\ last' = IF ~after.recorded THEN last
                      ELSE [last EXCEPT ![l] = [state |-> IF p = 0 THEN "removed" ELSE "listed", price |-> p, build |-> held']]
           /\ missed' = IF after.recorded
                        THEN (missed \cup (Followed(tracked) \ Followed(after.tracked))) \ {l}
                        ELSE missed
    /\ known' = [known EXCEPT ![l] = p]
    /\ cheap' = [cheap EXCEPT ![l] = event # "removed" /\ WorthRecording(held', l, p)]
    /\ UNCHANGED <<stored, link, drops, crashes>>

\* The loader stores another build.
Build ==
    /\ stored < MaxBuild
    /\ stored' = stored + 1
    /\ UNCHANGED <<market, link, memory, batch, history, bounds>>

-----------------------------------------------------------------------------
(* The session: open packet, namespace, subscription.                      *)

Frame(from, to) ==
    /\ link = from /\ link' = to
    /\ BatchAfter(0)
    /\ UNCHANGED <<market, stored, memory, records, bounds>>

Connect ==
    /\ link = "down" /\ link' = "opening"
    /\ UNCHANGED <<market, stored, memory, batch, history, bounds>>

Opened == Frame("opening", "connecting")
Connected == Frame("connecting", "subscribing")
Subscribed == Frame("subscribing", "subscribed")
Ping == Frame("subscribed", "subscribed")

\* The server, or the network, goes silent.
Silence ==
    /\ link # "down" /\ drops < MaxDrops /\ drops' = drops + 1
    /\ link' = "silent"
    /\ UNCHANGED <<market, stored, memory, batch, history, changes, crashes>>

\* The raw payloads still pending are handed on before the connection is given up.
HandOver == raw' = 0 /\ due' = FALSE /\ owed' = owed - raw

\* The receive timeout, on a connection without a frame
TimedOut ==
    /\ link = "silent" /\ link' = "down"
    /\ HandOver
    /\ UNCHANGED <<market, stored, memory, records, bounds>>

\* A close or error message, a disconnect packet, or a refused connection
Dropped ==
    /\ link \notin {"down", "silent"} /\ drops < MaxDrops /\ drops' = drops + 1
    /\ link' = "down"
    /\ HandOver
    /\ UNCHANGED <<market, stored, memory, records, changes, crashes>>

\* The listener restarts: it follows nothing, holds no prices, and the payloads pending are gone.
Crash ==
    /\ crashes < MaxCrashes /\ crashes' = crashes + 1
    /\ link' = "down" /\ held' = 0 /\ tracked' = <<>>
    /\ raw' = 0 /\ due' = FALSE /\ owed' = owed - raw
    /\ missed' = missed \cup Followed(tracked)
    /\ UNCHANGED <<market, stored, known, cheap, last, changes, drops>>

-----------------------------------------------------------------------------
Session == Connect \/ Opened \/ Connected \/ Subscribed \/ TimedOut

Next ==
    \/ \E e \in {"new", "update", "removed"}, l \in Listings, p \in 0..MaxPrice : Event(e, l, p) \/ Lost(e, l, p)
    \/ Session \/ Ping \/ Silence \/ Dropped \/ Crash \/ Age \/ Build

Spec == Init /\ [][Next]_vars

\* The producer connects again, the server answers and pings, and time passes.
Fairness == WF_vars(Session) /\ WF_vars(Ping) /\ WF_vars(Age)

-----------------------------------------------------------------------------
TypeOK ==
    /\ market \in [Listings -> 0..MaxPrice] /\ known \in [Listings -> 0..MaxPrice]
    /\ stored \in 0..MaxBuild /\ held \in 0..stored
    /\ link \in {"down", "opening", "connecting", "subscribing", "subscribed", "silent"}
    /\ tracked \in Seq([id : Listings, price : 1..MaxPrice]) /\ Len(tracked) <= MaxTracked
    /\ raw \in 0..MaxEvents /\ due \in BOOLEAN

(* A listing that was worth buying when the feed last spoke of it is recorded, at a price no higher as long as
   the resale prices are those of the record: whatever rises, cuts, relistings, evictions, lost messages and
   restarts came before (RecordingFilter.listing; "A rise is not a new opportunity"). *)
WorthyRecorded == \A l \in Listings :
    cheap[l] =>
        /\ last[l].state = "listed"
        /\ last[l].build = held => last[l].price <= known[l]

(* What is recorded follows the market: a listing worth buying is recorded; a recorded listing that left the
   market is recorded as removed, unless the feed lost a message about it or the filter forgot it; and every
   recorded event's payload is pending or was handed on, once, also over lost connections
   (RecordingFilter.removal, listen_websocket_stream). *)
MarketRecorded ==
    /\ TypeOK
    /\ WorthyRecorded
    /\ \A l \in Listings \ missed : known[l] = 0 => last[l].state # "listed"
    /\ owed = raw

(* A pending payload is handed on in the end, also when no more events come: pings are enough, and a connection
   that went silent is given up (take_if_due, _read_feed). *)
RawHandedOn == raw > 0 ~> raw = 0
=============================================================================
