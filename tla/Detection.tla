----------------------------- MODULE Detection -----------------------------
(***************************************************************************)
(* The listener's decision path for one item on one venue                  *)
(* (apps/listener/detection.py, tick_consumer in apps/listener/main.py):   *)
(* deduplication, the price window in the edge Redis, scoring, the rules   *)
(* and the fee floor.                                                      *)
(*                                                                         *)
(* One consumer handles one tick at a time, and no one else writes the     *)
(* item's window, so a tick is one action.  Its Redis commands can fail at *)
(* each point: `failed' is the command that raises, and what came before   *)
(* it stays done.  The baseline is replaced by the loader at any time.     *)
(* Recording ends here at the record buffer: see BatchDelivery.            *)
(***************************************************************************)
EXTENDS Integers, Sequences, FiniteSets, SequencesExt

CONSTANTS
    Listings,      \* listing IDs
    NoListing,     \* a listing whose feed event carries no ID
    Lowest,        \* a REST snapshot: the item's lowest ask
    Prices,        \* in cents
    Stickered,     \* the listings whose stickers are worth a premium
    Baselines,     \* what the loader can serve: records [floor, resale]
    NoBaseline,
    NoEntry, NoJob,
    Fee,           \* what buying and reselling the item costs
    WindowSize,    \* SLIDING_WINDOW_SIZE
    MinHistory,    \* MIN_HISTORY_POINTS
    CacheSize,     \* DEDUP_CACHE_MAX_SIZE
    DedupWindow,   \* DEDUP_WINDOW_SECONDS
    Hourly,        \* UNCHANGED_SNAPSHOT_WINDOW_SECONDS
    Lag,           \* how much older than an earlier tick a tick of another producer can be
    MaxTime, MaxTicks, MaxTroubles   \* bounds

ASSUME DetectionAssumption ==
    /\ Prices \subseteq 1..999 /\ Stickered \subseteq Listings
    /\ Lowest \notin Listings /\ NoListing \notin Listings \cup {Lowest}
    /\ Baselines \subseteq [floor : Nat, resale : Nat] /\ NoBaseline \notin Baselines
    /\ WindowSize \in Nat \ {0} /\ MinHistory \in Nat \ {0} /\ CacheSize \in Nat \ {0}
    /\ DedupWindow \in Nat /\ Hourly \in Nat \ {0} /\ Lag \in Nat /\ Fee \in Nat
    /\ MaxTime \in Nat /\ MaxTicks \in Nat /\ MaxTroubles \in Nat

VARIABLES
    now,        \* the newest time a tick has had
    dedup,      \* DedupCache: the item's entry, and the listings' last prices, oldest first
    window,     \* the sorted set of the item's (time, price) members
    baseline,   \* the item's baseline in the edge Redis
    job,        \* an anomaly on its way through the rules
    trade,      \* the last trade executed, or NoJob
    ticks, troubles,
    \* history:
    replayed,   \* the dedup memory that the recorded ticks alone give
    pushed,     \* every member written to the window since Redis started
    asks,       \* the last two snapshots that entered the window, and the time of the last one handled
    judged      \* per listing and for the lowest ask: the price last seen, and how often it was scored

live == <<dedup, window, baseline, job, trade>>
history == <<replayed, pushed, asks, judged>>
vars == <<now, live, ticks, troubles, history>>

Never == -1   \* a time or a price that is not there (None)
Times == 0..MaxTime
Sources == Listings \cup {NoListing, Lowest}
Tick == [of : Sources, price : Prices, time : Times]
Member == [time : Times, price : Prices]
Entry == [time : Times, price : Prices, ask : Prices \cup {Never}, windowed : Times \cup {Never}]

ASSUME NoEntryAssumption == NoEntry \notin Entry

IsSnapshot(t) == t.of = Lowest

-----------------------------------------------------------------------------
(* The dedup memory.                                                       *)

EmptyDedup == [entry |-> NoEntry, listings |-> <<>>]

SeenAt(d, l, p) == \E i \in DOMAIN d.listings : d.listings[i] = [listing |-> l, price |-> p]

is_duplicate(t, d) ==
    IF t.of \in Listings THEN SeenAt(d, t.of, t.price)
    ELSE /\ d.entry # NoEntry
         /\ t.price = d.entry.price
         /\ t.time - d.entry.time < DedupWindow

is_unchanged_snapshot(t, d) == d.entry # NoEntry /\ IsSnapshot(t) /\ t.price = d.entry.ask

hourly_snapshot_due(t, d) == d.entry.windowed = Never \/ t.time - d.entry.windowed >= Hourly

\* A listing has one entry at most.
Without(cached, l) ==
    IF \E i \in DOMAIN cached : cached[i].listing = l
    THEN RemoveAt(cached, CHOOSE i \in DOMAIN cached : cached[i].listing = l)
    ELSE cached

\* The listing becomes the newest; over the limit the oldest goes.
put_listing_price(t, cached) ==
    LET all == Append(Without(cached, t.of), [listing |-> t.of, price |-> t.price])
    IN  IF t.of \notin Listings THEN cached
        ELSE IF Len(all) > CacheSize THEN Tail(all) ELSE all

\* Mutant of update_dedup_cache: every snapshot counts as windowed.
update_windowed_always(t, d, enters) ==
    LET known == d.entry # NoEntry
    IN  [entry |-> [time |-> t.time, price |-> t.price,
                    ask |-> IF IsSnapshot(t) THEN t.price ELSE IF known THEN d.entry.ask ELSE Never,
                    windowed |-> IF IsSnapshot(t) THEN t.time ELSE IF known THEN d.entry.windowed ELSE Never],
         listings |-> put_listing_price(t, d.listings)]

update_dedup_cache(t, d, enters) ==
    LET ask == IF d.entry = NoEntry THEN Never ELSE d.entry.ask
        windowed == IF d.entry = NoEntry THEN Never ELSE d.entry.windowed
    IN  [entry |-> [time |-> t.time, price |-> t.price,
                    ask |-> IF IsSnapshot(t) THEN t.price ELSE ask,
                    windowed |-> IF IsSnapshot(t) /\ enters THEN t.time ELSE windowed],
         listings |-> put_listing_price(t, d.listings)]

-----------------------------------------------------------------------------
(* The price window: members are strings "time:price", ranked by time and  *)
(* then as strings, so "7:10" comes before "7:9".                          *)

\* The price's digits, padded on the right to three.
Padded(p) == IF p < 10 THEN p * 100 ELSE IF p < 100 THEN p * 10 ELSE p

Before(a, b) ==
    \/ a.time < b.time
    \/ a.time = b.time /\ Padded(a.price) < Padded(b.price)
    \/ a.time = b.time /\ Padded(a.price) = Padded(b.price) /\ a.price < b.price

Newest(w, n) == {m \in w : Cardinality({x \in w : Before(m, x)}) < n}

Trim(w) == Newest(w, WindowSize)

\* prices[-1]
ScoredPrice(w) == (CHOOSE m \in w : \A x \in w \ {m} : Before(x, m)).price

-----------------------------------------------------------------------------
(* History.                                                                *)

NoAsks == [entered |-> <<>>, handled |-> Never]
Unjudged == [price |-> Never, times |-> 0]

Init ==
    /\ now = 0
    /\ dedup = EmptyDedup /\ window = {} /\ baseline = NoBaseline
    /\ job = NoJob /\ trade = NoJob
    /\ ticks = 0 /\ troubles = 0
    /\ replayed = EmptyDedup /\ pushed = {} /\ asks = NoAsks
    /\ judged = [k \in Listings \cup {Lowest} |-> Unjudged]

\* The replay runs the same rules over the records; whether a snapshot enters the window leaves the prices alone.
Record(t) == replayed' = IF is_duplicate(t, replayed) THEN replayed ELSE update_dedup_cache(t, replayed, TRUE)

\* The tick's source was seen at its price and scored `times' times.  A listing out of the memory starts again.
Sighted(t, times, d) ==
    judged' = [k \in DOMAIN judged |->
        IF k = t.of
        THEN [price |-> t.price, times |-> IF judged[k].price = t.price THEN judged[k].times + times ELSE times]
        ELSE IF k = Lowest \/ \E i \in DOMAIN d.listings : d.listings[i].listing = k THEN judged[k] ELSE Unjudged]

\* A snapshot was handled; `short' says that the window had too few prices before.
Asked(t, entered, short) ==
    LET a == asks.entered
        last == IF Len(a) = 0 THEN a ELSE <<a[Len(a)]>>
        all == IF entered THEN Append(last, [time |-> t.time, price |-> t.price, short |-> short]) ELSE a
    IN  asks' = [entered |-> all, handled |-> IF all = <<>> THEN Never ELSE t.time]

-----------------------------------------------------------------------------
(* The consumer.                                                           *)

Arrives(t) ==
    /\ ticks < MaxTicks /\ ticks' = ticks + 1
    /\ now - Lag <= t.time
    /\ now' = IF t.time > now THEN t.time ELSE now
    /\ UNCHANGED <<baseline, trade>>

Fails(failed) ==
    IF failed = "nothing" THEN UNCHANGED troubles
    ELSE troubles < MaxTroubles /\ troubles' = troubles + 1

\* A duplicate changes nothing; it is recorded when it is a snapshot or a listing with an ID.
TakeDuplicate(t) ==
    /\ Arrives(t) /\ is_duplicate(t, dedup)
    /\ IF t.of = NoListing THEN UNCHANGED replayed ELSE Record(t)
    /\ Sighted(t, 0, dedup)
    /\ UNCHANGED <<dedup, window, job, troubles, pushed, asks>>

push_to_window(t, failed) ==
    LET all == window \cup {[time |-> t.time, price |-> t.price]}
    IN  IF failed = "zadd" THEN UNCHANGED <<window, pushed>>
        ELSE /\ window' = IF failed = "trim" THEN all ELSE Trim(all)
             /\ pushed' = pushed \cup all

\* Mutant of Remember: recorded before Redis is asked.
RememberLate(t, failed, enters) ==
    /\ dedup' = IF failed = "zcard" THEN dedup ELSE update_dedup_cache(t, dedup, enters)
    /\ Record(t)

\* The memory first and then the record, with nothing in between that can fail.
Remember(t, failed, enters) ==
    IF failed = "zcard" THEN UNCHANGED <<dedup, replayed>>
    ELSE dedup' = update_dedup_cache(t, dedup, enters) /\ Record(t)

Short == Cardinality(window) < MinHistory

unchanged_snapshot_enters_price_window(t, d) == hourly_snapshot_due(t, d) \/ Short

\* An unchanged snapshot is not scored.  Unless its hour is up, Redis says whether the window is short.
TakeUnchanged(t, failed) ==
    LET due == hourly_snapshot_due(t, dedup)
        enters == unchanged_snapshot_enters_price_window(t, dedup)
    IN  /\ Arrives(t) /\ ~is_duplicate(t, dedup) /\ is_unchanged_snapshot(t, dedup)
        /\ failed \in {"nothing"} \cup (IF due THEN {} ELSE {"zcard"}) \cup (IF enters THEN {"zadd", "trim"} ELSE {})
        /\ Fails(failed)
        /\ Remember(t, failed, enters)
        /\ IF failed = "zcard" THEN UNCHANGED <<window, pushed, asks, judged>>
           ELSE /\ IF enters THEN push_to_window(t, failed) ELSE UNCHANGED <<window, pushed>>
                /\ Sighted(t, 0, dedup')
                /\ IF failed = "zadd" THEN asks' = NoAsks ELSE Asked(t, enters, Short)
        /\ UNCHANGED job

\* The score of the newest price in a window is kept with the baseline it was made with.
score_window(t, w) ==
    [of |-> t.of, price |-> t.price, scored |-> ScoredPrice(w), known |-> baseline, rule |-> "none", approved |-> NoBaseline]

\* Any other tick enters the window and is scored.  Which scores are anomalies is left open, except that a window
\* without enough history gives none.  A bound: the workers change nothing the consumer reads, so only the last tick's
\* anomaly is followed; how anomalies wait for a worker is TaskPool.
TakeNew(t, failed) ==
    /\ Arrives(t) /\ ~is_duplicate(t, dedup) /\ ~is_unchanged_snapshot(t, dedup)
    /\ failed \in {"nothing", "zadd", "trim", "score"}
    /\ Fails(failed)
    /\ Remember(t, failed, TRUE)
    /\ push_to_window(t, failed)
    /\ Sighted(t, IF failed = "nothing" THEN 1 ELSE 0, dedup')
    /\ IF ~IsSnapshot(t) THEN UNCHANGED asks
       ELSE IF failed = "zadd" THEN asks' = NoAsks ELSE Asked(t, TRUE, Short)
    /\ \/ UNCHANGED job
       \/ /\ failed = "nothing" /\ ticks' = MaxTicks
          /\ job = NoJob /\ Cardinality(window') >= MinHistory
          /\ job' = score_window(t, window')

-----------------------------------------------------------------------------
(* The rules and the fee floor, in a worker of the anomaly pool.           *)

\* The baseline the tick was scored with, or the one in Redis when there was none.
JudgedBy == IF job.known # NoBaseline THEN job.known ELSE baseline

Approves(b, rule) ==
    /\ b # NoBaseline
    /\ \/ rule = "price" /\ job.price <= b.floor
       \/ rule = "stickers" /\ job.price > b.floor /\ job.of \in Stickered

\* dre_approval_reason.  The price rules are the support floor and the macro sigma: `floor' is the higher of the two.
\* A sticker premium above the base price may be too high.
Approve(rule) ==
    /\ job # NoJob /\ job.rule = "none" /\ Approves(JudgedBy, rule)
    /\ job' = [job EXCEPT !.rule = rule, !.approved = JudgedBy]
    /\ UNCHANGED <<now, dedup, window, baseline, trade, ticks, troubles, history>>

Reject ==
    /\ job # NoJob /\ job.rule = "none"
    /\ ~Approves(JudgedBy, "price")
    /\ Approves(JudgedBy, "stickers") => job.price > JudgedBy.resale
    /\ job' = NoJob
    /\ UNCHANGED <<now, dedup, window, baseline, trade, ticks, troubles, history>>

Net(b, price) == b.resale - Fee - price

\* Mutant of below_fee_floor: the floor is judged with the baseline now in Redis.
below_current_fee_floor(b) == job.rule = "price" /\ baseline # NoBaseline /\ Net(baseline, job.price) <= 0

below_fee_floor(b) == job.rule = "price" /\ b # NoBaseline /\ Net(b, job.price) <= 0

\* The rest of evaluate_and_execute: the alert and the paper trade are Alerts and PaperTrade.
Execute ==
    /\ job # NoJob /\ job.rule # "none"
    /\ trade' = IF below_fee_floor(JudgedBy) THEN trade ELSE job
    /\ job' = NoJob
    /\ UNCHANGED <<now, dedup, window, baseline, ticks, troubles, history>>

\* A Redis command of the rules raises: the worker logs it and the anomaly is gone.
EvaluationFails ==
    /\ job # NoJob /\ Fails("rules")
    /\ job' = NoJob
    /\ UNCHANGED <<now, dedup, window, baseline, trade, ticks, history>>

-----------------------------------------------------------------------------
(* The surroundings.                                                       *)

\* A bound: baselines matter to the last tick only, whose anomaly is followed.
Load(b) ==
    /\ ticks + 1 >= MaxTicks
    /\ baseline' = b
    /\ UNCHANGED <<now, dedup, window, job, trade, ticks, troubles, history>>

RestartListener ==
    /\ Fails("listener")
    /\ dedup' = EmptyDedup /\ job' = NoJob
    /\ replayed' = EmptyDedup /\ asks' = NoAsks /\ judged' = [k \in DOMAIN judged |-> Unjudged]
    /\ UNCHANGED <<now, window, baseline, trade, ticks, pushed>>

\* The edge Redis keeps nothing on disk.
RestartRedis ==
    /\ Fails("redis")
    /\ window' = {} /\ baseline' = NoBaseline /\ pushed' = {} /\ asks' = NoAsks
    /\ UNCHANGED <<now, dedup, job, trade, ticks, replayed, judged>>

Next ==
    \/ \E t \in Tick :
        \/ TakeDuplicate(t)
        \/ \E failed \in {"nothing", "zcard", "zadd", "trim", "score"} : TakeUnchanged(t, failed) \/ TakeNew(t, failed)
    \/ \E rule \in {"price", "stickers"} : Approve(rule)
    \/ Reject \/ Execute \/ EvaluationFails
    \/ \E b \in Baselines : Load(b)
    \/ RestartListener \/ RestartRedis

Spec == Init /\ [][Next]_vars

-----------------------------------------------------------------------------
(* Properties.                                                             *)

Jobs == [of : Sources, price : Prices, scored : Prices, known : Baselines \cup {NoBaseline},
         rule : {"none", "price", "stickers"}, approved : Baselines \cup {NoBaseline}]
Cached(d) == d.entry \in Entry \cup {NoEntry} /\ Len(d.listings) <= CacheSize

\* Types, with the caches and the window inside their limits (a window outgrows its limit only by failed trims).
TypeOK ==
    /\ now \in Times /\ ticks \in 0..MaxTicks /\ troubles \in 0..MaxTroubles
    /\ Cached(dedup) /\ Cached(replayed)
    /\ window \subseteq Member /\ Cardinality(window) <= WindowSize + troubles
    /\ baseline \in Baselines \cup {NoBaseline}
    /\ job \in Jobs \cup {NoJob} /\ trade \in Jobs \cup {NoJob}
    /\ pushed \subseteq Member

\* The records alone give the dedup memory the live listener has, whatever failed on the way: a duplicate may be
\* recorded or not, and a tick that is not recorded was not remembered either (tick_consumer's "decisions are unchanged").
Replayable ==
    /\ dedup.listings = replayed.listings
    /\ dedup.entry # NoEntry =>
        /\ replayed.entry # NoEntry
        /\ dedup.entry.price = replayed.entry.price /\ dedup.entry.time = replayed.entry.time
        /\ dedup.entry.ask = replayed.entry.ask

\* An offer that has not changed price is scored once, so its decision and its paper trade are not repeated
\* (is_duplicate, is_unchanged_snapshot).  The memory starts again when the listener does.
ScoredOnce == \A k \in DOMAIN judged : judged[k].times <= 1

\* The window never loses one of the newest prices and drops all others but those a failed trim left (push_to_window).
HoldsNewest == /\ window \subseteq pushed
               /\ Newest(pushed, WindowSize) \subseteq window
               /\ troubles = 0 => window = Newest(pushed, WindowSize)

\* A quiet item's window takes one reading an hour (price_window.py): two readings of one price are an hour apart unless
\* the window was short, and after each snapshot that is not a duplicate the last reading is younger than an hour.
OneAskAnHour ==
    LET a == asks.entered
    IN  /\ Len(a) = 2 /\ a[1].price = a[2].price /\ ~a[2].short => a[2].time - a[1].time >= Hourly
        /\ asks.handled # Never => asks.handled - a[Len(a)].time < Hourly

\* The window and the dedup memory are what the ticks so far make them, whatever Redis commands failed.
WindowSound == TypeOK /\ ScoredOnce /\ HoldsNewest /\ OneAskAnHour

\* A trade approved on its price alone makes a profit under the baseline that approved it, although the loader replaces
\* baselines meanwhile.  Without a baseline at scoring time, Redis is read twice, and the two reads may differ.
NoLossTrade ==
    trade # NoJob /\ trade.rule = "price" /\ trade.known # NoBaseline => Net(trade.approved, trade.price) > 0

\* "Scores the newest price": an anomaly is the tick's own price (score_window, update_window_and_detect).
ScoresOwnPrice == job # NoJob => job.scored = job.price
=============================================================================
