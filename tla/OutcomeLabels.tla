------------------------------ MODULE OutcomeLabels ------------------------------
(***************************************************************************)
(* The outcome labeler (outcome_labels.py, outcome_data.py,                *)
(* label_outcomes.py): runs over any range of listings, in any order, read *)
(* the recorded listings and the sales once, label window by window every  *)
(* listing whose horizon has passed, and upsert the labels; training reads *)
(* the final ones.  A venue's sales come from the sold ticks or from       *)
(* venue_sales, as SalesStore promises them.                               *)
(***************************************************************************)
EXTENDS SalesStore

CONSTANTS Configs,        \* the parameters runs may be started with: LabelConfig records
          Listings,
          Item,           \* the physical item of each listing
          Price,          \* the price of each listing
          Skew,           \* OWN_SALE_CLOCK_SKEW_SECONDS
          Window,         \* --window-hours
          MaxSightings, LastSighting, LastSale, BuildTimes,  \* bounds: the listed ticks, until when there are any,
                          \* until when sales show up, and when builds are made
          ReadAlone,      \* whether final labels are read only while no run is writing
          None

VARIABLES config,         \* what label_versions holds for the version: the parameters of its first run
          listed,         \* `listed` ticks in the database
          outcomes,       \* listing_outcomes of the version: listing -> row or None
          run,            \* the labeler run in progress, or None
          read            \* one read of the final labels: its as_of and rows, or None

vars == <<now, sold, stored, builds, config, listed, outcomes, run, read>>
store == <<now, sold, stored, builds>>

\* Times are ticks; a sale shows up within the settle time, "for edge batches still in flight", or within the time a
\* sync is waited for; the history of sales goes back to the first listing; and None is neither a label nor a run.
LabelsAssumption ==
    /\ {Skew, Window, Lag, MaxTime, History} \subseteq Nat /\ History >= MaxTime
    /\ \A c \in Configs : /\ {c.horizon, c.hold, c.settle, c.revise, c.sales_settle} \subseteq Nat
                          /\ Lag <= IF c.venue_sales THEN c.sales_settle ELSE c.settle
    /\ {"listed_at", "as_of"} \cap DOMAIN None = {}

Title == CHOOSE t \in Titles : TRUE
Sighting == [id : Listings, at : Times]

\* The sales that were seen or can be, as rows of venue_sales
AllSales == {SaleKey(Title, i) : i \in UsableSales(Title)}

Init == /\ StoreInit
        /\ config \in Configs
        /\ listed = {} /\ outcomes = [l \in Listings |-> None] /\ run = None /\ read = None

(***************************************************************************)
(* The recorded world                                                      *)
(***************************************************************************)
\* A listing is seen, perhaps again while it is on sale. The venue's own clock may put its sale a little earlier.
Sight(l) == /\ Cardinality(listed) < MaxSightings /\ now <= LastSighting
            /\ \A i \in DOMAIN sold[Title] : sold[Title][i].kind.listing = l =>
                   sold[Title][i].at >= now - Skew
            /\ listed' = listed \cup {[id |-> l, at |-> now]}
            /\ UNCHANGED <<store, config, outcomes, run, read>>

\* A sale shows up at the venue, a listing's only once, or again within the tick; with sold ticks it is recorded
\* at once.
Sale(kind) == /\ now <= LastSale
              /\ \A i \in DOMAIN sold[Title] : sold[Title][i].kind.listing = kind.listing => sold[Title][i].at = now
              /\ Appear(Title, kind)
              /\ UNCHANGED <<config, listed, outcomes, run, read>>

SyncSales == /\ config.venue_sales
             /\ StoreTitle(Title) /\ stored' = AllSales
             /\ UNCHANGED <<config, listed, outcomes, run, read>>

StoreBuild == /\ config.venue_sales /\ now \in BuildTimes
              /\ Build(now)
              /\ UNCHANGED <<config, listed, outcomes, run, read>>

Tick == StoreTick /\ UNCHANGED <<config, listed, outcomes, run, read>>

(***************************************************************************)
(* The labeling rule                                                       *)
(***************************************************************************)
\* fetch_venue_sales and fetch_listing_events(sold): what the version reads as sold events in [start, end)
RecordedSales(c) == IF c.venue_sales THEN stored ELSE AllSales
FetchSales(c, start, end) == {s \in RecordedSales(c) : s.kind.type = "offer" /\ start <= s.at /\ s.at < end}

Earliest(sales) == CHOOSE s \in sales : \A other \in sales : s.at < other.at \/ (s.at = other.at /\ s.nr <= other.nr)

\* SoldIndex.build: a listing is sold once, so a repeated sold tick is the same sale seen again.
SoldIndex(c, sales) ==
    IF c.venue_sales THEN sales
    ELSE {s \in sales : \A other \in sales : other.kind.listing = s.kind.listing =>
              s.at < other.at \/ (s.at = other.at /\ s.kind.price <= other.kind.price)}

\* When the same item was next recorded as another listing
NextListedAt(sighting) ==
    LET later == {s.at : s \in {o \in listed : /\ Item[o.id] = Item[sighting.id] /\ o.id # sighting.id
                                                /\ o.at > sighting.at}}
    IN  IF later = {} THEN MaxTime + 1 ELSE Min(later)

\* SoldIndex.item_sale: a sale in venue_sales names its item only (item_key)
ItemSale(c, sighting, index) ==
    LET inside == {s \in index : /\ s.kind.item = Item[sighting.id]
                                 /\ sighting.at - Skew <= s.at /\ s.at <= sighting.at + c.horizon}
        first == Earliest(inside)
    IN  IF inside = {} THEN {}
        ELSE {s \in {first} : s.at < NextListedAt(sighting) /\ s.kind.price = Price[sighting.id]}

\* The sale of the listing itself, as a set of at most one: a sold tick names its listing
OwnSale(c, sighting, index) ==
    IF c.venue_sales THEN ItemSale(c, sighting, index) ELSE {s \in index : s.kind.listing = sighting.id}

\* ItemFees.fee_bps: the fee of the newest build at or before the listing; a build's fee is told by its time
Fee(c, at, fee_builds) == LET before == {b \in fee_builds : b <= at}
                       IN  IF before = {} THEN c.fee ELSE Max(before) % 2

\* statistics.median_low
MedianLow(sales) == CHOOSE p \in {s.kind.price : s \in sales} :
    /\ 2 * Cardinality({s \in sales : s.kind.price < p}) < Cardinality(sales)
    /\ 2 * Cardinality({s \in sales : s.kind.price <= p}) >= Cardinality(sales)

Comparable(c, sighting, index, own) ==
    {s \in index \ own : sighting.at + c.hold <= s.at /\ s.at <= sighting.at + c.horizon}

\* label_listing: the market's columns of a row
LabelListing(c, sighting, index, fee_builds) ==
    LET own == OwnSale(c, sighting, index)
        comparable == Comparable(c, sighting, index, own)
        enough == Cardinality(comparable) >= c.min_comparable
        resale == IF enough THEN MedianLow(comparable) ELSE 0
        sold_in_time == {s \in own : c.venue_sales \/ (sighting.at <= s.at /\ s.at <= sighting.at + c.horizon)}
    IN  [comparable_sales |-> Cardinality(comparable),
         resale |-> resale,
         profitable |-> IF enough THEN resale - Fee(c, sighting.at, fee_builds) - Price[sighting.id] > 0 ELSE None,
         sold_within |-> IF sold_in_time = {} THEN -1 ELSE Max({0, Earliest(own).at - sighting.at})]

(***************************************************************************)
(* A run: label_listing_outcomes and label_window                          *)
(***************************************************************************)
\* Mutant of LatestLabelable: the sync is not waited for.
LatestLabelableUnsynced(c, as_of) == as_of - c.horizon - c.settle

\* latest_labelable: the horizon has passed, and a sync has begun a while after it
LatestLabelable(c, as_of) ==
    LET cutoff == as_of - c.horizon - c.settle
    IN  IF ~ c.venue_sales THEN cutoff
        ELSE IF builds = {} THEN -1
        ELSE Min({cutoff, LatestBuild - c.horizon - c.sales_settle})

FinalBefore(c, as_of) == as_of - c.settle - c.revise

\* register_label_version: a run whose parameters differ from the stored ones is refused before it reads anything.
Registered(c) == c = config

\* fetch_item_fees: the builds in force for listings in [start, end]
FetchFees(start, end) == {b \in builds : b <= end /\ b >= Latest({e \in builds : e <= start})}

\* iter_windows
WindowEnd(cursor, end) == Min({cursor + Window, end})

StartRun(c, start) ==
    /\ run = None /\ Registered(c)
    /\ LET end == Min({now, LatestLabelable(c, now)})
       IN  /\ start < end
           /\ run' = [config |-> c, as_of |-> now, start |-> start, cursor |-> start, end |-> end,
                      index |-> SoldIndex(c, FetchSales(c, start, end + c.horizon)),
                      fees |-> FetchFees(start, end)]
    /\ UNCHANGED <<store, config, listed, outcomes, read>>

\* The sightings of a listing within the window; first_sighting_per_listing keeps the earliest.
SeenIn(l, start, end) == {s.at : s \in {o \in listed : o.id = l /\ start <= o.at /\ o.at < end}}

\* Mutants of Writes: a final label is replaced, and the latest sighting wins.
WritesEarliest(old, listed_at) == old = None \/ old.listed_at >= listed_at
WritesLatest(old, listed_at) == old = None \/ old.listed_at <= listed_at

\* save_outcomes: the earliest sighting wins, and a final label is kept
Writes(old, listed_at) ==
    old = None \/ (old.listed_at >= listed_at /\ old.listed_at + run.config.horizon > FinalBefore(run.config, run.as_of))

Outcome(l, listed_at) == [label |-> LabelListing(run.config, [id |-> l, at |-> listed_at], run.index, run.fees),
                          listed_at |-> listed_at, labeled_at |-> now, run_start |-> run.start]

LabelWindow ==
    /\ run # None
    /\ LET end == WindowEnd(run.cursor, run.end)
       IN  /\ outcomes' = [l \in Listings |->
                 LET seen == SeenIn(l, run.cursor, end)
                 IN  IF seen # {} /\ Writes(outcomes[l], Min(seen)) THEN Outcome(l, Min(seen)) ELSE outcomes[l]]
           /\ run' = IF end = run.end THEN None ELSE [run EXCEPT !.cursor = end]
    /\ UNCHANGED <<store, config, listed, read>>

\* A flow that is killed has written the windows it finished.
StopRun == run # None /\ run' = None /\ UNCHANGED <<store, config, listed, outcomes, read>>

(***************************************************************************)
(* fetch_final_labels                                                      *)
(***************************************************************************)
FinalLabels(as_of) ==
    {l \in Listings : /\ outcomes[l] # None
                      /\ outcomes[l].listed_at + config.horizon <= FinalBefore(config, as_of)
                      /\ outcomes[l].labeled_at <= as_of}
FinalRows(as_of) == [l \in FinalLabels(as_of) |-> outcomes[l].label]

ReadFinal == /\ read = None
             /\ ReadAlone => run = None
             /\ FinalBefore(config, now - 1) >= config.horizon   \* no label can be final earlier
             /\ read' = [as_of |-> now - 1, rows |-> FinalRows(now - 1)]
             /\ UNCHANGED <<store, config, listed, outcomes, run>>

Next == \/ SyncSales \/ StoreBuild \/ Tick \/ LabelWindow \/ StopRun \/ ReadFinal
        \/ \E l \in Listings : Sight(l)
        \/ \E kind \in Kinds : Sale(kind)
        \/ \E c \in Configs, start \in Times : StartRun(c, start)

Spec == Init /\ [][Next]_vars

(***************************************************************************)
(* Properties                                                              *)
(***************************************************************************)
\* "A label never contains information from after label_available_at" and misses none from before it: a stored
\* label is the one the whole history of the venue gives its sighting, whichever run wrote it over whichever
\* range. (A listing just after the start of a run's range is left out: the run reads no sale before its start,
\* and the clock skew looks back.)
ExactLabel ==
    \A l \in Listings : outcomes[l] # None =>
        LET listed_at == outcomes[l].listed_at
            everything == SoldIndex(config, {s \in AllSales : s.kind.type = "offer"})
        IN  listed_at >= outcomes[l].run_start + Skew \/ ~ config.venue_sales =>
                outcomes[l].label = LabelListing(config, [id |-> l, at |-> listed_at], everything, builds)

\* "On conflict the earliest sighting of a listing wins" (save_outcomes): a label is never lost, nor moved to a
\* later sighting, in whatever order the ranges are labeled.
EarliestKept == [][\A l \in Listings : outcomes[l] # None =>
                       outcomes'[l] # None /\ outcomes'[l].listed_at <= outcomes[l].listed_at]_vars

\* "The same as_of reads the same rows on every run" (outcome_data.py, above _FINAL_LABELS_QUERY)
SameRows == read # None => FinalRows(read.as_of) = read.rows

=============================================================================
