-------------------------------- MODULE SalesSync --------------------------------
(***************************************************************************)
(* The DMarket baseline builder (build_baselines.py) and its sales sync    *)
(* (dmarket_sales.py): a service that checks, reads every title's new      *)
(* sales page by page, newest first, and stores each title as it is done;  *)
(* titles fail, checks fail and are retried, the service is restarted, and *)
(* sales go on while a title is being read.                                *)
(***************************************************************************)
EXTENDS SalesStore

CONSTANTS PageSize,       \* LAST_SALES_PAGE_SIZE
          MaxPages,       \* MAX_PAGES_PER_TITLE
          Concurrent,     \* CONCURRENT_TITLES
          MaxAge,         \* --max-age-hours, in ticks
          Interval,       \* --check-interval-minutes, in ticks
          SalesWhilePaging,  \* whether a sale may show up between two pages of a title
          MaxTroubles

VARIABLES started,     \* `now` of the check that is syncing; -1 between checks
          newest,      \* newest_sale_times, read once at its start
          reading,     \* where each title stands: its phase, the pages read and the sales they held
          failures,    \* consecutive_failures
          next_check,
          troubles     \* failures and restarts so far, up to MaxTroubles

ASSUME SyncAssumption ==
    /\ IsFiniteSet(Titles) /\ {History, Lag, MaxTime, MaxSales, MaxPages} \subseteq Nat
    /\ PageSize \in Nat \ {0} /\ MaxAge \in Nat \ {0}

vars == <<now, sold, stored, builds, started, newest, reading, failures, next_check, troubles>>
venue == <<now, sold>>

Waiting == [phase |-> "waiting", pages |-> 0, sales |-> <<>>]
InPhase(phase) == {t \in Titles : reading[t].phase = phase}
Idle == started = -1

TypeOK == /\ now \in Times /\ sold \in [Titles -> Seq(Sales)] /\ stored \subseteq Row /\ builds \subseteq Times
          /\ started \in -1..MaxTime /\ newest \in [Titles -> -1..MaxTime]
          /\ \A t \in Titles : reading[t].phase \in {"waiting", "reading", "read", "done", "failed"}
          /\ failures \in Nat /\ next_check \in Nat

Init == /\ StoreInit
        /\ started = -1 /\ newest = [t \in Titles |-> -1] /\ reading = [t \in Titles |-> Waiting]
        /\ failures = 0 /\ next_check = 0 /\ troubles = 0

\* retry_delay_minutes: one tick after the first failure, doubling up to the interval
RetryDelay(n) == IF n <= 0 THEN Interval ELSE Min({2 ^ Min({n - 1, 32}), Interval})

\* What a check keeps in memory is gone when it ends.
Reset == /\ started' = -1
         /\ newest' = [t \in Titles |-> -1]
         /\ reading' = [t \in Titles |-> Waiting]

\* A bound of the environment
Trouble == troubles < MaxTroubles /\ troubles' = troubles + 1

\* run_forever after a check
Ended(ok) == /\ failures' = IF ok THEN 0 ELSE failures + 1
             /\ next_check' = now + RetryDelay(IF ok THEN 0 ELSE failures + 1)
             /\ Reset

(***************************************************************************)
(* build_dmarket_baselines: nothing to do while the newest build is recent *)
(***************************************************************************)
Recent == LatestBuild >= 0 /\ now - LatestBuild < MaxAge

Check ==
    /\ Idle /\ now >= next_check
    /\ IF Recent
         THEN Ended(TRUE)
         ELSE /\ started' = now
              /\ newest' = [t \in Titles |-> NewestSale(t)]
              /\ UNCHANGED <<reading, failures, next_check>>
    /\ UNCHANGED <<venue, stored, builds, troubles>>

ReadBackAfter(t) == Max({newest[t] + 1, started - History})

\* read_back_to of sync_one: the newest stored sale, or 90 days back when there is none or it is older
ReadBackTo(t) == Max({newest[t], started - History})

Page(t, pages) ==
    LET newest_first == Reverse(sold[t])
    IN  SubSeq(newest_first, pages * PageSize + 1, Min({(pages + 1) * PageSize, Len(newest_first)}))

\* parse_sales leaves out a sale without a usable price, time or type, and fetch_title_sales one that is older than wanted.
UsableIn(sales) == {i \in DOMAIN sales : sales[i].kind # Unusable}
Wanted(t, sales) == {i \in UsableIn(sales) : sales[i].at >= ReadBackTo(t)}

\* The loop of fetch_title_sales ends with a short page, a sale older than wanted, or the page guard.
LastPage(t, page, pages) == \/ Len(page) < PageSize
                            \/ Wanted(t, page) # UsableIn(page)
                            \/ pages + 1 >= MaxPages

FetchPage(t) ==
    /\ ~ Idle
    /\ \/ reading[t].phase = "reading"
       \/ reading[t].phase = "waiting" /\ Cardinality(InPhase("reading") \cup InPhase("read")) < Concurrent
    /\ LET page == Page(t, reading[t].pages)
       IN  reading' = [reading EXCEPT ![t] =
               [phase |-> IF LastPage(t, page, @.pages) THEN "read" ELSE "reading",
                pages |-> @.pages + 1,
                sales |-> @.sales \o page]]
    /\ UNCHANGED <<venue, stored, builds, started, newest, failures, next_check, troubles>>

\* sale_keys numbers identical sales in the order the client listed them, newest first.
ReadRows(t) ==
    LET sales == reading[t].sales
    IN  {[title |-> t, at |-> sales[i].at, kind |-> sales[i].kind,
          nr |-> Cardinality({j \in 1..(i - 1) : sales[j] = sales[i]})] : i \in Wanted(t, sales)}

\* store_sales: one transaction, ON CONFLICT DO NOTHING on (venue, title, sale_key)
Store(t) ==
    /\ reading[t].phase = "read"
    /\ stored' = stored \cup ReadRows(t)
    /\ reading' = [reading EXCEPT ![t] = [Waiting EXCEPT !.phase = "done"]]
    /\ UNCHANGED <<venue, builds, started, newest, failures, next_check, troubles>>

\* The request fails, or the client gives up on rate limits: the title is left for the next run.
FailTitle(t) ==
    /\ ~ Idle /\ reading[t].phase \in {"waiting", "reading"}
    /\ Trouble
    /\ reading' = [reading EXCEPT ![t] = [Waiting EXCEPT !.phase = "failed"]]
    /\ UNCHANGED <<venue, stored, builds, started, newest, failures, next_check>>

\* Anything else that fails (fees, database, an empty baseline list) fails the check.
FailCheck ==
    /\ ~ Idle /\ Trouble
    /\ Ended(FALSE)
    /\ UNCHANGED <<venue, stored, builds>>

\* DMARKET_MAX_FAILED_SHARE: too many failed titles and the sales would be stale
TooManyFailed == 2 * Cardinality(InPhase("failed")) > Cardinality(Titles)

\* offer_sale_histories and build_baselines leave something to store
HasBaselines == \E row \in stored : row.kind = "offer" /\ row.at > started - History

StoreBuild ==
    /\ ~ Idle /\ InPhase("done") \cup InPhase("failed") = Titles
    /\ IF TooManyFailed \/ ~ HasBaselines
         THEN Ended(FALSE) /\ UNCHANGED builds
         ELSE Ended(TRUE) /\ builds' = builds \cup {started}
    /\ UNCHANGED <<venue, stored, troubles>>

\* The container is restarted and checks at once.
Crash == /\ Trouble
         /\ Reset /\ failures' = 0 /\ next_check' = now
         /\ UNCHANGED <<venue, stored, builds>>

Sell(t, kind) == /\ SalesWhilePaging \/ reading[t].phase # "reading"
                 /\ Appear(t, kind)
                 /\ UNCHANGED <<started, newest, reading, failures, next_check, troubles>>

Tick == StoreTick /\ UNCHANGED <<started, newest, reading, failures, next_check, troubles>>

Next == \/ Check \/ FailCheck \/ StoreBuild \/ Crash \/ Tick
        \/ \E t \in Titles : FetchPage(t) \/ Store(t) \/ FailTitle(t) \/ \E kind \in Kinds : Sell(t, kind)

Spec == Init /\ [][Next]_vars

\* What a reader of venue_sales and of the builds may rely on (dmarket_sales.py:4-8): every sale is stored
\* once, no gap is left before a title's newest stored sale, and a build is no newer than its sales.
SalesStoreSpec == StoreSpec

\* A key per sale that tells it apart from the title's other sales, "and each is a real sale" (dmarket.py
\* sale_keys): no title has more stored sales of a second and kind than DMarket sold.
StoredOnce ==
    \A t \in Titles : \A row \in stored : row.title = t =>
        row.nr < Cardinality({i \in DOMAIN sold[t] : sold[t][i] = [at |-> row.at, kind |-> row.kind]})

=============================================================================
