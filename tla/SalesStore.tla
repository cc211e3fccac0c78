-------------------------------- MODULE SalesStore --------------------------------
(***************************************************************************)
(* What the DMarket sales sync promises its readers: `venue_sales` holds   *)
(* whole stretches of each title's history, every sale once, and a build   *)
(* is dated no later than the sales it was made from.  SalesSync           *)
(* implements it; the labeler of OutcomeLabels reads it.                   *)
(***************************************************************************)
EXTENDS Integers, Sequences, FiniteSets, SequencesExt, FiniteSetsExt

CONSTANTS Titles,    \* DMarket titles, the phase removed
          Kinds,     \* what tells a title's sales of one second apart: price, type, float and paint seed
          Unusable,  \* a kind of sale that names no usable price, time or type
          History,   \* HISTORY_DAYS, in ticks
          Lag,       \* how long after it a sale shows up in last-sales
          MaxTime, MaxSales   \* bounds: the clock, and the sales of all titles

VARIABLES now,       \* the clock, in ticks (a tick is one second of sold_at)
          sold,      \* DMarket's history of each title, oldest first
          stored,    \* the rows of venue_sales
          builds     \* built_at of the DMarket builds

Times == 0..MaxTime
Sales == [at : Times, kind : Kinds]
Row == [title : Titles, at : Times, kind : Kinds, nr : 0..MaxSales]

Latest(times) == IF times = {} THEN -1 ELSE Max(times)

\* latest_build_time, latest_sales_sync: MAX(built_at); -1 stands for no build
LatestBuild == Latest(builds)

\* newest_sale_times: the newest stored sale of a title
NewestSale(t) == Latest({row.at : row \in {r \in stored : r.title = t}})

\* parse_sales leaves out a sale that names no usable price, time or type.
UsableSales(t) == {i \in DOMAIN sold[t] : sold[t][i].kind # Unusable}

\* sale_keys: identical sales of one second are numbered in their order.
SaleKey(t, i) == [title |-> t, at |-> sold[t][i].at, kind |-> sold[t][i].kind,
                  nr |-> Cardinality({j \in 1..(i - 1) : sold[t][j] = sold[t][i]})]

(***************************************************************************)
(* A title is known up to a moment when every sale that had shown up       *)
(* before it, and is no older than the history the sync asked for, is      *)
(* stored.                                                                 *)
(***************************************************************************)
KnownUpTo(t, moment) ==
    \A i \in UsableSales(t) :
        sold[t][i].at >= moment - History /\ sold[t][i].at + Lag < moment => SaleKey(t, i) \in stored

StoreInit == /\ now = 0 /\ sold = [t \in Titles |-> <<>>] /\ stored = {} /\ builds = {}

\* Every sale there was
Happened == UNION {{t} \X DOMAIN sold[t] : t \in Titles}

\* A sale shows up, at most Lag after it and in the order of the sales.
Appear(t, kind) ==
    /\ Cardinality(Happened) < MaxSales
    /\ \E at \in Max({0, now - Lag})..now :
          /\ sold[t] # <<>> => at >= Last(sold[t]).at
          /\ sold' = [sold EXCEPT ![t] = Append(@, [at |-> at, kind |-> kind])]
    /\ UNCHANGED <<now, stored, builds>>

\* A sync of one title: a stretch of its history that leaves no gap after the newest stored sale.
Stretch(t, from, last) == {SaleKey(t, i) : i \in {u \in UsableSales(t) : sold[t][u].at >= from /\ u <= last}}

StoreTitle(t) ==
    /\ \E from \in 0..Max({NewestSale(t), now - History, 0}), last \in 0..Len(sold[t]) :
          stored' = stored \cup Stretch(t, from, last)
    /\ UNCHANGED <<now, sold, builds>>

\* A build dated `moment`: at most half of the titles are not known up to it.
Build(moment) ==
    /\ moment \in (LatestBuild + 1)..now
    /\ 2 * Cardinality({t \in Titles : ~ KnownUpTo(t, moment)}) <= Cardinality(Titles)
    /\ builds' = builds \cup {moment}
    /\ UNCHANGED <<now, sold, stored>>

StoreTick == now < MaxTime /\ now' = now + 1 /\ UNCHANGED <<sold, stored, builds>>

StoreNext == \/ \E t \in Titles : StoreTitle(t) \/ \E kind \in Kinds : Appear(t, kind)
             \/ \E moment \in Times : Build(moment)
             \/ StoreTick

StoreSpec == StoreInit /\ [][StoreNext]_<<now, sold, stored, builds>>

=============================================================================
