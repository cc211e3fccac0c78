----------------------------- MODULE Scorecard -----------------------------
(***************************************************************************)
(* The baseline scorecard (apps/analytics/baseline_scorecard.py): it reads *)
(* a replay's decision log, takes its approvals as trades, joins them to   *)
(* their outcome labels and scores them, overall, per time slice and under *)
(* other thresholds.                                                       *)
(*                                                                         *)
(* The scorecard only reads, so it is operators on the log that Replay     *)
(* writes and on the labels as of one moment; a log can be read at any     *)
(* point, a replay that was stopped leaves one too.  Rates, their          *)
(* intervals and the report's layout are left out.                         *)
(***************************************************************************)
EXTENDS Replay

CONSTANTS
    LabelRows,     \* what listing_outcomes can hold of a listing: [listed, available, profitable, margin]
    NoLabel,
    AsOf,          \* --as-of
    Horizon,       \* the labels' horizon and settle time
    TradableFrom,  \* TRADABLE_REST_FROM
    Day,           \* the length of a UTC day
    SliceDays,     \* --slice-days
    SweepZ, SweepSavings,   \* SWEEP_Z_THRESHOLDS, SWEEP_MIN_SAVINGS_CENTS
    MinSample      \* MIN_SAMPLE

ASSUME ScorecardAssumption ==
    /\ LabelRows \subseteq [listed : Int, available : Int, profitable : {"yes", "no", "neutral"}, margin : Int]
    /\ NoLabel \notin LabelRows
    /\ AsOf \in Int /\ Horizon \in Nat /\ TradableFrom \in Int
    /\ Day \in Nat \ {0} /\ SliceDays \in Nat \ {0} /\ MinSample \in Nat

VARIABLE labels   \* per listing its label row; for the lowest ask, what the same rule says of it

scorecardVars == <<vars, labels>>

-----------------------------------------------------------------------------
(* The decision log.                                                       *)

\* The last switch before a line.
Switch(i) == CHOOSE j \in 1..i : log[j].type = "baseline" /\ \A k \in (j + 1)..i : log[k].type # "baseline"

Lines(type) == {i \in DOMAIN log : log[i].type = type}

\* The line of the n-th decision.
DecisionLine(n) == CHOOSE i \in Lines("decision") : Cardinality({j \in Lines("decision") : j <= i}) = n

\* The decisions, each with the build in effect when it was made.
decisions ==
    [n \in 1..Cardinality(Lines("decision")) |->
        LET i == DecisionLine(n)
        IN  [row |-> log[i], build |-> log[Switch(i)].build, look_ahead |-> log[Switch(i)].look_ahead]]

\* Up to the next switch, or to the end.
look_ahead_ranges ==
    {<<log[i].from, LET later == {j \in Lines("baseline") : j > i} IN IF later = {} THEN LogEnd ELSE log[Min(later)].from>> :
        i \in {k \in Lines("baseline") : log[k].look_ahead}}

in_look_ahead(t) == \E r \in look_ahead_ranges : r[1] <= t /\ t < r[2]

scorable_start == Max({LogStart, TradableFrom})

is_scorable(d) == ~d.look_ahead /\ d.row.time >= scorable_start

Approval(d) == d.row.d.approve /\ is_scorable(d)

-----------------------------------------------------------------------------
(* Trades and their labels.                                                *)

snapshot_purchase_key(row) == [day |-> row.time \div Day, price |-> row.price]
listing_purchase_key(row) == [listing |-> row.of]

purchase_keys(row) ==
    <<IF row.of = Lowest THEN snapshot_purchase_key(row) ELSE listing_purchase_key(row), snapshot_purchase_key(row)>>

\* Mutant of Buy: a listing's purchase leaves only its own key.
BuyOwnKey(acc, d) ==
    LET keys == purchase_keys(d.row)
    IN  IF ~Approval(d) \/ keys[1] \in acc.bought THEN acc
        ELSE [bought |-> acc.bought \cup {keys[1]}, trades |-> Append(acc.trades, d)]

\* One step of collect_trades: each purchase once, and remembered under both keys.
Buy(acc, d) ==
    LET keys == purchase_keys(d.row)
    IN  IF ~Approval(d) \/ keys[1] \in acc.bought THEN acc
        ELSE [bought |-> acc.bought \cup {keys[1], keys[2]}, trades |-> Append(acc.trades, d)]

collect_trades == FoldLeft(Buy, [bought |-> {}, trades |-> <<>>], decisions).trades

matures_by(t) == t + Horizon <= AsOf

set_outcome(label) == IF label.profitable = "neutral" THEN "neutral" ELSE "labeled"

\* The outcome of a decision's trade: from the listing's row, or for a snapshot from the rule itself.
Outcome(d) ==
    LET label == labels[d.row.of]
    IN  IF d.row.of = Lowest
        THEN IF matures_by(d.row.time) /\ label # NoLabel THEN set_outcome(label) ELSE "pending"
        ELSE IF label = NoLabel THEN IF matures_by(d.row.time) THEN "unlabeled" ELSE "pending"
        ELSE IF label.available > AsOf THEN IF matures_by(d.row.time) THEN "unlabeled" ELSE "pending"
        ELSE set_outcome(label)

is_profitable(d) == Outcome(d) = "labeled" /\ labels[d.row.of].profitable = "yes"

-----------------------------------------------------------------------------
(* Scores of a group of trades, in the order they were decided.            *)

Margins(ts) == [n \in DOMAIN ts |-> labels[ts[n].row.of].margin]
Total(ms) == FoldLeft(+, 0, ms)

\* The largest fall of the running total from its highest point so far, which starts at 0.
max_drawdown(ms) ==
    FoldLeft(LAMBDA acc, m :
                LET total == acc.total + m
                    peak == Max({acc.peak, total})
                IN  [total |-> total, peak |-> peak, fall |-> Max({acc.fall, peak - total})],
             [total |-> 0, peak |-> 0, fall |-> 0], ms).fall

Count(ts, o) == Len(SelectSeq(ts, LAMBDA d : Outcome(d) = o))

\* Counts always; the metrics only from MinSample labeled trades on.
score_trades(ts) ==
    LET labeled == SelectSeq(ts, LAMBDA d : Outcome(d) = "labeled")
    IN  [trades |-> Len(ts), labeled |-> Len(labeled), neutral |-> Count(ts, "neutral"),
         pending |-> Count(ts, "pending"), unlabeled |-> Count(ts, "unlabeled"),
         ok |-> Len(labeled) >= MinSample,
         profitable |-> Len(SelectSeq(labeled, is_profitable)),
         total |-> Total(Margins(labeled)), drawdown |-> max_drawdown(Margins(labeled))]

\* The listings that turned out profitable: what recall is a share of.
profitable_listings ==
    {l \in Listings :
        /\ labels[l] # NoLabel
        /\ labels[l].profitable = "yes" /\ labels[l].available <= AsOf
        /\ labels[l].listed >= scorable_start /\ labels[l].listed < LogEnd
        /\ ~in_look_ahead(labels[l].listed)}

\* How many of them the rules approved.
score_recall(ts, universe) == Len(SelectSeq(ts, LAMBDA d : d.row.of \in universe /\ is_profitable(d)))

\* Mutant of time_slices: each slice reaches into the next.
time_slices_overlapping ==
    {<<scorable_start + k * SliceDays, Min({scorable_start + (k + 1) * SliceDays + 1, LogEnd})>> :
        k \in {n \in 0..LogEnd : scorable_start + n * SliceDays < LogEnd}}

time_slices ==
    {<<scorable_start + k * SliceDays, Min({scorable_start + (k + 1) * SliceDays, LogEnd})>> :
        k \in {n \in 0..LogEnd : scorable_start + n * SliceDays < LogEnd}}

InSlice(t, slice) == slice[1] <= t /\ t < slice[2]

In(slice, ts) == SelectSeq(ts, LAMBDA d : InSlice(d.row.time, slice))
ProfitableIn(slice) == {l \in profitable_listings : InSlice(labels[l].listed, slice)}

-----------------------------------------------------------------------------
(* The threshold sweep.                                                    *)

would_trigger(s, z, savings) ==
    /\ s.z < (IF s.stickers > 0 THEN StickerZ ELSE z)
    /\ s.stickers > 0 \/ s.savings >= savings

\* Mutant of dre_would_approve: the fee floor is not asked.
dre_without_floor(d) == d.approve \/ (d.reason = "below_threshold" /\ d.dre_reason # NoRule)

dre_would_approve(d) ==
    d.approve \/ (d.reason = "below_threshold" /\ d.dre_reason # NoRule /\ ~d.below_fee_floor)

\* The listings that one cell of the grid approves.
Cell(z, savings) ==
    {d.row.of : d \in {x \in ToSet(decisions) :
        /\ x.row.of # Lowest /\ x.row.d.score # NoScore /\ is_scorable(x)
        /\ would_trigger(x.row.d.score, z, savings) /\ dre_would_approve(x.row.d)}}

-----------------------------------------------------------------------------
ScorecardInit == Init /\ labels \in [Listings \cup {Lowest} -> LabelRows \cup {NoLabel}]
ScorecardNext == Next /\ UNCHANGED labels
ScorecardSpec == ScorecardInit /\ [][ScorecardNext]_scorecardVars

-----------------------------------------------------------------------------
(* Every logged decision is read with the newest of all stored builds that *)
(* was built by then, if there is one, and the look-ahead mark agrees with *)
(* the ranges that recall leaves out.  _BUILDS_QUERY, active_index, the    *)
(* order of the switches in the log and read_decision_log have to agree.   *)
BuildInEffect ==
    \A d \in ToSet(decisions) :
        LET built == {b \in builds : b <= d.row.time}
        IN  /\ built # {} => d.build = Max(built)
            /\ ~d.look_ahead => d.build <= d.row.time
            /\ d.look_ahead <=> in_look_ahead(d.row.time)

(* Each purchase is one trade, as live trading makes it: a listing is      *)
(* bought once, a lowest ask once per price and day and not on a day       *)
(* something of that price was bought before; and no other approval is     *)
(* missing (collect_trades, purchase_keys).                                *)
TradesArePurchases ==
    LET approvals == SelectSeq(decisions, Approval)
        Same(a, b) == a.row.price = b.row.price /\ a.row.time \div Day = b.row.time \div Day
        Repeats(n) == \E m \in 1..(n - 1) :
                        \/ approvals[n].row.of # Lowest /\ approvals[m].row.of = approvals[n].row.of
                        \/ /\ approvals[n].row.of = Lowest /\ Same(approvals[m], approvals[n])
                           /\ \/ approvals[m].row.of = Lowest
                              \/ \A k \in 1..(m - 1) : approvals[k].row.of # approvals[m].row.of
    IN  collect_trades = LET kept == SelectSeq([n \in DOMAIN approvals |-> n], LAMBDA n : ~Repeats(n))
                         IN  [i \in DOMAIN kept |-> approvals[kept[i]]]

(* Every cell of the sweep approves exactly the listings that a replay     *)
(* with those thresholds would have approved, the live cell what this one  *)
(* did: the log holds enough of each decision (records_sweep_inputs).      *)
SweepExact ==
    \A z \in SweepZ, savings \in SweepSavings :
        Cell(z, savings) =
            LET ds == decisions
            IN  {ds[n].row.of : n \in {k \in DOMAIN ds :
                    /\ ds[k].row.of # Lowest /\ is_scorable(ds[k])
                    /\ decide_scored(given[k].score, given[k].rule, given[k].low, z, savings).approve}}

(* The slices of the range add up to the whole: every trade and every      *)
(* profitable listing is in exactly one, and no slice finds more than it   *)
(* has.                                                                    *)
SlicesAddUp ==
    LET trades == collect_trades
        whole == score_trades(trades)
        Sum(F(_)) == FoldSet(LAMBDA slice, acc : acc + F(slice), 0, time_slices)
    IN  /\ \A f \in {"trades", "labeled", "neutral", "pending", "unlabeled", "profitable", "total"} :
              LET F(slice) == score_trades(In(slice, trades))[f] IN Sum(F) = whole[f]
        /\ LET P(slice) == Cardinality(ProfitableIn(slice)) IN Sum(P) = Cardinality(profitable_listings)
        /\ \A slice \in time_slices :
              score_recall(In(slice, trades), ProfitableIn(slice)) <= Cardinality(ProfitableIn(slice))
        /\ score_recall(trades, profitable_listings) <= Cardinality(profitable_listings)

(* The reported drawdown is the worst fall between any two points of the   *)
(* trades' running total.                                                  *)
DrawdownWorst ==
    LET ms == Margins(SelectSeq(collect_trades, LAMBDA d : Outcome(d) = "labeled"))
        Upto(n) == Total(SubSeq(ms, 1, n))
    IN  max_drawdown(ms) = Max(UNION {{Upto(i) - Upto(j) : i \in 0..j} : j \in 0..Len(ms)})
=============================================================================
