------------------------------- MODULE Pricing -------------------------------
(***************************************************************************)
(* What a listing is worth: an item's sales make its baseline              *)
(* (shared_utils/baselines.py), a Z score and the rules compare a price    *)
(* with it (listener/zscore.py, rules_engine.py), and the fees of the two  *)
(* venues leave a margin (shared_utils/pnl.py).  Also what the backend     *)
(* makes of a sales history (shared_utils/pricing_utils.py).               *)
(*                                                                         *)
(* Money is in cents, fees in basis points; a float of the code is a       *)
(* fraction of integers, rounded where the code rounds it.                 *)
(***************************************************************************)
EXTENDS Integers, Sequences, FiniteSets, FiniteSetsExt, Functions

CONSTANT Spread(_)   \* 1000 * sqrt(2 ln n): how far under the median the lowest of n sales is, in thousandths of sigma

Missing == -1
BasisPoints == 10000

\* round(n / d), as Python rounds: a half goes to the even neighbour.
half_even(n, d) ==
    LET q == n \div d
        r == n % d
    IN  IF 2 * r > d \/ (2 * r = d /\ q % 2 = 1) THEN q + 1 ELSE q

MaxOf(a, b) == IF a >= b THEN a ELSE b

-----------------------------------------------------------------------------
(* Fees and margins.                                                       *)

\* What a VenueFees may be; its tiers are a set of [min, bps].
IsVenueFees(fees) ==
    /\ \E tier \in fees.tiers : tier.min = 0
    /\ \A tier \in fees.tiers : tier.min \in Nat /\ tier.bps \in 0..(BasisPoints - 1)
    /\ fees.buyer_fee_bps \in 0..(BasisPoints - 1)
    /\ fees.hold \in Nat /\ fees.min_margin \in Nat

Week == 7 * 86400
SKINPORT_FEES == [tiers |-> {[min |-> 0, bps |-> 800], [min |-> 100000, bps |-> 600]},
                  buyer_fee_bps |-> 0, hold |-> Week, min_margin |-> 0]
WAXPEER_FEES == [tiers |-> {[min |-> 0, bps |-> 600]}, buyer_fee_bps |-> 0, hold |-> Week, min_margin |-> 0]
DMARKET_FEES == [tiers |-> {[min |-> 0, bps |-> 1000]}, buyer_fee_bps |-> 0, hold |-> Week, min_margin |-> 0]

Venues == {"skinport", "waxpeer", "dmarket"}
fees_for(venue) == CASE venue = "skinport" -> SKINPORT_FEES
                     [] venue = "waxpeer" -> WAXPEER_FEES
                     [] venue = "dmarket" -> DMARKET_FEES
resale_venue_for(venue) == IF venue = "waxpeer" THEN "skinport" ELSE venue

\* The fee of the highest tier that the price reaches
seller_fee_bps(price, fees) ==
    (CHOOSE tier \in fees.tiers : /\ price >= tier.min
                                  /\ \A other \in fees.tiers : price >= other.min => other.min <= tier.min).bps

fee_rounded_up(price, bps) == -((-price * bps) \div BasisPoints)

\* An item's own fee replaces the tiers.
seller_fee(price, fees, item_bps) ==
    fee_rounded_up(price, IF item_bps = Missing THEN seller_fee_bps(price, fees) ELSE item_bps)
buyer_fee(price, fees) == fee_rounded_up(price, fees.buyer_fee_bps)

net_resale_margin(buy, resale, buy_fees, sell_fees, item_bps) ==
    (resale - seller_fee(resale, sell_fees, item_bps)) - (buy + buyer_fee(buy, buy_fees))

is_profitable_margin(margin, fees) == margin >= fees.min_margin

\* A fee that is no fee is not used.
estimate_net_profit(price, venue, baseline) ==
    net_resale_margin(price, baseline.latest_price, fees_for(venue), fees_for(resale_venue_for(venue)),
                      IF baseline.seller_fee_bps \in 0..(BasisPoints - 1) THEN baseline.seller_fee_bps ELSE Missing)

-----------------------------------------------------------------------------
(* DMarket's fee of each title (FeeSchedule in shared_utils/dmarket.py).   *)
(* It answers in pages [default, entries], an entry being                  *)
(* [title, fraction, cap]: fractions [num, den], den 0 when not given, and *)
(* a cap that is Missing or not positive when there is none.               *)

\* Only a share from 0 up to, not including, 1
fraction_to_bps(f) == IF 0 <= f.num /\ f.num < f.den THEN half_even(BasisPoints * f.num, f.den) ELSE Missing

LastIndex(S) == CHOOSE i \in S : \A j \in S : j <= i

\* The entries that can be used; of two for a title the last counts.
parse_fee_page(page) ==
    LET usable == {i \in DOMAIN page.entries : fraction_to_bps(page.entries[i].fraction) # Missing}
        entry(title) == page.entries[LastIndex({i \in usable : page.entries[i].title = title})]
    IN  [default |-> fraction_to_bps(page.default),
         reduced |-> [title \in {page.entries[i].title : i \in usable} |->
                         [fee_bps |-> fraction_to_bps(entry(title).fraction), cap |-> entry(title).cap]]]

\* Later pages replace what earlier ones said; without a default DMarket's worst documented fee applies.
fee_schedule(pages) ==
    LET parsed(i) == parse_fee_page(pages[i])
        naming(title) == {i \in DOMAIN pages : title \in DOMAIN parsed(i).reduced}
        telling == {i \in DOMAIN pages : parsed(i).default # Missing}
    IN  [default |-> IF telling = {} THEN seller_fee_bps(0, DMARKET_FEES) ELSE parsed(LastIndex(telling)).default,
         reduced |-> [title \in UNION {DOMAIN parsed(i).reduced : i \in DOMAIN pages} |->
                         parsed(LastIndex(naming(title))).reduced[title]]]

\* A price above the cap pays the default.
fee_bps(schedule, title, price) ==
    IF title \in DOMAIN schedule.reduced /\ ~(0 < schedule.reduced[title].cap /\ schedule.reduced[title].cap < price)
    THEN schedule.reduced[title].fee_bps ELSE schedule.default

\* The fee at the price that the item is resold for
with_dmarket_fees(b, title, schedule) == [b EXCEPT !.seller_fee_bps = fee_bps(schedule, title, b.latest_price)]

-----------------------------------------------------------------------------
(* Baselines.  A window is [min, median, volume], the first two Missing    *)
(* when it has no sale; a history has the four windows of an item's sales. *)

NoSales == [min |-> Missing, median |-> Missing, volume |-> 0]

\* from_prices: sold is a set of sales [at, price, nr]; the middle two are averaged.
median_of(sold) ==
    LET below(s) == Cardinality({t \in sold : t.price < s.price \/ (t.price = s.price /\ t.nr < s.nr)})
        place(i) == (CHOOSE s \in sold : below(s) = i).price
        n == Cardinality(sold)
    IN  half_even(place((n - 1) \div 2) + place(n \div 2), 2)

from_prices(sold) ==
    IF sold = {} THEN NoSales
    ELSE [min |-> (CHOOSE s \in sold : \A t \in sold : s.price <= t.price).price,
          median |-> median_of(sold), volume |-> Cardinality(sold)]

in_window(sold, now, length) == {s \in sold : s.at <= now /\ s.at > now - length}

from_sales(sold, now, day) ==
    [h24 |-> from_prices(in_window(sold, now, day)), h7 |-> from_prices(in_window(sold, now, 7 * day)),
     h30 |-> from_prices(in_window(sold, now, 30 * day)), h90 |-> from_prices(in_window(sold, now, 90 * day))]

has_median(window, min_volume) == window.median > 0 /\ window.volume >= min_volume

MIN_SALES_30D == 5
latest_price(h) ==
    IF has_median(h.h24, 5) THEN h.h24.median
    ELSE IF has_median(h.h7, 3) THEN h.h7.median
    ELSE h.h30.median

\* Estimated from how far the lowest sale is below the median
sales_spread_volatility(median, min, volume) == half_even(1000 * MaxOf(median - min, 0), Spread(volume))

\* round(sqrt(n / d))
rounded_root(n, d) == CHOOSE s \in 0..(n + 1) : (2 * s - 1) * (2 * s - 1) * d <= 4 * n /\ 4 * n < (2 * s + 1) * (2 * s + 1) * d

Total(f) == FoldFunction(+, 0, f)

\* statistics.stdev and the first decile (inclusive) of the daily medians, in the order of their size
deviation(daily) ==
    LET n == Len(daily)
        sum == Total(daily)
    IN  rounded_root(n * Total([i \in DOMAIN daily |-> daily[i] * daily[i]]) - sum * sum, n * (n - 1))

by_size(daily) ==
    [k \in DOMAIN daily |->
        daily[CHOOSE i \in DOMAIN daily :
                 Cardinality({j \in DOMAIN daily : daily[j] < daily[i] \/ (daily[j] = daily[i] /\ j < i)}) = k - 1]]

first_decile(daily) ==
    LET m == Len(daily) - 1
        j == m \div 10
        delta == m % 10
    IN  half_even(by_size(daily)[j + 1] * (10 - delta) + by_size(daily)[j + 2] * delta, 10)

MIN_DAILY_POINTS == 14

\* build_baselines: the last build of each earlier day, and today's own median. Earlier builds are records [day, at, median].
daily_points(earlier, today, h) ==
    LET known == {b \in earlier : b.median # Missing}
        last_of(d) == (CHOOSE b \in known : b.day = d /\ \A c \in known : c.day = d => c.at <= b.at).median
        days == {b.day : b \in known} \cup (IF has_median(h.h24, 1) THEN {today} ELSE {})
    IN  [d \in days |-> IF d = today /\ has_median(h.h24, 1) THEN h.h24.median ELSE last_of(d)]

Volatility(h, daily) ==
    IF Len(daily) >= MIN_DAILY_POINTS THEN deviation(daily)
    ELSE sales_spread_volatility(h.h30.median, h.h30.min, h.h30.volume)

minimum_volatility(h) == MaxOf(half_even(h.h30.median, 100), 1)

SupportFloor(h, daily) ==
    IF Len(daily) >= MIN_DAILY_POINTS THEN first_decile(daily)
    ELSE half_even(10000 * h.h30.median - 12816 * MaxOf(Volatility(h, daily), minimum_volatility(h)), 10000)

has_baseline(h) == has_median(h.h30, MIN_SALES_30D) /\ h.h30.min # Missing

\* The parts of a baseline that the edge decides by (edge_baseline_payload), with the coefficient of variation in
\* ten thousandths; item_bps is DMarket's fee of the item.
build_item_baseline(h, daily, item_bps) ==
    [latest_price |-> latest_price(h),
     rolling_30d_avg |-> h.h30.median,
     volatility |-> MaxOf(Volatility(h, daily), minimum_volatility(h)),
     support_floor |-> MaxOf(SupportFloor(h, daily), 0),
     cv |-> half_even(10000 * MaxOf(Volatility(h, daily), minimum_volatility(h)), h.h30.median),
     seller_fee_bps |-> item_bps]
-----------------------------------------------------------------------------
(* Scores and rules.                                                       *)

MIN_HISTORY_POINTS == 4
MACRO_PRIOR_WEIGHT == 5

z_source(prices, b) == IF Len(prices) < MIN_HISTORY_POINTS THEN "macro" ELSE IF b.cv > 0 THEN "hybrid" ELSE "local"

\* The Z score of a price against the baseline alone is below -t: volatility counts for at least 1% of the average.
macro_z_below(price, b, t) == 100 * (price - b.rolling_30d_avg) < -t * MaxOf(100 * b.volatility, b.rolling_30d_avg)

\* calculate_z_score of the last price is below -t. With n earlier prices of mean sum / n, dev is n * n * (n - 1)
\* times their variance; the deviation that counts is at least 4% of the mean, or blended with the baseline's.
z_below(prices, b, t) ==
    LET price == prices[Len(prices)]
        history == [i \in 1..(Len(prices) - 1) |-> prices[i]]
        n == Len(prices) - 1
        sum == Total(history)
        gap == n * price - sum
        dev == n * (n * Total([i \in DOMAIN history |-> history[i] * history[i]]) - sum * sum)
        prior == sum * sum * b.cv * b.cv * (n - 1)
    IN  CASE z_source(prices, b) = "macro" -> macro_z_below(price, b, t)
          [] z_source(prices, b) = "local" ->
                /\ gap < 0
                /\ gap * gap * (n - 1) * 10000 > t * t * MaxOf(10000 * dev, 16 * sum * sum * (n - 1))
          [] z_source(prices, b) = "hybrid" ->
                /\ gap < 0
                /\ gap * gap * (n - 1) * 100000000 * (n + MACRO_PRIOR_WEIGHT)
                       > t * t * (n * 100000000 * dev + MACRO_PRIOR_WEIGHT * prior)

\* Stickers that the resale venue has no price of count nothing.
sticker_value(stickers, prices) ==
    Total([i \in {j \in DOMAIN stickers : stickers[j] \in DOMAIN prices} |-> prices[stickers[i]]])

STICKER_VALUE_MIN == 10000
STICKER_PREMIUM_MAX_PERCENT == 3

\* The rule of the DRE that approves a price, or "none"
dre_approval_reason(price, stickers, b) ==
    IF price <= b.support_floor THEN "support_floor"
    ELSE IF b.volatility > 0 /\ b.rolling_30d_avg - price >= 2 * b.volatility THEN "macro_sigma"
    ELSE IF stickers <= STICKER_VALUE_MIN THEN "none"
    ELSE IF price <= b.latest_price THEN "stickers_below_base"
    ELSE IF 100 * (price - b.latest_price) <= STICKER_PREMIUM_MAX_PERCENT * stickers THEN "sticker_premium"
    ELSE "none"

-----------------------------------------------------------------------------
(* What the backend reads from a sales history.                            *)

Known(window) == window.median \notin {Missing, 0}
Active(window) == Known(window) /\ window.volume > 0

resolve_recent_median(h) ==
    IF Active(h.h24) THEN h.h24.median
    ELSE IF Active(h.h7) THEN h.h7.median
    ELSE IF Active(h.h30) THEN h.h30.median
    ELSE IF Known(h.h90) THEN h.h90.median ELSE Missing

\* How far recent is below older, as a fraction
Decline(recent, older) == IF recent < older THEN [num |-> older - recent, den |-> older] ELSE [num |-> 0, den |-> 1]

\* The month's decline and the last day's add up.
detect_downtrend(h) ==
    LET recent == IF Known(h.h7) THEN h.h7 ELSE h.h24
        older == IF Known(h.h30) THEN h.h30 ELSE h.h90
        month == IF Known(recent) /\ Known(older) THEN Decline(recent.median, older.median) ELSE [num |-> 0, den |-> 1]
        panic == IF Known(h.h24) /\ Known(h.h7) THEN Decline(h.h24.median, h.h7.median) ELSE [num |-> 0, den |-> 1]
    IN  [num |-> month.num * panic.den + panic.num * month.den, den |-> month.den * panic.den]

\* The base discount of 15%, and up to 15% more in a downtrend
compute_snipe_threshold(average, decline) ==
    IF 100 * decline.num >= 15 * decline.den THEN half_even(70 * average, 100)
    ELSE half_even(average * (85 * decline.den - 100 * decline.num), 100 * decline.den)
=============================================================================
