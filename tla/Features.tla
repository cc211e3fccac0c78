------------------------------- MODULE Features -------------------------------
(***************************************************************************)
(* The student model's input of each listing that a replay scores          *)
(* (shared_utils/features.py, listener/student_features.py): what the      *)
(* rules knew of it, and how many listings of its item came in the hour    *)
(* before.                                                                 *)
(*                                                                         *)
(* A feature is a fraction [num, den]; NaN, what a missing one becomes,    *)
(* has no denominator.  An input that is None is Missing.  Floats are in   *)
(* hundredths, Z scores and coefficients in whatever unit Inputs uses.     *)
(***************************************************************************)
EXTENDS Integers, Sequences, FiniteSets, FiniteSetsExt

CONSTANTS
    Keys,      \* (venue, item)
    Inputs,    \* what the listener knows of a listing besides its rate
    Hour,      \* LISTING_RATE_WINDOW_SECONDS
    MaxTime,   \* bound: the times of ticks
    MaxRows    \* bound: scored listings

RateAssumption == Hour \in Nat /\ MaxTime \in Nat /\ MaxRows \in Nat

VARIABLES
    now,       \* the time of the last tick: a replay decides in the order of time
    times,     \* ListingRateTracker._times
    decided    \* history: the listings scored so far, each with its row

vars == <<now, times, decided>>

Missing == -1
NaN == [num |-> 0, den |-> 0]
Value(v) == IF v = Missing THEN NaN ELSE [num |-> v, den |-> 1]

WEAR_TIER_LOWER_BOUNDS == {0, 7, 15, 38, 45}
float_tier_boundary_distance(f) ==
    IF f = Missing THEN Missing ELSE f - Max({bound \in WEAR_TIER_LOWER_BOUNDS : bound <= f})

Ratio(n, d) == IF d <= 0 THEN NaN ELSE [num |-> n, den |-> d]

Z_SOURCE_CODES == [local |-> 0, hybrid |-> 1, macro |-> 2, none |-> Missing]

\* The baseline that the listing was scored with, or when it was not scored the one that is stored now; NoBaseline has
\* every part Missing.
BaselineOf(x) == IF x.source = "none" THEN x.stored ELSE x.scored_with

FEATURE_NAMES ==
    <<"price_to_window_mean", "z_score", "z_source", "price_to_30d_avg", "price_to_support_floor", "macro_cv",
      "avg_volume_30d", "float_value", "float_tier_boundary_distance", "sticker_value_ratio",
      "listings_per_hour_item", "price_to_latest">>

compute_features(x, listings_last_hour) ==
    LET b == BaselineOf(x)
    IN  [price_to_window_mean |-> Ratio(x.price, x.mean),
         z_score |-> IF x.source = "none" THEN NaN ELSE [num |-> x.z, den |-> 1],
         z_source |-> Value(Z_SOURCE_CODES[x.source]),
         price_to_30d_avg |-> Ratio(x.price, b.average),
         price_to_support_floor |-> Ratio(x.price, b.floor),
         macro_cv |-> Value(b.cv),
         avg_volume_30d |-> Value(b.volume),
         float_value |-> Value(x.float),
         float_tier_boundary_distance |-> Value(float_tier_boundary_distance(x.float)),
         sticker_value_ratio |-> Ratio(x.stickers, b.latest),
         listings_per_hour_item |-> Value(listings_last_hour),
         price_to_latest |-> Ratio(x.price, b.latest)]

feature_vector(features) == [i \in DOMAIN FEATURE_NAMES |-> features[FEATURE_NAMES[i]]]

-----------------------------------------------------------------------------
Init == now = 0 /\ times = [k \in Keys |-> <<>>] /\ decided = <<>>

\* Those at the front that are at least an hour old go; a time never leaves from behind another.
Recent(k, t) ==
    LET young == {i \in DOMAIN times[k] : t - times[k][i] < Hour}
    IN  IF young = {} THEN <<>> ELSE SubSeq(times[k], Min(young), Len(times[k]))

\* A listing is scored, and counts for those that come later.
Decide(k, t, x) ==
    /\ Len(decided) < MaxRows
    /\ now' = t
    /\ times' = [times EXCEPT ![k] = Append(Recent(k, t), t)]
    /\ decided' = Append(decided, [key |-> k, at |-> t,
                                   row |-> feature_vector(compute_features(x, Len(Recent(k, t))))])

\* A tick that names no listing, or repeats one, has no row and counts for none.
Other(t) == t > now /\ now' = t /\ UNCHANGED <<times, decided>>

Next == \E t \in now..MaxTime : Other(t) \/ \E k \in Keys, x \in Inputs : Decide(k, t, x)

-----------------------------------------------------------------------------
Rate == 11   \* the column of listings_per_hour_item

(* The rate in a listing's row is that of the listings scored in the hour before it, none of them later and none of
   another item, though the tracker only ever looks at the oldest time it keeps. *)
RateExact ==
    \A n \in DOMAIN decided :
        decided[n].row[Rate] =
            Value(Cardinality({m \in 1..(n - 1) : /\ decided[m].key = decided[n].key
                                                  /\ decided[n].at - decided[m].at < Hour}))
=============================================================================
