----------------------------- MODULE VenueSales -----------------------------
(***************************************************************************)
(* The sales of a venue, from both sides: the sync that stores what        *)
(* DMarket sold (SalesSync), and the labeler (OutcomeLabels), which relies *)
(* on what SalesStore promises of the sync.  The labeler is of a title and *)
(* a venue of its own, so that its instances may be other than the sync's. *)
(***************************************************************************)
EXTENDS SalesSync

CONSTANTS
    Traded, TradedKinds, NoSale, LabelHistory, LabelLag, LabelTime, LabelSales,   \* the venue of the labeler
    Configs, Listings, Item, Price, Skew, Window,                                 \* of OutcomeLabels
    MaxSightings, LastSighting, LastSale, BuildTimes, ReadAlone, None

VARIABLES
    clock, shown, recorded, built,                \* now, sold, stored and builds of the labeler's venue
    config, listed, outcomes, run, read           \* of OutcomeLabels

Labels == INSTANCE OutcomeLabels WITH
    now <- clock, sold <- shown, stored <- recorded, builds <- built,
    Titles <- {Traded}, Kinds <- TradedKinds, Unusable <- NoSale, History <- LabelHistory, Lag <- LabelLag,
    MaxTime <- LabelTime, MaxSales <- LabelSales

ASSUME SalesAssumption == Labels!LabelsAssumption

labels == <<clock, shown, recorded, built, config, listed, outcomes, run, read>>

(* "A label never contains information from after label_available_at": a stored label is the one that the whole history
   gives its sighting. *)
ExactLabel == Labels!ExactLabel

(* "The same as_of reads the same rows on every run" (outcome_data.py, above _FINAL_LABELS_QUERY). *)
SameRows == Labels!SameRows

(* "On conflict the earliest sighting of a listing wins" (save_outcomes): a label is never lost, nor moved to a later
   sighting. *)
EarliestKept == Labels!EarliestKept
=============================================================================
