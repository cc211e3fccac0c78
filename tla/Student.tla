------------------------------ MODULE Student ------------------------------
(***************************************************************************)
(* A training run of the student model (apps/analytics/train_student.py):  *)
(* the dataset joins a decision log to the final labels, walk-forward      *)
(* folds train and score a model each, the scores of all folds are         *)
(* compared with the rules, and the final model is logged to MLflow.       *)
(*                                                                         *)
(* LightGBM and the Platt scaling are outside: a listing's calibrated      *)
(* probability is an input, and a model is known by the rows it was        *)
(* fitted on, those that calibrated it, and its threshold.  A listing is   *)
(* a number (its ID in sorted order); reports and charts are left out.     *)
(***************************************************************************)
EXTENDS Integers, Sequences, FiniteSets, FiniteSetsExt, SequencesExt, Functions, TLC

CONSTANTS
    Listings, MaxTime,
    Probabilities, NetMargins,   \* what a model says of a listing, and what its label can say it earns
    Horizon, Revise,          \* of the label version: label_available_at, and how long after it a label may change
    Tolerance,                \* FIRST_SIGHTING_TOLERANCE
    Hour, FoldLength,         \* FoldLength: fold_hours, in the unit of time
    Blocks,                   \* CALIBRATION_BLOCKS
    MinTrain, MinMinority, MinSample,   \* MIN_TRAIN_ROWS, MIN_MINORITY_CLASS, MIN_SAMPLE
    Even,                     \* the probability 0.5
    None                      \* no model

VARIABLES
    sighted,      \* when the feed showed each listing; its label is about the first time
    margin,       \* the label's net margin, or 0 of a neutral one
    probability, approved,   \* the model's opinion of a listing, and the rules'
    logged, scorable,        \* the log starts, and its decisions count
    labels_as_of, exploratory,      \* of the run
    rows,         \* the dataset
    cutoff, folds, model, candidate, registered, phase

inputs == <<sighted, margin, probability, approved, logged, scorable, labels_as_of, exploratory>>
vars == <<inputs, rows, cutoff, folds, model, candidate, registered, phase>>

-----------------------------------------------------------------------------
(* The dataset.                                                            *)

listed_at(l) == Min(sighted[l])
label_available_at(l) == listed_at(l) + Horizon

\* fetch_final_labels: the labels that no labeler run changes any more, or all of them.
labels == {l \in Listings : label_available_at(l) <= IF exploratory THEN labels_as_of ELSE labels_as_of - Revise}

\* The first decision the log holds of a listing.
decided_at(l) == Min({t \in sighted[l] : t >= logged})

\* Only the decision on the sighting that the label is about; neutral labels are left out.
build_dataset ==
    {l \in labels :
        /\ \E t \in sighted[l] : t >= logged
        /\ decided_at(l) >= scorable
        /\ margin[l] # 0
        /\ decided_at(l) - listed_at(l) <= Tolerance}

is_profitable(l) == margin[l] > 0

size_rule(ls) ==
    LET positives == Cardinality({l \in ls : is_profitable(l)})
    IN  Cardinality(ls) >= MinTrain /\ positives >= MinMinority /\ Cardinality(ls) - positives >= MinMinority

-----------------------------------------------------------------------------
(* A model.                                                                *)

sorted(set, before(_, _)) ==
    [i \in 1..Cardinality(set) |-> CHOOSE x \in set : Cardinality({y \in set : before(y, x)}) = i - 1]

ordered(ls) == sorted(ls, LAMBDA k, l : decided_at(k) < decided_at(l) \/ (decided_at(k) = decided_at(l) /\ k < l))

\* Each block after the first is scored by a model fitted on the blocks before it.
walk_forward_raw_scores(ls) ==
    LET seq == ordered(ls)
        edge(i) == (Len(seq) * i) \div Blocks
        earlier(b) == {seq[i] : i \in 1..edge(b)}
        scored(b) == IF {is_profitable(l) : l \in earlier(b)} = {TRUE, FALSE}
                     THEN [i \in 1..(edge(b + 1) - edge(b)) |-> [of |-> seq[edge(b) + i], fit |-> earlier(b)]]
                     ELSE <<>>
    IN  FlattenSeq([b \in 1..(Blocks - 1) |-> scored(b)])

\* Listings by falling probability; equal ones stay in the order they have.
ranked(seq) ==
    LET Places == sorted(DOMAIN seq, LAMBDA i, j :
                    \/ probability[seq[i]] > probability[seq[j]]
                    \/ probability[seq[i]] = probability[seq[j]] /\ i < j)
    IN  [i \in DOMAIN seq |-> seq[Places[i]]]

net_pnl(ls) == FoldSet(LAMBDA l, acc : acc + margin[l], 0, ls)

\* Mutant of choose_threshold: the smallest sample may also be smaller.
choose_any_threshold(seq) ==
    LET order == ranked(seq)
        total(n) == net_pnl({order[i] : i \in 1..n})
        best == {n \in 1..Len(seq) : \A m \in 1..Len(seq) : total(n) >= total(m)}
    IN  IF Len(seq) < MinSample THEN Even ELSE probability[order[Min(best)]]

\* Approving which most probable listings, MinSample or more, would have earned the most.
choose_threshold(seq) ==
    LET order == ranked(seq)
        total(n) == net_pnl({order[i] : i \in 1..n})
        best == {n \in MinSample..Len(seq) : \A m \in MinSample..Len(seq) : total(n) >= total(m)}
    IN  IF Len(seq) < MinSample THEN Even ELSE probability[order[Min(best)]]

train_model(ls) ==
    LET scores == walk_forward_raw_scores(ls)
    IN  [fit |-> ls, calibration |-> scores,
         threshold |-> choose_threshold([i \in DOMAIN scores |-> scores[i].of])]

-----------------------------------------------------------------------------
(* The folds.                                                              *)

Decisions(ls) == {decided_at(l) : l \in ls}

TrainRows(from) == {l \in rows : decided_at(l) < from /\ (exploratory \/ label_available_at(l) <= from)}

ValidationRows(from) == {l \in rows : from <= decided_at(l) /\ decided_at(l) < from + FoldLength}

\* An assertion of the code: nothing from after the cutoff is trained on.
check_no_look_ahead(fold) ==
    /\ \A l \in fold.train :
         decided_at(l) < fold.cutoff /\ (exploratory \/ label_available_at(l) <= fold.cutoff)
    /\ \A l \in fold.validation : fold.cutoff <= decided_at(l) /\ decided_at(l) < fold.cutoff + FoldLength

first_cutoff(ls) == (Min(Decisions(ls)) \div Hour) * Hour + FoldLength

-----------------------------------------------------------------------------
(* The comparison with the rules, over all evaluated folds.                *)

evaluated == {i \in DOMAIN folds : folds[i].model # None}

pooled == FlattenSeq([i \in DOMAIN folds |-> IF i \in evaluated THEN ordered(folds[i].validation) ELSE <<>>])

rules == {l \in ToSet(pooled) : l \in approved}
model_at_threshold ==
    UNION {{l \in folds[i].validation : probability[l] >= folds[i].model.threshold} : i \in evaluated}
model_at_rules_volume == {ranked(pooled)[i] : i \in 1..Cardinality(rules)}

Profitable(ls) == Cardinality({l \in ls : is_profitable(l)})

\* More net P&L at its threshold, or more precise at the rules' volume, with a large enough sample each.
candidate_verdict ==
    /\ ~exploratory
    /\ Cardinality(rules) >= MinSample
    /\ \/ Cardinality(model_at_threshold) >= MinSample /\ net_pnl(model_at_threshold) > net_pnl(rules)
       \/ Profitable(model_at_rules_volume) > Profitable(rules)

-----------------------------------------------------------------------------
(* A run.                                                                  *)

Init ==
    /\ sighted \in [Listings -> {s \in SUBSET (0..MaxTime) : Cardinality(s) \in 1..2}]
    /\ margin \in [Listings -> NetMargins \cup {0}]
    /\ probability \in [Listings -> Probabilities]
    /\ approved \in SUBSET Listings
    /\ logged \in 0..MaxTime /\ scorable \in logged..MaxTime
    /\ labels_as_of \in MaxTime..(MaxTime + Horizon + Revise)
    /\ exploratory \in BOOLEAN
    /\ rows = {} /\ cutoff = 0 /\ folds = <<>> /\ model = None
    /\ candidate = FALSE /\ registered = FALSE /\ phase = "dataset"

Build ==
    /\ phase = "dataset"
    /\ rows' = build_dataset
    /\ IF rows' = {} THEN phase' = "final" /\ UNCHANGED cutoff
                     ELSE phase' = "folds" /\ cutoff' = first_cutoff(rows')
    /\ UNCHANGED <<inputs, folds, model, candidate, registered>>

more_cutoffs == cutoff <= Max(Decisions(rows))

Fold == [cutoff |-> cutoff, train |-> TrainRows(cutoff), validation |-> ValidationRows(cutoff)]

\* Mutant of evaluate: the model is trained on all the rows.
evaluate_trained(fold) == fold @@ [model |-> IF size_rule(fold.train) THEN train_model(rows) ELSE None]

\* A fold with too few rows to train on is only reported.
evaluate(fold) == fold @@ [model |-> IF size_rule(fold.train) THEN train_model(fold.train) ELSE None]

\* A window without listings makes no fold.
EvaluateFold ==
    /\ phase = "folds"
    /\ more_cutoffs
    /\ folds' = IF Fold.validation = {} THEN folds ELSE Append(folds, evaluate(Fold))
    /\ cutoff' = cutoff + FoldLength
    /\ phase' = IF check_no_look_ahead(Fold) THEN phase ELSE "failed"
    /\ UNCHANGED <<inputs, rows, model, candidate, registered>>

Compare ==
    /\ phase = "folds"
    /\ ~more_cutoffs
    /\ candidate' = (evaluated # {} /\ candidate_verdict)
    /\ phase' = "final"
    /\ UNCHANGED <<inputs, rows, cutoff, folds, model, registered>>

TrainFinal ==
    /\ phase = "final"
    /\ model' = IF size_rule(rows) THEN train_model(rows) ELSE None
    /\ phase' = "logging"
    /\ UNCHANGED <<inputs, rows, cutoff, folds, candidate, registered>>

\* Logging the run can fail at any call, before or after the model's version was made.
LogToMlflow ==
    /\ phase = "logging"
    /\ \/ phase' = "finished" /\ registered' = (model # None /\ ~exploratory /\ evaluated # {})
       \/ phase' = "failed" /\ registered' \in {FALSE, model # None /\ ~exploratory /\ evaluated # {}}
    /\ UNCHANGED <<inputs, rows, cutoff, folds, model, candidate>>

Next == Build \/ EvaluateFold \/ Compare \/ TrainFinal \/ LogToMlflow

Spec == Init /\ [][Next]_vars

-----------------------------------------------------------------------------
(* What judges a model is out of its sample: a fold's model, its           *)
(* calibration and its threshold rest on listings first seen a whole label *)
(* horizon before those it is judged on ("puts at least 14 days between a  *)
(* training listing and a validation listing", train_student.py:12-15),    *)
(* save for the second that a decision may be off; and each calibration    *)
(* score is from a model fitted on earlier decisions only.                 *)
OutOfSample ==
    \A i \in evaluated :
        LET m == folds[i].model
            basis == m.fit \cup {m.calibration[j].of : j \in DOMAIN m.calibration}
        IN  /\ ~exploratory =>
                 \A l \in basis, v \in folds[i].validation : decided_at(l) + Horizon <= decided_at(v) + Tolerance
            /\ \A j \in DOMAIN m.calibration :
                 \A l \in m.calibration[j].fit : decided_at(l) <= decided_at(m.calibration[j].of)
            /\ \A j \in DOMAIN m.calibration : m.calibration[j].of \notin m.calibration[j].fit

(* The folds share out the decisions: once they have all been seen, every  *)
(* listing decided at or after the first cutoff was validated in one fold, *)
(* and earlier ones in none (walk_forward_folds).                          *)
ValidatedOnce ==
    phase = "final" /\ rows # {} =>
        \A l \in rows :
            Cardinality({i \in DOMAIN folds : l \in folds[i].validation})
                = IF decided_at(l) < first_cutoff(rows) THEN 0 ELSE 1

(* The operating threshold earns the most on the calibration rows: no      *)
(* other threshold that approves MinSample of them or more does better,    *)
(* provided that no two of them have the same probability                  *)
(* (choose_threshold).                                                     *)
ThresholdBest ==
    \A i \in evaluated :
        LET m == folds[i].model
            sample == {m.calibration[j].of : j \in DOMAIN m.calibration}
            above(t) == {l \in sample : probability[l] >= t}
        IN  Cardinality({probability[l] : l \in sample}) = Cardinality(sample) /\ Cardinality(sample) >= MinSample =>
                /\ Cardinality(above(m.threshold)) >= MinSample
                /\ \A t \in Probabilities :
                     Cardinality(above(t)) >= MinSample => net_pnl(above(m.threshold)) >= net_pnl(above(t))
=============================================================================
