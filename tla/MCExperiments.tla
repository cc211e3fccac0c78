--------------------------- MODULE MCExperiments ---------------------------
(***************************************************************************)
(* Small instances of Experiments, and the student model (Student): a      *)
(* behaviour is of one of them, and the others stay where they start.      *)
(*                                                                         *)
(* Replays: two listings of one item and its lowest ask.  A behaviour is   *)
(* about the builds and the order of events, the purchases, what the rules *)
(* say of a tick, or the labels.  Calibration: about the market that the   *)
(* questions show, the conversations of two questions, the order of the    *)
(* questions over several runs, or the report of their answers.  Student:  *)
(* about when the listings of the folds were decided, or about what the    *)
(* last rows of a training set earn and how probable they are.             *)
(***************************************************************************)
EXTENDS Experiments

VARIABLES
    subject,
    sighted, margin, probability, approved, logged, scorable, labels_as_of, exploratory,   \* of Student
    rows, cutoff, folds, model, candidate, registered, phase

replay == <<scorecardVars>>

student == <<sighted, margin, probability, approved, logged, scorable, labels_as_of, exploratory,
             rows, cutoff, folds, model, candidate, registered, phase>>

Student == INSTANCE Student WITH
    Listings <- 1..7, MaxTime <- 6, Probabilities <- {1, 2, 3}, NetMargins <- {-2, -1, 2, 3},
    Horizon <- 3, Revise <- 2, Tolerance <- 1, Hour <- 2, FoldLength <- 2, Blocks <- 3,
    MinTrain <- 2, MinMinority <- 1, MinSample <- 2, Even <- 2, None <- [fit |-> {}]

NoBaseline == [average |-> -1, floor |-> -1, cv |-> -1, volume |-> -1, latest |-> -1]
Baseline == [average |-> 1000, floor |-> 0, cv |-> 5, volume |-> 30, latest |-> 950]
MCInputs == {[price |-> 900, mean |-> 1000, z |-> -3, source |-> "hybrid", scored_with |-> Baseline,
              stored |-> NoBaseline, float |-> 16, stickers |-> 40],
             [price |-> 900, mean |-> -1, z |-> 0, source |-> "none", scored_with |-> NoBaseline,
              stored |-> Baseline, float |-> -1, stickers |-> 0]}

MCCases == <<[decided |-> 2, item |-> "a", profitable |-> TRUE, margin |-> 3],
             [decided |-> 3, item |-> "b", profitable |-> FALSE, margin |-> -2],
             [decided |-> 3, item |-> "a", profitable |-> FALSE, margin |-> -1]>>
MCVariants == <<"adversarial", "neutral">>
MCFailed == -1

MCScores == [z : {-3}, savings : {2}, stickers : {0}, macro : {FALSE}]
            \cup [z : {-2, -1}, savings : {1, 2}, stickers : {0, 1}, macro : {FALSE}]
            \cup [z : {-3}, savings : {2}, stickers : {0}, macro : {TRUE}]
MCLabels == [listed : {2, 4}, available : {10}, profitable : {"yes"}, margin : {2}]
            \cup [listed : {2}, available : {10}, profitable : {"no"}, margin : {-3}]
            \cup [listed : {2}, available : {10}, profitable : {"neutral"}, margin : {0}]
            \cup [listed : {2}, available : {14}, profitable : {"yes"}, margin : {2}]
MCLiveZ == -2
MCStickerZ == -1
MCSweepZ == {-3, -2, 0}

\* In the log only what the subject is about: approvals, and for the rules any decision at one moment.
About(line) ==
    line.type = "decision" =>
        IF subject = "rules" THEN line.time = LogStart /\ line.price = 1
        ELSE /\ line.d.approve /\ line.d.score.z = -3
             /\ subject # "purchases" => line.price = 1
             /\ subject = "builds" => line.of \in {"l1", "lowest"}

MCMargin == <<2, -1, 3, -2, -1, 2, 3>>
MCProbability == <<3, 1, 2, 1, 3, 2, 2>>
Vary(f, values) == {[l \in 1..7 |-> IF l \in 4..6 THEN g[l] ELSE f[l]] : g \in [4..6 -> values]}

\* Seven listings in the order of their numbers, one of them possibly shown twice.
MCSighted ==
    {f \in [1..7 -> {{t} : t \in 0..6} \cup {{1, 2}}] :
        /\ f[7] = {6}
        /\ \A l \in 1..6 : Min(f[l]) <= Min(f[l + 1])
        /\ Cardinality({l \in 1..7 : Cardinality(f[l]) > 1}) <= 1}

StudentInit ==
    /\ sighted \in IF subject = "folds" THEN MCSighted ELSE {[l \in 1..7 |-> {IF l = 7 THEN 4 ELSE 0}]}
    /\ margin \in IF subject = "threshold" THEN Vary(MCMargin, {-2, -1, 2, 3}) ELSE {MCMargin}
    /\ probability \in IF subject = "threshold" THEN Vary(MCProbability, {1, 2, 3}) ELSE {MCProbability}
    /\ approved = {1, 6} /\ labels_as_of = 10
    /\ logged \in IF subject = "folds" THEN {0, 2} ELSE {0}
    /\ scorable \in IF subject = "folds" THEN {logged, 2} ELSE {0}
    /\ exploratory \in (IF subject = "folds" THEN BOOLEAN ELSE {FALSE})
    /\ Student!Init

ReplaySubjects == {"builds", "purchases", "rules", "labels"}
StudentSubjects == {"folds", "threshold"}
CalibrationSubjects == {"market", "asks", "runs", "report"}

MCInit ==
    /\ subject \in ReplaySubjects \cup StudentSubjects \cup CalibrationSubjects \cup {"rates"}
    /\ CASE subject = "builds" -> builds \in SUBSET (0..3)
         [] subject \in {"purchases"} -> builds \in {{1}, {3, 4}}
         [] OTHER -> builds = {1}
    /\ subject # "labels" => labels = [l \in Listings \cup {Lowest} |-> NoLabel]
    /\ ScorecardInit
    /\ labels["l2"] # NoLabel => labels["l2"].profitable # "neutral" /\ labels["l2"].available = 10
    /\ labels["lowest"] # NoLabel => labels["lowest"].profitable = "no"
    /\ subject # "market" => market = [builds |-> {1}, sold |-> {}, listed |-> {}]
    /\ tool_loop = (subject = "asks")
    /\ Calibration!Init
    /\ StudentInit
    /\ Features!Init

ReplayNext ==
    /\ ScorecardNext
    /\ log' # log => About(log'[Len(log')])
    /\ Len(given') <= IF subject = "purchases" THEN MaxLogged ELSE 2
    \* Unless the stream is the subject, every event is logged and keeps its own time.
    /\ subject # "builds" =>
         /\ \A s \in Streams : head[s] \in Times /\ head'[s] = Wanted => given' # given
         /\ head'["snapshots"] \in {Wanted, Ended, last'["snapshots"]}
         /\ subject = "rules" => head'["snapshots"] \in {Wanted, Ended} /\ head'["feed"] \in {Wanted, Ended, LogStart}

Questions == Calibration!Questions
CalibrationNext ==
    /\ Calibration!Next
    /\ subject # "market"
    \* Only the report tells the answers apart, and asks one question at a time.
    /\ subject # "report" => \A q \in Questions : ToSet(lines'[q]) \subseteq {-1, 5}
    /\ subject = "report" => runs' <= 1 /\ quota' = FALSE /\ Cardinality(DOMAIN asks') <= 1
    /\ subject = "runs" => \A q \in Questions : -1 \in ToSet(lines'[q]) => q[1] <= 2
    \* The conversations of the last trade, once the others are answered.
    /\ subject = "asks" =>
         /\ \A q \in Questions :
              q[1] < Len(MCCases) => /\ lines'[q] \in {<<>>, <<5>>}
                                     /\ q \in DOMAIN asks' => asks'[q] = Calibration!Fresh
         /\ (\E q \in Questions : q[1] < Len(MCCases) /\ lines'[q] = <<>>) => running' /\ ~quota'

MCNext ==
    /\ UNCHANGED subject
    /\ \/ subject \in ReplaySubjects /\ ReplayNext /\ UNCHANGED <<calibration, student, features>>
       \/ subject \in CalibrationSubjects /\ CalibrationNext /\ UNCHANGED <<replay, student, features>>
       \/ subject \in StudentSubjects /\ Student!Next /\ UNCHANGED <<replay, calibration, features>>
       \/ subject = "rates" /\ Features!Next /\ UNCHANGED <<replay, calibration, student>>

MCSpec == MCInit /\ [][MCNext]_<<subject, replay, calibration, student, features>>

(* Both reports: slices, drawdown and recall of a scorecard, gates and bins of a calibration. *)
ReportExact ==
    /\ subject = "labels" => SlicesAddUp /\ DrawdownWorst
    /\ subject = "report" => Calibration!ReportAddsUp

(* Student: models are judged out of sample, and the folds share the rows out. *)
FoldsSound == subject \in StudentSubjects => Student!OutOfSample /\ Student!ValidatedOnce

(* Student: the threshold is the best one. *)
ThresholdBest == subject \in StudentSubjects => Student!ThresholdBest
=============================================================================
