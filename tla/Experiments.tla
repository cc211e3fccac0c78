---------------------------- MODULE Experiments ----------------------------
(***************************************************************************)
(* What is learned from the recorded market: replays and their scorecards  *)
(* (Replay, Scorecard), the CFO's calibration (Calibration) and the        *)
(* features of a listing (Features).  They share nothing: a step is of one *)
(* of them.                                                                *)
(***************************************************************************)
EXTENDS Scorecard

CONSTANTS
    Cases, Variants, Concurrency, MaxToolRounds, MaxRetries, Unit, Verdicts, Failed, Thresholds, Bins,   \* of Calibration
    SalesSpan, ListingsSpan, LastMoment, MaxRuns,
    Keys, Inputs, RateWindow, LastTick, MaxRows                                                          \* of Features

VARIABLES
    tool_loop, market, lines, running, pending, asks, quota, runs,    \* of Calibration
    now, times, decided                                               \* of Features

calibration == <<tool_loop, market, lines, running, pending, asks, quota, runs>>
features == <<now, times, decided>>

Calibration == INSTANCE Calibration WITH Probabilities <- Verdicts, MaxTime <- LastMoment

Features == INSTANCE Features WITH Hour <- RateWindow, MaxTime <- LastTick

ASSUME ExperimentsAssumption == Calibration!CalibrationAssumption /\ Features!RateAssumption

ExperimentsInit == ScorecardInit /\ Calibration!Init /\ Features!Init

ExperimentsNext ==
    \/ ScorecardNext /\ UNCHANGED <<calibration, features>>
    \/ Calibration!Next /\ UNCHANGED <<scorecardVars, features>>
    \/ Features!Next /\ UNCHANGED <<scorecardVars, calibration>>

ExperimentsSpec == ExperimentsInit /\ [][ExperimentsNext]_<<scorecardVars, calibration, features>>

(* Calibration and Features: a question shows what was known when its trade was decided, and a listing's row counts the
   listings of the hour before. *)
SeesWhatWasKnown == Calibration!SeesWhatWasKnown /\ Features!RateExact

(* Calibration: no question is paid for twice, and what a stopped run leaves is a sample of the trades. *)
PaidOnce == Calibration!PaidOnce /\ Calibration!LeavesSample
=============================================================================
