---------------------------- MODULE MCDetection ----------------------------
(* Small instances of Detection for TLC.                                   *)
EXTENDS Detection, TLC

Symmetry == Permutations(Listings)

\* Once an anomaly is followed, the consumer has taken its last tick, and the same state without the anomaly is checked too.
View == IF job = NoJob /\ trade = NoJob THEN vars ELSE <<job, trade, baseline, troubles>>

\* A baseline that buys at a profit, and one whose support floor is above what the item nets.
MCBaselines == {[floor |-> 10, resale |-> 15], [floor |-> 9, resale |-> 10]}
=============================================================================
