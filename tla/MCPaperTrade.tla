---------------------------- MODULE MCPaperTrade ----------------------------
(* A small instance of PaperTrade for TLC. *)
EXTENDS PaperTrade, TLC

CONSTANTS g1, g2, l1

\* A listing shown at two prices, and the snapshot of the first.
MCOffers == {[good |-> g1, listing |-> l1], [good |-> g1, listing |-> NoListing], [good |-> g2, listing |-> l1]}

Symmetry == Permutations(Workers) \cup Permutations(Requests)
=============================================================================
