----------------------------- MODULE MCPricing -----------------------------
(***************************************************************************)
(* Quantities and prices up to 2, drafts one beyond on either side, two    *)
(* rows, two requests at a time.  Of the requests two are disjoint, two    *)
(* overlap, one is inverted and one is without a price.                    *)
(***************************************************************************)
EXTENDS Pricing, TLC

CONSTANTS w1, w2

MCWorkers == {w1, w2}
MCRequests == {Tier(1, 1, 1), Tier(2, 2, 1), Tier(1, 2, 2), Tier(2, 1, 1), Tier(2, 2, 0)}
MCDraftQtys == 0..3
MCDraftPrices == {1, 2, 3}
MCInexactPrices == {2}
Symmetry == Permutations(MCWorkers)
=============================================================================
